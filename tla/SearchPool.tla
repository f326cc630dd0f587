------------------------------ MODULE SearchPool ------------------------------
(***************************************************************************)
(* The worker pools of src/webviews/SearchPanel.ts: performSearch on one   *)
(* server, with the directory tree explored by workers that share a queue, *)
(* priority throttling, the global cap, cancelling and keeping searches.   *)
(*                                                                         *)
(* Each search has one pool, on one path; a pool is registered under its   *)
(* server and path, so that two searches on one path share a key.  What a  *)
(* listing finds is only counted: `queue' holds the kinds of the items.    *)
(* searchParallelProcesses = 1 (no pool), the filename index and the       *)
(* results themselves are left out, auto-connecting is one await.          *)
(***************************************************************************)
EXTENDS Naturals, Sequences, FiniteSets, FiniteSetsExt

CONSTANTS
    MaxSearches,   \* searches started (bound)
    Paths,         \* paths that may be searched
    MaxProcesses,  \* largest maxSearchProcesses (50 in the code)
    MaxWorkers,    \* MAX_GLOBAL_SEARCH_WORKERS
    MaxItems       \* directories and file batches of one tree (bound)

ASSUME SizesAssumption ==
    /\ MaxSearches \in Nat
    /\ MaxProcesses \in Nat \ {0, 1}
    /\ MaxWorkers \in Nat \ {0}
    /\ MaxItems \in Nat \ {0}

\* currentSearchId counts up; no pool is registered under NoSearch's key.
Searches == 1 .. MaxSearches
NoSearch == 0

VARIABLES
    search,      \* per id: its entry in activeSearches, its counters
    pool,        \* per id: the local state of its worker pool
    registered,  \* activeWorkerPools: whose pool each path's key leads to
    userOps,     \* a non-search activity of the user runs on the connection
    hung         \* a synchronous loop of the extension host does not end

vars == <<search, pool, registered, userOps, hung>>

\* connecting: auto-connects are awaited; closing: the pool is over, the
\* finally of performSearch is not.  listed: the id is in activeSearches.
SearchRecord ==
    [phase : {"none", "connecting", "searching", "closing", "over"},
     path : Paths, listed : BOOLEAN, kept : BOOLEAN, aborted : BOOLEAN,
     completed : 0 .. MaxItems, total : 0 .. MaxItems, done : BOOLEAN]

\* listing, grepping, waiting, posting: how many workers await listEntries,
\* searchFiles, the 50 ms timer, the chunked post.  pending: pendingDirListings.
PoolRecord ==
    [queue : Seq({"dir", "files"}), listing : Nat, grepping : Nat, waiting : Nat,
     posting : Nat, pending : Nat, desired : 1 .. MaxProcesses, full : 1 .. MaxProcesses]

EmptyPool == [queue |-> <<>>, listing |-> 0, grepping |-> 0, waiting |-> 0,
              posting |-> 0, pending |-> 0, desired |-> 1, full |-> 1]

TypeOK ==
    /\ search \in [Searches -> SearchRecord]
    /\ pool \in [Searches -> PoolRecord]
    /\ registered \in [Paths -> Searches \cup {NoSearch}]
    /\ userOps \in BOOLEAN
    /\ hung \in BOOLEAN

Init ==
    /\ \E p \in Paths :
          search = [s \in Searches |->
                      [phase |-> "none", path |-> p, listed |-> FALSE, kept |-> FALSE,
                       aborted |-> FALSE, completed |-> 0, total |-> 0, done |-> FALSE]]
    /\ pool = [s \in Searches |-> EmptyPool]
    /\ registered = [p \in Paths |-> NoSearch]
    /\ userOps = FALSE
    /\ hung = FALSE

------------------------------------------------------------------------------
(* Workers *)

\* activeWorkerCount
Active(p) == p.listing + p.grepping + p.waiting + p.posting

Smaller(m, n) == IF m < n THEN m ELSE n

\* n more workers run up to their first await: each takes an item while there
\* is one, the others wait for the listings that are pending.
Joined(p, n) ==
    LET k == Smaller(n, Len(p.queue))
        dirs == Cardinality({i \in 1 .. k : p.queue[i] = "dir"})
    IN  [p EXCEPT !.queue = SubSeq(@, k + 1, Len(@)),
                  !.listing = @ + dirs, !.pending = @ + dirs,
                  !.grepping = @ + k - dirs,
                  !.waiting = @ + n - k]

Drained(p) == p.queue = <<>> /\ p.pending = 0

\* Mutant: waits for listings although none is pending.
TakeNextOrWait(p) == Joined(p, 1)
\* A worker, no longer counted in p, goes on: it leaves when nothing is left.
TakeNext(p) == IF Drained(p) THEN p ELSE Joined(p, 1)

\* Mutant: Shrinks one too early, down to none.
LoopToNone(p, aborted) ==
    IF aborted \/ Active(p) + 1 >= p.desired THEN p ELSE TakeNext(p)

\* The head of the worker's loop: it also leaves an aborted search and a pool
\* that is to shrink, which keeps one worker.
Loop(p, aborted) ==
    IF aborted \/ (Active(p) + 1 > p.desired /\ Active(p) >= 1)
    THEN p
    ELSE TakeNext(p)

------------------------------------------------------------------------------
(* Priority throttling *)

PoolsIn(reg) == {reg[p] : p \in Paths} \ {NoSearch}

\* totalActiveSearchWorkers
TotalWorkers(pools, reg) == FoldSet(LAMBDA s, n : n + Active(pools[s]), 0, PoolsIn(reg))

\* Mutant: Forgets the global cap.
RoomWithoutCap(pools, reg, s) ==
    IF Active(pools[s]) < pools[s].desired THEN pools[s].desired - Active(pools[s]) ELSE 0

\* How many workers may join pool s.  A pool that lost its key to another search
\* on its path does not count towards the cap it looks at.
Room(pools, reg, s) ==
    LET p == pools[s]
        total == TotalWorkers(pools, reg)
        wanted == p.desired - Active(p)
    IN  IF Active(p) >= p.desired \/ total >= MaxWorkers THEN 0
        ELSE IF s \in PoolsIn(reg) THEN Smaller(wanted, MaxWorkers - total) ELSE wanted

EffectiveCount(full, searches, ops) ==
    IF ops THEN 1 ELSE (full + searches - 1) \div searches

\* updatePriority on pool s, the others as they are.  A pool whose target
\* changed is filled up at once.  A worker that finds its search aborted or its
\* pool drained leaves before it awaits anything, so that the loop which adds
\* workers never ends.
Retarget(srch, pools, reg, ops, s) ==
    LET e == EffectiveCount(pools[s].full, Cardinality(PoolsIn(reg)), ops)
        retargeted == [pools EXCEPT ![s].desired = e]
        n == Room(retargeted, reg, s)
        filled == Joined(retargeted[s], n)
        leaves == srch[s].aborted \/ (filled.waiting > pools[s].waiting /\ filled.pending = 0)
    IN  IF pools[s].desired = e
        THEN [pool |-> pools, hung |-> FALSE]
        ELSE [pool |-> [retargeted EXCEPT ![s] = filled], hung |-> n > 0 /\ leaves]

UpdatePriority(srch, pools, reg, ops) ==
    FoldSet(LAMBDA s, acc :
                LET r == Retarget(srch, acc.pool, reg, ops, s)
                IN  [pool |-> r.pool, hung |-> acc.hung \/ r.hung],
            [pool |-> pools, hung |-> FALSE], PoolsIn(reg))

Throttling(srch) == \E s \in Searches : srch[s].listed

\* The end of a handler that changed what updatePriority looks at.
Reprioritize(srch, pools, reg, ops) ==
    LET u == IF Throttling(search) \/ Throttling(srch)
             THEN UpdatePriority(srch, pools, reg, ops)
             ELSE [pool |-> pools, hung |-> FALSE]
    IN  /\ search' = srch
        /\ pool' = u.pool
        /\ registered' = reg
        /\ userOps' = ops
        /\ hung' = u.hung

Unregistered(owners) == [p \in Paths |-> IF registered[p] \in owners THEN NoSearch
                                                                     ELSE registered[p]]

------------------------------------------------------------------------------
(* The panel's messages and the user's other work *)

\* A new search aborts those that are not kept, which are listed no more.
Search(s, p) ==
    /\ ~hung
    /\ search[s].phase = "none"
    /\ \A t \in 1 .. s - 1 : search[t].phase # "none"
    /\ LET others == [t \in Searches |->
                        IF search[t].listed /\ ~search[t].kept
                        THEN [search[t] EXCEPT !.aborted = TRUE, !.listed = FALSE]
                        ELSE search[t]]
       IN  Reprioritize([others EXCEPT ![s].phase = "connecting", ![s].path = p,
                                       ![s].listed = TRUE],
                        pool, registered, userOps)

Cancelled(owners) ==
    [s \in Searches |-> IF s \in owners /\ search[s].listed
                        THEN [search[s] EXCEPT !.aborted = TRUE, !.listed = FALSE]
                        ELSE search[s]]

\* cancelSearch(): every listed search, and every pool's entry.
CancelAll ==
    /\ ~hung
    /\ Throttling(search)
    /\ Reprioritize(Cancelled(Searches), pool, Unregistered(Searches), userOps)

\* cancelSearch(searchId)
CancelSearch(s) ==
    /\ ~hung
    /\ search[s].phase # "none"
    /\ Reprioritize(Cancelled({s}), pool, Unregistered({s}), userOps)

KeepSearch(s) ==
    /\ ~hung
    /\ search[s].listed
    /\ search' = [search EXCEPT ![s].kept = TRUE]
    /\ UNCHANGED <<pool, registered, userOps, hung>>

\* The onCancel of a batch's activity only aborts.
CancelActivity(s) ==
    /\ ~hung
    /\ pool[s].grepping > 0
    /\ search' = [search EXCEPT ![s].aborted = TRUE]
    /\ UNCHANGED <<pool, registered, userOps, hung>>

\* setServerMaxProcesses
SetMaxProcesses(n) ==
    /\ ~hung
    /\ Reprioritize(search,
                    [s \in Searches |-> IF s \in PoolsIn(registered)
                                        THEN [pool[s] EXCEPT !.full = n]
                                        ELSE pool[s]],
                    registered, userOps)

\* A download, a directory load, a terminal ... starts, or the last one ends.
ToggleUserOps ==
    /\ ~hung
    /\ Reprioritize(search, pool, registered, ~userOps)

------------------------------------------------------------------------------
(* performSearch *)

\* The connections are resolved: the pool is registered, throttled, and gets
\* its first worker, if the throttling has not given it one already.
BeginPool(s) ==
    /\ ~hung
    /\ search[s].phase = "connecting"
    /\ ~search[s].aborted
    /\ \E n \in 2 .. MaxProcesses :
          LET fresh == [EmptyPool EXCEPT !.queue = <<"dir">>, !.desired = n, !.full = n]
              reg == [registered EXCEPT ![search[s].path] = s]
              u == UpdatePriority(search, [pool EXCEPT ![s] = fresh], reg, userOps)
          IN  /\ pool' = [u.pool EXCEPT ![s] = Loop(@, FALSE)]
              /\ registered' = reg
              /\ hung' = u.hung
    /\ search' = [search EXCEPT ![s].phase = "searching", ![s].total = 1]
    /\ UNCHANGED userOps

\* The search was aborted while the connections were awaited.
AbortedConnecting(s) ==
    /\ ~hung
    /\ search[s].phase = "connecting"
    /\ search[s].aborted
    /\ search' = [search EXCEPT ![s].phase = "closing"]
    /\ UNCHANGED <<pool, registered, userOps, hung>>

\* No worker of the pool is left, nor anything that reads its state.  Whoever
\* owns its key now loses it.
PoolEnds(s) ==
    /\ ~hung
    /\ search[s].phase = "searching"
    /\ Active(pool[s]) = 0
    /\ Reprioritize([search EXCEPT ![s].phase = "closing"],
                    [pool EXCEPT ![s] = EmptyPool],
                    [registered EXCEPT ![search[s].path] = NoSearch], userOps)

\* The finally of performSearch.
SearchOver(s) ==
    /\ ~hung
    /\ search[s].phase = "closing"
    /\ Reprioritize([search EXCEPT ![s].phase = "over", ![s].listed = FALSE],
                    pool, Unregistered({s}), userOps)

------------------------------------------------------------------------------
(* The answers the workers await *)

\* Mutant: Forgets completedCount >= totalCount in isDone.
CountedWhenDrained(c, p) ==
    [c EXCEPT !.completed = @ + 1, !.done = @ \/ (c.listed /\ Drained(p))]

\* The worker, no longer counted in p, completes an item of s, whose record is
\* c.  What is posted says whether all is done.
Counted(c, p) ==
    [c EXCEPT !.completed = @ + 1,
              !.done = @ \/ (c.listed /\ c.completed + 1 >= c.total /\ Drained(p))]

\* It goes on, unless its search is listed no more.
CountedAndLoops(s, c, p) ==
    /\ search' = [search EXCEPT ![s] = Counted(c, p)]
    /\ pool' = [pool EXCEPT ![s] = IF c.listed THEN Loop(p, c.aborted) ELSE p]
    /\ UNCHANGED <<registered, userOps, hung>>

\* listEntries returns.  An aborted worker leaves the listing pending; else what
\* was found is queued, workers join up to the target and the cap, and the
\* listing counts as completed.
ListingReturns(s) ==
    /\ ~hung
    /\ pool[s].listing > 0
    /\ IF search[s].aborted
       THEN /\ pool' = [pool EXCEPT ![s].listing = @ - 1]
            /\ UNCHANGED <<search, registered, userOps, hung>>
       ELSE \E files, dirs \in 0 .. MaxItems :
               LET found == [i \in 1 .. files + dirs |-> IF i <= files THEN "files" ELSE "dir"]
                   grown == [pool EXCEPT ![s].queue = @ \o found]
                   n == Smaller(Room(grown, registered, s), Len(grown[s].queue))
               IN  /\ search[s].total + files + dirs <= MaxItems
                   /\ CountedAndLoops(s, [search[s] EXCEPT !.total = @ + files + dirs],
                          [Joined(grown[s], n) EXCEPT !.listing = @ - 1, !.pending = @ - 1])

\* Mutant: Decrements pendingDirListings in the catch and in a finally.
ListingFailsTwice(s) ==
    /\ ~hung
    /\ pool[s].listing > 0
    /\ pool' = [pool EXCEPT ![s].listing = @ - 1, ![s].pending = @ - 2, ![s].grepping = @ + 1]
    /\ UNCHANGED <<search, registered, userOps, hung>>

\* Mutant: Forgets to decrement pendingDirListings.
ListingFailsPending(s) ==
    /\ ~hung
    /\ pool[s].listing > 0
    /\ pool' = [pool EXCEPT ![s].listing = @ - 1, ![s].grepping = @ + 1]
    /\ UNCHANGED <<search, registered, userOps, hung>>

\* listEntries fails: the worker greps the whole directory instead.
ListingFails(s) ==
    /\ ~hung
    /\ pool[s].listing > 0
    /\ pool' = [pool EXCEPT ![s].listing = @ - 1, ![s].pending = @ - 1, ![s].grepping = @ + 1]
    /\ UNCHANGED <<search, registered, userOps, hung>>

\* searchFiles returns; its results may reach the limit, which aborts the search.
GrepReturns(s) ==
    /\ ~hung
    /\ pool[s].grepping > 0
    /\ LET p == [pool[s] EXCEPT !.grepping = @ - 1]
       IN  IF search[s].aborted
           THEN /\ pool' = [pool EXCEPT ![s] = p]
                /\ UNCHANGED search
           ELSE /\ \E limit \in BOOLEAN :
                      search' = [search EXCEPT ![s] = [Counted(search[s], p) EXCEPT !.aborted = limit]]
                /\ pool' = [pool EXCEPT ![s] = IF search[s].listed
                                               THEN [p EXCEPT !.posting = @ + 1]
                                               ELSE p]
    /\ UNCHANGED <<registered, userOps, hung>>

\* searchFiles throws.
GrepFails(s) ==
    /\ ~hung
    /\ pool[s].grepping > 0
    /\ CountedAndLoops(s, search[s], [pool[s] EXCEPT !.grepping = @ - 1])

\* The results are posted, in chunks.
Posted(s) ==
    /\ ~hung
    /\ pool[s].posting > 0
    /\ pool' = [pool EXCEPT ![s] = Loop([pool[s] EXCEPT !.posting = @ - 1], search[s].aborted)]
    /\ UNCHANGED <<search, registered, userOps, hung>>

\* The 50 ms of a waiting worker pass.
Wake(s) ==
    /\ ~hung
    /\ pool[s].waiting > 0
    /\ pool' = [pool EXCEPT ![s] = TakeNext([pool[s] EXCEPT !.waiting = @ - 1])]
    /\ UNCHANGED <<search, registered, userOps, hung>>

\* Nothing else runs in an extension host that loops.
LoopsForever == hung /\ UNCHANGED vars

Answer(s) ==
    \/ ListingReturns(s)
    \/ ListingFails(s)
    \/ GrepReturns(s)
    \/ GrepFails(s)

UserStep(s) ==
    \/ \E p \in Paths : Search(s, p)
    \/ CancelSearch(s)
    \/ KeepSearch(s)
    \/ CancelActivity(s)

Next ==
    \/ \E s \in Searches :
          \/ UserStep(s)
          \/ BeginPool(s)
          \/ AbortedConnecting(s)
          \/ PoolEnds(s)
          \/ SearchOver(s)
          \/ Answer(s)
          \/ Posted(s)
          \/ Wake(s)
    \/ CancelAll
    \/ \E n \in 1 .. MaxProcesses : SetMaxProcesses(n)
    \/ ToggleUserOps
    \/ LoopsForever

Spec == Init /\ [][Next]_vars

\* Remote calls are answered, timers fire, promise callbacks run; no user acts.
Fairness ==
    \A s \in Searches :
        /\ WF_vars(BeginPool(s))
        /\ WF_vars(AbortedConnecting(s))
        /\ WF_vars(PoolEnds(s))
        /\ WF_vars(SearchOver(s))
        /\ WF_vars(ListingReturns(s) \/ ListingFails(s))
        /\ WF_vars(GrepReturns(s) \/ GrepFails(s))
        /\ WF_vars(Posted(s))
        /\ WF_vars(Wake(s))

FairSpec == Spec /\ Fairness

------------------------------------------------------------------------------
(* Properties *)

\* While a search runs, every item it counted is completed, queued, or held by
\* exactly one of its workers, and the listings it waits for are the running
\* ones: none is forgotten or taken twice while workers join, wait and leave.
Accounted ==
    \A s \in Searches :
        (search[s].phase = "searching" /\ ~search[s].aborted) =>
            /\ search[s].total - search[s].completed =
                  Len(pool[s].queue) + pool[s].listing + pool[s].grepping
            /\ pool[s].pending = pool[s].listing

\* The webview is told that a search is done only when nothing of it is queued
\* or running, and nothing is found afterwards.
DoneMeansAll ==
    \A s \in Searches : search[s].done =>
        pool[s].queue = <<>> /\ pool[s].listing = 0 /\ pool[s].grepping = 0

\* The workers of a search that nobody aborted leave only when all it found is
\* searched and the webview was told so: the pool is not abandoned by workers
\* that shrink, that see an empty queue, or that lose their registration.
NothingMissed ==
    \A s \in Searches :
        (search[s].phase \in {"closing", "over"} /\ ~search[s].aborted) =>
            search[s].done /\ search[s].completed = search[s].total

\* The work of a search is counted right, from its first listing to the last
\* word to the webview.
WorkCounted == Accounted /\ DoneMeansAll /\ NothingMissed

\* Workers that join a running pool stay within its target and, over the
\* registered pools, within the global cap.  (The first worker of a pool that
\* begins does not look at the cap.)
GrowthCapped ==
    [][(PoolsIn(registered') \subseteq PoolsIn(registered) /\ ~hung') =>
          \A s \in PoolsIn(registered') :
              Active(pool'[s]) > Active(pool[s]) =>
                  /\ Active(pool'[s]) <= pool'[s].desired
                  /\ TotalWorkers(pool', registered') <= MaxWorkers]_vars

\* A search that nobody aborts comes to its end.
SearchEnds ==
    \A s \in Searches :
        search[s].phase = "searching" ~> (search[s].phase = "over" \/ search[s].aborted \/ hung)

\* What the comment on the global cap wants (SearchPanel.ts:131): the throttling
\* never blocks the extension host.
NeverHangs == ~hung

\* A cancelled search comes to its end too.
CancelledEnds ==
    \A s \in Searches :
        (search[s].phase = "searching" /\ search[s].aborted) ~> (search[s].phase = "over" \/ hung)
==============================================================================
