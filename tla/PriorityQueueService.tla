------------------------- MODULE PriorityQueueService -------------------------
(***************************************************************************)
(* src/services/PriorityQueueService.ts and its callers: the directory     *)
(* preloading of src/providers/FileTreeProvider.ts, the file preloading of *)
(* src/services/FileService.ts and the tail polls of                       *)
(* src/providers/ProgressiveFileContentProvider.ts.                        *)
(*                                                                         *)
(* enqueue and the processing loop are synchronous; only the tasks' own    *)
(* work awaits.  CRITICAL tasks, cancelConnection, reset and               *)
(* clearConnection have no caller outside the tests and are left out, as   *)
(* are the counters, which feed a status text.                             *)
(***************************************************************************)
EXTENDS Integers, Sequences, FiniteSets, FiniteSetsExt, SequencesExt

CONSTANTS
    Connections,
    Folders,     \* directories that may be preloaded, their cache keys
    Background,  \* preloaded files and tail polls: tasks without a cache key
    SlotChoices  \* values of sshLite.maxPreloadingConcurrency

SlotsAssumption == SlotChoices \subseteq Nat \ {0} /\ SlotChoices # {}
TasksAssumption == Folders \cap Background = {}

Tasks == Folders \cup Background

HIGH == 1
MEDIUM == 2
LOW == 3
IDLE == 4
Priorities == HIGH .. IDLE

VARIABLES
    queue,         \* connectionQueues: per connection and priority
    running,       \* activeByConnection: the tasks that hold a slot
    priority,      \* of a queued or running task, else 0
    cancelledAll,
    maxSlots,      \* maxSlotsPerConnection
    preloadQueue   \* FileTreeProvider.preloadQueue: keys being preloaded

vars == <<queue, running, priority, cancelledAll, maxSlots, preloadQueue>>

QueuedOn(k) == UNION {ToSet(queue[k][p]) : p \in Priorities}
Queued  == UNION {QueuedOn(k) : k \in Connections}
Running == UNION {running[k] : k \in Connections}

TypeOK ==
    /\ queue \in [Connections -> [Priorities -> Seq(Tasks)]]
    /\ running \in [Connections -> SUBSET Tasks]
    /\ priority \in [Tasks -> Priorities \cup {0}]
    /\ cancelledAll \in BOOLEAN
    /\ maxSlots \in SlotChoices
    /\ preloadQueue \subseteq Folders

Init ==
    /\ queue = [k \in Connections |-> [p \in Priorities |-> <<>>]]
    /\ running = [k \in Connections |-> {}]
    /\ priority = [t \in Tasks |-> 0]
    /\ cancelledAll = FALSE
    /\ maxSlots \in SlotChoices
    /\ preloadQueue = {}

------------------------------------------------------------------------------
(* The service *)

\* Mutant: every priority may take the last slot.
CanRunInAnySlot(p, n) == n < maxSlots

\* n tasks are running: a task of priority p needs p free slots.
CanRunAtPriority(p, n) == n < maxSlots /\ maxSlots - n >= p

\* processConnectionQueue on a connection with queues s.q and running tasks s.r.
\* The loop takes the most urgent task that may run, again and again.  The more
\* urgent a task, the fewer free slots it needs: when the task whose turn it is
\* may not run, no later one may, so the loop starts the tasks in order of
\* priority, then age, up to the first that may not run.
Process(s) ==
    LET ahead(p) == Cardinality(UNION {ToSet(s.q[r]) : r \in HIGH .. p - 1})
        starts(p) == Cardinality({i \in 1 .. Len(s.q[p]) :
                        CanRunAtPriority(p, Cardinality(s.r) + ahead(p) + i - 1)})
    IN  [q |-> [p \in Priorities |-> SubSeq(s.q[p], starts(p) + 1, Len(s.q[p]))],
         r |-> s.r \cup UNION {ToSet(SubSeq(s.q[p], 1, starts(p))) : p \in Priorities}]

Now(k) == [q |-> queue[k], r |-> running[k]]

EnqueueTo(s, t, p) == Process([s EXCEPT !.q[p] = Append(@, t)])

SetConnection(k, s) ==
    /\ queue' = [queue EXCEPT ![k] = s.q]
    /\ running' = [running EXCEPT ![k] = s.r]

\* enqueue: once cancelled, the call returns without the task.
Enqueue(k, t, p) ==
    IF cancelledAll
    THEN UNCHANGED <<queue, running, priority>>
    ELSE /\ SetConnection(k, EnqueueTo(Now(k), t, p))
         /\ priority' = [priority EXCEPT ![t] = p]

IsPreloadingInProgress == Queued # {} \/ Running # {}

IsConnectionCancelled(k) == cancelledAll

\* resetConnection clears what is kept per connection, which only
\* cancelConnection, without callers, ever sets.
ResetConnection(k) == UNCHANGED cancelledAll

UpdateConfig ==
    /\ maxSlots' \in SlotChoices
    /\ UNCHANGED <<queue, running, priority, cancelledAll, preloadQueue>>

------------------------------------------------------------------------------
(* Its callers *)

\* The caches and activeLoads are not modelled: a folder may be preloaded again
\* when no task for it is left.
Preloadable(t) == t \in Folders \ preloadQueue /\ priority[t] = 0

\* preloadParentFolder, and one round of the loop of preloadFrequentFolders.
PreloadParentFolder(k, t) ==
    /\ Preloadable(t)
    /\ preloadQueue' = preloadQueue \cup {t}
    /\ Enqueue(k, t, HIGH)
    /\ UNCHANGED <<cancelledAll, maxSlots>>

PreloadFrequentFolder(k, t) ==
    /\ ~IsConnectionCancelled(k)
    /\ Preloadable(t)
    /\ preloadQueue' = preloadQueue \cup {t}
    /\ Enqueue(k, t, MEDIUM)
    /\ UNCHANGED <<cancelledAll, maxSlots>>

\* preloadSubdirectories, for one subdirectory of the folder the user expands.
PreloadSubdirectory(k, t, p) ==
    /\ p \in {HIGH, MEDIUM}
    /\ Preloadable(t)
    /\ preloadQueue' = preloadQueue \cup {t}
    /\ IF IsConnectionCancelled(k) /\ ~IsPreloadingInProgress
       THEN ResetConnection(k)
       ELSE UNCHANGED cancelledAll
    /\ Enqueue(k, t, p)
    /\ UNCHANGED maxSlots

\* preloadFrequentFiles (IDLE) and the poll of a tail follower (MEDIUM).
EnqueueBackground(k, t, p) ==
    /\ p \in {IDLE, MEDIUM}
    /\ t \in Background /\ priority[t] = 0
    /\ Enqueue(k, t, p)
    /\ UNCHANGED <<cancelledAll, maxSlots, preloadQueue>>

\* Mutant: no cap.
SubPriorityUncapped(p) == p + 1

SubPriority(p) == IF p < IDLE THEN p + 1 ELSE IDLE

\* Mutant: the finally of a finished task starts no other.
FinishSilently(k, t, subs) ==
    /\ t \in running[k]
    /\ subs = {}
    /\ running' = [running EXCEPT ![k] = @ \ {t}]
    /\ priority' = [priority EXCEPT ![t] = 0]
    /\ preloadQueue' = preloadQueue \ {t}
    /\ UNCHANGED <<queue, cancelledAll, maxSlots>>

\* A task ends, well or badly.  A directory task may first enqueue
\* subdirectories it found, one priority lower, while it still holds its slot;
\* its key and its slot are freed and the queue is processed.
Finish(k, t, subs) ==
    /\ t \in running[k]
    /\ subs # {} => t \in Folders /\ ~IsConnectionCancelled(k)
    /\ \A u \in subs : Preloadable(u)
    /\ LET p == SubPriority(priority[t])
           s == FoldSet(LAMBDA u, acc : EnqueueTo(acc, u, p), Now(k), subs)
       IN  /\ SetConnection(k, Process([s EXCEPT !.r = @ \ {t}]))
           /\ priority' = [u \in Tasks |-> IF u = t THEN 0
                                           ELSE IF u \in subs THEN p ELSE priority[u]]
    /\ preloadQueue' = (preloadQueue \cup subs) \ {t}
    /\ UNCHANGED <<cancelledAll, maxSlots>>

\* Mutant: the queues are emptied, flag and keys are forgotten.
CancelQueuesOnly ==
    /\ queue' = [k \in Connections |-> [p \in Priorities |-> <<>>]]
    /\ priority' = [t \in Tasks |-> IF t \in Queued THEN 0 ELSE priority[t]]
    /\ UNCHANGED <<running, maxSlots, cancelledAll, preloadQueue>>

\* sshLite.cancelPreloading.
CancelPreloading ==
    /\ cancelledAll' = TRUE
    /\ queue' = [k \in Connections |-> [p \in Priorities |-> <<>>]]
    /\ priority' = [t \in Tasks |-> IF t \in Queued THEN 0 ELSE priority[t]]
    /\ preloadQueue' = {}
    /\ UNCHANGED <<running, maxSlots>>

------------------------------------------------------------------------------
\* At most three subdirectories of a folder are preloaded.
FinishSome(k, t) ==
    \E subs \in SUBSET Folders :
        IsFiniteSet(subs) /\ Cardinality(subs) <= 3 /\ Finish(k, t, subs)

Next ==
    \/ UpdateConfig
    \/ CancelPreloading
    \/ \E k \in Connections, t \in Tasks :
          \/ PreloadParentFolder(k, t)
          \/ PreloadFrequentFolder(k, t)
          \/ FinishSome(k, t)
          \/ \E p \in Priorities : PreloadSubdirectory(k, t, p) \/ EnqueueBackground(k, t, p)

Spec == Init /\ [][Next]_vars

\* The loads of a task come back or time out.
FairSpec == Spec /\ \A k \in Connections, t \in Tasks : WF_vars(FinishSome(k, t))

------------------------------------------------------------------------------
(* Properties *)

\* A key is in preloadQueue exactly while a task for it is queued or running, so
\* the folder can be preloaded again and the status bar can go idle.
KeysHaveTasks == ~cancelledAll => preloadQueue = {t \in Folders : priority[t] # 0}

\* Of several tasks queued in one step, the subdirectories of a directory task, one
\* enqueued later may take a slot that a less urgent task, started in this step,
\* had left free.  The second takes no more than the slot that the directory task
\* gives back, the third takes one that was reserved.
Late ==
    LET new == {t \in Tasks : priority[t] = 0 /\ priority'[t] # 0}
    IN  IF Cardinality(new) > 2 THEN Cardinality(new) - 2 ELSE 0

\* Reserved slots: when a task of priority p starts, p - 1 slots stay free for
\* more urgent work, also when several tasks start in one processing loop and
\* when a subdirectory is queued by a task that still holds its own slot; of these,
\* a third subdirectory may use one.
ReservedSlots ==
    [][\A k \in Connections : \A t \in running'[k] \ running[k] :
          Cardinality(running'[k]) + priority'[t] - 1 <= maxSlots + Late]_vars

\* No lost wake-up: after any event on a connection nothing that may run is left
\* queued.  (A changed slot limit takes effect at the next event only.)
NothingRunnableLeft ==
    [][\A k \in Connections :
          queue'[k] # queue[k] \/ running'[k] # running[k] =>
              \A p \in Priorities :
                  queue'[k][p] # <<>> =>
                      ~CanRunAtPriority(p, Cardinality(running'[k]))]_vars

\* Urgent tasks start, whatever the slot limit and however much is enqueued
\* after them.
HighStarts(k, t) == t \in ToSet(queue[k][HIGH]) ~> t \notin ToSet(queue[k][HIGH])
==============================================================================
