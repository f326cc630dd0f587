---------------------------- MODULE SemaphoreState ----------------------------
(***************************************************************************)
(* src/services/ChannelSemaphore.ts as operators on the state of one       *)
(* semaphore.  All of its methods are synchronous, so each is one operator; *)
(* the modules that use them say who calls them and when.                  *)
(*                                                                         *)
(* A waiter is identified by the caller that waits.  That a granted slot is *)
(* given back at most once (`released' in the closure) is kept by the      *)
(* callers: they stop holding when they release.                           *)
(***************************************************************************)
EXTENDS Naturals, Sequences, SequencesExt

CONSTANTS
    Callers,     \* who may wait for a slot
    InitialMax,  \* sshLite.maxChannelsPerServer
    RecoverAfter \* consecutive successes that raise the ceiling: 5 in the code

InitialMaxAssumption == InitialMax \in Nat \ {0}
RecoverAssumption == RecoverAfter \in Nat \ {0}

SemaphoreRecord ==
    [max : 1 .. InitialMax, active : Nat, successes : 0 .. RecoverAfter - 1,
     queue : Seq(Callers), destroyed : BOOLEAN]

NewSemaphore ==
    [max |-> InitialMax, active |-> 0, successes |-> 0, queue |-> <<>>,
     destroyed |-> FALSE]

\* acquire: granted at once below the ceiling, else at the end of the queue.
\* It does not ask whether the semaphore was destroyed.
HasSlot(s)   == s.active < s.max
Granted(s)   == [s EXCEPT !.active = @ + 1]
Queued(s, c) == [s EXCEPT !.queue = Append(@, c)]

\* The timer of a queued acquire: the waiter leaves the queue.
Without(q, c) == RemoveFirst(q, c)
\* Mutant: the timer rejects but leaves the waiter queued.
TimedOutStaysQueued(s, c) == s
TimedOut(s, c) == [s EXCEPT !.queue = Without(@, c)]

\* Mutant: the first waiter is woken but its slot is not counted.
ReleasedUncounted(s) ==
    IF s.destroyed THEN s
    ELSE IF s.queue = <<>> THEN [s EXCEPT !.active = @ - 1]
    ELSE [s EXCEPT !.active = @ - 1, !.queue = Tail(@)]
\* Mutant: the slot is given back but nobody is woken.
ReleasedSilently(s) == IF s.destroyed THEN s ELSE [s EXCEPT !.active = @ - 1]

\* release: the first waiter takes the slot over, whatever the ceiling is now.
\* After destroy it does nothing.
Released(s) ==
    IF s.destroyed THEN s
    ELSE IF s.queue = <<>> THEN [s EXCEPT !.active = @ - 1]
    ELSE [s EXCEPT !.queue = Tail(@)]

\* Who is granted a slot by a release of s: none or one.
Woken(s) ==
    IF s.destroyed \/ s.queue = <<>> THEN {} ELSE {s.queue[1]}

\* Mutant: no floor.
ReducedToNothing(s) == [s EXCEPT !.max = @ - 1, !.successes = 0]

ReducedMax(s) ==
    [s EXCEPT !.max = IF @ > 1 THEN @ - 1 ELSE 1, !.successes = 0]

\* Mutant: no upper limit.
IncreasedBeyond(s) == [s EXCEPT !.max = @ + 1, !.successes = 0]

\* Nobody is woken: a waiter has to wait for the next release.
IncreasedMax(s) ==
    [s EXCEPT !.max = IF @ < InitialMax THEN @ + 1 ELSE InitialMax,
              !.successes = 0]

\* recordSuccess.
Succeeded(s) ==
    IF s.successes + 1 >= RecoverAfter
    THEN IncreasedMax(s)
    ELSE [s EXCEPT !.successes = @ + 1]

Destroyed(s) ==
    [s EXCEPT !.destroyed = TRUE, !.active = 0, !.queue = <<>>]

==============================================================================
