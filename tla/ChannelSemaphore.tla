--------------------------- MODULE ChannelSemaphore ---------------------------
(***************************************************************************)
(* One ChannelSemaphore and any callers of it, in any order its methods    *)
(* allow.  A caller acquires with or without a timeout, holds a slot once  *)
(* granted and gives it back through its release closure; ceiling changes  *)
(* and destroy come from whoever observes the server.                      *)
(***************************************************************************)
EXTENDS SemaphoreState, FiniteSets

CONSTANTS
    Keepers     \* callers that keep their slot as long as the user likes: openShell

CallersAssumption == IsFiniteSet(Callers) /\ Keepers \subseteq Callers

VARIABLES
    sem,      \* the semaphore
    caller    \* what each caller's acquire() has come to

vars == <<sem, caller>>

\* timed: waiting with a timeout.
CallerStates == {"idle", "waiting", "timed", "holding"}

Waiting == {c \in Callers : caller[c] \in {"waiting", "timed"}}
Holders == {c \in Callers : caller[c] = "holding"}

TypeOK ==
    /\ sem \in SemaphoreRecord
    /\ caller \in [Callers -> CallerStates]

Init ==
    /\ sem = NewSemaphore
    /\ caller = [c \in Callers |-> "idle"]

------------------------------------------------------------------------------
Acquire(c, how) ==
    /\ caller[c] = "idle"
    /\ \/ /\ HasSlot(sem)
          /\ sem' = Granted(sem)
          /\ caller' = [caller EXCEPT ![c] = "holding"]
       \/ /\ ~HasSlot(sem)
          /\ sem' = Queued(sem, c)
          /\ caller' = [caller EXCEPT ![c] = how]

Timeout(c) ==
    /\ caller[c] = "timed"
    /\ sem' = TimedOut(sem, c)
    /\ caller' = [caller EXCEPT ![c] = "idle"]

Release(c) ==
    /\ caller[c] = "holding"
    /\ sem' = Released(sem)
    /\ caller' = [d \in Callers |->
                    IF d \in Woken(sem) THEN "holding"
                    ELSE IF d = c THEN "idle" ELSE caller[d]]

\* A channel was opened, or the server refused to open one.
RecordSuccess == sem' = Succeeded(sem)  /\ UNCHANGED caller
ReduceMax     == sem' = ReducedMax(sem) /\ UNCHANGED caller

\* Mutant: the queue is dropped without rejecting the waiters.
DestroyLeavesWaiters ==
    /\ ~sem.destroyed
    /\ sem' = Destroyed(sem)
    /\ UNCHANGED caller

Destroy ==
    /\ ~sem.destroyed
    /\ sem' = Destroyed(sem)
    /\ caller' = [c \in Callers |-> IF c \in Waiting THEN "idle" ELSE caller[c]]

Next ==
    \/ \E c \in Callers :
          Acquire(c, "waiting") \/ Acquire(c, "timed") \/ Timeout(c) \/ Release(c)
    \/ RecordSuccess \/ ReduceMax \/ Destroy

Spec == Init /\ [][Next]_vars

\* A command on a channel ends, and timers fire.  A shell may stay open forever.
Fairness ==
    /\ \A c \in Callers \ Keepers : WF_vars(Release(c))
    /\ \A c \in Callers : WF_vars(Timeout(c))

FairSpec == Spec /\ Fairness

------------------------------------------------------------------------------
(* Properties *)

\* No slot is leaked or given back twice: while the semaphore is in use the
\* counter is exactly the number of callers that hold a slot, through hand-overs,
\* timeouts and ceiling changes.
NoSlotLeak == ~sem.destroyed => sem.active = Cardinality(Holders)

\* The queue lists each waiting caller once and nobody else, so a timed-out
\* waiter can never be granted a slot it no longer wants.
QueueIsWaiting ==
    /\ \A i, j \in 1 .. Len(sem.queue) : sem.queue[i] = sem.queue[j] => i = j
    /\ {sem.queue[i] : i \in 1 .. Len(sem.queue)} = Waiting

\* A waiter never waits on an idle semaphore: increaseMax and timeouts wake
\* nobody, so somebody must hold a slot whose release will.
NoStrandedWaiter == sem.queue # <<>> /\ ~sem.destroyed => sem.active >= 1

\* Adaptation never takes more channels than the configuration allows, even
\* though a hand-over ignores the current ceiling.
WithinConfigured == sem.active <= InitialMax

\* Every acquire on a semaphore in use is granted, times out or is rejected. One
\* that came without a timeout may have to wait for the user when shells hold all
\* the slots there are.
KeepersHoldAll == Holders # {} /\ Holders \subseteq Keepers
WaiterSettles(c) ==
    c \in Waiting /\ ~sem.destroyed ~>
        c \notin Waiting \/ (caller[c] = "waiting" /\ KeepersHoldAll)
==============================================================================
