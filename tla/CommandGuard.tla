----------------------------- MODULE CommandGuard -----------------------------
(***************************************************************************)
(* src/services/CommandGuard.ts for one connection id: exec() with its     *)
(* retry loop, openShell(), the map of semaphores and removeSemaphore(),   *)
(* which the extension calls on every Disconnected event of the id.        *)
(*                                                                         *)
(* A call takes its semaphore from the map once and keeps it; `sems' holds *)
(* every semaphore a call still refers to.  Gens bounds how many there are *)
(* at the same time: one is taken again when nothing refers to it.         *)
(*                                                                         *)
(* connection.exec and connection.shell are external here: they succeed,   *)
(* fail to open a channel, or fail otherwise.                              *)
(***************************************************************************)
EXTENDS SemaphoreState, FiniteSets

CONSTANTS
    Execs,           \* concurrent exec() calls
    Shells,          \* concurrent openShell() calls and the channels they return
    Gens,            \* semaphores referred to at the same time (bound)
    NoGen,           \* the map has no semaphore for the id
    ExecMaxRetries   \* EXEC_MAX_RETRIES

CallersAssumption ==
    Callers = Execs \cup Shells /\ Execs \cap Shells = {} /\ IsFiniteSet(Callers)
GensAssumption == NoGen \notin Gens
RetryAssumption == ExecMaxRetries \in Nat

VARIABLES
    sems,      \* the semaphores, in the map or not
    current,   \* semaphores.get(id)
    call,      \* the calls
    activity   \* status of the activity exec() started, in ActivityService

vars == <<sems, current, call, activity>>

\* waiting: in acquire().  running: connection.exec or connection.shell is
\* pending.  delay: the 100 ms before a retry, inside the catch, so before the
\* finally that releases the slot.  open: the shell's channel is open.
\* exited: its 'exit' came, its 'close' has not.
PCs == {"idle", "waiting", "running", "delay", "open", "exited"}

Call == [pc : PCs, gen : Gens \cup {NoGen}, attempt : 0 .. ExecMaxRetries]

Idle == [pc |-> "idle", gen |-> NoGen, attempt |-> 0]

Holding == {"running", "delay", "open"}

TypeOK ==
    /\ sems \in [Gens -> SemaphoreRecord]
    /\ current \in Gens \cup {NoGen}
    /\ call \in [Callers -> Call]
    /\ activity \in [Execs -> {"none", "running", "completed", "failed"}]

Init ==
    /\ sems = [g \in Gens |-> NewSemaphore]
    /\ current = NoGen
    /\ call = [c \in Callers |-> Idle]
    /\ activity = [e \in Execs |-> "none"]

------------------------------------------------------------------------------
(* Parts of the calls *)

Referred(g) == g = current \/ \E c \in Callers : call[c].gen = g

\* getSemaphore: s is the semaphore in the map, created if there was none.
GetSemaphore(g, s) ==
    \/ current # NoGen /\ g = current /\ s = sems[g]
    \/ current = NoGen /\ ~Referred(g) /\ s = NewSemaphore

\* Call c acquires on semaphore g, whose state is s; `calls' are the other
\* calls as they stand by now.
AcquireOn(c, g, s, attempt, calls) ==
    /\ sems' = [sems EXCEPT ![g] = IF HasSlot(s) THEN Granted(s) ELSE Queued(s, c)]
    /\ call' = [calls EXCEPT ![c] =
                  [pc |-> IF HasSlot(s) THEN "running" ELSE "waiting",
                   gen |-> g, attempt |-> attempt]]

\* The calls once the waiter a release of s wakes has its slot.
AfterRelease(s) ==
    [c \in Callers |->
        IF c \in Woken(s) THEN [call[c] EXCEPT !.pc = "running"] ELSE call[c]]

\* Call c gives its slot back, semaphore s having taken its outcome, and is next.
ReleaseOf(c, s, next) ==
    /\ sems' = [sems EXCEPT ![call[c].gen] = Released(s)]
    /\ call' = [AfterRelease(s) EXCEPT ![c] = next]

Sem(c) == sems[call[c].gen]

------------------------------------------------------------------------------
(* exec *)

ExecBegin(e) ==
    /\ call[e].pc = "idle"
    /\ activity' = [activity EXCEPT ![e] = "running"]
    /\ \E g \in Gens, s \in {NewSemaphore} \cup {sems[h] : h \in Gens} :
          /\ GetSemaphore(g, s)
          /\ current' = g
          /\ AcquireOn(e, g, s, 0, call)

ExecSucceeds(e) ==
    /\ call[e].pc = "running"
    /\ ReleaseOf(e, Succeeded(Sem(e)), Idle)
    /\ activity' = [activity EXCEPT ![e] = "completed"]
    /\ UNCHANGED current

\* The server has no channel left: the ceiling goes down and, unless this was
\* the last attempt, the call sleeps with its slot.
ExecOpenFailure(e) ==
    /\ call[e].pc = "running"
    /\ \/ /\ call[e].attempt < ExecMaxRetries
          /\ sems' = [sems EXCEPT ![call[e].gen] = ReducedMax(@)]
          /\ call' = [call EXCEPT ![e].pc = "delay"]
          /\ UNCHANGED activity
       \/ /\ call[e].attempt = ExecMaxRetries
          /\ ReleaseOf(e, ReducedMax(Sem(e)), Idle)
          /\ activity' = [activity EXCEPT ![e] = "failed"]
    /\ UNCHANGED current

\* Mutant: the retry acquires before the finally of the last attempt released.
ExecRetriesHolding(e) ==
    /\ call[e].pc = "delay"
    /\ AcquireOn(e, call[e].gen, Sem(e), call[e].attempt + 1, call)
    /\ UNCHANGED <<current, activity>>

\* The delay is over: release, which may hand the slot over, and acquire again
\* on the same semaphore, in or out of the map.
ExecRetries(e) ==
    /\ call[e].pc = "delay"
    /\ AcquireOn(e, call[e].gen, Released(Sem(e)), call[e].attempt + 1,
                 AfterRelease(Sem(e)))
    /\ UNCHANGED <<current, activity>>

ExecFails(e) ==
    /\ call[e].pc = "running"
    /\ ReleaseOf(e, Sem(e), Idle)
    /\ activity' = [activity EXCEPT ![e] = "failed"]
    /\ UNCHANGED current

------------------------------------------------------------------------------
(* openShell *)

ShellBegin(s) ==
    /\ call[s].pc = "idle"
    /\ \E g \in Gens, m \in {NewSemaphore} \cup {sems[h] : h \in Gens} :
          /\ GetSemaphore(g, m)
          /\ current' = g
          /\ AcquireOn(s, g, m, 0, call)
    /\ UNCHANGED activity

\* SHELL_TIMEOUT_MS.
ShellTimeout(s) ==
    /\ call[s].pc = "waiting"
    /\ sems' = [sems EXCEPT ![call[s].gen] = TimedOut(@, s)]
    /\ call' = [call EXCEPT ![s] = Idle]
    /\ UNCHANGED <<current, activity>>

ShellOpens(s) ==
    /\ call[s].pc = "running"
    /\ call' = [call EXCEPT ![s].pc = "open"]
    /\ UNCHANGED <<sems, current, activity>>

ShellFails(s) ==
    /\ call[s].pc = "running"
    /\ ReleaseOf(s, Sem(s), Idle)
    /\ UNCHANGED <<current, activity>>

ChannelExit(s) ==
    /\ call[s].pc = "open"
    /\ ReleaseOf(s, Sem(s), [call[s] EXCEPT !.pc = "exited"])
    /\ UNCHANGED <<current, activity>>

ChannelClose(s) ==
    /\ \/ call[s].pc = "open" /\ ReleaseOf(s, Sem(s), Idle)
       \/ call[s].pc = "exited" /\ call' = [call EXCEPT ![s] = Idle] /\ UNCHANGED sems
    /\ UNCHANGED <<current, activity>>

------------------------------------------------------------------------------
(* A Disconnected event of the id *)

Rejected == {c \in Callers : call[c].pc = "waiting" /\ call[c].gen = current}

\* Mutant: a rejected acquire leaves its activity running.
RemoveSemaphoreQuietly ==
    /\ current # NoGen
    /\ sems' = [sems EXCEPT ![current] = Destroyed(@)]
    /\ call' = [c \in Callers |-> IF c \in Rejected THEN Idle ELSE call[c]]
    /\ current' = NoGen
    /\ UNCHANGED activity

\* The acquires it rejects throw out of their calls.
RemoveSemaphore ==
    /\ current # NoGen
    /\ sems' = [sems EXCEPT ![current] = Destroyed(@)]
    /\ call' = [c \in Callers |-> IF c \in Rejected THEN Idle ELSE call[c]]
    /\ activity' = [e \in Execs |-> IF e \in Rejected THEN "failed" ELSE activity[e]]
    /\ current' = NoGen

------------------------------------------------------------------------------
ExecStep(e) == ExecSucceeds(e) \/ ExecFails(e) \/ ExecOpenFailure(e) \/ ExecRetries(e)

ShellStep(s) == ShellTimeout(s) \/ ShellOpens(s) \/ ShellFails(s)

Next ==
    \/ \E e \in Execs : ExecBegin(e) \/ ExecStep(e)
    \/ \E s \in Shells : ShellBegin(s) \/ ShellStep(s) \/ ChannelExit(s) \/ ChannelClose(s)
    \/ RemoveSemaphore

Spec == Init /\ [][Next]_vars

\* A command or a channel request is answered, by the server or by the loss of
\* the connection, and timers fire.  A shell may stay open forever.
Fairness ==
    /\ \A e \in Execs : WF_vars(ExecStep(e))
    /\ \A s \in Shells : WF_vars(ShellStep(s))

FairSpec == Spec /\ Fairness

------------------------------------------------------------------------------
(* Properties *)

\* The semaphore in the map counts exactly the calls that hold one of its slots:
\* none is leaked over retries, delays, shells that end twice, and releases that
\* belong to an older semaphore of the id.
LiveSlotsCounted ==
    current # NoGen =>
        sems[current].active =
            Cardinality({c \in Callers : call[c].gen = current /\ call[c].pc \in Holding})

\* src/chaos/invariants: when the calls are over no activity is left running,
\* whichever way they ended.
ActivityEnds ==
    \A e \in Execs : activity[e] = "running" <=> call[e].pc # "idle"

\* Shells hold every slot there is: commands may have to wait for the user.
ShellsHoldAll(g) ==
    sems[g].active = Cardinality({s \in Shells : call[s].gen = g /\ call[s].pc = "open"})

\* A command ends, whatever the others do, unless open shells hold all the slots
\* or its connection was closed under it.
ExecSettles(e) ==
    call[e].pc # "idle" ~>
        \/ call[e].pc = "idle"
        \/ sems[call[e].gen].destroyed
        \/ ShellsHoldAll(call[e].gen)
==============================================================================
