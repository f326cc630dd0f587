----------------------------- MODULE SessionProofs -----------------------------
(***************************************************************************)
(* Proofs about MCSession, for every value of the constants: the forwards, *)
(* terminals and activities of a session, its watch, its credentials and   *)
(* host list, the filters of the tree and the sudo password.  Each part    *)
(* has an inductive invariant of its own, and the steps of the other       *)
(* components leave it alone.                                              *)
(***************************************************************************)
EXTENDS MCSession, FoldProofs, Sequences, FiniteSets, FiniteSetTheorems, SequenceTheorems,
        TLAPS

------------------------------------------------------------------------------
(* Port forwards *)

\* What the proof needs of the types.
ForwardTypes ==
    /\ forwardLink \in [Links -> P!Lives]
    /\ forwardEntry \in Links \cup {Nothing}
    /\ servers \in [Links -> SUBSET Ports]
    /\ busy \subseteq Ports /\ rules \subseteq Ports /\ tree \subseteq Ports

\* The local servers are of connections that are up.
ServersLive == ForwardTypes /\ P!ServersAreLive

\* Objects that live at the same time have crossed.
LivingCrossed ==
    /\ crossed \subseteq Links
    /\ \A c, d \in P!Alive : c # d => c \in crossed

\* An object that lives and never crossed another is the one in the map, and the
\* tree is that of the servers even while it is not up.
LonelyExact ==
    \A c \in P!Alive \ crossed :
        forwardEntry = c /\ tree = UNION {servers[d] : d \in Links}

\* The inductive invariant of the forwards.
ForwardsInv == ServersLive /\ LivingCrossed /\ LonelyExact

\* The types survive every step, and no step leaves a server without its link.
LEMMA ServersKept == ServersLive /\ P!Step => ServersLive'
<1> SUFFICES ASSUME ServersLive, P!Step PROVE ServersLive'
  OBVIOUS
<1> USE DEF ServersLive, ForwardTypes, P!Lives, P!ServersAreLive, P!Moved, P!Cleaned, P!Taken
<1>0. Nothing \notin Links
  BY ConstantsAssumption DEF P!LinkAssumption
<1>1. ASSUME NEW c \in Links, P!Connect(c) \/ P!ConnectFails(c) \/ P!Closed(c)
      PROVE  ServersLive'
  BY <1>0, <1>1 DEF P!Connect, P!ConnectFails, P!Closed
<1>2. ASSUME NEW c \in Links, P!Connected(c) \/ P!Dropped(c) PROVE ServersLive'
  BY <1>0, <1>2 DEF P!Connected, P!Dropped
<1>3. CASE P!Disconnect
  BY <1>0, <1>3 DEF P!Disconnect
<1>4. ASSUME NEW p \in Ports, P!ForwardPort(p) \/ P!StopForward(p) PROVE ServersLive'
  BY <1>0, <1>4 DEF P!ForwardPort, P!StopForward
<1>5. ASSUME NEW p \in Ports, P!DeleteRule(p) \/ P!OtherProgram(p) PROVE ServersLive'
  BY <1>5 DEF P!DeleteRule, P!OtherProgram
<1> QED
  BY <1>1, <1>2, <1>3, <1>4, <1>5 DEF P!Step

\* The same, of every step or stutter of the forwards.
LEMMA ServersStep == ServersLive /\ [P!Next]_pVars => ServersLive'
BY ServersKept DEF P!Next, pVars, ServersLive, ForwardTypes, P!ServersAreLive

\* Who lives after a step lived before it, or connects.
LEMMA Lives ==
    ASSUME ForwardTypes, P!Step
    PROVE  \/ \E c \in Links : P!Connect(c) /\ P!Alive' = P!Alive \cup {c}
           \/ P!Alive' \subseteq P!Alive /\ ~\E c \in Links : P!Connect(c)
<1> USE DEF ForwardTypes, P!Lives, P!Moved, P!Alive
<1>1. ASSUME NEW c \in Links, P!Connect(c) PROVE P!Alive' = P!Alive \cup {c}
  BY <1>1 DEF P!Connect
<1>2. ASSUME ~\E c \in Links : P!Connect(c) PROVE P!Alive' \subseteq P!Alive
  <2>1. ASSUME NEW c \in Links, P!Connected(c) \/ P!ConnectFails(c) \/ P!Dropped(c) \/ P!Closed(c)
        PROVE  P!Alive' \subseteq P!Alive
    BY <2>1 DEF P!Connected, P!ConnectFails, P!Dropped, P!Closed
  <2>2. CASE P!Disconnect
    BY <2>2 DEF P!Disconnect
  <2>3. ASSUME NEW p \in Ports,
               P!ForwardPort(p) \/ P!StopForward(p) \/ P!DeleteRule(p) \/ P!OtherProgram(p)
        PROVE  P!Alive' \subseteq P!Alive
    BY <2>3 DEF P!ForwardPort, P!StopForward, P!DeleteRule, P!OtherProgram
  <2> QED
    BY <1>2, <2>1, <2>2, <2>3 DEF P!Step
<1> QED
  BY <1>1, <1>2

\* Every step keeps the tree exact beside a lonely object.
LEMMA LonelyStep ==
    ASSUME ForwardsInv, P!Step, NEW c \in P!Alive, c \in P!Alive', c \notin crossed,
           P!Alive' \subseteq {c}
    PROVE  forwardEntry' = c /\ tree' = UNION {servers'[d] : d \in Links}
<1>0. Nothing \notin Links /\ c \in Links
  BY ConstantsAssumption DEF P!LinkAssumption, P!Alive
<1>1. \A d \in Links : d # c => forwardLink[d] \notin {"connecting", "up", "ended"}
  BY DEF ForwardsInv, LivingCrossed, P!Alive
<1>2. /\ forwardEntry = c /\ tree = UNION {servers[d] : d \in Links}
      /\ \A d \in Links : d # c => servers[d] = {}
  BY <1>1 DEF ForwardsInv, LonelyExact, ServersLive, P!ServersAreLive
<1>3. tree = servers[c] /\ (forwardLink[c] # "up" => tree = {})
  BY <1>0, <1>2 DEF ForwardsInv, ServersLive, P!ServersAreLive
<1>4. forwardLink[c] \in {"connecting", "up", "ended"}
  BY DEF P!Alive
<1> DEFINE Exact == forwardEntry' = c /\ tree' = servers'[c]
<1>5. ServersLive'
  BY ServersKept DEF ForwardsInv
<1>6. SUFFICES Exact
  <2>1. \A d \in Links : d # c => servers'[d] = {}
    BY <1>5 DEF ServersLive, P!ServersAreLive, P!Alive
  <2> QED
    BY <1>0, <2>1
<1> USE DEF ForwardsInv, ServersLive, ForwardTypes, P!Lives, P!Moved, P!Cleaned, P!Taken, P!Alive
<1>7. ASSUME NEW e \in Links, P!Connect(e) PROVE Exact
  BY <1>0, <1>1, <1>4, <1>7 DEF P!Connect
<1>8. ASSUME NEW e \in Links, P!Connected(e) PROVE Exact
  BY <1>0, <1>1, <1>2, <1>3, <1>8 DEF P!Connected
<1>9. ASSUME NEW e \in Links, P!ConnectFails(e) \/ P!Closed(e) \/ P!Dropped(e) PROVE Exact
  BY <1>0, <1>1, <1>4, <1>9 DEF P!ConnectFails, P!Closed, P!Dropped
<1>10. CASE P!Disconnect
  BY <1>0, <1>2, <1>3, <1>10 DEF P!Disconnect
<1>11. ASSUME NEW p \in Ports, P!ForwardPort(p) PROVE Exact
  BY <1>0, <1>2, <1>3, <1>11 DEF P!ForwardPort
<1>12. ASSUME NEW p \in Ports, P!StopForward(p) PROVE Exact
  BY <1>0, <1>2, <1>3, <1>12 DEF P!StopForward
<1>13. ASSUME NEW p \in Ports, P!DeleteRule(p) \/ P!OtherProgram(p) PROVE Exact
  BY <1>2, <1>3, <1>13 DEF P!DeleteRule, P!OtherProgram
<1> QED
  BY <1>7, <1>8, <1>9, <1>10, <1>11, <1>12, <1>13 DEF P!Step

\* An object that connects alone finds no server, and the tree is cleaned.
LEMMA LonelyConnect ==
    ASSUME ForwardsInv, NEW c \in Links, P!Connect(c), P!Alive' \subseteq {c}
    PROVE  forwardEntry' = c /\ tree' = UNION {servers'[d] : d \in Links}
<1>0. Nothing \notin Links
  BY ConstantsAssumption DEF P!LinkAssumption
<1>1. forwardEntry' = c /\ forwardLink'[c] = "connecting" /\ servers' = servers
  BY DEF P!Connect, P!Moved, ForwardsInv, ServersLive, ForwardTypes
<1>2. tree' = {}
  BY <1>1 DEF P!Connect, P!Moved, P!Cleaned
<1>3. ServersLive'
  BY ServersKept DEF ForwardsInv, P!Step
<1>4. ASSUME NEW d \in Links PROVE servers'[d] = {}
  BY <1>1, <1>3 DEF ServersLive, P!ServersAreLive, P!Alive
<1> QED
  BY <1>1, <1>2, <1>4

\* The objects that cross are kept, and beside the others the tree stays exact.
LEMMA ForwardsStep == ForwardsInv /\ [P!Next]_pVars => ForwardsInv'
<1> SUFFICES ASSUME ForwardsInv, [P!Next]_pVars PROVE ForwardsInv'
  OBVIOUS
<1>1. CASE UNCHANGED pVars
  BY <1>1 DEF pVars, ForwardsInv, ServersLive, ForwardTypes, P!ServersAreLive, LivingCrossed,
              LonelyExact, P!Alive
<1>2. CASE P!Next
  <2>1. P!Step /\ crossed' = crossed \cup {c \in P!Alive' : \E d \in P!Alive' : d # c}
    BY <1>2 DEF P!Next
  <2>2. ServersLive'
    BY <2>1, ServersKept DEF ForwardsInv
  <2>3. P!Alive' \subseteq Links
    BY DEF P!Alive
  <2>4. LivingCrossed'
    BY <2>1, <2>3 DEF ForwardsInv, LivingCrossed
  <2>5. ASSUME NEW c \in P!Alive', c \notin crossed'
        PROVE  forwardEntry' = c /\ tree' = UNION {servers'[d] : d \in Links}
    <3>1. c \notin crossed /\ P!Alive' \subseteq {c} /\ c \in Links
      BY <2>1, <2>3, <2>5
    <3>2. CASE \E e \in Links : P!Connect(e) /\ P!Alive' = P!Alive \cup {e}
      <4>1. PICK e \in Links : P!Connect(e) /\ P!Alive' = P!Alive \cup {e}
        BY <3>2
      <4>2. e = c
        BY <3>1, <4>1
      <4> QED
        BY <3>1, <4>1, <4>2, LonelyConnect
    <3>3. CASE P!Alive' \subseteq P!Alive
      <4>1. c \in P!Alive
        BY <2>5, <3>3
      <4> QED
        BY <2>1, <2>5, <3>1, <4>1, LonelyStep
    <3> QED
      BY <2>1, <3>2, <3>3, Lives DEF ForwardsInv, ServersLive
  <2>6. LonelyExact'
    BY <2>5 DEF LonelyExact
  <2> QED
    BY <2>2, <2>4, <2>6 DEF ForwardsInv
<1> QED
  BY <1>1, <1>2

\* No forward.
LEMMA ForwardsInit == P!Init => ForwardsInv
BY
   DEF P!Init, ForwardsInv, ServersLive, ForwardTypes, P!Lives, P!ServersAreLive,
       LivingCrossed, LonelyExact, P!Alive

------------------------------------------------------------------------------
(* Terminals *)

\* Terminals and the shells being opened for more stay within the bound.
TerminalTypes ==
    /\ E!TypeOK
    /\ \A i \in {al, alice} : count[i] + openingShells[i] <= MaxTerm

\* The inductive invariant of the terminals.
TerminalsInv == TerminalTypes /\ E!TerminalsAreLive

\* Every step opens and closes a terminal with its channel.
LEMMA TerminalsStep == TerminalsInv /\ [E!Next]_eVars => TerminalsInv'
<1> SUFFICES ASSUME TerminalsInv, [E!Next]_eVars PROVE TerminalsInv'
  OBVIOUS
<1> DEFINE Ids == {al, alice}
<1>0. MaxTerm \in Nat
  BY ConstantsAssumption DEF E!TerminalAssumption
<1> USE <1>0 DEF TerminalsInv, TerminalTypes, E!TypeOK, E!TerminalsAreLive, E!Listed, E!Terms
<1>1. ASSUME NEW i \in Ids, E!Link(i) \/ E!OpenTerminal(i) \/ E!ShellFails(i)
      PROVE  TerminalsInv'
  BY <1>1 DEF E!Link, E!OpenTerminal, E!ShellFails
<1>2. ASSUME NEW i \in Ids, E!CreateTerminal(i) PROVE TerminalsInv'
  BY <1>2 DEF E!CreateTerminal
<1>3. ASSUME NEW i \in Ids, E!LinkLost(i) PROVE TerminalsInv'
  BY <1>3 DEF E!LinkLost, E!Ended
<1>4. ASSUME NEW i \in Ids, E!Disconnect(i) PROVE TerminalsInv'
  BY <1>4 DEF E!Disconnect, E!ClosedFor
<1>5. ASSUME NEW t \in E!Terms, E!PtyOpen(t) \/ E!PtyClose(t) PROVE TerminalsInv'
  BY <1>5 DEF E!PtyOpen, E!PtyClose
<1>6. ASSUME NEW t \in E!Terms, E!ShellEnds(t) PROVE TerminalsInv'
  BY <1>6 DEF E!ShellEnds, E!Ended
<1>7. CASE UNCHANGED eVars
  BY <1>7 DEF eVars
<1> QED
  BY <1>1, <1>2, <1>3, <1>4, <1>5, <1>6, <1>7 DEF E!Next

\* No terminal.
LEMMA TerminalsInit == E!Init => TerminalsInv
<1>0. MaxTerm \in Nat
  BY ConstantsAssumption DEF E!TerminalAssumption
<1> QED
  BY <1>0
     DEF E!Init, TerminalsInv, TerminalTypes, E!TypeOK, E!TerminalsAreLive, E!Listed,
         E!Terms

------------------------------------------------------------------------------
(* Activities *)

\* An operation that has not begun has no activity yet.  A search the user has
\* cancelled is on its way out or over.  A timer removes each activity, two the
\* one that was cancelled and then ended by its operation.
ActivitiesInv ==
    /\ A!TypeOK
    /\ A!RunningIsReal
    /\ \A o \in Ops : run[o] = "idle" => o \notin listed \cup pressed /\ status[o] = "none"
    /\ \A o \in Ops : kind[o] = "search" /\ o \in pressed => run[o] \in {"aborted", "ended"}
    /\ \A o \in Ops : status[o] \in {"none", "running"} => timers[o] = 0
    /\ \A o \in Ops : run[o] # "ended" => timers[o] <= 1

\* Every step ends the activity with its work.
LEMMA ActivitiesStep == ActivitiesInv /\ [A!Next]_aVars => ActivitiesInv'
<1> SUFFICES ASSUME ActivitiesInv, [A!Next]_aVars PROVE ActivitiesInv'
  OBVIOUS
<1> USE DEF ActivitiesInv, A!TypeOK, A!RunningIsReal, A!Kinds, A!Finished
<1>1. ASSUME NEW o \in Ops, A!Begin(o) PROVE ActivitiesInv'
  BY <1>1 DEF A!Begin
<1>2. ASSUME NEW o \in Ops, A!GuardedEnds(o) PROVE ActivitiesInv'
  BY <1>2 DEF A!GuardedEnds, A!Finish
<1>3. ASSUME NEW o \in Ops, A!SearchEnds(o) PROVE ActivitiesInv'
  BY <1>3 DEF A!SearchEnds, A!Finish, A!CancelAll, A!CanCancel
<1>4. ASSUME NEW o \in Ops, A!MonitorEnds(o) \/ A!MonitorReplaced(o) PROVE ActivitiesInv'
  BY <1>4 DEF A!MonitorEnds, A!MonitorReplaced, A!Finish, A!CancelAll, A!CanCancel
<1>5. ASSUME NEW os \in SUBSET Ops, A!Cancel(os) PROVE ActivitiesInv'
  BY <1>5 DEF A!Cancel, A!CancelAll, A!CanCancel
<1>6. ASSUME NEW o \in Ops, A!Abort(o) \/ A!Remove(o) \/ A!ClearAll PROVE ActivitiesInv'
  BY <1>6 DEF A!Abort, A!Remove, A!ClearAll
<1>7. CASE UNCHANGED aVars \/ A!ClearAll
  BY <1>7 DEF aVars, A!ClearAll
<1> QED
  BY <1>1, <1>2, <1>3, <1>4, <1>5, <1>6, <1>7 DEF A!Next

\* No activity.
LEMMA ActivitiesInit == A!Init => ActivitiesInv
BY DEF A!Init, ActivitiesInv, A!TypeOK, A!RunningIsReal, A!Kinds, A!Finished

\* The watch: what its account needs of the other variables.
WatchTypes ==
    /\ mapped \subseteq Folders
    /\ watched \in Folders \cup {Nothing}
    /\ starting \in [Folders -> Nat]

\* The inductive invariant of the watch.
WatchInv == WatchTypes /\ W!WatchIsAccounted

\* What a step does to the watch: it begins one, ends it with its activity, or
\* leaves it, with its heartbeat unless nothing is watched or a start is begun.
Watching(f) ==
    /\ watched' = f /\ activity' = TRUE
    /\ starting' = [starting EXCEPT ![f] = @ + 1]

\* What a step does to the watched file, its activity and its heartbeat.
Unwatching == watched' = Nothing /\ activity' = FALSE
SameWatch == UNCHANGED <<watched, activity>>
WatchChange ==
    \/ \E f \in Folders : Watching(f)
    \/ Unwatching
    \/ SameWatch /\ UNCHANGED <<starting, beat>>
    \/ SameWatch /\ watched = Nothing
    \/ SameWatch /\ beat' = TRUE

\* Who changes the watch in one of these ways keeps it accounted for.
LEMMA Watched ==
    ASSUME WatchTypes, NEW f \in Folders, Watching(f), mapped' \subseteq Folders
    PROVE  WatchTypes' /\ WatchChange
<1>1. WatchTypes'
  BY DEF WatchTypes, Watching
<1> QED
  BY <1>1 DEF WatchChange

\* Every step changes the watch in one of these ways.
LEMMA WatchChanges ==
    ASSUME WatchTypes, [W!Next]_wVars
    PROVE  WatchTypes' /\ WatchChange
<1>0. Nothing \notin Folders
  BY ConstantsAssumption DEF W!WatchAssumption
<1> USE <1>0 DEF WatchTypes, WatchChange, Watching, Unwatching, SameWatch,
                 W!view, W!files, W!shownAs, W!timers
<1>1. ASSUME NEW f \in Folders \cup {Nothing}, W!Switch(f) PROVE WatchTypes' /\ WatchChange
  <2>1. CASE f \in mapped /\ up
    <3>1. Watching(f) /\ mapped' \subseteq Folders
      BY <1>1, <2>1 DEF W!Switch
    <3>2. f \in Folders
      BY <2>1
    <3> QED
      BY <3>1, <3>2, Watched
  <2>2. CASE ~(f \in mapped /\ up)
    <3>1. watched' = Nothing /\ UNCHANGED <<mapped, starting>>
      BY <1>1, <2>2 DEF W!Switch
    <3>2. activity' = (f \in mapped /\ up)
      BY <1>1 DEF W!Switch
    <3>3. activity' = FALSE
      BY <2>2, <3>2
    <3> QED
      BY <3>1, <3>3
  <2> QED
    BY <2>1, <2>2
<1>2. ASSUME NEW f \in Folders, W!MapBeforeShow(f) PROVE WatchTypes' /\ WatchChange
  BY <1>2 DEF W!MapBeforeShow
<1>3. ASSUME NEW f \in Folders, W!OpenStarts(f) PROVE WatchTypes' /\ WatchChange
  <2>1. CASE up
    <3>1. Watching(f) /\ mapped' \subseteq Folders
      BY <1>3, <2>1 DEF W!OpenStarts
    <3> QED
      BY <3>1, Watched
  <2>2. CASE ~up
    <3>1. SameWatch /\ mapped' \subseteq Folders /\ UNCHANGED <<starting, beat>>
      BY <1>3, <2>2 DEF W!OpenStarts
    <3> QED
      BY <3>1
  <2> QED
    BY <2>1, <2>2
<1>8. ASSUME NEW f \in Folders, W!Started(f) PROVE WatchTypes' /\ WatchChange
  <2>1. SameWatch /\ mapped' = mapped /\ beat' = TRUE
    BY <1>8 DEF W!Started
  <2>2. starting' = [starting EXCEPT ![f] = @ - 1] /\ starting[f] > 0
    BY <1>8 DEF W!Started
  <2> QED
    BY <2>1, <2>2
<1>9. ASSUME NEW f \in Folders, W!StreamEnds(f) PROVE WatchTypes' /\ WatchChange
  BY <1>9 DEF W!StreamEnds
<1>4. CASE W!Show \/ W!Hide \/ W!Return
  BY <1>4 DEF W!Show, W!Hide, W!Return
<1>5. CASE W!Beat \/ W!Probe \/ W!ProbeAnswers
  BY <1>5 DEF W!Beat, W!Probe, W!ProbeAnswers, W!Forget
<1>6. CASE W!LinkLost \/ W!Disconnect \/ W!LinkBack
  BY <1>6 DEF W!LinkLost, W!Disconnect, W!LinkBack, W!LinkDown
<1>7. CASE UNCHANGED wVars
  BY <1>7 DEF wVars
<1> QED
  BY <1>1, <1>2, <1>3, <1>4, <1>5, <1>6, <1>7, <1>8, <1>9 DEF W!Next

\* Every step keeps the watch accounted for.
LEMMA WatchStep == WatchInv /\ [W!Next]_wVars => WatchInv'
<1> SUFFICES ASSUME WatchInv, [W!Next]_wVars PROVE WatchInv'
  OBVIOUS
<1>0. WatchTypes' /\ WatchChange /\ Nothing \notin Folders
  BY WatchChanges, ConstantsAssumption DEF WatchInv, W!WatchAssumption
<1> USE DEF WatchInv, W!WatchIsAccounted
<1>1. ASSUME NEW f \in Folders, Watching(f) PROVE WatchInv'
  <2>1. starting'[f] > 0 /\ watched' # Nothing
    BY <1>0, <1>1 DEF Watching, WatchTypes
  <2>2. activity' = TRUE
    BY <1>1 DEF Watching
  <2> QED
    BY <1>0, <2>1, <2>2
<1>2. CASE Unwatching
  BY <1>0, <1>2 DEF Unwatching
<1>3. CASE SameWatch /\ UNCHANGED <<starting, beat>>
  BY <1>0, <1>3 DEF SameWatch
<1>4. CASE SameWatch /\ watched = Nothing
  BY <1>0, <1>4 DEF SameWatch
<1>5. CASE SameWatch /\ beat' = TRUE
  BY <1>0, <1>5 DEF SameWatch
<1> QED
  BY <1>0, <1>1, <1>2, <1>3, <1>4, <1>5 DEF WatchChange

\* Nothing is watched.
LEMMA WatchInit == W!Init => WatchInv
<1> SUFFICES ASSUME W!Init PROVE WatchInv
  OBVIOUS
<1>1. WatchTypes /\ watched = Nothing
  BY DEF W!Init, WatchTypes
<1>2. activity = FALSE
  BY DEF W!Init
<1> QED
  BY <1>1, <1>2 DEF WatchInv, W!WatchIsAccounted

\* MayStart counts every start under way.
LEMMA StartsCounted ==
    ASSUME WatchTypes, NEW f \in Folders, W!MayStart
    PROVE  starting[f] + 1 <= MaxStarts
<1> DEFINE S == Folders
           Sum(it) == it = [T \in SUBSET S |->
                               IF T = {} THEN 0
                               ELSE LET x == CHOOSE x \in T : TRUE
                                    IN starting[x] + it[T \ {x}]]
           chosen == CHOOSE it : Sum(it)
           h == [sn \in S \X Nat |-> starting[sn[1]] + sn[2]]
<1>0. IsFiniteSet(S) /\ MaxStarts \in Nat
  BY ConstantsAssumption DEF W!WatchAssumption, W!IsFiniteSet, IsFiniteSet
<1>1. chosen[S] < MaxStarts
  BY DEF W!MayStart, W!MapThenSumSet, W!MapThenFoldSet
<1>2. \A x \in S : starting[x] \in Nat
  BY DEF WatchTypes
<1>3. \A x \in S : \A n \in Nat : h[<<x, n>>] = starting[x] + n /\ h[<<x, n>>] \in Nat
  BY <1>2
<1> HIDE DEF S
<1>5. PICK it \in [SUBSET S -> Nat] : \A T \in SUBSET S : it[T] = FoldStep(it, T, 0, h)
  <2> DEFINE Acc == Nat
             zero == 0
  <2>1. zero \in Acc /\ Steps(h, S, Acc)
    BY <1>3 DEF Steps
  <2> HIDE DEF h, Acc, zero
  <2>2. \E it : Folds(it, S, Acc, zero, h)
    BY <1>0, <2>1, FoldExists
  <2> QED
    BY <2>2 DEF Acc, zero, Folds
<1>6. ASSUME NEW T \in SUBSET S, T # {} PROVE Pick(T) \in S /\ Rest(T) \in SUBSET S
  BY <1>6 DEF Pick, Rest
<1>7. Sum(it)
  <2>1. ASSUME NEW T \in SUBSET S, T # {}
        PROVE  it[T] = starting[Pick(T)] + it[Rest(T)]
    BY <1>3, <1>5, <1>6, <2>1 DEF FoldStep
  <2> QED
    BY <1>5, <2>1 DEF FoldStep, Pick, Rest
<1>8. Sum(chosen)
  BY <1>7
<1>9. /\ chosen[{}] = 0
      /\ \A T \in SUBSET S : T # {} => chosen[T] = starting[Pick(T)] + chosen[Rest(T)]
  BY <1>8 DEF Pick, Rest
<1> HIDE DEF chosen
<1>10. chosen[S] \in Nat /\ \A x \in S : starting[x] <= chosen[S]
  <2> DEFINE G == {T \in SUBSET S : chosen[T] \in Nat /\ \A x \in T : starting[x] <= chosen[T]}
  <2>1. {} \in G
    BY <1>9
  <2>2. ASSUME NEW T \in SUBSET S, T # {}, Rest(T) \in G PROVE T \in G
    <3>1. chosen[T] = starting[Pick(T)] + chosen[Rest(T)] /\ chosen[Rest(T)] \in Nat
      BY <1>9, <2>2
    <3>2. starting[Pick(T)] \in Nat
      BY <1>2, <1>6, <2>2
    <3>3. ASSUME NEW x \in T PROVE starting[x] <= chosen[T]
      <4>1. CASE x = Pick(T)
        BY <3>1, <3>2, <4>1
      <4>2. CASE x \in Rest(T)
        <5>1. starting[x] <= chosen[Rest(T)] /\ starting[x] \in Nat
          BY <1>2, <2>2, <4>2
        <5> QED
          BY <3>1, <3>2, <5>1
      <4> QED
        BY <4>1, <4>2 DEF Rest
    <3> QED
      BY <3>1, <3>2, <3>3
  <2> HIDE DEF G
  <2>3. SUBSET S \subseteq G
    BY <1>0, <2>1, <2>2, FoldInduction
  <2> QED
    BY <2>3 DEF G
<1>11. starting[f] <= chosen[S] /\ starting[f] \in Nat
  BY <1>2, <1>10 DEF S
<1> QED
  BY <1>0, <1>1, <1>10, <1>11

\* Only an open stream has an entry.
EntriesOpen ==
    /\ streams \in [Folders -> 0 .. 2] /\ watchEntry \subseteq Folders
    /\ \A f \in watchEntry : streams[f] > 0

\* What a step may do to the streams.
LEMMA EntriesStep == W!TypeOK /\ EntriesOpen /\ W!Next => EntriesOpen'
<1> SUFFICES ASSUME W!TypeOK, EntriesOpen, W!Next PROVE EntriesOpen'
  OBVIOUS
<1>1. CASE UNCHANGED W!remote
  BY <1>1 DEF W!remote, EntriesOpen
<1>2. ASSUME NEW f \in Folders, W!Unwatched(f) PROVE EntriesOpen'
  <2>1. CASE f \in watchEntry
    BY <1>2, <2>1 DEF W!Unwatched, EntriesOpen
  <2>2. CASE f \notin watchEntry
    BY <1>2, <2>2 DEF W!Unwatched, EntriesOpen
  <2> QED
    BY <2>1, <2>2
<1>3. ASSUME NEW f \in Folders, W!StreamEnds(f) PROVE EntriesOpen'
  BY <1>3 DEF W!StreamEnds, EntriesOpen
<1>4. ASSUME NEW f \in Folders, W!Started(f) PROVE EntriesOpen'
  <2>1. CASE up /\ streams[f] < 2 /\ W!Native(f)
    BY <2>1 DEF W!Native, EntriesOpen
  <2>2. CASE W!Polling
    BY <1>1, <2>2 DEF W!Polling
  <2> QED
    BY <1>4, <2>1, <2>2 DEF W!Started
<1>5. CASE W!LinkDown
  BY <1>5 DEF W!LinkDown, EntriesOpen
<1>6. ASSUME NEW f, W!Switch(f) PROVE EntriesOpen'
  <2>1. CASE watched # Nothing /\ W!Unwatched(watched)
    BY <1>2, <2>1 DEF W!TypeOK
  <2> QED
    BY <1>1, <1>6, <2>1 DEF W!Switch
<1>7. ASSUME NEW f, W!MapBeforeShow(f) \/ W!OpenStarts(f) PROVE EntriesOpen'
  BY <1>1, <1>7 DEF W!MapBeforeShow, W!OpenStarts
<1>8. CASE W!Show \/ W!Hide \/ W!Return \/ W!Beat \/ W!Probe \/ W!ProbeAnswers \/ W!LinkBack
  BY <1>1, <1>8 DEF W!Show, W!Hide, W!Return, W!Beat, W!Probe, W!ProbeAnswers, W!LinkBack
<1> QED
  BY <1>3, <1>4, <1>5, <1>6, <1>7, <1>8 DEF W!Next, W!LinkLost, W!Disconnect

\* What it does to the starts.
LEMMA StartsStep ==
    ASSUME WatchTypes, W!TypeOK, W!Next PROVE starting' \in [Folders -> 0 .. MaxStarts]
<1>0. MaxStarts \in Nat /\ starting \in [Folders -> 0 .. MaxStarts]
  BY ConstantsAssumption DEF W!WatchAssumption, W!TypeOK
<1>1. CASE UNCHANGED starting
  BY <1>0, <1>1
<1>2. ASSUME NEW f \in Folders, W!MayStart, starting' = [starting EXCEPT ![f] = @ + 1]
      PROVE  starting' \in [Folders -> 0 .. MaxStarts]
  <2>1. starting[f] + 1 \in 0 .. MaxStarts
    BY <1>0, <1>2, StartsCounted
  <2> QED
    BY <1>0, <1>2, <2>1
<1>3. ASSUME NEW f \in Folders \cup {Nothing}, W!Switch(f)
      PROVE  starting' \in [Folders -> 0 .. MaxStarts]
  <2>1. CASE f \in mapped /\ up
    <3>1. f \in Folders
      BY <2>1 DEF WatchTypes
    <3> QED
      BY <1>2, <1>3, <2>1, <3>1 DEF W!Switch
  <2>2. CASE ~(f \in mapped /\ up)
    BY <1>1, <1>3, <2>2 DEF W!Switch
  <2> QED
    BY <2>1, <2>2
<1>4. ASSUME NEW f \in Folders, W!OpenStarts(f) PROVE starting' \in [Folders -> 0 .. MaxStarts]
  BY <1>1, <1>2, <1>4 DEF W!OpenStarts
<1>5. ASSUME NEW f \in Folders, W!Started(f) PROVE starting' \in [Folders -> 0 .. MaxStarts]
  BY <1>0, <1>5 DEF W!Started
<1>6. ASSUME NEW f \in Folders, W!MapBeforeShow(f) \/ W!StreamEnds(f)
      PROVE  starting' \in [Folders -> 0 .. MaxStarts]
  BY <1>1, <1>6 DEF W!MapBeforeShow, W!StreamEnds
<1>7. CASE \/ W!Show \/ W!Hide \/ W!Return \/ W!Beat \/ W!Probe \/ W!ProbeAnswers
           \/ W!LinkBack \/ W!LinkDown
  BY <1>1, <1>7 DEF W!Show, W!Hide, W!Return, W!Beat, W!Probe, W!ProbeAnswers, W!LinkBack,
    W!LinkDown
<1> QED
  BY <1>3, <1>4, <1>5, <1>6, <1>7 DEF W!Next, W!LinkLost, W!Disconnect

\* The flags and the files of the watch.
WatchFlags ==
    /\ up \in BOOLEAN /\ linkNo \in 1 .. MaxLinks
    /\ focus \in Folders \cup {Nothing} /\ visible \in BOOLEAN
    /\ opening \subseteq Folders
    /\ activity \in BOOLEAN /\ stray \in BOOLEAN
    /\ native \in BOOLEAN /\ poll \in BOOLEAN /\ paused \in BOOLEAN
    /\ gated \in BOOLEAN /\ beat \in BOOLEAN /\ probing \in BOOLEAN
    /\ subscribed \in 0 .. MaxLinks

\* The flags and numbers of the watch keep their types.
LEMMA FlagsStep == ASSUME WatchTypes, WatchFlags, W!Next PROVE WatchFlags'
<1>0. MaxLinks \in Nat \ {0}
  BY ConstantsAssumption DEF W!WatchAssumption
<1> USE <1>0 DEF WatchTypes, WatchFlags, W!view, W!files, W!shownAs, W!timers
<1>1. ASSUME NEW f \in Folders \cup {Nothing}, W!Switch(f) PROVE WatchFlags'
  BY <1>1 DEF W!Switch
<1>2. ASSUME NEW f \in Folders, W!MapBeforeShow(f) PROVE WatchFlags'
  BY <1>2 DEF W!MapBeforeShow
<1>3. ASSUME NEW f \in Folders, W!OpenStarts(f) PROVE WatchFlags'
  BY <1>3 DEF W!OpenStarts
<1>4. ASSUME NEW f \in Folders, W!Started(f) PROVE WatchFlags'
  <2>1. /\ UNCHANGED <<up, linkNo, focus, visible, opening, activity, stray, probing>>
        /\ beat' = TRUE
    BY <1>4 DEF W!Started
  <2>2. CASE W!Native(f)
    BY <2>1, <2>2 DEF W!Native
  <2>3. CASE W!Polling
    <3>1. native' = FALSE /\ gated' = TRUE /\ subscribed' = subscribed
      BY <2>3 DEF W!Polling
    <3>2. poll' = (poll \/ visible)
      BY <2>3 DEF W!Polling
    <3>3. paused' = ~visible
      BY <2>3 DEF W!Polling
    <3>4. poll' \in BOOLEAN /\ paused' \in BOOLEAN
      BY <3>2, <3>3
    <3> QED
      BY <2>1, <3>1, <3>4
  <2> QED
    BY <1>4, <2>2, <2>3 DEF W!Started
<1>5. ASSUME NEW f \in Folders, W!StreamEnds(f) PROVE WatchFlags'
  BY <1>5 DEF W!StreamEnds
<1>6. CASE W!Show \/ W!Hide \/ W!Return
  BY <1>6 DEF W!Show, W!Hide, W!Return
<1>7. CASE W!Beat \/ W!Probe \/ W!ProbeAnswers
  <2>1. CASE W!Beat
    <3>1. /\ UNCHANGED <<up, linkNo, focus, opening, paused, gated, probing, stray>>
      BY <2>1 DEF W!Beat, W!Forget
    <3>2. \/ UNCHANGED <<visible, activity, native, poll, subscribed>> /\ beat' = FALSE
          \/ /\ visible' = FALSE /\ activity' = FALSE /\ native' = FALSE /\ beat' = FALSE
             /\ poll' = FALSE /\ subscribed' = 0
      BY <2>1 DEF W!Beat, W!Forget
    <3>3. 0 \in 0 .. MaxLinks
      BY <1>0
    <3> QED
      BY <3>1, <3>2, <3>3
  <2>2. CASE W!Probe
    BY <2>2 DEF W!Probe
  <2>3. CASE W!ProbeAnswers
    <3>1. /\ UNCHANGED <<up, linkNo, focus, opening, poll, paused, gated, subscribed>>
          /\ probing' = FALSE /\ stray' = stray
      BY <2>3 DEF W!ProbeAnswers, W!Forget
    <3>2. \/ UNCHANGED <<visible, activity, native, beat>>
          \/ visible' = FALSE /\ activity' = FALSE /\ native' = FALSE /\ beat' = FALSE
      BY <2>3 DEF W!ProbeAnswers, W!Forget
    <3> QED
      BY <3>1, <3>2
  <2> QED
    BY <1>7, <2>1, <2>2, <2>3
<1>8. CASE W!LinkLost \/ W!Disconnect
  BY <1>8 DEF W!LinkLost, W!Disconnect, W!LinkDown
<1>9. CASE W!LinkBack
  BY <1>9 DEF W!LinkBack
<1> QED
  BY <1>1, <1>2, <1>3, <1>4, <1>5, <1>6, <1>7, <1>8, <1>9 DEF W!Next

\* The types of the watch.
WatchTyped == W!TypeOK /\ EntriesOpen

\* Every step keeps the types of the watch.
LEMMA WatchTypedStep == WatchInv /\ WatchTyped /\ [W!Next]_wVars => WatchTyped'
<1> SUFFICES ASSUME WatchInv, WatchTyped, [W!Next]_wVars PROVE WatchTyped'
  OBVIOUS
<1>1. CASE W!Next
  <2>1. WatchTypes /\ WatchTypes'
    BY <1>1, WatchChanges DEF WatchInv
  <2>2. starting' \in [Folders -> 0 .. MaxStarts]
    BY <1>1, <2>1, StartsStep DEF WatchTyped
  <2>3. WatchFlags'
    BY <1>1, <2>1, FlagsStep DEF WatchTyped, W!TypeOK, WatchFlags
  <2>4. EntriesOpen'
    BY <1>1, EntriesStep DEF WatchTyped
  <2> QED
    BY <2>1, <2>2, <2>3, <2>4 DEF W!TypeOK, WatchFlags, WatchTypes, EntriesOpen, WatchTyped
<1>2. CASE UNCHANGED wVars
  BY <1>2 DEF wVars, WatchTyped, W!TypeOK, EntriesOpen
<1> QED
  BY <1>1, <1>2

\* Nothing is watched at first.
LEMMA WatchTypedInit == W!Init => WatchTyped
<1> SUFFICES ASSUME W!Init PROVE WatchTyped
  OBVIOUS
<1>1. MaxLinks \in Nat \ {0} /\ MaxStarts \in Nat
  BY ConstantsAssumption DEF W!WatchAssumption
<1>2. linkNo \in 1 .. MaxLinks /\ subscribed \in 0 .. MaxLinks
  BY <1>1 DEF W!Init
<1>3. starting \in [Folders -> 0 .. MaxStarts] /\ streams \in [Folders -> 0 .. 2]
  BY <1>1 DEF W!Init
<1>4. EntriesOpen
  BY <1>3 DEF W!Init, EntriesOpen
<1> QED
  BY <1>2, <1>3, <1>4 DEF W!Init, WatchTyped, W!TypeOK

------------------------------------------------------------------------------
(* Credentials *)

\* A call, which knows what it adds.
CredTask == {k \in C!Task : k.kind = "add" => k.cred \in Creds}

\* What is stored: the types, without those of the calls.
StoreTypes ==
    /\ index \subseteq Creds /\ minted \subseteq Creds
    /\ updates \in Seq([by : Tasks, index : SUBSET Creds])
    /\ secret \in [Creds -> C!Passwords \cup {"none"}]
    /\ session \in [Creds -> C!Passwords \cup {"none"}]

\* The inductive invariant of the credentials.
CredentialsInv == StoreTypes /\ task \in [Tasks -> CredTask]

\* What a call starts as, and what it becomes.
LEMMA StartsAs ==
    ASSUME index \subseteq Creds, NEW k \in C!Kinds, NEW pc \in C!PCs, NEW c \in Creds
    PROVE  /\ C!Start(k, pc, c) \in CredTask
           /\ \A p \in C!Passwords : [C!Start(k, pc, c) EXCEPT !.typed = p] \in CredTask
           /\ \A s \in SUBSET Creds : [C!Start(k, pc, c) EXCEPT !.todo = s] \in CredTask
BY DEF C!Start, C!Idle, CredTask, C!Task

\* A call that goes on is a call.
LEMMA GoesOn ==
    ASSUME NEW k \in CredTask, NEW pc \in C!PCs
    PROVE  /\ [k EXCEPT !.pc = pc] \in CredTask
           /\ [k EXCEPT !.pc = pc, !.kind = "retry"] \in CredTask
BY DEF CredTask, C!Task, C!Kinds

\* So is one that is over.
LEMMA IdleTask == C!Idle \in CredTask
BY DEF CredTask, C!Task, C!Idle, C!PCs, C!Kinds

\* What a call writes to the index is queued.
LEMMA Requested ==
    ASSUME NEW q, q \in Seq([by : Tasks, index : SUBSET Creds]),
           NEW t \in Tasks, NEW s \in SUBSET Creds
    PROVE  Append(q, [by |-> t, index |-> s]) \in Seq([by : Tasks, index : SUBSET Creds])
<1> DEFINE S == [by : Tasks, index : SUBSET Creds]
<1>1. [by |-> t, index |-> s] \in S
  OBVIOUS
<1> HIDE DEF S
<1>2. Append(q, [by |-> t, index |-> s]) \in Seq(S)
  BY <1>1 DEF S
<1> QED
  BY <1>2 DEF S

\* A call deletes a credential.
LEMMA DeletingTypes ==
    ASSUME CredentialsInv, NEW t \in Tasks, NEW c \in Creds, NEW k \in {"delete", "purge"},
           NEW s \in SUBSET Creds, C!Deleting(t, c, k, s), UNCHANGED <<index, minted>>
    PROVE  CredentialsInv'
<1>1. updates' \in Seq([by : Tasks, index : SUBSET Creds])
  <2>1. index \ {c} \in SUBSET Creds
    BY DEF CredentialsInv, StoreTypes
  <2> QED
    BY <2>1, Requested DEF C!Deleting, CredentialsInv, StoreTypes
<1>2. task' \in [Tasks -> CredTask]
  <2>1. PICK r \in CredTask : task' = [task EXCEPT ![t] = r]
    BY StartsAs DEF C!Deleting, CredentialsInv, StoreTypes, C!Kinds, C!PCs
  <2> QED
    BY <2>1 DEF CredentialsInv
<1>3. secret' \in [Creds -> C!Passwords \cup {"none"}] /\ session' \in [Creds -> C!Passwords \cup {"none"}]
  BY DEF C!Deleting, CredentialsInv, StoreTypes
<1> QED
  BY <1>1, <1>2, <1>3 DEF CredentialsInv, StoreTypes

\* The calls that begin with a credential.
LEMMA BeginTypes ==
    ASSUME CredentialsInv, NEW t \in Tasks, NEW c \in Creds, NEW p \in C!Passwords,
           C!Add(t, c, p) \/ C!Save(t, c, p) \/ C!AddKey(t, c) \/ C!Login(t, c)
    PROVE  CredentialsInv'
<1> USE DEF CredentialsInv, StoreTypes
<1>1. index' = index /\ session' = session /\ minted' \subseteq Creds
  BY DEF C!Add, C!Save, C!AddKey, C!Login, C!stores
<1>2. secret' \in [Creds -> C!Passwords \cup {"none"}]
  BY DEF C!Add, C!Save, C!AddKey, C!Login, C!stores
<1>3. updates' \in Seq([by : Tasks, index : SUBSET Creds])
  <2>1. index \cup {c} \in SUBSET Creds
    OBVIOUS
  <2>2. CASE C!AddKey(t, c)
    BY <2>1, <2>2, Requested DEF C!AddKey, C!Request
  <2>3. CASE C!Add(t, c, p) \/ C!Save(t, c, p) \/ C!Login(t, c)
    BY <2>3 DEF C!Add, C!Save, C!Login, C!stores
  <2> QED
    BY <2>2, <2>3
<1>4. \E r \in CredTask : task' = [task EXCEPT ![t] = r]
  BY StartsAs DEF C!Add, C!Save, C!AddKey, C!Login, C!Kinds, C!PCs
<1> QED
  BY <1>1, <1>2, <1>3, <1>4

\* How they go on.
LEMMA LoginTypes ==
    ASSUME CredentialsInv, NEW t \in Tasks, NEW p \in C!Passwords,
           \/ C!TypePassword(t, p) \/ C!EnterNew(t, p)
           \/ C!Added(t) \/ C!Saved(t) \/ C!LoginEnds(t) \/ C!RefusedUnlisted(t)
           \/ C!GiveUp(t) \/ C!Retry(t)
    PROVE  CredentialsInv'
<1> USE DEF CredentialsInv, StoreTypes
<1>1. UNCHANGED <<index, minted>>
  BY DEF C!TypePassword, C!EnterNew, C!Added, C!Saved, C!LoginEnds, C!RefusedUnlisted, C!GiveUp,
    C!Retry, C!stores
<1>2. updates' \in Seq([by : Tasks, index : SUBSET Creds])
  <2>1. CASE C!Added(t)
    <3>1. task[t].seen \cup {task[t].cred} \in SUBSET Creds
      BY <2>1 DEF C!Added, CredTask, C!Task
    <3> QED
      BY <2>1, <3>1, Requested DEF C!Added, C!Request
  <2>2. CASE ~C!Added(t)
    BY <2>2 DEF C!TypePassword, C!EnterNew, C!Saved, C!LoginEnds, C!RefusedUnlisted, C!GiveUp,
      C!Retry, C!stores
  <2> QED
    BY <2>1, <2>2
<1>3. secret' \in [Creds -> C!Passwords \cup {"none"}]
  BY DEF C!TypePassword, C!EnterNew, C!Added, C!Saved, C!LoginEnds, C!RefusedUnlisted, C!GiveUp,
    C!Retry, C!stores
<1>4. session' \in [Creds -> C!Passwords \cup {"none"}]
  BY DEF C!TypePassword, C!EnterNew, C!Added, C!Saved, C!LoginEnds, C!RefusedUnlisted, C!GiveUp,
    C!Retry, C!stores, CredTask, C!Task
<1>5. UNCHANGED task \/ \E r \in CredTask : task' = [task EXCEPT ![t] = r]
  <2>1. task[t] \in CredTask
    OBVIOUS
  <2>2. C!TypePassword(t, p) => UNCHANGED task
    BY DEF C!TypePassword
  <2>3. ASSUME C!Saved(t) \/ C!LoginEnds(t) \/ C!GiveUp(t)
        PROVE  \E r \in CredTask : task' = [task EXCEPT ![t] = r]
    BY <2>3, IdleTask DEF C!Saved, C!LoginEnds, C!GiveUp
  <2>4. ASSUME C!Added(t) \/ C!Retry(t)
        PROVE  \E r \in CredTask : task' = [task EXCEPT ![t] = r]
    <3>1. PICK pc \in C!PCs : task' = [task EXCEPT ![t].pc = pc]
      BY <2>4 DEF C!Added, C!Retry, C!PCs
    <3>2. [task[t] EXCEPT !.pc = pc] \in CredTask
      BY <2>1, GoesOn
    <3> QED
      BY <3>1, <3>2
  <2>5. ASSUME C!EnterNew(t, p) PROVE \E r \in CredTask : task' = [task EXCEPT ![t] = r]
    <3>1. [task[t] EXCEPT !.pc = "storing", !.kind = "retry"] \in CredTask
      BY <2>1, GoesOn DEF C!PCs
    <3>2. task' = [task EXCEPT ![t] = [task[t] EXCEPT !.pc = "storing", !.kind = "retry"]]
      BY <2>5 DEF C!EnterNew
    <3> QED
      BY <3>1, <3>2
  <2>6. ASSUME C!RefusedUnlisted(t) PROVE \E r \in CredTask : task' = [task EXCEPT ![t] = r]
    <3>1. [task[t] EXCEPT !.pc = "asking"] \in CredTask
      BY <2>1, GoesOn DEF C!PCs
    <3> QED
      BY <2>6, <3>1, IdleTask DEF C!RefusedUnlisted
  <2> QED
    BY <2>2, <2>3, <2>4, <2>5, <2>6
<1> QED
  BY <1>1, <1>2, <1>3, <1>4, <1>5

\* A refused login, which clears the credentials it was of.
LEMMA RefusedTypes ==
    ASSUME CredentialsInv, NEW t \in Tasks, NEW u \in Tasks, NEW c \in Creds, C!Refused(t, u, c)
    PROVE  CredentialsInv'
<1>1. index \ {c} \in SUBSET Creds
  BY DEF CredentialsInv, StoreTypes
<1>2. updates' \in Seq([by : Tasks, index : SUBSET Creds])
  BY <1>1, Requested DEF C!Refused, C!Request, CredentialsInv, StoreTypes
<1>3. task' \in [Tasks -> CredTask]
  <2>1. "asking" \in C!PCs /\ "indexing" \in C!PCs /\ "purge" \in C!Kinds
    BY DEF C!PCs, C!Kinds
  <2>2. [task[t] EXCEPT !.pc = "asking"] \in CredTask
    BY <2>1, GoesOn DEF CredentialsInv
  <2>3. [C!Start("purge", "indexing", c) EXCEPT !.todo = index \ {c}] \in CredTask
    BY <1>1, <2>1, StartsAs DEF CredentialsInv, StoreTypes
  <2>4. PICK r \in CredTask, q \in CredTask : task' = [task EXCEPT ![t] = r, ![u] = q]
    BY <2>2, <2>3, IdleTask DEF C!Refused
  <2> QED
    BY <2>4 DEF CredentialsInv
<1> QED
  BY <1>2, <1>3 DEF C!Refused, CredentialsInv, StoreTypes

\* The oldest update lands.
LEMMA LandedTypes == ASSUME CredentialsInv, C!Landed PROVE CredentialsInv'
<1> DEFINE S == [by : Tasks, index : SUBSET Creds]
           u == Head(updates)
           t == u.by
<1>1. updates \in Seq(S) /\ updates # <<>>
  BY DEF C!Landed, CredentialsInv, StoreTypes
<1>2. u \in S /\ updates' \in Seq(S)
  <2> HIDE DEF S
  <2> QED
    BY <1>1 DEF C!Landed
<1>3. t \in Tasks /\ index' \in SUBSET Creds
  BY <1>2 DEF C!Landed
<1>4. task' \in [Tasks -> CredTask]
  <2>1. "erasing" \in C!PCs /\ "dialing" \in C!PCs
    BY DEF C!PCs
  <2>2. [task[t] EXCEPT !.pc = "erasing"] \in CredTask /\ [task[t] EXCEPT !.pc = "dialing"] \in CredTask
    BY <1>3, <2>1, GoesOn DEF CredentialsInv
  <2>3. PICK r \in CredTask : task' = [task EXCEPT ![t] = r]
    BY <2>2, IdleTask DEF C!Landed
  <2> QED
    BY <1>3, <2>3 DEF CredentialsInv
<1>5. secret' \in [Creds -> C!Passwords \cup {"none"}] /\ session' \in [Creds -> C!Passwords \cup {"none"}]
  BY DEF C!Landed, CredentialsInv, StoreTypes
<1>6. minted' = minted
  BY DEF C!Landed
<1> QED
  BY <1>2, <1>3, <1>4, <1>5, <1>6 DEF CredentialsInv, StoreTypes

\* The other changes of the index.
LEMMA IndexTypes ==
    ASSUME CredentialsInv, NEW t \in Tasks, C!Pin(t) \/ C!Erased(t) PROVE CredentialsInv'
<1>1. CASE C!Pin(t)
  <2>1. updates' \in Seq([by : Tasks, index : SUBSET Creds])
    BY <1>1, Requested DEF C!Pin, C!Request, CredentialsInv, StoreTypes
  <2>2. C!Start("pin", "indexing", Nothing) \in CredTask
    BY DEF C!Start, C!Idle, CredTask, C!Task, C!PCs, C!Kinds, CredentialsInv, StoreTypes
  <2> QED
    BY <1>1, <2>1, <2>2 DEF C!Pin, CredentialsInv, StoreTypes
<1>2. CASE C!Erased(t) /\ task[t].todo = {} /\ task' = [task EXCEPT ![t] = C!Idle]
           /\ UNCHANGED <<updates, session, secret>>
  BY <1>2, IdleTask DEF C!Erased, CredentialsInv, StoreTypes
<1>3. ASSUME NEW c \in task[t].todo, C!Deleting(t, c, "purge", task[t].todo \ {c}),
             UNCHANGED <<index, minted>>
      PROVE  CredentialsInv'
  <2>1. task[t].todo \in SUBSET Creds
    BY DEF CredentialsInv, CredTask, C!Task
  <2> QED
    BY <1>3, <2>1, DeletingTypes
<1> QED
  BY <1>1, <1>2, <1>3 DEF C!Erased

\* Every step of the credentials.
LEMMA CredentialsStep == CredentialsInv /\ [C!Next]_cVars => CredentialsInv'
<1> SUFFICES ASSUME CredentialsInv, [C!Next]_cVars PROVE CredentialsInv'
  OBVIOUS
<1>1. CASE UNCHANGED cVars
  BY <1>1 DEF cVars, CredentialsInv, StoreTypes
<1>2. ASSUME NEW t \in Tasks, NEW c \in Creds, C!Delete(t, c) PROVE CredentialsInv'
  BY <1>2, DeletingTypes DEF C!Delete
<1>3. CASE C!Restart
  <2>1. task' \in [Tasks -> CredTask]
    BY <1>3, IdleTask DEF C!Restart
  <2>2. StoreTypes'
    BY <1>3 DEF C!Restart, CredentialsInv, StoreTypes
  <2> QED
    BY <2>1, <2>2 DEF CredentialsInv
<1>4. ASSUME NEW t \in Tasks, NEW c \in Creds, C!AddKey(t, c) \/ C!Login(t, c)
      PROVE  CredentialsInv'
  <2>1. "right" \in C!Passwords
    BY DEF C!Passwords
  <2> QED
    BY <1>4, <2>1, BeginTypes
<1>5. ASSUME NEW t \in Tasks, \/ C!Added(t) \/ C!Saved(t) \/ C!LoginEnds(t)
                              \/ C!RefusedUnlisted(t) \/ C!GiveUp(t) \/ C!Retry(t)
      PROVE  CredentialsInv'
  <2>1. "right" \in C!Passwords
    BY DEF C!Passwords
  <2> QED
    BY <1>5, <2>1, LoginTypes
<1> QED
  BY <1>1, <1>2, <1>3, <1>4, <1>5, BeginTypes, LoginTypes, RefusedTypes, LandedTypes, IndexTypes
    DEF C!Next

\* Nothing is stored at first.
LEMMA CredentialsInit == C!Init => CredentialsInv
BY IdleTask DEF C!Init, CredentialsInv, StoreTypes

\* They are the types of the module.
LEMMA CredentialsFollow == CredentialsInv => C!TypeOK
BY DEF CredentialsInv, StoreTypes, CredTask, C!TypeOK

------------------------------------------------------------------------------
(* Hosts *)

\* The sets of hosts; the files on the drive.
HostTypes ==
    /\ saved \subseteq Hosts /\ sshConfig \subseteq Hosts /\ entered \subseteq Hosts
    /\ tokens \in {"none", "fresh", "stale"} /\ revoked \in BOOLEAN
FilesTyped == files \in Seq(SUBSET Hosts) /\ Len(files) <= MaxFiles

\* The file a command works on is there: none is ever taken away.
TargetIsThere ==
    /\ cmd.pc = "fetching" => cmd.target \in DOMAIN files
    /\ cmd.pc = "sending" => cmd.target \in {0} \cup DOMAIN files

\* The inductive invariant of the hosts.
HostsInv ==
    /\ HostTypes /\ FilesTyped
    /\ cmd \in H!Command
    /\ TargetIsThere
    /\ H!HostsKept

\* A file that is put on the drive holds hosts.
LEMMA FilesPut ==
    ASSUME FilesTyped, NEW n \in {0} \cup DOMAIN files, NEW hosts \in SUBSET Hosts, H!Put(n, hosts)
    PROVE  FilesTyped' /\ DOMAIN files \subseteq DOMAIN files'
<1> DEFINE S == SUBSET Hosts
<1>0. MaxFiles \in Nat
  BY ConstantsAssumption DEF H!MaxFilesAssumption
<1>1. files \in Seq(S) /\ hosts \in S /\ Len(files) <= MaxFiles
  BY DEF FilesTyped
<1> HIDE DEF S
<1>2. files' \in Seq(S) /\ Len(files') <= MaxFiles /\ DOMAIN files \subseteq DOMAIN files'
  <2>1. CASE n = 0
    <3>1. files' = Append(files, hosts) /\ Len(files) < MaxFiles
      BY <2>1 DEF H!Put
    <3> QED
      BY <1>0, <1>1, <3>1
  <2>2. CASE n # 0
    <3>1. files' = [files EXCEPT ![n] = hosts] /\ n \in 1 .. Len(files)
      BY <1>1, <2>2 DEF H!Put
    <3>2. files' \in Seq(S) /\ Len(files') = Len(files)
      BY <1>1, <3>1
    <3>3. DOMAIN files' = DOMAIN files
      BY <3>1
    <3> QED
      BY <1>1, <3>2, <3>3
  <2> QED
    BY <2>1, <2>2
<1> QED
  BY <1>2 DEF S, FilesTyped

\* The files only change by what a machine puts there.
LEMMA FilesChanges ==
    ASSUME FilesTyped, cmd \in H!Command, TargetIsThere, [H!Next]_hVars
    PROVE  FilesTyped' /\ DOMAIN files \subseteq DOMAIN files'
<1>0. DOMAIN files = 1 .. Len(files)
  BY DEF FilesTyped
<1>1. CASE H!Send
  BY <1>1, FilesPut DEF H!Send, TargetIsThere, H!Command
<1>2. CASE H!OtherPush
  <2>1. H!Lookup \subseteq {0} \cup DOMAIN files
    BY DEF H!Lookup
  <2> QED
    BY <1>2, <2>1, FilesPut DEF H!OtherPush
<1>3. CASE UNCHANGED files
  BY <1>3 DEF FilesTyped
<1>4. H!Send \/ H!OtherPush \/ UNCHANGED files
  BY
     DEF H!Next, hVars, H!AddHost, H!RemoveHost, H!EditHost, H!Replaced, H!SignIn,
         H!SignOut, H!Expire,
    H!Refresh, H!Refreshed, H!Fails, H!Push, H!Found, H!Pull, H!Fetched, H!ImportFile,
    H!Reviewed, H!Merge
<1> QED
  BY <1>1, <1>2, <1>3, <1>4

\* The account changes without the hosts and the command.
LEMMA AccountStep ==
    ASSUME HostsInv, FilesTyped', DOMAIN files \subseteq DOMAIN files',
           H!SignIn \/ H!SignOut \/ H!Expire
    PROVE  HostsInv'
<1>1. HostTypes' /\ UNCHANGED <<saved, entered, cmd>>
  BY DEF HostsInv, HostTypes, H!SignIn, H!SignOut, H!Expire, H!hostList, H!account
<1> QED
  BY <1>1 DEF HostsInv, TargetIsThere, H!HostsKept, H!Command

\* A command goes on while the hosts stay.
LEMMA CommandStep ==
    ASSUME HostsInv, FilesTyped', DOMAIN files \subseteq DOMAIN files',
           \/ H!Refresh \/ H!Refreshed \/ H!Fails \/ H!Push \/ H!Pull \/ H!Found \/ H!Send
           \/ H!Fetched \/ \E hosts \in SUBSET Hosts : H!ImportFile(hosts)
           \/ H!Reviewed
    PROVE  HostsInv'
<1>0. DOMAIN files = 1 .. Len(files) /\ Len(files) \in Nat /\ Len(files) <= MaxFiles /\ MaxFiles \in Nat
  BY ConstantsAssumption DEF HostsInv, FilesTyped, H!MaxFilesAssumption
<1>1. HostTypes' /\ UNCHANGED <<saved, entered>>
  BY
     DEF HostsInv, HostTypes, H!Refresh, H!Refreshed, H!Fails, H!Push, H!Pull, H!Found,
         H!Send, H!Fetched,
    H!ImportFile, H!Reviewed, H!hostList, H!account
<1>2. H!AllHosts \subseteq Hosts /\ cmd \in H!Command /\ cmd.hosts \subseteq Hosts /\ TargetIsThere
  BY DEF HostsInv, HostTypes, H!AllHosts, H!Command
<1> DEFINE Goes == cmd' \in H!Command /\ cmd.pc # "replacing" /\ cmd'.pc # "replacing" /\ TargetIsThere'
<1>3. Goes => HostsInv'
  BY <1>1 DEF HostsInv, H!HostsKept
<1>4. ASSUME cmd.pc # "replacing",
             \/ cmd' = H!NoCommand
             \/ \E pc \in H!PCs \ {"replacing", "sending", "fetching"} :
                   \/ cmd' = [cmd EXCEPT !.pc = pc]
                   \/ \E hs \in SUBSET Hosts : cmd' = [cmd EXCEPT !.pc = pc, !.hosts = hs]
                   \/ \E k \in {"push", "pull", "import"} :
                         cmd' = [H!NoCommand EXCEPT !.pc = pc, !.kind = k]
                   \/ \E k \in {"push", "pull", "import"}, hs \in SUBSET Hosts :
                         \/ cmd' = [H!NoCommand EXCEPT !.pc = pc, !.kind = k, !.hosts = hs]
                         \/ cmd' = [H!NoCommand EXCEPT !.kind = k, !.hosts = hs, !.pc = pc]
      PROVE  HostsInv'
  <2>1. 0 \in 0 .. MaxFiles /\ {} \in SUBSET Hosts /\ "idle" \in H!PCs
    BY <1>0 DEF H!PCs
  <2>2. cmd' \in H!Command /\ cmd'.pc \notin {"replacing", "sending", "fetching"}
    <3>1. CASE cmd' = H!NoCommand
      BY <2>1, <3>1 DEF H!Command, H!PCs, H!NoCommand
    <3>2. ASSUME NEW pc \in H!PCs \ {"replacing", "sending", "fetching"},
                 \/ cmd' = [cmd EXCEPT !.pc = pc]
                 \/ \E hs \in SUBSET Hosts : cmd' = [cmd EXCEPT !.pc = pc, !.hosts = hs]
          PROVE  cmd' \in H!Command /\ cmd'.pc = pc
      BY <1>2, <3>2 DEF H!Command
    <3>3. ASSUME NEW pc \in H!PCs \ {"replacing", "sending", "fetching"},
                 NEW k \in {"push", "pull", "import"}, NEW hs \in SUBSET Hosts,
                 \/ cmd' = [H!NoCommand EXCEPT !.pc = pc, !.kind = k]
                 \/ cmd' = [H!NoCommand EXCEPT !.pc = pc, !.kind = k, !.hosts = hs]
                 \/ cmd' = [H!NoCommand EXCEPT !.kind = k, !.hosts = hs, !.pc = pc]
          PROVE  cmd' \in H!Command /\ cmd'.pc = pc
      BY <2>1, <3>3 DEF H!Command, H!NoCommand
    <3> QED
      BY <1>4, <2>1, <3>1, <3>2, <3>3
  <2> QED
    BY <1>3, <1>4, <2>2 DEF TargetIsThere
<1> DEFINE Others == H!PCs \ {"replacing", "sending", "fetching"}
<1>5. {"idle", "finding", "refreshing", "review", "writing"} \subseteq Others
  BY DEF H!PCs
<1> HIDE DEF Goes, Others
<1>6. CASE H!Refresh \/ H!Refreshed
  <2>1. cmd.pc # "replacing" /\ \E pc \in Others : cmd' = [cmd EXCEPT !.pc = pc]
    BY <1>5, <1>6 DEF H!Refresh, H!Refreshed
  <2> QED
    BY <1>4, <2>1 DEF Others
<1>7. CASE H!Fails \/ H!Send
  BY <1>4, <1>7 DEF H!Fails, H!Send
<1>8. CASE H!Push \/ H!Pull
  <2>1. cmd.pc # "replacing"
    BY <1>8 DEF H!Push, H!Pull, H!Idle
  <2>2. \/ cmd' = [H!NoCommand EXCEPT !.pc = "finding", !.kind = "push", !.hosts = H!AllHosts]
        \/ cmd' = [H!NoCommand EXCEPT !.pc = "finding", !.kind = "pull"]
    BY <1>8 DEF H!Push, H!Pull
  <2> QED
    BY <1>2, <1>4, <1>5, <2>1, <2>2 DEF Others
<1>9. CASE H!Found
  <2>1. PICK n \in H!Lookup :
          cmd' = CASE cmd.kind = "push" -> [cmd EXCEPT !.pc = "sending", !.target = n]
                   [] cmd.kind = "pull" /\ n # 0 -> [cmd EXCEPT !.pc = "fetching", !.target = n]
                   [] OTHER -> H!NoCommand
    BY <1>9 DEF H!Found
  <2>2. n \in {0} \cup DOMAIN files /\ n \in 0 .. MaxFiles
    BY <1>0 DEF H!Lookup
  <2>3. cmd.pc = "finding" /\ files' = files
    BY <1>9 DEF H!Found
  <2>4. \/ cmd' = [cmd EXCEPT !.pc = "sending", !.target = n]
        \/ n # 0 /\ cmd' = [cmd EXCEPT !.pc = "fetching", !.target = n]
        \/ cmd' = H!NoCommand
    BY <2>1
  <2>5. ASSUME NEW pc \in {"sending", "fetching"}, cmd' = [cmd EXCEPT !.pc = pc, !.target = n],
               pc = "fetching" => n # 0
        PROVE  HostsInv'
    <3>1. pc \in H!PCs /\ {} \in SUBSET Hosts
      BY DEF H!PCs
    <3>2. cmd' \in H!Command /\ cmd'.pc = pc /\ cmd'.target = n
      <4>1. /\ [cmd EXCEPT !.pc = pc, !.target = n] \in H!Command
            /\ [cmd EXCEPT !.pc = pc, !.target = n].pc = pc
            /\ [cmd EXCEPT !.pc = pc, !.target = n].target = n
        BY ONLY <1>2, <2>2, <3>1 DEF H!Command, H!PCs
      <4> QED
        BY <2>5, <4>1
    <3> QED
      BY <1>3, <2>2, <2>3, <2>5, <3>2 DEF Goes, TargetIsThere
  <2> QED
    BY <1>4, <2>3, <2>4, <2>5
<1>10. ASSUME NEW k \in {"pull", "import"}, NEW hosts \in SUBSET Hosts, H!Review(k, hosts),
              cmd.pc # "replacing"
       PROVE  HostsInv'
  <2>1. PICK pc \in {"writing", "review"} :
           cmd' = [H!NoCommand EXCEPT !.kind = k, !.hosts = hosts, !.pc = pc]
    BY <1>10 DEF H!Review
  <2> QED
    BY <1>4, <1>5, <1>10, <2>1 DEF Others
<1>11. CASE H!Fetched
  <2>1. files[cmd.target] \in SUBSET Hosts
    BY <1>2, <1>11 DEF H!Fetched, HostsInv, FilesTyped, TargetIsThere
  <2> QED
    BY <1>10, <1>11, <2>1 DEF H!Fetched
<1>12. ASSUME NEW hosts \in SUBSET Hosts, H!ImportFile(hosts) PROVE HostsInv'
  BY <1>10, <1>12 DEF H!ImportFile, H!Idle
<1>13. CASE H!Reviewed
  <2>1. PICK picked \in SUBSET cmd.hosts :
          cmd' = IF picked = {} THEN H!NoCommand
                 ELSE [cmd EXCEPT !.pc = "writing", !.hosts = picked]
    BY <1>13 DEF H!Reviewed
  <2>2. cmd.pc # "replacing" /\ picked \in SUBSET Hosts
    BY <1>2, <1>13 DEF H!Reviewed
  <2> QED
    BY <1>4, <1>5, <2>1, <2>2 DEF Others
<1> QED
  BY <1>6, <1>7, <1>8, <1>9, <1>11, <1>12, <1>13

\* Every step keeps the hosts the user entered.
LEMMA HostsStep == HostsInv /\ [H!Next]_hVars => HostsInv'
<1> SUFFICES ASSUME HostsInv, [H!Next]_hVars PROVE HostsInv'
  OBVIOUS
<1>0. FilesTyped' /\ DOMAIN files \subseteq DOMAIN files'
  BY FilesChanges DEF HostsInv
<1>1. ASSUME NEW h \in Hosts, NEW g \in Hosts, H!AddHost(h) \/ H!RemoveHost(h) \/ H!EditHost(h, g)
      PROVE  HostsInv'
  <2>1. HostTypes' /\ H!HostsKept'
    BY <1>1 DEF H!AddHost, H!RemoveHost, H!EditHost, HostsInv, HostTypes, H!HostsKept, H!Idle,
      H!NoCommand, H!account, H!hostList
  <2>2. cmd' = cmd \/ cmd' = [H!NoCommand EXCEPT !.pc = "replacing", !.kind = "edit", !.hosts = {g}]
    BY <1>1 DEF H!AddHost, H!RemoveHost, H!EditHost
  <2>3. cmd' \in H!Command /\ TargetIsThere'
    <3>1. 0 \in 0 .. MaxFiles /\ "replacing" \in H!PCs /\ "idle" \in H!PCs /\ {g} \in SUBSET Hosts
      BY ConstantsAssumption DEF H!PCs, H!MaxFilesAssumption
    <3>2. cmd' = cmd \/ (cmd' \in H!Command /\ cmd'.pc = "replacing")
      BY <2>2, <3>1 DEF HostsInv, H!Command, H!PCs, H!NoCommand
    <3> QED
      BY <1>0, <3>2 DEF HostsInv, TargetIsThere
  <2> QED
    BY <1>0, <2>1, <2>3 DEF HostsInv
<1>2. CASE H!Replaced \/ H!Merge
  <2>1. cmd' = H!NoCommand /\ cmd.hosts \subseteq Hosts /\ saved' = saved \cup cmd.hosts
    BY <1>2 DEF HostsInv, H!Command, H!Replaced, H!Merge
  <2>2. HostTypes' /\ H!HostsKept'
    BY <1>2, <2>1
       DEF HostsInv, HostTypes, H!HostsKept, H!Replaced, H!Merge, H!NoCommand, H!account
  <2>3. cmd' \in H!Command /\ TargetIsThere'
    BY <2>1, ConstantsAssumption
       DEF TargetIsThere, H!NoCommand, H!Command, H!PCs, H!MaxFilesAssumption
  <2> QED
    BY <1>0, <2>2, <2>3 DEF HostsInv
<1>3. CASE H!OtherPush \/ UNCHANGED hVars
  <2>1. UNCHANGED <<saved, sshConfig, entered, tokens, revoked, cmd>>
    BY <1>3 DEF H!OtherPush, hVars, H!hostList, H!account
  <2> QED
    BY <1>0, <2>1 DEF HostsInv, HostTypes, TargetIsThere, H!HostsKept, H!Command
<1> QED
  BY <1>0, <1>1, <1>2, <1>3, AccountStep, CommandStep DEF H!Next

\* No host was entered.
LEMMA HostsInit == H!Init => HostsInv
<1>0. MaxFiles \in Nat
  BY ConstantsAssumption DEF H!MaxFilesAssumption
<1> SUFFICES ASSUME H!Init PROVE HostsInv
  OBVIOUS
<1>1. FilesTyped
  <2> DEFINE S == SUBSET Hosts
  <2> HIDE DEF S
  <2>1. files \in Seq(S) /\ Len(files) <= MaxFiles
    BY <1>0 DEF H!Init
  <2> QED
    BY <2>1 DEF S, FilesTyped
<1>3. HostTypes
  BY DEF H!Init, HostTypes
<1>2. cmd \in H!Command /\ TargetIsThere /\ H!HostsKept
  BY <1>0 DEF H!Init, TargetIsThere, H!HostsKept, H!Command, H!PCs, H!NoCommand
<1> QED
  BY <1>1, <1>2, <1>3 DEF HostsInv

------------------------------------------------------------------------------
(* Filters of the tree *)

\* What the proof needs of the types of the deep filters.
DeepTypes ==
    /\ filterPattern \in F!MaybePattern
    /\ deep \in [Searches -> [pattern : F!MaybePattern, todo : SUBSET Servers, aborted : BOOLEAN]]
    /\ activeFilters \in [Folders -> F!MaybePattern]

\* "Searching..." belongs to the search whose controller is kept.
ControllerSearches ==
    isDeepFiltering => controller \in Searches /\ F!Running(controller) /\ ~deep[controller].aborted

\* The inductive invariant of the filters.
FiltersInv == DeepTypes /\ ControllerSearches /\ F!BadgesAreFilters

\* Every step of the pattern filters.
LEMMA PatternStep == FiltersInv /\ F!PatternNext => FiltersInv'
<1> SUFFICES ASSUME FiltersInv, F!PatternNext PROVE FiltersInv'
  OBVIOUS
<1>1. UNCHANGED F!nameVars
  BY DEF F!PatternNext, F!SetFilter, F!StartDeepFilter, F!DeepFilterAnswer
<1>2. activeFilters' \in [Folders -> F!MaybePattern] /\ F!BadgesAreFilters'
  BY <1>1 DEF FiltersInv, DeepTypes, F!BadgesAreFilters, F!Filtered, F!nameVars
<1> DEFINE D == [pattern : F!MaybePattern, todo : SUBSET Servers, aborted : BOOLEAN]
           Deep == filterPattern' \in F!MaybePattern /\ deep' \in [Searches -> D]
<1> USE DEF FiltersInv, DeepTypes, ControllerSearches, F!Running
<1>3. ASSUME NEW p \in F!MaybePattern, F!SetFilter(p) PROVE Deep /\ ControllerSearches'
  <2>1. deep' \in [Searches -> D]
    <3>1. CASE controller \notin Searches
      BY <1>3, <3>1 DEF F!SetFilter, F!Abort
    <3>2. CASE controller \in Searches
      BY <1>3, <3>2 DEF F!SetFilter, F!Abort
    <3> QED
      BY <3>1, <3>2
  <2>2. filterPattern' = p /\ isDeepFiltering' = FALSE
    BY <1>3 DEF F!SetFilter
  <2> QED
    BY <2>1, <2>2
<1>4. ASSUME NEW s \in Searches, F!StartDeepFilter(s) PROVE Deep /\ ControllerSearches'
  <2> DEFINE r == [pattern |-> filterPattern, todo |-> Servers, aborted |-> FALSE]
  <2>1. deep' = [deep EXCEPT ![s] = r] /\ controller' = s /\ filterPattern' = filterPattern
    BY <1>4 DEF F!StartDeepFilter
  <2>2. r \in D /\ r.pattern # Nothing /\ ~r.aborted
    BY <1>4 DEF F!StartDeepFilter
  <2>3. deep' \in [Searches -> D] /\ deep'[s] = r
    BY <2>1, <2>2
  <2> QED
    BY <2>1, <2>2, <2>3
<1>5. ASSUME NEW s \in Searches, NEW c \in Servers, F!DeepFilterAnswer(s, c)
      PROVE  Deep /\ ControllerSearches'
  <2>1. F!Idle \in D
    BY DEF F!Idle, F!MaybePattern
  <2>2. [deep[s] EXCEPT !.todo = deep[s].todo \ {c}] \in D /\ [deep[s] EXCEPT !.todo = deep[s].todo \ {c}].pattern = deep[s].pattern
        /\ [deep[s] EXCEPT !.todo = deep[s].todo \ {c}].aborted = deep[s].aborted
    OBVIOUS
  <2>3. filterPattern' = filterPattern
    BY <1>5 DEF F!DeepFilterAnswer
  <2>4. CASE deep[s].todo = {c}
    <3>1. deep' = [deep EXCEPT ![s] = F!Idle]
      BY <1>5, <2>4 DEF F!DeepFilterAnswer
    <3>2. isDeepFiltering' => isDeepFiltering /\ deep[s].aborted
      BY <1>5, <2>4 DEF F!DeepFilterAnswer
    <3>3. controller' = IF controller = s THEN Nothing ELSE controller
      BY <1>5, <2>4 DEF F!DeepFilterAnswer
    <3> QED
      BY <2>1, <2>3, <3>1, <3>2, <3>3
  <2>5. CASE deep[s].todo # {c}
    <3>1. deep' = [deep EXCEPT ![s] = [deep[s] EXCEPT !.todo = deep[s].todo \ {c}]]
      BY <1>5, <2>5 DEF F!DeepFilterAnswer
    <3>2. isDeepFiltering' => isDeepFiltering
      BY <1>5, <2>5 DEF F!DeepFilterAnswer
    <3>3. controller' = controller
      BY <1>5, <2>5 DEF F!DeepFilterAnswer
    <3>4. \A q \in Searches : deep'[q].pattern = deep[q].pattern /\ deep'[q].aborted = deep[q].aborted
      BY <2>2, <3>1
    <3>5. deep' \in [Searches -> D]
      BY <2>2, <3>1
    <3> QED
      BY <2>3, <3>2, <3>3, <3>4, <3>5
  <2> QED
    BY <2>4, <2>5
<1>6. Deep /\ ControllerSearches'
  BY <1>3, <1>4, <1>5 DEF F!PatternNext
<1> QED
  BY <1>2, <1>6

\* Every step of the filters of folders and their badges.
LEMMA FolderStep == FiltersInv /\ F!FolderNext => FiltersInv'
<1> SUFFICES ASSUME FiltersInv, F!FolderNext PROVE FiltersInv'
  OBVIOUS
<1>1. UNCHANGED F!deepVars
  BY DEF F!FolderNext, F!StartFind, F!FindEnds, F!ClearFilenameFilter, F!Reveal, F!HomeResolved,
    F!FirstDirectory, F!DirectoriesLoaded, F!Revealed, F!BuildIndex, F!IndexBuilt, F!nameVars
<1>2. ControllerSearches'
  BY <1>1 DEF F!deepVars, FiltersInv, ControllerSearches, F!Running
<1> DEFINE Badged == activeFilters' \in [Folders -> F!MaybePattern] /\ F!BadgesAreFilters'
<1> USE DEF FiltersInv, DeepTypes, F!BadgesAreFilters, F!Filtered, F!MaybePattern, F!nameVars
<1>3. ASSUME NEW f \in Folders, NEW p \in Patterns, F!StartFind(f, p) \/ F!FindEnds(f, p)
      PROVE  Badged
  BY <1>3 DEF F!StartFind, F!FindEnds
<1>4. ASSUME NEW fs \in SUBSET Folders, F!ClearFilenameFilter(fs) PROVE Badged
  BY <1>4 DEF F!ClearFilenameFilter
<1>5. ASSUME F!Reveal PROVE Badged
  BY <1>5 DEF F!Reveal
<1>6. ASSUME F!HomeResolved \/ F!FirstDirectory \/ F!DirectoriesLoaded \/ F!Revealed
      PROVE  Badged
  BY <1>6 DEF F!HomeResolved, F!FirstDirectory, F!DirectoriesLoaded, F!Revealed
<1>7. ASSUME NEW f \in Folders, F!BuildIndex(f) \/ F!IndexBuilt(f) PROVE Badged
  BY <1>7 DEF F!BuildIndex, F!IndexBuilt
<1>8. Badged
  BY <1>3, <1>4, <1>5, <1>6, <1>7 DEF F!FolderNext
<1> QED
  BY <1>1, <1>2, <1>8 DEF F!deepVars

\* A step of another component.
LEMMA FiltersKept == FiltersInv /\ UNCHANGED fVars => FiltersInv'
<1> SUFFICES ASSUME FiltersInv, UNCHANGED fVars PROVE FiltersInv'
  OBVIOUS
<1>1. DeepTypes'
  BY DEF FiltersInv, DeepTypes, fVars
<1>2. ControllerSearches'
  BY DEF FiltersInv, ControllerSearches, F!Running, fVars
<1>3. F!BadgesAreFilters'
  BY DEF FiltersInv, F!BadgesAreFilters, F!Filtered, fVars
<1> QED
  BY <1>1, <1>2, <1>3 DEF FiltersInv

\* No filter.
LEMMA FiltersInit == F!Init => FiltersInv
<1> SUFFICES ASSUME F!Init PROVE FiltersInv
  OBVIOUS
<1>1. F!Idle \in [pattern : F!MaybePattern, todo : SUBSET Servers, aborted : BOOLEAN]
  BY DEF F!Idle, F!MaybePattern
<1>2. DeepTypes
  BY <1>1 DEF F!Init, DeepTypes, F!MaybePattern
<1>3. ControllerSearches
  <2>1. isDeepFiltering = FALSE
    BY DEF F!Init
  <2> QED
    BY <2>1 DEF ControllerSearches
<1>4. F!BadgesAreFilters
  BY DEF F!Init, F!BadgesAreFilters, F!Filtered
<1> QED
  BY <1>2, <1>3, <1>4 DEF FiltersInv

\* The types survive the pattern's steps.
LEMMA PatternTypes == F!TypeOK /\ FiltersInv /\ F!PatternNext => F!TypeOK'
<1> SUFFICES ASSUME F!TypeOK, FiltersInv, F!PatternNext PROVE F!TypeOK'
  OBVIOUS
<1>1. DeepTypes'
  BY PatternStep DEF FiltersInv
<1>2. UNCHANGED <<F!nameVars, revealing, indexing, snapshots>>
  BY DEF F!PatternNext, F!SetFilter, F!StartDeepFilter, F!DeepFilterAnswer
<1> DEFINE Kept == /\ deepFilterResults' \in [Servers -> F!MaybePattern]
                   /\ controller' \in Searches \cup {Nothing}
                   /\ isDeepFiltering' \in BOOLEAN
<1> USE DEF F!TypeOK, F!MaybePattern
<1>3. ASSUME NEW p \in F!MaybePattern, F!SetFilter(p) PROVE Kept
  BY <1>3 DEF F!SetFilter, F!Abort
<1>4. ASSUME NEW s \in Searches, F!StartDeepFilter(s) PROVE Kept
  BY <1>4 DEF F!StartDeepFilter
<1>5. ASSUME NEW s \in Searches, NEW c \in Servers, F!DeepFilterAnswer(s, c) PROVE Kept
  BY <1>5 DEF F!DeepFilterAnswer
<1>6. Kept
  BY <1>3, <1>4, <1>5 DEF F!PatternNext
<1> QED
  BY <1>1, <1>2, <1>6 DEF DeepTypes, F!nameVars

\* And those of the folders.
LEMMA FolderTypes == F!TypeOK /\ FiltersInv /\ F!FolderNext => F!TypeOK'
<1> SUFFICES ASSUME F!TypeOK, FiltersInv, F!FolderNext PROVE F!TypeOK'
  OBVIOUS
<1>1. UNCHANGED F!deepVars
  BY DEF F!FolderNext, F!StartFind, F!FindEnds, F!ClearFilenameFilter, F!Reveal, F!HomeResolved,
    F!FirstDirectory, F!DirectoriesLoaded, F!Revealed, F!BuildIndex, F!IndexBuilt, F!nameVars
<1>2. DeepTypes'
  BY FolderStep DEF FiltersInv
<1> DEFINE Kept == /\ finds' \subseteq Folders \X Patterns /\ badges' \subseteq Folders
                   /\ revealing' \in {"no", "home", "first", "loading", "wait", "thrown"}
                   /\ indexing' \subseteq Folders /\ snapshots' \subseteq Folders
<1> USE DEF F!TypeOK, F!nameVars
<1>3. ASSUME NEW f \in Folders, NEW p \in Patterns, F!StartFind(f, p) \/ F!FindEnds(f, p)
      PROVE  Kept
  BY <1>3 DEF F!StartFind, F!FindEnds
<1>4. ASSUME NEW fs \in SUBSET Folders, F!ClearFilenameFilter(fs) PROVE Kept
  BY <1>4 DEF F!ClearFilenameFilter
<1>5. ASSUME F!Reveal \/ F!HomeResolved \/ F!FirstDirectory \/ F!DirectoriesLoaded \/ F!Revealed
      PROVE  Kept
  BY <1>5 DEF F!Reveal, F!HomeResolved, F!FirstDirectory, F!DirectoriesLoaded, F!Revealed
<1>6. ASSUME NEW f \in Folders, F!BuildIndex(f) \/ F!IndexBuilt(f) PROVE Kept
  BY <1>6 DEF F!BuildIndex, F!IndexBuilt
<1>7. Kept
  BY <1>3, <1>4, <1>5, <1>6 DEF F!FolderNext
<1> QED
  BY <1>1, <1>2, <1>7 DEF DeepTypes, F!deepVars

\* No filter at first.
LEMMA FilterTypesInit == F!Init => F!TypeOK
<1> SUFFICES ASSUME F!Init PROVE F!TypeOK
  OBVIOUS
<1>1. DeepTypes
  BY FiltersInit DEF FiltersInv
<1> QED
  BY <1>1 DEF F!Init, F!TypeOK, F!MaybePattern, DeepTypes

\* The other components leave the types alone.
LEMMA FilterTypesKept == F!TypeOK /\ UNCHANGED fVars => F!TypeOK'
BY DEF F!TypeOK, fVars

------------------------------------------------------------------------------
(* The sudo password *)

\* What is on the wire in either direction.
Tokens == {"PROMPT", "READY", "sorry, try again"}
Lines == Typed \cup {"part", "content", "end"}

\* What the proof needs of the types.
SudoTypes ==
    /\ sudoMode \in U!Known /\ sudoCache \in U!Known
    /\ call \in [Calls -> U!Calling]
    /\ DOMAIN client = Calls
    /\ \A c \in Calls : DOMAIN client[c] = {"state", "buf", "typed"}
    /\ stderr \in [Calls -> Seq(Tokens)]
    /\ stdin \in [Calls -> Seq(Lines)]
    /\ DOMAIN server = Calls /\ DOMAIN written = Calls

\* The client has sent nothing yet, and looks for PROMPT or READY.
Expects(c) == client[c].state \in {"WAIT_PROMPT_OR_READY", "WAIT_READY"} /\ ~client[c].typed

\* The exchange of a call.  An open client has a password of the user to send.
\* Before the password is sent nothing is, and sudo has not prompted if it has
\* started the shell.  A password is the first line there is, and none is left
\* when the shell reads.
Exchange(c) ==
    /\ client[c].state # "closed" => call[c].at = "exec" /\ call[c].password \in Typed
    /\ Expects(c) => stdin[c] = <<>> /\ client[c].buf = <<>>
    /\ server[c] = "sudo" => stderr[c] = <<>> /\ stdin[c] = <<>>
    /\ Expects(c) /\ server[c] = "shell" => \A k \in DOMAIN stderr[c] : stderr[c][k] # "PROMPT"
    /\ \A k \in DOMAIN stdin[c] : stdin[c][k] \in Typed => k = 1 /\ server[c] # "shell"
    /\ written[c] # "password"

\* The inductive invariant: every exchange is at a point where the two sides agree.
SudoInv == SudoTypes /\ \A c \in Calls : Exchange(c)

\* What belongs to another call stays.
SameCall(d) ==
    /\ call'[d] = call[d] /\ client'[d] = client[d] /\ stderr'[d] = stderr[d]
    /\ stdin'[d] = stdin[d] /\ server'[d] = server[d] /\ written'[d] = written[d]

\* A step of a call leaves the other calls alone.
LEMMA CallsApart ==
    ASSUME SudoTypes, NEW c \in Calls, U!CallNext(c)
    PROVE  \A d \in Calls \ {c} : SameCall(d)
<1> USE DEF SudoTypes, SameCall, U!OpenChannel, U!Moves, U!Outcome, U!wires, U!modeVars, U!Reads
<1>1. CASE U!GuardedWrite(c) \/ U!Denied(c) \/ U!GiveUp(c)
  BY <1>1 DEF U!GuardedWrite, U!Denied, U!GiveUp
<1>2. ASSUME NEW why, U!Ask(c, why) PROVE \A d \in Calls \ {c} : SameCall(d)
  BY <1>2 DEF U!Ask
<1>3. ASSUME NEW p, U!Enter(c, p) PROVE \A d \in Calls \ {c} : SameCall(d)
  BY <1>3 DEF U!Enter
<1>4. CASE U!SudoStarts(c) \/ U!SudoReads(c) \/ U!ShellReads(c)
  BY <1>4 DEF U!SudoStarts, U!SudoReads, U!ShellReads
<1>5. ASSUME NEW n, U!Refused(c, n) \/ U!Ready(c, n) \/ U!Prompted(c, n)
      PROVE  \A d \in Calls \ {c} : SameCall(d)
  BY <1>5 DEF U!Refused, U!Ready, U!Prompted
<1>6. CASE U!CloseDone(c) \/ U!CloseLost(c) \/ U!Timeout(c)
  BY <1>6 DEF U!CloseDone, U!CloseLost, U!Timeout
<1>7. CASE U!AfterAuth(c) \/ U!AfterOther(c) \/ U!AfterSaved(c)
  BY <1>7 DEF U!AfterAuth, U!AfterOther, U!AfterSaved
<1> QED
  BY <1>1, <1>2, <1>3, <1>4, <1>5, <1>6, <1>7 DEF U!CallNext

\* A channel is opened with a password of the user, and with nothing on it.
LEMMA OpensQuietly ==
    ASSUME SudoTypes, NEW c \in Calls, NEW why \in {"none", "once", "all", "mode", "saveAs"},
           NEW p \in Typed, U!OpenChannel(c, why, p),
           sudoMode' \in U!Known, sudoCache' \in U!Known
    PROVE  SudoTypes' /\ Exchange(c)'
<1> DEFINE r == [why |-> why, at |-> "exec", password |-> p]
           k == [U!Closed EXCEPT !.state = "WAIT_PROMPT_OR_READY"]
<1>1. r \in U!Calling /\ r.at = "exec" /\ r.password = p
  BY DEF U!Calling, U!Known
<1>2. DOMAIN k = {"state", "buf", "typed"} /\ k.state = "WAIT_PROMPT_OR_READY" /\ k.buf = <<>>
  BY DEF U!Closed
<1>3. <<>> \in Seq(Tokens) /\ <<>> \in Seq(Lines)
  OBVIOUS
<1> HIDE DEF r, k
<1>4. /\ call' = [call EXCEPT ![c] = r] /\ client' = [client EXCEPT ![c] = k]
      /\ server' = [server EXCEPT ![c] = "sudo"] /\ written' = [written EXCEPT ![c] = "old"]
      /\ stdin' = [stdin EXCEPT ![c] = <<>>] /\ stderr' = [stderr EXCEPT ![c] = <<>>]
  BY DEF U!OpenChannel, r, k
<1>5. SudoTypes'
  BY <1>1, <1>2, <1>3, <1>4 DEF SudoTypes
<1> QED
  BY <1>1, <1>2, <1>4, <1>5 DEF SudoTypes, Exchange, Expects

\* Where no channel is open, the call moves on without one.
LEMMA MovesQuietly ==
    ASSUME SudoTypes, NEW c \in Calls, Exchange(c), call[c].at # "exec",
           NEW why \in {"none", "once", "all", "saveAs"}, NEW place \in {"idle", "dialog", "prompt"},
           U!Moves(c, why, place), sudoMode' \in U!Known, sudoCache' \in U!Known
    PROVE  SudoTypes' /\ Exchange(c)'
<1> DEFINE r == [why |-> why, at |-> place, password |-> Nothing]
<1>1. r \in U!Calling
  BY DEF U!Calling, U!Known
<1>2. call' = [call EXCEPT ![c] = r] /\ UNCHANGED <<client, stderr, stdin, server, written>>
  BY DEF U!Moves, U!wires
<1> HIDE DEF r
<1>3. SudoTypes'
  BY <1>1, <1>2 DEF SudoTypes
<1> QED
  BY <1>1, <1>2, <1>3 DEF SudoTypes, Exchange, Expects

\* The steps before the channel is open: the password is asked for and chosen.
LEMMA AskerSteps ==
    ASSUME SudoTypes, NEW c \in Calls, Exchange(c),
           \/ U!GuardedWrite(c) \/ U!Denied(c) \/ U!GiveUp(c)
           \/ \E why \in {"once", "all", "saveAs"} : U!Ask(c, why)
           \/ \E p \in Typed : U!Enter(c, p)
           \/ U!AfterAuth(c) \/ U!AfterOther(c) \/ U!AfterSaved(c)
    PROVE  SudoTypes' /\ Exchange(c)'
<1>0. /\ sudoMode \in Typed \cup {Nothing} /\ sudoCache \in Typed \cup {Nothing}
      /\ U!Known = Typed \cup {Nothing}
  BY DEF SudoTypes, U!Known
<1>1. CASE U!GuardedWrite(c)
  BY <1>0, <1>1, OpensQuietly DEF U!GuardedWrite, U!modeVars
<1>2. CASE U!Denied(c) \/ U!GiveUp(c) \/ U!AfterSaved(c)
  BY <1>0, <1>2, MovesQuietly DEF U!Denied, U!GiveUp, U!AfterSaved, U!modeVars, U!At
<1>3. ASSUME NEW why \in {"once", "all", "saveAs"}, U!Ask(c, why)
      PROVE  SudoTypes' /\ Exchange(c)'
  <2>1. CASE U!Moves(c, why, "prompt") /\ UNCHANGED U!modeVars
    BY <1>0, <1>3, <2>1, MovesQuietly DEF U!Ask, U!modeVars, U!At
  <2>2. CASE ~(U!Moves(c, why, "prompt") /\ UNCHANGED U!modeVars)
    BY <1>0, <1>3, <2>2, OpensQuietly DEF U!Ask
  <2> QED
    BY <2>1, <2>2
<1>4. ASSUME NEW p \in Typed, U!Enter(c, p) PROVE SudoTypes' /\ Exchange(c)'
  <2>1. call[c].why \in {"none", "once", "all", "mode", "saveAs"}
    BY DEF SudoTypes, U!Calling
  <2> QED
    BY <1>0, <1>4, <2>1, OpensQuietly DEF U!Enter
<1>5. CASE U!AfterAuth(c)
  BY <1>0, <1>5, MovesQuietly DEF U!AfterAuth, U!At
<1>6. CASE U!AfterOther(c)
  BY <1>0, <1>6, MovesQuietly DEF U!AfterOther, U!At
<1> QED
  BY <1>1, <1>2, <1>3, <1>4, <1>5, <1>6

\* One line of the server to the client, or two.
LEMMA LinesOf ==
    ASSUME NEW S, NEW s \in Seq(S), NEW t \in S, NEW u \in S
    PROVE  /\ Append(s, t) \in Seq(S) /\ s \o <<t, u>> \in Seq(S)
           /\ s # <<>> => Tail(s) \in Seq(S) /\ Head(s) = s[1] /\ Head(s) \in S
                          /\ 1 \in DOMAIN s
                          /\ \A k \in DOMAIN Tail(s) : k + 1 \in DOMAIN s /\ k \in Nat \ {0}
                                                       /\ Tail(s)[k] = s[k + 1]
<1>1. Append(s, t) \in Seq(S)
  BY AppendProperties
<1>2. <<t, u>> \in Seq(S)
  OBVIOUS
<1>3. s \o <<t, u>> \in Seq(S)
  BY <1>2, ConcatProperties
<1>4. ASSUME s # <<>>
      PROVE  /\ Tail(s) \in Seq(S) /\ Head(s) = s[1] /\ Head(s) \in S /\ 1 \in DOMAIN s
             /\ \A k \in DOMAIN Tail(s) : k + 1 \in DOMAIN s /\ k \in Nat \ {0}
                                                /\ Tail(s)[k] = s[k + 1]
  BY <1>4, HeadTailProperties, LenProperties
<1> QED
  BY <1>1, <1>3, <1>4

\* The steps of sudo and of the script on the server.
LEMMA ServerSteps ==
    ASSUME SudoTypes, NEW c \in Calls, Exchange(c),
           U!SudoStarts(c) \/ U!SudoReads(c) \/ U!ShellReads(c)
    PROVE  SudoTypes' /\ Exchange(c)'
<1>0. stderr[c] \in Seq(Tokens) /\ stdin[c] \in Seq(Lines)
  BY DEF SudoTypes
<1>1. {"PROMPT", "READY", "sorry, try again"} \subseteq Tokens
  BY DEF Tokens
<1>2. CASE U!SudoStarts(c)
  <2>1. PICK tok \in {"PROMPT", "READY"} :
          /\ server' = [server EXCEPT ![c] = IF tok = "PROMPT" THEN "asks" ELSE "shell"]
          /\ stderr' = [stderr EXCEPT ![c] = Append(stderr[c], tok)]
    BY <1>2 DEF U!SudoStarts
  <2>2. stderr[c] = <<>> /\ stdin[c] = <<>> /\ UNCHANGED <<sudoMode, sudoCache, call, client, stdin, written>>
    BY <1>2 DEF U!SudoStarts, U!modeVars, Exchange
  <2>3. Append(stderr[c], tok) \in Seq(Tokens)
    BY <1>0, <1>1, AppendProperties
  <2>4. SudoTypes'
    BY <2>1, <2>2, <2>3 DEF SudoTypes
  <2>5. stderr'[c] = <<tok>> /\ server'[c] = IF tok = "PROMPT" THEN "asks" ELSE "shell"
    BY <2>1, <2>2 DEF SudoTypes
  <2>6. Expects(c)' => stdin'[c] = <<>> /\ client'[c].buf = <<>>
    BY <2>2 DEF Exchange, Expects
  <2> QED
    BY <2>2, <2>4, <2>5, <2>6 DEF Exchange, Expects
<1>3. CASE U!SudoReads(c)
  <2>1. /\ server[c] = "asks" /\ stdin[c] # <<>>
        /\ stdin' = [stdin EXCEPT ![c] = Tail(stdin[c])]
        /\ UNCHANGED <<sudoMode, sudoCache, call, client, written>>
    BY <1>3 DEF U!SudoReads, U!modeVars
  <2>2. \/ /\ server' = [server EXCEPT ![c] = "shell"]
           /\ stderr' = [stderr EXCEPT ![c] = Append(stderr[c], "READY")]
        \/ /\ server' = server
           /\ stderr' = [stderr EXCEPT ![c] = stderr[c] \o <<"sorry, try again", "PROMPT">>]
    BY <1>3 DEF U!SudoReads
  <2>3. /\ Append(stderr[c], "READY") \in Seq(Tokens)
        /\ stderr[c] \o <<"sorry, try again", "PROMPT">> \in Seq(Tokens)
    BY <1>0, <1>1, LinesOf
  <2>4. Tail(stdin[c]) \in Seq(Lines) /\ \A k \in DOMAIN Tail(stdin[c]) : Tail(stdin[c])[k] \notin Typed
    BY <1>0, <2>1, LinesOf DEF Exchange
  <2>5. SudoTypes'
    BY <2>1, <2>2, <2>3, <2>4 DEF SudoTypes
  <2>6. stdin'[c] = Tail(stdin[c]) /\ server'[c] \in {"shell", "asks"} /\ ~Expects(c)
    BY <2>1, <2>2 DEF SudoTypes, Exchange
  <2> QED
    BY <2>1, <2>4, <2>5, <2>6 DEF Exchange, Expects
<1>4. CASE U!ShellReads(c)
  <2>1. /\ server[c] = "shell" /\ stdin[c] # <<>>
        /\ stdin' = [stdin EXCEPT ![c] = Tail(stdin[c])]
        /\ UNCHANGED <<sudoMode, sudoCache, call, client, stderr>>
    BY <1>4 DEF U!ShellReads, U!modeVars
  <2>2. Head(stdin[c]) \notin Typed /\ Head(stdin[c]) \in Lines
    BY <1>0, <2>1, LinesOf DEF Exchange
  <2>3. \/ server' = [server EXCEPT ![c] = "done"] /\ written' = written
        \/ /\ server' = server
           /\ written' = [written EXCEPT ![c] =
                 IF Head(stdin[c]) \in Typed \/ written[c] = "password" THEN "password"
                 ELSE Head(stdin[c])]
    BY <1>4 DEF U!ShellReads
  <2>4. DOMAIN written' = Calls /\ written'[c] # "password"
    BY <2>2, <2>3 DEF SudoTypes, Exchange, Lines
  <2>5. Tail(stdin[c]) \in Seq(Lines) /\ \A k \in DOMAIN Tail(stdin[c]) : Tail(stdin[c])[k] \notin Typed
    BY <1>0, <2>1, LinesOf DEF Exchange
  <2>6. SudoTypes'
    BY <2>1, <2>3, <2>4, <2>5 DEF SudoTypes
  <2>7. stdin'[c] = Tail(stdin[c]) /\ server'[c] \in {"shell", "done"} /\ ~Expects(c)
    BY <2>1, <2>3 DEF SudoTypes, Exchange
  <2> QED
    BY <2>1, <2>4, <2>5, <2>6, <2>7 DEF Exchange, Expects
<1> QED
  BY <1>2, <1>3, <1>4

\* The steps of the client on what the server says.
LEMMA ClientSteps ==
    ASSUME SudoTypes, NEW c \in Calls, Exchange(c), NEW n \in 1 .. Len(stderr[c]),
           U!Refused(c, n) \/ U!Ready(c, n) \/ U!Prompted(c, n)
    PROVE  SudoTypes' /\ Exchange(c)'
<1>0. stderr[c] \in Seq(Tokens) /\ stdin[c] \in Seq(Lines) /\ Len(stderr[c]) \in Nat
  BY DEF SudoTypes
<1> DEFINE rest == SubSeq(stderr[c], n + 1, Len(stderr[c]))
<1>1. rest \in Seq(Tokens)
  BY <1>0, SubSeqProperties, ElementOfSeq
<1>2. \A k \in DOMAIN rest : \E l \in DOMAIN stderr[c] : rest[k] = stderr[c][l]
  BY <1>0, <1>1, SubSeqProperties, ElementOfSeq, LenProperties
<1>3. stderr[c] # <<>> /\ server[c] # "sudo"
  BY <1>0 DEF Exchange
<1>4. stderr' = [stderr EXCEPT ![c] = rest] /\ client[c].state \in {"WAIT_PROMPT_OR_READY", "WAIT_READY"}
  BY DEF U!Refused, U!Ready, U!Prompted, U!Reads
<1> HIDE DEF rest
<1>5. stderr' \in [Calls -> Seq(Tokens)] /\ stderr'[c] = rest
  BY <1>1, <1>4 DEF SudoTypes
<1>6. CASE U!Refused(c, n)
  <2>1. /\ call' = [call EXCEPT ![c].at = "auth"] /\ client' = [client EXCEPT ![c] = U!Closed]
        /\ server' = [server EXCEPT ![c] = "off"] /\ UNCHANGED <<sudoMode, sudoCache, stdin, written>>
    BY <1>6 DEF U!Refused, U!Outcome, U!modeVars
  <2>2. DOMAIN U!Closed = {"state", "buf", "typed"} /\ U!Closed.state = "closed"
    BY DEF U!Closed
  <2>3. call' \in [Calls -> U!Calling]
    BY <2>1 DEF SudoTypes, U!Calling
  <2>4. SudoTypes'
    BY <1>5, <2>1, <2>2, <2>3 DEF SudoTypes
  <2>5. client'[c].state = "closed" /\ server'[c] = "off"
    BY <2>1, <2>2 DEF SudoTypes
  <2> QED
    BY <2>1, <2>4, <2>5 DEF Exchange, Expects
<1>7. CASE U!Ready(c, n)
  <2> DEFINE content == <<"part", "content", "end">>
             r == [client[c] EXCEPT !.state = "STREAMING", !.buf = <<>>]
  <2>1. /\ client' = [client EXCEPT ![c] = r]
        /\ stdin' = [stdin EXCEPT ![c] = stdin[c] \o content]
        /\ UNCHANGED <<sudoMode, sudoCache, call, server, written>>
    BY <1>7 DEF U!Ready, U!modeVars
  <2>2. DOMAIN r = {"state", "buf", "typed"} /\ r.state = "STREAMING"
    BY DEF SudoTypes
  <2>3. content \in Seq(Lines) /\ Len(content) = 3 /\ \A k \in 1 .. 3 : content[k] \notin Typed
    <3>1. Typed \cap {"part", "content", "end"} = {}
      BY ConstantsAssumption DEF U!SudoAssumption
    <3> QED
      BY <3>1 DEF Lines
  <2> HIDE DEF content, r
  <2>4. stdin[c] \o content \in Seq(Lines)
    BY <1>0, <2>3, ConcatProperties
  <2>5. SudoTypes'
    BY <1>5, <2>1, <2>2, <2>4 DEF SudoTypes
  <2>6. ASSUME NEW k \in DOMAIN stdin'[c], stdin'[c][k] \in Typed
        PROVE  k \in DOMAIN stdin[c] /\ stdin[c][k] \in Typed
    BY <1>0, <2>1, <2>3, <2>4, <2>6, ConcatProperties, LenProperties DEF SudoTypes
  <2>7. client'[c].state = "STREAMING"
    BY <2>1, <2>2 DEF SudoTypes
  <2> QED
    BY <1>3, <1>4, <2>1, <2>5, <2>6, <2>7 DEF Exchange, Expects
<1>8. CASE U!Prompted(c, n)
  <2> DEFINE r == [client[c] EXCEPT !.state = "WAIT_READY", !.typed = TRUE,
                                    !.buf = U!RemoveFirst(U!Buffer(c, n), "PROMPT")]
  <2>1. /\ client' = [client EXCEPT ![c] = r]
        /\ stdin' = [stdin EXCEPT ![c] = Append(stdin[c], call[c].password)]
        /\ UNCHANGED <<sudoMode, sudoCache, call, server, written>>
    BY <1>8 DEF U!Prompted, U!modeVars
  <2>2. DOMAIN r = {"state", "buf", "typed"} /\ r.state = "WAIT_READY" /\ r.typed
    BY DEF SudoTypes
  <2> HIDE DEF r
  <2>3. Expects(c) /\ stdin[c] = <<>> /\ client[c].buf = <<>> /\ call[c].password \in Typed
        /\ call[c].at = "exec"
    BY <1>4, <1>8 DEF U!Prompted, Expects, Exchange
  <2>4. server[c] # "shell"
    <3>1. PICK k \in DOMAIN U!Buffer(c, n) : U!Buffer(c, n)[k] = "PROMPT"
      BY <1>8 DEF U!Prompted, U!Sees
    <3>2. SubSeq(stderr[c], 1, n) \in Seq(Tokens)
      BY <1>0, SubSeqProperties, ElementOfSeq
    <3>3. U!Buffer(c, n) = SubSeq(stderr[c], 1, n)
      BY <2>3, <3>2, ConcatEmptySeq DEF U!Buffer
    <3>4. k \in DOMAIN stderr[c] /\ stderr[c][k] = "PROMPT"
      BY <1>0, <3>1, <3>2, <3>3, SubSeqProperties, ElementOfSeq, LenProperties
    <3> QED
      BY <2>3, <3>4 DEF Exchange
  <2>5. Append(stdin[c], call[c].password) \in Seq(Lines) /\ Append(stdin[c], call[c].password) = <<call[c].password>>
    BY <2>3 DEF Lines
  <2>6. SudoTypes'
    BY <1>5, <2>1, <2>2, <2>5 DEF SudoTypes
  <2>7. client'[c].typed /\ stdin'[c] = <<call[c].password>>
    BY <2>1, <2>2, <2>5 DEF SudoTypes
  <2> QED
    BY <1>3, <2>1, <2>3, <2>4, <2>6, <2>7 DEF Exchange, Expects
<1> QED
  BY <1>6, <1>7, <1>8

\* The steps after the channel.
LEMMA ClosingSteps ==
    ASSUME SudoTypes, NEW c \in Calls, Exchange(c),
           U!CloseDone(c) \/ U!CloseLost(c) \/ U!Timeout(c)
    PROVE  SudoTypes' /\ Exchange(c)'
<1>1. PICK result \in {"saved", "other"} : U!Outcome(c, result)
  BY DEF U!CloseDone, U!CloseLost, U!Timeout
<1>2. /\ call' = [call EXCEPT ![c].at = result] /\ client' = [client EXCEPT ![c] = U!Closed]
      /\ server' = [server EXCEPT ![c] = "off"]
      /\ UNCHANGED <<sudoMode, sudoCache, stderr, stdin, written>>
  BY <1>1 DEF U!CloseDone, U!CloseLost, U!Timeout, U!Outcome, U!modeVars
<1>3. DOMAIN U!Closed = {"state", "buf", "typed"} /\ U!Closed.state = "closed"
  BY DEF U!Closed
<1>4. call' \in [Calls -> U!Calling]
  BY <1>2 DEF SudoTypes, U!Calling
<1>5. SudoTypes'
  BY <1>2, <1>3, <1>4 DEF SudoTypes
<1>6. client'[c].state = "closed" /\ server'[c] = "off"
  BY <1>2, <1>3 DEF SudoTypes
<1> QED
  BY <1>2, <1>5, <1>6 DEF Exchange, Expects

\* Every step keeps every exchange at such a point.
LEMMA SudoStep == SudoInv /\ [U!Next]_uVars => SudoInv'
<1> SUFFICES ASSUME SudoInv, [U!Next]_uVars PROVE SudoInv'
  OBVIOUS
<1>1. ASSUME NEW c \in Calls, U!CallNext(c) PROVE SudoInv'
  <2>1. SudoTypes' /\ Exchange(c)'
    BY <1>1, AskerSteps, ServerSteps, ClientSteps, ClosingSteps DEF U!CallNext, SudoInv
  <2>2. \A d \in Calls \ {c} : SameCall(d)
    BY <1>1, CallsApart DEF SudoInv
  <2>3. ASSUME NEW d \in Calls \ {c} PROVE Exchange(d)'
    BY <2>2, <2>3 DEF SameCall, SudoInv, Exchange, Expects
  <2> QED
    BY <2>1, <2>3 DEF SudoInv
<1>2. ASSUME UNCHANGED <<call, client, stderr, stdin, server, written>>,
             sudoMode' \in U!Known, sudoCache' \in U!Known
      PROVE  SudoInv'
  <2>1. SudoTypes'
    BY <1>2 DEF SudoInv, SudoTypes
  <2>2. ASSUME NEW c \in Calls PROVE Exchange(c)'
    BY <1>2 DEF SudoInv, Exchange, Expects
  <2> QED
    BY <2>1, <2>2 DEF SudoInv
<1>3. ASSUME NEW p \in Typed, U!EnableSudoMode(p) PROVE SudoInv'
  BY <1>2, <1>3 DEF U!EnableSudoMode, U!wires, SudoInv, SudoTypes, U!Known
<1>4. CASE U!DisableSudoMode
  BY <1>2, <1>4 DEF U!DisableSudoMode, U!wires, U!Known
<1>5. CASE UNCHANGED uVars
  BY <1>2, <1>5 DEF uVars, SudoInv, SudoTypes
<1> QED
  BY <1>1, <1>3, <1>4, <1>5 DEF U!Next

\* No call.
LEMMA SudoInit == U!Init => SudoInv
<1> SUFFICES ASSUME U!Init PROVE SudoInv
  OBVIOUS
<1>1. U!Quiet \in U!Calling /\ DOMAIN U!Closed = {"state", "buf", "typed"} /\ U!Closed.state = "closed"
  BY DEF U!Quiet, U!Calling, U!Known, U!Closed
<1>2. SudoTypes
  <2>1. <<>> \in Seq(Tokens) /\ <<>> \in Seq(Lines)
    OBVIOUS
  <2> QED
    BY <1>1, <2>1 DEF U!Init, SudoTypes, U!Known
<1>3. ASSUME NEW c \in Calls PROVE Exchange(c)
  <2>1. client[c] = U!Closed /\ stderr[c] = <<>> /\ stdin[c] = <<>> /\ server[c] = "off" /\ written[c] = "old"
    BY DEF U!Init
  <2> QED
    BY <1>1, <2>1 DEF Exchange, Expects
<1> QED
  BY <1>2, <1>3 DEF SudoInv

\* The server, and what the file holds.
Servings == {"off", "sudo", "asks", "shell", "done"}
Writings == {"old", "part", "content", "password"}

\* The types, and why no more than two tokens of sudo are ever on the way: it asks
\* once until the client, which has read what it said, answers, and the client
\* answers once.
SudoShape(c) ==
    /\ client[c].state \in {"closed", "WAIT_PROMPT_OR_READY", "WAIT_READY", "STREAMING"}
    /\ client[c].typed \in BOOLEAN /\ client[c].buf = <<>>
    /\ server[c] \in Servings /\ written[c] \in Writings
    /\ Len(stderr[c]) <= 2 /\ (Expects(c) => Len(stderr[c]) <= 1)
    /\ server[c] \in {"sudo", "asks"} => client[c].state # "STREAMING"
    /\ server[c] = "asks" => /\ \A k \in DOMAIN stderr[c] : stderr[c][k] # "READY"
                             /\ Len(stdin[c]) <= 1
                             /\ stdin[c] # <<>> => stderr[c] = <<>>

\* A prompt alone is all there is in the buffer when it is taken out.
LEMMA PromptTaken == U!RemoveFirst(<<"PROMPT">>, "PROMPT") = <<>>
<1> DEFINE s == <<"PROMPT">>
           I == {i \in 1 .. Len(s) : s[i] = "PROMPT"}
<1>1. I = {1}
  OBVIOUS
<1>2. U!Min(I) = 1
  BY <1>1 DEF U!Min
<1>3. U!RemoveFirst(s, "PROMPT") = U!RemoveAt(s, 1)
  BY <1>1, <1>2 DEF U!RemoveFirst, U!SelectInSeq
<1>4. U!RemoveAt(s, 1) = <<>>
  BY DEF U!RemoveAt
<1> QED
  BY <1>3, <1>4

\* The last line is read.
LEMMA LastTaken ==
    ASSUME NEW S, NEW s \in Seq(S), s # <<>>, Len(s) <= 1
    PROVE  Len(s) = 1 /\ Tail(s) = <<>>
<1>1. Len(s) \in Nat \ {0}
  BY EmptySeq
<1>2. Len(s) = 1
  BY <1>1
<1>3. Tail(s) \in Seq(S) /\ Len(Tail(s)) = 0
  BY <1>2, HeadTailProperties
<1>4. Tail(s) = <<>>
  BY <1>3, EmptySeq
<1> QED
  BY <1>2, <1>4

\* The steps before the channel is open.
LEMMA AskerShape ==
    ASSUME SudoTypes, NEW c \in Calls, Exchange(c), SudoShape(c),
           \/ U!GuardedWrite(c) \/ U!Denied(c) \/ U!GiveUp(c)
           \/ \E why \in {"once", "all", "saveAs"} : U!Ask(c, why)
           \/ \E p \in Typed : U!Enter(c, p)
           \/ U!AfterAuth(c) \/ U!AfterOther(c) \/ U!AfterSaved(c)
    PROVE  SudoShape(c)'
<1>1. ASSUME NEW why, NEW p, U!OpenChannel(c, why, p) PROVE SudoShape(c)'
  <2>1. /\ client'[c] = [U!Closed EXCEPT !.state = "WAIT_PROMPT_OR_READY"]
        /\ server'[c] = "sudo" /\ written'[c] = "old" /\ stdin'[c] = <<>> /\ stderr'[c] = <<>>
    BY <1>1 DEF U!OpenChannel, SudoTypes
  <2> QED
    BY <2>1 DEF SudoShape, U!Closed, Servings, Writings
<1>2. ASSUME NEW why, NEW place, U!Moves(c, why, place) PROVE SudoShape(c)'
  BY <1>2 DEF U!Moves, U!wires, SudoShape, Expects
<1>3. ASSUME NEW why, U!Ask(c, why) PROVE SudoShape(c)'
  BY <1>1, <1>2, <1>3 DEF U!Ask
<1> QED
  BY <1>1, <1>2, <1>3 DEF U!GuardedWrite, U!Denied, U!GiveUp, U!Enter, U!AfterAuth, U!AfterOther,
    U!AfterSaved

\* The steps of sudo and of the shell.
LEMMA ServerShape ==
    ASSUME SudoTypes, NEW c \in Calls, Exchange(c), SudoShape(c),
           U!SudoStarts(c) \/ U!SudoReads(c) \/ U!ShellReads(c)
    PROVE  SudoShape(c)'
<1>0. stderr[c] \in Seq(Tokens) /\ stdin[c] \in Seq(Lines)
  BY DEF SudoTypes
<1>1. client' = client
  BY DEF U!SudoStarts, U!SudoReads, U!ShellReads
<1>2. CASE U!SudoStarts(c)
  <2>1. stderr[c] = <<>> /\ stdin[c] = <<>> /\ stdin' = stdin /\ written' = written
    BY <1>2 DEF U!SudoStarts, Exchange
  <2>2. \/ server'[c] = "asks" /\ stderr'[c] = <<"PROMPT">>
        \/ server'[c] = "shell" /\ stderr'[c] = <<"READY">>
    BY <1>2, <2>1 DEF U!SudoStarts, SudoTypes
  <2>3. client[c].state # "STREAMING"
    BY <1>2 DEF U!SudoStarts, SudoShape
  <2>4. Len(stderr'[c]) = 1 /\ Len(stdin'[c]) = 0
    BY <2>1, <2>2
  <2>5. Len(stderr'[c]) <= 2
    BY <2>4
  <2>6. server'[c] = "asks" => \A k \in DOMAIN stderr'[c] : stderr'[c][k] # "READY"
    BY <2>2
  <2> QED
    BY <1>1, <2>1, <2>2, <2>3, <2>4, <2>5, <2>6 DEF SudoShape, Servings
<1>3. CASE U!SudoReads(c)
  <2>1. server[c] = "asks" /\ stdin[c] # <<>> /\ stderr[c] = <<>> /\ written' = written
    BY <1>3 DEF U!SudoReads, SudoShape
  <2>2. stdin'[c] = <<>>
    <3>1. Len(stdin[c]) <= 1
      BY <2>1 DEF SudoShape
    <3>2. stdin'[c] = Tail(stdin[c])
      BY <1>3 DEF U!SudoReads, SudoTypes
    <3> QED
      BY <1>0, <2>1, <3>1, <3>2, LastTaken
  <2>3. \/ server'[c] = "asks" /\ stderr'[c] = <<"sorry, try again", "PROMPT">>
        \/ server'[c] = "shell" /\ stderr'[c] = <<"READY">>
    <3>1. Append(stderr[c], "READY") = <<"READY">>
          /\ stderr[c] \o <<"sorry, try again", "PROMPT">> = <<"sorry, try again", "PROMPT">>
      BY <2>1
    <3> QED
      BY <1>3, <2>1, <3>1 DEF U!SudoReads, SudoTypes
  <2>4. (Len(stderr'[c]) = 1 \/ Len(stderr'[c]) = 2) /\ Len(stdin'[c]) = 0
    BY <2>2, <2>3
  <2>5. ~Expects(c)'
    BY <1>1, <2>1 DEF Exchange, Expects
  <2>6. server'[c] = "asks" => \A k \in DOMAIN stderr'[c] : stderr'[c][k] # "READY"
    <3> DEFINE two == <<"sorry, try again", "PROMPT">>
    <3>1. DOMAIN two = {1, 2} /\ two[1] = "sorry, try again" /\ two[2] = "PROMPT"
      OBVIOUS
    <3>2. \A k \in DOMAIN two : two[k] # "READY"
      BY <3>1
    <3> HIDE DEF two
    <3> QED
      BY <2>3, <3>2 DEF two
  <2>7. Len(stderr'[c]) <= 2
    <3>1. CASE Len(stderr'[c]) = 1
      BY <3>1
    <3>2. CASE Len(stderr'[c]) = 2
      BY <3>2
    <3> QED
      BY <2>4, <3>1, <3>2
  <2>9. Len(stdin'[c]) <= 1
    BY <2>4
  <2>8. server'[c] \in {"asks", "shell"}
    BY <2>3
  <2> QED
    BY <1>1, <2>1, <2>2, <2>5, <2>6, <2>7, <2>8, <2>9 DEF SudoShape, Servings
<1>4. CASE U!ShellReads(c)
  <2>1. server[c] = "shell" /\ stdin[c] # <<>> /\ stderr' = stderr
    BY <1>4 DEF U!ShellReads
  <2>2. server'[c] \in {"shell", "done"}
    BY <1>4, <2>1 DEF U!ShellReads, SudoTypes
  <2>3. Head(stdin[c]) \in Lines
    BY <1>0, <2>1, LinesOf
  <2>4. written'[c] \in Writings
    BY <1>4, <2>3 DEF Writings, U!ShellReads, SudoTypes, SudoShape, Lines
  <2> QED
    BY <1>1, <2>1, <2>2, <2>4 DEF SudoShape, Expects, Servings
<1> QED
  BY <1>2, <1>3, <1>4

\* The steps of the client.
LEMMA ClientShape ==
    ASSUME SudoTypes, NEW c \in Calls, Exchange(c), SudoShape(c), NEW n \in 1 .. Len(stderr[c]),
           U!Refused(c, n) \/ U!Ready(c, n) \/ U!Prompted(c, n)
    PROVE  SudoShape(c)'
<1> DEFINE rest == SubSeq(stderr[c], n + 1, Len(stderr[c]))
<1>0. stderr[c] \in Seq(Tokens) /\ stdin[c] \in Seq(Lines) /\ Len(stderr[c]) \in Nat
  BY DEF SudoTypes
<1>1. rest \in Seq(Tokens) /\ Len(rest) = Len(stderr[c]) - n
  BY <1>0, SubSeqProperties, ElementOfSeq
<1>2. stderr' = [stderr EXCEPT ![c] = rest] /\ client[c].state \in {"WAIT_PROMPT_OR_READY", "WAIT_READY"}
  BY DEF U!Refused, U!Ready, U!Prompted, U!Reads
<1>3. Len(stderr[c]) <= 2 /\ client[c].buf = <<>>
  BY <1>0 DEF SudoShape
<1>4. stderr'[c] = rest /\ Len(stderr'[c]) <= 1
  <2>1. stderr'[c] = rest
    BY <1>2 DEF SudoTypes
  <2>2. n \in Nat /\ n >= 1
    BY <1>0
  <2>3. Len(rest) <= 1
    BY <1>0, <1>1, <1>3, <2>2
  <2> QED
    BY <2>1, <2>3
<1>5. server[c] # "sudo"
  BY <1>0 DEF Exchange
<1> HIDE DEF rest
<1>6. SubSeq(stderr[c], 1, n) \in Seq(Tokens)
  BY <1>0, SubSeqProperties, ElementOfSeq
<1>7. U!Buffer(c, n) = SubSeq(stderr[c], 1, n)
  BY <1>3, <1>6, ConcatEmptySeq DEF U!Buffer
<1>8. \A token : U!Sees(c, n, token) => \E k \in DOMAIN stderr[c] : stderr[c][k] = token
  <2> SUFFICES ASSUME NEW token, U!Sees(c, n, token)
               PROVE  \E k \in DOMAIN stderr[c] : stderr[c][k] = token
    OBVIOUS
  <2>1. PICK k \in DOMAIN U!Buffer(c, n) : U!Buffer(c, n)[k] = token
    BY DEF U!Sees
  <2> QED
    BY <1>0, <1>6, <1>7, <2>1, SubSeqProperties, ElementOfSeq, LenProperties
<1>9. CASE U!Refused(c, n)
  <2>1. client'[c] = U!Closed /\ server'[c] = "off" /\ written' = written
    BY <1>9 DEF U!Refused, U!Outcome, SudoTypes
  <2>2. ~Expects(c)'
    BY <2>1 DEF Expects, U!Closed
  <2>3. Len(stderr'[c]) <= 2
    BY <1>1, <1>4
  <2> QED
    BY <2>1, <2>2, <2>3 DEF SudoShape, U!Closed, Servings
<1>10. CASE U!Ready(c, n)
  <2> DEFINE r == [client[c] EXCEPT !.state = "STREAMING", !.buf = <<>>]
  <2>1. client'[c] = r /\ server' = server /\ written' = written
    BY <1>10 DEF U!Ready, SudoTypes
  <2>2. r.state = "STREAMING" /\ r.buf = <<>> /\ r.typed = client[c].typed
    BY DEF SudoTypes
  <2> HIDE DEF r
  <2>3. U!Sees(c, n, "READY")
    BY <1>10 DEF U!Ready
  <2>4. server[c] \notin {"sudo", "asks"}
    BY <1>5, <1>8, <2>3 DEF SudoShape
  <2>5. ~Expects(c)'
    BY <2>1, <2>2 DEF Expects
  <2> QED
    BY <1>4, <2>1, <2>2, <2>4, <2>5 DEF SudoShape
<1>11. CASE U!Prompted(c, n)
  <2> DEFINE r == [client[c] EXCEPT !.state = "WAIT_READY", !.typed = TRUE,
                                    !.buf = U!RemoveFirst(U!Buffer(c, n), "PROMPT")]
  <2>1. client'[c] = r /\ server' = server /\ written' = written
        /\ stdin' = [stdin EXCEPT ![c] = Append(stdin[c], call[c].password)]
    BY <1>11 DEF U!Prompted, SudoTypes
  <2>2. r.state = "WAIT_READY" /\ r.typed /\ r.buf = U!RemoveFirst(U!Buffer(c, n), "PROMPT")
    BY DEF SudoTypes
  <2> HIDE DEF r
  <2>3. Expects(c)
    BY <1>2, <1>11 DEF U!Prompted, Expects
  <2>4. n = 1 /\ Len(stderr[c]) = 1
    <3>1. Len(stderr[c]) <= 1
      BY <2>3 DEF SudoShape
    <3>2. \A k, l \in Nat : k \in 1 .. l /\ l <= 1 => k = 1 /\ l = 1
      OBVIOUS
    <3>3. n \in Nat
      BY <1>0
    <3> QED
      BY <1>0, <3>1, <3>2, <3>3
  <2>5. rest = <<>> /\ stderr'[c] = <<>>
    BY <1>1, <1>4, <2>4
  <2>6. U!Sees(c, n, "PROMPT")
    BY <1>11 DEF U!Prompted
  <2>7. U!Buffer(c, n) = stderr[c]
    BY <1>0, <1>7, <2>4
  <2>8. U!Buffer(c, n) = <<"PROMPT">>
    <3>1. stderr[c][1] = "PROMPT"
      BY <1>0, <2>4, <2>6, <2>7, LenProperties DEF U!Sees
    <3> QED
      BY <1>0, <2>4, <2>7, <3>1
  <2>9. client'[c].buf = <<>>
    BY <2>1, <2>2, <2>8, PromptTaken
  <2>10. stdin[c] = <<>> /\ stdin'[c] = <<call[c].password>>
    BY <2>1, <2>3 DEF Exchange, SudoTypes
  <2>11. Len(stdin'[c]) = 1 /\ Len(stderr'[c]) = 0
    BY <2>5, <2>10
  <2>12. server[c] \in Servings
    BY DEF SudoShape
  <2>13. client'[c].typed /\ client'[c].state = "WAIT_READY"
    BY <2>1, <2>2
  <2> QED
    BY <2>1, <2>5, <2>9, <2>11, <2>12, <2>13 DEF SudoShape
<1> QED
  BY <1>9, <1>10, <1>11

\* The steps after the channel.
LEMMA ClosingShape ==
    ASSUME SudoTypes, NEW c \in Calls, Exchange(c), SudoShape(c),
           U!CloseDone(c) \/ U!CloseLost(c) \/ U!Timeout(c)
    PROVE  SudoShape(c)'
<1>1. client'[c] = U!Closed /\ server'[c] = "off" /\ UNCHANGED <<stderr, written>>
  BY DEF U!CloseDone, U!CloseLost, U!Timeout, U!Outcome, SudoTypes
<1>2. stderr[c] \in Seq(Tokens)
  BY DEF SudoTypes
<1>3. Len(stderr'[c]) <= 2 /\ ~Expects(c)'
  BY <1>1, <1>2 DEF SudoShape, U!Closed, Expects
<1> QED
  BY <1>1, <1>3 DEF SudoShape, U!Closed, Servings

\* The types of the exchanges and their shapes.
SudoShapes ==
    /\ server \in [Calls -> Servings] /\ written \in [Calls -> Writings]
    /\ \A c \in Calls : SudoShape(c)

\* Every step keeps every exchange in shape.
LEMMA ShapeStep == SudoInv /\ SudoShapes /\ [U!Next]_uVars => SudoShapes'
<1> SUFFICES ASSUME SudoInv, SudoShapes, [U!Next]_uVars PROVE SudoShapes'
  OBVIOUS
<1>1. ASSUME NEW c \in Calls, U!CallNext(c) PROVE SudoShapes'
  <2>1. SudoShape(c)'
    BY <1>1, AskerShape, ServerShape, ClientShape, ClosingShape DEF U!CallNext, SudoInv, SudoShapes
  <2>2. \A d \in Calls \ {c} : SameCall(d)
    BY <1>1, CallsApart DEF SudoInv
  <2>3. ASSUME NEW d \in Calls \ {c} PROVE SudoShape(d)'
    BY <2>2, <2>3 DEF SameCall, SudoShape, Expects, SudoShapes
  <2>4. \A d \in Calls : SudoShape(d)'
    BY <2>1, <2>3
  <2>5. UNCHANGED server \/ \E r : server' = [server EXCEPT ![c] = r]
    BY <1>1 DEF U!CallNext, U!GuardedWrite, U!Denied, U!GiveUp, U!Ask, U!Enter, U!OpenChannel, U!Moves, U!wires,
      U!SudoStarts, U!SudoReads, U!ShellReads, U!Refused, U!Ready, U!Prompted, U!CloseDone,
      U!CloseLost, U!Timeout, U!AfterAuth, U!AfterOther, U!AfterSaved
  <2>6. UNCHANGED written \/ \E r : written' = [written EXCEPT ![c] = r]
    BY <1>1 DEF U!CallNext, U!GuardedWrite, U!Denied, U!GiveUp, U!Ask, U!Enter, U!OpenChannel, U!Moves, U!wires,
      U!SudoStarts, U!SudoReads, U!ShellReads, U!Refused, U!Ready, U!Prompted, U!CloseDone,
      U!CloseLost, U!Timeout, U!AfterAuth, U!AfterOther, U!AfterSaved
  <2>7. server' \in [Calls -> Servings]
    BY <2>4, <2>5 DEF SudoShapes, SudoShape
  <2>8. written' \in [Calls -> Writings]
    BY <2>4, <2>6 DEF SudoShapes, SudoShape
  <2> QED
    BY <2>4, <2>7, <2>8 DEF SudoShapes
<1>2. ASSUME UNCHANGED <<call, client, stderr, stdin, server, written>>
      PROVE  SudoShapes'
  BY <1>2 DEF SudoShapes, SudoShape, Expects
<1> QED
  BY <1>1, <1>2 DEF U!Next, U!EnableSudoMode, U!DisableSudoMode, U!wires, uVars

\* No exchange at first.
LEMMA ShapeInit == U!Init => SudoShapes
<1> SUFFICES ASSUME U!Init PROVE SudoShapes
  OBVIOUS
<1>1. ASSUME NEW c \in Calls PROVE SudoShape(c)
  <2>1. client[c] = U!Closed /\ stderr[c] = <<>> /\ stdin[c] = <<>> /\ server[c] = "off" /\ written[c] = "old"
    BY DEF U!Init
  <2> QED
    BY <2>1 DEF SudoShape, U!Closed, Expects, Servings, Writings
<1> QED
  BY <1>1 DEF U!Init, SudoShapes, Servings, Writings

\* What is on the way of an exchange is within the bound of its type.
LEMMA SudoFollows == SudoInv /\ SudoShapes => U!TypeOK
<1> SUFFICES ASSUME SudoInv, SudoShapes PROVE U!TypeOK
  OBVIOUS
<1>1. ASSUME NEW c \in Calls PROVE Len(stderr[c]) + Len(client[c].buf) <= 4
  <2>1. stderr[c] \in Seq(Tokens) /\ client[c].buf = <<>>
    BY DEF SudoInv, SudoTypes, SudoShape, SudoShapes
  <2>2. Len(stderr[c]) \in Nat /\ Len(client[c].buf) = 0
    BY <2>1, LenProperties
  <2> QED
    BY <2>2 DEF SudoShape, SudoShapes
<1> QED
  BY <1>1 DEF SudoShape, SudoShapes, Servings, Writings, SudoInv, SudoTypes, U!TypeOK

------------------------------------------------------------------------------
(* The components together *)

\* A step of all of them is a step of each, or leaves it alone.
LEMMA OneComponent ==
    ASSUME [Next]_vars
    PROVE  /\ [P!Next]_pVars /\ [E!Next]_eVars /\ [A!Next]_aVars /\ [H!Next]_hVars
           /\ [U!Next]_uVars /\ [W!Next]_wVars /\ [V!Next]_vVars
           /\ [F!PatternNext \/ F!FolderNext]_fVars
           /\ [R!ListNext \/ R!SearchNext]_rVars
BY DEF Next, vars

\* Whichever connects of an id are in flight, no local server outlives its
\* connection (PortForwardService.dispose).
THEOREM ServersAreLive == Spec => []P!ServersAreLive
<1>1. Init => ServersLive
  BY ForwardsInit DEF Init, ForwardsInv
<1>2. ServersLive /\ [Next]_vars => ServersLive'
  BY OneComponent, ServersStep
<1>3. ServersLive => P!ServersAreLive
  BY DEF ServersLive
<1> QED
  BY <1>1, <1>2, <1>3, PTL DEF Spec

\* However many connects of an id are in flight, a connection that never lived
\* beside another of its id is the one in the map, and the tree of the forwards
\* shows the ports that listen, no other (PortForwardService).
THEOREM ForwardsHold == Spec => []ForwardsTrue
<1>1. Init => ForwardsInv
  BY ForwardsInit DEF Init
<1>2. ForwardsInv /\ [Next]_vars => ForwardsInv'
  BY OneComponent, ForwardsStep
<1>3. ForwardsInv => ForwardsTrue
  BY DEF ForwardsInv, ServersLive, ForwardTypes, LonelyExact, ForwardsTrue, P!TreeIsTrue, P!Alive
<1> QED
  BY <1>1, <1>2, <1>3, PTL DEF Spec

\* A terminal the editor has opened, and whose end it heard of, has its channel;
\* every open channel has a listed terminal, of an id that is connected
\* (TerminalService).
THEOREM TerminalsHold == Spec => []TerminalsAreLive
<1>1. Init => TerminalsInv
  BY TerminalsInit DEF Init
<1>2. TerminalsInv /\ [Next]_vars => TerminalsInv'
  BY OneComponent, TerminalsStep
<1>3. TerminalsInv => TerminalsAreLive
  BY DEF TerminalsInv, TerminalsAreLive
<1> QED
  BY <1>1, <1>2, <1>3, PTL DEF Spec

\* A running activity of a guarded call or a search stands for work under way, one
\* of a monitor for a monitor nobody stopped, and a kept watch has its activity, a
\* start under way or a heartbeat (ActivityService, FileService).
THEOREM ActivitiesHold == Spec => []ActivitiesAreReal
<1>1. Init => ActivitiesInv /\ WatchInv
  BY ActivitiesInit, WatchInit DEF Init
<1>2. ActivitiesInv /\ WatchInv /\ [Next]_vars => (ActivitiesInv /\ WatchInv)'
  BY OneComponent, ActivitiesStep, WatchStep
<1>3. ActivitiesInv /\ WatchInv => ActivitiesAreReal
  BY DEF ActivitiesInv, WatchInv, ActivitiesAreReal
<1> QED
  BY <1>1, <1>2, <1>3, PTL DEF Spec

\* No pull, import or edit takes away a host the user entered
\* (GoogleDriveSyncService, ConnectionPortabilityService, HostService).
THEOREM HostsHold == Spec => []HostsKept
<1>1. Init => HostsInv
  BY HostsInit DEF Init
<1>2. HostsInv /\ [Next]_vars => HostsInv'
  BY OneComponent, HostsStep
<1>3. HostsInv => HostsKept
  BY DEF HostsInv, HostsKept
<1> QED
  BY <1>1, <1>2, <1>3, PTL DEF Spec

\* "Searching..." ends with its search, and a badge is a filter's
\* (FileTreeProvider, FileDecorationProvider).
THEOREM FiltersHold == Spec => []FiltersTrue
<1>1. Init => FiltersInv
  BY FiltersInit DEF Init
<1>2. FiltersInv /\ [Next]_vars => FiltersInv'
  BY OneComponent, PatternStep, FolderStep, FiltersKept
<1>3. FiltersInv => FiltersTrue
  BY DEF FiltersInv, ControllerSearches, FiltersTrue, F!SearchingIsReal
<1> QED
  BY <1>1, <1>2, <1>3, PTL DEF Spec

\* Whatever sudo asks and however its tokens are cut into chunks, the password
\* goes to sudo and never into a file (SSHConnection, _sudoExecRaw).
THEOREM PasswordHolds == Spec => []PasswordStaysOut
<1>1. Init => SudoInv
  BY SudoInit DEF Init
<1>2. SudoInv /\ [Next]_vars => SudoInv'
  BY OneComponent, SudoStep
<1>3. SudoInv => PasswordStaysOut
  BY DEF SudoInv, Exchange, PasswordStaysOut, U!PasswordStaysOut
<1> QED
  BY <1>1, <1>2, <1>3, PTL DEF Spec
===============================================================================
