----------------------- MODULE ConnectionManagerProofs -----------------------
(***************************************************************************)
(* Safety of ConnectionManager for any number of connection objects and    *)
(* timers.  IInv is inductive; the safety properties and the refinement of *)
(* ReconnectCycle follow from it.                                          *)
(***************************************************************************)
EXTENDS ConnectionManager, TLAPS

Assumptions == NoConn \notin Conns /\ NoTimer \notin Timers

\* The module's assumption on the constants, as the provers see it.
LEMMA AssumptionsHold == Assumptions
BY ConnsAssumption, TimersAssumption DEF Assumptions


USE DEF States, Calls, Socks

\* The initial state satisfies the inductive invariant.
LEMMA InitIInv == Init => IInv
<1>. SUFFICES ASSUME Init PROVE IInv
  OBVIOUS
<1>1. TypeOK
  BY DEF Init, TypeOK, Unused, NoEntry, SSHConnection, DisconnectedInfo
<1>2. Attempts = {} /\ ~Reconnecting
  BY DEF Init, Attempts, Unused, Reconnecting, NoEntry
<1>. QED
  BY <1>1, <1>2
  DEF Init, IInv, EntryWellFormed, SingleAttempt, NoOrphanTimer, NoStalledReconnect

------------------------------------------------------------------------------
(* What the parts of the handlers do *)

\* A step inside a connect() or a handshake leaves the manager alone.
LEMMA UnseenStep ==
  ASSUME TypeOK, NEW c \in Conns, Unseen(c)
  PROVE  conn' \in [Conns -> SSHConnection] /\ Attempts' = Attempts
         /\ UNCHANGED <<managerVars, wanted>>
<1>1. /\ conn[c].call # "none"
      /\ UNCHANGED <<managerVars, wanted>>
  BY DEF Unseen, AuthReady, AuthFails, Ready, HandshakeError, ReadyTimeout, CatchConnect
<1>2. /\ conn' = [conn EXCEPT ![c] = conn'[c]]
      /\ conn'[c] \in SSHConnection
      /\ conn'[c].call # "none"
      /\ conn'[c].by = conn[c].by
  <2>1. CASE AuthReady(c)
    BY <2>1 DEF AuthReady, Rejected, TypeOK, SSHConnection
  <2>2. CASE AuthFails(c)
    BY <2>2 DEF AuthFails, Rejected, TypeOK, SSHConnection
  <2>3. CASE Ready(c)
    BY <2>3 DEF Ready, TypeOK, SSHConnection
  <2>4. ASSUME NEW how \in {"auth", "transient"}, HandshakeError(c, how)
        PROVE  /\ conn' = [conn EXCEPT ![c] = conn'[c]]
               /\ conn'[c] \in SSHConnection
               /\ conn'[c].call # "none"
               /\ conn'[c].by = conn[c].by
    <3>. DEFINE r == [Rejected(c, how) EXCEPT !.sock = "closing"]
    <3>1. conn' = [conn EXCEPT ![c] = r]
      BY <2>4 DEF HandshakeError
    <3>2. r \in SSHConnection /\ r.call # "none" /\ r.by = conn[c].by
      BY <2>4 DEF Rejected, TypeOK, SSHConnection
    <3>. QED
      BY <3>1, <3>2 DEF TypeOK
  <2>5. CASE ReadyTimeout(c)
    BY <2>5 DEF ReadyTimeout, Rejected, TypeOK, SSHConnection
  <2>6. CASE CatchConnect(c)
    <3>. DEFINE sock == IF conn[c].client THEN Ended(conn[c].sock) ELSE conn[c].sock
                r == [conn[c] EXCEPT !.state = "Error", !.client = FALSE,
                                     !.call = "saveFail", !.sock = sock]
    <3>1. conn' = [conn EXCEPT ![c] = r]
      BY <2>6 DEF CatchConnect
    <3>2. sock \in Socks /\ conn[c] \in SSHConnection
      BY DEF Ended, TypeOK, SSHConnection
    <3>. HIDE DEF sock
    <3>3. r \in SSHConnection /\ r.call # "none" /\ r.by = conn[c].by
      BY <3>2 DEF SSHConnection
    <3>. HIDE DEF r
    <3>. QED
      BY <3>1, <3>3 DEF TypeOK
  <2>. QED
    BY <2>1, <2>2, <2>3, <2>4, <2>5, <2>6 DEF Unseen
<1>. QED
  BY <1>1, <1>2 DEF TypeOK, Attempts

\* A free object enters connect(): it becomes the tracked one, and a retry if
\* attemptReconnect called.
LEMMA OpenStep ==
  ASSUME TypeOK, NEW c \in Conns, NEW who \in {"user", "reconnect"}, Open(c, who)
  PROVE  /\ conn' \in [Conns -> SSHConnection]
         /\ connections' \in Conns
         /\ who = "user" => Attempts' = Attempts
         /\ who = "reconnect" => Attempts' = Attempts \cup {c}
BY DEF Open, Free, TypeOK, SSHConnection, Attempts

\* The listener, when no retry is in flight, leaves at most one timer, which the
\* entry holds, and an entry that is being retried has it.
LEMMA ListenerStep ==
  ASSUME IInv, OnDisconnected
  PROVE  /\ disc' \in DisconnectedInfo
         /\ armed' \subseteq Timers
         /\ connections' \in Conns \cup {NoConn}
         /\ ~disc'.present => disc' = NoEntry
         /\ active => disc' = disc /\ armed' = armed
         /\ ~active /\ ~disc.manual =>
               disc'.present /\ ~disc'.manual /\ armed' = {disc'.timer}
         /\ ~active /\ disc.manual => disc' = NoEntry /\ armed' = {}
<1>. USE DEF IInv, TypeOK, DisconnectedInfo, NoEntry, LostEntry
<1>1. CASE active
  <2>1. connections' = connections /\ disc' = disc /\ armed' = armed
    BY <1>1 DEF OnDisconnected
  <2>2. ~disc'.present => disc' = NoEntry
    BY <2>1 DEF EntryWellFormed
  <2>3. disc' \in DisconnectedInfo /\ armed' \subseteq Timers
        /\ connections' \in Conns \cup {NoConn}
    BY <2>1
  <2>. QED
    BY <1>1, <2>1, <2>2, <2>3
<1>2. CASE ~active /\ disc.manual
  <2>1. disc' = NoEntry /\ armed' = armed /\ connections' = NoConn
    BY <1>2 DEF OnDisconnected
  <2>2. armed = {}
    BY <1>2 DEF NoOrphanTimer, Reconnecting
  <2>3. disc' \in DisconnectedInfo
    BY <2>1
  <2>4. connections' \in Conns \cup {NoConn} /\ armed' \subseteq Timers
    BY <2>1
  <2>. QED
    BY <1>2, <2>1, <2>2, <2>3, <2>4
<1>3. CASE ~active /\ ~disc.manual /\ disc.timer # NoTimer
  <2>1. Reconnecting /\ Attempts = {}
    BY <1>3 DEF EntryWellFormed, Reconnecting, SingleAttempt
  <2>2. armed = {disc.timer}
    BY <2>1 DEF NoStalledReconnect, NoOrphanTimer
  <2>. QED
    BY <1>3, <2>1, <2>2 DEF OnDisconnected, EntryWellFormed, Reconnecting
<1>4. CASE ~active /\ ~disc.manual /\ disc.timer = NoTimer
  <2>1. armed = {}
    BY <1>4, AssumptionsHold DEF NoOrphanTimer, Assumptions
  <2>2. StartReconnect /\ UNCHANGED connections
    BY <1>4 DEF OnDisconnected
  <2>3. PICK t \in Timers :
           /\ disc' = [LostEntry EXCEPT !.timer = t]
           /\ armed' = (armed \ {LostEntry.timer}) \cup {t}
    BY <2>2 DEF StartReconnect, Arm
  <2>4. armed' = {t}
    BY <2>1, <2>3
  <2>5. disc' = [present |-> TRUE, timer |-> t, manual |-> FALSE]
    BY <2>3
  <2>. QED
    BY <1>4, <2>2, <2>4, <2>5
<1>. QED
  BY <1>1, <1>2, <1>3, <1>4

------------------------------------------------------------------------------
(* Every step is one of eight kinds, told apart by what it does to the entry, *)
(* the timers, the retry in flight and the two flags: the first leaves the    *)
(* cycle where it is, each other one is an action of ReconnectCycle or what   *)
(* such an action leaves of a state it does not concern.                      *)

FlagsKept == active' = active /\ clearPending' = clearPending

\* The entry is gone, or marks a manual disconnect.
CalledOff == /\ ~disc'.present => disc' = NoEntry
             /\ ~(disc'.present /\ ~disc'.manual)
             /\ armed' = {}

\* The entry holds the one timer that will fire.
Scheduled == disc'.present /\ ~disc'.manual /\ armed' = {disc'.timer}

AttemptOver == Attempts # {} /\ Attempts' = {}

QuietStep == Attempts' = Attempts /\ FlagsKept /\ disc' = disc /\ armed' = armed

CancelStep == Attempts' = Attempts /\ FlagsKept /\ CalledOff

LoseStep == ~active /\ Attempts' = Attempts /\ FlagsKept /\ Scheduled

TryStep ==
    /\ ~active /\ armed # {}
    /\ \E c \in Conns : Attempts' = Attempts \cup {c}
    /\ active' /\ clearPending' = clearPending
    /\ disc' = disc /\ armed' = {}

FinishStep == AttemptOver /\ ~active' /\ clearPending' = clearPending /\ CalledOff

AgainStep == AttemptOver /\ ~active' /\ clearPending' = clearPending /\ Scheduled

GiveUpStep == AttemptOver /\ active' /\ clearPending' /\ CalledOff

CoolDownStep ==
    /\ clearPending /\ ~clearPending' /\ ~active'
    /\ Attempts' = Attempts /\ disc' = disc /\ armed' = armed

Kind == \/ QuietStep \/ CancelStep \/ LoseStep \/ TryStep
        \/ FinishStep \/ AgainStep \/ GiveUpStep \/ CoolDownStep

\* A state in which no retry is in flight has at most the entry's timer, so
\* that cancelling it leaves none; with one in flight there is none at all.
LEMMA CancelLeavesNone ==
  ASSUME IInv  PROVE armed \ {disc.timer} = {}
BY DEF IInv, NoOrphanTimer

\* What StopReconnect leaves.
LEMMA StopStep ==
  ASSUME IInv, StopReconnect
  PROVE  disc' \in DisconnectedInfo /\ armed' = {} /\ CalledOff
BY CancelLeavesNone DEF StopReconnect, CalledOff, NoEntry, DisconnectedInfo

\* The end of a call is the end of the retry in flight if it is one, and
\* otherwise changes nothing about retries.
LEMMA SettleStep ==
  ASSUME IInv, NEW c \in Conns, conn[c].call # "none",
         conn' = [conn EXCEPT ![c].call = "none"]
  PROVE  /\ conn' \in [Conns -> SSHConnection]
         /\ conn[c].by = "user" => Attempts' = Attempts
         /\ conn[c].by = "reconnect" =>
               AttemptOver /\ active /\ ~clearPending /\ armed = {}
<1>1. conn' \in [Conns -> SSHConnection]
  BY DEF IInv, TypeOK, SSHConnection
<1>2. Attempts' = Attempts \ {c}
  BY DEF IInv, TypeOK, SSHConnection, Attempts
<1>3. conn[c].by = "user" => c \notin Attempts
  BY DEF Attempts
<1>4. ASSUME conn[c].by = "reconnect"
      PROVE  AttemptOver /\ active /\ ~clearPending /\ armed = {}
  <2>1. c \in Attempts
    BY <1>4 DEF Attempts
  <2>2. Attempts \ {c} = {}
    BY <2>1 DEF IInv, SingleAttempt
  <2>3. active /\ ~clearPending
    BY <2>1 DEF IInv, SingleAttempt
  <2>4. armed = {}
    BY <2>3 DEF IInv, NoOrphanTimer
  <2>. QED
    BY <1>2, <2>1, <2>2, <2>3, <2>4 DEF AttemptOver
<1>. QED
  BY <1>1, <1>2, <1>3, <1>4

------------------------------------------------------------------------------
(* Each action is of one kind and keeps the types *)

\* A connect() by the user leaves a retry in flight alone, and otherwise
\* calls off what waits for the id.
LEMMA UserConnectKind ==
  ASSUME IInv, UserConnect  PROVE TypeOK' /\ Kind
<1>1. conn' \in [Conns -> SSHConnection] /\ Attempts' = Attempts
      /\ connections' \in Conns \cup {NoConn}
  <2>1. CASE UNCHANGED <<conn, connections>>
    BY <2>1 DEF IInv, TypeOK, Attempts
  <2>2. CASE \E c \in Conns : Open(c, "user")
    BY <2>2, OpenStep DEF IInv
  <2>. QED
    BY <2>1, <2>2 DEF UserConnect
<1>2. FlagsKept /\ wanted' \in BOOLEAN
  BY DEF UserConnect, FlagsKept
<1>3. CASE active
  <2>1. disc' = disc /\ armed' = armed
    BY <1>3 DEF UserConnect
  <2>. QED
    BY <1>1, <1>2, <2>1 DEF IInv, TypeOK, FlagsKept, Kind, QuietStep
<1>4. CASE ~active
  <2>1. disc' \in DisconnectedInfo /\ armed' = {} /\ CalledOff
    BY <1>4, StopStep DEF UserConnect
  <2>. QED
    BY <1>1, <1>2, <2>1 DEF IInv, TypeOK, FlagsKept, Kind, CancelStep
<1>. QED
  BY <1>3, <1>4

\* A disconnect() by the user cancels the attempts for its id, or does nothing.
LEMMA UserDisconnectKind ==
  ASSUME IInv, UserDisconnect  PROVE TypeOK' /\ Kind
<1>1. FlagsKept /\ wanted' \in BOOLEAN /\ armed' = {}
  BY CancelLeavesNone DEF UserDisconnect, FlagsKept
<1>2. disc' \in {ManualEntry, NoEntry}
  BY DEF UserDisconnect
<1>3. disc' \in DisconnectedInfo /\ CalledOff
  <2>1. CASE disc' = NoEntry
    BY <1>1, <2>1 DEF NoEntry, DisconnectedInfo, CalledOff
  <2>2. CASE disc' = ManualEntry
    BY <1>1, <2>2 DEF ManualEntry, DisconnectedInfo, CalledOff
  <2>. QED
    BY <1>2, <2>1, <2>2
<1>4. connections' \in Conns \cup {NoConn}
  BY DEF UserDisconnect, IInv, TypeOK
<1>5. conn' \in [Conns -> SSHConnection] /\ Attempts' = Attempts
  <2>1. CASE conn' = conn
    BY <2>1 DEF IInv, TypeOK, Attempts
  <2>2. CASE /\ connections \in Conns
             /\ conn' = [conn EXCEPT ![connections].client = FALSE,
                                     ![connections].sock = Ended(@)]
    <3>. DEFINE r == [conn[connections] EXCEPT
                        !.client = FALSE, !.sock = Ended(conn[connections].sock)]
    <3>1. conn[connections] \in SSHConnection
          /\ Ended(conn[connections].sock) \in Socks
      BY <2>2 DEF IInv, TypeOK, SSHConnection, Ended
    <3>2. conn' = [conn EXCEPT ![connections] = r]
      BY <2>2 DEF IInv, TypeOK
    <3>3. /\ r \in SSHConnection
          /\ r.call = conn[connections].call /\ r.by = conn[connections].by
      BY <3>1 DEF SSHConnection
    <3>. HIDE DEF r
    <3>. QED
      BY <2>2, <3>2, <3>3 DEF IInv, TypeOK, Attempts
  <2>3. CASE /\ connections \in Conns
             /\ conn' = [conn EXCEPT ![connections].state = "Disconnected"]
    BY <2>3 DEF IInv, TypeOK, SSHConnection, Attempts
  <2>. QED
    BY <2>1, <2>2, <2>3 DEF UserDisconnect, IInv, TypeOK
<1>. QED
  BY <1>1, <1>3, <1>4, <1>5 DEF IInv, TypeOK, FlagsKept, Kind, CancelStep

\* Stopping the reconnect attempts from the tree cancels them.
LEMMA UserStopKind ==
  ASSUME IInv, UserStopReconnect  PROVE TypeOK' /\ Kind
<1>1. disc' \in DisconnectedInfo /\ armed' = {} /\ CalledOff
  BY StopStep DEF UserStopReconnect
<1>. QED
  BY <1>1 DEF UserStopReconnect, IInv, TypeOK, Attempts, FlagsKept, Kind, CancelStep

\* A timer that fires starts the one retry of the id.
LEMMA TimerKind ==
  ASSUME IInv, NEW t \in Timers, TimerFires(t)  PROVE TypeOK' /\ Kind
<1>1. armed = {disc.timer} /\ Reconnecting /\ ~active
  BY DEF TimerFires, IInv, NoOrphanTimer
<1>2. armed' = {} /\ disc' = disc /\ clearPending' = clearPending /\ wanted' = wanted
  BY <1>1 DEF TimerFires
<1>3. PICK c \in Conns : Open(c, "reconnect")
  BY <1>1 DEF TimerFires, Reconnecting
<1>4. active' = TRUE
  BY <1>1 DEF TimerFires, Reconnecting
<1>5. /\ conn' \in [Conns -> SSHConnection]
      /\ connections' \in Conns
      /\ Attempts' = Attempts \cup {c}
  BY <1>3, OpenStep DEF IInv
<1>. QED
  BY <1>1, <1>2, <1>4, <1>5 DEF IInv, TypeOK, Kind, TryStep

\* The delayed clear of the listener's shield is the end of a cool-down.
LEMMA ClearActiveKind ==
  ASSUME IInv, ClearActive  PROVE TypeOK' /\ Kind
BY DEF ClearActive, IInv, TypeOK, Attempts, Kind, CoolDownStep

\* A client's 'close' event starts attempts, or only settles the call it ends.
LEMMA CloseKind ==
  ASSUME IInv, NEW c \in Conns, Close(c)  PROVE TypeOK' /\ Kind
<1>1. conn' \in [Conns -> SSHConnection] /\ Attempts' = Attempts
  <2>1. \A d \in Conns : conn[d] \in SSHConnection
    BY DEF IInv, TypeOK
  <2>. DEFINE r == [conn[c] EXCEPT !.sock = "closed", !.client = FALSE,
                                   !.state = "Disconnected"]
  <2>2. conn' = [conn EXCEPT ![c] = r]
    BY DEF Close, IInv, TypeOK
  <2>3. r \in SSHConnection /\ r.call = conn[c].call /\ r.by = conn[c].by
    BY <2>1 DEF SSHConnection
  <2>. HIDE DEF r
  <2>. QED
    BY <2>2, <2>3 DEF IInv, TypeOK, Attempts
<1>2. FlagsKept /\ wanted' = wanted /\ OnDisconnected
  BY DEF Close, FlagsKept
<1>3. TypeOK'
  BY <1>1, <1>2, ListenerStep DEF IInv, TypeOK, FlagsKept
<1>4. CASE active
  BY <1>1, <1>2, <1>3, <1>4, ListenerStep DEF Kind, QuietStep
<1>5. CASE ~active /\ ~disc.manual
  BY <1>1, <1>2, <1>3, <1>5, ListenerStep DEF Kind, LoseStep, Scheduled
<1>6. CASE ~active /\ disc.manual
  BY <1>1, <1>2, <1>3, <1>6, ListenerStep DEF Kind, CancelStep, CalledOff, NoEntry
<1>. QED
  BY <1>3, <1>4, <1>5, <1>6

\* An answered connect() ends a retry, or belongs to the user's own connect().
LEMMA ConnectSucceedsKind ==
  ASSUME IInv, NEW c \in Conns, ConnectSucceeds(c)  PROVE TypeOK' /\ Kind
<1>1. /\ conn' \in [Conns -> SSHConnection]
      /\ conn[c].by = "user" => Attempts' = Attempts
      /\ conn[c].by = "reconnect" => AttemptOver
  BY SettleStep DEF ConnectSucceeds
<1>2. connections' = connections /\ clearPending' = clearPending /\ wanted' = wanted
  BY DEF ConnectSucceeds
<1>3. CASE conn[c].by = "reconnect"
  <2>1. active' = FALSE /\ disc' \in DisconnectedInfo /\ armed' = {} /\ CalledOff
    BY <1>3, StopStep DEF ConnectSucceeds, RetryDone
  <2>. QED
    BY <1>1, <1>2, <1>3, <2>1 DEF IInv, TypeOK, Kind, FinishStep
<1>4. CASE conn[c].by = "user"
  <2>1. active' = active /\ disc' = disc /\ armed' = armed
    BY <1>4 DEF ConnectSucceeds
  <2>. QED
    BY <1>1, <1>2, <1>4, <2>1 DEF IInv, TypeOK, Kind, QuietStep, FlagsKept
<1>. QED
  BY <1>3, <1>4 DEF IInv, TypeOK, SSHConnection

\* A failed connect() re-arms its retry or gives it up, or was the user's own.
LEMMA ConnectFailsKind ==
  ASSUME IInv, NEW c \in Conns, ConnectFails(c)  PROVE TypeOK' /\ Kind
<1>1. /\ conn' \in [Conns -> SSHConnection]
      /\ conn[c].by = "user" => Attempts' = Attempts
      /\ conn[c].by = "reconnect" =>
            AttemptOver /\ active /\ ~clearPending /\ armed = {}
  BY SettleStep DEF ConnectFails
<1>2. connections' = NoConn /\ wanted' = wanted
  BY DEF ConnectFails
<1>3. CASE conn[c].by = "user"
  <2>1. /\ disc' = disc /\ armed' = armed
        /\ active' = active /\ clearPending' = clearPending
    BY <1>3 DEF ConnectFails
  <2>. QED
    BY <1>1, <1>2, <1>3, <2>1 DEF IInv, TypeOK, Kind, QuietStep, FlagsKept
<1>4. CASE conn[c].by = "reconnect" /\ conn[c].fail = "auth"
  <2>1. /\ disc' \in DisconnectedInfo /\ armed' = {} /\ CalledOff
        /\ clearPending' = TRUE /\ active' = active
    BY <1>4, StopStep DEF ConnectFails
  <2>. QED
    BY <1>1, <1>2, <1>4, <2>1 DEF IInv, TypeOK, Kind, GiveUpStep
<1>5. CASE conn[c].by = "reconnect" /\ conn[c].fail # "auth"
  <2>1. ScheduleReconnect /\ active' = FALSE /\ clearPending' = clearPending
    BY <1>5 DEF ConnectFails
  <2>2. CASE disc.present /\ ~disc.manual
    <3>1. PICK t \in Timers :
             /\ disc' = [disc EXCEPT !.timer = t]
             /\ armed' = (armed \ {disc.timer}) \cup {t}
      BY <2>1, <2>2 DEF ScheduleReconnect, Arm
    <3>2. armed' = {t}
      BY <1>1, <1>5, <3>1
    <3>3. disc' = [disc EXCEPT !.timer = t] /\ disc \in DisconnectedInfo
      BY <3>1 DEF IInv, TypeOK
    <3>4. /\ disc' \in DisconnectedInfo
          /\ disc'.present /\ ~disc'.manual /\ disc'.timer = t
      BY <2>2, <3>3 DEF DisconnectedInfo
    <3>. QED
      BY <1>1, <1>2, <1>5, <2>1, <3>2, <3>4
      DEF IInv, TypeOK, Kind, AgainStep, Scheduled
  <2>3. CASE ~(disc.present /\ ~disc.manual)
    <3>1. disc' = disc /\ armed' = {}
      BY <1>1, <1>5, <2>1, <2>3 DEF ScheduleReconnect
    <3>2. CalledOff
      BY <2>3, <3>1 DEF CalledOff, IInv, EntryWellFormed
    <3>. QED
      BY <1>1, <1>2, <1>5, <2>1, <3>1, <3>2 DEF IInv, TypeOK, Kind, FinishStep
  <2>. QED
    BY <2>2, <2>3
<1>. QED
  BY <1>3, <1>4, <1>5 DEF IInv, TypeOK, SSHConnection

\* Every step of the specification keeps the types and is of one kind.
LEMMA StepKind ==
  ASSUME IInv, [Next]_vars  PROVE TypeOK' /\ Kind
<1>1. CASE UserNext
  BY <1>1, UserConnectKind, UserDisconnectKind, UserStopKind DEF UserNext
<1>2. CASE TimerNext
  BY <1>2, TimerKind, ClearActiveKind DEF TimerNext
<1>3. ASSUME NEW c \in Conns, Unseen(c)  PROVE TypeOK' /\ Kind
  BY <1>3, UnseenStep
  DEF IInv, TypeOK, managerVars, Kind, QuietStep, FlagsKept
<1>4. ASSUME NEW c \in Conns, ConnNext(c)  PROVE TypeOK' /\ Kind
  BY <1>3, <1>4, CloseKind, ConnectSucceedsKind, ConnectFailsKind DEF ConnNext
<1>5. CASE UNCHANGED vars
  BY <1>5 DEF vars, managerVars, IInv, TypeOK, Attempts, Kind, QuietStep, FlagsKept
<1>. QED
  BY <1>1, <1>2, <1>4, <1>5 DEF Next

------------------------------------------------------------------------------
(* The invariant *)

\* Each kind of step preserves the invariant.
LEMMA KindKeepsIInv ==
  ASSUME IInv, TypeOK', Kind  PROVE IInv'
<1>. USE DEF IInv, EntryWellFormed, SingleAttempt, NoOrphanTimer,
             NoStalledReconnect, Reconnecting
<1>1. CASE QuietStep
  BY <1>1 DEF QuietStep, FlagsKept
<1>2. CASE CancelStep
  BY <1>2 DEF CancelStep, FlagsKept, CalledOff
<1>3. CASE LoseStep
  BY <1>3 DEF LoseStep, FlagsKept, Scheduled
<1>4. CASE TryStep
  <2>1. PICK c \in Conns : Attempts' = Attempts \cup {c}
    BY <1>4 DEF TryStep
  <2>2. Attempts' = {c} /\ ~clearPending'
    BY <1>4, <2>1 DEF TryStep, TypeOK
  <2>. QED
    BY <1>4, <2>2 DEF TryStep
<1>5. CASE FinishStep
  BY <1>5 DEF FinishStep, AttemptOver, CalledOff
<1>6. CASE AgainStep
  BY <1>6 DEF AgainStep, AttemptOver, Scheduled
<1>7. CASE GiveUpStep
  BY <1>7 DEF GiveUpStep, AttemptOver, CalledOff
<1>8. CASE CoolDownStep
  BY <1>8 DEF CoolDownStep
<1>. QED
  BY <1>1, <1>2, <1>3, <1>4, <1>5, <1>6, <1>7, <1>8 DEF Kind

\* The inductive invariant holds of every reachable state: whatever the order
\* of user commands, timers, handshakes and late close events, one retry at most
\* is in flight and at most one timer waits, which can still be cancelled.
THEOREM Invariance == Spec => []IInv
<1>1. IInv /\ [Next]_vars => IInv'
  BY StepKind, KindKeepsIInv
<1>. QED
  BY <1>1, InitIInv, PTL DEF Spec

\* The variables keep their types.
THEOREM TypeCorrect == Spec => []TypeOK
<1>1. IInv => TypeOK
  BY DEF IInv
<1>. QED
  BY <1>1, Invariance, PTL

\* attemptReconnect never runs twice at a time, and the flag that mutes the
\* listener is up exactly while it runs or cools down.
THEOREM OneAttempt == Spec => []SingleAttempt
<1>1. IInv => SingleAttempt
  BY DEF IInv
<1>. QED
  BY <1>1, Invariance, PTL

\* No reconnect timer outlives the entry that can cancel it.
THEOREM TimersOwned == Spec => []NoOrphanTimer
<1>1. IInv => NoOrphanTimer
  BY DEF IInv
<1>. QED
  BY <1>1, Invariance, PTL

\* An id shown as reconnecting always has a timer or a retry that works on it.
THEOREM NoStall == Spec => []NoStalledReconnect
<1>1. IInv => NoStalledReconnect
  BY DEF IInv
<1>. QED
  BY <1>1, Invariance, PTL

------------------------------------------------------------------------------
(* A drop is answered *)

\* Only the client's own close event takes an object that still has its client
\* from Connected to Disconnected.
LEMMA OnlyCloseDrops ==
  ASSUME IInv, Next, NEW c \in Conns,
         conn[c].state = "Connected", conn'[c].state = "Disconnected",
         conn[c].client
  PROVE  Close(c)
<1>1. conn' # conn
  OBVIOUS
<1>2. ~UserNext
  <2>1. ASSUME NEW d \in Conns, NEW who \in {"user", "reconnect"}, Open(d, who)
        PROVE  FALSE
    BY <2>1 DEF Open, IInv, TypeOK
  <2>2. ~UserConnect
    BY <1>1, <2>1 DEF UserConnect
  <2>3. ~UserStopReconnect
    BY <1>1 DEF UserStopReconnect
  <2>4. ASSUME UserDisconnect  PROVE FALSE
    <3>1. connections \in Conns
      BY <1>1, <2>4 DEF UserDisconnect, IInv, TypeOK
    <3>2. CASE conn' = [conn EXCEPT ![connections].client = FALSE,
                                    ![connections].sock = Ended(@)]
      BY <3>1, <3>2 DEF IInv, TypeOK, SSHConnection
    <3>3. CASE /\ ~conn[connections].client
               /\ conn' = [conn EXCEPT ![connections].state = "Disconnected"]
      BY <3>1, <3>3 DEF IInv, TypeOK, SSHConnection
    <3>. QED
      BY <1>1, <2>4, <3>2, <3>3 DEF UserDisconnect
  <2>. QED
    BY <2>2, <2>3, <2>4 DEF UserNext
<1>3. ~TimerNext
  BY <1>1 DEF TimerNext, TimerFires, ClearActive, Open, IInv, TypeOK
<1>4. ASSUME NEW d \in Conns, Unseen(d)  PROVE FALSE
  <2>1. /\ conn' = [conn EXCEPT ![d] = conn'[d]]
        /\ conn'[d].state \in {conn[d].state, "Connected", "Error"}
    <3>1. ASSUME NEW how \in {"auth", "transient"}, HandshakeError(d, how)
          PROVE  /\ conn' = [conn EXCEPT ![d] = conn'[d]]
                 /\ conn'[d].state = conn[d].state
      <4>. DEFINE r == [Rejected(d, how) EXCEPT !.sock = "closing"]
      <4>1. conn' = [conn EXCEPT ![d] = r]
        BY <3>1 DEF HandshakeError
      <4>2. r.state = conn[d].state
        BY DEF Rejected, IInv, TypeOK, SSHConnection
      <4>. QED
        BY <4>1, <4>2 DEF IInv, TypeOK
    <3>2. CASE AuthFails(d) \/ ReadyTimeout(d)
      BY <3>2 DEF AuthFails, ReadyTimeout, Rejected, IInv, TypeOK, SSHConnection
    <3>3. CASE AuthReady(d)
      BY <3>3 DEF AuthReady, Rejected, IInv, TypeOK, SSHConnection
    <3>4. CASE Ready(d)
      BY <3>4 DEF Ready, IInv, TypeOK, SSHConnection
    <3>5. CASE CatchConnect(d)
      <4>. DEFINE sock == IF conn[d].client THEN Ended(conn[d].sock) ELSE conn[d].sock
                  r == [conn[d] EXCEPT !.state = "Error", !.client = FALSE,
                                       !.call = "saveFail", !.sock = sock]
      <4>1. conn' = [conn EXCEPT ![d] = r]
        BY <3>5 DEF CatchConnect
      <4>. HIDE DEF sock
      <4>2. r.state = "Error"
        BY DEF IInv, TypeOK, SSHConnection
      <4>. HIDE DEF r
      <4>. QED
        BY <4>1, <4>2 DEF IInv, TypeOK
    <3>. QED
      BY <1>4, <3>1, <3>2, <3>3, <3>4, <3>5 DEF Unseen
  <2>. QED
    BY <2>1 DEF IInv, TypeOK
<1>5. ASSUME NEW d \in Conns, ConnectSucceeds(d) \/ ConnectFails(d)  PROVE FALSE
  BY <1>5 DEF ConnectSucceeds, ConnectFails, IInv, TypeOK, SSHConnection
<1>6. ASSUME NEW d \in Conns, Close(d), d # c  PROVE FALSE
  BY <1>6 DEF Close, IInv, TypeOK
<1>. QED
  BY <1>2, <1>3, <1>4, <1>5, <1>6 DEF Next, ConnNext

\* The event that reports the drop of a connection schedules its retry, unless
\* the user disconnected or a retry of the id is in flight.
THEOREM DropAnswered == Spec => DropIsRetried
<1>. DEFINE D == \A c \in Conns :
          /\ conn[c].state = "Connected" /\ conn'[c].state = "Disconnected"
          /\ conn[c].client /\ ~disc.manual /\ ~active
          => disc'.present /\ armed' # {}
<1>1. ASSUME IInv, Next, NEW c \in Conns,
             conn[c].state = "Connected", conn'[c].state = "Disconnected",
             conn[c].client, ~disc.manual, ~active
      PROVE  disc'.present /\ armed' # {}
  BY <1>1, OnlyCloseDrops, ListenerStep DEF Close
<1>2. IInv /\ Next => D
  BY <1>1
<1>3. IInv /\ [Next]_vars => [D]_vars
  BY <1>2
<1>. QED
  BY <1>3, Invariance, PTL DEF Spec, DropIsRetried

------------------------------------------------------------------------------
(* Refinement *)

\* Each kind of step is a step of the abstract cycle or leaves it alone.
LEMMA KindIsCycleStep ==
  ASSUME IInv, TypeOK', Kind  PROVE Cycle!Next \/ phase' = phase
<1>. USE DEF IInv, TypeOK, SingleAttempt, NoOrphanTimer, NoStalledReconnect,
             Reconnecting, phase, Cycle!Next
<1>1. CASE QuietStep
  BY <1>1 DEF QuietStep, FlagsKept
<1>2. CASE CancelStep
  BY <1>2 DEF CancelStep, FlagsKept, CalledOff, Cycle!Cancel
<1>3. CASE LoseStep
  BY <1>3 DEF LoseStep, FlagsKept, Scheduled, Cycle!Lose
<1>4. CASE TryStep
  BY <1>4 DEF TryStep, Cycle!Try
<1>5. CASE FinishStep
  BY <1>5 DEF FinishStep, AttemptOver, CalledOff, Cycle!Finish
<1>6. CASE AgainStep
  BY <1>6 DEF AgainStep, AttemptOver, Scheduled, Cycle!Again
<1>7. CASE GiveUpStep
  BY <1>7 DEF GiveUpStep, AttemptOver, CalledOff, Cycle!GiveUp
<1>8. CASE CoolDownStep
  BY <1>8 DEF CoolDownStep, Cycle!CoolDown
<1>. QED
  BY <1>1, <1>2, <1>3, <1>4, <1>5, <1>6, <1>7, <1>8 DEF Kind

\* The manager implements the reconnect cycle: only a scheduled retry starts,
\* one at a time, and a retry always ends in success, another retry, or a
\* cool-down.
THEOREM Refinement == Spec => ImplementsCycle
<1>1. Init => Cycle!Init
  BY DEF Init, Cycle!Init, phase, Attempts, Unused
<1>2. IInv /\ [Next]_vars => [Cycle!Next]_phase
  BY StepKind, KindIsCycleStep
<1>. QED
  BY <1>1, <1>2, Invariance, PTL DEF Spec, ImplementsCycle, Cycle!Spec

==============================================================================
