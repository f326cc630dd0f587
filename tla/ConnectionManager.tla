-------------------------- MODULE ConnectionManager --------------------------
(***************************************************************************)
(* src/connection/ConnectionManager.ts together with the connect/disconnect *)
(* life cycle of src/connection/SSHConnection.ts, for ONE connection id.   *)
(*                                                                         *)
(* The extension host is single-threaded: an action is what runs between   *)
(* two awaits (or one timer or socket callback), and the interleaving of   *)
(* actions is the interleaving of those continuations.                     *)
(*                                                                         *)
(* Every connect() that does not reuse the tracked connection creates a    *)
(* new SSHConnection object; `conn' holds them all, so that late events of *)
(* an old object meet the state a newer one has set.  An object is taken   *)
(* again (Free) once nothing can happen to it any more; Conns bounds how   *)
(* many are alive at once.                                                 *)
(***************************************************************************)
EXTENDS Naturals, FiniteSets

CONSTANTS
    Conns,      \* SSHConnection objects alive at the same time (bound)
    Timers,     \* handles of reconnect timers (at least two, see Arm)
    NoConn,     \* the map has no connection for the id
    NoTimer     \* reconnectTimer is undefined

ASSUME ConnsAssumption  == NoConn \notin Conns
ASSUME TimersAssumption == NoTimer \notin Timers

VARIABLES
    conn,         \* the SSHConnection objects
    connections,  \* _connections.get(id)
    disc,         \* _disconnectedConnections.get(id)
    armed,        \* reconnect timers the event loop will still fire
    active,       \* id \in _activeReconnectAttempts
    clearPending, \* the 500 ms timer that will reset `active' is running
    wanted        \* history: the last user command was a connect

managerVars == <<connections, disc, armed, active, clearPending>>
vars == <<conn, managerVars, wanted>>

------------------------------------------------------------------------------
(* Data *)

States == {"Disconnected", "Connecting", "Connected", "Error"}

\* Where the connect() call of an object stands.  auth: in buildAuthConfig;
\* handshake: the ready promise is pending; rejected: it was rejected, the
\* catch has not run; saveOk / saveFail: the manager awaits
\* saveLastConnectionAttempt; none: settled.
Calls == {"none", "auth", "handshake", "rejected", "saveOk", "saveFail"}

\* The socket under the ssh2 Client, an external library: no 'close' event
\* before "opening" or after "closed".
Socks == {"none", "opening", "open", "closing", "closed"}

\* client: _client is not null.  by: who called connect().  fail: how the
\* call was rejected; "auth" is an AuthenticationError, and the DNS errors
\* that attemptReconnect treats like one.
SSHConnection ==
    [state : States, client : BOOLEAN, sock : Socks, call : Calls,
     by : {"user", "reconnect"}, fail : {"none", "auth", "transient"}]

Unused == [state |-> "Disconnected", client |-> FALSE, sock |-> "none",
           call |-> "none", by |-> "user", fail |-> "none"]

\* present: the map has an entry; timer: reconnectTimer, which stays set
\* after the timer fired; manual: isManualDisconnect.
DisconnectedInfo ==
    [present : BOOLEAN, timer : Timers \cup {NoTimer}, manual : BOOLEAN]

NoEntry     == [present |-> FALSE, timer |-> NoTimer, manual |-> FALSE]
LostEntry   == [present |-> TRUE,  timer |-> NoTimer, manual |-> FALSE]
ManualEntry == [present |-> TRUE,  timer |-> NoTimer, manual |-> TRUE]

TypeOK ==
    /\ conn \in [Conns -> SSHConnection]
    /\ connections \in Conns \cup {NoConn}
    /\ disc \in DisconnectedInfo
    /\ armed \subseteq Timers
    /\ active \in BOOLEAN
    /\ clearPending \in BOOLEAN
    /\ wanted \in BOOLEAN

\* No event, continuation or reference reaches the object any more.
Free(c) ==
    /\ conn[c].call = "none"
    /\ conn[c].sock \in {"none", "closed"}
    /\ connections # c

EndedHalfway(sock) == IF sock \in {"opening", "open"} THEN "ended" ELSE sock

\* client.end(): the socket, if there is one, will close.
Ended(sock) == IF sock \in {"opening", "open"} THEN "closing" ELSE sock

Init ==
    /\ conn = [c \in Conns |-> Unused]
    /\ connections = NoConn
    /\ disc = NoEntry
    /\ armed = {}
    /\ active = FALSE
    /\ clearPending = FALSE
    /\ wanted = FALSE

------------------------------------------------------------------------------
(* Parts of handlers *)

\* Entry d gets a new timer in place of the one it holds.
Arm(d) ==
    \E t \in Timers \ (armed \cup {d.timer}) :
        /\ disc' = [d EXCEPT !.timer = t]
        /\ armed' = (armed \ {d.timer}) \cup {t}

\* Mutant: an entry that holds a handle, even of a fired timer, is left alone.
ScheduleUnlessHandle ==
    IF disc.present /\ ~disc.manual /\ disc.timer = NoTimer
    THEN Arm(disc)
    ELSE UNCHANGED <<disc, armed>>

ScheduleReconnect ==
    IF disc.present /\ ~disc.manual
    THEN Arm(disc)
    ELSE UNCHANGED <<disc, armed>>

\* The already-scheduled test of startReconnect is its only caller's.
StartReconnect == Arm(LostEntry)

\* Mutant: the entry goes, its timer runs on.
StopWithoutClearTimeout == disc' = NoEntry /\ UNCHANGED armed

StopReconnect ==
    /\ disc' = NoEntry
    /\ armed' = armed \ {disc.timer}

\* Mutant: the listener does not look at _activeReconnectAttempts.
OnDisconnectedAnyTime ==
    \/ /\ ~disc.manual /\ disc.timer # NoTimer
       /\ UNCHANGED <<connections, disc, armed>>
    \/ /\ disc.manual
       /\ connections' = NoConn
       /\ disc' = NoEntry
       /\ UNCHANGED armed
    \/ /\ ~disc.manual /\ disc.timer = NoTimer
       /\ StartReconnect
       /\ UNCHANGED connections

\* The manager's listener for state Disconnected of ANY object of the id.
OnDisconnected ==
    \/ /\ active \/ (~disc.manual /\ disc.timer # NoTimer)
       /\ UNCHANGED <<connections, disc, armed>>
    \/ /\ ~active
       /\ disc.manual
       /\ connections' = NoConn
       /\ disc' = NoEntry
       /\ UNCHANGED armed
    \/ /\ ~active
       /\ ~disc.manual
       /\ disc.timer = NoTimer
       /\ StartReconnect
       /\ UNCHANGED connections

\* connect() past the reuse test: a new object replaces the tracked one and
\* its own connect() runs up to the first await.
Open(c, who) ==
    /\ Free(c)
    /\ conn' = [conn EXCEPT ![c] =
                  [state |-> "Connecting", client |-> TRUE, sock |-> "none",
                   call |-> "auth", by |-> who, fail |-> "none"]]
    /\ connections' = c

------------------------------------------------------------------------------
(* User commands *)

UserConnect ==
    /\ wanted' = TRUE
    /\ IF active THEN UNCHANGED <<disc, armed>> ELSE StopReconnect
    /\ IF connections # NoConn /\ conn[connections].state = "Connected"
       THEN UNCHANGED <<conn, connections>>
       ELSE \E c \in Conns : Open(c, "user")
    /\ UNCHANGED <<active, clearPending>>

\* disconnect(id).  With a client the rest happens at its 'close' event;
\* without one the state event, and the manual branch of the listener (the
\* entry is manual by now), run at once.
UserDisconnect ==
    /\ wanted' = FALSE
    /\ armed' = armed \ {disc.timer}
    /\ \/ /\ connections = NoConn
          /\ disc' = ManualEntry
          /\ UNCHANGED <<conn, connections>>
       \/ /\ connections # NoConn
          /\ conn[connections].client
          /\ conn' = [conn EXCEPT ![connections].client = FALSE,
                                  ![connections].sock = Ended(@)]
          /\ disc' = ManualEntry
          /\ UNCHANGED connections
       \/ /\ connections # NoConn
          /\ ~conn[connections].client
          /\ conn' = [conn EXCEPT ![connections].state = "Disconnected"]
          /\ disc' = IF active THEN ManualEntry ELSE NoEntry
          /\ connections' = IF active THEN connections ELSE NoConn
    /\ UNCHANGED <<active, clearPending>>

\* Disconnecting the tree item of a connection that is being retried.
UserStopReconnect ==
    /\ disc.present /\ ~disc.manual
    /\ wanted' = FALSE
    /\ StopReconnect
    /\ UNCHANGED <<conn, connections, active, clearPending>>

------------------------------------------------------------------------------
(* Timers *)

\* attemptReconnect, up to the first await of the connect() it calls.
TimerFires(t) ==
    /\ t \in armed
    /\ armed' = armed \ {t}
    /\ IF disc.present /\ ~disc.manual
       THEN /\ active' = TRUE
            /\ \E c \in Conns : Open(c, "reconnect")
       ELSE UNCHANGED <<active, conn, connections>>
    /\ UNCHANGED <<disc, clearPending, wanted>>

\* Mutant: the cool-down ends without lowering the flag.
ClearNothing ==
    /\ clearPending
    /\ clearPending' = FALSE
    /\ UNCHANGED <<active, conn, connections, disc, armed, wanted>>

ClearActive ==
    /\ clearPending
    /\ clearPending' = FALSE
    /\ active' = FALSE
    /\ UNCHANGED <<conn, connections, disc, armed, wanted>>

------------------------------------------------------------------------------
(* The connect() call of an object and the events of its client *)

Rejected(c, how) == [conn[c] EXCEPT !.call = "rejected", !.fail = how]

\* buildAuthConfig resolves.  If disconnect() has nulled the client meanwhile,
\* the next line throws and the promise rejects.
AuthReady(c) ==
    /\ conn[c].call = "auth"
    /\ conn' = [conn EXCEPT ![c] =
                  IF @.client
                  THEN [@ EXCEPT !.call = "handshake", !.sock = "opening"]
                  ELSE Rejected(c, "transient")]
    /\ UNCHANGED <<managerVars, wanted>>

\* buildAuthConfig throws: a prompt was dismissed, a key file is missing.
AuthFails(c) ==
    /\ conn[c].call = "auth"
    /\ conn' = [conn EXCEPT ![c] = Rejected(c, "auth")]
    /\ UNCHANGED <<managerVars, wanted>>

Ready(c) ==
    /\ conn[c].call = "handshake"
    /\ conn[c].sock = "opening"
    /\ conn' = [conn EXCEPT ![c].state = "Connected",
                            ![c].sock = "open",
                            ![c].call = "saveOk"]
    /\ UNCHANGED <<managerVars, wanted>>

\* 'error' while the handshake is pending; ssh2 closes the socket after it.
HandshakeError(c, how) ==
    /\ conn[c].call = "handshake"
    /\ conn[c].sock \in {"opening", "closing"}
    /\ conn' = [conn EXCEPT ![c] = [Rejected(c, how) EXCEPT !.sock = "closing"]]
    /\ UNCHANGED <<managerVars, wanted>>

\* Mutant: a close event stops the ready timer although it rejects nothing.
ReadyTimeoutIfOpening(c) ==
    /\ conn[c].call = "handshake" /\ conn[c].sock = "opening"
    /\ conn' = [conn EXCEPT ![c] = Rejected(c, "transient")]
    /\ UNCHANGED <<managerVars, wanted>>

ReadyTimeout(c) ==
    /\ conn[c].call = "handshake"
    /\ conn' = [conn EXCEPT ![c] = Rejected(c, "transient")]
    /\ UNCHANGED <<managerVars, wanted>>

\* The catch of SSHConnection.connect and the manager's, up to its await.  A
\* 'close' event may come before it as well as after it.
CatchConnect(c) ==
    /\ conn[c].call = "rejected"
    /\ conn' = [conn EXCEPT ![c] =
                  [conn[c] EXCEPT
                     !.state = "Error", !.client = FALSE, !.call = "saveFail",
                     !.sock = IF conn[c].client THEN Ended(conn[c].sock)
                                                ELSE conn[c].sock]]
    /\ UNCHANGED <<managerVars, wanted>>

\* The client's 'close' event: the peer dropped the connection, or it was
\* ended from this side.  It does not settle a pending handshake.
Close(c) ==
    /\ conn[c].sock \in {"opening", "open", "closing"}
    /\ conn' = [conn EXCEPT ![c].sock = "closed",
                            ![c].client = FALSE,
                            ![c].state = "Disconnected"]
    /\ OnDisconnected
    /\ UNCHANGED <<active, clearPending, wanted>>

\* Mutant: a successful retry keeps its entry.
RetryDoneKeepsEntry == active' = FALSE /\ UNCHANGED <<disc, armed>>

RetryDone == active' = FALSE /\ StopReconnect

\* connect() resolves; a retry then ends as a success.
ConnectSucceeds(c) ==
    /\ conn[c].call = "saveOk"
    /\ conn' = [conn EXCEPT ![c].call = "none"]
    /\ IF conn[c].by = "reconnect"
       THEN RetryDone
       ELSE UNCHANGED <<active, disc, armed>>
    /\ UNCHANGED <<connections, clearPending, wanted>>

\* connect() rejects after removing the id's connection, whichever it is; a
\* retry then gives up or schedules the next one.
ConnectFails(c) ==
    /\ conn[c].call = "saveFail"
    /\ conn' = [conn EXCEPT ![c].call = "none"]
    /\ connections' = NoConn
    /\ \/ /\ conn[c].by = "user"
          /\ UNCHANGED <<disc, armed, active, clearPending>>
       \/ /\ conn[c].by = "reconnect"
          /\ conn[c].fail = "auth"
          /\ StopReconnect
          /\ clearPending' = TRUE
          /\ UNCHANGED active
       \/ /\ conn[c].by = "reconnect"
          /\ conn[c].fail # "auth"
          /\ ScheduleReconnect
          /\ active' = FALSE
          /\ UNCHANGED clearPending
    /\ UNCHANGED wanted

------------------------------------------------------------------------------
UserNext == UserConnect \/ UserDisconnect \/ UserStopReconnect

TimerNext == ClearActive \/ \E t \in Timers : TimerFires(t)

\* Steps of a connection the manager does not see yet.
Unseen(c) ==
    \/ AuthReady(c) \/ AuthFails(c)
    \/ Ready(c) \/ HandshakeError(c, "auth") \/ HandshakeError(c, "transient")
    \/ ReadyTimeout(c) \/ CatchConnect(c)

ConnNext(c) == Unseen(c) \/ Close(c) \/ ConnectSucceeds(c) \/ ConnectFails(c)

Next == UserNext \/ TimerNext \/ \E c \in Conns : ConnNext(c)

Spec == Init /\ [][Next]_vars

\* Timers fire and continuations run.  Nothing is assumed of the network, the
\* server or the user, who may leave a prompt of buildAuthConfig open forever.
Fairness ==
    /\ WF_vars(TimerNext)
    /\ \A c \in Conns :
          WF_vars(ReadyTimeout(c) \/ CatchConnect(c)
                    \/ ConnectSucceeds(c) \/ ConnectFails(c))

FairSpec == Spec /\ Fairness
------------------------------------------------------------------------------
(* Safety *)

\* The retry in flight: a connect() called by attemptReconnect.
Attempts == {c \in Conns : conn[c].call # "none" /\ conn[c].by = "reconnect"}

Reconnecting == disc.present /\ ~disc.manual

\* At most one retry is in flight, and the flag that makes the listener ignore
\* close events is up exactly while one is, or cools down after it.
SingleAttempt ==
    /\ \A c, d \in Attempts : c = d
    /\ active <=> (Attempts # {} \/ clearPending)
    /\ ~(Attempts # {} /\ clearPending)

\* A timer that will fire is the one the entry holds, so that it can still be
\* cancelled; none is left behind by a disconnect, a stop or a newer timer, and
\* none is pending while a retry is already running.
NoOrphanTimer ==
    armed # {} => armed = {disc.timer} /\ Reconnecting /\ ~active

\* An id the tree shows as reconnecting is never stuck there: its timer will
\* fire or its retry is in flight.
NoStalledReconnect == Reconnecting => armed # {} \/ Attempts # {}

\* Without an entry there is no handle and no flag either.  With the three above
\* this makes the invariant that the proofs carry from step to step.
EntryWellFormed == ~disc.present => disc = NoEntry

IInv == TypeOK /\ EntryWellFormed /\ SingleAttempt /\ NoOrphanTimer /\ NoStalledReconnect

\* A tracked connection that drops while the user wants it and no retry is in
\* flight is being retried after the very event that reported the drop, even
\* if older objects of the id have left entries behind.
DropIsRetried ==
    [][\A c \in Conns :
          /\ conn[c].state = "Connected" /\ conn'[c].state = "Disconnected"
          /\ conn[c].client /\ ~disc.manual /\ ~active
          => disc'.present /\ armed' # {}]_vars

\* The abstract reconnect cycle.
phase == IF armed # {} THEN "waiting"
         ELSE IF Attempts # {} THEN "trying"
         ELSE IF clearPending THEN "cooling" ELSE "idle"

Cycle == INSTANCE ReconnectCycle WITH phase <- phase

ImplementsCycle == Cycle!Spec

------------------------------------------------------------------------------
(* Liveness *)

\* connect() settles, whatever the peer does, once no prompt is open: the
\* ready timeout covers the close event that rejects nothing.
ConnectSettles ==
    \A c \in Conns :
        conn[c].call \in {"handshake", "rejected", "saveOk", "saveFail"}
            ~> conn[c].call = "none"

\* All objects of the model are in use (an effect of the bound Conns).
Exhausted == \A c \in Conns : ~Free(c)

\* A lost connection is retried again and again until a retry succeeds or the
\* user calls it off.
KeepsRetrying == Reconnecting ~> Attempts # {} \/ ~Reconnecting \/ Exhausted

\* The flag that mutes the listener does not stay up, unless a retry waits for
\* the user at a prompt.
ActiveEnds ==
    active ~> ~active \/ \E c \in Attempts : conn[c].call = "auth"

------------------------------------------------------------------------------
(* A statement of the code that it does not keep *)

\* disconnect() marks the id "to prevent auto-reconnect": after the user's
\* disconnect, and until the next connect, no retry is scheduled.
ManualDisconnectSticks == ~wanted => armed = {}
==============================================================================
