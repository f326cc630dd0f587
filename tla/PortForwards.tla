----------------------------- MODULE PortForwards -----------------------------
(***************************************************************************)
(* Port forwards of one connection id: the local servers kept by each      *)
(* SSHConnection object, the saved rules of PortForwardService, the view   *)
(* of PortForwardTreeProvider, and the extension's disconnect command and  *)
(* restore-on-connect listener that tie them together.                     *)
(*                                                                         *)
(* The life of a connection object is the part of ConnectionManager that   *)
(* forwards can see: two connects of an id may be in flight, and the map   *)
(* keeps the last object put there.  A local port is bound or refused      *)
(* before any event is handled, so a forward or a restore is one step.     *)
(***************************************************************************)
EXTENDS Naturals, FiniteSets

CONSTANTS
    Links,      \* connection objects of the id (bound)
    NoLink,     \* no object in the manager's map
    InFlight,   \* connects of the id in flight at the same time (bound)
    Ports       \* local ports; each has one remote target

LinkAssumption == NoLink \notin Links /\ InFlight \in Nat \ {0}

VARIABLES
    link,      \* life of each connection object
    entry,     \* connectionManager.getConnection(id)
    servers,   \* _portForwards: listening local ports of each object
    busy,      \* ports another program listens on
    rules,     \* savedRules[id]
    tree,      \* forwards the tree shows as active
    crossed    \* objects that lived while another did (history)

vars == <<link, entry, servers, busy, rules, tree, crossed>>

\* ended: disconnect() was called, the client's 'close' is still to come and the
\* state still is Connected.
Lives == {"new", "connecting", "up", "ended", "dead"}

TypeOK ==
    /\ link \in [Links -> Lives]
    /\ entry \in Links \cup {NoLink}
    /\ servers \in [Links -> SUBSET Ports]
    /\ busy \subseteq Ports /\ rules \subseteq Ports /\ tree \subseteq Ports
    /\ crossed \subseteq Links

Init ==
    /\ link = [c \in Links |-> "new"]
    /\ entry = NoLink
    /\ servers = [c \in Links |-> {}]
    /\ busy = {} /\ rules \in SUBSET Ports /\ tree = {} /\ crossed = {}

------------------------------------------------------------------------------
\* Ports listen() is refused, by a server of ours or of another program.
Taken == busy \cup UNION {servers[c] : c \in Links}

\* cleanupDisconnectedForwards, on every onDidChangeConnections: the entries of
\* an id that is not Connected go.
Cleaned(forwards, lives, object) ==
    IF object # NoLink /\ lives[object] \in {"up", "ended"} THEN forwards ELSE {}

\* Object c is in life l and the manager's map holds o: the change event.
Moved(c, l, o) ==
    /\ link' = [link EXCEPT ![c] = l]
    /\ entry' = o
    /\ tree' = Cleaned(tree, link', o)

------------------------------------------------------------------------------
(* Connections *)

Connect(c) ==
    /\ link[c] = "new"
    /\ entry # NoLink => link[entry] \notin {"up", "ended"}
    /\ Cardinality({d \in Links : link[d] = "connecting"}) < InFlight
    /\ Moved(c, "connecting", c)
    /\ UNCHANGED <<servers, busy, rules>>

\* Mutant: a rule is restored without a look at what listen() answered.
RestoreBlindly(c) ==
    /\ link[c] = "connecting"
    /\ link' = [link EXCEPT ![c] = "up"]
    /\ servers' = [servers EXCEPT ![c] = rules \ Taken]
    /\ tree' = Cleaned(tree, link', entry) \cup rules
    /\ UNCHANGED <<entry, busy, rules>>

\* The Connected event: the view is cleaned, then restoreForwardsForConnection
\* has tried each rule.
Connected(c) ==
    /\ link[c] = "connecting"
    /\ link' = [link EXCEPT ![c] = "up"]
    /\ servers' = [servers EXCEPT ![c] = rules \ Taken]
    /\ tree' = Cleaned(tree, link', entry) \cup (rules \ Taken)
    /\ UNCHANGED <<entry, busy, rules>>

\* The entry of the id is deleted, whichever object it holds by then.
ConnectFails(c) ==
    /\ link[c] = "connecting"
    /\ Moved(c, "dead", NoLink)
    /\ UNCHANGED <<servers, busy, rules>>

\* handleDisconnect of a connection that was lost: the servers are closed.
Dropped(c) ==
    /\ link[c] = "up"
    /\ servers' = [servers EXCEPT ![c] = {}]
    /\ Moved(c, "dead", entry)
    /\ UNCHANGED <<busy, rules>>

\* sshLite.disconnect: deactivateAllForwardsForConnection stops what the tree
\* shows, then SSHConnection.disconnect closes the rest.
Disconnect ==
    /\ entry # NoLink /\ link[entry] = "up"
    /\ link' = [link EXCEPT ![entry] = "ended"]
    /\ servers' = [servers EXCEPT ![entry] = {}]
    /\ tree' = {}
    /\ UNCHANGED <<entry, busy, rules>>

\* The 'close' of an ended client: the map entry of the id goes, or a retry is
\* scheduled when the manual entry was used up by another object.
Closed(c) ==
    /\ link[c] = "ended"
    /\ Moved(c, "dead", NoLink) \/ Moved(c, "dead", entry)
    /\ UNCHANGED <<servers, busy, rules>>

------------------------------------------------------------------------------
(* Forwards *)

\* Mutant: forwardPort looks at the state alone, which a client that was ended
\* keeps until its 'close'.
ForwardWhileConnected(p) ==
    /\ entry # NoLink /\ link[entry] \in {"up", "ended"} /\ p \notin Taken
    /\ servers' = [servers EXCEPT ![entry] = @ \cup {p}]
    /\ tree' = tree \cup {p}
    /\ rules' = rules \cup {p}
    /\ UNCHANGED <<link, entry, busy>>

\* forwardPort, from the prompts or from activateSavedForward: listen, show it,
\* save the rule.  A refused one changes nothing; neither does one on an object
\* that was lost while the user was asked.
ForwardPort(p) ==
    /\ entry # NoLink /\ link[entry] = "up" /\ p \notin Taken
    /\ servers' = [servers EXCEPT ![entry] = @ \cup {p}]
    /\ tree' = tree \cup {p}
    /\ rules' = rules \cup {p}
    /\ UNCHANGED <<link, entry, busy>>

\* stopForward of an entry of the tree, on the object in the map.
StopForward(p) ==
    /\ p \in tree /\ entry # NoLink
    /\ servers' = [servers EXCEPT ![entry] = @ \ {p}]
    /\ tree' = tree \ {p}
    /\ UNCHANGED <<link, entry, busy, rules>>

\* deleteSavedRule: an active forward goes on.
DeleteRule(p) ==
    /\ p \in rules
    /\ rules' = rules \ {p}
    /\ UNCHANGED <<link, entry, servers, busy, tree>>

\* Another program takes a port, or gives it back.
OtherProgram(p) ==
    /\ busy' = IF p \in busy THEN busy \ {p} ELSE busy \cup ({p} \ Taken)
    /\ busy' # busy
    /\ UNCHANGED <<link, entry, servers, rules, tree>>

------------------------------------------------------------------------------
Step ==
    \/ \E c \in Links : Connect(c) \/ Connected(c) \/ ConnectFails(c) \/ Dropped(c) \/ Closed(c)
    \/ Disconnect
    \/ \E p \in Ports : ForwardPort(p) \/ StopForward(p) \/ DeleteRule(p) \/ OtherProgram(p)

Alive == {c \in Links : link[c] \in {"connecting", "up", "ended"}}

\* The manager lets a connect begin while one of the id is in flight, or while an
\* object it has lost from its map still lives: crossed keeps those concerned.
Next ==
    /\ Step
    /\ crossed' = crossed \cup {c \in Alive' : \E d \in Alive' : d # c}

Spec == Init /\ [][Next]_vars

------------------------------------------------------------------------------
(* Properties *)

\* PortForwardService.dispose, "Port forwards are cleaned up when connections
\* are disconnected": no local server outlives its connection, not even the time
\* between disconnect() and the client's 'close'.
ServersAreLive == \A c \in Links : servers[c] # {} => link[c] = "up"

\* While a connection is up the tree shows every local port that listens, and no
\* other: a forward that is not shown cannot be stopped. A connection that lived
\* beside another of its id is the exception: the tree is kept by id, and a stop
\* goes to the object in the map.
TreeIsTrue ==
    \A c \in Links \ crossed :
        link[c] = "up" => entry = c /\ tree = UNION {servers[d] : d \in Links}
==============================================================================
