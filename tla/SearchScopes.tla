------------------------------ MODULE SearchScopes ------------------------------
(***************************************************************************)
(* Where a search looks: the servers and paths of SearchPanel.ts, the list *)
(* the webview shows of them, the connections a search opens for servers   *)
(* that are down and closes again when it found nothing there.             *)
(*                                                                         *)
(* A path is the sequence of its names, <<>> is "/".  The webview shows    *)
(* the list of the last state message that arrived; its clicks are queued  *)
(* and name a path by its index in that list.                              *)
(***************************************************************************)
EXTENDS Naturals, Sequences, FiniteSets, SequencesExt

CONSTANTS
    Servers,     \* hosts that can be searched
    Names,       \* names of folders
    MaxDepth,    \* depth of a path (bound)
    MaxPaths,    \* paths of a server (bound)
    Searches,    \* searches (bound)
    MaxClicks    \* clicks on their way to the panel (bound)

ConstantsAssumption == {MaxDepth, MaxPaths, MaxClicks} \subseteq Nat

VARIABLES
    entry,       \* serverList: checked, connected, status, searchPaths
    redundant,   \* paths of a server flagged redundantOf
    link,        \* servers with a connection in ConnectionManager
    inUse,       \* servers on which the user has something open
    shown,       \* searchPaths as the webview shows them
    clicks,      \* messages to the panel
    findFiles,   \* findFilesMode: of the panel, of the webview, as the user left it
    search       \* the searches

vars == <<entry, redundant, link, inUse, shown, clicks, findFiles, search>>

Paths == UNION {[1..n -> Names] : n \in 0..MaxDepth}
Root == <<>>

\* conn: what a search did about a server.  held: servers whose list entry it
\* still has; a new list leaves it with the old objects.
Conns == {"out", "ready", "connecting", "failed"}
Search == [pc : {"idle", "running", "over"}, aborted : BOOLEAN, conn : [Servers -> Conns],
           auto : SUBSET Servers, found : SUBSET Servers, held : SUBSET Servers]
NoSearch == [pc |-> "idle", aborted |-> FALSE, conn |-> [s \in Servers |-> "out"],
             auto |-> {}, found |-> {}, held |-> {}]

TypeOK ==
    /\ \A s \in Servers : /\ entry[s].checked \in BOOLEAN /\ entry[s].connected \in BOOLEAN
                          /\ entry[s].status \in {"none", "connecting", "failed"}
                          /\ entry[s].paths \in Seq(Paths)
    /\ redundant \in [Servers -> SUBSET Paths]
    /\ link \subseteq Servers /\ inUse \subseteq Servers
    /\ shown \in [Servers -> Seq(Paths)]
    /\ Len(clicks) <= MaxClicks
    /\ findFiles \in [panel : BOOLEAN, view : BOOLEAN, user : BOOLEAN]
    /\ search \in [Searches -> Search]

Init ==
    /\ entry = [s \in Servers |-> [checked |-> FALSE, connected |-> FALSE, status |-> "none",
                                   paths |-> <<>>]]
    /\ redundant = [s \in Servers |-> {}]
    /\ link = {} /\ inUse = {}
    /\ shown = [s \in Servers |-> <<>>] /\ clicks = <<>>
    /\ findFiles = [panel |-> FALSE, view |-> FALSE, user |-> FALSE]
    /\ search = [q \in Searches |-> NoSearch]

-----------------------------------------------------------------------------
(* The list of the panel *)

IsChildPath(p, q) == p # q /\ IsPrefix(q, p)

\* detectRedundancy: the children of another path of a checked server.
RedundantIn(e) ==
    IF ~e.checked THEN {}
    ELSE {p \in ToSet(e.paths) : \E q \in ToSet(e.paths) : IsChildPath(p, q)}
DetectRedundancy == redundant' = [s \in Servers |-> RedundantIn(entry'[s])]

\* addScope, addServerPath: "/" of a server checked without paths becomes explicit.
WithPath(e, p) ==
    LET made == IF e.checked /\ e.paths = <<>> /\ p # Root THEN <<Root>> ELSE e.paths
    IN [e EXCEPT !.paths = IF p \in ToSet(made) THEN made ELSE Append(made, p),
                 !.checked = TRUE]

AddPath(s, p) ==
    /\ Len(entry[s].paths) + 2 <= MaxPaths
    /\ entry' = [entry EXCEPT ![s] = WithPath(@, p)]
    /\ DetectRedundancy

\* The wrong form of the next operator: the flags are those of the old list.
RemovePathQuietly(s, i) ==
    /\ entry' = IF i \notin DOMAIN entry[s].paths THEN entry
                ELSE [entry EXCEPT ![s].paths = RemoveAt(@, i),
                                   ![s].checked = @ /\ Len(entry[s].paths) > 1]
    /\ UNCHANGED redundant

\* removeServerPath: the last path takes the check mark with it.
RemovePath(s, i) ==
    IF i \notin DOMAIN entry[s].paths THEN UNCHANGED <<entry, redundant>>
    ELSE /\ entry' = [entry EXCEPT ![s].paths = RemoveAt(@, i),
                                   ![s].checked = @ /\ Len(entry[s].paths) > 1]
         /\ DetectRedundancy

\* toggleServer
Toggle(s, checked) ==
    /\ entry' = [entry EXCEPT ![s].checked = checked]
    /\ DetectRedundancy

\* clearScopes leaves no path, so no flag.
ClearScopes ==
    /\ entry' = [s \in Servers |-> [entry[s] EXCEPT !.checked = FALSE, !.paths = <<>>]]
    /\ redundant' = [s \in Servers |-> {}]

\* buildServerSearchEntries and setServerList: new entries of the hosts, which
\* keep paths and check marks; a search that runs holds the old ones.
FreshList ==
    /\ search' = [q \in Searches |-> [search[q] EXCEPT !.held = {}]]
    /\ UNCHANGED <<link, inUse, shown, clicks, findFiles>>
FreshEntry(s) == [entry[s] EXCEPT !.connected = s \in link, !.status = "none"]

\* The command showSearch adds no path, unless there are scopes of the old kind.
ShowSearch ==
    /\ FreshList
    /\ entry' = [s \in Servers |-> FreshEntry(s)]
    /\ DetectRedundancy

\* searchInScope adds the selected folder of a connected server.
SearchInScope(s, p) ==
    /\ FreshList
    /\ s \in link /\ Len(entry[s].paths) + 2 <= MaxPaths
    /\ entry' = [t \in Servers |-> IF t = s THEN WithPath(FreshEntry(t), p) ELSE FreshEntry(t)]
    /\ DetectRedundancy

-----------------------------------------------------------------------------
(* The webview *)

\* A state message arrives; it also carries the mode of the last search.
StateArrives ==
    /\ shown' = [s \in Servers |-> entry[s].paths]
    /\ findFiles' = [findFiles EXCEPT !.view = findFiles.panel]
    /\ UNCHANGED <<entry, redundant, link, inUse, clicks, search>>

Click(message) ==
    /\ Len(clicks) < MaxClicks
    /\ clicks' = Append(clicks, message)
    /\ UNCHANGED <<entry, redundant, link, inUse, shown, findFiles, search>>

Clicks ==
    \E s \in Servers :
        \/ \E p \in Paths : Click([type |-> "add", server |-> s, arg |-> p])
        \/ \E i \in DOMAIN shown[s] : Click([type |-> "remove", server |-> s, arg |-> i])
        \/ \E checked \in BOOLEAN : Click([type |-> "toggle", server |-> s, arg |-> checked])
        \/ Click([type |-> "clear", server |-> s, arg |-> 0])

\* The mode button changes the webview only.
ToggleFindFiles ==
    /\ findFiles' = [findFiles EXCEPT !.view = ~@, !.user = ~findFiles.view]
    /\ UNCHANGED <<entry, redundant, link, inUse, shown, clicks, search>>

\* handleMessage
HandleClick ==
    /\ clicks # <<>>
    /\ clicks' = Tail(clicks)
    /\ LET m == Head(clicks) IN
       \/ m.type = "add" /\ AddPath(m.server, m.arg)
       \/ m.type = "remove" /\ RemovePath(m.server, m.arg)
       \/ m.type = "toggle" /\ Toggle(m.server, m.arg)
       \/ m.type = "clear" /\ ClearScopes
    /\ UNCHANGED <<link, inUse, shown, findFiles, search>>

-----------------------------------------------------------------------------
(* A search: performSearch *)

\* It aborts the searches that were not kept, and asks for the connections it
\* lacks; a server that is listed as connected but is not is left out.
StartSearch(q, kept) ==
    /\ search[q].pc = "idle"
    /\ LET asked == {s \in Servers : entry[s].checked}
           conn == [s \in Servers |->
                      IF s \notin asked THEN "out"
                      ELSE IF s \in link THEN "ready"
                      ELSE IF entry[s].connected THEN "out" ELSE "connecting"]
       IN /\ asked # {}
          /\ search' = [r \in Searches |->
                IF r = q THEN [NoSearch EXCEPT !.pc = "running", !.conn = conn,
                                                       !.held = asked]
                ELSE [search[r] EXCEPT !.aborted = @ \/ (search[r].pc = "running" /\ r \notin kept)]]
          /\ entry' = [s \in Servers |->
                [entry[s] EXCEPT !.status = IF conn[s] = "connecting" THEN "connecting" ELSE @]]
    /\ findFiles' = [findFiles EXCEPT !.panel = findFiles.view]
    /\ UNCHANGED <<redundant, link, inUse, shown, clicks>>

\* autoConnectCallback came back; the connection also fires
\* onDidChangeConnections.  An aborted search does not look at the answer.
AutoConnected(q, s) ==
    /\ search[q].conn[s] = "connecting"
    /\ link' = link \cup {s}
    /\ entry' = [entry EXCEPT ![s].connected = TRUE, ![s].status = "none"]
    /\ search' = IF search[q].aborted
                 THEN [search EXCEPT ![q].conn[s] = "out"]
                 ELSE [search EXCEPT ![q].conn[s] = "ready", ![q].auto = @ \cup {s}]
    /\ UNCHANGED <<redundant, inUse, shown, clicks, findFiles>>

AutoConnectFails(q, s) ==
    /\ search[q].conn[s] = "connecting"
    /\ search' = [search EXCEPT ![q].conn[s] = IF search[q].aborted THEN "out" ELSE "failed"]
    /\ entry' = IF search[q].aborted \/ s \notin search[q].held THEN entry
                ELSE [entry EXCEPT ![s].status = "failed"]
    /\ UNCHANGED <<redundant, link, inUse, shown, clicks, findFiles>>

Finds(q, s) ==
    /\ search[q].pc = "running" /\ ~search[q].aborted /\ search[q].conn[s] = "ready"
    /\ \A t \in Servers : search[q].conn[t] # "connecting"
    /\ search' = [search EXCEPT ![q].found = @ \cup {s}]
    /\ UNCHANGED <<entry, redundant, link, inUse, shown, clicks, findFiles>>

\* cancelSearch
Abort(q) ==
    /\ search[q].pc = "running" /\ ~search[q].aborted
    /\ search' = [search EXCEPT ![q].aborted = TRUE]
    /\ UNCHANGED <<entry, redundant, link, inUse, shown, clicks, findFiles>>

\* The finally: servers it connected and found nothing on are disconnected.
EndSearch(q) ==
    /\ search[q].pc = "running"
    /\ \A s \in Servers : search[q].conn[s] # "connecting"
    /\ search' = [search EXCEPT ![q].pc = "over"]
    /\ LET idle == search[q].auto \ search[q].found IN
       /\ link' = link \ idle /\ inUse' = inUse \ idle
       /\ entry' = [s \in Servers |->
                      IF s \in idle THEN [entry[s] EXCEPT !.connected = FALSE, !.status = "none"]
                      ELSE entry[s]]
    /\ UNCHANGED <<redundant, shown, clicks, findFiles>>

-----------------------------------------------------------------------------
(* The connections, as ConnectionManager announces them *)

\* updateServerConnection
Connects(s) ==
    /\ s \notin link
    /\ link' = link \cup {s}
    /\ entry' = [entry EXCEPT ![s].connected = TRUE, ![s].status = "none"]
    /\ UNCHANGED <<redundant, inUse, shown, clicks, findFiles, search>>

Drops(s) ==
    /\ s \in link
    /\ link' = link \ {s} /\ inUse' = inUse \ {s}
    /\ entry' = [entry EXCEPT ![s].connected = FALSE]
    /\ UNCHANGED <<redundant, shown, clicks, findFiles, search>>

Uses(s) ==
    /\ s \in link
    /\ inUse' = inUse \cup {s}
    /\ UNCHANGED <<entry, redundant, link, shown, clicks, findFiles, search>>

ListStep == StateArrives \/ Clicks \/ ToggleFindFiles \/ HandleClick
LinkStep ==
    \E s \in Servers :
        \/ Connects(s) \/ Drops(s) \/ Uses(s)
        \/ \E q \in Searches : AutoConnected(q, s) \/ AutoConnectFails(q, s) \/ Finds(q, s)
SearchStep ==
    \E q \in Searches : Abort(q) \/ EndSearch(q) \/ \E kept \in SUBSET Searches : StartSearch(q, kept)

\* The list and its clicks, the searches and their connections.
ShowStep == ShowSearch \/ \E s \in Servers, p \in Paths : SearchInScope(s, p)
ListNext == ShowStep \/ ListStep \/ \E s \in Servers : Connects(s) \/ Drops(s)
SearchNext == ShowStep \/ LinkStep \/ SearchStep

Next == ListNext \/ SearchNext

Spec == Init /\ [][Next]_vars

-----------------------------------------------------------------------------
\* Every path of a checked server is searched: it is not flagged as redundant,
\* or lies under one that is not.
PathsCovered ==
    \A s \in Servers : entry[s].checked =>
        \A p \in ToSet(entry[s].paths) :
            \E q \in ToSet(entry[s].paths) \ redundant[s] : IsPrefix(q, p)

\* The list says of every server whether it is connected.
ConnectedIsTrue == \A s \in Servers : entry[s].connected <=> s \in link

\* A server shown as connecting is being connected.
ConnectingIsReal ==
    \A s \in Servers : entry[s].status = "connecting" =>
        \E q \in Searches : search[q].conn[s] = "connecting"

\* "Clean up auto-connected servers with no results": the end of a search
\* disconnects no server that the user or another search is working on.
EndSparesOthers ==
    [][\A s \in link \ link' :
         (\E q \in Searches : EndSearch(q)) =>
            /\ s \notin inUse
            /\ ~\E r \in Searches : /\ search'[r].pc = "running" /\ ~search'[r].aborted
                                    /\ search'[r].conn[s] = "ready"]_vars

\* The mode on the button is the one the user chose.
ModeIsChosen == findFiles.view = findFiles.user

=============================================================================
