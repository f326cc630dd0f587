-------------------------------- MODULE FileTree --------------------------------
(***************************************************************************)
(* src/providers/FileTreeProvider.ts, the directories of one connection:   *)
(* the cache, the loads that fill it, the loading and error items, what    *)
(* the tree shows, and the refreshes that make the editor ask again.       *)
(*                                                                         *)
(* What is preloaded and when is PriorityQueueService.tla's; here a        *)
(* preload is a load nobody's item waits for.  A listing is the state of   *)
(* the directory on the server when it was read.                           *)
(***************************************************************************)
EXTENDS Integers, FiniteSets

CONSTANTS
    Dirs,
    Home,       \* the directory shown first
    Requests,   \* what users, servers and timers do (bound)
    MaxState    \* states of a directory on the server (bound)

HomeAssumption == Home \in Dirs /\ Requests \in Nat /\ MaxState \in Nat

Unread == -1

VARIABLES
    linkUp,         \* the connection is up; otherwise it is reconnecting
    remote,         \* state of each directory on the server
    currentPath,
    expanded,       \* expandedFolders: directories open below the current one
    directoryCache, \* listing of each directory, Unread for none
    activeLoads,    \* loads in flight: "none", "sent", "read"
    reading,        \* what a read one is about to answer
    waiting,        \* loads with a loadDirectoryAndRefresh on them
    loadingItems, failedLoads,
    fired,          \* directories the editor was told to ask for again
    shown,          \* what the tree shows of each directory
    left            \* requests left

vars == <<linkUp, remote, currentPath, expanded, directoryCache, activeLoads, reading,
          waiting, loadingItems, failedLoads, fired, shown, left>>

server == <<linkUp, remote>>
place  == <<currentPath, expanded>>
loads  == <<activeLoads, reading, waiting>>

TypeOK ==
    /\ linkUp \in BOOLEAN
    /\ remote \in [Dirs -> 0 .. MaxState]
    /\ currentPath \in Dirs /\ expanded \subseteq Dirs
    /\ directoryCache \in [Dirs -> Unread .. MaxState]
    /\ activeLoads \in [Dirs -> {"none", "sent", "read"}]
    /\ reading \in [Dirs -> 0 .. MaxState]
    /\ waiting \subseteq Dirs
    /\ loadingItems \subseteq Dirs /\ failedLoads \subseteq Dirs /\ fired \subseteq Dirs
    /\ shown \in [Dirs -> {"nothing", "loading", "error", "files"}]
    /\ left \in 0 .. Requests

Init ==
    /\ linkUp = TRUE
    /\ remote = [d \in Dirs |-> 0]
    /\ currentPath = Home /\ expanded = {}
    /\ directoryCache = [d \in Dirs |-> Unread]
    /\ activeLoads = [d \in Dirs |-> "none"] /\ reading = [d \in Dirs |-> 0]
    /\ waiting = {} /\ loadingItems = {} /\ failedLoads = {}
    /\ fired = {Home}
    /\ shown = [d \in Dirs |-> "nothing"]
    /\ left = Requests

------------------------------------------------------------------------------
\* Directories whose children the editor asks for; below the current directory
\* they appear once its listing does.
Visible == {currentPath} \cup (IF shown[currentPath] = "files" THEN expanded ELSE {})

Cached(d) == directoryCache[d] # Unread

\* _onDidChangeTreeData.fire of the item of d, or of what contains it.
FireAll == fired' = fired \cup Visible

Spend == left > 0 /\ left' = left - 1

\* loadDirectory: one load of a directory at a time, for whoever asks.
Load(ds) ==
    activeLoads' = [d \in Dirs |->
                       IF d \in ds /\ activeLoads[d] = "none" THEN "sent" ELSE activeLoads[d]]

------------------------------------------------------------------------------
(* getChildren *)

Shows(d, what) ==
    /\ shown' = [shown EXCEPT ![d] = what]
    /\ fired' = (fired \ {d}) \cup
          (IF d = currentPath /\ what = "files" THEN expanded \ {d} ELSE {})

\* The connection is reconnecting: its items are built from the cache alone.
RenderOffline(d) ==
    /\ d \in fired /\ ~linkUp
    /\ Shows(d, IF Cached(d) THEN "files" ELSE "nothing")
    /\ UNCHANGED <<server, place, directoryCache, loads, loadingItems, failedLoads, left>>

RenderCached(d) ==
    /\ d \in fired /\ linkUp /\ Cached(d)
    /\ Shows(d, "files")
    /\ loadingItems' = loadingItems \ {d}
    /\ UNCHANGED <<server, place, directoryCache, loads, failedLoads, left>>

RenderLoading(d) ==
    /\ d \in fired /\ linkUp /\ ~Cached(d) /\ d \in loadingItems
    /\ Shows(d, "loading")
    /\ UNCHANGED <<server, place, directoryCache, loads, loadingItems, failedLoads, left>>

\* "do NOT auto-retry (issue #13)".
RenderFailed(d) ==
    /\ d \in fired /\ linkUp /\ ~Cached(d) /\ d \notin loadingItems /\ d \in failedLoads
    /\ Shows(d, "error")
    /\ UNCHANGED <<server, place, directoryCache, loads, loadingItems, failedLoads, left>>

\* loadDirectoryAndRefresh.
RenderNew(d) ==
    /\ d \in fired /\ linkUp /\ ~Cached(d) /\ d \notin loadingItems \cup failedLoads
    /\ Shows(d, "loading")
    /\ loadingItems' = loadingItems \cup {d}
    /\ waiting' = waiting \cup {d}
    /\ Load({d})
    /\ UNCHANGED <<server, place, directoryCache, reading, failedLoads, left>>

------------------------------------------------------------------------------
(* Loads *)

\* The server reads the directory; what happens to it afterwards is not in the answer.
ServerReads(d) ==
    /\ activeLoads[d] = "sent" /\ linkUp
    /\ activeLoads' = [activeLoads EXCEPT ![d] = "read"]
    /\ reading' = [reading EXCEPT ![d] = remote[d]]
    /\ UNCHANGED <<server, place, directoryCache, waiting, loadingItems, failedLoads, fired,
                   shown, left>>

\* The items waiting for d are drawn again.
Settle(d) ==
    /\ activeLoads' = [activeLoads EXCEPT ![d] = "none"]
    /\ reading' = [reading EXCEPT ![d] = 0]
    /\ waiting' = waiting \ {d}
    /\ IF d \in waiting
       THEN loadingItems' = loadingItems \ {d} /\ fired' = fired \cup {d}
       ELSE UNCHANGED <<loadingItems, fired>>

\* Mutant: a load that somebody else started draws nobody's item.
LoadedQuietly(d) ==
    /\ activeLoads[d] = "read"
    /\ directoryCache' = [directoryCache EXCEPT ![d] = reading[d]]
    /\ activeLoads' = [activeLoads EXCEPT ![d] = "none"]
    /\ reading' = [reading EXCEPT ![d] = 0]
    /\ waiting' = waiting \ {d}
    /\ UNCHANGED <<server, place, loadingItems, failedLoads, fired, shown, left>>

Loaded(d) ==
    /\ activeLoads[d] = "read"
    /\ directoryCache' = [directoryCache EXCEPT ![d] = reading[d]]
    /\ Settle(d)
    /\ failedLoads' = IF d \in waiting THEN failedLoads \ {d} ELSE failedLoads
    /\ UNCHANGED <<server, place, shown, left>>

\* Mutant: the failure is not recorded.
ForgetFailure(d) ==
    /\ activeLoads[d] # "none"
    /\ Settle(d)
    /\ UNCHANGED <<server, place, directoryCache, failedLoads, shown, left>>

\* The listing failed; the failure is recorded before the item is drawn again.
LoadFails(d) ==
    /\ activeLoads[d] # "none"
    /\ Settle(d)
    /\ failedLoads' = IF d \in waiting THEN failedLoads \cup {d} ELSE failedLoads
    /\ UNCHANGED <<server, place, directoryCache, shown, left>>

\* A preload, or the load of the current directory when the root is drawn.
Preload(d) ==
    /\ Spend
    /\ linkUp /\ ~Cached(d) /\ activeLoads[d] = "none"
    /\ Load({d})
    /\ UNCHANGED <<server, place, directoryCache, reading, waiting, loadingItems, failedLoads,
                   fired, shown>>

------------------------------------------------------------------------------
(* The user *)

\* VS Code asks for the children of an expanded item.
Expand(d) ==
    /\ Spend
    /\ d # currentPath /\ shown[currentPath] = "files" /\ d \notin expanded
    /\ expanded' = expanded \cup {d}
    /\ fired' = fired \cup {d}
    /\ UNCHANGED <<server, currentPath, directoryCache, loads, loadingItems, failedLoads, shown>>

Collapse(d) ==
    /\ Spend
    /\ d # currentPath /\ shown[currentPath] = "files" /\ d \in expanded
    /\ expanded' = expanded \ {d} /\ fired' = fired \ {d}
    /\ UNCHANGED <<server, currentPath, directoryCache, loads, loadingItems, failedLoads, shown>>

\* setCurrentPath.
Navigate(d) ==
    /\ Spend
    /\ d # currentPath
    /\ currentPath' = d
    /\ failedLoads' = failedLoads \ {d}
    /\ Load(IF linkUp /\ ~Cached(d) THEN {d} ELSE {})
    /\ fired' = {d} /\ shown' = [e \in Dirs |-> "nothing"]
    /\ UNCHANGED <<server, expanded, directoryCache, reading, waiting, loadingItems>>

\* refresh, with or without the cache, and refreshItem of the connection.
Refresh ==
    /\ Spend
    /\ \/ directoryCache' = [d \in Dirs |-> Unread]
       \/ UNCHANGED directoryCache
    /\ failedLoads' = {}
    /\ FireAll
    /\ UNCHANGED <<server, place, loads, loadingItems, shown>>

\* A command changes directory d on the server and then calls refreshFolder.
ChangeAndRefresh(d) ==
    /\ Spend
    /\ linkUp /\ remote[d] < MaxState
    /\ remote' = [remote EXCEPT ![d] = @ + 1]
    /\ directoryCache' = [directoryCache EXCEPT ![d] = Unread]
    /\ failedLoads' = failedLoads \ {d}
    /\ FireAll
    /\ UNCHANGED <<linkUp, place, loads, loadingItems, shown>>

------------------------------------------------------------------------------
(* Connections, timers *)

\* Disconnected: clearCache of the connection; the loads in flight are rejected
\* later, each by itself.  debouncedConnectionRefresh draws the root.
Lost ==
    /\ Spend
    /\ linkUp
    /\ linkUp' = FALSE
    /\ directoryCache' = [d \in Dirs |-> Unread]
    /\ failedLoads' = {}
    /\ FireAll
    /\ UNCHANGED <<remote, place, loads, loadingItems, shown>>

\* Connected again: the root is drawn, with the load of the current directory.
Restored ==
    /\ ~linkUp
    /\ linkUp' = TRUE
    /\ Load(IF Cached(currentPath) THEN {} ELSE {currentPath})
    /\ FireAll
    /\ UNCHANGED <<remote, place, directoryCache, reading, waiting, loadingItems, failedLoads,
                   shown, left>>

\* startAutoRefresh: refreshConnection of every connection.
AutoRefresh ==
    /\ Spend
    /\ FireAll
    /\ UNCHANGED <<server, place, directoryCache, loads, loadingItems, failedLoads, shown>>

------------------------------------------------------------------------------
Render(d) ==
    RenderOffline(d) \/ RenderCached(d) \/ RenderLoading(d) \/ RenderFailed(d) \/ RenderNew(d)

Answer(d) == ServerReads(d) \/ Loaded(d) \/ LoadFails(d)

Next ==
    \/ \E d \in Dirs : Render(d) \/ Answer(d) \/ Preload(d)
    \/ \E d \in Dirs : Expand(d) \/ Collapse(d) \/ Navigate(d) \/ ChangeAndRefresh(d)
    \/ Refresh \/ Lost \/ Restored \/ AutoRefresh

Spec == Init /\ [][Next]_vars

\* The editor draws what it was told to, and a listing is answered or rejected.
Fairness == \A d \in Dirs : WF_vars(Render(d)) /\ WF_vars(Answer(d))

FairSpec == Spec /\ Fairness

------------------------------------------------------------------------------
(* Properties *)

\* A loading item is always replaced: its load is on its way and will draw it.
SpinnerIsLoading ==
    \A d \in Dirs : d \in loadingItems => d \in waiting /\ activeLoads[d] # "none"

\* "issue #13 infinite loop": drawing, loading and failing do not feed each
\* other; once the user and the timers are quiet the tree comes to rest.
TreeSettles ==
    <>[](fired = {} /\ \A d \in Dirs : activeLoads[d] = "none")

\* At rest, what is open shows the cache or the error.
QuietTreeIsCache ==
    fired = {} /\ linkUp /\ loadingItems = {} =>
        \A d \in Visible : IF shown[d] = "files" THEN TRUE ELSE d \in failedLoads

\* refreshFolder, "so the move is visible": what a command did is in the listing
\* the tree comes to rest with.
RefreshIsFresh ==
    \A d \in Dirs : Cached(d) => directoryCache[d] = remote[d]
==============================================================================
