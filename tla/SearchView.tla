------------------------------- MODULE SearchView -------------------------------
(***************************************************************************)
(* The search webview (webview-src/search/index.ts) and the messages it    *)
(* exchanges with SearchPanel.ts: the Current tab, the tabs kept with the  *)
(* pin button, the routing of batches to them, and what is on the screen.  *)
(*                                                                         *)
(* Both directions are queues: a message acts on what the other side has   *)
(* become when it arrives.  The panel's searches are reduced to how many   *)
(* batches each still posts; a batch adds one result or none.              *)
(***************************************************************************)
EXTENDS Naturals, Sequences, FiniteSets, SequencesExt

CONSTANTS
    MaxSearches,   \* searches (bound)
    MaxBatches,    \* batches of one search (bound)
    MaxTabs,       \* tabs ever opened (bound)
    MaxMail,       \* messages in one direction (bound)
    MaxKept        \* kept tabs, 10 in the code

ConstantsAssumption ==
    {MaxSearches, MaxBatches, MaxTabs, MaxMail, MaxKept} \subseteq Nat \ {0}

VARIABLES
    running,      \* panel: activeSearches, search id -> its `kept' flag
    left,         \* panel: batches a search still posts
    lastId,       \* panel: currentSearchId
    toPanel,      \* messages of the webview
    toView,       \* messages of the panel
    current,      \* view: currentTab
    tabs,         \* view: resultTabs
    active,       \* view: activeTabId, 0 for Current
    route,        \* view: tabSearchIdMap, as <<search, tab>> pairs
    searchId,     \* view: currentSearchId
    expanded,     \* view: expandedFiles of the active tab is not empty
    cancelShown,  \* view: the cancel button is there instead of the search button
    timer,        \* view: renderDebounceTimer
    rendered,     \* view: lastRenderedResultCount and scope fingerprint
    screen,       \* view: what the results container holds
    born          \* view: tabs created so far

vars == <<running, left, lastId, toPanel, toView, current, tabs, active, route, searchId,
          expanded, cancelShown, timer, rendered, screen, born>>

panel == <<running, left, lastId>>
drawn == <<timer, rendered, screen>>

SearchIds == 1..MaxSearches
None == [what |-> "none", count |-> 0]
Text(t) == [what |-> t, count |-> 0]
Never == [count |-> 0, scoped |-> FALSE, set |-> FALSE]

\* createTabState
Fresh(no) == [no |-> no, search |-> 0, searching |-> FALSE, count |-> 0, from |-> {},
              scoped |-> FALSE, expanded |-> FALSE]

Tab == [no : 1..MaxTabs, search : 0..MaxSearches, searching : BOOLEAN, count : Nat,
        from : SUBSET SearchIds, scoped : BOOLEAN, expanded : BOOLEAN]

TypeOK ==
    /\ \E ids \in SUBSET SearchIds : running \in [ids -> BOOLEAN]
    /\ left \in [SearchIds -> 0..MaxBatches] /\ lastId \in 0..MaxSearches
    /\ Len(toPanel) <= MaxMail
    /\ current \in Tab /\ tabs \in Seq(Tab) /\ Len(tabs) <= MaxKept
    /\ active \in 0..MaxTabs /\ route \subseteq SearchIds \X (1..MaxTabs)
    /\ searchId \in 0..MaxSearches
    /\ {expanded, cancelShown, timer} \subseteq BOOLEAN
    /\ screen.what \in {"blank", "searching", "none", "cancelled", "error", "results"}
    /\ born \in 1..MaxTabs

ViewInit ==
    /\ current = Fresh(1) /\ tabs = <<>> /\ active = 0 /\ route = {} /\ searchId = 0
    /\ expanded = FALSE /\ cancelShown = FALSE /\ timer = FALSE
    /\ rendered = Never /\ screen = Text("blank") /\ born = 1

Init ==
    /\ running = <<>> /\ left = [s \in SearchIds |-> 0] /\ lastId = 0
    /\ toPanel = <<>> /\ toView = <<>>
    /\ ViewInit

Searching(r) == DOMAIN r # {}
TabNo(no) == SelectInSeq(tabs, LAMBDA t : t.no = no)
ActiveOf(cur, kept, a) ==
    IF a = 0 THEN cur ELSE kept[SelectInSeq(kept, LAMBDA t : t.no = a)]
Active == ActiveOf(current, tabs, active)

\* renderResults of a tab
Shown(tab) == IF tab.count = 0 THEN None ELSE [what |-> "results", count |-> tab.count]

-----------------------------------------------------------------------------
(* The panel *)

Tell(msgs) == toView' = toView \o msgs
Message(type, id, n, done) == [type |-> type, id |-> id, n |-> n, done |-> done]
StateMessage(r) == Message("state", 0, 0, ~Searching(r))

Without(r, ids) == [s \in DOMAIN r \ ids |-> r[s]]

\* performSearch: searches that were not kept are aborted.
PanelSearches(batches) ==
    /\ lastId < MaxSearches
    /\ lastId' = lastId + 1
    /\ LET kept == Without(running, {s \in DOMAIN running : ~running[s]})
       IN running' = [s \in DOMAIN kept \cup {lastId'} |-> s \in DOMAIN kept]
    /\ left' = [left EXCEPT ![lastId'] = batches]
    /\ Tell(<<Message("searching", lastId', 0, FALSE)>>)

\* cancelSearch, of one search or of all (0).
PanelCancels(id) ==
    /\ running' = Without(running, IF id = 0 THEN SearchIds ELSE {id})
    /\ IF Searching(running) /\ ~Searching(running')
       THEN Tell(<<StateMessage(running'), Message("cancelled", 0, 0, FALSE)>>)
       ELSE UNCHANGED toView
    /\ UNCHANGED <<left, lastId>>

\* handleMessage.  Nothing to search: an empty result without an id.
PanelReceives ==
    /\ toPanel # <<>> /\ Len(toView) + 2 <= MaxMail
    /\ toPanel' = Tail(toPanel)
    /\ LET m == Head(toPanel) IN
       \/ /\ m.type = "search"
          /\ \/ \E batches \in 0..MaxBatches : PanelSearches(batches)
             \/ Tell(<<Message("results", 0, 0, TRUE)>>) /\ UNCHANGED panel
       \/ m.type = "cancel" /\ PanelCancels(m.id)
       \/ /\ m.type = "keep"
          /\ running' = [s \in DOMAIN running |-> running[s] \/ s = m.id]
          /\ UNCHANGED <<left, lastId, toView>>
       \/ m.type = "ready" /\ Tell(<<StateMessage(running)>>) /\ UNCHANGED panel
    /\ UNCHANGED <<current, tabs, active, route, searchId, expanded, cancelShown, drawn, born>>

view == <<current, tabs, active, route, searchId, expanded, cancelShown, timer, rendered,
          screen, born>>

\* A task of the search is over; the last one posts `done'.
PanelPosts(s, n) ==
    /\ s \in DOMAIN running /\ left[s] > 0 /\ Len(toView) < MaxMail
    /\ left' = [left EXCEPT ![s] = @ - 1]
    /\ Tell(<<Message("batch", s, n, left[s] = 1)>>)
    /\ UNCHANGED <<running, lastId, toPanel, view>>

\* The finally of performSearch.  With batches left it was aborted: the limit
\* was reached, its activity was cancelled, or no server could be connected.
PanelFinishes(s) ==
    /\ s \in DOMAIN running /\ Len(toView) < MaxMail
    /\ running' = Without(running, {s})
    /\ IF Searching(running') THEN UNCHANGED toView ELSE Tell(<<StateMessage(running')>>)
    /\ UNCHANGED <<left, lastId, toPanel, view>>

\* An exception, or the single message of a search over legacy scopes.
PanelAnswers(s, n) ==
    /\ s \in DOMAIN running /\ Len(toView) < MaxMail
    /\ running' = Without(running, {s})
    /\ Tell(<<IF n = 0 THEN Message("error", s, 0, TRUE) ELSE Message("results", s, n, TRUE)>>)
    /\ UNCHANGED <<left, lastId, toPanel, view>>

-----------------------------------------------------------------------------
(* The webview receives *)

\* debouncedRenderResults: at once for the last batch, else in 100 ms.  The
\* fast path leaves the screen alone when the count, the scope and the limit
\* are those of the last full render.
Render(tab, done) ==
    IF tab.count = 0
    THEN /\ screen' = IF done THEN None ELSE screen
         /\ UNCHANGED rendered
    ELSE LET now == [count |-> tab.count, scoped |-> tab.scoped, set |-> TRUE]
         IN IF now = rendered THEN UNCHANGED <<screen, rendered>>
            ELSE screen' = Shown(tab) /\ rendered' = now

Debounced(tab, done) ==
    /\ timer' = ~done
    /\ IF done THEN Render(tab, TRUE) ELSE UNCHANGED <<screen, rendered>>

RenderTimer ==
    /\ timer /\ timer' = FALSE
    /\ Render(Active, FALSE)
    /\ UNCHANGED <<panel, toPanel, toView, current, tabs, active, route, searchId, expanded,
                   cancelShown, born>>

Quiet(ts) == [i \in DOMAIN ts |-> [ts[i] EXCEPT !.searching = FALSE]]

\* A batch is added to its tab.
Grown(tab, m) ==
    [tab EXCEPT !.count = @ + m.n,
                !.from = IF m.n > 0 THEN @ \cup {m.id} ELSE @,
                !.searching = @ /\ ~m.done]

\* The wrong form of the next operator: the new search adds to the old results.
OnSearchingAdds(m) ==
    /\ tabs' = Quiet(tabs)
    /\ route' = {} /\ searchId' = m.id
    /\ current' = [current EXCEPT !.search = m.id, !.searching = TRUE, !.scoped = TRUE,
                                  !.expanded = FALSE]
    /\ active' = 0 /\ expanded' = FALSE /\ cancelShown' = TRUE
    /\ rendered' = Never /\ screen' = Text("searching")
    /\ UNCHANGED timer

\* Kept tabs still searching are marked done and their routes forgotten.  The
\* aliases are reset before the tab on the screen saves them.
OnSearching(m) ==
    /\ tabs' = [i \in DOMAIN tabs |->
                  [tabs[i] EXCEPT !.searching = FALSE,
                                  !.expanded = @ /\ tabs[i].no # active]]
    /\ route' = {} /\ searchId' = m.id
    /\ current' = [current EXCEPT !.search = m.id, !.searching = TRUE, !.count = 0,
                                  !.from = {}, !.scoped = TRUE, !.expanded = FALSE]
    /\ active' = 0 /\ expanded' = FALSE /\ cancelShown' = TRUE
    /\ rendered' = Never /\ screen' = Text("searching")
    /\ UNCHANGED timer

Routed(m) == {no \in 1..MaxTabs : <<m.id, no>> \in route /\ TabNo(no) # 0}

\* To the kept tab its search is routed to; to Current if it is the latest one.
OnBatch(m) ==
    IF Routed(m) # {}
    THEN \E no \in Routed(m) :
         LET tab == Grown(tabs[TabNo(no)], m) IN
         /\ tabs' = [tabs EXCEPT ![TabNo(no)] = tab]
         /\ route' = IF m.done THEN route \ {<<m.id, no>>} ELSE route
         /\ IF active = no THEN Debounced(tab, m.done) ELSE UNCHANGED drawn
         /\ UNCHANGED <<current, active, searchId, expanded, cancelShown>>
    ELSE IF m.id # searchId
    THEN UNCHANGED <<view>>
    ELSE /\ current' = Grown(current, m)
         /\ IF active = 0 THEN Debounced(current', m.done) ELSE UNCHANGED drawn
         /\ cancelShown' = (cancelShown /\ ~m.done)
         /\ UNCHANGED <<tabs, active, route, searchId, expanded>>

Replaced(tab, m) ==
    [tab EXCEPT !.count = m.n, !.from = IF m.n > 0 THEN {m.id} ELSE {},
                !.searching = FALSE, !.scoped = m.id # 0]

\* `results': all at once, of a legacy search or of none.
OnResults(m) ==
    IF Routed(m) # {}
    THEN \E no \in Routed(m) :
         /\ tabs' = [tabs EXCEPT ![TabNo(no)] = Replaced(@, m)]
         /\ route' = route \ {<<m.id, no>>}
         /\ screen' = IF active = no THEN Shown(tabs'[TabNo(no)]) ELSE screen
         /\ cancelShown' = FALSE
         /\ UNCHANGED <<current, active, searchId, expanded, timer, rendered>>
    ELSE IF m.id \notin {0, searchId}
    THEN UNCHANGED <<view>>
    ELSE /\ current' = [Replaced(current, m) EXCEPT !.expanded = FALSE]
         /\ expanded' = FALSE /\ cancelShown' = FALSE
         /\ screen' = IF active = 0 THEN Shown(current') ELSE screen
         /\ UNCHANGED <<tabs, active, route, searchId, timer, rendered>>

\* `state': idle in m.done.
OnState(m) ==
    /\ cancelShown' = ~m.done
    /\ screen' = IF m.done /\ screen.what = "searching" THEN Text("blank") ELSE screen
    /\ UNCHANGED <<current, tabs, active, route, searchId, expanded, timer, rendered>>

OnCancelled ==
    /\ tabs' = Quiet(tabs) /\ route' = {}
    /\ current' = [current EXCEPT !.searching = FALSE]
    /\ screen' = IF active = 0 THEN Text("cancelled") ELSE screen
    /\ cancelShown' = FALSE
    /\ UNCHANGED <<active, searchId, expanded, timer, rendered>>

OnError ==
    /\ screen' = Text("error") /\ cancelShown' = FALSE
    /\ UNCHANGED <<current, tabs, active, route, searchId, expanded, timer, rendered>>

ViewReceives ==
    /\ toView # <<>>
    /\ toView' = Tail(toView)
    /\ LET m == Head(toView) IN
       \/ m.type = "searching" /\ OnSearching(m)
       \/ m.type = "batch" /\ OnBatch(m)
       \/ m.type = "results" /\ OnResults(m)
       \/ m.type = "state" /\ OnState(m)
       \/ m.type = "cancelled" /\ OnCancelled
       \/ m.type = "error" /\ OnError
    /\ UNCHANGED <<panel, toPanel, born>>

-----------------------------------------------------------------------------
(* The user *)

Post(type, id) ==
    /\ Len(toPanel) < MaxMail
    /\ toPanel' = Append(toPanel, [type |-> type, id |-> id])

\* performSearch of the webview, and the cancel button.
Ask ==
    /\ \/ lastId < MaxSearches /\ Post("search", 0)
       \/ cancelShown /\ Post("cancel", 0)
    /\ UNCHANGED <<panel, toView, view>>

\* saveCurrentInputState and restoreTabState, the part that is the tab's own.
Saved(tab) == [tab EXCEPT !.expanded = expanded]
Restore(tab) == expanded' = tab.expanded /\ cancelShown' = tab.searching

\* The pin button: Current becomes a kept tab, the eleventh drops the oldest.
Keep ==
    /\ active = 0 /\ screen.what = "results" /\ current.count > 0 /\ born < MaxTabs
    /\ LET all == Append(tabs, Saved(current))
           over == Len(all) > MaxKept
           kept == IF over THEN Tail(all) ELSE all
           live == current.searching /\ current.search # 0
       IN /\ tabs' = kept
          /\ route' = {r \in route : ~over \/ r[1] # Head(all).search}
                        \cup (IF live THEN {<<current.search, current.no>>} ELSE {})
          /\ IF live THEN Post("keep", current.search) ELSE UNCHANGED toPanel
    /\ current' = Fresh(born + 1) /\ born' = born + 1
    /\ Restore(current')
    /\ screen' = None
    /\ UNCHANGED <<panel, toView, active, searchId, timer, rendered>>

\* The close button of a kept tab; its running search is cancelled.
CloseTab(i) ==
    /\ i \in DOMAIN tabs
    /\ LET tab == tabs[i] IN
       /\ IF tab.searching /\ tab.search # 0
          THEN Post("cancel", tab.search) ELSE UNCHANGED toPanel
       /\ route' = {r \in route : r[1] # tab.search}
       /\ tabs' = RemoveAt(tabs, i)
       /\ IF active = tab.no
          THEN active' = 0 /\ Restore(current)
          ELSE UNCHANGED <<active, expanded, cancelShown>>
    /\ screen' = Shown(ActiveOf(current, tabs', active'))
    /\ UNCHANGED <<panel, toView, current, searchId, timer, rendered, born>>

\* Another tab is selected: save the outgoing, restore the incoming.
SelectTab(no) ==
    /\ no # active /\ (no = 0 \/ TabNo(no) # 0)
    /\ tabs' = [i \in DOMAIN tabs |-> IF tabs[i].no = active THEN Saved(tabs[i]) ELSE tabs[i]]
    /\ current' = IF active = 0 THEN Saved(current) ELSE current
    /\ active' = no
    /\ Restore(ActiveOf(current', tabs', no))
    /\ rendered' = Never
    /\ screen' = Shown(ActiveOf(current', tabs', no))
    /\ UNCHANGED <<panel, toPanel, toView, route, searchId, timer, born>>

\* The headers of files and folders, and the expand button.
Expand ==
    /\ screen.what = "results"
    /\ expanded' = ~expanded
    /\ UNCHANGED <<panel, toPanel, toView, current, tabs, active, route, searchId,
                   cancelShown, drawn, born>>

\* The panel is closed and shown again: its searches go on, the webview is new.
Reopen ==
    /\ toView' = <<>> /\ toPanel' = <<[type |-> "ready", id |-> 0]>>
    /\ born = 1 /\ searchId # 0
    /\ current' = Fresh(1) /\ tabs' = <<>> /\ active' = 0 /\ route' = {} /\ searchId' = 0
    /\ expanded' = FALSE /\ cancelShown' = FALSE /\ timer' = FALSE
    /\ rendered' = Never /\ screen' = Text("blank") /\ born' = 1
    /\ UNCHANGED panel

Next ==
    \/ PanelReceives \/ ViewReceives \/ RenderTimer
    \/ \E s \in SearchIds : PanelFinishes(s) \/ \E n \in {0, 1} : PanelPosts(s, n) \/ PanelAnswers(s, n)
    \/ Ask \/ Keep \/ Expand \/ Reopen
    \/ \E i \in 1..MaxKept : CloseTab(i)
    \/ \E no \in 0..MaxTabs : SelectTab(no)

Spec == Init /\ [][Next]_vars

-----------------------------------------------------------------------------
\* A tab shows the results of one search, and Current those of the latest one:
\* a late batch of an aborted or kept search is never mixed in.
NoMixedResults ==
    /\ current.from \subseteq {searchId}
    /\ \A i \in DOMAIN tabs : Cardinality(tabs[i].from) <= 1

\* The fast path never leaves results on the screen that are not those of the
\* active tab, nor an active tab's results off the screen.
ScreenIsTab ==
    ~timer => /\ screen.what = "results" => screen.count = Active.count
              /\ screen.what \in {"none", "searching"} => Active.count = 0

\* "Route future searchBatch for this searchId to the kept tab": while a kept
\* search runs and its tab is open, its batches find the tab.
KeptIsRouted ==
    \A s \in DOMAIN running : running[s] =>
        \A i \in DOMAIN tabs :
            tabs[i].search = s /\ left[s] > 0 => <<s, tabs[i].no>> \in route

\* Only the user changes what is expanded in a kept tab.
KeptKeepsView ==
    [][\A no \in 1..MaxTabs :
         LET at(ts) == SelectInSeq(ts, LAMBDA t : t.no = no) IN
         (at(tabs) # 0 /\ at(tabs') # 0 /\ no # active') =>
             (tabs'[at(tabs')].expanded =
                IF no = active THEN expanded ELSE tabs[at(tabs)].expanded)]_vars

=============================================================================
