----------------------------- MODULE MCSession -----------------------------
(***************************************************************************)
(* The modules about a session and its views, for one run: "component"     *)
(* chooses which of them runs, the variables of the others keep their      *)
(* initial values. The modules do not touch each other here; what they     *)
(* share in the code is modelled in each of them. The filters and the      *)
(* search scopes run in two parts, each with its own half of the actions.  *)
(***************************************************************************)
EXTENDS Naturals

CONSTANTS
    Nothing, Links, InFlight, Ports, al, alice, MaxTerm, Ops, Creds, Tasks, Hosts,
    MaxFiles, Calls, Typed, Right, Servers, Folders, Patterns, Searches, MaxFinds,
    MaxLinks, MaxStarts, MaxSearches, MaxBatches, MaxTabs, MaxMail, MaxKept, Scopes,
    Names, MaxDepth, MaxPaths, MaxClicks

VARIABLES
    component,   \* the one that runs
    forwardLink, forwardEntry, servers, busy, rules, tree, crossed,
    linked, count, openingShells, shell, pty,
    kind, run, listed, status, timers, pressed,
    index, updates, secret, session, minted, task,
    saved, sshConfig, entered, tokens, revoked, files, cmd,
    sudoMode, sudoCache, call, client, stderr, stdin, server, written,
    filterPattern, deepFilterResults, controller, deep, isDeepFiltering, activeFilters,
    finds, badges, revealing, indexing, snapshots,
    up, linkNo, focus, visible, mapped, opening, watched, activity, stray, starting,
    native, poll, paused, gated, beat, probing, streams, watchEntry, subscribed,
    running, left, lastId, toPanel, toView, current, tabs, active, route, searchId,
    expandedFiles, cancelShown, timer, rendered, screen, born,
    entry, redundant, link, inUse, shownPaths, clicks, findFiles, search

pVars == <<forwardLink, forwardEntry, servers, busy, rules, tree, crossed>>
eVars == <<linked, count, openingShells, shell, pty>>
aVars == <<kind, run, listed, status, timers, pressed>>
cVars == <<index, updates, secret, session, minted, task>>
hVars == <<saved, sshConfig, entered, tokens, revoked, files, cmd>>
uVars == <<sudoMode, sudoCache, call, client, stderr, stdin, server, written>>
fVars == <<filterPattern, deepFilterResults, controller, deep, isDeepFiltering,
          activeFilters, finds, badges, revealing, indexing, snapshots>>
wVars == <<up, linkNo, focus, visible, mapped, opening, watched, activity, stray,
          starting, native, poll, paused, gated, beat, probing, streams,
          watchEntry, subscribed>>
vVars == <<running, left, lastId, toPanel, toView, current, tabs, active, route,
          searchId, expandedFiles, cancelShown, timer, rendered, screen, born>>
rVars == <<entry, redundant, link, inUse, shownPaths, clicks, findFiles, search>>
vars  == <<component, pVars, eVars, aVars, cVars, hVars, uVars, fVars, wVars, vVars, rVars>>

P == INSTANCE PortForwards WITH
         NoLink <- Nothing, link <- forwardLink, entry <- forwardEntry
E == INSTANCE Terminals WITH
         Ids <- {al, alice}, Shares <- {<<al, al>>, <<al, alice>>, <<alice, alice>>},
         opening <- openingShells
A == INSTANCE Activities
C == INSTANCE Credentials WITH
         NoCred <- Nothing
H == INSTANCE HostSync
U == INSTANCE SudoExec WITH
         NoPassword <- Nothing, Passwords <- Typed
F == INSTANCE TreeFilters WITH
         NoPattern <- Nothing
W == INSTANCE FileWatch WITH
         Files <- Folders, NoFile <- Nothing, entry <- watchEntry
V == INSTANCE SearchView WITH
         expanded <- expandedFiles
R == INSTANCE SearchScopes WITH
         Servers <- Scopes, shown <- shownPaths

ASSUME ConstantsAssumption ==
    /\ P!LinkAssumption
    /\ E!TerminalAssumption
    /\ C!NoCredAssumption
    /\ H!MaxFilesAssumption
    /\ U!SudoAssumption
    /\ F!FilterAssumption
    /\ W!WatchAssumption
    /\ V!ConstantsAssumption
    /\ R!ConstantsAssumption

Components == {"forwards", "terminals", "activities", "credentials", "hosts",
               "sudo", "patterns", "folders", "watch", "view", "scopes",
               "searches"}

\* Only the component that runs has more than one initial state.
Init ==
    /\ component \in Components
    /\ P!Init /\ (component # "forwards" => rules = {})
    /\ E!Init
    /\ A!Init /\ (component # "activities" => kind = [o \in Ops |-> "guarded"])
    /\ C!Init
    /\ H!Init /\ (component # "hosts" => sshConfig = {})
    /\ U!Init
    /\ F!Init
    /\ W!Init
    /\ V!Init
    /\ R!Init

Next ==
    \/ /\ component = "forwards" /\ P!Next
       /\ UNCHANGED <<component, eVars, aVars, cVars, hVars, uVars, fVars, wVars, vVars, rVars>>
    \/ /\ component = "terminals" /\ E!Next
       /\ UNCHANGED <<component, pVars, aVars, cVars, hVars, uVars, fVars, wVars, vVars, rVars>>
    \/ /\ component = "activities" /\ A!Next
       /\ UNCHANGED <<component, pVars, eVars, cVars, hVars, uVars, fVars, wVars, vVars, rVars>>
    \/ /\ component = "credentials" /\ C!Next
       /\ UNCHANGED <<component, pVars, eVars, aVars, hVars, uVars, fVars, wVars, vVars, rVars>>
    \/ /\ component = "hosts" /\ H!Next
       /\ UNCHANGED <<component, pVars, eVars, aVars, cVars, uVars, fVars, wVars, vVars, rVars>>
    \/ /\ component = "sudo" /\ U!Next
       /\ UNCHANGED <<component, pVars, eVars, aVars, cVars, hVars, fVars, wVars, vVars, rVars>>
    \/ /\ component = "patterns" /\ F!PatternNext
       /\ UNCHANGED <<component, pVars, eVars, aVars, cVars, hVars, uVars, wVars, vVars, rVars>>
    \/ /\ component = "folders" /\ F!FolderNext
       /\ UNCHANGED <<component, pVars, eVars, aVars, cVars, hVars, uVars, wVars, vVars, rVars>>
    \/ /\ component = "watch" /\ W!Next
       /\ UNCHANGED <<component, pVars, eVars, aVars, cVars, hVars, uVars, fVars, vVars, rVars>>
    \/ /\ component = "view" /\ V!Next
       /\ UNCHANGED <<component, pVars, eVars, aVars, cVars, hVars, uVars, fVars, wVars, rVars>>
    \/ /\ component = "scopes" /\ R!ListNext
       /\ UNCHANGED <<component, pVars, eVars, aVars, cVars, hVars, uVars, fVars, wVars, vVars>>
    \/ /\ component = "searches" /\ R!SearchNext
       /\ UNCHANGED <<component, pVars, eVars, aVars, cVars, hVars, uVars, fVars, wVars, vVars>>

Spec == Init /\ [][Next]_vars

------------------------------------------------------------------------------
(* Properties: those of the modules, which say what they are about. *)

\* Every module's variables have their types: no stream is closed that was never
\* opened, at most MAX_KEPT_TABS tabs are kept, every path of a server is a path.
TypesOK ==
    /\ component = "forwards" => P!TypeOK
    /\ component = "terminals" => E!TypeOK
    /\ component = "activities" => A!TypeOK
    /\ component = "credentials" => C!TypeOK
    /\ component = "hosts" => H!TypeOK
    /\ component = "sudo" => U!TypeOK
    /\ component \in {"patterns", "folders"} => F!TypeOK
    /\ component = "watch" => W!TypeOK
    /\ component = "view" => V!TypeOK
    /\ component \in {"scopes", "searches"} => R!TypeOK

\* A forward listens on a connection that is up, and the tree shows exactly the
\* forwards of one that no other connection of its id has crossed
\* (PortForwardService).
ForwardsTrue == P!ServersAreLive /\ P!TreeIsTrue

\* A terminal the editor has opened, and whose end it heard of, has its shell, and
\* every open shell a listed terminal and a connected id (TerminalService).
TerminalsAreLive == E!TerminalsAreLive

\* A running activity stands for a guarded call or a search under way, or for a
\* monitor nobody stopped; the one whose id is kept, for a file that is watched with
\* a heartbeat (ActivityService, FileService).
ActivitiesAreReal == A!RunningIsReal /\ W!WatchIsAccounted

\* No synchronisation or import takes away a host the user entered
\* (GoogleDriveSyncService, ConnectionPortabilityService).
HostsKept == H!HostsKept

\* The sudo password is only sent to sudo, never into a file (SSHConnection).
PasswordStaysOut == U!PasswordStaysOut

\* "Searching..." stands for a search that will end it, a badge for a filter
\* (FileTreeProvider, FileDecorationProvider).
FiltersTrue == F!SearchingIsReal /\ F!BadgesAreFilters

\* No tab holds the results of two searches (the search webview).
NoMixedResults == V!NoMixedResults

\* Every path of a server's scope is searched by itself or by a path above it, and
\* a server shown as connected is (SearchPanel).
ScopesTrue == R!PathsCovered /\ R!ConnectedIsTrue
==============================================================================
