------------------------------ MODULE TreeFilters ------------------------------
(***************************************************************************)
(* The filters of src/providers/FileTreeProvider.ts and what follows them: *)
(* the pattern with its search of the servers, the filename filters of     *)
(* single folders with the badges of FileDecorationProvider.ts, revealFile *)
(* with the commands of extension.ts, and the snapshots of                 *)
(* services/FilenameIndexService.ts.                                       *)
(***************************************************************************)
EXTENDS Integers, FiniteSets

CONSTANTS
    Servers,     \* connections that can be searched
    Folders,     \* folders filters are set on, and indexed
    Patterns,
    NoPattern,
    Searches,    \* searches of the servers in flight at once (bound)
    MaxFinds     \* filename searches in flight at once (bound)

FilterAssumption == NoPattern \notin Patterns /\ MaxFinds \in Nat

VARIABLES
    filterPattern,
    deepFilterResults,  \* pattern the results kept for a server were found with
    controller,         \* the search deepFilterAbortController belongs to, or NoPattern
    deep,               \* the searches of the servers
    isDeepFiltering,    \* "Searching..." is shown
    activeFilters,      \* pattern of each folder
    finds,              \* <<folder, pattern>> of the filename searches in flight
    badges,             \* folders FileDecorationProvider marks as filtered
    revealing,          \* where revealFile is
    indexing, snapshots \* folders being listed for an index, and those that have one

deepVars == <<filterPattern, deepFilterResults, controller, deep, isDeepFiltering>>
nameVars == <<activeFilters, finds, badges>>
vars     == <<filterPattern, deepFilterResults, controller, deep, isDeepFiltering,
              activeFilters, finds, badges, revealing, indexing, snapshots>>

Idle == [pattern |-> NoPattern, todo |-> {}, aborted |-> FALSE]

MaybePattern == Patterns \cup {NoPattern}

TypeOK ==
    /\ filterPattern \in MaybePattern
    /\ deepFilterResults \in [Servers -> MaybePattern]
    /\ controller \in Searches \cup {NoPattern}
    /\ deep \in [Searches -> [pattern : MaybePattern, todo : SUBSET Servers, aborted : BOOLEAN]]
    /\ isDeepFiltering \in BOOLEAN
    /\ activeFilters \in [Folders -> MaybePattern]
    /\ finds \subseteq Folders \X Patterns
    /\ badges \subseteq Folders
    /\ revealing \in {"no", "home", "first", "loading", "wait", "thrown"}
    /\ indexing \subseteq Folders /\ snapshots \subseteq Folders

Init ==
    /\ filterPattern = NoPattern /\ controller = NoPattern
    /\ deepFilterResults = [c \in Servers |-> NoPattern]
    /\ deep = [s \in Searches |-> Idle]
    /\ isDeepFiltering = FALSE
    /\ activeFilters = [f \in Folders |-> NoPattern]
    /\ finds = {} /\ badges = {}
    /\ revealing = "no"
    /\ indexing = {} /\ snapshots = {}

Running(s) == deep[s].pattern # NoPattern

------------------------------------------------------------------------------
(* The pattern and its search of the servers *)

Abort ==
    /\ deep' = IF controller = NoPattern THEN deep
               ELSE [deep EXCEPT ![controller].aborted = Running(controller)]
    /\ controller' = NoPattern

\* Mutant: the search is aborted and "Searching..." left to it.
SetFilterOnly(p) ==
    /\ Abort
    /\ filterPattern' = p
    /\ deepFilterResults' = [c \in Servers |-> NoPattern]
    /\ UNCHANGED <<isDeepFiltering, nameVars, revealing, indexing, snapshots>>

\* setFilter, and clearFilter with no pattern: the tree is drawn again from the
\* cache, and no server is asked.
SetFilter(p) ==
    /\ Abort
    /\ filterPattern' = p
    /\ deepFilterResults' = [c \in Servers |-> NoPattern]
    /\ isDeepFiltering' = FALSE
    /\ UNCHANGED <<nameVars, revealing, indexing, snapshots>>

\* searchServerForFilter, startDeepFilter: the controller of a search still
\* running is replaced, not aborted.
StartDeepFilter(s) ==
    /\ filterPattern # NoPattern
    /\ ~Running(s)
    /\ deep' = [deep EXCEPT ![s] = [pattern |-> filterPattern, todo |-> Servers, aborted |-> FALSE]]
    /\ controller' = s
    /\ isDeepFiltering' = TRUE
    /\ UNCHANGED <<filterPattern, deepFilterResults, nameVars, revealing, indexing, snapshots>>

\* The find of one server ends, with results, with none (or none that the cache
\* does not have) or with an error; the last of them ends the search.
DeepFilterAnswer(s, c) ==
    LET last == deep[s].todo = {c} IN
    /\ Running(s) /\ c \in deep[s].todo
    /\ \/ deepFilterResults' = [deepFilterResults EXCEPT ![c] = deep[s].pattern]
          /\ ~deep[s].aborted
       \/ UNCHANGED deepFilterResults
    /\ deep' = [deep EXCEPT ![s] = IF last THEN Idle
                                   ELSE [deep[s] EXCEPT !.todo = deep[s].todo \ {c}]]
    /\ isDeepFiltering' = (isDeepFiltering /\ ~(last /\ ~deep[s].aborted))
    /\ controller' = IF last /\ controller = s THEN NoPattern ELSE controller
    /\ UNCHANGED <<filterPattern, nameVars, revealing, indexing, snapshots>>

------------------------------------------------------------------------------
(* Filename filters of folders *)

Filtered == {f \in Folders : activeFilters[f] # NoPattern}

\* sshLite.filterFileNames, setFilenameFilter: a remote find, nothing recorded.
StartFind(f, p) ==
    /\ Cardinality(finds) < MaxFinds
    /\ finds' = finds \cup {<<f, p>>}
    /\ UNCHANGED <<deepVars, activeFilters, badges, revealing, indexing, snapshots>>

\* The find ends; rebuildFilterState runs either way.
FindEnds(f, p) ==
    /\ <<f, p>> \in finds
    /\ finds' = finds \ {<<f, p>>}
    /\ \/ activeFilters' = [activeFilters EXCEPT ![f] = p]
       \/ UNCHANGED activeFilters
    /\ badges' = {g \in Folders : activeFilters'[g] # NoPattern}
    /\ UNCHANGED <<deepVars, revealing, indexing, snapshots>>

\* sshLite.clearFilenameFilter, on one folder or on all.
ClearFilenameFilter(fs) ==
    /\ fs = Folders \/ (Cardinality(fs) = 1 /\ fs \subseteq Filtered)
    /\ activeFilters' = [f \in Folders |-> IF f \in fs THEN NoPattern ELSE activeFilters[f]]
    /\ badges' = badges \ fs
    /\ UNCHANGED <<deepVars, finds, revealing, indexing, snapshots>>

------------------------------------------------------------------------------
(* revealFile *)

\* Mutant: nobody tells the decorations that the filters are gone.
RevealQuietly ==
    /\ revealing \in {"no", "thrown"}
    /\ \/ activeFilters' = [f \in Folders |-> NoPattern] /\ Filtered # {}
       \/ UNCHANGED activeFilters
    /\ revealing' \in {"home", "first", "loading", "no"}
    /\ UNCHANGED <<deepVars, finds, badges, indexing, snapshots>>

\* Filters that would hide the file are cleared first, with the callback that
\* setOnFilterCleared registered.  Then the home directory is resolved if the
\* path needs it; a file already listed is revealed at once.
Reveal ==
    /\ revealing \in {"no", "thrown"}
    /\ \/ /\ Filtered # {}
          /\ activeFilters' = [f \in Folders |-> NoPattern] /\ badges' = {}
       \/ UNCHANGED <<activeFilters, badges>>
    /\ revealing' \in {"home", "first", "loading", "no"}
    /\ UNCHANGED <<deepVars, finds, indexing, snapshots>>

\* resolveHomePath answers or fails; the failure is ignored.
HomeResolved ==
    /\ revealing = "home"
    /\ revealing' \in {"first", "loading", "no"}
    /\ UNCHANGED <<deepVars, nameVars, indexing, snapshots>>

\* loadIntermediateDirs and loadAncestorDirs: a failure to list the directory
\* they start from is not caught, by revealFile or by the commands.
FirstDirectory ==
    /\ revealing = "first"
    /\ revealing' \in {"loading", "thrown"}
    /\ UNCHANGED <<deepVars, nameVars, indexing, snapshots>>

\* The directories below it are listed one by one, up to the first failure; the
\* paths to expand are set, the tree refreshed and the callback resolved.
DirectoriesLoaded ==
    /\ revealing = "loading"
    /\ revealing' = "wait"
    /\ UNCHANGED <<deepVars, nameVars, indexing, snapshots>>

\* waitUntilVisible: resolved just before, or after five seconds.
Revealed ==
    /\ revealing = "wait"
    /\ revealing' = "no"
    /\ UNCHANGED <<deepVars, nameVars, indexing, snapshots>>

------------------------------------------------------------------------------
(* FilenameIndexService *)

\* "Index folder for fast filename search": one listing.
BuildIndex(f) ==
    /\ f \notin indexing
    /\ indexing' = indexing \cup {f}
    /\ UNCHANGED <<deepVars, nameVars, revealing, snapshots>>

\* Stored whole, or refused (too large, aborted, failed): the file is written
\* and then named in the manifest.
IndexBuilt(f) ==
    /\ f \in indexing
    /\ indexing' = indexing \ {f}
    /\ \/ snapshots' = snapshots \cup {f}
       \/ UNCHANGED snapshots
    /\ UNCHANGED <<deepVars, nameVars, revealing>>

------------------------------------------------------------------------------
\* The pattern and the folder filters do not touch each other.
PatternNext ==
    \/ \E p \in MaybePattern : SetFilter(p)
    \/ \E s \in Searches : StartDeepFilter(s)
    \/ \E s \in Searches, c \in Servers : DeepFilterAnswer(s, c)

FolderNext ==
    \/ \E f \in Folders, p \in Patterns : StartFind(f, p) \/ FindEnds(f, p)
    \/ \E fs \in SUBSET Folders : ClearFilenameFilter(fs)
    \/ Reveal \/ HomeResolved \/ FirstDirectory \/ DirectoriesLoaded \/ Revealed
    \/ \E f \in Folders : BuildIndex(f) \/ IndexBuilt(f)

Next == PatternNext \/ FolderNext

Spec == Init /\ [][Next]_vars

------------------------------------------------------------------------------
(* Properties *)

\* "Searching..." is only shown for a search that will take it away.
SearchingIsReal ==
    isDeepFiltering => \E s \in Searches : Running(s) /\ ~deep[s].aborted

\* A folder has its badge exactly as long as it has its filter, whichever way
\* the filter came and went.
BadgesAreFilters == badges = Filtered

\* "Cancel any existing deep filter search": what is kept was found with the
\* pattern that is set.
ResultsMatchPattern ==
    \A c \in Servers : deepFilterResults[c] \in {NoPattern, filterPattern}
==============================================================================
