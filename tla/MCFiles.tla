------------------------------ MODULE MCFiles ------------------------------
(***************************************************************************)
(* The modules about files and the tree, for one run: "component" chooses  *)
(* which of them runs, the variables of the others keep their initial      *)
(* values. The modules do not touch each other here; what they share in    *)
(* the code is modelled in each of them.                                   *)
(***************************************************************************)
EXTENDS Naturals

CONSTANTS
    None, Files, Opens, Ops, Originals, Alike, MaxVersions, MaxHistory, MaxBackups,
    AtOnce, Folders, Disks, Items, Trees, Jobs, MaxName, MaxSelect, MaxCommands,
    Dirs, Home, Requests, MaxState

VARIABLES
    component,   \* the one that runs
    downloads, order, gate, downOp, listening, leaving, follower, cached, polls, asked,
    preview, editor, downDisk, downMapping,
    doc, dirty, copyDisk, mapped, upload, downloading, lock, copyOp, ticker, copyRemote,
    content, versions, history, original, backups, firstBackup, tasks,
    overtaken,
    tree, moveMapping, clipboard, job, creating, stale, commands,
    linkUp, treeRemote, currentPath, expanded, directoryCache, activeLoads, reading,
    waiting, loadingItems, failedLoads, fired, shown, left

dVars == <<downloads, order, gate, downOp, listening, leaving, follower, cached,
          polls, asked, preview, editor, downDisk, downMapping>>
lVars == <<doc, dirty, copyDisk, mapped, upload, downloading, lock, copyOp,
          ticker, copyRemote>>
bVars == <<content, versions, history, original, backups, firstBackup, tasks,
          overtaken>>
mVars == <<tree, moveMapping, clipboard, job, creating, stale, commands>>
tVars == <<linkUp, treeRemote, currentPath, expanded, directoryCache,
          activeLoads, reading, waiting, loadingItems, failedLoads, fired,
          shown, left>>
vars  == <<component, dVars, lVars, bVars, mVars, tVars>>

D == INSTANCE Downloads WITH
         Nobody <- None, op <- downOp, disk <- downDisk, mapping <- downMapping
L == INSTANCE FileCopy WITH
         Nobody <- None, op <- copyOp, disk <- copyDisk, remote <- copyRemote
B == INSTANCE Backups WITH
         Files <- Originals, Gone <- None
M == INSTANCE RemoteMoves WITH
         Nothing <- None, mapping <- moveMapping
T == INSTANCE FileTree WITH
         remote <- treeRemote

First(set) == CHOOSE x \in set : TRUE

ASSUME ConstantsAssumption ==
    /\ D!NobodyAssumption
    /\ L!NobodyAssumption
    /\ B!BackupsAssumption
    /\ M!MovesAssumption
    /\ T!HomeAssumption

Components == {"downloads", "copy", "backups", "moves", "tree"}

\* Only the component that runs has more than one initial state.  The folders of
\* the moves are alike: a directory is in the first of them, a lone file too.
Init ==
    /\ component \in Components
    /\ D!Init /\ (component # "downloads" => \A o \in Opens : downOp[o].file = First(Files))
    /\ L!Init
    /\ B!Init
    /\ M!Init /\ tree[First(Folders)] # {}
    /\ \A l \in Folders : \A e \in tree[l] :
          /\ e.of \in Trees => l = First(Folders)
          /\ component # "moves" => e.of = First(Trees)
    /\ T!Init

Next ==
    \/ /\ component = "downloads" /\ D!Next
       /\ UNCHANGED <<component, lVars, bVars, mVars, tVars>>
    \/ /\ component = "copy" /\ L!Next
       /\ UNCHANGED <<component, dVars, bVars, mVars, tVars>>
    \/ /\ component = "backups" /\ B!Next
       /\ UNCHANGED <<component, dVars, lVars, mVars, tVars>>
    \/ /\ component = "moves" /\ M!Next
       /\ UNCHANGED <<component, dVars, lVars, bVars, tVars>>
    \/ /\ component = "tree" /\ T!Next
       /\ UNCHANGED <<component, dVars, lVars, bVars, mVars>>

Spec == Init /\ [][Next]_vars

------------------------------------------------------------------------------
(* Fairness of the components with a liveness property, as in their modules. *)
Fairness ==
    /\ \A o \in Opens : /\ WF_dVars(component = "downloads" /\ D!LockStep(o))
                        /\ WF_dVars(component = "downloads" /\ D!OpenStep(o))
    /\ \A d \in Dirs : /\ WF_tVars(component = "tree" /\ T!Render(d))
                       /\ WF_tVars(component = "tree" /\ T!Answer(d))

FairSpec == Spec /\ Fairness

------------------------------------------------------------------------------
(* Properties: those of the modules, which say what they are about. *)

\* Every module's variables have their types: the history keeps at most
\* MAX_BACKUPS_PER_FILE contents, every mapping and every load names a known file.
TypesOK ==
    /\ component = "downloads" => D!TypeOK
    /\ component = "copy" => L!TypeOK
    /\ component = "backups" => B!TypeOK
    /\ component = "moves" => M!TypeOK
    /\ component = "tree" => T!TypeOK

\* A large file that is opened is shown, refused or reported (ProgressiveDownloadManager).
OpenEnds == D!OpenEnds

\* A file's lock belongs to an operation that is inside it (acquireFileLock), and
\* a large file is downloaded by one reader at a time.
LocksHeld == L!NoStaleLock /\ D!OneReader

\* The content an upload replaces, as its editor had read it, is in the local history
\* (saveBackup), unless another operation changed the file while the upload ran.
UploadKeepsOld == B!UploadKeepsOld

\* No paste and no drop loses a file (pasteRemoteItem, handleFileDrop), unless the
\* listing it began with failed or another operation changed its folders.
NothingLost == M!NothingLost

\* The tree's spinners and shown listings are those of its loads and its cache.
TreeIsCache == T!SpinnerIsLoading /\ T!QuietTreeIsCache

\* A directory the user looks at stops loading (FileTreeProvider).
TreeSettles == component = "tree" => T!TreeSettles
==============================================================================
