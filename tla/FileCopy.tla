-------------------------------- MODULE FileCopy --------------------------------
(***************************************************************************)
(* The local copy of one remote file in FileService.ts: the per-file lock  *)
(* (acquireFileLock), the placeholder an open shows while it downloads,    *)
(* the mapping that makes saves upload, and everybody else who writes the  *)
(* copy: the poll's refresh, the refresh button, preloading, the           *)
(* background download of a large file, the cleanup of temporary files.    *)
(*                                                                         *)
(* The contents told apart are the text "// Loading ..." of a placeholder  *)
(* and the text of the file.  JavaScript runs the continuations a release  *)
(* wakes before any other event: `Settled' keeps that order.               *)
(***************************************************************************)
CONSTANTS
    Ops,       \* operations on the file at one time (bound)
    Nobody     \* no operation

NobodyAssumption == Nobody \notin Ops

VARIABLES
    doc,          \* the document in the editor: "closed" or the text it shows
    dirty,        \* it has unsaved edits
    disk,         \* the copy in the temporary directory: "absent" or its text
    mapped,       \* fileMappings has the copy
    upload,       \* pendingUploads / pendingUploadPromises of the copy
    downloading,  \* activeDownloads has the copy
    lock,         \* whose promise fileOperationLocks holds
    op,           \* the operations
    ticker,       \* operations whose progress interval runs
    remote        \* text of the file on the server

vars == <<doc, dirty, disk, mapped, upload, downloading, lock, op, ticker, remote>>

editor == <<doc, dirty>>

Texts == {"placeholder", "content"}
Kinds == {"open", "redo", "preload", "refresh", "reload", "background", "saveTo"}

\* flushing: awaits the pending upload.  waiting: awaits the lock of `on'.
\* inside: the lock is set, its holder resumes.  reading: readFile is in flight.
\* asking: the warning about unsaved changes is open.  watching: startFileWatch.
PCs == {"idle", "flushing", "waiting", "inside", "reading", "asking", "watching"}

Idle == [kind |-> "open", pc |-> "idle", on |-> Nobody]

TypeOK ==
    /\ doc \in Texts \cup {"closed"} /\ dirty \in BOOLEAN
    /\ disk \in Texts \cup {"absent"} /\ mapped \in BOOLEAN
    /\ upload \in {"none", "timer", "sending"}
    /\ downloading \in BOOLEAN
    /\ lock \in Ops \cup {Nobody}
    /\ op \in [Ops -> [kind : Kinds, pc : PCs, on : Ops \cup {Nobody}]]
    /\ ticker \subseteq Ops
    /\ remote \in Texts

Init ==
    /\ doc = "closed" /\ dirty = FALSE /\ disk = "absent" /\ mapped = FALSE
    /\ upload = "none" /\ downloading = FALSE /\ lock = Nobody
    /\ op = [o \in Ops |-> Idle] /\ ticker = {} /\ remote = "content"

At(o, kind, pc) == op[o].kind = kind /\ op[o].pc = pc
To(o, pc) == op' = [op EXCEPT ![o].pc = pc]
Locking(o) == op[o].kind \in {"open", "preload", "refresh", "reload"}
Inside(o) == Locking(o) /\ op[o].pc \in {"inside", "reading", "asking", "watching"}
Settled == \A o \in Ops : op[o].pc # "inside"

-----------------------------------------------------------------------------
(* The lock: a caller awaits the promise it finds, and then sets its own   *)
(* without looking again; a release deletes whatever entry is there.       *)

AcquireAs(o, kind) ==
    IF lock = Nobody
    THEN /\ lock' = o
         /\ op' = [op EXCEPT ![o] = [kind |-> kind, pc |-> "inside", on |-> Nobody]]
    ELSE /\ op' = [op EXCEPT ![o] = [kind |-> kind, pc |-> "waiting", on |-> lock]]
         /\ UNCHANGED lock

WaitersOf(o) == {w \in Ops : op[w].pc = "waiting" /\ op[w].on = o}

\* o is over; all that waited for it are inside, the last of them set the entry.
ReleaseLock(o) ==
    /\ op' = [w \in Ops |->
                IF w = o THEN Idle
                ELSE IF w \in WaitersOf(o) THEN [op[w] EXCEPT !.pc = "inside", !.on = Nobody]
                ELSE op[w]]
    /\ IF WaitersOf(o) = {} THEN lock' = Nobody ELSE lock' \in WaitersOf(o)

-----------------------------------------------------------------------------
(* openRemoteFile *)

\* The document is in the editor: show it, or repair what it lacks.
OpenAgain(o) ==
    /\ op[o].pc = "idle" /\ doc # "closed"
    /\ ~mapped /\ ~downloading
    /\ \/ /\ doc = "placeholder"       \* refreshFileContentWithProgress, without the lock
          /\ downloading' = TRUE
          /\ op' = [op EXCEPT ![o] = [kind |-> "redo", pc |-> "reading", on |-> Nobody]]
          /\ UNCHANGED mapped
       \/ /\ doc = "content"
          /\ mapped' = TRUE
          /\ UNCHANGED <<downloading, op>>
    /\ UNCHANGED <<editor, disk, upload, lock, ticker, remote>>

\* A closed document: an upload that is due is sent and awaited, then the lock.
OpenClosed(o) ==
    /\ op[o].pc = "idle" /\ doc = "closed"
    /\ IF upload = "none"
       THEN AcquireAs(o, "open") /\ UNCHANGED upload
       ELSE /\ upload' = "sending"
            /\ op' = [op EXCEPT ![o] = [kind |-> "open", pc |-> "flushing", on |-> Nobody]]
            /\ UNCHANGED lock
    /\ UNCHANGED <<editor, disk, mapped, downloading, ticker, remote>>

Flushed(o) ==
    /\ At(o, "open", "flushing") /\ upload # "sending"
    /\ AcquireAs(o, "open")
    /\ UNCHANGED <<editor, disk, mapped, upload, downloading, ticker, remote>>

\* Under the lock: shown by somebody else meanwhile, or a fresh placeholder.
OpenInside(o) ==
    /\ At(o, "open", "inside")
    /\ IF mapped /\ disk # "absent" /\ doc # "closed"
       THEN ReleaseLock(o) /\ UNCHANGED <<editor, disk, mapped, downloading>>
       ELSE /\ mapped' = (mapped /\ disk = "absent")
            /\ disk' = "placeholder"
            /\ doc' = IF doc = "closed" \/ ~dirty THEN "placeholder" ELSE doc
            /\ downloading' = TRUE
            /\ To(o, "reading")
            /\ UNCHANGED <<dirty, lock>>
    /\ UNCHANGED <<upload, ticker, remote>>

\* The content replaces the placeholder and is saved past the save listener.
OpenRead(o) ==
    /\ op[o].kind \in {"open", "redo"} /\ op[o].pc = "reading"
    /\ doc' = IF doc = "closed" THEN doc ELSE remote
    /\ dirty' = FALSE
    /\ disk' = remote
    /\ mapped' = TRUE
    /\ To(o, "watching")
    /\ UNCHANGED <<upload, downloading, lock, ticker, remote>>

Opened(o) ==
    /\ op[o].kind \in {"open", "redo"} /\ op[o].pc = "watching"
    /\ downloading' = FALSE
    /\ IF Locking(o) THEN ReleaseLock(o) ELSE To(o, "idle") /\ UNCHANGED lock
    /\ UNCHANGED <<editor, disk, mapped, upload, ticker, remote>>

\* The wrong form of the next operator: an error leaves the lock behind.
OpenFailsLocked(o) ==
    /\ At(o, "open", "reading")
    /\ downloading' = FALSE
    /\ disk' = "absent"
    /\ To(o, "idle")
    /\ UNCHANGED <<editor, mapped, upload, lock, ticker, remote>>

\* The tab is closed if its editor is visible, and the placeholder deleted.
OpenFails(o) ==
    /\ At(o, "open", "reading")
    /\ downloading' = FALSE
    /\ disk' = "absent"
    /\ \/ doc' = "closed" /\ dirty' = FALSE
       \/ UNCHANGED editor
    /\ ReleaseLock(o)
    /\ UNCHANGED <<mapped, upload, ticker, remote>>

RedoFails(o) ==
    /\ At(o, "redo", "reading")
    /\ downloading' = FALSE
    /\ To(o, "idle")
    /\ UNCHANGED <<editor, disk, mapped, upload, lock, ticker, remote>>

-----------------------------------------------------------------------------
(* Preloading, the poll's refresh, the refresh button *)

\* preloadFrequentFiles skips a copy that is cached or locked; preloadFile.
Preload(o) ==
    /\ op[o].pc = "idle" /\ ~(mapped /\ disk # "absent") /\ lock = Nobody
    /\ AcquireAs(o, "preload")
    /\ UNCHANGED <<editor, disk, mapped, upload, downloading, ticker, remote>>

\* refreshSingleFile: no copy and no document, no mapping; a locked copy waits
\* for the next cycle.
Refresh(o) ==
    /\ op[o].pc = "idle" /\ mapped
    /\ IF disk = "absent" /\ doc = "closed"
       THEN mapped' = FALSE /\ UNCHANGED <<lock, op>>
       ELSE lock = Nobody /\ AcquireAs(o, "refresh") /\ UNCHANGED mapped
    /\ UNCHANGED <<editor, disk, upload, downloading, ticker, remote>>

\* refreshOpenFile and reloadRemoteFile wait for the lock.
Reload(o) ==
    /\ op[o].pc = "idle" /\ mapped
    /\ AcquireAs(o, "reload")
    /\ UNCHANGED <<editor, disk, mapped, upload, downloading, ticker, remote>>

Enter(o) ==
    /\ op[o].kind \in {"preload", "refresh", "reload"} /\ op[o].pc = "inside"
    /\ IF op[o].kind = "preload" /\ mapped /\ disk # "absent"
       THEN ReleaseLock(o)
       ELSE To(o, "reading") /\ UNCHANGED lock
    /\ UNCHANGED <<editor, disk, mapped, upload, downloading, ticker, remote>>

PreloadRead(o) ==
    /\ At(o, "preload", "reading")
    /\ disk' = remote /\ mapped' = TRUE
    /\ ReleaseLock(o)
    /\ UNCHANGED <<editor, upload, downloading, ticker, remote>>

\* A dirty document is left alone; any other gets the server's text.
RefreshRead(o) ==
    /\ At(o, "refresh", "reading")
    /\ IF dirty THEN UNCHANGED <<doc, disk>>
       ELSE /\ disk' = remote
            /\ doc' = IF doc = "closed" THEN doc ELSE remote
    /\ ReleaseLock(o)
    /\ UNCHANGED <<dirty, mapped, upload, downloading, ticker, remote>>

ReloadRead(o) ==
    /\ At(o, "reload", "reading")
    /\ IF dirty
       THEN To(o, "asking") /\ UNCHANGED <<doc, disk, lock>>
       ELSE /\ disk' = remote
            /\ doc' = IF doc = "closed" THEN doc ELSE remote
            /\ ReleaseLock(o)
    /\ UNCHANGED <<dirty, mapped, upload, downloading, ticker, remote>>

\* `Reload (lose changes)', or cancelled.
Answer(o, lose) ==
    /\ At(o, "reload", "asking")
    /\ IF lose
       THEN /\ disk' = remote /\ dirty' = FALSE
            /\ doc' = IF doc = "closed" THEN doc ELSE remote
       ELSE UNCHANGED <<editor, disk>>
    /\ ReleaseLock(o)
    /\ UNCHANGED <<mapped, upload, downloading, ticker, remote>>

\* stat or readFile failed, or the file did not change since the last sync.
NothingRead(o) ==
    /\ op[o].kind \in {"preload", "refresh", "reload"} /\ op[o].pc = "reading"
    /\ ReleaseLock(o)
    /\ UNCHANGED <<editor, disk, mapped, upload, downloading, ticker, remote>>

-----------------------------------------------------------------------------
(* downloadLargeFileBackground and downloadFileTo, outside the lock *)

Download(o, kind) ==
    /\ op[o].pc = "idle" /\ kind \in {"background", "saveTo"}
    /\ op' = [op EXCEPT ![o] = [kind |-> kind, pc |-> "reading", on |-> Nobody]]
    /\ ticker' = ticker \cup {o}
    /\ UNCHANGED <<editor, disk, mapped, upload, downloading, lock, remote>>

\* The interval is cleared; a background download opens the copy unless it
\* was cancelled, the other one writes where the user chose.
Downloaded(o, cancelled) ==
    /\ op[o].kind \in {"background", "saveTo"} /\ op[o].pc = "reading"
    /\ ticker' = ticker \ {o}
    /\ IF op[o].kind = "saveTo" \/ cancelled
       THEN UNCHANGED <<doc, disk, mapped>>
       ELSE /\ disk' = remote /\ mapped' = TRUE
            /\ doc' = IF dirty THEN doc ELSE remote
    /\ To(o, "idle")
    /\ UNCHANGED <<dirty, upload, downloading, lock, remote>>

\* readFile throws past clearInterval.
DownloadFails(o) ==
    /\ op[o].kind \in {"background", "saveTo"} /\ op[o].pc = "reading"
    /\ To(o, "idle")
    /\ UNCHANGED <<editor, disk, mapped, upload, downloading, lock, ticker, remote>>

-----------------------------------------------------------------------------
(* The user, VS Code, and the cleanup *)

Edit ==
    /\ doc # "closed" /\ ~dirty
    /\ dirty' = TRUE
    /\ UNCHANGED <<doc, disk, mapped, upload, downloading, lock, op, ticker, remote>>

\* onFileSaved: only a mapped copy is queued for upload.
Save ==
    /\ doc # "closed" /\ dirty
    /\ dirty' = FALSE /\ disk' = doc
    /\ upload' = IF mapped /\ upload = "none" THEN "timer" ELSE upload
    /\ UNCHANGED <<doc, mapped, downloading, lock, op, ticker, remote>>

\* A clean document follows its file.
EditorReloads ==
    /\ doc # "closed" /\ ~dirty /\ disk \notin {"absent", doc}
    /\ doc' = disk
    /\ UNCHANGED <<dirty, disk, mapped, upload, downloading, lock, op, ticker, remote>>

\* Closing flushes the upload of a mapped copy.
Close ==
    /\ doc # "closed"
    /\ doc' = "closed" /\ dirty' = FALSE
    /\ upload' = IF mapped /\ upload = "timer" THEN "sending" ELSE upload
    /\ UNCHANGED <<disk, mapped, downloading, lock, op, ticker, remote>>

Debounced ==
    /\ upload = "timer"
    /\ upload' = "sending"
    /\ UNCHANGED <<editor, disk, mapped, downloading, lock, op, ticker, remote>>

\* The copy as it is on disk reaches the server, or the upload fails.
Uploaded ==
    /\ upload = "sending"
    /\ upload' = "none"
    /\ \/ remote' = IF disk = "absent" THEN remote ELSE disk
       \/ UNCHANGED remote
    /\ UNCHANGED <<editor, disk, mapped, downloading, lock, op, ticker>>

\* cleanupOldTempFiles, clearTempFilesForConnection, clearAllTempFiles,
\* cleanupConnection: an open document does not hold any of them back.
Cleanup ==
    /\ mapped
    /\ mapped' = FALSE /\ disk' = "absent"
    /\ upload' = IF upload = "timer" THEN "none" ELSE upload
    /\ UNCHANGED <<editor, downloading, lock, op, ticker, remote>>

\* cleanupOrphansRecursive, and the orphans of clearAllTempFiles.
CleanupOrphan ==
    /\ ~mapped /\ disk # "absent"
    /\ disk' = "absent"
    /\ UNCHANGED <<editor, mapped, upload, downloading, lock, op, ticker, remote>>

\* A new extension host: VS Code restores the document, all else is gone.
Restart ==
    /\ doc # "closed"
    /\ mapped' = FALSE /\ upload' = "none" /\ downloading' = FALSE
    /\ lock' = Nobody /\ op' = [o \in Ops |-> Idle] /\ ticker' = {}
    /\ UNCHANGED <<editor, disk, remote>>

\* sshLite.reconnectOrphanedFile: the saved metadata names the remote path and
\* registerExistingFile maps the document as it is.
ReconnectOrphan ==
    /\ doc # "closed" /\ ~mapped
    /\ mapped' = TRUE
    /\ UNCHANGED <<editor, disk, upload, downloading, lock, op, ticker, remote>>

User == Edit \/ Save \/ EditorReloads \/ Close \/ Debounced \/ Uploaded

Copies ==
    \E o \in Ops :
        \/ OpenAgain(o) \/ OpenClosed(o) \/ Flushed(o) \/ OpenRead(o) \/ Opened(o)
        \/ OpenFails(o) \/ RedoFails(o)
        \/ Preload(o) \/ Refresh(o) \/ Reload(o)
        \/ PreloadRead(o) \/ RefreshRead(o) \/ ReloadRead(o) \/ NothingRead(o)
        \/ \E lose \in BOOLEAN : Answer(o, lose)
        \/ \E kind \in Kinds : Download(o, kind)
        \/ \E cancelled \in BOOLEAN : Downloaded(o, cancelled)
        \/ DownloadFails(o)

Next ==
    \/ \E o \in Ops : OpenInside(o) \/ Enter(o)
    \/ /\ Settled
       /\ Copies \/ User \/ Cleanup \/ CleanupOrphan \/ Restart \/ ReconnectOrphan

Spec == Init /\ [][Next]_vars

-----------------------------------------------------------------------------
\* The lock's entry and every wait belong to an operation that is inside, so
\* each of them ends with it: no error path leaves the file locked for good.
NoStaleLock ==
    /\ lock # Nobody => Inside(lock)
    /\ \A o \in Ops : op[o].pc = "waiting" => Inside(op[o].on)

\* "Acquire a lock for file operations to prevent concurrent access": one
\* operation is under the lock at a time.
MutualExclusion == \A o, p \in Ops : Inside(o) /\ Inside(p) => o = p

\* The text of a placeholder never reaches the server.
NoPlaceholderUpload == remote = "content"

\* The extension never forgets the mapping of a document that is open, whose
\* next save would then be uploaded nowhere.
OpenStaysMapped ==
    [][(doc # "closed" /\ mapped /\ ~mapped') => Restart]_vars

\* A progress interval runs only while its download does.
TickerRuns == \A o \in ticker : op[o].pc = "reading"

=============================================================================
