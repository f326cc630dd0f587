------------------------------- MODULE FileSync -------------------------------
(***************************************************************************)
(* One remote file opened in the editor, as src/services/FileService.ts    *)
(* keeps it: saves are debounced and uploaded, uploads run unguarded by    *)
(* the file's lock, and the file is read back by the periodic refresh, the *)
(* refresh button and by opening it again.                                 *)
(*                                                                         *)
(* A content is a number: each edit in the editor and each write by others *)
(* on the server makes a new one.  A modification time is only compared    *)
(* for equality, as if every write changed it.  The defaults are assumed:  *)
(* autoUploadOnSave, no confirmUpload; smart refresh (tail) is left out.   *)
(***************************************************************************)
EXTENDS Naturals, FiniteSets

CONSTANT MaxContents  \* contents made after the opened one (bound)

ASSUME MaxContentsAssumption == MaxContents \in Nat

Contents == 0 .. MaxContents
None == MaxContents + 1

VARIABLES
    made,        \* the last content made
    doc,         \* the editor's document
    disk,        \* the temp file
    mapped,      \* the file is in fileMappings
    original,    \* its originalContent
    known,       \* its lastRemoteModTime is that of the file on the server
    pending,     \* pendingUploads: the content that waits for its debounce
    inFlight,    \* contents whose uploadFileWithAudit has not returned
    tracked,     \* pendingUploadPromises has the file
    orphaned,    \* uploads whose FileMapping object is no longer in fileMappings
    unapplied,   \* contents sent that the server may still write
    denied,      \* uploads that ask for the sudo password, or were given it
    uploading,   \* uploadingFiles has the file: the badge of an upload
    failed,      \* failedUploadFiles has the file
    remote,      \* the content on the server
    sync,        \* the holder of the file's lock, that reads the file
    external,    \* history: contents written by others
    saved,       \* history: the content saved last
    dropped,     \* history: a save was dropped before its upload began
    overlapped,  \* history: a save or an upload met an unfinished upload
    raced        \* history: a sync met a save or an unfinished upload

vars == <<made, doc, disk, mapped, original, known, pending, inFlight, tracked, orphaned,
          unapplied, denied, uploading, failed, remote, sync, external, saved, dropped, overlapped, raced>>
uploadVars == <<pending, inFlight, tracked, orphaned, unapplied, denied, uploading, failed>>
localVars == <<doc, disk, mapped, original>>

\* read: readFile awaits the server; got: its answer is on its way; ask: the
\* user is asked whether to lose the changes; revert: the command is awaited.
\* fresh: the file was not written since its stat.
NoSync == [kind |-> "none", stage |-> "stat", content |-> None, fresh |-> FALSE]

TypeOK ==
    /\ made \in Contents
    /\ doc \in [open : BOOLEAN, text : Contents, dirty : BOOLEAN]
    /\ disk \in Contents
    /\ original \in Contents
    /\ remote \in Contents
    /\ saved \in Contents
    /\ pending \in Contents \cup {None}
    /\ \A s \in {inFlight, orphaned, unapplied, denied, external} : s \subseteq Contents
    /\ \A b \in {mapped, known, tracked, uploading, failed, dropped, overlapped, raced} : b \in BOOLEAN
    /\ sync \in [kind : {"none", "auto", "manual", "open"},
                 stage : {"stat", "read", "got", "ask", "revert"},
                 content : Contents \cup {None}, fresh : BOOLEAN]

\* The file was just opened.
Init ==
    /\ made = 0
    /\ doc = [open |-> TRUE, text |-> 0, dirty |-> FALSE]
    /\ disk = 0 /\ original = 0 /\ remote = 0 /\ saved = 0
    /\ mapped = TRUE /\ known \in BOOLEAN
    /\ pending = None /\ inFlight = {} /\ tracked = FALSE
    /\ orphaned = {} /\ unapplied = {} /\ denied = {}
    /\ uploading = FALSE /\ failed = FALSE
    /\ sync = NoSync
    /\ external = {} /\ dropped = FALSE /\ overlapped = FALSE /\ raced = FALSE

Unfinished == inFlight \cup unapplied

------------------------------------------------------------------------------
(* The user *)

\* A keystroke, whatever else goes on.
Edit ==
    /\ doc.open
    /\ made < MaxContents
    /\ made' = made + 1
    /\ doc' = [doc EXCEPT !.text = made', !.dirty = TRUE]
    /\ UNCHANGED <<disk, mapped, original, known, remote, sync, uploadVars, external, saved>>

\* Mutant: the content of a save that waits already is uploaded.
SaveKeepsTimer ==
    /\ doc.open /\ doc.dirty
    /\ doc' = [doc EXCEPT !.dirty = FALSE]
    /\ disk' = doc.text
    /\ pending' = IF mapped /\ pending = None THEN doc.text ELSE pending
    /\ uploading' = (uploading \/ mapped)
    /\ failed' = (failed /\ ~mapped)
    /\ saved' = IF mapped THEN doc.text ELSE saved
    /\ UNCHANGED <<made, mapped, original, known, inFlight, tracked, orphaned, unapplied,
                   denied, remote, sync, external>>

\* handleFileSave: the debounce starts anew, with the content saved now.
Save ==
    /\ doc.open /\ doc.dirty
    /\ doc' = [doc EXCEPT !.dirty = FALSE]
    /\ disk' = doc.text
    /\ IF mapped
       THEN /\ pending' = doc.text
            /\ uploading' = TRUE
            /\ failed' = FALSE
            /\ saved' = doc.text
       ELSE UNCHANGED <<pending, uploading, failed, saved>>
    /\ UNCHANGED <<made, mapped, original, known, inFlight, tracked, orphaned, unapplied,
                   denied, remote, sync, external>>

------------------------------------------------------------------------------
(* Uploads *)

\* Mutant: the timer of a flushed upload fires too.
StartUploadTwice ==
    /\ pending' = None
    /\ inFlight' = inFlight \cup {pending}
    /\ unapplied' = unapplied \cup {pending}
    /\ tracked' = TRUE
    /\ UNCHANGED <<made, disk, mapped, original, known, orphaned, denied, uploading, failed,
                   remote, sync, external, saved>>

\* uploadFn: without a connection the upload fails at once.
StartUpload ==
    /\ pending # None
    /\ pending' = None
    /\ \/ /\ inFlight' = inFlight \cup {pending}
          /\ unapplied' = unapplied \cup {pending}
          /\ tracked' = TRUE
          /\ UNCHANGED <<uploading, failed>>
       \/ /\ uploading' = FALSE
          /\ failed' = TRUE
          /\ tracked' = FALSE
          /\ UNCHANGED <<inFlight, unapplied>>
    /\ UNCHANGED <<made, disk, mapped, original, known, orphaned, denied, remote, sync,
                   external, saved>>

DebounceFires == StartUpload /\ UNCHANGED doc

\* The tab of a saved document is closed; a pending upload is flushed.
Close ==
    /\ doc.open /\ ~doc.dirty
    /\ doc' = [doc EXCEPT !.open = FALSE]
    /\ IF mapped /\ pending # None
       THEN StartUpload
       ELSE UNCHANGED <<made, disk, mapped, original, known, uploadVars, remote, sync,
                        external, saved>>

\* A write reaches the file: no time of modification seen before is its own.
Written(v) ==
    /\ remote' = v
    /\ known' = FALSE
    /\ sync' = [sync EXCEPT !.fresh = FALSE]

ServerWrites(v) ==
    /\ v \in unapplied
    /\ unapplied' = unapplied \ {v}
    /\ Written(v)
    /\ UNCHANGED <<made, localVars, pending, inFlight, tracked, orphaned, denied, uploading,
                   failed, external, saved>>

\* The promise of the upload of v settles.
Settled(v) ==
    /\ v \in inFlight
    /\ inFlight' = inFlight \ {v}
    /\ tracked' = FALSE
    /\ denied' = denied \ {v}
    /\ orphaned' = orphaned \ {v}

UploadSucceeds(v) ==
    /\ Settled(v)
    /\ v \notin unapplied
    /\ original' = IF v \in orphaned THEN original ELSE v
    /\ uploading' = (uploading /\ v \in denied)
    /\ failed' = FALSE
    /\ UNCHANGED <<made, doc, disk, mapped, known, pending, unapplied, remote, sync,
                   external, saved>>

\* Mutant: the badge is left to the next upload.
UploadFailsBadged(v) ==
    /\ Settled(v)
    /\ failed' = TRUE
    /\ unapplied' \in {unapplied, unapplied \ {v}}
    /\ UNCHANGED <<made, localVars, known, pending, uploading, remote, sync, external, saved>>

\* An error, a lost connection or the 60 s of writeFile: the server may have
\* written the file, may yet write it, or never will.
UploadFails(v) ==
    /\ Settled(v)
    /\ uploading' = FALSE
    /\ failed' = TRUE
    /\ unapplied' \in {unapplied, unapplied \ {v}}
    /\ UNCHANGED <<made, localVars, known, pending, remote, sync, external, saved>>

\* Permission denied: the user is asked for the password, the badge is gone.
UploadDenied(v) ==
    /\ v \in (inFlight \cap unapplied) \ denied
    /\ denied' = denied \cup {v}
    /\ uploading' = FALSE
    /\ UNCHANGED <<made, localVars, known, pending, inFlight, tracked, orphaned, unapplied, failed,
                   remote, sync, external, saved>>

\* cleanupConnection, clearTempFilesForConnection, clearAllTempFiles and
\* cleanupOldTempFiles: the badge of the dropped upload stays.
Cleanup ==
    /\ mapped
    /\ mapped' = FALSE
    /\ pending' = None
    /\ UNCHANGED <<made, doc, disk, original, known, inFlight, tracked, orphaned, unapplied, denied,
                   uploading, failed, remote, sync, external, saved>>

\* Somebody else writes the file.
ExternalWrite ==
    /\ made < MaxContents
    /\ made' = made + 1
    /\ external' = external \cup {made'}
    /\ Written(made')
    /\ UNCHANGED <<localVars, uploadVars, saved>>

------------------------------------------------------------------------------
(* Reading the file back *)

\* refreshSingleFile up to its stat.
Refresh ==
    /\ mapped /\ sync = NoSync
    /\ ~(doc.open /\ doc.dirty)
    /\ pending = None /\ ~tracked /\ ~uploading
    /\ sync' = [NoSync EXCEPT !.kind = "auto"]
    /\ UNCHANGED <<made, localVars, known, uploadVars, remote, external, saved>>

\* The stat: the file is read unless nobody wrote it since the last sync.
StatReturns ==
    /\ sync.kind = "auto" /\ sync.stage = "stat"
    /\ sync' = IF known THEN NoSync ELSE [sync EXCEPT !.stage = "read", !.fresh = TRUE]
    /\ UNCHANGED <<made, localVars, known, uploadVars, remote, external, saved>>

\* refreshOpenFile
RefreshButton ==
    /\ mapped /\ sync = NoSync
    /\ sync' = [NoSync EXCEPT !.kind = "manual", !.stage = "read"]
    /\ UNCHANGED <<made, localVars, known, uploadVars, remote, external, saved>>

\* openRemoteFile, once flushPendingUpload finds no upload of the file: the old
\* mapping goes, uploads that flushPendingUpload cannot see keep it.
Reopen ==
    /\ ~doc.open /\ sync = NoSync
    /\ pending = None /\ ~tracked
    /\ sync' = [NoSync EXCEPT !.kind = "open", !.stage = "read", !.fresh = TRUE]
    /\ mapped' = FALSE
    /\ orphaned' = inFlight
    /\ UNCHANGED <<made, doc, disk, original, known, pending, inFlight, tracked, unapplied,
                   denied, uploading, failed, remote, external, saved>>

ServerReads ==
    /\ sync.stage = "read"
    /\ sync' = [sync EXCEPT !.stage = "got", !.content = remote]
    /\ UNCHANGED <<made, localVars, known, uploadVars, remote, external, saved>>

SyncFails ==
    /\ sync.kind # "none" /\ sync.stage \in {"stat", "read", "got"}
    /\ sync' = NoSync
    /\ UNCHANGED <<made, localVars, known, uploadVars, remote, external, saved>>

\* The content goes to the temp file, an open document is reverted to it.
WriteBack ==
    /\ disk' = sync.content
    /\ IF doc.open
       THEN sync' = [sync EXCEPT !.stage = "revert"] /\ UNCHANGED <<original, known>>
       ELSE /\ sync' = NoSync
            /\ original' = sync.content
            /\ known' = IF sync.kind = "auto" THEN sync.fresh ELSE known
    /\ UNCHANGED <<made, doc, mapped, uploadVars, remote, external, saved>>

\* refreshSingleFile with the answer.
RefreshApplies ==
    /\ sync.kind = "auto" /\ sync.stage = "got"
    /\ \/ /\ sync.content = original
          /\ known' = sync.fresh
          /\ sync' = NoSync
          /\ UNCHANGED <<made, localVars, uploadVars, remote, external, saved>>
       \/ /\ sync.content # original
          /\ doc.open /\ doc.dirty
          /\ sync' = NoSync
          /\ UNCHANGED <<made, localVars, known, uploadVars, remote, external, saved>>
       \/ /\ sync.content # original
          /\ ~(doc.open /\ doc.dirty)
          /\ WriteBack

\* refreshOpenFile with the answer: a dirty document is not overwritten unasked.
ButtonApplies ==
    /\ sync.kind = "manual" /\ sync.stage = "got"
    /\ IF doc.open /\ doc.dirty
       THEN /\ sync' = [sync EXCEPT !.stage = "ask"]
            /\ UNCHANGED <<made, localVars, known, uploadVars, remote, external, saved>>
       ELSE WriteBack

UserReloads == sync.stage = "ask" /\ WriteBack

UserKeeps ==
    /\ sync.stage = "ask"
    /\ sync' = NoSync
    /\ UNCHANGED <<made, localVars, known, uploadVars, remote, external, saved>>

\* Mutant: the time of modification is taken after the revert.
RevertedRestamped ==
    /\ sync.stage = "revert"
    /\ doc' = IF doc.open THEN [doc EXCEPT !.text = disk, !.dirty = FALSE] ELSE doc
    /\ original' = sync.content
    /\ known' = TRUE
    /\ sync' = NoSync
    /\ UNCHANGED <<made, disk, mapped, uploadVars, remote, external, saved>>

\* The revert loads what is on disk by now into the document.
Reverted ==
    /\ sync.stage = "revert"
    /\ doc' = IF doc.open THEN [doc EXCEPT !.text = disk, !.dirty = FALSE] ELSE doc
    /\ original' = sync.content
    /\ known' = IF sync.kind = "auto" THEN sync.fresh ELSE known
    /\ sync' = NoSync
    /\ UNCHANGED <<made, disk, mapped, uploadVars, remote, external, saved>>

\* openRemoteFile with the answer; the time of modification is the listing's.
Opened ==
    /\ sync.kind = "open" /\ sync.stage = "got"
    /\ doc' = [open |-> TRUE, text |-> sync.content, dirty |-> FALSE]
    /\ disk' = sync.content
    /\ mapped' = TRUE
    /\ original' = sync.content
    /\ known' \in {FALSE, sync.fresh}
    /\ sync' = NoSync
    /\ UNCHANGED <<made, uploadVars, remote, external, saved>>

------------------------------------------------------------------------------

UploadReturns(v) == UploadSucceeds(v) \/ UploadFails(v)

Step ==
    \/ Edit \/ Save \/ Close \/ Cleanup \/ ExternalWrite
    \/ DebounceFires
    \/ \E v \in Contents : ServerWrites(v) \/ UploadReturns(v) \/ UploadDenied(v)
    \/ Refresh \/ RefreshButton \/ Reopen
    \/ StatReturns \/ ServerReads \/ SyncFails
    \/ RefreshApplies \/ ButtonApplies \/ UserReloads \/ UserKeeps \/ Reverted \/ Opened

\* What the other history variables remember of a step.
Remember ==
    /\ dropped' = (dropped \/ (mapped /\ ~mapped' /\ pending # None))
    /\ overlapped' = (overlapped \/ Cardinality(Unfinished') > 1
                                 \/ (pending' # None /\ Unfinished' # {}))
    /\ raced' = (raced \/ (sync' # NoSync /\ (pending' # None \/ Unfinished' # {})))

Next == Step /\ Remember

Spec == Init /\ [][Next]_vars

\* Timers fire, promises settle.  Nothing is assumed of the server,
\* nor of the user who is asked for a password.
Fairness ==
    /\ WF_vars(DebounceFires /\ Remember)
    /\ \A v \in Contents : WF_vars(v \notin denied /\ UploadReturns(v) /\ Remember)

FairSpec == Spec /\ Fairness

------------------------------------------------------------------------------
(* Properties *)

Idle == pending = None /\ Unfinished = {}

\* While no save overlapped an unfinished upload and no cleanup dropped one, a
\* file that has nothing to upload and shows no failure has its last saved
\* content on the server, or one that somebody else wrote: a save is debounced,
\* flushed by closing, fails and is saved again without being lost or overtaken.
SavedIsOnServer ==
    (~overlapped /\ ~dropped /\ mapped /\ Idle /\ ~failed) =>
        remote \in {saved} \cup external

\* Under the same conditions the badge of an upload is shown exactly while one
\* waits or runs that does not ask for the password.
BadgeMatchesUpload ==
    (~overlapped /\ ~dropped /\ mapped) =>
        (uploading <=> (pending # None \/ inFlight \ denied # {}))

\* While no sync met a save or an upload, the fast path, which does not read a
\* file whose time of modification is known, leaves nothing unread: a saved
\* document shows what is on the server.
FastPathInSync ==
    (~overlapped /\ ~raced /\ mapped /\ Idle /\ ~failed /\ known /\ doc.open /\ ~doc.dirty) =>
        doc.text = remote

\* What is remembered about a file, its badge and its stamp, is true of it.
RememberedIsTrue == BadgeMatchesUpload /\ FastPathInSync

\* The badge of an upload goes, unless the upload was dropped.
BadgeEnds == uploading ~> (~uploading \/ dropped)

\* What the comment in refreshSingleFile says (FileService.ts:2484): no refresh
\* while the upload of the file is pending or in flight.
RefreshSparesUploads ==
    [][(sync = NoSync /\ sync'.kind = "auto") => (pending = None /\ inFlight \ denied = {})]_vars
==============================================================================
