------------------------------- MODULE Downloads -------------------------------
(***************************************************************************)
(* Progressive downloads of large files: the open in FileService.ts        *)
(* (openFileWithProgressiveDownload with its event listeners), the manager *)
(* in ProgressiveDownloadManager.ts, and the previews, their cache and     *)
(* tail-follow in ProgressiveFileContentProvider.ts.                       *)
(*                                                                         *)
(* An open o is one call with the DownloadState it creates; `downloads'    *)
(* keeps the last state of each file, an older one lives on in the call    *)
(* that made it.  Files are those of one connection, with equal names in   *)
(* different folders, the case in which closing a tab may cancel the       *)
(* download of another file.  A file's content is the open that read it.   *)
(***************************************************************************)
EXTENDS Sequences, SequencesExt, FiniteSets

CONSTANTS
    Files,      \* remote files above progressiveDownloadThreshold
    Opens,      \* opens of a large file (bound)
    Nobody      \* no open

NobodyAssumption == Nobody \notin Opens

VARIABLES
    downloads,   \* the manager's map: file -> open whose state it holds
    order,       \* the map's keys in the order it iterates
    gate,        \* opens in the chain of downloadLock promises
    op,          \* the opens and their DownloadStates
    listening,   \* opens whose onDownloadComplete/onDownloadError listeners are subscribed
    leaving,     \* those of them that await startFileWatch before they unsubscribe
    follower,    \* files with a tail-follow interval
    cached,      \* the provider's previewCache: isDownloading of a file's entry
    polls,       \* files with a tail-follow read in flight
    asked,       \* files VS Code was told have a new preview
    preview,     \* files whose preview document is open
    editor,      \* files whose local copy is open in an editor
    disk,        \* content of the local copies
    mapping      \* content FileService.fileMappings remembers of a local copy

vars == <<downloads, order, gate, op, listening, leaving, follower, cached, polls,
          asked, preview, editor, disk, mapping>>

manager  == <<downloads, order, gate>>
events   == <<listening, leaving>>
provider == <<follower, cached, polls, asked>>
local    == <<editor, disk, mapping>>

\* locking: awaits the download lock.  showing: awaits openTextDocument and
\* showTextDocument of the preview.  reading: readFileChunked is in flight.
\* swapping: closing the preview before the local copy is opened.
PCs == {"idle", "locking", "showing", "reading", "swapping", "done"}

Statuses == {"none", "pending", "downloading", "completed", "error", "cancelled"}

\* stopped: the notification's own cancel button was pressed.
Open == [pc : PCs, file : Files, status : Statuses, stopped : BOOLEAN]

TypeOK ==
    /\ downloads \in [Files -> Opens \cup {Nobody}]
    /\ order \in Seq(Files)
    /\ gate \in Seq(Opens)
    /\ op \in [Opens -> Open]
    /\ listening \subseteq Opens /\ leaving \subseteq listening
    /\ cached \in [Files -> {"none", "downloading", "complete"}]
    /\ follower \subseteq Files /\ polls \subseteq Files /\ asked \subseteq Files
    /\ preview \subseteq Files /\ editor \subseteq Files
    /\ disk \in [Files -> Opens \cup {Nobody}]
    /\ mapping \in [Files -> Opens \cup {Nobody}]

Init ==
    /\ downloads = [f \in Files |-> Nobody]
    /\ order = <<>> /\ gate = <<>>
    /\ op \in [Opens -> [pc : {"idle"}, file : Files, status : {"none"}, stopped : {FALSE}]]
    /\ listening = {} /\ leaving = {} /\ follower = {} /\ polls = {} /\ asked = {}
    /\ preview = {} /\ editor = {}
    /\ cached = [f \in Files |-> "none"]
    /\ disk = [f \in Files |-> Nobody] /\ mapping = [f \in Files |-> Nobody]

------------------------------------------------------------------------------
IsActive(o) == op[o].status \in {"pending", "downloading"}

\* isDownloading, getLocalPath: what the map says of a file.
IsDownloading(f) == downloads[f] # Nobody /\ IsActive(downloads[f])

HasLocalPath(f) == downloads[f] # Nobody /\ op[downloads[f]].status = "completed"

\* The document of f changed: VS Code asks for its content if it shows it.
Fired(f) == asked' = IF f \in preview THEN asked \cup {f} ELSE asked

\* clearCache, stopTailFollow.
ClearPreview(f) ==
    /\ cached' = [cached EXCEPT ![f] = "none"]
    /\ follower' = follower \ {f}

\* Every listener of a file takes every event of it, whose ever download it is of.
ListenersOf(f) == {o \in listening : op[o].file = f}

ErrorEvent(f) ==
    /\ listening' = listening \ ListenersOf(f)
    /\ leaving' = leaving \ ListenersOf(f)

------------------------------------------------------------------------------
(* openFileWithProgressiveDownload, startProgressiveDownload *)

\* The local copy is there already: it is opened as it is.
OpenLocal(o) ==
    /\ op[o].pc = "idle"
    /\ ~IsDownloading(op[o].file) /\ HasLocalPath(op[o].file)
    /\ op' = [op EXCEPT ![o].pc = "done"]
    /\ editor' = editor \cup {op[o].file}
    /\ UNCHANGED <<manager, events, provider, preview, disk, mapping>>

\* Subscribe, then queue for the lock.
Begin(o) ==
    /\ op[o].pc = "idle"
    /\ ~IsDownloading(op[o].file) /\ ~HasLocalPath(op[o].file)
    /\ op' = [op EXCEPT ![o].pc = "locking"]
    /\ listening' = listening \cup {o}
    /\ gate' = Append(gate, o)
    /\ UNCHANGED <<downloads, order, leaving, provider, preview, local>>

\* Mutant: the check before the lock was asked for is taken as enough.
StartUnchecked(o) ==
    /\ op[o].pc = "locking" /\ Head(gate) = o
    /\ op' = [op EXCEPT ![o].pc = "showing", ![o].status = "pending"]
    /\ downloads' = [downloads EXCEPT ![op[o].file] = o]
    /\ order' = IF Contains(order, op[o].file) THEN order ELSE Append(order, op[o].file)
    /\ gate' = Tail(gate)
    /\ UNCHANGED <<events, provider, preview, local>>

\* The lock is ours: check and set without an await, then release.
StartDownload(o) ==
    /\ op[o].pc = "locking" /\ Head(gate) = o
    /\ ~IsDownloading(op[o].file)
    /\ op' = [op EXCEPT ![o].pc = "showing", ![o].status = "pending"]
    /\ downloads' = [downloads EXCEPT ![op[o].file] = o]
    /\ order' = IF Contains(order, op[o].file) THEN order ELSE Append(order, op[o].file)
    /\ gate' = Tail(gate)
    /\ UNCHANGED <<events, provider, preview, local>>

\* Mutant: the early return keeps the lock.
RefuseLocked(o) ==
    /\ op[o].pc = "locking" /\ Head(gate) = o
    /\ IsDownloading(op[o].file)
    /\ op' = [op EXCEPT ![o].pc = "done"]
    /\ UNCHANGED <<manager, events, provider, preview, local>>

\* "Already downloading": the listeners this open subscribed stay.
Refuse(o) ==
    /\ op[o].pc = "locking" /\ Head(gate) = o
    /\ IsDownloading(op[o].file)
    /\ op' = [op EXCEPT ![o].pc = "done"]
    /\ gate' = Tail(gate)
    /\ UNCHANGED <<downloads, order, events, provider, preview, local>>

\* provideTextDocumentContent for the first time, or again after a change: an
\* entry younger than a second is served, otherwise the last lines are fetched
\* and cached, as of a download that is running.
Provide(f) ==
    /\ f \in asked
    /\ asked' = asked \ {f}
    /\ \/ cached' = [cached EXCEPT ![f] = "downloading"]
       \/ UNCHANGED cached
    /\ UNCHANGED <<manager, op, events, follower, polls, preview, local>>

\* showPreview: the document opens, with an error text if the fetch failed.
PreviewOpens(o) ==
    /\ op[o].pc = "showing" /\ op[o].file \notin preview
    /\ preview' = preview \cup {op[o].file}
    /\ \/ cached' = [cached EXCEPT ![op[o].file] = "downloading"]
       \/ UNCHANGED cached
    /\ UNCHANGED <<manager, op, events, follower, polls, asked, local>>

\* showTextDocument returned: tail-follow, then the download with its
\* notification.  The preview may have been closed again by then.
PreviewShown(o) ==
    /\ op[o].pc = "showing"
    /\ follower' = follower \cup {op[o].file}
    /\ op' = [op EXCEPT ![o].pc = "reading", ![o].status = "downloading"]
    /\ UNCHANGED <<manager, events, cached, polls, asked, preview, local>>

\* Opening or showing the preview failed.
PreviewFails(o) ==
    /\ op[o].pc = "showing"
    /\ op' = [op EXCEPT ![o].pc = "done", ![o].status = "error"]
    /\ ErrorEvent(op[o].file)
    /\ UNCHANGED <<manager, provider, preview, local>>

------------------------------------------------------------------------------
(* downloadInBackground *)

\* A chunk arrived: the banner of the preview.
Progress(o) ==
    /\ op[o].pc = "reading" /\ ~op[o].stopped
    /\ cached[op[o].file] # "none"
    /\ Fired(op[o].file)
    /\ UNCHANGED <<manager, op, events, follower, cached, polls, preview, local>>

\* The cancel button of the notification.
StopButton(o) ==
    /\ op[o].pc = "reading" /\ ~op[o].stopped
    /\ op' = [op EXCEPT ![o].stopped = TRUE, ![o].status = "cancelled"]
    /\ UNCHANGED <<manager, events, provider, preview, local>>

\* The read of a stopped download ends, or fails at its next chunk: no event,
\* so the listeners of the open stay subscribed.
ReadStopped(o) ==
    /\ op[o].pc = "reading" /\ op[o].stopped
    /\ op' = [op EXCEPT ![o].pc = "done"]
    /\ UNCHANGED <<manager, events, provider, preview, local>>

ReadFails(o) ==
    /\ op[o].pc = "reading" /\ ~op[o].stopped
    /\ op' = [op EXCEPT ![o].pc = "done", ![o].status = "error"]
    /\ ErrorEvent(op[o].file)
    /\ UNCHANGED <<manager, provider, preview, local>>

\* The content is written, whatever cancelDownload made of the status meanwhile;
\* markDownloadComplete; every listener of the file maps it; transition to
\* the local copy if the preview is in a visible editor.
ReadDone(o) ==
    LET f == op[o].file IN
    /\ op[o].pc = "reading" /\ ~op[o].stopped
    /\ disk' = [disk EXCEPT ![f] = o]
    /\ mapping' = IF ListenersOf(f) = {} THEN mapping ELSE [mapping EXCEPT ![f] = o]
    /\ leaving' = leaving \cup ListenersOf(f)
    /\ \/ /\ f \in preview
          /\ op' = [op EXCEPT ![o].pc = "swapping", ![o].status = "completed"]
          /\ cached' = [cached EXCEPT ![f] = IF @ = "none" THEN @ ELSE "complete"]
          /\ follower' = follower \ {f}
       \/ /\ op' = [op EXCEPT ![o].pc = "done", ![o].status = "completed"]
          /\ ClearPreview(f)
    /\ IF cached[f] # "none" THEN Fired(f) ELSE UNCHANGED asked
    /\ UNCHANGED <<manager, listening, polls, preview, editor>>

\* startFileWatch returned.
Unsubscribe(o) ==
    /\ o \in leaving
    /\ listening' = listening \ {o} /\ leaving' = leaving \ {o}
    /\ UNCHANGED <<manager, op, provider, preview, local>>

------------------------------------------------------------------------------
(* Tail-follow, tabs *)

\* An interval's task reads the last lines for the entry there is.
TailPoll(f) ==
    /\ f \in follower /\ f \notin polls /\ cached[f] # "none"
    /\ polls' = polls \cup {f}
    /\ UNCHANGED <<manager, op, events, follower, cached, asked, preview, local>>

\* They are new and go into that entry, which may be out of the cache by now.
TailUpdate(f) ==
    /\ f \in polls
    /\ polls' = polls \ {f}
    /\ Fired(f)
    /\ UNCHANGED <<manager, op, events, follower, cached, preview, local>>

\* cancelDownloadByUri: the first active download in the map that matches.  The
\* preview and the local copies of all files match by their name.  The local
\* copy of a pending download is not known yet.
Matching(isPreview) ==
    SelectSeq(order, LAMBDA f : IsDownloading(f) /\
                  (isPreview \/ op[downloads[f]].status = "downloading"))

\* extension.ts, onDidCloseTextDocument: the download it cancels, if any.
Victim(isPreview) ==
    IF Matching(isPreview) = <<>> THEN {} ELSE {Head(Matching(isPreview))}

\* cancelDownload of the victim: its token has no reader, and a pending download
\* has none at all and goes on as it is.  calls: the opens as the closing itself
\* leaves them; cleared: previews it clears anyway.
OnClosed(calls, isPreview, cleared) ==
    LET victims == Victim(isPreview) IN
    /\ op' = [o \in Opens |->
                IF /\ \E f \in victims : downloads[f] = o
                   /\ calls[o].status = "downloading"
                THEN [calls[o] EXCEPT !.status = "cancelled"] ELSE calls[o]]
    /\ cached' = [f \in Files |-> IF f \in victims \cup cleared THEN "none" ELSE cached[f]]
    /\ follower' = follower \ (victims \cup cleared)

ClosePreview(f) ==
    /\ f \in preview
    /\ preview' = preview \ {f} /\ asked' = asked \ {f}
    /\ OnClosed(op, TRUE, {})
    /\ UNCHANGED <<manager, events, polls, local>>

CloseEditor(f) ==
    /\ f \in editor
    /\ editor' = editor \ {f}
    /\ OnClosed(op, FALSE, {})
    /\ UNCHANGED <<manager, events, polls, asked, preview, disk, mapping>>

\* transitionToEditableFile closed the preview's editor, with the event that
\* follows, dropped its cache, and opens the local copy.
Transition(o) ==
    LET f == op[o].file IN
    /\ op[o].pc = "swapping"
    /\ preview' = preview \ {f} /\ asked' = asked \ {f}
    /\ OnClosed([op EXCEPT ![o].pc = "done"], TRUE, {f})
    /\ editor' = editor \cup {f}
    /\ UNCHANGED <<manager, events, polls, disk, mapping>>

------------------------------------------------------------------------------
LockStep(o) == StartDownload(o) \/ Refuse(o)

\* Nobody awaits while it holds the lock: those in the chain run before any event.
OpenStep(o) ==
    /\ gate = <<>>
    /\ \/ PreviewShown(o) \/ PreviewFails(o)
       \/ ReadStopped(o) \/ ReadFails(o) \/ ReadDone(o) \/ Transition(o)

Event(o) ==
    /\ gate = <<>>
    /\ OpenLocal(o) \/ PreviewOpens(o) \/ Progress(o) \/ StopButton(o) \/ Unsubscribe(o)

FileEvent(f) ==
    /\ gate = <<>>
    /\ Provide(f) \/ TailPoll(f) \/ TailUpdate(f) \/ ClosePreview(f) \/ CloseEditor(f)

Next ==
    \/ \E o \in Opens : Begin(o) \/ LockStep(o) \/ OpenStep(o) \/ Event(o)
    \/ \E f \in Files : FileEvent(f)

Spec == Init /\ [][Next]_vars

\* Promises resolve, the editor answers and the server's read ends or fails.
Fairness == \A o \in Opens : WF_vars(LockStep(o)) /\ WF_vars(OpenStep(o))

FairSpec == Spec /\ Fairness

------------------------------------------------------------------------------
(* Properties *)

\* The lock makes check and set one step: two opens of a file never both read
\* it, but for one the user has given up.
OneReader ==
    \A o, p \in Opens :
        IsActive(o) /\ IsActive(p) /\ op[o].file = op[p].file => o = p

\* Every open ends, the one that finds the file downloading as well.
OpenEnds == \A o \in Opens : op[o].pc # "idle" ~> op[o].pc = "done"

\* A local copy the user can edit is one FileService uploads when it is saved.
EditableIsMapped == \A f \in editor : mapping[f] = disk[f]

\* extension.ts, "Cancel downloads when document/tab is closed".
CancelledStays ==
    [][\A o \in Opens : op[o].status = "cancelled" => op'[o].status # "completed"]_vars
==============================================================================
