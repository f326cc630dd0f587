-------------------------------- MODULE Backups --------------------------------
(***************************************************************************)
(* Backups and what they are for: the local history, the backups in the    *)
(* server's /tmp, deletion, revert and restore, in                         *)
(* src/services/FileService.ts and the commands of src/extension.ts.       *)
(* A content is named by the file it was written to and a number.          *)
(***************************************************************************)
EXTENDS Naturals, Sequences, SequencesExt, FiniteSets

CONSTANTS
    Files,        \* remote files, or folders with a tar.gz for a backup
    Alike,        \* the files with one base name, as a partition of Files
    Gone,         \* no content: the file does not exist
    MaxVersions,  \* contents written to a file (bound)
    MaxHistory,   \* MAX_BACKUPS_PER_FILE (bound)
    MaxBackups,   \* backups on the server (bound)
    AtOnce        \* operations under way at once (bound)

BackupsAssumption ==
    /\ UNION Alike = Files
    /\ MaxVersions \in Nat /\ MaxHistory \in Nat \ {0} /\ MaxBackups \in Nat /\ AtOnce \in Nat

VARIABLES
    content,     \* on the server
    versions,    \* contents written so far
    history,     \* backupHistory, newest first
    original,    \* originalContent of the mapping of an open file; Gone when closed
    backups,     \* the server's backup folder, oldest first
    firstBackup, \* serverBackupPath of the mapping: a backup, or none
    tasks,       \* operations under way
    overtaken    \* uploads during which another operation changed the file (history)

vars == <<content, versions, history, original, backups, firstBackup, tasks, overtaken>>

server == <<content, versions>>
client == <<history, original, firstBackup>>

Contents == Files \X (0 .. MaxVersions)
NoBackup == [of |-> Gone, holds |-> Gone]
Tasks    == [do : {"firstBackup", "upload", "revert", "backup", "delete", "restore"},
             then : {"none", "delete", "restore"}, of : Files, what : Contents \cup {Gone}]

TypeOK ==
    /\ content \in [Files -> Contents \cup {Gone}]
    /\ versions \in [Files -> 0 .. MaxVersions]
    /\ \A f \in Files : history[f] \in Seq(Contents) /\ Len(history[f]) <= MaxHistory
    /\ original \in [Files -> Contents \cup {Gone}]
    /\ \A b \in Range(backups) : b.of \in Files /\ b.holds \in Contents
    /\ tasks \subseteq Tasks /\ overtaken \subseteq tasks

Init ==
    /\ content = [f \in Files |-> <<f, 0>>] /\ versions = [f \in Files |-> 0]
    /\ history = [f \in Files |-> <<>>]
    /\ original = [f \in Files |-> Gone] /\ firstBackup = [f \in Files |-> NoBackup]
    /\ backups = <<>> /\ tasks = {} /\ overtaken = {}

Task(do, then, f, what) == [do |-> do, then |-> then, of |-> f, what |-> what]

\* Two operations under way are not the same one (bound).
Begin(task) == Cardinality(tasks) < AtOnce /\ task \notin tasks /\ tasks' = tasks \cup {task}
End(task) == task \in tasks /\ tasks' = tasks \ {task}

------------------------------------------------------------------------------
(* Opening, saving, reverting *)

\* The server-side backup of the content opened is made in the background.
Open(f) ==
    /\ content[f] # Gone /\ original[f] = Gone
    /\ original' = [original EXCEPT ![f] = content[f]]
    /\ firstBackup' = [firstBackup EXCEPT ![f] = NoBackup]
    /\ Begin(Task("firstBackup", "none", f, Gone))
    /\ UNCHANGED <<server, history, backups>>

Close(f) ==
    /\ original[f] # Gone /\ original' = [original EXCEPT ![f] = Gone]
    /\ UNCHANGED <<server, history, firstBackup, backups, tasks>>

\* createServerBackup and createDirectoryBackup: cp or tar, then a look whether
\* the copy is there.  Every failure is silent.
Copied(f) ==
    /\ content[f] # Gone /\ Len(backups) < MaxBackups
    /\ backups' = Append(backups, [of |-> f, holds |-> content[f]])

FirstBackup(task) ==
    /\ task.do = "firstBackup" /\ End(task)
    /\ \/ /\ Copied(task.of)
          /\ firstBackup' = [firstBackup EXCEPT ![task.of] = Last(backups')]
       \/ UNCHANGED <<backups, firstBackup>>
    /\ UNCHANGED <<server, history, original>>

\* Mutant: saveBackup without its cap.
PushedUncapped(f, c) == <<c>> \o history[f]

\* The tail of saveBackup: newest first, at most MAX_BACKUPS_PER_FILE.
Pushed(f, c) ==
    IF Len(history[f]) < MaxHistory THEN <<c>> \o history[f]
    ELSE <<c>> \o SubSeq(history[f], 1, MaxHistory - 1)

\* Mutant: the history takes the content to be written.
SaveBackupOfNew(f) ==
    /\ original[f] # Gone /\ versions[f] < MaxVersions
    /\ versions' = [versions EXCEPT ![f] = @ + 1]
    /\ history' = [history EXCEPT ![f] = Pushed(f, <<f, versions[f] + 1>>)]
    /\ Begin(Task("upload", "none", f, <<f, versions[f] + 1>>))
    /\ UNCHANGED <<content, original, firstBackup, backups>>

\* uploadFile up to its write: saveBackup of the content the mapping remembers.
SaveBackup(f) ==
    /\ original[f] # Gone /\ versions[f] < MaxVersions
    /\ versions' = [versions EXCEPT ![f] = @ + 1]
    /\ history' = [history EXCEPT ![f] = Pushed(f, original[f])]
    /\ Begin(Task("upload", "none", f, <<f, versions[f] + 1>>))
    /\ UNCHANGED <<content, original, firstBackup, backups>>

\* revertToBackup of an entry of the history, for the picker, the log of backups
\* and the button after a save.
Revert(f, k) ==
    /\ Begin(Task("revert", "none", f, history[f][k]))
    /\ UNCHANGED <<server, client, backups>>

Remembered(f) ==
    original' = [original EXCEPT ![f] = IF @ = Gone THEN Gone ELSE content'[f]]

\* The write of an upload or a revert.
Write(task) ==
    /\ task.do \in {"upload", "revert"} /\ End(task)
    /\ \/ /\ content' = [content EXCEPT ![task.of] = task.what]
          /\ Remembered(task.of)
       \/ UNCHANGED <<content, original>>
    /\ UNCHANGED <<versions, history, firstBackup, backups>>

------------------------------------------------------------------------------
(* Deleting and restoring *)

\* deleteRemote of one entry: "Delete with Backup" or "Delete Permanently".
DeleteRemote(f) ==
    /\ content[f] # Gone
    /\ Begin(Task("backup", "delete", f, Gone)) \/ Begin(Task("delete", "none", f, Gone))
    /\ UNCHANGED <<server, client, backups>>

\* The command of a selection of entries, one after the other, each with a backup.
DeleteSelection(f) ==
    /\ content[f] # Gone
    /\ Begin(Task("backup", "delete", f, Gone))
    /\ UNCHANGED <<server, client, backups>>

\* The backups a restore of f may choose: those of its base name for
\* listServerBackups, all of them and any path for showAllBackups.
Listed(f) == {b \in Range(backups) : \E names \in Alike : {b.of, f} \subseteq names}

Restore(f, b) ==
    /\ Begin(Task("backup", "restore", f, b.holds))
    /\ UNCHANGED <<server, client, backups>>

\* The backup before a deletion or a restore; nobody asks whether it was made.
BackupFirst(task) ==
    /\ task.do = "backup" /\ task \in tasks
    /\ tasks' = (tasks \ {task}) \cup {Task(task.then, "none", task.of, task.what)}
    /\ Copied(task.of) \/ UNCHANGED backups
    /\ UNCHANGED <<server, client>>

Delete(task) ==
    /\ task.do = "delete" /\ End(task)
    /\ \/ content' = [content EXCEPT ![task.of] = Gone]
       \/ UNCHANGED content
    /\ UNCHANGED <<versions, client, backups>>

\* cp of the backup, then the open editor is reverted.
RestoreCopy(task) ==
    /\ task.do = "restore" /\ End(task)
    /\ \/ /\ \E b \in Range(backups) : b.holds = task.what
          /\ content' = [content EXCEPT ![task.of] = task.what]
          /\ Remembered(task.of) \/ UNCHANGED original
       \/ UNCHANGED <<content, original>>
    /\ UNCHANGED <<versions, history, firstBackup, backups>>

------------------------------------------------------------------------------
(* The rest *)

\* deleteBackup, clearServerBackups, and cleanupServerBackups of the oldest.
DropBackups(keep) ==
    /\ backups # <<>> /\ backups' = keep
    /\ UNCHANGED <<server, client, tasks>>

\* clearBackupHistory, at a factory reset.
ClearHistory ==
    /\ history' = [f \in Files |-> <<>>]
    /\ UNCHANGED <<server, original, firstBackup, backups, tasks>>

------------------------------------------------------------------------------
Step ==
    \/ \E f \in Files : Open(f) \/ Close(f) \/ SaveBackup(f)
    \/ \E f \in Files, k \in 1 .. MaxHistory : k \in DOMAIN history[f] /\ Revert(f, k)
    \/ \E f \in Files : DeleteRemote(f) \/ DeleteSelection(f)
    \/ \E f \in Files, b \in Range(backups) : Restore(f, b)
    \/ \E task \in tasks :
          FirstBackup(task) \/ Write(task) \/ BackupFirst(task) \/ Delete(task) \/ RestoreCopy(task)
    \/ \E k \in DOMAIN backups : DropBackups(RemoveAt(backups, k))
    \/ DropBackups(<<>>) \/ ClearHistory

\* The content of f, or what its mapping remembers of it, changes.
Touched(f) == content'[f] # content[f] \/ original'[f] # original[f]

Next ==
    /\ Step
    /\ overtaken' = {u \in tasks \cap tasks' :
                        u.do = "upload" /\ (u \in overtaken \/ Touched(u.of))}

Spec == Init /\ [][Next]_vars

------------------------------------------------------------------------------
(* Properties *)

\* "Save backup of old content before upload": when an upload replaces the
\* content the editor had read, the local history of the file holds it, however
\* many other saves, reverts, restores and deletions are under way.  The exception
\* is an upload overtaken by another operation on its file: it took its backup
\* before the content it replaces was there.
UploadKeepsOld ==
    [][\A task \in (tasks \ tasks') \ overtaken :
          task.do = "upload" /\ content'[task.of] # content[task.of]
            /\ content[task.of] # Gone /\ content[task.of] = original[task.of] =>
              \/ content[task.of] \in Range(history[task.of])
              \/ history[task.of] = <<>>]_vars

\* "A backup will be created before deletion", "If the target exists, it will be
\* backed up first": what such a deletion or restore destroys is in a backup.
DestroyedHasBackup ==
    [][\A task \in tasks, f \in Files :
          task.do = "backup" /\ task \notin tasks' /\ f = task.of /\ content[f] # Gone =>
              \E b \in Range(backups') : b.holds = content[f]]_vars

\* showChanges compares with the content first read, which the background backup
\* of an open file holds.
FirstBackupIsOriginal ==
    [][\A task \in tasks \ tasks' :
          task.do = "firstBackup" /\ firstBackup'[task.of] # NoBackup =>
              firstBackup'[task.of].holds = original[task.of] \/ original[task.of] = Gone]_vars
==============================================================================
