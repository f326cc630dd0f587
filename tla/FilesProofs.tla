------------------------------ MODULE FilesProofs ------------------------------
(***************************************************************************)
(* Proofs about MCFiles, for every value of the constants: the lock of a   *)
(* local copy and the one reader of a large file, the tree that shows its  *)
(* cache, the backups that keep what an upload replaces, and the copies,   *)
(* moves, renames and creations.                                           *)
(***************************************************************************)
EXTENDS MCFiles, FoldProofs, Sequences, FiniteSets, FiniteSetTheorems, SequenceTheorems,
        TLAPS

------------------------------------------------------------------------------
(* The lock of the local copy *)

\* The lock's entry, and what each waiting operation awaits, is an operation that
\* is inside.
LockHeld ==
    /\ lock # None => L!Inside(lock)
    /\ \A o \in Ops : copyOp[o].pc = "waiting" =>
          L!Locking(o) /\ copyOp[o].on \in Ops /\ L!Inside(copyOp[o].on)

\* The lock and the operations; the local copy.
OpsTyped ==
    lock \in Ops \cup {None} /\ copyOp \in [Ops -> [kind : L!Kinds, pc : L!PCs, on : Ops \cup {None}]]

CopyTyped ==
    /\ doc \in L!Texts \cup {"closed"} /\ dirty \in BOOLEAN
    /\ copyDisk \in L!Texts \cup {"absent"} /\ mapped \in BOOLEAN
    /\ upload \in {"none", "timer", "sending"}
    /\ downloading \in BOOLEAN
    /\ ticker \subseteq Ops
    /\ copyRemote \in L!Texts

\* The inductive invariant of the local copy.
LockInv == CopyTyped /\ OpsTyped /\ LockHeld

\* What a step does to the lock and the operations: nothing, a start under the
\* lock or outside it, a step of one operation that stays inside or was outside,
\* an end with its release, or a restart.
LockKept == UNCHANGED <<lock, copyOp>>
Asks(o) == ~L!Inside(o) /\ \E kind \in {"open", "preload", "refresh", "reload"} : L!AcquireAs(o, kind)
Outside(o) ==
    /\ ~L!Inside(o) /\ UNCHANGED lock
    /\ \E r \in [kind : L!Kinds, pc : L!PCs \ {"waiting"}, on : Ops \cup {None}] :
          copyOp' = [copyOp EXCEPT ![o] = r]
StaysInside(o) ==
    /\ L!Inside(o) /\ UNCHANGED lock
    /\ \E pc \in {"reading", "asking", "watching"} : L!To(o, pc)
LockChange ==
    \/ LockKept
    \/ \E o \in Ops : Asks(o) \/ Outside(o) \/ StaysInside(o) \/ (L!Inside(o) /\ L!ReleaseLock(o))
    \/ lock' = None /\ copyOp' = [o \in Ops |-> L!Idle]

\* Every step of the local copy is one of these.
LEMMA LockChanges ==
    ASSUME OpsTyped, L!Next
    PROVE  LockChange
BY
   DEF OpsTyped, LockChange, LockKept, Asks, Outside, StaysInside, L!TypeOK, L!Next,
       L!Copies, L!User, L!OpenAgain, L!OpenClosed, L!Flushed,
  L!OpenRead, L!Opened, L!OpenFails, L!RedoFails, L!Preload, L!Refresh, L!Reload,
  L!PreloadRead, L!RefreshRead, L!ReloadRead,
  L!NothingRead, L!Answer, L!Download, L!Downloaded, L!DownloadFails, L!OpenInside, L!Enter,
  L!Cleanup, L!CleanupOrphan, L!Restart,
  L!ReconnectOrphan, L!Edit, L!Save, L!EditorReloads, L!Close, L!Debounced, L!Uploaded,
  L!To, L!At, L!Inside, L!Locking, L!Kinds, L!PCs, L!editor

\* A release hands the lock to nobody and wakes those that awaited it.
LEMMA ReleaseTypes ==
    ASSUME OpsTyped, NEW o \in Ops, L!ReleaseLock(o)
    PROVE  OpsTyped'
BY DEF OpsTyped, L!ReleaseLock, L!WaitersOf, L!Idle, L!Kinds, L!PCs

\* Each of them keeps the lock with an operation that is inside.
LEMMA LockKeeps ==
    ASSUME LockInv, LockChange
    PROVE  LockHeld' /\ OpsTyped'
<1> USE DEF LockInv, LockHeld, OpsTyped, L!Inside, L!Locking, L!Kinds, L!PCs
<1>0. None \notin Ops
  BY ConstantsAssumption DEF L!NobodyAssumption
<1>1. CASE LockKept
  BY <1>1 DEF LockKept
<1>2. ASSUME NEW o \in Ops, Asks(o) PROVE LockHeld' /\ OpsTyped'
  BY <1>0, <1>2 DEF Asks, L!AcquireAs
<1>3. ASSUME NEW o \in Ops, Outside(o) PROVE LockHeld' /\ OpsTyped'
  BY <1>3 DEF Outside
<1>4. ASSUME NEW o \in Ops, StaysInside(o) PROVE LockHeld' /\ OpsTyped'
  BY <1>4 DEF StaysInside, L!To
<1>5. ASSUME NEW o \in Ops, L!Inside(o), L!ReleaseLock(o) PROVE LockHeld' /\ OpsTyped'
  <2>1. OpsTyped'
    <3> HIDE DEF OpsTyped
    <3> QED
      BY <1>5, ReleaseTypes DEF LockInv
  <2> USE <1>5 DEF L!ReleaseLock, L!WaitersOf, L!Idle
  <2>2. ASSUME NEW w \in Ops
        PROVE  /\ w = o => copyOp'[w].pc = "idle"
               /\ w # o /\ w \in L!WaitersOf(o) => copyOp'[w].kind = copyOp[w].kind /\ copyOp'[w].pc = "inside"
               /\ w # o /\ w \notin L!WaitersOf(o) => copyOp'[w] = copyOp[w]
    <3>1. copyOp'[w] = IF w = o THEN L!Idle
                       ELSE IF w \in L!WaitersOf(o) THEN [copyOp[w] EXCEPT !.pc = "inside", !.on = None]
                       ELSE copyOp[w]
      OBVIOUS
    <3>2. copyOp[w] \in [kind : L!Kinds, pc : L!PCs, on : Ops \cup {None}]
      OBVIOUS
    <3> HIDE <1>5 DEF L!WaitersOf, L!ReleaseLock
    <3> QED
      BY <3>1, <3>2
  <2>3. o \notin L!WaitersOf(o)
    OBVIOUS
  <2>6. \A w \in L!WaitersOf(o) : w \in Ops /\ L!Locking(w)
    BY <1>0 DEF LockHeld
  <2>4. lock' # None => L!Inside(lock)'
    BY <1>0, <2>2, <2>3
  <2>5. ASSUME NEW w \in Ops, copyOp'[w].pc = "waiting"
        PROVE  L!Locking(w)' /\ copyOp'[w].on \in Ops /\ L!Inside(copyOp[w].on)'
    <3>1. copyOp'[w] = copyOp[w] /\ copyOp[w].on # o
      BY <2>2, <2>5
    <3>2. PICK v \in Ops : v = copyOp[w].on /\ L!Inside(v)
      BY <3>1, <2>5
    <3>3. copyOp'[v] = copyOp[v]
      BY <3>1, <3>2, <2>2
    <3> QED
      BY <3>1, <3>2, <3>3, <2>5
  <2> QED
    BY <2>1, <2>4, <2>5
<1>6. CASE lock' = None /\ copyOp' = [o \in Ops |-> L!Idle]
  BY <1>6 DEF L!Idle
<1> QED
  BY <1>1, <1>2, <1>3, <1>4, <1>5, <1>6 DEF LockChange

\* Every step keeps the copy, its document and its upload what they are.
LEMMA CopyTypes == CopyTyped /\ L!Next => CopyTyped'
<1> SUFFICES ASSUME CopyTyped, L!Next PROVE CopyTyped'
  OBVIOUS
<1> USE DEF CopyTyped, L!Texts, L!editor
<1>1. ASSUME NEW o \in Ops, L!OpenAgain(o) \/ L!OpenClosed(o) \/ L!Flushed(o) \/ L!OpenRead(o) \/ L!Opened(o)
      PROVE CopyTyped'
  BY <1>1 DEF L!OpenAgain, L!OpenClosed, L!Flushed, L!OpenRead, L!Opened
<1>2. ASSUME NEW o \in Ops, L!OpenFails(o) \/ L!RedoFails(o) \/ L!OpenInside(o) \/ L!Enter(o)
      PROVE CopyTyped'
  BY <1>2 DEF L!OpenFails, L!RedoFails, L!OpenInside, L!Enter
<1>3. ASSUME NEW o \in Ops, L!Preload(o) \/ L!Refresh(o) \/ L!Reload(o) \/ L!NothingRead(o)
      PROVE CopyTyped'
  BY <1>3 DEF L!Preload, L!Refresh, L!Reload, L!NothingRead
<1>4. ASSUME NEW o \in Ops, L!PreloadRead(o) \/ L!RefreshRead(o) \/ L!ReloadRead(o)
      PROVE CopyTyped'
  BY <1>4 DEF L!PreloadRead, L!RefreshRead, L!ReloadRead
<1>5. ASSUME NEW o \in Ops, NEW b \in BOOLEAN, L!Answer(o, b) \/ L!Downloaded(o, b)
      PROVE CopyTyped'
  BY <1>5 DEF L!Answer, L!Downloaded
<1>6. ASSUME NEW o \in Ops, NEW k \in L!Kinds, L!Download(o, k) \/ L!DownloadFails(o)
      PROVE CopyTyped'
  BY <1>6 DEF L!Download, L!DownloadFails
<1>7. CASE L!User
  BY <1>7 DEF L!User, L!Edit, L!Save, L!EditorReloads, L!Close, L!Debounced, L!Uploaded
<1>8. CASE L!Cleanup \/ L!CleanupOrphan \/ L!Restart \/ L!ReconnectOrphan
  BY <1>8 DEF L!Cleanup, L!CleanupOrphan, L!Restart, L!ReconnectOrphan
<1> QED
  BY <1>1, <1>2, <1>3, <1>4, <1>5, <1>6, <1>7, <1>8 DEF L!Next, L!Copies, L!Kinds
------------------------------------------------------------------------------
(* One reader of a large file *)

\* The calls that open a large file, and the queue at its lock.
Calls == downOp \in [Opens -> D!Open]

Queued ==
    /\ gate \in Seq(Opens) /\ order \in Seq(Files)
    /\ \A o \in Opens : downOp[o].pc = "locking" => \E i \in 1 .. Len(gate) : gate[i] = o

\* Every download that is active is the one its file's entry leads to.
Entered ==
    /\ downloads \in [Files -> Opens \cup {None}]
    /\ \A o \in Opens : D!IsActive(o) => downloads[downOp[o].file] = o
    /\ \A o \in Opens : downOp[o].pc = "showing" => downOp[o].status = "pending"

Provided ==
    /\ listening \subseteq Opens /\ leaving \subseteq listening
    /\ cached \in [Files -> {"none", "downloading", "complete"}]
    /\ follower \subseteq Files /\ polls \subseteq Files /\ asked \subseteq Files
    /\ preview \subseteq Files /\ editor \subseteq Files
    /\ downDisk \in [Files -> Opens \cup {None}]
    /\ downMapping \in [Files -> Opens \cup {None}]

ReaderInv == Calls /\ Queued /\ Entered /\ Provided

\* A record of an open, the same file's, with another place and status.
Moved(o, pc, status) ==
    downOp' = [downOp EXCEPT ![o].pc = pc, ![o].status = status]

\* A call that goes on stays a call.
LEMMA MovedCalls ==
    ASSUME Calls, NEW o \in Opens, NEW pc \in D!PCs, NEW status \in D!Statuses, Moved(o, pc, status)
    PROVE  Calls'
BY DEF Calls, Moved, D!Open

\* onDidCloseTextDocument leaves the calls where they are, some of them cancelled.
LEMMA ClosedCalls ==
    ASSUME Calls, NEW calls \in [Opens -> D!Open], NEW b \in BOOLEAN, NEW cleared, D!OnClosed(calls, b, cleared)
    PROVE  /\ Calls'
           /\ \A o \in Opens : /\ downOp'[o].pc = calls[o].pc /\ downOp'[o].file = calls[o].file
                               /\ downOp'[o].status = calls[o].status
                                  \/ (calls[o].status = "downloading" /\ downOp'[o].status = "cancelled")
BY DEF Calls, D!OnClosed, D!Open, D!Statuses

\* Every step keeps the calls what they are.
LEMMA CallsKept == ASSUME Calls, D!Next PROVE Calls'
<1> USE DEF D!PCs, D!Statuses
<1>1. ASSUME NEW o \in Opens, D!Begin(o) \/ D!Refuse(o) \/ D!OpenLocal(o) \/ D!ReadStopped(o)
      PROVE  Calls'
  BY <1>1 DEF D!Begin, D!Refuse, D!OpenLocal, D!ReadStopped, Calls, D!Open
<1>2. ASSUME NEW o \in Opens, D!StartDownload(o) PROVE Calls'
  BY <1>2, MovedCalls DEF D!StartDownload, Moved
<1>3. ASSUME NEW o \in Opens, D!PreviewShown(o) PROVE Calls'
  BY <1>3, MovedCalls DEF D!PreviewShown, Moved
<1>4. ASSUME NEW o \in Opens, D!PreviewFails(o) \/ D!ReadFails(o) PROVE Calls'
  BY <1>4, MovedCalls DEF D!PreviewFails, D!ReadFails, Moved
<1>5. ASSUME NEW o \in Opens, D!ReadDone(o) PROVE Calls'
  BY <1>5, MovedCalls DEF D!ReadDone, Moved
<1>6. ASSUME NEW o \in Opens, D!Transition(o) PROVE Calls'
  <2>1. [downOp EXCEPT ![o].pc = "done"] \in [Opens -> D!Open]
    BY DEF Calls, D!Open
  <2> QED
    BY <1>6, <2>1, ClosedCalls DEF D!Transition
<1>7. ASSUME NEW o \in Opens, D!StopButton(o) PROVE Calls'
  BY <1>7 DEF D!StopButton, Calls, D!Open
<1>8. ASSUME NEW f \in Files, D!ClosePreview(f) \/ D!CloseEditor(f) PROVE Calls'
  <2>1. downOp \in [Opens -> D!Open]
    BY DEF Calls
  <2> QED
    BY <1>8, <2>1, ClosedCalls DEF D!ClosePreview, D!CloseEditor
<1>9. ASSUME UNCHANGED downOp PROVE Calls'
  BY <1>9 DEF Calls
<1> QED
  BY <1>1, <1>2, <1>3, <1>4, <1>5, <1>6, <1>7, <1>8, <1>9
     DEF D!Next, D!LockStep, D!OpenStep, D!Event, D!FileEvent,
     D!PreviewOpens, D!Progress, D!Unsubscribe, D!Provide, D!TailPoll, D!TailUpdate
\* A step that makes no download active and lets nobody wait for the lock.
Calmer ==
    /\ UNCHANGED downloads
    /\ \A o \in Opens :
          /\ downOp'[o].file = downOp[o].file
          /\ D!IsActive(o)' => D!IsActive(o)
          /\ downOp'[o].pc = "showing" => downOp[o].pc = "showing" /\ downOp'[o].status = downOp[o].status

\* A step that starts no download and shows no preview makes no call active and
\* takes no file's entry from an active one.
LEMMA CalmSteps ==
    ASSUME Calls, Entered, D!Next, \A o \in Opens : ~D!StartDownload(o) /\ ~D!PreviewShown(o)
    PROVE  Calmer
<1> USE DEF D!IsActive, Calls, D!Open, Calmer
<1>1. ASSUME NEW o \in Opens, D!Begin(o) \/ D!Refuse(o) \/ D!OpenLocal(o) \/ D!ReadStopped(o)
      PROVE  Calmer
  BY <1>1 DEF D!Begin, D!Refuse, D!OpenLocal, D!ReadStopped, D!manager
<1>4. ASSUME NEW o \in Opens, D!PreviewFails(o) \/ D!ReadFails(o) PROVE Calmer
  BY <1>4 DEF D!PreviewFails, D!ReadFails, D!manager
<1>5. ASSUME NEW o \in Opens, D!ReadDone(o) PROVE Calmer
  BY <1>5 DEF D!ReadDone, D!manager
<1>6. ASSUME NEW o \in Opens, D!Transition(o) PROVE Calmer
  <2> DEFINE calls == [downOp EXCEPT ![o].pc = "done"]
  <2>1. /\ calls \in [Opens -> D!Open]
        /\ \A p \in Opens : /\ calls[p].file = downOp[p].file
                            /\ calls[p].status = downOp[p].status
                            /\ calls[p].pc # downOp[p].pc => calls[p].pc = "done"
    BY DEF D!PCs
  <2>2. UNCHANGED downloads /\ D!OnClosed(calls, TRUE, {downOp[o].file})
    BY <1>6 DEF D!Transition, D!manager
  <2> HIDE DEF calls, Calls, D!Open, Calmer
  <2>3. \A p \in Opens : /\ downOp'[p].pc = calls[p].pc /\ downOp'[p].file = calls[p].file
                         /\ downOp'[p].status = calls[p].status
                            \/ (calls[p].status = "downloading" /\ downOp'[p].status = "cancelled")
    BY <2>1, <2>2, ClosedCalls
  <2> QED
    <3>1. ASSUME NEW p \in Opens
          PROVE  /\ downOp'[p].file = downOp[p].file
                 /\ D!IsActive(p)' => D!IsActive(p)
                 /\ downOp'[p].pc = "showing" => downOp[p].pc = "showing" /\ downOp'[p].status = downOp[p].status
      BY <2>1, <2>3 DEF Entered
    <3> HIDE DEF D!IsActive
    <3> QED
      BY <2>2, <3>1 DEF Calmer
<1>7. ASSUME NEW o \in Opens, D!StopButton(o) PROVE Calmer
  BY <1>7 DEF D!StopButton, D!manager
<1>8. ASSUME NEW f \in Files, D!ClosePreview(f) \/ D!CloseEditor(f) PROVE Calmer
  <2>1. downOp \in [Opens -> D!Open]
    BY DEF Calls
  <2>2. UNCHANGED downloads /\ \E b \in BOOLEAN : D!OnClosed(downOp, b, {})
    BY <1>8 DEF D!ClosePreview, D!CloseEditor, D!manager
  <2> HIDE DEF Calls, D!Open, Calmer
  <2>3. \A p \in Opens : /\ downOp'[p].pc = downOp[p].pc /\ downOp'[p].file = downOp[p].file
                         /\ downOp'[p].status = downOp[p].status
                            \/ (downOp[p].status = "downloading" /\ downOp'[p].status = "cancelled")
    BY <2>1, <2>2, ClosedCalls
  <2> QED
    <3>1. ASSUME NEW p \in Opens
          PROVE  /\ downOp'[p].file = downOp[p].file
                 /\ D!IsActive(p)' => D!IsActive(p)
                 /\ downOp'[p].pc = "showing" => downOp[p].pc = "showing" /\ downOp'[p].status = downOp[p].status
      BY <2>3 DEF Entered
    <3> HIDE DEF D!IsActive
    <3> QED
      BY <2>2, <3>1 DEF Calmer
<1>9. ASSUME UNCHANGED <<downOp, downloads>> PROVE Calmer
  BY <1>9
<1> HIDE DEF D!IsActive, Calls, D!Open, Calmer
<1> QED
  BY <1>1, <1>4, <1>5, <1>6, <1>7, <1>8, <1>9
     DEF D!Next, D!LockStep, D!OpenStep, D!Event, D!FileEvent,
     D!PreviewOpens, D!Progress, D!Unsubscribe, D!Provide, D!TailPoll, D!TailUpdate, D!manager

\* Every step keeps the active downloads those their files lead to.
LEMMA EnteredKept == ASSUME Calls, Entered, D!Next PROVE Entered'
<1>1. ASSUME NEW o \in Opens, D!StartDownload(o) PROVE Entered'
  BY <1>1, ConstantsAssumption
     DEF D!StartDownload, Entered, Calls, D!Open, D!IsActive, D!IsDownloading,
         D!NobodyAssumption
<1>2. ASSUME NEW o \in Opens, D!PreviewShown(o) PROVE Entered'
  BY <1>2 DEF D!PreviewShown, Entered, Calls, D!Open, D!IsActive, D!manager
<1>3. CASE Calmer
  BY <1>3 DEF Calmer, Entered
<1> QED
  BY <1>1, <1>2, <1>3, CalmSteps

\* Every step keeps the calls that wait for the lock in the queue.
LEMMA QueuedKept == ASSUME Calls, Queued, D!Next PROVE Queued'
<1>1. ASSUME NEW o \in Opens, D!Begin(o) PROVE Queued'
  BY <1>1 DEF D!Begin, Queued, Calls, D!Open
<1>2. ASSUME NEW o \in Opens, D!LockStep(o) PROVE Queued'
  <2> HIDE DEF Calls
  <2>1. gate # <<>> /\ gate' = Tail(gate) /\ Head(gate) = o
    BY <1>2, EmptySeq DEF D!LockStep, D!StartDownload, D!Refuse, Queued
  <2>2. order' \in Seq(Files)
    <3>1. downOp[o].file \in Files /\ order \in Seq(Files)
      BY DEF Queued, Calls, D!Open
    <3>2. Append(order, downOp[o].file) \in Seq(Files)
      BY <3>1, AppendProperties
    <3> QED
      BY <1>2, <3>1, <3>2 DEF D!LockStep, D!StartDownload, D!Refuse
  <2>3. \A p \in Opens : downOp'[p].pc = "locking" => p # o /\ downOp[p].pc = "locking"
    BY <1>2 DEF D!LockStep, D!StartDownload, D!Refuse, Calls, D!Open
  <2>4. gate' \in Seq(Opens) /\ Len(gate') = Len(gate) - 1 /\ \A i \in 1 .. Len(gate') : gate'[i] = gate[i + 1]
    BY <2>1 DEF Queued
  <2>5. ASSUME NEW p \in Opens, downOp'[p].pc = "locking"
        PROVE  \E i \in 1 .. Len(gate') : gate'[i] = p
    <3>1. PICK i \in 1 .. Len(gate) : gate[i] = p
      BY <2>3, <2>5 DEF Queued
    <3>2. i # 1
      BY <3>1, <2>1, <2>3, <2>5 DEF Queued
    <3>3. i - 1 \in 1 .. Len(gate') /\ gate'[i - 1] = p
      BY <3>1, <3>2, <2>4 DEF Queued
    <3> QED
      BY <3>3
  <2> QED
    BY <2>2, <2>4, <2>5 DEF Queued
<1>3. ASSUME UNCHANGED <<gate, order>>, \A p \in Opens : downOp'[p].pc = "locking" => downOp[p].pc = "locking"
      PROVE Queued'
  BY <1>3 DEF Queued
<1>4. ASSUME NEW o \in Opens, D!OpenStep(o) \/ D!Event(o)
      PROVE  /\ UNCHANGED <<gate, order>>
             /\ \A p \in Opens : downOp'[p].pc = "locking" => downOp[p].pc = "locking"
  <2>1. UNCHANGED <<gate, order>>
    BY <1>4
       DEF D!OpenStep, D!Event, D!PreviewShown, D!PreviewFails, D!ReadStopped, D!ReadFails,
           D!ReadDone, D!Transition,
       D!OpenLocal, D!PreviewOpens, D!Progress, D!StopButton, D!Unsubscribe, D!manager
  <2>2. CASE D!Transition(o)
    <3> DEFINE calls == [downOp EXCEPT ![o].pc = "done"]
    <3>1. calls \in [Opens -> D!Open] /\ \A p \in Opens : calls[p].pc # downOp[p].pc => calls[p].pc = "done"
      BY DEF D!PCs, Calls, D!Open
    <3>2. D!OnClosed(calls, TRUE, {downOp[o].file})
      BY <2>2 DEF D!Transition
    <3> HIDE DEF calls
    <3>3. ASSUME NEW p \in Opens PROVE downOp'[p].pc = calls[p].pc
      BY <3>1, <3>2, ClosedCalls
    <3> QED
      BY <2>1, <3>1, <3>3
  <2>3. CASE ~D!Transition(o)
    BY <1>4, <2>1, <2>3
       DEF Calls, D!Open, D!OpenStep, D!Event, D!PreviewShown, D!PreviewFails,
           D!ReadStopped, D!ReadFails, D!ReadDone,
       D!OpenLocal, D!PreviewOpens, D!Progress, D!StopButton, D!Unsubscribe
  <2> QED
    BY <2>2, <2>3
<1>5. ASSUME NEW f \in Files, D!FileEvent(f)
      PROVE  /\ UNCHANGED <<gate, order>>
             /\ \A p \in Opens : downOp'[p].pc = "locking" => downOp[p].pc = "locking"
  <2>1. UNCHANGED <<gate, order>>
    BY <1>5
       DEF D!FileEvent, D!Provide, D!TailPoll, D!TailUpdate, D!ClosePreview, D!CloseEditor,
           D!manager
  <2>2. UNCHANGED downOp \/ \E b \in BOOLEAN : D!OnClosed(downOp, b, {})
    BY <1>5 DEF D!FileEvent, D!Provide, D!TailPoll, D!TailUpdate, D!ClosePreview, D!CloseEditor
  <2>3. downOp \in [Opens -> D!Open]
    BY DEF Calls
  <2>4. ASSUME NEW b \in BOOLEAN, D!OnClosed(downOp, b, {}), NEW p \in Opens
        PROVE  downOp'[p].pc = downOp[p].pc
    BY <2>3, <2>4, ClosedCalls
  <2> QED
    BY <2>1, <2>2, <2>4
<1> QED
  BY <1>1, <1>2, <1>3, <1>4, <1>5 DEF D!Next

\* Every step keeps what the provider keeps of its files what it is.
LEMMA ProvidedKept == ASSUME Calls, Provided, D!Next PROVE Provided'
<1> USE DEF Provided, Calls, D!Open, D!provider, D!events, D!local
<1>1. ASSUME NEW o \in Opens, D!Begin(o) \/ D!LockStep(o) PROVE Provided'
  BY <1>1 DEF D!Begin, D!LockStep, D!StartDownload, D!Refuse
<1>2. ASSUME NEW o \in Opens, D!OpenLocal(o) \/ D!PreviewOpens(o) \/ D!Progress(o) \/ D!StopButton(o) \/ D!Unsubscribe(o)
      PROVE  Provided'
  BY <1>2 DEF D!OpenLocal, D!PreviewOpens, D!Progress, D!StopButton, D!Unsubscribe, D!Fired
<1>3. ASSUME NEW o \in Opens, D!PreviewShown(o) \/ D!PreviewFails(o) \/ D!ReadStopped(o) \/ D!ReadFails(o)
      PROVE  Provided'
  BY <1>3 DEF D!PreviewShown, D!PreviewFails, D!ReadStopped, D!ReadFails, D!ErrorEvent
<1>4. ASSUME NEW o \in Opens, D!ReadDone(o) PROVE Provided'
  BY <1>4 DEF D!ReadDone, D!ClearPreview, D!Fired, D!ListenersOf
<1>5. ASSUME NEW o \in Opens, D!Transition(o) PROVE Provided'
  BY <1>5 DEF D!Transition, D!OnClosed
<1>6. ASSUME NEW f \in Files, D!FileEvent(f) PROVE Provided'
  BY <1>6
     DEF D!FileEvent, D!Provide, D!TailPoll, D!TailUpdate, D!ClosePreview, D!CloseEditor,
         D!OnClosed, D!Fired
<1> QED
  BY <1>1, <1>2, <1>3, <1>4, <1>5, <1>6 DEF D!Next, D!OpenStep, D!Event

\* No large file is open.
LEMMA ReaderInit == D!Init => ReaderInv
<1> SUFFICES ASSUME D!Init PROVE ReaderInv
  OBVIOUS
<1>1. Calls /\ \A o \in Opens : downOp[o].pc = "idle" /\ downOp[o].status = "none"
  BY DEF D!Init, Calls, D!Open, D!PCs, D!Statuses
<1>2. Queued
  BY <1>1, EmptySeq DEF D!Init, Queued
<1>3. Entered
  BY <1>1 DEF D!Init, Entered, D!IsActive
<1>4. Provided
  BY DEF D!Init, Provided
<1> QED
  BY <1>1, <1>2, <1>3, <1>4 DEF ReaderInv

\* Every step keeps the invariant of the large files.
LEMMA ReaderStep == ReaderInv /\ [D!Next]_dVars => ReaderInv'
<1>1. ReaderInv /\ UNCHANGED dVars => ReaderInv'
  BY DEF ReaderInv, Calls, Queued, Entered, Provided, dVars, D!IsActive
<1>2. ReaderInv /\ D!Next => ReaderInv'
  BY CallsKept, QueuedKept, EnteredKept, ProvidedKept DEF ReaderInv
<1> QED
  BY <1>1, <1>2

\* It gives the types and the one reader of a file.
LEMMA ReaderFollows == ReaderInv => D!TypeOK /\ D!OneReader
BY DEF ReaderInv, Calls, Queued, Entered, Provided, D!TypeOK, D!OneReader

\* No operation has begun.
LEMMA LockInit == L!Init => LockInv
<1> SUFFICES ASSUME L!Init PROVE LockInv
  OBVIOUS
<1>1. CopyTyped
  BY DEF L!Init, CopyTyped, L!Texts
<1>2. OpsTyped
  BY DEF L!Init, OpsTyped, L!Idle, L!Kinds, L!PCs
<1>3. LockHeld
  BY DEF L!Init, LockHeld, L!Idle
<1> QED
  BY <1>1, <1>2, <1>3 DEF LockInv

\* Every step keeps the invariant of the local copy.
LEMMA LockStep == LockInv /\ [L!Next]_lVars => LockInv'
<1>1. LockInv /\ UNCHANGED lVars => LockInv'
  BY DEF LockInv, CopyTyped, OpsTyped, LockHeld, lVars, L!Inside, L!Locking
<1>2. LockInv /\ L!Next => LockInv'
  BY LockChanges, LockKeeps, CopyTypes DEF LockInv
<1> QED
  BY <1>1, <1>2

\* It gives the types and that no lock is stale.
LEMMA LockFollows == LockInv => L!TypeOK /\ L!NoStaleLock
BY DEF LockInv, CopyTyped, OpsTyped, LockHeld, L!TypeOK, L!NoStaleLock

------------------------------------------------------------------------------
(* The tree *)

\* The parts of the type of the tree.
TreeTyped ==
    /\ linkUp \in BOOLEAN
    /\ currentPath \in Dirs /\ expanded \subseteq Dirs
    /\ waiting \subseteq Dirs /\ loadingItems \subseteq Dirs
    /\ failedLoads \subseteq Dirs /\ fired \subseteq Dirs
    /\ left \in 0 .. Requests

TreeMaps ==
    /\ treeRemote \in [Dirs -> 0 .. MaxState]
    /\ directoryCache \in [Dirs -> T!Unread .. MaxState]
    /\ activeLoads \in [Dirs -> {"none", "sent", "read"}]
    /\ reading \in [Dirs -> 0 .. MaxState]
    /\ shown \in [Dirs -> {"nothing", "loading", "error", "files"}]

\* What is visible was told to be drawn, shows its files, or its item waits for a
\* load or shows that the load failed.
Drawn ==
    linkUp => \A d \in T!Visible \ fired : shown[d] = "files" \/ d \in loadingItems \/ d \in failedLoads

\* The inductive invariant of the tree.
TreeInv == TreeTyped /\ TreeMaps /\ T!SpinnerIsLoading /\ Drawn

\* Every step keeps what is drawn in step with the loads.
LEMMA TreeStep == TreeInv /\ T!Next => TreeInv'
<1> SUFFICES ASSUME TreeInv, T!Next PROVE TreeInv'
  OBVIOUS
<1>0. Home \in Dirs /\ Requests \in Nat /\ MaxState \in Nat
  BY ConstantsAssumption DEF T!HomeAssumption
<1>1. TreeTyped'
  <2> USE <1>0 DEF TreeInv, TreeTyped, T!server, T!place, T!loads, T!Spend, T!FireAll, T!Visible
  <2>1. ASSUME NEW d \in Dirs, T!Render(d) PROVE TreeTyped'
    BY <2>1
       DEF T!Render, T!RenderOffline, T!RenderCached, T!RenderLoading, T!RenderFailed,
           T!RenderNew, T!Shows
  <2>2. ASSUME NEW d \in Dirs, T!Answer(d) PROVE TreeTyped'
    BY <2>2 DEF T!Answer, T!ServerReads, T!Loaded, T!LoadFails, T!Settle
  <2>3. ASSUME NEW d \in Dirs, T!Preload(d) \/ T!Expand(d) \/ T!Collapse(d) \/ T!Navigate(d) \/ T!ChangeAndRefresh(d)
        PROVE TreeTyped'
    BY <2>3 DEF T!Preload, T!Expand, T!Collapse, T!Navigate, T!ChangeAndRefresh
  <2>5. CASE T!Refresh \/ T!Lost \/ T!Restored \/ T!AutoRefresh
    <3>1. T!Visible \subseteq Dirs
      OBVIOUS
    <3> HIDE DEF T!Visible
    <3>2. CASE T!Refresh
      BY <3>1, <3>2 DEF T!Refresh
    <3>3. CASE T!Lost
      <4>1. left' \in 0 .. Requests
        BY <3>3 DEF T!Lost
      <4>2. linkUp' = FALSE /\ failedLoads' = {} /\ fired' \subseteq Dirs
        BY <3>1, <3>3 DEF T!Lost
      <4> QED
        BY <3>3, <4>1, <4>2 DEF T!Lost
    <3>4. CASE T!Restored
      BY <3>1, <3>4 DEF T!Restored
    <3>5. CASE T!AutoRefresh
      BY <3>1, <3>5 DEF T!AutoRefresh
    <3> QED
      BY <2>5, <3>2, <3>3, <3>4, <3>5
  <2> QED
    BY <2>1, <2>2, <2>3, <2>5 DEF T!Next
<1>2. TreeMaps'
  <2> USE <1>0 DEF TreeInv, TreeMaps, TreeTyped, T!server, T!place, T!loads, T!Unread
  <2>1. ASSUME NEW d \in Dirs, T!Render(d) PROVE TreeMaps'
    BY <2>1
       DEF T!Render, T!RenderOffline, T!RenderCached, T!RenderLoading, T!RenderFailed,
           T!RenderNew, T!Shows, T!Load
  <2>2. ASSUME NEW d \in Dirs, T!Answer(d) PROVE TreeMaps'
    BY <2>2 DEF T!Answer, T!ServerReads, T!Loaded, T!LoadFails, T!Settle
  <2>3. ASSUME NEW d \in Dirs, T!Preload(d) \/ T!Expand(d) \/ T!Collapse(d) \/ T!Navigate(d)
        PROVE  TreeMaps'
    BY <2>3 DEF T!Preload, T!Expand, T!Collapse, T!Navigate, T!Load
  <2>4. ASSUME NEW d \in Dirs, T!ChangeAndRefresh(d) PROVE TreeMaps'
    BY <2>4 DEF T!ChangeAndRefresh
  <2>5. CASE T!Refresh \/ T!Lost \/ T!Restored \/ T!AutoRefresh
    BY <2>5 DEF T!Refresh, T!Lost, T!Restored, T!AutoRefresh, T!Load
  <2> QED
    BY <2>1, <2>2, <2>3, <2>4, <2>5 DEF T!Next
<1>3. T!SpinnerIsLoading'
  <2> USE DEF TreeInv, TreeMaps, TreeTyped, T!server, T!place, T!loads, T!SpinnerIsLoading
  <2>1. ASSUME NEW d \in Dirs, T!Render(d) PROVE T!SpinnerIsLoading'
    BY <2>1
       DEF T!Render, T!RenderOffline, T!RenderCached, T!RenderLoading, T!RenderFailed,
           T!RenderNew, T!Load
  <2>2. ASSUME NEW d \in Dirs, T!Answer(d) PROVE T!SpinnerIsLoading'
    BY <2>2 DEF T!Answer, T!ServerReads, T!Loaded, T!LoadFails, T!Settle
  <2>3. ASSUME NEW d \in Dirs, T!Preload(d) \/ T!Expand(d) \/ T!Collapse(d) \/ T!Navigate(d) \/ T!ChangeAndRefresh(d)
        PROVE T!SpinnerIsLoading'
    BY <2>3 DEF T!Preload, T!Expand, T!Collapse, T!Navigate, T!Load, T!ChangeAndRefresh
  <2>5. CASE T!Refresh \/ T!Lost \/ T!Restored \/ T!AutoRefresh
    BY <2>5 DEF T!Refresh, T!Lost, T!Restored, T!AutoRefresh, T!Load
  <2> QED
    BY <2>1, <2>2, <2>3, <2>5 DEF T!Next
<1>4. Drawn'
  <2> USE DEF TreeInv, TreeMaps, TreeTyped, T!server, T!place, T!loads, Drawn, T!Visible
  <2>1. ASSUME NEW d \in Dirs, T!Render(d) PROVE Drawn'
    <3> USE DEF T!Shows
    <3>1. CASE T!RenderOffline(d)
      BY <3>1 DEF T!RenderOffline
    <3>2. CASE T!RenderCached(d)
      BY <3>2 DEF T!RenderCached
    <3>3. CASE T!RenderLoading(d)
      BY <3>3 DEF T!RenderLoading
    <3>4. CASE T!RenderFailed(d)
      BY <3>4 DEF T!RenderFailed
    <3>5. CASE T!RenderNew(d)
      BY <3>5 DEF T!RenderNew
    <3> QED
      BY <2>1, <3>1, <3>2, <3>3, <3>4, <3>5 DEF T!Render
  <2>2. ASSUME NEW d \in Dirs, T!Answer(d) PROVE Drawn'
    BY <2>2 DEF T!Answer, T!ServerReads, T!Loaded, T!LoadFails, T!Settle, T!SpinnerIsLoading
  <2>3. ASSUME NEW d \in Dirs, T!Preload(d) \/ T!Expand(d) \/ T!Collapse(d) \/ T!Navigate(d) \/ T!ChangeAndRefresh(d)
        PROVE Drawn'
    BY <2>3 DEF T!Preload, T!Expand, T!Collapse, T!Navigate, T!ChangeAndRefresh, T!FireAll
  <2>5. CASE T!Refresh \/ T!Lost \/ T!Restored \/ T!AutoRefresh
    BY <2>5 DEF T!Refresh, T!Lost, T!Restored, T!AutoRefresh, T!FireAll
  <2> QED
    BY <2>1, <2>2, <2>3, <2>5 DEF T!Next
<1> QED
  BY <1>1, <1>2, <1>3, <1>4 DEF TreeInv

\* So does a step of another component.
LEMMA TreeUnchanged == TreeInv /\ UNCHANGED tVars => TreeInv'
BY DEF TreeInv, TreeTyped, TreeMaps, T!SpinnerIsLoading, Drawn, T!Visible, tVars

\* An empty tree.
LEMMA TreeInit == T!Init => TreeInv
<1> SUFFICES ASSUME T!Init PROVE TreeInv
  OBVIOUS
<1>0. Home \in Dirs /\ Requests \in Nat /\ MaxState \in Nat
  BY ConstantsAssumption DEF T!HomeAssumption
<1>1. TreeTyped
  BY <1>0 DEF T!Init, TreeTyped
<1>2. TreeMaps
  BY <1>0 DEF T!Init, TreeMaps, T!Unread
<1>3. T!SpinnerIsLoading /\ Drawn
  BY <1>0 DEF T!Init, T!SpinnerIsLoading, Drawn, T!Visible
<1> QED
  BY <1>1, <1>2, <1>3 DEF TreeInv

\* It gives the types and the tree that shows its cache.
LEMMA TreeFollows == TreeInv => T!TypeOK /\ T!SpinnerIsLoading /\ T!QuietTreeIsCache
BY DEF TreeInv, TreeTyped, TreeMaps, Drawn, T!TypeOK, T!QuietTreeIsCache

------------------------------------------------------------------------------
(* Backups *)

\* The contents and the records of the tasks.
BackupsTyped ==
    /\ content \in [Originals -> B!Contents \cup {None}]
    /\ versions \in [Originals -> 0 .. MaxVersions]
    /\ original \in [Originals -> B!Contents \cup {None}]
    /\ backups \in Seq([of : Originals, holds : B!Contents])

\* The tasks under way; a backup is made on behalf of a task that goes on.
TasksTyped ==
    /\ tasks \subseteq B!Tasks
    /\ \A task \in tasks : task.do = "backup" => task.then # "none"

\* The local history of every file, at most MAX_BACKUPS_PER_FILE contents.
HistoryTyped ==
    /\ history \in [Originals -> Seq(B!Contents)]
    /\ \A f \in Originals : Len(history[f]) <= MaxHistory

\* The types of the backups, the tasks and the local history.
BackupsInv == BackupsTyped /\ TasksTyped /\ HistoryTyped /\ overtaken \subseteq tasks

\* What a push onto the history of a file leaves: the new content and at most
\* MaxHistory in all.
LEMMA PushedTypes ==
    ASSUME BackupsInv, NEW f \in Originals, NEW c \in B!Contents
    PROVE  /\ B!Pushed(f, c) \in Seq(B!Contents)
           /\ Len(B!Pushed(f, c)) <= MaxHistory
           /\ c \in B!Range(B!Pushed(f, c))
<1> DEFINE h == history[f]
<1>0. h \in Seq(B!Contents) /\ Len(h) <= MaxHistory /\ MaxHistory \in Nat \ {0}
  BY ConstantsAssumption DEF BackupsInv, HistoryTyped, B!BackupsAssumption
<1> HIDE DEF h
<1>1. CASE Len(h) < MaxHistory
  <2>1. B!Pushed(f, c) = <<c>> \o h
    BY <1>1 DEF B!Pushed, h
  <2>2. (<<c>> \o h) \in Seq(B!Contents) /\ Len(<<c>> \o h) = 1 + Len(h) /\ (<<c>> \o h)[1] = c
    BY <1>0
  <2> QED
    BY <1>0, <1>1, <2>1, <2>2 DEF B!Range
<1>2. CASE ~(Len(h) < MaxHistory)
  <2> DEFINE k == SubSeq(h, 1, MaxHistory - 1)
  <2>1. B!Pushed(f, c) = <<c>> \o k
    BY <1>2 DEF B!Pushed, h
  <2>3. k \in Seq(B!Contents) /\ Len(k) = MaxHistory - 1
    BY <1>0, <1>2, SubSeqProperties
  <2> HIDE DEF k
  <2>2. (<<c>> \o k) \in Seq(B!Contents) /\ Len(<<c>> \o k) = MaxHistory /\ (<<c>> \o k)[1] = c
    BY <1>0, <2>3
  <2>4. 1 \in DOMAIN (<<c>> \o k)
    BY <1>0, <2>2
  <2>5. c \in B!Range(<<c>> \o k)
    BY <2>2, <2>4 DEF B!Range
  <2> QED
    BY <1>0, <2>1, <2>2, <2>5
<1> QED
  BY <1>1, <1>2

\* A backup that is dropped leaves backups.
LEMMA RemovedTypes ==
    ASSUME BackupsTyped, NEW k \in DOMAIN backups
    PROVE  B!RemoveAt(backups, k) \in Seq([of : Originals, holds : B!Contents])
<1> DEFINE S == [of : Originals, holds : B!Contents]
<1> HIDE DEF S
<1>1. backups \in Seq(S) /\ k \in 1 .. Len(backups)
  BY DEF BackupsTyped, S
<1>2. SubSeq(backups, 1, k - 1) \in Seq(S) /\ SubSeq(backups, k + 1, Len(backups)) \in Seq(S)
  BY <1>1
<1>3. SubSeq(backups, 1, k - 1) \o SubSeq(backups, k + 1, Len(backups)) \in Seq(S)
  BY <1>2
<1> QED
  BY <1>3 DEF B!RemoveAt, S

\* Every step keeps them.
LEMMA BackupsTypes ==
    ASSUME BackupsInv, B!Step
    PROVE  BackupsTyped' /\ TasksTyped' /\ HistoryTyped'
<1> DEFINE S == [of : Originals, holds : B!Contents]
<1>b. \A b \in B!Range(backups) : b.of \in Originals /\ b.holds \in B!Contents
  <2>1. ASSUME NEW x \in DOMAIN backups PROVE backups[x] \in S
    <3>1. backups \in Seq(S)
      BY DEF BackupsInv, BackupsTyped
    <3> HIDE DEF S
    <3> QED
      BY <3>1
  <2> QED
    BY <2>1 DEF B!Range
<1>h. \A f \in Originals : \A k \in DOMAIN history[f] : history[f][k] \in B!Contents
  BY DEF BackupsInv, HistoryTyped
<1>1. TasksTyped'
  <2> USE DEF BackupsInv, TasksTyped, B!Begin, B!End, B!Task
  <2>1. ASSUME NEW f \in Originals, B!Open(f) \/ B!Close(f) PROVE TasksTyped'
    BY <2>1 DEF B!Open, B!Close, B!Tasks
  <2>2. ASSUME NEW f \in Originals, B!SaveBackup(f) PROVE TasksTyped'
    <3>1. <<f, versions[f] + 1>> \in B!Contents
      BY <2>2, ConstantsAssumption
         DEF B!SaveBackup, BackupsTyped, B!Contents, B!BackupsAssumption
    <3> QED
      BY <2>2, <3>1 DEF B!SaveBackup, B!Tasks
  <2>3. ASSUME NEW f \in Originals, NEW k, k \in DOMAIN history[f], B!Revert(f, k)
        PROVE  TasksTyped'
    BY <2>3, <1>h DEF B!Revert, B!Tasks
  <2>4. ASSUME NEW f \in Originals, B!DeleteRemote(f) \/ B!DeleteSelection(f) PROVE TasksTyped'
    BY <2>4 DEF B!DeleteRemote, B!DeleteSelection, B!Tasks
  <2>5. ASSUME NEW f \in Originals, NEW b \in B!Range(backups), B!Restore(f, b)
        PROVE  TasksTyped'
    BY <2>5, <1>b DEF B!Restore, B!Tasks
  <2>6. ASSUME NEW task \in tasks, B!FirstBackup(task) \/ B!Write(task) \/ B!Delete(task) \/ B!RestoreCopy(task)
        PROVE  TasksTyped'
    BY <2>6 DEF B!FirstBackup, B!Write, B!Delete, B!RestoreCopy
  <2>7. ASSUME NEW task \in tasks, B!BackupFirst(task) PROVE TasksTyped'
    BY <2>7 DEF B!BackupFirst, B!Tasks
  <2>8. ASSUME UNCHANGED tasks PROVE TasksTyped'
    BY <2>8
  <2> QED
    BY <2>1, <2>2, <2>3, <2>4, <2>5, <2>6, <2>7, <2>8 DEF B!Step, B!DropBackups, B!ClearHistory
<1>2. HistoryTyped'
  <2> USE DEF BackupsInv
  <2>1. ASSUME NEW f \in Originals, B!SaveBackup(f) PROVE HistoryTyped'
    <3>1. original[f] \in B!Contents
      BY <2>1 DEF B!SaveBackup, BackupsTyped
    <3>2. B!Pushed(f, original[f]) \in Seq(B!Contents) /\ Len(B!Pushed(f, original[f])) <= MaxHistory
      BY <3>1, PushedTypes
    <3>3. history' = [history EXCEPT ![f] = B!Pushed(f, original[f])]
      BY <2>1 DEF B!SaveBackup
    <3> QED
      BY <3>2, <3>3 DEF HistoryTyped
  <2>2. CASE B!ClearHistory
    <3>1. history' = [f \in Originals |-> <<>>] /\ MaxHistory \in Nat
      BY <2>2, ConstantsAssumption DEF B!ClearHistory, B!BackupsAssumption
    <3> QED
      BY <3>1, EmptySeq DEF HistoryTyped
  <2>3. ASSUME UNCHANGED history PROVE HistoryTyped'
    BY <2>3 DEF HistoryTyped
  <2> QED
    BY <2>1, <2>2, <2>3
       DEF B!Step, B!Open, B!Close, B!Revert, B!DeleteRemote, B!DeleteSelection, B!Restore,
           B!FirstBackup,
       B!Write, B!BackupFirst, B!Delete, B!RestoreCopy, B!DropBackups, B!client
<1>3. BackupsTyped'
  <2> USE DEF BackupsInv, BackupsTyped
  <2>1. ASSUME NEW f \in Originals, B!Open(f) \/ B!Close(f) \/ B!SaveBackup(f)
        PROVE  BackupsTyped'
    <3>1. content' = content /\ backups' = backups
      BY <2>1 DEF B!Open, B!Close, B!SaveBackup, B!server
    <3>2. original' \in [Originals -> B!Contents \cup {None}]
      BY <2>1 DEF B!Open, B!Close, B!SaveBackup
    <3>3. versions' \in [Originals -> 0 .. MaxVersions]
      <4>1. UNCHANGED versions \/ (versions[f] < MaxVersions /\ versions' = [versions EXCEPT ![f] = @ + 1])
        BY <2>1 DEF B!Open, B!Close, B!SaveBackup, B!server
      <4>2. versions \in [Originals -> 0 .. MaxVersions] /\ MaxVersions \in Nat
        BY ConstantsAssumption DEF B!BackupsAssumption
      <4> HIDE DEF BackupsInv, BackupsTyped
      <4> QED
        BY <4>1, <4>2
    <3> QED
      BY <3>1, <3>2, <3>3
  <2>2. ASSUME NEW task \in tasks, B!Copied(task.of) PROVE backups' \in Seq(S)
    BY <2>2 DEF B!Copied, TasksTyped, B!Tasks
  <2>3. ASSUME NEW task \in tasks, B!FirstBackup(task) \/ B!BackupFirst(task)
        PROVE  BackupsTyped'
    BY <2>2, <2>3 DEF B!FirstBackup, B!BackupFirst, B!server, B!client
  <2>4. ASSUME NEW task \in tasks, B!Write(task) \/ B!Delete(task) \/ B!RestoreCopy(task)
        PROVE  BackupsTyped'
    <3>1. task.of \in Originals /\ task.what \in B!Contents \cup {None}
      BY DEF TasksTyped, B!Tasks
    <3>2. UNCHANGED <<versions, backups>>
      BY <2>4 DEF B!Write, B!Delete, B!RestoreCopy, B!client
    <3>3. content' \in [Originals -> B!Contents \cup {None}]
      BY <2>4, <3>1 DEF B!Write, B!Delete, B!RestoreCopy
    <3>4. UNCHANGED original \/ B!Remembered(task.of)
      BY <2>4 DEF B!Write, B!Delete, B!RestoreCopy, B!client
    <3>5. original' \in [Originals -> B!Contents \cup {None}]
      BY <3>1, <3>3, <3>4 DEF B!Remembered
    <3>6. versions' \in [Originals -> 0 .. MaxVersions] /\ backups' \in Seq(S)
      BY <3>2
    <3> QED
      BY <3>3, <3>5, <3>6
  <2>5. ASSUME NEW k \in DOMAIN backups, B!DropBackups(B!RemoveAt(backups, k))
        PROVE  BackupsTyped'
    <3>1. backups' \in Seq(S)
      BY <2>5, RemovedTypes DEF B!DropBackups
    <3> QED
      BY <2>5, <3>1 DEF B!DropBackups, B!server, B!client
  <2>6. CASE B!DropBackups(<<>>)
    <3>1. backups' \in Seq(S)
      BY <2>6, EmptySeq DEF B!DropBackups
    <3> QED
      BY <2>6, <3>1 DEF B!DropBackups, B!server, B!client
  <2>7. ASSUME UNCHANGED <<content, versions, original, backups>> PROVE BackupsTyped'
    BY <2>7
  <2> QED
    BY <2>1, <2>3, <2>4, <2>5, <2>6, <2>7
       DEF B!Step, B!Revert, B!DeleteRemote, B!DeleteSelection, B!Restore,
       B!ClearHistory, B!server, B!client
<1> QED
  BY <1>1, <1>2, <1>3

\* Nothing is backed up.
LEMMA BackupsInit == B!Init => BackupsInv
<1> SUFFICES ASSUME B!Init PROVE BackupsInv
  OBVIOUS
<1> USE ConstantsAssumption DEF B!Init, B!BackupsAssumption
<1>1. BackupsTyped
  <2>1. \A f \in Originals : <<f, 0>> \in B!Contents
    BY DEF B!Contents
  <2>2. backups \in Seq([of : Originals, holds : B!Contents])
    BY EmptySeq
  <2> QED
    BY <2>1, <2>2 DEF BackupsTyped
<1>2. HistoryTyped
  BY EmptySeq DEF HistoryTyped
<1>3. TasksTyped
  BY DEF TasksTyped
<1>4. overtaken \subseteq tasks
  OBVIOUS
<1> QED
  BY <1>1, <1>2, <1>3, <1>4 DEF BackupsInv

\* Every step keeps the types.
LEMMA BackupsStep == BackupsInv /\ [B!Next]_bVars => BackupsInv'
<1>1. BackupsInv /\ UNCHANGED bVars => BackupsInv'
  BY DEF BackupsInv, BackupsTyped, TasksTyped, HistoryTyped, bVars
<1>2. BackupsInv /\ B!Next => BackupsInv'
  BY BackupsTypes DEF BackupsInv, B!Next
<1> QED
  BY <1>1, <1>2

\* They are those of Backups.
LEMMA BackupsFollow == BackupsInv => B!TypeOK
<1> SUFFICES ASSUME BackupsInv PROVE B!TypeOK
  OBVIOUS
<1> DEFINE S == [of : Originals, holds : B!Contents]
<1>1. ASSUME NEW b \in B!Range(backups) PROVE b.of \in Originals /\ b.holds \in B!Contents
  <2>1. backups \in Seq(S)
    BY DEF BackupsInv, BackupsTyped
  <2>2. ASSUME NEW x \in DOMAIN backups PROVE backups[x] \in S
    <3> HIDE DEF S
    <3> QED
      BY <2>1
  <2> QED
    BY <2>2 DEF B!Range
<1> QED
  BY <1>1 DEF BackupsInv, BackupsTyped, TasksTyped, HistoryTyped, B!TypeOK

\* The content an upload that nothing has overtaken is about to replace, when it
\* is the one the editor had read, is in the local history.
UploadsKept ==
    \A task \in tasks \ overtaken :
        task.do = "upload" /\ content[task.of] # None /\ content[task.of] = original[task.of] =>
            content[task.of] \in B!Range(history[task.of]) \/ history[task.of] = <<>>

\* The inductive invariant of the backups.
KeptInv == BackupsInv /\ UploadsKept

\* What a step does to the local history of a file.
LEMMA HistoryChanges ==
    ASSUME BackupsInv, B!Step, NEW f \in Originals
    PROVE  \/ history'[f] = history[f]
           \/ history'[f] = <<>>
           \/ original[f] \in B!Contents /\ history'[f] = B!Pushed(f, original[f])
<1>1. ASSUME NEW g \in Originals, B!SaveBackup(g)
      PROVE  \/ history'[f] = history[f]
             \/ original[f] \in B!Contents /\ history'[f] = B!Pushed(f, original[f])
  <2>1. history' = [history EXCEPT ![g] = B!Pushed(g, original[g])] /\ original[g] # None
    BY <1>1 DEF B!SaveBackup
  <2>2. DOMAIN history = Originals /\ original[g] \in B!Contents
    BY <2>1 DEF BackupsInv, HistoryTyped, BackupsTyped
  <2> QED
    BY <2>1, <2>2
<1>2. CASE B!ClearHistory
  BY <1>2 DEF B!ClearHistory
<1>3. ASSUME UNCHANGED history PROVE history'[f] = history[f]
  BY <1>3
<1> QED
  BY <1>1, <1>2, <1>3
     DEF B!Step, B!Open, B!Close, B!Revert, B!DeleteRemote, B!DeleteSelection, B!Restore,
         B!FirstBackup, B!Write, B!BackupFirst, B!Delete, B!RestoreCopy, B!DropBackups, B!client

\* An upload begins with saveBackup of what the mapping remembers.
LEMMA UploadsBegin ==
    ASSUME BackupsInv, B!Step, NEW task \in tasks' \ tasks, task.do = "upload"
    PROVE  /\ original[task.of] \in B!Contents /\ UNCHANGED <<content, original>>
           /\ history'[task.of] = B!Pushed(task.of, original[task.of])
<1>1. ASSUME NEW new, B!Begin(new) PROVE task = new
  BY <1>1 DEF B!Begin
<1>2. ASSUME NEW old, B!End(old) PROVE FALSE
  BY <1>2 DEF B!End
<1>3. ASSUME NEW f \in Originals, B!SaveBackup(f)
      PROVE  /\ original[task.of] \in B!Contents /\ UNCHANGED <<content, original>>
             /\ history'[task.of] = B!Pushed(task.of, original[task.of])
  <2>1. task.of = f
    BY <1>1, <1>3 DEF B!SaveBackup, B!Task
  <2>2. original[f] \in B!Contents /\ DOMAIN history = Originals
    BY <1>3 DEF B!SaveBackup, BackupsInv, BackupsTyped, HistoryTyped
  <2> QED
    BY <1>3, <2>1, <2>2 DEF B!SaveBackup
<1>4. ASSUME NEW f \in Originals,
             B!Open(f) \/ B!Close(f) \/ B!DeleteRemote(f) \/ B!DeleteSelection(f)
      PROVE  FALSE
  BY <1>1, <1>4 DEF B!Open, B!Close, B!DeleteRemote, B!DeleteSelection, B!Task
<1>5. ASSUME NEW f \in Originals, NEW k, B!Revert(f, k) PROVE FALSE
  BY <1>1, <1>5 DEF B!Revert, B!Task
<1>6. ASSUME NEW f \in Originals, NEW b, B!Restore(f, b) PROVE FALSE
  BY <1>1, <1>6 DEF B!Restore, B!Task
<1>7. ASSUME NEW old \in tasks,
             B!FirstBackup(old) \/ B!Write(old) \/ B!Delete(old) \/ B!RestoreCopy(old)
      PROVE  FALSE
  BY <1>2, <1>7 DEF B!FirstBackup, B!Write, B!Delete, B!RestoreCopy
<1>8. ASSUME NEW old \in tasks, B!BackupFirst(old) PROVE FALSE
  <2>1. task = B!Task(old.then, "none", old.of, old.what)
    BY <1>8 DEF B!BackupFirst
  <2>2. old.then # "upload"
    BY DEF BackupsInv, TasksTyped, B!Tasks
  <2> QED
    BY <2>1, <2>2 DEF B!Task
<1>9. ASSUME UNCHANGED tasks PROVE FALSE
  BY <1>9
<1> QED
  BY <1>3, <1>4, <1>5, <1>6, <1>7, <1>8, <1>9 DEF B!Step, B!DropBackups, B!ClearHistory

\* Every step keeps what the uploads under way will replace in the local history.
LEMMA UploadsKeptStep ==
    ASSUME KeptInv, B!Next
    PROVE  UploadsKept'
<1> SUFFICES ASSUME NEW task \in tasks' \ overtaken', task.do = "upload",
                    content'[task.of] # None, content'[task.of] = original'[task.of]
             PROVE  \/ content'[task.of] \in B!Range(history'[task.of])
                    \/ history'[task.of] = <<>>
  BY DEF UploadsKept
<1> DEFINE f == task.of
<1>1. BackupsInv /\ BackupsInv' /\ B!Step
  BY BackupsStep DEF KeptInv, B!Next
<1>2. f \in Originals
  BY <1>1 DEF BackupsInv, TasksTyped, B!Tasks
<1>3. ASSUME original[f] \in B!Contents, history'[f] = B!Pushed(f, original[f]),
             content'[f] = original[f]
      PROVE  content'[f] \in B!Range(history'[f])
  <2>1. original[f] \in B!Range(B!Pushed(f, original[f]))
    BY <1>1, <1>2, <1>3, PushedTypes
  <2> QED
    BY <1>3, <2>1
<1>4. CASE task \notin tasks
  <2>1. /\ original[f] \in B!Contents /\ content'[f] = original[f]
        /\ history'[f] = B!Pushed(f, original[f])
    BY <1>1, <1>4, UploadsBegin
  <2> QED
    BY <1>3, <2>1
<1>5. CASE task \in tasks
  <2>1. task \notin overtaken /\ content'[f] = content[f] /\ original'[f] = original[f]
    BY <1>5 DEF B!Next, B!Touched
  <2>2. content[f] \in B!Range(history[f]) \/ history[f] = <<>>
    BY <1>5, <2>1 DEF KeptInv, UploadsKept
  <2>3. CASE original[f] \in B!Contents /\ history'[f] = B!Pushed(f, original[f])
    BY <1>3, <2>1, <2>3
  <2>4. CASE history'[f] = history[f]
    BY <2>1, <2>2, <2>4
  <2> QED
    BY <1>1, <1>2, <2>3, <2>4, HistoryChanges
<1> QED
  BY <1>4, <1>5

\* A step of backups from the invariant keeps what an upload replaces.
LEMMA UploadKeepsStep ==
    ASSUME KeptInv, [B!Next]_bVars
    PROVE  /\ KeptInv'
           /\ \A task \in (tasks \ tasks') \ overtaken :
                 task.do = "upload" /\ content'[task.of] # content[task.of]
                   /\ content[task.of] # None /\ content[task.of] = original[task.of] =>
                     \/ content[task.of] \in B!Range(history[task.of])
                     \/ history[task.of] = <<>>
<1>1. KeptInv'
  <2>1. CASE UNCHANGED bVars
    BY <2>1, BackupsStep DEF KeptInv, UploadsKept, bVars
  <2>2. CASE B!Next
    BY <2>2, BackupsStep, UploadsKeptStep DEF KeptInv
  <2> QED
    BY <2>1, <2>2
<1> QED
  BY <1>1 DEF KeptInv, UploadsKept

------------------------------------------------------------------------------
(* The components together *)

\* A step of all of them is a step of each, or leaves it alone.
LEMMA OneComponent ==
    ASSUME [Next]_vars
    PROVE  [D!Next]_dVars /\ [L!Next]_lVars /\ [B!Next]_bVars /\ [M!Next]_mVars /\ [T!Next]_tVars
BY DEF Next, vars

------------------------------------------------------------------------------
(* Copies and moves: the name of a copy *)

\* nextCopyName gives a name that is not known.
LEMMA FreshName ==
    ASSUME NEW n \in M!Names, NEW known,
           n \notin known \/ (n + 1 .. MaxName) \ known # {}
    PROVE  M!NextCopyName(n, known) \in M!Names /\ M!NextCopyName(n, known) \notin known
<1> DEFINE S == (n + 1 .. MaxName) \ known
<1>1. MaxName \in Nat /\ n \in 0 .. MaxName
  BY ConstantsAssumption DEF M!MovesAssumption, M!Names
<1>2. S \subseteq Nat /\ S \subseteq M!Names
  BY <1>1 DEF M!Names
<1>3. CASE n \in known
  <2>1. \E m \in S : \A o \in S : m <= o
    <3> HIDE DEF S
    <3> QED
      BY <1>2, <1>3, Least DEF S
  <2>2. M!NextCopyName(n, known) = CHOOSE m \in S : \A o \in S : m <= o
    BY <1>3 DEF M!NextCopyName
  <2>3. M!NextCopyName(n, known) \in S
    <3> HIDE DEF S
    <3> QED
      BY <2>1, <2>2
  <2> QED
    BY <1>2, <2>3
<1>4. CASE n \notin known
  BY <1>4 DEF M!NextCopyName
<1> QED
  BY <1>3, <1>4

------------------------------------------------------------------------------
(* Copies and moves: types *)

\* The entries of every folder, no two the same part under the same name.
Apart(set) == \A d, e \in set : d.name = e.name /\ d.part = e.part => d = e
TreeFolders == Folders # {} /\ tree \in [Folders -> SUBSET M!Entry]
NamesTellApart == \A l \in Folders : Apart(tree[l])

\* An item under way, and a paste or drop.
Doing == [step : {"call", "copy", "done", "remove"}, from : M!Paths, as : M!Names, left : SUBSET M!Parts]
Work  == [op : {"idle", "copy", "cut", "drop"}, todo : Seq(M!Paths), to : Folders,
          known : SUBSET M!Names, doing : Doing \cup {M!NoItem}, cancelled : BOOLEAN]

JobsTyped == job \in [Jobs -> Work]
ClipboardTyped == clipboard \in [items : Seq(M!Paths), op : {"copy", "cut"}]
OpenTyped == moveMapping \subseteq [item : Items, path : M!Paths] /\ creating \subseteq M!Paths
CommandsTyped == stale \subseteq Jobs /\ commands \in 0 .. MaxCommands

\* The types, with the names of a folder told apart.
MovesInv ==
    TreeFolders /\ NamesTellApart /\ JobsTyped /\ ClipboardTyped /\ OpenTyped /\ CommandsTyped

\* What a step does to the entries.
Rename(from, to) == M!Lands(from, to) /\ tree' = M!Moved(from, to)
CopyOver(from, to) ==
    M!Lands(from, to) /\ tree' = [tree EXCEPT ![to[1]] = M!Laid(@, M!Landing(from, to))]
Create(path, i) ==
    /\ M!At(path) = {} /\ i \in Items
    /\ tree' = [tree EXCEPT ![path[1]] =
                   @ \cup {[name |-> path[2], part |-> p, of |-> i] : p \in M!PartsOf(i)}]
Put(path, part, i) == tree' = M!Written(path, part, i)
Drop(path, gone) == gone \subseteq M!At(path) /\ tree' = [tree EXCEPT ![path[1]] = @ \ gone]

\* Every step does one of these.
TreeChange ==
    \/ UNCHANGED tree
    \/ \E from, to \in M!Paths : Rename(from, to) \/ CopyOver(from, to)
    \/ \E path \in M!Paths : \E i \in Items : Create(path, i)
    \/ \E path \in M!Paths : \E part \in M!Parts : \E i \in Items \cup {None} : Put(path, part, i)
    \/ \E path \in M!Paths : \E gone \in SUBSET M!At(path) : Drop(path, gone)

\* The numbers of names and parts.
LEMMA PartTypes ==
    /\ MaxName \in Nat /\ MaxCommands \in Nat
    /\ M!Names = 0 .. MaxName /\ M!Parts = 0 .. 2 * MaxName + 3 /\ 0 .. 1 \subseteq M!Parts
    /\ \A n \in M!Names, part \in 0 .. 1 : M!Inside(n, part) \in M!Parts
BY ConstantsAssumption DEF M!MovesAssumption, M!Names, M!Parts, M!Inside

\* The item under way has a source and a target.
LEMMA JobTargets ==
    ASSUME JobsTyped, NEW j \in Jobs, job[j].doing.step \in {"call", "copy", "done", "remove"}
    PROVE  /\ job[j].doing \in Doing
           /\ job[j].doing.from \in M!Paths
           /\ M!Target(j) \in M!Paths
           /\ M!Target(j) = <<job[j].to, job[j].doing.as>>
           /\ job[j].doing.left \subseteq M!Parts
BY DEF JobsTyped, Work, Doing, M!NoItem, M!Target, M!Paths

\* No step does anything else to the entries.
LEMMA TreeChanges ==
    ASSUME MovesInv, M!Step
    PROVE  TreeChange
<1> USE DEF TreeChange
<1>1. ASSUME NEW path \in M!Paths, NEW i \in Items, M!CreateFolder(path, i) PROVE TreeChange
  BY <1>1 DEF M!CreateFolder, Create
<1>2. ASSUME NEW path \in M!Paths, NEW i \in Items, M!CreateFile(path, i) PROVE TreeChange
  BY <1>2, PartTypes DEF M!CreateFile, Put
<1>3. ASSUME NEW from \in M!Paths, NEW to \in M!Paths, M!RenameRemote(from, to) PROVE TreeChange
  BY <1>3 DEF M!RenameRemote, Rename, M!MayMove
<1>4. ASSUME NEW j \in Jobs, M!RemoteCall(j) PROVE TreeChange
  <2>1. job[j].doing.from \in M!Paths /\ M!Target(j) \in M!Paths /\ M!Target(j) = <<job[j].to, job[j].doing.as>>
    BY <1>4, JobTargets DEF M!RemoteCall, MovesInv
  <2> QED
    BY <1>4, <2>1 DEF M!RemoteCall, Rename, CopyOver, M!MayMove, M!MayCopy
<1>5. ASSUME NEW j \in Jobs, NEW part \in M!Parts, M!CopyPart(j, part) PROVE TreeChange
  <2>1. M!Target(j) \in M!Paths
    BY <1>5, JobTargets DEF M!CopyPart, MovesInv
  <2>2. PICK e \in M!At(job[j].doing.from) : UNCHANGED tree \/ Put(M!Target(j), part, e.of)
    BY <1>5 DEF M!CopyPart, Put
  <2>3. e.of \in Items \cup {None}
    <3>1. job[j].doing.from[1] \in Folders
      BY <1>5, JobTargets DEF M!CopyPart, MovesInv, M!Paths
    <3> QED
      BY <3>1 DEF M!At, MovesInv, TreeFolders, M!Entry
  <2> QED
    BY <2>1, <2>2, <2>3
<1>6. ASSUME NEW j \in Jobs, M!CopyBreaks(j) PROVE TreeChange
  <2>1. M!Target(j) \in M!Paths /\ job[j].doing.left \subseteq M!Parts
    BY <1>6, JobTargets DEF M!CopyBreaks, MovesInv
  <2> QED
    BY <1>6, <2>1 DEF M!CopyBreaks, M!Breaks, Put
<1>7. ASSUME NEW j \in Jobs, NEW gone \in SUBSET M!At(job[j].doing.from), M!RemoveSource(j, gone)
      PROVE  TreeChange
  <2>1. job[j].doing.from \in M!Paths
    BY <1>7, JobTargets DEF M!RemoveSource, MovesInv
  <2> QED
    BY <1>7, <2>1 DEF M!RemoveSource, Drop
<1>8. ASSUME UNCHANGED tree PROVE TreeChange
  BY <1>8
<1> HIDE DEF TreeChange
<1> QED
  BY <1>1, <1>2, <1>3, <1>4, <1>5, <1>6, <1>7, <1>8
     DEF M!Step, M!Command, M!JobNext, M!Open, M!CheckFree,
     M!SetClipboard, M!ClearClipboard, M!Paste, M!Drop, M!Begin, M!Take, M!Copied, M!Cancel,
     M!Finish

\* Part e of the source lands as n, under the name of the target or inside its
\* directory.
LandsAs(e, n, from, to) ==
    /\ n = [e EXCEPT !.name = to[2], !.part = n.part] /\ n.of = e.of /\ n.name = to[2]
    /\ n.part = IF M!IsDir(to) THEN M!Inside(from[2], e.part) ELSE e.part

\* What lands are the parts of the source.
LEMMA LandingIs ==
    ASSUME TreeFolders, NEW from \in M!Paths, NEW to \in M!Paths, M!Lands(from, to)
    PROVE  /\ M!Landing(from, to) \subseteq M!Entry
           /\ \A n \in M!Landing(from, to) : \E e \in M!At(from) : LandsAs(e, n, from, to)
           /\ \A e \in M!At(from) : \E n \in M!Landing(from, to) : LandsAs(e, n, from, to)
<1>1. from[1] \in Folders /\ from[2] \in M!Names /\ to[1] \in Folders /\ to[2] \in M!Names
  BY DEF M!Paths
<1> DEFINE part(e) == IF M!IsDir(to) THEN M!Inside(from[2], e.part) ELSE e.part
           land(e) == [e EXCEPT !.name = to[2], !.part = part(e)]
<1>2. ASSUME NEW e \in M!At(from)
      PROVE  land(e) \in M!Entry /\ LandsAs(e, land(e), from, to)
  <2>1. e \in M!Entry
    BY <1>1 DEF M!At, TreeFolders
  <2>2. part(e) \in M!Parts
    <3>1. CASE M!IsDir(to)
      <4>1. e.part \in 0 .. 1
        <5>1. e.part \in Nat /\ e.part <= 1
          BY <2>1, <3>1, PartTypes DEF M!Lands, M!Entry, M!IsDir
        <5> QED
          BY <5>1
      <4> QED
        BY <1>1, <3>1, <4>1, PartTypes
    <3>2. CASE ~M!IsDir(to)
      BY <2>1, <3>2 DEF M!Entry
    <3> QED
      BY <3>1, <3>2
  <2>3. PICK p \in M!Parts : p = part(e)
    BY <2>2
  <2>4. PICK n \in M!Names : n = to[2]
    BY <1>1
  <2>5. land(e) = [e EXCEPT !.name = n, !.part = p]
    BY <2>3, <2>4
  <2>6. PICK x : x = land(e)
    OBVIOUS
  <2>7. x = [e EXCEPT !.name = n, !.part = p] /\ x \in M!Entry /\ x.of = e.of /\ x.name = n /\ x.part = p
    <3> HIDE DEF land, part
    <3> QED
      BY <2>1, <2>5, <2>6 DEF M!Entry
  <2>8. p = IF M!IsDir(to) THEN M!Inside(from[2], e.part) ELSE e.part
    BY <2>3
  <2> HIDE DEF land, part
  <2>9. LandsAs(e, x, from, to)
    BY <2>4, <2>7, <2>8 DEF LandsAs
  <2> QED
    BY <2>6, <2>7, <2>9
<1>3. M!Landing(from, to) = {land(e) : e \in M!At(from)}
  BY DEF M!Landing
<1> HIDE DEF land
<1> QED
  BY <1>2, <1>3

\* They are told apart as those of the source are.
LEMMA LandingApart ==
    ASSUME TreeFolders, NamesTellApart, NEW from \in M!Paths, NEW to \in M!Paths, M!Lands(from, to)
    PROVE  Apart(M!Landing(from, to))
<1> SUFFICES ASSUME NEW d \in M!Landing(from, to), NEW e \in M!Landing(from, to), d.part = e.part
             PROVE  d = e
  BY DEF Apart
<1>1. from[1] \in Folders /\ from[2] \in M!Names
  BY DEF M!Paths
<1>2. PICK x \in M!At(from) : LandsAs(x, d, from, to)
  BY LandingIs
<1>3. PICK y \in M!At(from) : LandsAs(y, e, from, to)
  BY LandingIs
<1>4. x.part \in Nat /\ y.part \in Nat /\ from[2] \in Nat
  BY <1>1, PartTypes DEF M!At, TreeFolders, M!Entry
<1>5. x.part = y.part
  <2>1. CASE M!IsDir(to)
    <3>1. M!Inside(from[2], x.part) = M!Inside(from[2], y.part)
      BY <1>2, <1>3, <2>1 DEF LandsAs
    <3> QED
      BY <1>4, <3>1 DEF M!Inside
  <2>2. CASE ~M!IsDir(to)
    BY <1>2, <1>3, <2>2 DEF LandsAs
  <2> QED
    BY <2>1, <2>2
<1>6. x = y
  BY <1>1, <1>5 DEF M!At, NamesTellApart, Apart
<1>7. d = [x EXCEPT !.name = to[2], !.part = d.part] /\ e = [y EXCEPT !.name = to[2], !.part = e.part]
  BY <1>2, <1>3 DEF LandsAs
<1> QED
  BY <1>6, <1>7

\* What is laid in a folder is told apart from what stays there.
LEMMA LaidApart ==
    ASSUME NEW there, NEW new, Apart(there), Apart(new)
    PROVE  /\ M!Laid(there, new) \subseteq there \cup new
           /\ Apart(M!Laid(there, new))
<1>1. M!Laid(there, new) \subseteq there \cup new
  BY DEF M!Laid
<1>2. ASSUME NEW d \in M!Laid(there, new), NEW e \in M!Laid(there, new), d.name = e.name, d.part = e.part,
             d \in there, e \in new, d # e
      PROVE  FALSE
  <2>1. CASE d \in new
    BY <1>2, <2>1 DEF Apart
  <2>2. CASE e \in there
    BY <1>2, <2>2 DEF Apart
  <2>3. CASE d \notin new /\ e \notin there
    BY <1>2, <2>3 DEF M!Laid, M!SameSlot
  <2> QED
    BY <2>1, <2>2, <2>3
<1>3. ASSUME NEW d \in M!Laid(there, new), NEW e \in M!Laid(there, new), d.name = e.name, d.part = e.part
      PROVE  d = e
  BY <1>1, <1>2, <1>3 DEF Apart
<1> QED
  BY <1>1, <1>3 DEF Apart

\* None of the changes gives two entries of a folder one name and part.
LEMMA TreeKept ==
    ASSUME TreeFolders, NamesTellApart, TreeChange
    PROVE  TreeFolders' /\ NamesTellApart'
<1>1. ASSUME NEW from \in M!Paths, NEW to \in M!Paths, Rename(from, to)
      PROVE  TreeFolders' /\ NamesTellApart'
  <2>1. Apart(M!Landing(from, to)) /\ M!Landing(from, to) \subseteq M!Entry
    BY <1>1, LandingIs, LandingApart DEF Rename
  <2>2. ASSUME NEW l \in Folders PROVE tree'[l] \subseteq M!Entry /\ Apart(tree'[l])
    <3> DEFINE stays == IF l = from[1] THEN tree[l] \ M!At(from) ELSE tree[l]
    <3>1. stays \subseteq M!Entry /\ Apart(stays)
      BY DEF TreeFolders, NamesTellApart, Apart
    <3>2. tree'[l] = IF l = to[1] THEN M!Laid(stays, M!Landing(from, to)) ELSE stays
      BY <1>1 DEF Rename, M!Moved
    <3> HIDE DEF stays
    <3> QED
      BY <2>1, <3>1, <3>2, LaidApart
  <2>3. tree' = [l \in Folders |-> tree'[l]]
    BY <1>1 DEF Rename, M!Moved
  <2> QED
    BY <2>2, <2>3 DEF TreeFolders, NamesTellApart
<1>0. ASSUME NEW l \in Folders, NEW s, s \subseteq M!Entry, Apart(s), tree' = [tree EXCEPT ![l] = s]
      PROVE  TreeFolders' /\ NamesTellApart'
  BY <1>0 DEF TreeFolders, NamesTellApart
<1>2. ASSUME NEW from \in M!Paths, NEW to \in M!Paths, CopyOver(from, to)
      PROVE  TreeFolders' /\ NamesTellApart'
  <2>1. Apart(M!Landing(from, to)) /\ M!Landing(from, to) \subseteq M!Entry
    BY <1>2, LandingIs, LandingApart DEF CopyOver
  <2>2. to[1] \in Folders /\ tree[to[1]] \subseteq M!Entry /\ Apart(tree[to[1]])
    BY DEF TreeFolders, NamesTellApart, M!Paths
  <2>3. PICK s : s = M!Laid(tree[to[1]], M!Landing(from, to))
    OBVIOUS
  <2>4. s \subseteq M!Entry /\ Apart(s)
    BY <2>1, <2>2, <2>3, LaidApart
  <2>5. tree' = [tree EXCEPT ![to[1]] = s]
    BY <1>2, <2>3 DEF CopyOver
  <2> QED
    BY <1>0, <2>2, <2>4, <2>5
<1>3. ASSUME NEW path \in M!Paths, NEW i \in Items, Create(path, i)
      PROVE  TreeFolders' /\ NamesTellApart'
  <2>1. path[1] \in Folders /\ path[2] \in M!Names
    BY DEF M!Paths
  <2>2. PICK s : s = tree[path[1]] \cup {[name |-> path[2], part |-> p, of |-> i] : p \in M!PartsOf(i)}
    OBVIOUS
  <2>3. M!PartsOf(i) \subseteq M!Parts
    BY PartTypes DEF M!PartsOf
  <2>4. s \subseteq M!Entry
    BY <2>1, <2>2, <2>3 DEF TreeFolders, M!Entry
  <2>5. Apart(s)
    BY <1>3, <2>1, <2>2 DEF Create, M!At, NamesTellApart, Apart
  <2> QED
    BY <1>0, <1>3, <2>1, <2>2, <2>4, <2>5 DEF Create
<1>4. ASSUME NEW path \in M!Paths, NEW part \in M!Parts, NEW i \in Items \cup {None}, Put(path, part, i)
      PROVE  TreeFolders' /\ NamesTellApart'
  <2>1. path[1] \in Folders /\ path[2] \in M!Names
    BY DEF M!Paths
  <2>2. M!Part(path, part, i) \in M!Entry /\ Apart({M!Part(path, part, i)})
    BY <2>1 DEF M!Part, M!Entry, Apart
  <2>3. PICK s : s = M!Laid(tree[path[1]], {M!Part(path, part, i)})
    OBVIOUS
  <2>4. s \subseteq M!Entry /\ Apart(s)
    BY <2>1, <2>2, <2>3, LaidApart DEF TreeFolders, NamesTellApart
  <2> QED
    BY <1>0, <1>4, <2>1, <2>3, <2>4 DEF Put, M!Written
<1>5. ASSUME NEW path \in M!Paths, NEW gone \in SUBSET M!At(path), Drop(path, gone)
      PROVE  TreeFolders' /\ NamesTellApart'
  <2>1. PICK l \in Folders : l = path[1]
    BY DEF M!Paths
  <2>2. tree[l] \ gone \subseteq M!Entry /\ Apart(tree[l] \ gone)
    BY DEF TreeFolders, NamesTellApart, Apart
  <2> QED
    BY <1>0, <1>5, <2>1, <2>2 DEF Drop
<1>6. CASE UNCHANGED tree
  BY <1>6 DEF TreeFolders, NamesTellApart
<1> QED
  BY <1>1, <1>2, <1>3, <1>4, <1>5, <1>6 DEF TreeChange

\* A selection is a sequence of paths.
LEMMA SelectionTypes == \A s \in M!Selections : s \in Seq(M!Paths)
BY ConstantsAssumption DEF M!Selections, M!MovesAssumption

\* Every step keeps the clipboard and the mappings what they are.
LEMMA ClipboardKept ==
    ASSUME MovesInv, M!Step
    PROVE  ClipboardTyped' /\ OpenTyped'
<1> USE DEF MovesInv, ClipboardTyped, OpenTyped
<1>0. ASSUME UNCHANGED <<clipboard, creating>>, UNCHANGED moveMapping PROVE ClipboardTyped' /\ OpenTyped'
  BY <1>0
<1>1. ASSUME NEW items \in M!Selections, NEW op \in {"copy", "cut"}, M!SetClipboard(items, op)
      PROVE  ClipboardTyped' /\ OpenTyped'
  BY <1>1, SelectionTypes DEF M!SetClipboard
<1>2. M!Empty \in [items : Seq(M!Paths), op : {"copy", "cut"}]
  BY EmptySeq DEF M!Empty
<1>3. ASSUME NEW path \in M!Paths, M!Open(path) PROVE ClipboardTyped' /\ OpenTyped'
  BY <1>3 DEF M!Open
<1>4. ASSUME NEW path \in M!Paths, M!CheckFree(path) PROVE ClipboardTyped' /\ OpenTyped'
  BY <1>4 DEF M!CheckFree
<1>5. ASSUME NEW from \in M!Paths, NEW to \in M!Paths, M!RenameRemote(from, to)
      PROVE  ClipboardTyped' /\ OpenTyped'
  BY <1>5 DEF M!RenameRemote, M!MappingMoved
<1>6. ASSUME NEW path \in M!Paths, NEW i \in Items, M!CreateFile(path, i) \/ M!CreateFolder(path, i)
      PROVE  ClipboardTyped' /\ OpenTyped'
  BY <1>6 DEF M!CreateFile, M!CreateFolder
<1>7. CASE M!ClearClipboard
  BY <1>2, <1>7 DEF M!ClearClipboard
<1>8. ASSUME NEW j \in Jobs, NEW l \in Folders,
             M!Paste(j, l) \/ \E items \in M!Selections : M!Drop(j, l, items)
      PROVE  ClipboardTyped' /\ OpenTyped'
  BY <1>8 DEF M!Paste, M!Drop, M!Begin
<1>9. ASSUME NEW j \in Jobs, M!JobNext(j) PROVE ClipboardTyped' /\ OpenTyped'
  <2>1. CASE M!Finish(j)
    BY <1>2, <2>1 DEF M!Finish
  <2>2. CASE ~M!Finish(j)
    <3>1. UNCHANGED <<clipboard, creating>> /\ UNCHANGED moveMapping
      BY <1>9, <2>2
         DEF M!JobNext, M!Take, M!RemoteCall, M!Copied, M!CopyBreaks,
         M!Cancel, M!CopyPart, M!RemoveSource
    <3> QED
      BY <1>0, <3>1
  <2> QED
    BY <2>1, <2>2
<1> HIDE DEF MovesInv, ClipboardTyped, OpenTyped
<1> QED
  BY <1>1, <1>3, <1>4, <1>5, <1>6, <1>7, <1>8, <1>9 DEF M!Step, M!Command

\* Every step counts the commands, and marks jobs.
LEMMA CommandsKept ==
    ASSUME CommandsTyped, M!Next
    PROVE  CommandsTyped'
BY PartTypes DEF M!Next, M!Step, CommandsTyped

\* A job that rests is a job.
LEMMA IdleTypes == Folders # {} => M!Idle \in Work
BY EmptySeq DEF M!Idle, Work

\* A job that goes on is a job.
LEMMA WorkTypes ==
    ASSUME NEW w \in Work, NEW doing \in Doing \cup {M!NoItem}, NEW todo \in Seq(M!Paths), NEW known \in SUBSET M!Names
    PROVE  /\ [w EXCEPT !.doing = doing] \in Work /\ [w EXCEPT !.cancelled = TRUE] \in Work
           /\ [w EXCEPT !.todo = todo, !.known = known, !.doing = doing] \in Work
BY DEF Work

\* Every step keeps the jobs what they are.
LEMMA JobsKept ==
    ASSUME MovesInv, M!Next
    PROVE  JobsTyped'
<1> USE DEF MovesInv, JobsTyped
<1>a. \A l \in Folders : M!NamesAt(l) \subseteq M!Names
  BY DEF M!NamesAt, TreeFolders, M!Entry
<1>1. ASSUME NEW j \in Jobs, NEW op \in {"copy", "cut", "drop"}, NEW items \in Seq(M!Paths), NEW l \in Folders,
             NEW known \in M!Listings(l), M!Begin(j, op, items, l, known)
      PROVE  JobsTyped'
  <2>1. known \subseteq M!Names
    BY <1>a DEF M!Listings
  <2>2. [M!Idle EXCEPT !.op = op, !.todo = items, !.to = l, !.known = known] \in Work
    BY <2>1, IdleTypes DEF Work, TreeFolders
  <2> QED
    BY <1>1, <2>2 DEF M!Begin
<1>2. ASSUME NEW j \in Jobs, NEW sameHost \in BOOLEAN, M!Take(j, sameHost) PROVE JobsTyped'
  <2> DEFINE entry == Head(job[j].todo)
             as == M!NextCopyName(entry[2], job[j].known)
             doing == [step |-> IF sameHost THEN "call" ELSE "copy", from |-> entry, as |-> as,
                       left |-> {e.part : e \in M!At(entry)}]
  <2>1. job[j].todo \in Seq(M!Paths) /\ job[j].todo # <<>> /\ job[j].known \subseteq M!Names
    BY <1>2 DEF M!Take, Work
  <2>2. entry \in M!Paths /\ Tail(job[j].todo) \in Seq(M!Paths)
    <3> USE <2>1
    <3>1. 1 \in DOMAIN job[j].todo
      OBVIOUS
    <3> QED
      BY <3>1
  <2>3. entry[2] \in M!Names /\ entry[1] \in Folders
    BY <2>2 DEF M!Paths
  <2>4. as \in M!Names
    BY <1>2, <2>3, FreshName DEF M!Take
  <2>5. {e.part : e \in M!At(entry)} \subseteq M!Parts
    BY <2>3 DEF M!At, TreeFolders, M!Entry
  <2>6. doing \in Doing
    BY <2>2, <2>4, <2>5 DEF Doing
  <2>7. job' = [job EXCEPT ![j].todo = Tail(@), ![j].known = @ \cup {as}, ![j].doing = doing]
    BY <1>2 DEF M!Take
  <2> HIDE DEF entry, as, doing
  <2>8. [job[j] EXCEPT !.todo = Tail(job[j].todo), !.known = job[j].known \cup {as}, !.doing = doing] \in Work
    BY <2>1, <2>2, <2>4, <2>6, WorkTypes
  <2> QED
    BY <2>7, <2>8
<1>3. ASSUME NEW j \in Jobs, M!RemoteCall(j) \/ M!Copied(j) \/ M!CopyBreaks(j) PROVE JobsTyped'
  <2>1. job' = [job EXCEPT ![j] = [job[j] EXCEPT !.doing = M!NoItem]]
    BY <1>3 DEF M!RemoteCall, M!Copied, M!CopyBreaks, M!Over
  <2> QED
    BY <2>1, WorkTypes, EmptySeq
<1>4. ASSUME NEW j \in Jobs, NEW gone, M!RemoveSource(j, gone) PROVE JobsTyped'
  <2>1. job' = [job EXCEPT ![j] = [job[j] EXCEPT !.doing = M!NoItem]]
    BY <1>4 DEF M!RemoveSource, M!Over
  <2> QED
    BY <2>1, WorkTypes, EmptySeq
<1>5. ASSUME NEW j \in Jobs, NEW part \in M!Parts, M!CopyPart(j, part) PROVE JobsTyped'
  <2>1. job[j].doing \in Doing
    BY <1>5, JobTargets DEF M!CopyPart
  <2>2. PICK step \in {"copy", "done", "remove"} :
            job' = [job EXCEPT ![j] = [job[j] EXCEPT !.doing =
                       [job[j].doing EXCEPT !.left = job[j].doing.left \ {part}, !.step = step]]]
    BY <1>5 DEF M!CopyPart
  <2>3. [job[j].doing EXCEPT !.left = job[j].doing.left \ {part}, !.step = step] \in Doing
    BY <2>1 DEF Doing
  <2> QED
    BY <2>2, <2>3, WorkTypes, EmptySeq
<1>6. ASSUME NEW j \in Jobs, M!Cancel(j) \/ M!Finish(j) PROVE JobsTyped'
  <2>1. \/ job' = [job EXCEPT ![j] = [job[j] EXCEPT !.cancelled = TRUE]]
        \/ job' = [job EXCEPT ![j] = M!Idle]
    BY <1>6 DEF M!Cancel, M!Finish
  <2>2. [job[j] EXCEPT !.cancelled = TRUE] \in Work
    BY WorkTypes, EmptySeq
  <2> QED
    BY <2>1, <2>2, IdleTypes DEF TreeFolders
<1>7. ASSUME UNCHANGED job PROVE JobsTyped'
  BY <1>7
<1> QED
  <2>1. ASSUME NEW j \in Jobs, NEW l \in Folders, M!Paste(j, l) PROVE JobsTyped'
    BY <1>1, <2>1 DEF M!Paste, ClipboardTyped
  <2>2. ASSUME NEW j \in Jobs, NEW l \in Folders, NEW items \in M!Selections, M!Drop(j, l, items)
        PROVE  JobsTyped'
    BY <1>1, <2>2, SelectionTypes DEF M!Drop
  <2> HIDE DEF JobsTyped, MovesInv
  <2> QED
    BY <1>2, <1>3, <1>4, <1>5, <1>6, <1>7, <2>1, <2>2
       DEF M!Next, M!Step, M!Command, M!JobNext, M!Open, M!CheckFree,
       M!RenameRemote, M!CreateFolder, M!CreateFile, M!SetClipboard, M!ClearClipboard

\* The items where they are at first.
LEMMA MovesInit == M!Init => MovesInv
<1> SUFFICES ASSUME M!Init PROVE MovesInv
  OBVIOUS
<1>1. PICK home \in [Items -> Folders \cup {None}] :
          /\ \A i, k \in Items : home[i] = home[k] /\ home[i] # None => i = k
          /\ \E i \in Items : home[i] # None
          /\ tree = [l \in Folders |->
                        {[name |-> 0, part |-> x[2], of |-> x[1]] :
                            x \in {y \in Items \X (0 .. 1) : home[y[1]] = l /\ y[2] \in M!PartsOf(y[1])}}]
  BY DEF M!Init
<1>2. Folders # {} /\ 0 \in M!Names
  BY <1>1, ConstantsAssumption DEF M!MovesAssumption, M!Names
<1>3. TreeFolders
  <2>1. ASSUME NEW l \in Folders PROVE tree[l] \subseteq M!Entry
    BY <1>1, <1>2, PartTypes DEF M!Entry
  <2> QED
    BY <1>1, <1>2, <2>1 DEF TreeFolders
<1>4. NamesTellApart
  <2> SUFFICES ASSUME NEW l \in Folders, NEW d \in tree[l], NEW e \in tree[l], d.part = e.part
               PROVE  d = e
    BY <1>1 DEF NamesTellApart, Apart
  <2>1. PICK x \in Items \X (0 .. 1) : home[x[1]] = l /\ d = [name |-> 0, part |-> x[2], of |-> x[1]]
    BY <1>1
  <2>2. PICK y \in Items \X (0 .. 1) : home[y[1]] = l /\ e = [name |-> 0, part |-> y[2], of |-> y[1]]
    BY <1>1
  <2>3. x[1] = y[1]
    <3>1. l # None
      BY ConstantsAssumption DEF M!MovesAssumption
    <3> QED
      BY <1>1, <2>1, <2>2, <3>1
  <2> QED
    BY <2>1, <2>2, <2>3
<1>5. JobsTyped
  BY <1>2, IdleTypes DEF M!Init, JobsTyped
<1>6. ClipboardTyped /\ OpenTyped /\ CommandsTyped
  BY EmptySeq, PartTypes DEF M!Init, M!Empty, ClipboardTyped, OpenTyped, CommandsTyped
<1> QED
  BY <1>3, <1>4, <1>5, <1>6 DEF MovesInv

\* Every step keeps the types.
LEMMA MovesStep == MovesInv /\ [M!Next]_mVars => MovesInv'
<1>1. MovesInv /\ UNCHANGED mVars => MovesInv'
  BY DEF MovesInv, TreeFolders, NamesTellApart, Apart, JobsTyped, ClipboardTyped, OpenTyped, CommandsTyped, mVars
<1>2. MovesInv /\ M!Next => MovesInv'
  BY TreeChanges, TreeKept, JobsKept, ClipboardKept, CommandsKept DEF MovesInv, M!Next
<1> QED
  BY <1>1, <1>2

\* They are those of RemoteMoves.
LEMMA MovesFollow == MovesInv => M!TypeOK
BY DEF MovesInv, TreeFolders, JobsTyped, Work, ClipboardTyped, OpenTyped, CommandsTyped, M!TypeOK

------------------------------------------------------------------------------
(* Copies and moves: nothing is lost *)

\* The same part of the same item under a path.
HasCopy(e, path) == \E c \in M!At(path) : c.part = e.part /\ c.of = e.of

\* No part of an item that was held somewhere is held nowhere.
Lossless == \A i \in Items, p \in 0 .. 1 : M!Holds(i, p) => M!Holds(i, p)'

\* What is laid where nothing is in its way is added.
LEMMA LaidFree ==
    ASSUME NEW there, NEW new, \A e \in there, n \in new : ~M!SameSlot(e, n)
    PROVE  M!Laid(there, new) = there \cup new
BY DEF M!Laid

\* A change that moves every part somewhere loses nothing.
LEMMA AllKept ==
    ASSUME \A l \in Folders : \A e \in tree[l] :
               \E k \in Folders : \E c \in tree'[k] : c.of = e.of /\ c.part = e.part
    PROVE  Lossless
BY DEF Lossless, M!Holds

\* Nor does one that only adds.
LEMMA Added ==
    ASSUME \A l \in Folders : tree[l] \subseteq tree'[l]
    PROVE  Lossless
BY AllKept

\* What lands bears the name of the target, and is the source part by part unless
\* a directory is there.
LEMMA LandingNames ==
    ASSUME TreeFolders, NEW from \in M!Paths, NEW to \in M!Paths, M!Lands(from, to)
    PROVE  /\ \A n \in M!Landing(from, to) : n.name = to[2]
           /\ M!At(to) = {} =>
                 \A e \in M!At(from) : \E n \in M!Landing(from, to) : n.of = e.of /\ n.part = e.part
<1>1. ASSUME NEW n \in M!Landing(from, to) PROVE n.name = to[2]
  <2>1. PICK e \in M!At(from) : LandsAs(e, n, from, to)
    BY LandingIs
  <2> QED
    BY <2>1 DEF LandsAs
<1>2. ASSUME M!At(to) = {}, NEW e \in M!At(from)
      PROVE  \E n \in M!Landing(from, to) : n.of = e.of /\ n.part = e.part
  <2>1. PICK n \in M!Landing(from, to) : LandsAs(e, n, from, to)
    BY LandingIs
  <2>2. ~M!IsDir(to)
    BY <1>2 DEF M!IsDir
  <2> QED
    BY <2>1, <2>2 DEF LandsAs
<1> QED
  BY <1>1, <1>2

\* A move to a free path moves every part.
LEMMA MoveToFree ==
    ASSUME TreeFolders, NEW from \in M!Paths, NEW to \in M!Paths, Rename(from, to), M!At(to) = {}
    PROVE  Lossless
<1>t. from[1] \in Folders /\ to[1] \in Folders
  BY DEF M!Paths
<1>1. \A e \in M!At(from) : \E n \in M!Landing(from, to) : n.of = e.of /\ n.part = e.part
  BY LandingNames DEF Rename
<1>2. \A n \in M!Landing(from, to) : n.name = to[2]
  BY LandingNames DEF Rename
<1> DEFINE stays(l) == IF l = from[1] THEN tree[l] \ M!At(from) ELSE tree[l]
<1>3. \A e \in stays(to[1]), n \in M!Landing(from, to) : ~M!SameSlot(e, n)
  BY <1>2 DEF M!SameSlot, M!At
<1>4. tree'[to[1]] = stays(to[1]) \cup M!Landing(from, to)
  BY <1>t, <1>3, LaidFree DEF Rename, M!Moved
<1>5. ASSUME NEW l \in Folders PROVE stays(l) \subseteq tree'[l]
  <2>1. CASE l = to[1]
    BY <1>4, <2>1
  <2>2. CASE l # to[1]
    BY <2>2 DEF Rename, M!Moved
  <2> QED
    BY <2>1, <2>2
<1>6. ASSUME NEW l \in Folders, NEW e \in tree[l]
      PROVE  \E k \in Folders : \E c \in tree'[k] : c.of = e.of /\ c.part = e.part
  <2>1. CASE e \in M!At(from)
    BY <1>t, <1>1, <1>4, <2>1
  <2>2. CASE e \notin M!At(from)
    BY <1>5, <2>2
  <2> QED
    BY <2>1, <2>2
<1> QED
  BY <1>6, AllKept

\* When another change of the entries loses nothing.
LEMMA LosslessChanges ==
    ASSUME TreeFolders
    PROVE  /\ UNCHANGED tree => Lossless
           /\ \A from, to \in M!Paths : Rename(from, to) /\ M!At(to) = {} => Lossless
           /\ \A from, to \in M!Paths : CopyOver(from, to) /\ M!At(to) = {} => Lossless
           /\ \A path \in M!Paths : \A part, i :
                 Put(path, part, i) /\ (\A e \in M!At(path) : e.part # part) => Lossless
           /\ \A path, to \in M!Paths : \A gone :
                 Drop(path, gone) /\ path # to /\ (\A e \in M!At(path) : HasCopy(e, to)) => Lossless
<1>1. UNCHANGED tree => Lossless
  BY Added
<1>2. ASSUME NEW from \in M!Paths, NEW to \in M!Paths, CopyOver(from, to), M!At(to) = {}
      PROVE  Lossless
  <2>1. PICK l \in Folders : l = to[1]
    BY DEF M!Paths
  <2>2. \A e \in tree[l], n \in M!Landing(from, to) : ~M!SameSlot(e, n)
    BY <1>2, <2>1, LandingNames DEF CopyOver, M!SameSlot, M!At
  <2>3. PICK s : s = M!Laid(tree[l], M!Landing(from, to))
    OBVIOUS
  <2>4. tree[l] \subseteq s
    BY <2>2, <2>3, LaidFree
  <2>5. tree' = [tree EXCEPT ![l] = s]
    BY <1>2, <2>1, <2>3 DEF CopyOver
  <2> QED
    BY <2>1, <2>4, <2>5, Added DEF TreeFolders
<1>3. ASSUME NEW path \in M!Paths, NEW part, NEW i, Put(path, part, i), \A e \in M!At(path) : e.part # part
      PROVE  Lossless
  <2>1. PICK l \in Folders : l = path[1]
    BY DEF M!Paths
  <2>2. \A e \in tree[l], n \in {M!Part(path, part, i)} : ~M!SameSlot(e, n)
    BY <1>3, <2>1 DEF M!SameSlot, M!At, M!Part
  <2>3. PICK s : s = M!Laid(tree[l], {M!Part(path, part, i)})
    OBVIOUS
  <2>4. tree[l] \subseteq s
    BY <2>2, <2>3, LaidFree
  <2>5. tree' = [tree EXCEPT ![l] = s]
    BY <1>3, <2>1, <2>3 DEF Put, M!Written
  <2> QED
    BY <2>1, <2>4, <2>5, Added DEF TreeFolders
<1>4. ASSUME NEW path \in M!Paths, NEW to \in M!Paths, NEW gone, Drop(path, gone), path # to,
             \A e \in M!At(path) : HasCopy(e, to)
      PROVE  Lossless
  <2>0. tree' = [tree EXCEPT ![path[1]] = @ \ gone] /\ gone \subseteq M!At(path)
    BY <1>4 DEF Drop
  <2>t. to[1] \in Folders /\ path[1] \in Folders /\ path = <<path[1], path[2]>> /\ to = <<to[1], to[2]>>
    BY DEF M!Paths
  <2>1. ASSUME NEW c \in M!At(to) PROVE c \in tree'[to[1]]
    BY <1>4, <2>0, <2>t DEF M!At, TreeFolders
  <2>2. ASSUME NEW l \in Folders, NEW e \in tree[l], e \in M!At(path), l = path[1]
        PROVE  \E k \in Folders : \E c \in tree'[k] : c.of = e.of /\ c.part = e.part
    BY <1>4, <2>1, <2>2, <2>t DEF HasCopy
  <2>3. ASSUME NEW l \in Folders, NEW e \in tree[l], ~(e \in M!At(path) /\ l = path[1])
        PROVE  e \in tree'[l]
    BY <2>0, <2>3 DEF TreeFolders
  <2> QED
    BY <2>2, <2>3, AllKept
<1> QED
  BY <1>1, <1>2, <1>3, <1>4, MoveToFree

\* A job that rests has nothing under way.
Rested == \A j \in Jobs : job[j].op = "idle" => job[j].doing = M!NoItem /\ job[j].todo = <<>>

\* The names in the destination are known, so what is taken goes to a free one;
\* there it grows part by part, and is whole before its source is removed.
Known(j) ==
    job[j].op # "idle" =>
        /\ M!NamesAt(job[j].to) \subseteq job[j].known
        /\ job[j].doing # M!NoItem => job[j].doing.as \in job[j].known
Growing(j) ==
    /\ job[j].doing.step = "call" => M!At(M!Target(j)) = {}
    /\ job[j].doing.step = "copy" =>
          /\ \A e \in M!At(job[j].doing.from) : e.part \in job[j].doing.left \/ HasCopy(e, M!Target(j))
          /\ \A e \in M!At(M!Target(j)) : e.part \notin job[j].doing.left
    /\ job[j].doing.step = "remove" =>
          /\ job[j].doing.from # M!Target(j)
          /\ \A e \in M!At(job[j].doing.from) : HasCopy(e, M!Target(j))
Safe(j) == Known(j) /\ Growing(j)

\* The inductive invariant: of every job that still knows what is in its folders.
SafeInv == MovesInv /\ Rested /\ \A j \in Jobs \ stale : Safe(j)

\* What a step of a job has to show.
Goes(j) == Safe(j)' /\ Lossless

\* A job that is idle is safe.
LEMMA IdleIsSafe ==
    ASSUME NEW j \in Jobs, job'[j].op = "idle", job'[j].doing = M!NoItem
    PROVE  Safe(j)'
BY DEF Safe, Known, Growing, M!NoItem

\* The names in the destination of a job after its step.
LEMMA NamesGrow ==
    ASSUME TreeFolders, NEW l \in Folders, NEW n \in M!Names, NEW from \in M!Paths,
           \/ UNCHANGED tree
           \/ Rename(from, <<l, n>>) \/ CopyOver(from, <<l, n>>)
           \/ \E part, i : Put(<<l, n>>, part, i)
           \/ \E gone : Drop(from, gone)
    PROVE  M!NamesAt(l)' \subseteq M!NamesAt(l) \cup {n}
<1>0. ASSUME NEW there, NEW new, there \subseteq tree[l], \A x \in new : x.name = n,
             tree'[l] = M!Laid(there, new)
      PROVE  M!NamesAt(l)' \subseteq M!NamesAt(l) \cup {n}
  <2>1. tree'[l] \subseteq tree[l] \cup new
    BY <1>0 DEF M!Laid
  <2> QED
    BY <1>0, <2>1 DEF M!NamesAt
<1>t. <<l, n>> \in M!Paths /\ <<l, n>>[1] = l /\ <<l, n>>[2] = n
  BY DEF M!Paths
<1>1. CASE UNCHANGED tree
  BY <1>1 DEF M!NamesAt
<1>2. CASE Rename(from, <<l, n>>)
  <2>1. \A x \in M!Landing(from, <<l, n>>) : x.name = n
    BY <1>2, <1>t, LandingNames DEF Rename
  <2>2. \E there : there \subseteq tree[l] /\ tree'[l] = M!Laid(there, M!Landing(from, <<l, n>>))
    BY <1>2, <1>t DEF Rename, M!Moved
  <2> QED
    BY <1>0, <2>1, <2>2
<1>3. CASE CopyOver(from, <<l, n>>)
  <2>1. \A x \in M!Landing(from, <<l, n>>) : x.name = n
    BY <1>3, <1>t, LandingNames DEF CopyOver
  <2>2. tree'[l] = M!Laid(tree[l], M!Landing(from, <<l, n>>))
    BY <1>3, <1>t DEF CopyOver, TreeFolders
  <2> QED
    BY <1>0, <2>1, <2>2
<1>4. ASSUME NEW part, NEW i, Put(<<l, n>>, part, i)
      PROVE  M!NamesAt(l)' \subseteq M!NamesAt(l) \cup {n}
  <2>1. \A x \in {M!Part(<<l, n>>, part, i)} : x.name = n
    BY <1>t DEF M!Part
  <2>2. tree'[l] = M!Laid(tree[l], {M!Part(<<l, n>>, part, i)})
    BY <1>4, <1>t DEF Put, M!Written, TreeFolders
  <2> QED
    BY <1>0, <2>1, <2>2
<1>5. ASSUME NEW gone, Drop(from, gone) PROVE M!NamesAt(l)' \subseteq M!NamesAt(l)
  BY <1>5 DEF Drop, TreeFolders, M!NamesAt
<1> QED
  BY <1>1, <1>2, <1>3, <1>4, <1>5

\* A job whose item is over is safe when it knows the names.
LEMMA OverIsSafe ==
    ASSUME NEW j \in Jobs, job'[j].doing = M!NoItem,
           NEW l, l = job'[j].to, M!NamesAt(l)' \subseteq job'[j].known
    PROVE  Safe(j)'
BY DEF Safe, Known, Growing, M!NoItem

\* The steps of a job that ends the item under way: the call on one server, a copy
\* that breaks, the removal of the source.
LEMMA OverSteps ==
    ASSUME MovesInv, NEW j \in Jobs, Safe(j), job[j].op # "idle", job[j].doing.step # "none", M!Over(j),
           NEW from \in M!Paths, from = job[j].doing.from,
           \/ UNCHANGED tree
           \/ Rename(from, M!Target(j)) /\ job[j].doing.step = "call"
           \/ CopyOver(from, M!Target(j)) /\ job[j].doing.step = "call"
           \/ /\ job[j].doing.step = "copy"
              /\ \E part \in job[j].doing.left : \E i : Put(M!Target(j), part, i)
           \/ job[j].doing.step = "remove" /\ \E gone : Drop(from, gone)
    PROVE  Goes(j)
<1>1. job[j].doing \in Doing /\ job[j].doing # M!NoItem /\ job[j].to \in Folders
  BY DEF M!NoItem, MovesInv, JobsTyped, Work
<1>l. PICK l \in Folders : l = job[j].to
  BY <1>1
<1>n. PICK n \in M!Names : n = job[j].doing.as
  BY <1>1 DEF Doing
<1>2. M!Target(j) = <<l, n>> /\ M!Target(j) \in M!Paths
  BY <1>1, <1>l, <1>n DEF M!Target, M!Paths
<1>3. /\ job'[j].op = job[j].op /\ job'[j].to = job[j].to /\ job'[j].known = job[j].known
      /\ job'[j].doing = M!NoItem
  BY DEF M!Over, MovesInv, JobsTyped, Work
<1>4. M!NamesAt(l)' \subseteq M!NamesAt(l) \cup {n}
  BY <1>2, NamesGrow DEF MovesInv
<1>5. Safe(j)'
  BY <1>1, <1>l, <1>n, <1>3, <1>4, OverIsSafe DEF Safe, Known
<1>6. Lossless
  BY <1>1, <1>2, LosslessChanges DEF Safe, Growing, MovesInv
<1> QED
  BY <1>5, <1>6 DEF Goes

\* The steps that leave the entries and the item under way alone.
LEMMA StillSteps ==
    ASSUME MovesInv, NEW j \in Jobs, Safe(j), job[j].op # "idle", M!Copied(j) \/ M!Cancel(j) \/ M!Finish(j)
    PROVE  Goes(j)
<1>0. UNCHANGED tree
  BY DEF M!Copied, M!Cancel, M!Finish
<1>1. Lossless
  BY <1>0, LosslessChanges DEF MovesInv
<1>2. CASE M!Copied(j)
  <2>1. job'[j] = [job[j] EXCEPT !.doing = M!NoItem] /\ job[j] \in Work
    BY <1>2 DEF M!Copied, M!Over, MovesInv, JobsTyped
  <2>2. /\ job'[j].op = job[j].op /\ job'[j].to = job[j].to /\ job'[j].known = job[j].known
        /\ job'[j].doing = M!NoItem
    BY <2>1 DEF Work
  <2>3. M!NamesAt(job[j].to) \subseteq job[j].known
    BY DEF Safe, Known
  <2>4. PICK l : l = job[j].to
    OBVIOUS
  <2>5. M!NamesAt(l)' \subseteq job'[j].known
    BY <1>0, <2>2, <2>3, <2>4 DEF M!NamesAt
  <2> QED
    BY <1>1, <2>2, <2>4, <2>5, OverIsSafe DEF Goes
<1>3. CASE M!Cancel(j)
  <2>1. job'[j] = [job[j] EXCEPT !.cancelled = TRUE] /\ job[j] \in Work
    BY <1>3 DEF M!Cancel, MovesInv, JobsTyped
  <2>2. /\ job'[j].op = job[j].op /\ job'[j].to = job[j].to /\ job'[j].known = job[j].known
        /\ job'[j].doing = job[j].doing
    BY <2>1 DEF Work
  <2>3. Safe(j)'
    BY <1>0, <2>2 DEF Safe, Known, Growing, HasCopy, M!At, M!Target, M!NamesAt
  <2> QED
    BY <1>1, <2>3 DEF Goes
<1>4. CASE M!Finish(j)
  <2>1. job'[j] = M!Idle
    BY <1>4 DEF M!Finish, MovesInv, JobsTyped
  <2>2. Safe(j)'
    BY <2>1, IdleIsSafe DEF M!Idle
  <2> QED
    BY <1>1, <2>2 DEF Goes
<1> QED
  BY <1>2, <1>3, <1>4

\* A paste or drop that begins with the names of its destination.
LEMMA BeginSteps ==
    ASSUME MovesInv, NEW j \in Jobs, NEW op, NEW items, NEW l \in Folders, NEW known,
           M!Begin(j, op, items, l, known), ~M!BeginsBlind(j)
    PROVE  Goes(j)
<1>1. job' = [job EXCEPT ![j] = [M!Idle EXCEPT !.op = op, !.todo = items, !.to = l, !.known = known]]
      /\ job[j].op = "idle" /\ UNCHANGED tree
  BY DEF M!Begin
<1>2. job'[j].to = l /\ job'[j].known = known /\ job'[j].doing = M!NoItem
  BY <1>1 DEF M!Idle, MovesInv, JobsTyped
<1>3. known = M!NamesAt(l)
  BY <1>1, <1>2 DEF M!BeginsBlind
<1>4. M!NamesAt(l)' = M!NamesAt(l)
  BY <1>1 DEF M!NamesAt
<1>5. Safe(j)'
  BY <1>2, <1>3, <1>4, OverIsSafe
<1>6. Lossless
  BY <1>1, LosslessChanges DEF MovesInv
<1> QED
  BY <1>5, <1>6 DEF Goes

\* It takes its next item, to a free name.
LEMMA TakeSteps ==
    ASSUME MovesInv, NEW j \in Jobs, Safe(j), job[j].op # "idle", NEW sameHost \in BOOLEAN, M!Take(j, sameHost)
    PROVE  Goes(j)
<1> DEFINE entry == Head(job[j].todo)
           as == M!NextCopyName(entry[2], job[j].known)
           doing == [step |-> IF sameHost THEN "call" ELSE "copy", from |-> entry, as |-> as,
                     left |-> {e.part : e \in M!At(entry)}]
<1>1. UNCHANGED tree /\ job[j] \in Work /\ job[j].todo # <<>>
  BY DEF M!Take, MovesInv, JobsTyped
<1>2. job' = [job EXCEPT ![j] = [job[j] EXCEPT !.todo = Tail(@), !.known = @ \cup {as}, !.doing = doing]]
  BY DEF M!Take
<1>3. entry[2] \in M!Names
  <2>1. job[j].todo \in Seq(M!Paths) /\ job[j].todo # <<>>
    BY <1>1 DEF Work
  <2>2. entry \in M!Paths
    <3>1. 1 \in DOMAIN job[j].todo
      BY <2>1
    <3> QED
      BY <2>1, <3>1
  <2> QED
    BY <2>2 DEF M!Paths
<1>4. as \notin job[j].known
  BY <1>3, FreshName DEF M!Take
<1>5. M!NamesAt(job[j].to) \subseteq job[j].known
  BY <1>1 DEF Safe, Known
<1> HIDE DEF entry, as, doing
<1>6. /\ job'[j].op = job[j].op /\ job'[j].to = job[j].to /\ job'[j].known = job[j].known \cup {as}
      /\ job'[j].doing = doing
  BY <1>1, <1>2 DEF Work, MovesInv, JobsTyped
<1>7. doing.as = as /\ doing.step \in {"call", "copy"} /\ doing.from = entry
      /\ doing.left = {e.part : e \in M!At(entry)}
  BY DEF doing
<1>8. M!At(<<job[j].to, as>>) = {}
  BY <1>4, <1>5 DEF M!At, M!NamesAt
<1>9. Safe(j)'
  <2>1. PICK l : l = job[j].to
    OBVIOUS
  <2>2. M!NamesAt(l)' \subseteq job'[j].known
    BY <1>1, <1>5, <1>6, <2>1 DEF M!NamesAt
  <2>3. Known(j)'
    BY <1>5, <1>6, <1>7, <2>1, <2>2 DEF Known
  <2>4. M!Target(j)' = <<job[j].to, as>>
    BY <1>6, <1>7 DEF M!Target
  <2>5. \A path : M!At(path)' = M!At(path)
    BY <1>1 DEF M!At
  <2>6. Growing(j)'
    BY <1>6, <1>7, <1>8, <2>4, <2>5 DEF Growing
  <2> QED
    BY <2>3, <2>6 DEF Safe
<1>10. Lossless
  BY <1>1, LosslessChanges DEF MovesInv
<1> QED
  BY <1>9, <1>10 DEF Goes

\* A part of the item arrives.
LEMMA CopySteps ==
    ASSUME MovesInv, NEW j \in Jobs, Safe(j), job[j].op # "idle", NEW part \in M!Parts, M!CopyPart(j, part)
    PROVE  Goes(j)
<1>1. job[j].doing.step = "copy" /\ part \in job[j].doing.left
  BY DEF M!CopyPart
<1>2. /\ job[j] \in Work /\ job[j].doing \in Doing /\ job[j].doing.from \in M!Paths
      /\ M!Target(j) \in M!Paths /\ M!Target(j) = <<job[j].to, job[j].doing.as>>
  BY <1>1, JobTargets DEF MovesInv, JobsTyped
<1>p. PICK from \in M!Paths, to \in M!Paths : from = job[j].doing.from /\ to = M!Target(j)
  BY <1>2
<1>7. /\ \A d \in M!At(from) : d.part \in job[j].doing.left \/ HasCopy(d, to)
      /\ \A d \in M!At(to) : d.part \notin job[j].doing.left
  BY <1>1, <1>p DEF Safe, Growing
<1>3. PICK e \in M!At(from) : e.part = part /\ Put(to, part, e.of)
  BY <1>1, <1>7, <1>p DEF M!CopyPart, Put, M!Taken
<1> DEFINE step == IF job[j].doing.left # {part} THEN "copy"
                   ELSE IF job[j].op = "copy" THEN "done" ELSE "remove"
<1>4. job' = [job EXCEPT ![j] = [job[j] EXCEPT !.doing =
                 [job[j].doing EXCEPT !.left = job[j].doing.left \ {part}, !.step = step]]]
  BY DEF M!CopyPart
<1>s. step \in {"copy", "done", "remove"} /\ (step = "remove" => job[j].doing.left = {part})
  OBVIOUS
<1> HIDE DEF step
<1>5. /\ job'[j].op = job[j].op /\ job'[j].to = job[j].to /\ job'[j].known = job[j].known
      /\ job'[j].doing.from = from /\ job'[j].doing.as = job[j].doing.as
      /\ job'[j].doing.left = job[j].doing.left \ {part} /\ job'[j].doing.step = step
  BY <1>2, <1>4, <1>p DEF Work, Doing, MovesInv, JobsTyped
<1>6. M!NamesAt(job[j].to) \subseteq job[j].known /\ job[j].doing.as \in job[j].known
  BY <1>1 DEF Safe, Known, M!NoItem
<1>8. from # to
  BY <1>1, <1>3, <1>7
<1>t. from[1] \in Folders /\ to[1] \in Folders /\ from = <<from[1], from[2]>> /\ to = <<to[1], to[2]>>
  BY DEF M!Paths
<1>b. PICK c : c = M!Part(to, part, e.of)
  OBVIOUS
<1>c. c = M!Part(to, part, e.of) /\ c.name = to[2] /\ c.part = part /\ c.of = e.of
  BY <1>b DEF M!Part
<1>d. tree' = [tree EXCEPT ![to[1]] = tree[to[1]] \cup {c}]
  <2>1. \A d \in tree[to[1]], n \in {c} : ~M!SameSlot(d, n)
    BY <1>1, <1>7, <1>c DEF M!SameSlot, M!At
  <2>2. M!Laid(tree[to[1]], {c}) = tree[to[1]] \cup {c}
    BY <2>1, LaidFree
  <2> QED
    BY <1>3, <1>c, <2>2 DEF Put, M!Written
<1>9. M!At(to)' = M!At(to) \cup {c}
  BY <1>c, <1>d, <1>t DEF M!At, MovesInv, TreeFolders
<1>10. M!At(from)' = M!At(from)
  BY <1>c, <1>d, <1>8, <1>t DEF M!At, MovesInv, TreeFolders
<1>11. ASSUME NEW d \in M!At(from), d.part \notin job[j].doing.left \ {part}
       PROVE  HasCopy(d, to)'
  <2>1. CASE d.part = part
    <3>1. d = e
      BY <1>3, <2>1, <1>t DEF MovesInv, NamesTellApart, Apart, M!At
    <3> QED
      BY <1>9, <1>c, <2>1, <3>1 DEF HasCopy
  <2>2. CASE d.part # part
    <3>1. HasCopy(d, to)
      BY <1>7, <1>11, <2>2
    <3> QED
      BY <1>9, <3>1 DEF HasCopy
  <2> QED
    BY <2>1, <2>2
<1>12. M!Target(j)' = to
  BY <1>2, <1>5, <1>p DEF M!Target
<1>13. Growing(j)'
  <2>1. step = "copy" => \A d \in M!At(to)' : d.part \notin job[j].doing.left \ {part}
    BY <1>7, <1>9, <1>c
  <2> QED
    BY <1>5, <1>8, <1>10, <1>11, <1>12, <1>s, <2>1 DEF Growing
<1>14. Known(j)'
  <2>1. PICK l \in Folders : l = job[j].to
    BY <1>2 DEF Work
  <2>2. PICK n \in M!Names : n = job[j].doing.as
    BY <1>2 DEF Doing
  <2>3. M!NamesAt(l)' \subseteq M!NamesAt(l) \cup {n}
    BY <1>2, <1>3, <1>p, <2>1, <2>2, NamesGrow DEF MovesInv
  <2> QED
    BY <1>5, <1>6, <2>1, <2>2, <2>3 DEF Known
<1>15. Lossless
  BY <1>1, <1>3, <1>7, LosslessChanges DEF MovesInv
<1> QED
  BY <1>13, <1>14, <1>15 DEF Goes, Safe

\* Every step of a paste or drop that is under way.
LEMMA JobIsSafe ==
    ASSUME MovesInv, NEW j \in Jobs, Safe(j), job[j].op # "idle", M!JobNext(j)
    PROVE  Goes(j)
<1>3. CASE M!RemoteCall(j)
  <2>1. PICK from \in M!Paths : from = job[j].doing.from
    BY <1>3, JobTargets DEF M!RemoteCall, MovesInv
  <2>2. \/ UNCHANGED tree
        \/ Rename(from, M!Target(j))
        \/ CopyOver(from, M!Target(j))
    BY <1>3, <2>1 DEF M!RemoteCall, Rename, CopyOver, M!Target, M!MayMove, M!MayCopy
  <2> QED
    BY <1>3, <2>1, <2>2, OverSteps DEF M!RemoteCall
<1>4. CASE M!CopyBreaks(j)
  <2>1. PICK from \in M!Paths : from = job[j].doing.from
    BY <1>4, JobTargets DEF M!CopyBreaks, MovesInv
  <2>2. UNCHANGED tree \/ \E part \in job[j].doing.left : \E i : Put(M!Target(j), part, i)
    BY <1>4 DEF M!CopyBreaks, M!Breaks, Put
  <2> QED
    BY <1>4, <2>1, <2>2, OverSteps DEF M!CopyBreaks
<1>5. ASSUME NEW gone, M!RemoveSource(j, gone) PROVE Goes(j)
  <2>1. PICK from \in M!Paths : from = job[j].doing.from
    BY <1>5, JobTargets DEF M!RemoveSource, MovesInv
  <2>2. Drop(from, gone)
    BY <1>5, <2>1 DEF M!RemoveSource, Drop
  <2> QED
    BY <1>5, <2>1, <2>2, OverSteps DEF M!RemoveSource
<1> QED
  BY <1>3, <1>4, <1>5, TakeSteps, CopySteps, StillSteps DEF M!JobNext

\* A job that goes on without a step is safe while nobody touches its folders.
LEMMA OtherIsSafe ==
    ASSUME MovesInv, NEW k \in Jobs, Safe(k), job[k].op # "idle", job'[k] = job[k], ~M!Touched(k)
    PROVE  Safe(k)'
<1>l. PICK l : l = job[k].to
  OBVIOUS
<1>1. tree'[l] = tree[l]
      /\ (job[k].doing # M!NoItem => tree'[job[k].doing.from[1]] = tree[job[k].doing.from[1]])
  BY <1>l DEF M!Touched
<1>2. M!NamesAt(l)' = M!NamesAt(l)
  BY <1>1 DEF M!NamesAt
<1>3. Known(k)'
  BY <1>l, <1>2 DEF Safe, Known
<1>4. CASE job[k].doing = M!NoItem
  <2>1. Growing(k)'
    BY <1>4 DEF Growing, M!NoItem
  <2> QED
    BY <1>3, <2>1 DEF Safe
<1>5. CASE job[k].doing # M!NoItem
  <2>1. PICK from, to : from = job[k].doing.from /\ to = <<l, job[k].doing.as>>
    OBVIOUS
  <2>2. M!Target(k) = to /\ M!Target(k)' = to /\ to[1] = l
    BY <1>l, <2>1 DEF M!Target
  <2>3. M!At(to)' = M!At(to) /\ M!At(from)' = M!At(from)
    BY <1>1, <1>5, <2>1, <2>2 DEF M!At
  <2>4. \A e : HasCopy(e, to)' = HasCopy(e, to)
    BY <2>3 DEF HasCopy
  <2>5. Growing(k)'
    BY <2>1, <2>2, <2>3, <2>4 DEF Safe, Growing
  <2> QED
    BY <1>3, <2>5 DEF Safe
<1> QED
  BY <1>4, <1>5

\* The beginning of a paste or a drop.
Begins(j) ==
    \E op \in {"copy", "cut", "drop"}, l \in Folders : \E items, known : M!Begin(j, op, items, l, known)

\* Of the jobs a step changes at most one, which begins or was under way.
LEMMA OneJob ==
    ASSUME MovesInv, Rested, M!Step
    PROVE  \/ UNCHANGED job
           \/ \E j \in Jobs : /\ \A k \in Jobs \ {j} : job'[k] = job[k]
                              /\ \/ Begins(j)
                                 \/ M!JobNext(j) /\ job[j].op # "idle"
                              /\ job'[j].op = "idle" => job'[j] = M!Idle
<1> DEFINE Other(j) == \A k \in Jobs \ {j} : job'[k] = job[k]
<1>t. job \in [Jobs -> Work]
  BY DEF MovesInv, JobsTyped
<1>1. ASSUME NEW j \in Jobs, Begins(j) PROVE Other(j) /\ job'[j].op # "idle"
  BY <1>1, <1>t DEF Begins, M!Begin, M!Idle
<1>2. ASSUME NEW j \in Jobs, NEW l \in Folders, M!Paste(j, l) \/ \E items \in M!Selections : M!Drop(j, l, items)
      PROVE  Begins(j)
  BY <1>2 DEF Begins, M!Paste, M!Drop, MovesInv, ClipboardTyped
<1>3. ASSUME NEW j \in Jobs, M!JobNext(j)
      PROVE  Other(j) /\ job[j].op # "idle" /\ (job'[j].op = "idle" => job'[j] = M!Idle)
  <2>1. job[j].op # "idle"
    <3> SUFFICES ASSUME job[j].op = "idle" PROVE FALSE
      OBVIOUS
    <3>1. job[j].doing.step = "none" /\ job[j].todo = <<>>
      BY DEF Rested, M!NoItem
    <3>2. ~M!Take(j, TRUE) /\ ~M!Take(j, FALSE) /\ ~M!Cancel(j)
      BY <3>1 DEF M!Take, M!Cancel
    <3>3. ~M!RemoteCall(j) /\ ~M!Copied(j) /\ ~M!CopyBreaks(j) /\ ~M!Finish(j)
      BY <3>1 DEF M!RemoteCall, M!Copied, M!CopyBreaks, M!Finish
    <3>4. \A part \in M!Parts : ~M!CopyPart(j, part)
      BY <3>1 DEF M!CopyPart
    <3>5. PICK sameHost \in BOOLEAN : M!Take(j, sameHost)
      BY <1>3, <3>1, <3>3, <3>2, <3>4 DEF M!JobNext
    <3> QED
      BY <3>2, <3>5
  <2>2. CASE M!Finish(j)
    BY <1>t, <2>1, <2>2 DEF M!Finish
  <2>3. CASE ~M!Finish(j)
    <3>1. \E w : job' = [job EXCEPT ![j] = w] /\ w.op = job[j].op
      <4>w. PICK w \in Work : w = job[j]
        BY <1>t
      <4> DEFINE Op == \E v : job' = [job EXCEPT ![j] = v] /\ v.op = job[j].op
      <4>1. /\ \A x : [w EXCEPT !.doing = x].op = w.op
            /\ \A x, y, z : [w EXCEPT !.todo = x, !.known = y, !.doing = z].op = w.op
            /\ [w EXCEPT !.cancelled = TRUE].op = w.op
        BY DEF Work
      <4>2. ASSUME M!Over(j) PROVE Op
        <5>1. job' = [job EXCEPT ![j] = [w EXCEPT !.doing = M!NoItem]]
          BY <4>2, <4>w DEF M!Over
        <5> QED
          BY <4>1, <4>w, <5>1
      <4>3. ASSUME M!Cancel(j) PROVE Op
        <5>1. job' = [job EXCEPT ![j] = [w EXCEPT !.cancelled = TRUE]]
          BY <4>3, <4>w DEF M!Cancel
        <5> QED
          BY <4>1, <4>w, <5>1
      <4>4. ASSUME NEW sameHost \in BOOLEAN, M!Take(j, sameHost)
            PROVE  Op
        <5>1. PICK x, y, z : job' = [job EXCEPT ![j] = [w EXCEPT !.todo = x, !.known = y, !.doing = z]]
          BY <4>4, <4>w DEF M!Take
        <5>2. PICK v : v = [w EXCEPT !.todo = x, !.known = y, !.doing = z]
          OBVIOUS
        <5>3. v.op = job[j].op
          BY <4>1, <4>w, <5>2
        <5> QED
          BY <5>1, <5>2, <5>3
      <4>5. ASSUME NEW part, M!CopyPart(j, part)
            PROVE  Op
        <5>1. PICK step \in {"copy", "done", "remove"} :
                  job' = [job EXCEPT ![j] = [job[j] EXCEPT !.doing =
                             [job[j].doing EXCEPT !.left = job[j].doing.left \ {part}, !.step = step]]]
          BY <4>5 DEF M!CopyPart
        <5> QED
          BY <4>1, <4>w, <5>1
      <4> HIDE DEF Op
      <4>6. Op
        BY <1>3, <2>3, <4>2, <4>3, <4>4, <4>5
           DEF M!JobNext, M!RemoteCall, M!Copied, M!CopyBreaks, M!RemoveSource
      <4> QED
        BY <4>6 DEF Op
    <3> QED
      BY <1>t, <2>1, <3>1
  <2> QED
    BY <2>2, <2>3
<1>5. \/ UNCHANGED job
      \/ \E j \in Jobs : Begins(j) \/ M!JobNext(j)
  BY <1>2
     DEF M!Step, M!Command, M!Open, M!CheckFree, M!RenameRemote, M!CreateFolder, M!CreateFile,
         M!SetClipboard, M!ClearClipboard
<1> HIDE DEF Other
<1>6. ASSUME NEW j \in Jobs, Begins(j) \/ M!JobNext(j)
      PROVE  /\ Other(j)
             /\ Begins(j) \/ (M!JobNext(j) /\ job[j].op # "idle")
             /\ job'[j].op = "idle" => job'[j] = M!Idle
  BY <1>1, <1>3, <1>6
<1> QED
  BY <1>5, <1>6 DEF Other

\* Every step keeps the invariant, and what a job that knows its folders does
\* loses nothing.
LEMMA SafeStep ==
    ASSUME SafeInv, [M!Next]_mVars
    PROVE  SafeInv' /\ [\A j \in Jobs \ stale : job'[j] # job[j] => Lossless]_mVars
<1>1. CASE M!Next
  <2>1. MovesInv' /\ M!Step
    BY <1>1, MovesStep DEF M!Next, SafeInv
  <2>2. PICK j \in Jobs \cup {None} :
            \/ UNCHANGED job /\ j = None
            \/ /\ j \in Jobs /\ \A k \in Jobs \ {j} : job'[k] = job[k]
               /\ Begins(j) \/ (M!JobNext(j) /\ job[j].op # "idle")
               /\ job'[j].op = "idle" => job'[j] = M!Idle
    BY <2>1, OneJob DEF SafeInv
  <2>3. M!Idle.op = "idle" /\ M!Idle.doing = M!NoItem /\ M!Idle.todo = <<>>
    BY DEF M!Idle
  <2>4. Rested'
    BY <2>2, <2>3 DEF Rested, SafeInv
  <2>5. ASSUME NEW k \in Jobs \ stale, job'[k] # job[k], job'[k].op # "idle", ~M!BeginsBlind(k)
        PROVE  Goes(k)
    BY <2>2, <2>5, BeginSteps, JobIsSafe DEF SafeInv, Begins
  <2>6. ASSUME NEW k \in Jobs \ stale, job'[k] # job[k] PROVE Lossless
    <3>1. CASE Begins(k)
      <4>1. UNCHANGED tree
        BY <3>1 DEF Begins, M!Begin
      <4> QED
        BY <4>1, LosslessChanges DEF SafeInv, MovesInv
    <3>2. CASE M!JobNext(k) /\ job[k].op # "idle"
      BY <3>2, JobIsSafe DEF SafeInv, Goes
    <3> QED
      BY <2>2, <2>6, <3>1, <3>2
  <2>7. ASSUME NEW k \in Jobs, k \notin stale' PROVE Safe(k)'
    <3>1. CASE job'[k].op = "idle"
      BY <2>4, <3>1, IdleIsSafe DEF Rested
    <3>2. CASE job'[k].op # "idle"
      <4>1. k \notin stale /\ ~M!Touched(k) /\ ~M!BeginsBlind(k)
        BY <1>1, <2>7, <3>2 DEF M!Next
      <4>2. CASE job'[k] = job[k]
        BY <3>2, <4>1, <4>2, OtherIsSafe DEF SafeInv
      <4>3. CASE job'[k] # job[k]
        BY <2>5, <3>2, <4>1, <4>3 DEF Goes
      <4> QED
        BY <4>2, <4>3
    <3> QED
      BY <3>1, <3>2
  <2>8. SafeInv'
    BY <2>1, <2>4, <2>7 DEF SafeInv
  <2> QED
    BY <2>6, <2>8
<1>2. CASE UNCHANGED mVars
  <2>1. Rested' /\ \A j \in Jobs \ stale' : Safe(j)'
    BY <1>2
       DEF mVars, SafeInv, Rested, M!At, Safe, Known, Growing, HasCopy, M!Target, M!NamesAt
  <2>2. MovesInv'
    BY <1>2, MovesStep DEF SafeInv
  <2> QED
    BY <1>2, <2>1, <2>2 DEF SafeInv
<1> QED
  BY <1>1, <1>2

\* Nothing is under way.
LEMMA SafeInit == M!Init => SafeInv
<1> SUFFICES ASSUME M!Init PROVE SafeInv
  OBVIOUS
<1>1. \A j \in Jobs : job[j] = M!Idle
  BY DEF M!Init
<1>2. M!Idle.op = "idle" /\ M!Idle.doing = M!NoItem /\ M!Idle.todo = <<>> /\ M!NoItem.step = "none"
  BY DEF M!Idle, M!NoItem
<1>3. \A j \in Jobs : Safe(j)
  BY <1>1, <1>2 DEF Safe, Known, Growing
<1> QED
  BY <1>1, <1>2, <1>3, MovesInit DEF SafeInv, Rested

------------------------------------------------------------------------------
(* The theorems *)

\* A file's lock belongs to an operation that is inside it, and a large file is
\* downloaded by one reader at a time (acquireFileLock, ProgressiveDownloadManager).
THEOREM Locks == Spec => []LocksHeld
<1>1. Init => LockInv /\ ReaderInv
  BY LockInit, ReaderInit DEF Init
<1>2. LockInv /\ ReaderInv /\ [Next]_vars => (LockInv /\ ReaderInv)'
  BY OneComponent, LockStep, ReaderStep
<1>3. LockInv /\ ReaderInv => LocksHeld
  BY LockFollows, ReaderFollows DEF LocksHeld
<1> QED
  BY <1>1, <1>2, <1>3, PTL DEF Spec

\* The tree's spinners and shown listings are those of its loads and its cache
\* (FileTreeProvider).
THEOREM Tree == Spec => []TreeIsCache
<1>1. Init => TreeInv
  BY TreeInit DEF Init
<1>2. TreeInv /\ [Next]_vars => TreeInv'
  BY OneComponent, TreeStep, TreeUnchanged
<1>3. TreeInv => TreeIsCache
  BY TreeFollows DEF TreeIsCache
<1> QED
  BY <1>1, <1>2, <1>3, PTL DEF Spec

\* An upload that replaces the content the editor had read leaves it in the local
\* history (saveBackup), unless another of the file's operations came between: with
\* any number of operations under way.
THEOREM Kept == Spec => UploadKeepsOld
<1>1. Init => KeptInv
  BY BackupsInit DEF Init, B!Init, KeptInv, UploadsKept
<1>2. KeptInv /\ [Next]_vars =>
        /\ KeptInv'
        /\ [\A task \in (tasks \ tasks') \ overtaken :
                 task.do = "upload" /\ content'[task.of] # content[task.of]
                   /\ content[task.of] # None /\ content[task.of] = original[task.of] =>
                     \/ content[task.of] \in B!Range(history[task.of])
                     \/ history[task.of] = <<>>]_(B!vars)
  BY OneComponent, UploadKeepsStep DEF bVars, B!vars
<1> QED
  BY <1>1, <1>2, PTL DEF Spec, UploadKeepsOld, B!UploadKeepsOld

\* No step of a paste or a drop loses a file, whatever call fails or is cancelled and
\* whatever else is under way (pasteRemoteItem, handleFileDrop), as long as it was
\* told what its destination holds and nobody changed its folders since.
THEOREM Lost == Spec => NothingLost
<1>1. Init => SafeInv
  BY SafeInit DEF Init
<1>2. SafeInv /\ [Next]_vars =>
        /\ SafeInv'
        /\ [\A j \in Jobs \ stale : job'[j] # job[j] =>
               \A i \in Items, p \in 0 .. 1 : M!Holds(i, p) => M!Holds(i, p)']_(M!vars)
  BY OneComponent, SafeStep DEF Lossless, mVars, M!vars
<1> QED
  BY <1>1, <1>2, PTL DEF Spec, NothingLost, M!NothingLost

\* Every variable of the downloads, the local copy, the backups, the moves and the
\* tree keeps its type, whatever the bounds are.
THEOREM Types == Spec => []TypesOK
<1>1. Init => LockInv /\ ReaderInv /\ BackupsInv /\ MovesInv /\ TreeInv
  BY LockInit, ReaderInit, BackupsInit, MovesInit, TreeInit DEF Init
<1>2. LockInv /\ ReaderInv /\ BackupsInv /\ MovesInv /\ TreeInv /\ [Next]_vars
        => (LockInv /\ ReaderInv /\ BackupsInv /\ MovesInv /\ TreeInv)'
  BY OneComponent, LockStep, ReaderStep, BackupsStep, MovesStep, TreeStep, TreeUnchanged
<1>3. LockInv /\ ReaderInv /\ BackupsInv /\ MovesInv /\ TreeInv => TypesOK
  BY LockFollows, ReaderFollows, BackupsFollow, MovesFollow, TreeFollows DEF TypesOK
<1> QED
  BY <1>1, <1>2, <1>3, PTL DEF Spec
===============================================================================
