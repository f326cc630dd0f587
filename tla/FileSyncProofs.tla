---------------------------- MODULE FileSyncProofs ----------------------------
(***************************************************************************)
(* Proofs about FileSync, for every bound on the contents: the variables'  *)
(* types, what the server has of a file that was saved, and what the badge *)
(* and the fast path of the refresh remember of it.                        *)
(*                                                                         *)
(* The history variables say which steps went before; the invariant says   *)
(* what is left when none of them overlapped: at most one upload, of the   *)
(* content saved last, that the document still shows.                      *)
(***************************************************************************)
EXTENDS FileSync, FiniteSetTheorems, TLAPS

\* A sync has the server's content.
Read == sync.stage \in {"got", "ask", "revert"}

\* While nothing overlapped, one upload at a time is under way, of the content
\* saved last, and the file's variables tell of no other.
OneUpload ==
    ~overlapped =>
        /\ Unfinished \subseteq {saved}
        /\ pending # None => Unfinished = {} /\ pending = saved
        /\ tracked <=> inFlight # {}
        /\ failed => pending = None /\ inFlight = {}
        /\ orphaned = {}

\* The content saved last waits, is on its way, failed, or is on the server.
SavedArrives ==
    (~overlapped /\ ~dropped /\ pending = None /\ unapplied = {} /\ ~failed) =>
        remote \in {saved} \cup external

\* The badge is right whether the file is mapped or not.
Badge ==
    (~overlapped /\ ~dropped) => (uploading <=> (pending # None \/ inFlight \ denied # {}))

\* What a sync has read is on the server while the file's stamp, or the one the
\* sync took before it read, is current.
StampOfRead == (known \/ sync.fresh) /\ Read => sync.content = remote

\* A sync that met no upload stands alone, and has the disk to itself.
SyncAlone ==
    ~raced => /\ sync # NoSync => pending = None /\ Unfinished = {}
              /\ mapped /\ sync.stage = "revert" => disk = sync.content

\* The write of an upload made the stamp stale.
WriteUnstamps == (~overlapped /\ ~raced /\ inFlight # {} /\ unapplied = {}) => ~known

\* A clean document shows what was saved last until it is uploaded, and then what
\* was read or uploaded last, which is on the server while the stamp is current.
Shown ==
    (~overlapped /\ ~raced /\ mapped /\ doc.open /\ ~doc.dirty) =>
        /\ pending # None \/ inFlight # {} => doc.text = saved
        /\ pending = None /\ inFlight = {} /\ ~failed =>
              doc.text = original /\ (known => doc.text = remote)

\* The types, part by part.
Values ==
    /\ made \in Contents /\ disk \in Contents /\ original \in Contents
    /\ remote \in Contents /\ saved \in Contents /\ pending \in Contents \cup {None}
Docs == doc \in [open : BOOLEAN, text : Contents, dirty : BOOLEAN]
Sets ==
    /\ inFlight \subseteq Contents /\ orphaned \subseteq Contents
    /\ unapplied \subseteq Contents /\ external \subseteq Contents
    /\ denied \subseteq inFlight
Flags ==
    /\ mapped \in BOOLEAN /\ known \in BOOLEAN /\ tracked \in BOOLEAN
    /\ uploading \in BOOLEAN /\ failed \in BOOLEAN
    /\ dropped \in BOOLEAN /\ overlapped \in BOOLEAN /\ raced \in BOOLEAN
Syncs ==
    /\ sync \in [kind : {"none", "auto", "manual", "open"},
                 stage : {"stat", "read", "got", "ask", "revert"},
                 content : Contents \cup {None}, fresh : BOOLEAN]
    /\ Read => sync.content \in Contents

Typed == Values /\ Docs /\ Sets /\ Flags /\ Syncs /\ (~mapped => pending = None)

\* The inductive invariant.
Inv == /\ Typed /\ OneUpload /\ SavedArrives /\ Badge
       /\ StampOfRead /\ SyncAlone /\ WriteUnstamps /\ Shown
------------------------------------------------------------------------------

\* A new content is within the bound.
LEMMA MadeInContents == Values /\ made < MaxContents => made + 1 \in Contents
BY MaxContentsAssumption DEF Contents, Values

\* None is not a content.
LEMMA NoneIsNoContent == None \notin Contents
BY MaxContentsAssumption DEF None, Contents

\* The contents stay contents.
LEMMA ValuesStep == Typed /\ Next => Values'
BY MadeInContents, NoneIsNoContent
   DEF Next, Remember, Typed, Values, Docs, Sets, Flags, Syncs, Read,
   Step, UploadReturns, Edit, Save, Close, StartUpload, Cleanup, ExternalWrite, Written,
   DebounceFires, ServerWrites, UploadSucceeds, Settled, UploadFails, UploadDenied, Refresh,
   RefreshButton, Reopen, StatReturns, ServerReads, SyncFails, RefreshApplies, WriteBack,
   ButtonApplies, UserReloads, UserKeeps, Reverted, Opened, NoSync, uploadVars, localVars

\* Only these steps touch the document.
LEMMA DocChanges ==
    Step => doc' = doc \/ Edit \/ Save \/ Close \/ Reverted \/ Opened
BY
   DEF Step, UploadReturns, Edit, Save, Close, StartUpload, Cleanup, ExternalWrite, Written,
       DebounceFires, ServerWrites, UploadSucceeds, Settled, UploadFails, UploadDenied,
       Refresh, RefreshButton, Reopen, StatReturns, ServerReads, SyncFails, RefreshApplies,
       WriteBack, ButtonApplies, UserReloads, UserKeeps, Reverted, Opened, NoSync,
       uploadVars, localVars

\* The document stays a document.
LEMMA DocsStep == Typed /\ Next => Docs'
<1> SUFFICES ASSUME Typed, Next PROVE Docs'
  OBVIOUS
<1> USE DEF Typed, Docs
<1>1. CASE Edit
  BY <1>1, MadeInContents DEF Edit
<1>2. CASE Save
  BY <1>2 DEF Save
<1>3. CASE Close
  BY <1>3 DEF Close
<1>4. CASE Reverted
  BY <1>4 DEF Reverted, Values
<1>5. CASE Opened
  BY <1>5 DEF Opened, Syncs, Read
<1>6. CASE doc' = doc
  BY <1>6
<1> QED
  BY <1>1, <1>2, <1>3, <1>4, <1>5, <1>6, DocChanges DEF Next

\* The sets of uploads stay sets of contents.
LEMMA SetsStep == Typed /\ Next => Sets'
BY MadeInContents, NoneIsNoContent
   DEF Next, Remember, Typed, Values, Docs, Sets, Flags, Syncs, Read,
   Step, UploadReturns, Edit, Save, Close, StartUpload, Cleanup, ExternalWrite, Written,
   DebounceFires, ServerWrites, UploadSucceeds, Settled, UploadFails, UploadDenied, Refresh,
   RefreshButton, Reopen, StatReturns, ServerReads, SyncFails, RefreshApplies, WriteBack,
   ButtonApplies, UserReloads, UserKeeps, Reverted, Opened, NoSync, uploadVars, localVars

\* The flags stay flags.
LEMMA FlagsStep == Typed /\ Next => Flags'
BY MadeInContents, NoneIsNoContent
   DEF Next, Remember, Typed, Values, Docs, Sets, Flags, Syncs, Read,
   Step, UploadReturns, Edit, Save, Close, StartUpload, Cleanup, ExternalWrite, Written,
   DebounceFires, ServerWrites, UploadSucceeds, Settled, UploadFails, UploadDenied, Refresh,
   RefreshButton, Reopen, StatReturns, ServerReads, SyncFails, RefreshApplies, WriteBack,
   ButtonApplies, UserReloads, UserKeeps, Reverted, Opened, NoSync, uploadVars, localVars

\* What a step does to the sync under way.
LEMMA SyncChanges ==
    Step => \/ sync' = sync
            \/ sync' = [sync EXCEPT !.fresh = FALSE]
            \/ sync' = NoSync
            \/ Refresh \/ RefreshButton \/ Reopen
            \/ StatReturns \/ ServerReads
            \/ (Read /\ sync' = [sync EXCEPT !.stage = "revert"])
            \/ (sync.stage = "got" /\ sync.kind = "manual" /\ sync' = [sync EXCEPT !.stage = "ask"])
BY
   DEF Step, UploadReturns, Edit, Save, Close, StartUpload, Cleanup, ExternalWrite, Written,
       DebounceFires, ServerWrites, UploadSucceeds, Settled, UploadFails, UploadDenied,
       Refresh, RefreshButton, Reopen, StatReturns, ServerReads, SyncFails, RefreshApplies,
       WriteBack, ButtonApplies, UserReloads, UserKeeps, Reverted, Opened, NoSync,
       uploadVars, localVars, Read

\* The sync stays one, with a content once it has read.
LEMMA SyncsStep == Typed /\ Next => Syncs'
<1> SUFFICES ASSUME Typed, Next PROVE Syncs'
  OBVIOUS
<1> USE NoneIsNoContent DEF Typed, Syncs, Read, NoSync
<1>1. CASE sync' = sync
  BY <1>1
<1>2. CASE sync' = [sync EXCEPT !.fresh = FALSE]
  BY <1>2
<1>3. CASE sync' = NoSync
  BY <1>3
<1>4. CASE Refresh \/ RefreshButton \/ Reopen
  BY <1>4 DEF Refresh, RefreshButton, Reopen
<1>5. CASE StatReturns
  BY <1>5 DEF StatReturns
<1>6. CASE ServerReads
  BY <1>6 DEF ServerReads, Values
<1>7. CASE Read /\ sync' = [sync EXCEPT !.stage = "revert"]
  BY <1>7
<1>8. CASE sync.stage = "got" /\ sync.kind = "manual" /\ sync' = [sync EXCEPT !.stage = "ask"]
  BY <1>8
<1> QED
  BY <1>1, <1>2, <1>3, <1>4, <1>5, <1>6, <1>7, <1>8, SyncChanges DEF Next

\* What Remember notes: while nothing overlapped there is at most one upload.
LEMMA AtMostOneUpload ==
    ASSUME Typed, Typed', Remember, ~overlapped'
    PROVE  /\ \A v, w \in Unfinished' : v = w
           /\ pending' # None => Unfinished' = {}
           /\ ~overlapped
<1>1. IsFiniteSet(Contents)
  BY MaxContentsAssumption, FS_Interval DEF Contents
<1>2. IsFiniteSet(Unfinished') /\ Unfinished' \subseteq Contents
  BY <1>1, FS_Subset DEF Typed, Sets, Unfinished
<1>3. ASSUME NEW v \in Unfinished', NEW w \in Unfinished', v # w PROVE FALSE
  <2>1. IsFiniteSet({v}) /\ Cardinality({v}) = 1
    BY FS_Singleton
  <2>0. Cardinality({v} \cup {w}) = 2 /\ {v, w} = {v} \cup {w}
    BY <1>3, <2>1, FS_AddElement
  <2>2. Cardinality({v, w}) <= Cardinality(Unfinished')
    BY <1>2, <1>3, FS_Subset
  <2>3. Cardinality(Unfinished') > 1
    BY <2>0, <2>2, <1>2, FS_CardinalityType
  <2> QED
    BY <2>3 DEF Remember
<1> QED
  BY <1>3 DEF Remember, Typed, Flags

\* Only these steps touch the uploads.
LEMMA UploadChanges ==
    Step => \/ UNCHANGED <<uploadVars, saved>>
            \/ Save \/ StartUpload \/ Cleanup \/ Reopen
            \/ \E v \in Contents : ServerWrites(v)
            \/ \E v \in Contents : UploadSucceeds(v)
            \/ \E v \in Contents : UploadFails(v)
            \/ \E v \in Contents : UploadDenied(v)
BY
   DEF Step, UploadReturns, Edit, Save, Close, StartUpload, Cleanup, ExternalWrite, Written,
       DebounceFires, ServerWrites, UploadSucceeds, Settled, UploadFails, UploadDenied,
       Refresh, RefreshButton, Reopen, StatReturns, ServerReads, SyncFails, RefreshApplies,
       WriteBack, ButtonApplies, UserReloads, UserKeeps, Reverted, Opened, NoSync,
       uploadVars, localVars

\* Every step keeps the one upload that of the content saved last.
LEMMA OneUploadStep ==
    ASSUME Typed, Typed', OneUpload, Step, Remember
    PROVE  OneUpload'
<1> USE DEF OneUpload, Typed, Values, Sets, Flags, Unfinished, uploadVars
<1>1. CASE UNCHANGED <<uploadVars, saved>>
  BY <1>1, AtMostOneUpload, NoneIsNoContent
<1>2. CASE Save
  BY <1>2, AtMostOneUpload, NoneIsNoContent DEF Save
<1>3. CASE StartUpload
  BY <1>3, AtMostOneUpload, NoneIsNoContent DEF StartUpload
<1>4. CASE Cleanup
  BY <1>4, AtMostOneUpload, NoneIsNoContent DEF Cleanup
<1>5. CASE Reopen
  BY <1>5, AtMostOneUpload, NoneIsNoContent DEF Reopen
<1>6. ASSUME NEW v \in Contents, ServerWrites(v) PROVE OneUpload'
  BY <1>6, AtMostOneUpload, NoneIsNoContent DEF ServerWrites
<1>7. ASSUME NEW v \in Contents, UploadSucceeds(v) PROVE OneUpload'
  BY <1>7, AtMostOneUpload, NoneIsNoContent DEF UploadSucceeds, Settled
<1>8. ASSUME NEW v \in Contents, UploadFails(v) PROVE OneUpload'
  BY <1>8, AtMostOneUpload, NoneIsNoContent DEF UploadFails, Settled
<1>9. ASSUME NEW v \in Contents, UploadDenied(v) PROVE OneUpload'
  BY <1>9, AtMostOneUpload, NoneIsNoContent DEF UploadDenied
<1> QED
  BY <1>1, <1>2, <1>3, <1>4, <1>5, <1>6, <1>7, <1>8, <1>9, UploadChanges

\* Every step keeps the badge and the uploads together.
LEMMA BadgeStep ==
    ASSUME Typed, Typed', OneUpload, Badge, Step, Remember
    PROVE  Badge'
<1> USE DEF OneUpload, Badge, Typed, Values, Sets, Flags, Unfinished, Remember, uploadVars
<1>1. CASE UNCHANGED <<uploadVars, saved>>
  BY <1>1, AtMostOneUpload, NoneIsNoContent
<1>2. CASE Save
  BY <1>2, AtMostOneUpload, NoneIsNoContent DEF Save
<1>3. CASE StartUpload
  BY <1>3, AtMostOneUpload, NoneIsNoContent DEF StartUpload
<1>4. CASE Cleanup
  BY <1>4, AtMostOneUpload, NoneIsNoContent DEF Cleanup
<1>5. CASE Reopen
  BY <1>5, AtMostOneUpload, NoneIsNoContent DEF Reopen
<1>6. ASSUME NEW v \in Contents, ServerWrites(v) PROVE Badge'
  BY <1>6, AtMostOneUpload, NoneIsNoContent DEF ServerWrites
<1>7. ASSUME NEW v \in Contents, UploadSucceeds(v) PROVE Badge'
  BY <1>7, AtMostOneUpload, NoneIsNoContent DEF UploadSucceeds, Settled
<1>8. ASSUME NEW v \in Contents, UploadFails(v) PROVE Badge'
  BY <1>8, AtMostOneUpload, NoneIsNoContent DEF UploadFails, Settled
<1>9. ASSUME NEW v \in Contents, UploadDenied(v) PROVE Badge'
  BY <1>9, AtMostOneUpload, NoneIsNoContent DEF UploadDenied
<1> QED
  BY <1>1, <1>2, <1>3, <1>4, <1>5, <1>6, <1>7, <1>8, <1>9, UploadChanges

\* Only another program and an arriving upload change the file on the server.
LEMMA RemoteChanges ==
    Step => \/ UNCHANGED <<remote, external>>
            \/ ExternalWrite
            \/ \E v \in Contents : ServerWrites(v)
BY
   DEF Step, UploadReturns, Edit, Save, Close, StartUpload, Cleanup, ExternalWrite, Written,
       DebounceFires, ServerWrites, UploadSucceeds, Settled, UploadFails, UploadDenied,
       Refresh, RefreshButton, Reopen, StatReturns, ServerReads, SyncFails, RefreshApplies,
       WriteBack, ButtonApplies, UserReloads, UserKeeps, Reverted, Opened, NoSync,
       uploadVars, localVars

\* Every step keeps what was saved last waiting, on its way, failed or on the server.
LEMMA SavedArrivesStep ==
    ASSUME Typed, Typed', OneUpload, SavedArrives, Step, Remember
    PROVE  SavedArrives'
<1> USE DEF OneUpload, SavedArrives, Typed, Values, Sets, Flags, Unfinished, Remember, uploadVars
<1>1. CASE UNCHANGED <<uploadVars, saved, remote, external>>
  BY <1>1, AtMostOneUpload, NoneIsNoContent
<1>2. CASE ExternalWrite
  BY <1>2, AtMostOneUpload, NoneIsNoContent DEF ExternalWrite, Written
<1>3. CASE Save
  BY <1>3, AtMostOneUpload, NoneIsNoContent DEF Save
<1>4. CASE StartUpload
  BY <1>4, AtMostOneUpload, NoneIsNoContent DEF StartUpload
<1>5. CASE Cleanup
  BY <1>5, AtMostOneUpload, NoneIsNoContent DEF Cleanup
<1>6. CASE Reopen
  BY <1>6, AtMostOneUpload, NoneIsNoContent DEF Reopen
<1>7. ASSUME NEW v \in Contents, ServerWrites(v) PROVE SavedArrives'
  BY <1>7, AtMostOneUpload, NoneIsNoContent DEF ServerWrites, Written
<1>8. ASSUME NEW v \in Contents, UploadSucceeds(v) PROVE SavedArrives'
  BY <1>8, AtMostOneUpload, NoneIsNoContent DEF UploadSucceeds, Settled
<1>9. ASSUME NEW v \in Contents, UploadFails(v) PROVE SavedArrives'
  BY <1>9, AtMostOneUpload, NoneIsNoContent DEF UploadFails, Settled
<1>10. ASSUME NEW v \in Contents, UploadDenied(v) PROVE SavedArrives'
  BY <1>10, AtMostOneUpload, NoneIsNoContent DEF UploadDenied
<1> QED
  BY <1>1, <1>2, <1>3, <1>4, <1>5, <1>6, <1>7, <1>8, <1>9, <1>10, UploadChanges, RemoteChanges

\* A step that makes the stamp stale makes that of the sync stale with it.
LEMMA StampChanges ==
    Step => \/ UNCHANGED <<known, remote>>
            \/ ~known' /\ sync' = [sync EXCEPT !.fresh = FALSE]
            \/ sync' = NoSync
BY
   DEF Step, UploadReturns, Edit, Save, Close, StartUpload, Cleanup, ExternalWrite, Written,
       DebounceFires, ServerWrites, UploadSucceeds, Settled, UploadFails, UploadDenied,
       Refresh, RefreshButton, Reopen, StatReturns, ServerReads, SyncFails, RefreshApplies,
       WriteBack, ButtonApplies, UserReloads, UserKeeps, Reverted, Opened, NoSync,
       uploadVars, localVars

\* Every step keeps what was read under a current stamp on the server.
LEMMA StampStep ==
    ASSUME Typed, StampOfRead, Step
    PROVE  StampOfRead'
<1> USE DEF StampOfRead, Typed, Syncs, Read, NoSync
<1>1. CASE ~known' /\ sync' = [sync EXCEPT !.fresh = FALSE]
  BY <1>1
<1>2. CASE sync' = NoSync \/ Refresh \/ RefreshButton \/ Reopen \/ StatReturns
  <2>1. CASE sync' = NoSync
    BY <2>1
  <2>2. CASE Refresh
    BY <2>2 DEF Refresh
  <2>3. CASE RefreshButton
    BY <2>3 DEF RefreshButton
  <2>4. CASE Reopen
    BY <2>4 DEF Reopen
  <2>5. CASE StatReturns
    BY <2>5 DEF StatReturns
  <2> QED
    BY <1>2, <2>1, <2>2, <2>3, <2>4, <2>5
<1>3. CASE ServerReads
  BY <1>3 DEF ServerReads
<1>4. ASSUME UNCHANGED <<known, remote>>,
             \/ sync' = sync
             \/ sync' = [sync EXCEPT !.fresh = FALSE]
             \/ Read /\ sync' = [sync EXCEPT !.stage = "revert"]
             \/ (sync.stage = "got" /\ sync.kind = "manual" /\ sync' = [sync EXCEPT !.stage = "ask"])
      PROVE  StampOfRead'
  BY <1>4
<1> QED
  BY <1>1, <1>2, <1>3, <1>4, StampChanges, SyncChanges

\* Every step keeps a sync that met no upload alone.
LEMMA AloneStep ==
    ASSUME Typed, SyncAlone, Step, Remember
    PROVE  SyncAlone'
<1>1. ~raced' => (sync' # NoSync => pending' = None /\ Unfinished' = {}) /\ ~raced
  BY DEF Remember, Typed, Flags
<1>2. ASSUME ~raced', mapped', sync'.stage = "revert" PROVE disk' = sync'.content
  <2>1. sync' # NoSync /\ pending' = None
    BY <1>1, <1>2 DEF NoSync
  <2> USE <1>1, <1>2, <2>1, NoneIsNoContent DEF SyncAlone, Typed, Values, Docs, Syncs, Read
  <2> QED
    BY
       DEF Step, UploadReturns, Edit, Save, Close, StartUpload, Cleanup, ExternalWrite,
           Written, DebounceFires, ServerWrites, UploadSucceeds, Settled, UploadFails,
           UploadDenied, Refresh, RefreshButton, Reopen, StatReturns, ServerReads,
           SyncFails, RefreshApplies, WriteBack, ButtonApplies, UserReloads, UserKeeps,
           Reverted, Opened, NoSync, uploadVars, localVars
<1> QED
  BY <1>1, <1>2 DEF SyncAlone

\* Only a read makes the stamp current.
LEMMA KnownSet ==
    Step => known' = known \/ known' = FALSE \/ Read
BY
   DEF Step, UploadReturns, Edit, Save, Close, StartUpload, Cleanup, ExternalWrite, Written,
       DebounceFires, ServerWrites, UploadSucceeds, Settled, UploadFails, UploadDenied,
       Refresh, RefreshButton, Reopen, StatReturns, ServerReads, SyncFails, RefreshApplies,
       WriteBack, ButtonApplies, UserReloads, UserKeeps, Reverted, Opened, NoSync,
       uploadVars, localVars, Read

\* Who reads is a sync.
LEMMA ReadIsSync == Read => sync # NoSync
BY DEF Read, NoSync

\* Every step keeps an upload that wrote from passing for unwritten.
LEMMA UnstampStep ==
    ASSUME Typed, Typed', OneUpload, SyncAlone, WriteUnstamps, Step, Remember
    PROVE  WriteUnstamps'
<1> USE DEF OneUpload, SyncAlone, WriteUnstamps, Typed, Sets, Flags, Unfinished, Remember, uploadVars
<1>1. CASE UNCHANGED <<uploadVars, saved>>
  BY <1>1, AtMostOneUpload, KnownSet, ReadIsSync
<1>2. CASE Save
  BY <1>2, AtMostOneUpload, KnownSet, ReadIsSync DEF Save
<1>3. CASE StartUpload
  BY <1>3, AtMostOneUpload, KnownSet, ReadIsSync DEF StartUpload
<1>4. CASE Cleanup
  BY <1>4, AtMostOneUpload, KnownSet, ReadIsSync DEF Cleanup
<1>5. CASE Reopen
  BY <1>5, AtMostOneUpload, KnownSet, ReadIsSync DEF Reopen
<1>6. ASSUME NEW v \in Contents, ServerWrites(v) PROVE WriteUnstamps'
  BY <1>6, AtMostOneUpload, KnownSet, ReadIsSync DEF ServerWrites, Written
<1>7. ASSUME NEW v \in Contents, UploadSucceeds(v) PROVE WriteUnstamps'
  BY <1>7, AtMostOneUpload, KnownSet, ReadIsSync DEF UploadSucceeds, Settled
<1>8. ASSUME NEW v \in Contents, UploadFails(v) PROVE WriteUnstamps'
  BY <1>8, AtMostOneUpload, KnownSet, ReadIsSync DEF UploadFails, Settled
<1>9. ASSUME NEW v \in Contents, UploadDenied(v) PROVE WriteUnstamps'
  BY <1>9, AtMostOneUpload, KnownSet, ReadIsSync DEF UploadDenied
<1> QED
  BY <1>1, <1>2, <1>3, <1>4, <1>5, <1>6, <1>7, <1>8, <1>9, UploadChanges

\* What a step does to what a clean document shows.
LEMMA ShownChanges ==
    Docs /\ Step =>
            \/ UNCHANGED <<doc, mapped, original, pending, inFlight, failed, known, remote, saved>>
            \/ ~mapped' \/ ~doc'.open
            \/ Edit \/ Save \/ DebounceFires
            \/ ~known' /\ UNCHANGED <<doc, mapped, original, pending, inFlight, failed, saved>>
            \/ \E v \in Contents : UploadSucceeds(v) \/ UploadFails(v)
            \/ RefreshApplies /\ sync.content = original
            \/ Reverted \/ Opened
BY
   DEF Docs, Step, UploadReturns, Edit, Save, Close, StartUpload, Cleanup, ExternalWrite,
       Written, DebounceFires, ServerWrites, UploadSucceeds, Settled, UploadFails,
       UploadDenied, Refresh, RefreshButton, Reopen, StatReturns, ServerReads, SyncFails,
       RefreshApplies, WriteBack, ButtonApplies, UserReloads, UserKeeps, Reverted, Opened,
       NoSync, uploadVars, localVars

\* Every step keeps a clean document showing what is saved, read or uploaded last.
LEMMA ShownStep ==
    ASSUME Inv, Typed', OneUpload', Step, Remember
    PROVE  Shown'
<1> DEFINE Shows ==
        /\ pending' # None \/ inFlight' # {} => doc'.text = saved'
        /\ pending' = None /\ inFlight' = {} /\ ~failed' =>
              doc'.text = original' /\ (known' => doc'.text = remote')
<1> SUFFICES ASSUME ~overlapped', ~raced', mapped', doc'.open, ~doc'.dirty PROVE Shows
  BY DEF Shown
<1>0. /\ ~overlapped /\ ~raced /\ Typed /\ OneUpload /\ Shown /\ SyncAlone /\ StampOfRead
      /\ \A v, w \in Unfinished' : v = w
      /\ pending' # None => Unfinished' = {}
  BY AtMostOneUpload DEF Inv, Remember, Typed, Flags
<1> USE <1>0 DEF Shown, Typed, Docs, Values, Sets, Flags, Syncs, Unfinished
<1>1. CASE UNCHANGED <<doc, mapped, original, pending, inFlight, failed, known, remote, saved>>
  BY <1>1
<1>2. CASE Edit
  BY <1>2 DEF Edit
<1>3. CASE Save
  BY <1>3, NoneIsNoContent DEF Save
<1>4. CASE DebounceFires
  BY <1>4 DEF DebounceFires, StartUpload, OneUpload
<1>5. CASE ~known' /\ UNCHANGED <<doc, mapped, original, pending, inFlight, failed, saved>>
  BY <1>5
<1>6. ASSUME NEW v \in Contents, UploadSucceeds(v) PROVE Shows
  BY <1>6 DEF UploadSucceeds, Settled, OneUpload, WriteUnstamps, Inv
<1>7. ASSUME NEW v \in Contents, UploadFails(v) PROVE Shows
  BY <1>7 DEF UploadFails, Settled, OneUpload
<1>8. CASE RefreshApplies /\ sync.content = original
  BY <1>8 DEF RefreshApplies, StampOfRead, Read, uploadVars, localVars
<1>9. CASE Reverted
  BY <1>9, ReadIsSync DEF Reverted, SyncAlone, StampOfRead, Read, uploadVars
<1>10. CASE Opened
  BY <1>10, ReadIsSync DEF Opened, SyncAlone, StampOfRead, Read, uploadVars
<1> HIDE DEF Shows, Shown, Typed, Docs, Values, Sets, Flags, Syncs, Unfinished
<1> QED
  BY <1>1, <1>2, <1>3, <1>4, <1>5, <1>6, <1>7, <1>8, <1>9, <1>10, ShownChanges DEF Typed

\* A file that was never opened.
LEMMA InvInit == Init => Inv
<1> SUFFICES ASSUME Init PROVE Inv
  OBVIOUS
<1>1. 0 \in Contents
  BY MaxContentsAssumption DEF Contents
<1>2. Values /\ Docs
  BY <1>1 DEF Init, Values, Docs
<1>3. Sets /\ Flags
  BY DEF Init, Sets, Flags
<1>4. Syncs
  BY DEF Init, Syncs, Read, NoSync
<1>5. OneUpload /\ SavedArrives /\ Badge /\ WriteUnstamps
  BY DEF Init, OneUpload, SavedArrives, Badge, WriteUnstamps, Unfinished
<1>6. StampOfRead /\ SyncAlone
  BY DEF Init, StampOfRead, SyncAlone, Read, NoSync
<1>7. Shown
  BY DEF Init, Shown
<1> QED
  BY <1>2, <1>3, <1>4, <1>5, <1>6, <1>7 DEF Inv, Typed, Init

\* Only a file that is mapped has an upload waiting for the debounce.
LEMMA PendingChanges ==
    Step => (pending' = pending /\ mapped' = mapped) \/ pending' = None \/ mapped' = TRUE
BY
   DEF Step, UploadReturns, Edit, Save, Close, StartUpload, Cleanup, ExternalWrite, Written,
       DebounceFires, ServerWrites, UploadSucceeds, Settled, UploadFails, UploadDenied,
       Refresh, RefreshButton, Reopen, StatReturns, ServerReads, SyncFails, RefreshApplies,
       WriteBack, ButtonApplies, UserReloads, UserKeeps, Reverted, Opened, NoSync,
       uploadVars, localVars

\* Every step keeps the types.
LEMMA TypedStep == Typed /\ Next => Typed'
<1> SUFFICES ASSUME Typed, Next PROVE ~mapped' => pending' = None
  BY ValuesStep, DocsStep, SetsStep, FlagsStep, SyncsStep DEF Typed
<1> QED
  BY PendingChanges DEF Typed, Next

\* Every step keeps the invariant.
LEMMA InvStep == Inv /\ [Next]_vars => Inv'
<1> SUFFICES ASSUME Inv, [Next]_vars PROVE Inv'
  OBVIOUS
<1>1. CASE UNCHANGED vars
  BY <1>1 DEF Inv, vars, Typed, Values, Docs, Sets, Flags, Syncs, Read,
     OneUpload, SavedArrives, Badge, StampOfRead, SyncAlone, WriteUnstamps, Shown, Unfinished
<1>2. CASE Next
  <2>1. Typed'
    BY <1>2, TypedStep DEF Inv
  <2>2. Typed /\ Step /\ Remember
    BY <1>2 DEF Inv, Next
  <2>3. OneUpload'
    BY <2>1, <2>2, OneUploadStep DEF Inv
  <2> QED
    BY <2>1, <2>2, <2>3, SavedArrivesStep, BadgeStep, StampStep, AloneStep, UnstampStep,
       ShownStep
       DEF Inv
<1> QED
  BY <1>1, <1>2

\* The parts are those of TypeOK.
LEMMA TypedIsTypeOK == Typed => TypeOK
BY DEF Typed, Values, Docs, Sets, Flags, Syncs, TypeOK

\* The invariant gives what the run checks.
LEMMA InvFollows == Inv => SavedIsOnServer /\ RememberedIsTrue
BY
   DEF Inv, OneUpload, SavedArrives, Badge, Shown, SavedIsOnServer, RememberedIsTrue,
       BadgeMatchesUpload, FastPathInSync, Idle, Unfinished

\* The invariant holds in every reachable state, for any number of contents.
THEOREM Invariance == Spec => []Inv
BY InvInit, InvStep, PTL DEF Spec

\* Every variable keeps its type.
THEOREM Types == Spec => []TypeOK
BY Invariance, TypedIsTypeOK, PTL DEF Inv

\* When nothing is pending and nothing failed or was dropped, what the user saved
\* last is on the server, unless another program wrote there since (FileService.handleFileSave,
\* saveFile).
THEOREM Saved == Spec => []SavedIsOnServer
BY Invariance, InvFollows, PTL

\* The badge shows an upload exactly while there is one, and the stamp of the fast
\* path never passes an old content for the current one (FileService.refreshSingleFile).
THEOREM Remembered == Spec => []RememberedIsTrue
BY Invariance, InvFollows, PTL
===============================================================================
