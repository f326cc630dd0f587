------------------------------ MODULE RemoteMoves ------------------------------
(***************************************************************************)
(* Copying, moving, renaming and creating on the servers: the clipboard    *)
(* of src/services/RemoteClipboardService.ts, paste and the commands of    *)
(* src/extension.ts, drag and drop of src/providers/FileTreeProvider.ts,   *)
(* and the primitives of src/services/FileService.ts they share.           *)
(*                                                                         *)
(* A folder of a server holds entries, part by part: a file is part 0, a   *)
(* directory part 0 and what lies below it part 1; what was put into the   *)
(* directory under name n has parts of its own, Inside(n, 0) and           *)
(* Inside(n, 1).  "of" is the item whose content a part is.  Name k stands *)
(* for the k-th copy name.                                                 *)
(***************************************************************************)
EXTENDS Naturals, Sequences, FiniteSets

CONSTANTS
    Folders,      \* remote folders shown in the tree
    Disks,        \* the folders of one server, as a partition of Folders
    Items,        \* things that exist or may be created
    Trees,        \* the items that are directories
    Nothing,      \* no item: what a broken write leaves
    Jobs,         \* pastes and drops under way at once
    MaxName,      \* largest copy name (bound)
    MaxSelect,    \* entries selected at once (bound)
    MaxCommands,  \* commands the user gives (bound)
    AtOnce        \* operations under way at once (bound)

MovesAssumption ==
    /\ UNION Disks = Folders /\ Trees \subseteq Items /\ Nothing \notin Items \cup Folders
    /\ MaxName \in Nat /\ MaxSelect \in 1 .. 2 /\ MaxCommands \in Nat /\ AtOnce \in Nat

VARIABLES
    tree,       \* the entries' parts, by folder
    mapping,    \* an item open in an editor and the path its mapping holds, or none
    clipboard,  \* state of RemoteClipboardService
    job,        \* pastes and drops
    creating,   \* createFile calls between fileExists and writeFile
    stale,      \* jobs that know less of their folders than there is (history)
    commands    \* commands given

vars == <<tree, mapping, clipboard, job, creating, stale, commands>>

Names == 0 .. MaxName
PartsOf(i) == IF i \in Trees THEN 0 .. 1 ELSE {0}
Inside(n, part) == 2 * n + 2 + part
Parts == 0 .. Inside(MaxName, 1)
Entry == [name : Names, part : Parts, of : Items \cup {Nothing}]
Paths == Folders \X Names

NamesAt(l) == {e.name : e \in tree[l]}
At(path) == {e \in tree[path[1]] : e.name = path[2]}
IsDirectory(e) == e.part % 2 = 0 /\ e.of \in Trees
IsDir(path) == \E e \in At(path) : e.part = 0 /\ IsDirectory(e)
SameDisk(k, l) == \E d \in Disks : {k, l} \subseteq d

Empty == [items |-> <<>>, op |-> "copy"]
Selections == {s \in UNION {[1 .. n -> Paths] : n \in 1 .. MaxSelect} :
                   /\ \A k \in DOMAIN s : At(s[k]) # {}
                   /\ Len(s) = 2 => s[1] # s[2]}

\* An item under way: copied part by part, renamed in one call, or to be
\* deleted at its source once all its parts are there.
NoItem == [step |-> "none"]
Idle == [op |-> "idle", todo |-> <<>>, to |-> CHOOSE l \in Folders : TRUE, known |-> {},
         doing |-> NoItem, cancelled |-> FALSE]

TypeOK ==
    /\ \A l \in Folders : tree[l] \subseteq Entry
    /\ \A m \in mapping : m.item \in Items /\ m.path \in Paths
    /\ clipboard.op \in {"copy", "cut"}
    /\ \A j \in Jobs : job[j].op \in {"idle", "copy", "cut", "drop"} /\ job[j].known \subseteq Names
    /\ creating \subseteq Paths /\ stale \subseteq Jobs /\ commands \in 0 .. MaxCommands

Busy == {j \in Jobs : job[j].op # "idle"}
Room == Cardinality(Busy) + Cardinality(creating) < AtOnce

\* Every folder starts with at most one entry, all under the same name.
Init ==
    /\ \E home \in [Items -> Folders \cup {Nothing}] :
          /\ \A i, k \in Items : home[i] = home[k] /\ home[i] # Nothing => i = k
          /\ \E i \in Items : home[i] # Nothing
          /\ tree = [l \in Folders |->
                        {[name |-> 0, part |-> x[2], of |-> x[1]] :
                            x \in {y \in Items \X (0 .. 1) :
                                      home[y[1]] = l /\ y[2] \in PartsOf(y[1])}}]
    /\ mapping = {} /\ clipboard = Empty
    /\ job = [j \in Jobs |-> Idle] /\ creating = {} /\ stale = {}
    /\ commands = 0

------------------------------------------------------------------------------
(* The commands on one entry *)

\* An open file remembers the path it was read from.
Open(path) ==
    /\ mapping = {}
    /\ \E e \in At(path) : e.of \in Items \ Trees /\ e.part = 0
                           /\ mapping' = {[item |-> e.of, path |-> path]}
    /\ UNCHANGED <<tree, clipboard, job, creating>>

SameSlot(e, n) == e.name = n.name /\ e.part = n.part

\* New parts in a folder: a directory that is there stays, a file is replaced.
Laid(there, new) ==
    {e \in there : IsDirectory(e) \/ \A n \in new : ~SameSlot(e, n)}
    \cup {n \in new : \A e \in there : ~(SameSlot(e, n) /\ IsDirectory(e))}

\* The parts at "from" under the name of "to", or inside the directory of that name.
Landing(from, to) ==
    {[e EXCEPT !.name = to[2], !.part = IF IsDir(to) THEN Inside(from[2], @) ELSE @] :
        e \in At(from)}

InTheWay(from, to) == {e \in tree[to[1]] : \E n \in Landing(from, to) : SameSlot(e, n)}

\* There is something to move or copy, and nothing is nested twice (bound).
Lands(from, to) ==
    /\ from # to /\ At(from) # {}
    /\ IsDir(to) => \A e \in At(from) : e.part <= 1

\* The SFTP rename refuses an occupied name; `mv`, for sudo, replaces a file by a
\* file, moves into a directory, and so may the rename of an FTP server.
MayMove(from, to, mv) ==
    /\ Lands(from, to)
    /\ At(to) = {} \/ mv
    /\ InTheWay(from, to) # {} =>
          ~IsDir(from) /\ \A e \in InTheWay(from, to) : ~IsDirectory(e)

Moved(from, to) ==
    [l \in Folders |->
        LET stays == IF l = from[1] THEN tree[l] \ At(from) ELSE tree[l]
        IN  IF l = to[1] THEN Laid(stays, Landing(from, to)) ELSE stays]

\* updateFileMappingsAfterRename
MappingMoved(from, to) == {IF m.path = from THEN [m EXCEPT !.path = to] ELSE m : m \in mapping}

\* renameRemote and moveRemote, by SFTP or with sudo.
RenameRemote(from, to) ==
    /\ Room
    /\ SameDisk(from[1], to[1]) /\ \E mv \in BOOLEAN : MayMove(from, to, mv)
    /\ tree' = Moved(from, to) /\ mapping' = MappingMoved(from, to)
    /\ UNCHANGED <<clipboard, job, creating>>

Fresh(i) == \A l \in Folders : \A e \in tree[l] : e.of # i

\* createFolder: mkdir refuses an occupied name.
CreateFolder(path, i) ==
    /\ Room /\ i \in Trees /\ Fresh(i) /\ At(path) = {}
    /\ tree' = [tree EXCEPT ![path[1]] =
                   @ \cup {[name |-> path[2], part |-> p, of |-> i] : p \in PartsOf(i)}]
    /\ UNCHANGED <<mapping, clipboard, job, creating>>

\* createFile: fileExists, then writeFile.
CheckFree(path) ==
    /\ Room /\ At(path) = {} /\ path \notin creating
    /\ creating' = creating \cup {path}
    /\ UNCHANGED <<tree, mapping, clipboard, job>>

Part(path, part, i) == [name |-> path[2], part |-> part, of |-> i]

\* writeFile replaces a file, mkdir leaves what it finds.
Written(path, part, i) == [tree EXCEPT ![path[1]] = Laid(@, {Part(path, part, i)})]

CreateFile(path, i) ==
    /\ path \in creating /\ creating' = creating \ {path}
    /\ \/ i \in Items \ Trees /\ Fresh(i) /\ ~IsDir(path) /\ tree' = Written(path, 0, i)
       \/ UNCHANGED tree
    /\ UNCHANGED <<mapping, clipboard, job>>

------------------------------------------------------------------------------
(* The clipboard *)

SetClipboard(items, op) ==
    /\ clipboard' = [items |-> items, op |-> op]
    /\ UNCHANGED <<tree, mapping, job, creating>>

ClearClipboard ==
    /\ clipboard # Empty /\ clipboard' = Empty
    /\ UNCHANGED <<tree, mapping, job, creating>>

------------------------------------------------------------------------------
(* Pastes and drops *)

\* listFiles(destFolder).catch(() => [])
Listings(l) == {NamesAt(l), {}}

\* Idle jobs are alike.
Begin(j, op, items, l, known) ==
    /\ Room /\ job[j].op = "idle" /\ j = CHOOSE k \in Jobs : job[k].op = "idle"
    /\ job' = [job EXCEPT ![j] = [Idle EXCEPT !.op = op, !.todo = items, !.to = l,
                                              !.known = known]]
    /\ UNCHANGED <<tree, mapping, clipboard, creating>>

Paste(j, l) ==
    /\ clipboard.items # <<>>
    /\ \E known \in Listings(l) : Begin(j, clipboard.op, clipboard.items, l, known)

\* handleFileDrop leaves out what already is in the folder.
Drop(j, l, items) ==
    /\ items # <<>>
    /\ \A k \in DOMAIN items : items[k][1] # l
    /\ \E known \in Listings(l) : Begin(j, "drop", items, l, known)

\* nextCopyName
NextCopyName(n, known) ==
    IF n \notin known THEN n
    ELSE CHOOSE m \in (n + 1 .. MaxName) \ known :
             \A o \in (n + 1 .. MaxName) \ known : m <= o

\* The next entry of the list.  Two connections may reach one server: an entry is
\* renamed, or copied by the shell, only when source and destination are the
\* same connection.
Take(j, sameHost) ==
    LET entry == Head(job[j].todo)
        n     == entry[2]
        as    == NextCopyName(n, job[j].known)
    IN  /\ job[j].todo # <<>> /\ job[j].doing = NoItem /\ ~job[j].cancelled
        /\ sameHost => SameDisk(entry[1], job[j].to)
        /\ n \notin job[j].known \/ (n + 1 .. MaxName) \ job[j].known # {}
        /\ job' = [job EXCEPT ![j].todo = Tail(@), ![j].known = @ \cup {as},
                     ![j].doing =
                         [step |-> IF sameHost THEN "call" ELSE "copy",
                          from |-> entry, as |-> as,
                          left |-> {e.part : e \in At(entry)}]]
        /\ UNCHANGED <<tree, mapping, clipboard, creating>>

Target(j) == <<job[j].to, job[j].doing.as>>
Over(j) == job' = [job EXCEPT ![j].doing = NoItem]

\* `cp -r` writes over a file and into a directory, and merges directories; it
\* refuses one kind over the other.
MayCopy(from, to) ==
    /\ Lands(from, to)
    /\ \A e \in InTheWay(from, to), n \in Landing(from, to) :
          SameSlot(e, n) => (IsDirectory(e) <=> IsDirectory(n))

\* One remote call on one server: cp for copy, rename or sudo's mv for cut and
\* drop.  The mappings of open files stay as they are.
RemoteCall(j) ==
    /\ job[j].doing.step = "call" /\ Over(j)
    /\ LET from == job[j].doing.from
       IN  \/ UNCHANGED tree
           \/ /\ job[j].op = "copy" /\ MayCopy(from, Target(j))
              /\ tree' = [tree EXCEPT ![job[j].to] = Laid(@, Landing(from, Target(j)))]
           \/ /\ job[j].op # "copy" /\ \E mv \in BOOLEAN : MayMove(from, Target(j), mv)
              /\ tree' = Moved(from, Target(j))
    /\ UNCHANGED <<mapping, clipboard, creating>>

\* A part is written into its directory, and a file not over a directory; mkdir
\* passes for done when the name is taken.
Above(part) == IF part % 2 = 1 THEN part - 1 ELSE 0
MayWrite(path, part) ==
    part # 0 => \E e \in At(path) : e.part = Above(part) /\ IsDirectory(e)
Taken(path, part) == \E e \in At(path) : e.part = part
TakenByDir(path, part) == \E e \in At(path) : e.part = part /\ IsDirectory(e)

\* copyFileCrossHost and copyFolderCrossHost: read one file and write it.
CopyPart(j, part) ==
    /\ job[j].doing.step = "copy" /\ part \in job[j].doing.left /\ ~job[j].cancelled
    /\ \A p \in job[j].doing.left : part <= p
    /\ MayWrite(Target(j), part)
    /\ \E e \in At(job[j].doing.from) :
          /\ e.part = part
          /\ \/ IsDirectory(e) /\ Taken(Target(j), part) /\ UNCHANGED tree
             \/ /\ ~TakenByDir(Target(j), part)
                /\ IsDirectory(e) => ~Taken(Target(j), part)
                /\ tree' = Written(Target(j), part, e.of)
    /\ job' = [job EXCEPT ![j].doing.left = @ \ {part},
                 ![j].doing.step = IF job[j].doing.left # {part} THEN "copy"
                                   ELSE IF job[j].op = "copy" THEN "done" ELSE "remove"]
    /\ UNCHANGED <<mapping, clipboard, creating>>

\* A read or a write fails; a broken write of a file leaves a file of no use.
Breaks(j) ==
    \/ UNCHANGED tree
    \/ \E part \in job[j].doing.left :
          /\ \E e \in At(job[j].doing.from) : e.part = part /\ ~IsDirectory(e)
          /\ MayWrite(Target(j), part) /\ ~TakenByDir(Target(j), part)
          /\ tree' = Written(Target(j), part, Nothing)

\* Mutant: the error is swallowed and the source removed all the same.
CopyBreaksQuietly(j) ==
    /\ job[j].doing.step = "copy" /\ Breaks(j)
    /\ job' = [job EXCEPT ![j].doing.step = IF job[j].op = "copy" THEN "done" ELSE "remove"]
    /\ UNCHANGED <<mapping, clipboard, creating>>

CopyBreaks(j) ==
    /\ job[j].doing.step = "copy" /\ Breaks(j)
    /\ Over(j)
    /\ UNCHANGED <<mapping, clipboard, creating>>

Copied(j) ==
    /\ job[j].doing.step = "done" /\ Over(j)
    /\ UNCHANGED <<tree, mapping, clipboard, creating>>

\* deleteRemotePath: `rm -rf`, or file by file without a shell, a directory after
\* what is in it; a failure leaves some of the files and only warns.
RemoveSource(j, gone) ==
    /\ job[j].doing.step = "remove" /\ gone \subseteq At(job[j].doing.from)
    /\ \A e \in gone, n \in At(job[j].doing.from) \ gone : e.part # 0 /\ e.part # Above(n.part)
    /\ tree' = [tree EXCEPT ![job[j].doing.from[1]] = @ \ gone]
    /\ Over(j)
    /\ UNCHANGED <<mapping, clipboard, creating>>

\* The progress notification's cancel button, while there is something to cancel.
Cancel(j) ==
    /\ job[j].todo # <<>> \/ job[j].doing.step = "copy"
    /\ ~job[j].cancelled
    /\ job' = [job EXCEPT ![j].cancelled = TRUE]
    /\ UNCHANGED <<tree, mapping, clipboard, creating>>

\* A finished cut clears the clipboard, whatever it holds by now.
Finish(j) ==
    /\ job[j].op # "idle" /\ job[j].doing = NoItem
    /\ job[j].todo = <<>> \/ job[j].cancelled
    /\ clipboard' = IF job[j].op = "cut" THEN Empty ELSE clipboard
    /\ job' = [job EXCEPT ![j] = Idle]
    /\ UNCHANGED <<tree, mapping, creating>>

------------------------------------------------------------------------------
Command ==
    \/ \E path \in Paths : Open(path) \/ CheckFree(path)
    \/ \E from, to \in Paths : RenameRemote(from, to)
    \/ \E path \in Paths, i \in Items : CreateFolder(path, i)
    \/ \E items \in Selections, op \in {"copy", "cut"} : SetClipboard(items, op)
    \/ ClearClipboard
    \/ \E j \in Jobs, l \in Folders : Paste(j, l) \/ \E items \in Selections : Drop(j, l, items)

JobNext(j) ==
    \/ \E sameHost \in BOOLEAN : Take(j, sameHost)
    \/ RemoteCall(j) \/ Copied(j) \/ CopyBreaks(j) \/ Cancel(j) \/ Finish(j)
    \/ \E part \in Parts : CopyPart(j, part)
    \/ job[j].doing.step = "remove"
       /\ \E gone \in SUBSET At(job[j].doing.from) : RemoveSource(j, gone)

Step ==
    \/ commands < MaxCommands /\ Command /\ commands' = commands + 1
    \/ (\E j \in Jobs : JobNext(j)) /\ UNCHANGED commands
    \/ (\E path \in Paths, i \in Items : CreateFile(path, i)) /\ UNCHANGED commands

\* A step of another operation changes what j found in the folder it puts things
\* into, or in the one it is taking an entry from.
Touched(j) ==
    /\ job[j].op # "idle" /\ job'[j] = job[j]
    /\ \/ tree'[job[j].to] # tree[job[j].to]
       \/ job[j].doing # NoItem
          /\ tree'[job[j].doing.from[1]] # tree[job[j].doing.from[1]]

\* The listing j begins with is not the folder's.
BeginsBlind(j) == job[j].op = "idle" /\ job'[j].known # NamesAt(job'[j].to)

Next ==
    /\ Step
    /\ stale' = {j \in Jobs : job'[j].op # "idle" /\ (j \in stale \/ Touched(j) \/ BeginsBlind(j))}

Spec == Init /\ [][Next]_vars

------------------------------------------------------------------------------
(* Properties *)

Holds(i, p) == \E l \in Folders : \E e \in tree[l] : e.of = i /\ e.part % 2 = p

\* "honours never sacrifice data correctness": whatever call of a paste or a drop
\* fails or is cancelled, no file is lost, by SFTP, cp or sudo's mv.  The
\* exceptions are a paste or a drop whose listing failed, which counts as an empty
\* folder, and one while another operation changes the folders it works on.
NothingLost ==
    [][\A j \in Jobs \ stale : job'[j] # job[j] =>
          \A i \in Items, p \in 0 .. 1 : Holds(i, p) => Holds(i, p)']_vars

\* "conflict-safe rename (keep both, never overwrite)": no operation writes over
\* a file of another item.
NeverOverwrites ==
    [][\A l \in Folders : \A e \in tree[l], n \in tree'[l] :
          e.name = n.name /\ e.part = n.part => e.of \in {n.of, Nothing}]_tree

\* The mapping of an open file holds a path at which that file is.
MappingFollows ==
    \A m \in mapping : \E e \in At(m.path) : e.of = m.item
==============================================================================
