# SSH Lite in TLA+

Specifications of SSH Lite, a VS Code extension that opens SSH servers in the
editor. They are kept beside the code: each module names the file it models,
`PROJECT.json` maps each definition to its lines, and the TLC runs and the TLAPS
proofs below say what is known about them.

The extension host is one JavaScript thread. Between two awaits nothing else
runs, so an action of a module is what the code does from one await, timer or
event to the next. All the difficulty is in what may happen in between: another
command of the user, a timer, a socket event, a message, a late answer.

## 1. Inventory

| Component | State | What is hard | Module |
|---|---|---|---|
| `ConnectionManager.ts` and the life cycle of `SSHConnection.ts` | `_connections`, `_disconnectedConnections`, `_activeReconnectAttempts`; per object `state`, `_client`, the pending `connect()` | several objects of one id alive at once; events of an old one meet the state of a newer one; timers; cool-down | `ConnectionManager`, `ReconnectCycle` |
| `ChannelSemaphore.ts` | ceiling, active count, waiters, successes, destroyed | timeouts against hand-over; a ceiling that moves | `SemaphoreState`, `ChannelSemaphore` |
| `CommandGuard.ts` | a semaphore per connection id, activities | a semaphore replaced under calls that hold its slots | `CommandGuard`, `Activities` |
| `PriorityQueueService.ts` and its callers | queues per connection and priority, cancel flags, keys being preloaded | reserved slots, lost wake-ups, cancellation while tasks run | `PriorityQueueService` |
| `SearchPanel.ts`, worker pools | active searches, pools with their counters and queue | workers that join and leave between awaits; counters that decide when all is over | `SearchPool` |
| `SearchPanel.ts`, scopes | servers, their paths, redundancy, connections opened by a search | clicks that name a path by its place in an older list; who may close a connection | `SearchScopes` |
| the search webview | tabs, routes of batches, what is rendered, saved state | two queues of messages; a message acts on what the other side has become | `SearchView` |
| `FileService.ts`, save and refresh | mappings, pending and running uploads, badges, stamps | uploads that overlap; a refresh that races a save; what a stamp was taken from | `FileSync` |
| `FileService.ts`, local copies | the lock of a file, the placeholder, the mapping, cleanup | five kinds of operations on one copy, and a lock with more than one waiter | `FileCopy` |
| `FileService.ts`, backups | local history, backups on the server, deletion, restore | a step that fails between the backup and what it is for | `Backups` |
| copy, move, rename, create (`FileService.ts`, `RemoteClipboardService.ts`, `FileTreeProvider.ts`) | the clipboard, operations under way, mappings | names chosen before an await; a copy that breaks in the middle; a source removed | `RemoteMoves` |
| `FileService.ts`, watch on the focused file | watched file, native or polled, heartbeat, activity; streams of `SSHConnection.ts` | a start that is awaited while the focus or the connection changes | `FileWatch` |
| sudo (`_sudoExecRaw`, its dialogs and caches) | sudo mode, cached password, the protocol's state | prompt, refusal and ready mark on one stream, in any chunks | `SudoExec` |
| `ProgressiveDownloadManager.ts`, `ProgressiveFileContentProvider.ts` | downloads, previews, tail-follow | cancel against completion; an open that meets another open | `Downloads` |
| `PortForwardService.ts` and its tree | local servers per object, saved rules | restore and cleanup by id while objects come and go | `PortForwards` |
| `TerminalService.ts` | terminals of an id, shells, pseudoterminals | either end may go first; ids that are prefixes of each other | `Terminals` |
| `ActivityService.ts` | activities, removal timers | an end that comes late, twice or never | `Activities` |
| `CredentialService.ts` and its commands | the index in the settings, secrets, session passwords | index read, awaited over, written back | `Credentials` |
| `FileTreeProvider.ts`, listings | cache, loads in flight, loading and failed items | a listing that returns after its cache was cleared | `FileTree` |
| `FileTreeProvider.ts`, filters; badges; `FilenameIndexService.ts` | pattern and results, filters of folders, badges, reveal | a filter replaced while its search is under way | `TreeFilters` |
| `HostService.ts`, `ConnectionPortabilityService.ts`, `GoogleDriveSyncService.ts` | host list, tokens, the file on Drive | dialogs and requests between reading and writing the list; other machines | `HostSync` |
| FTP, monitors, SSH keys, snippets, folder history, beacons, hooks, housekeeping, other webviews | mostly none over an await | little: data and I/O | none |

How they interact: `extension.ts` listens to `ConnectionManager` and, when an
object of an id disconnects or connects, removes the semaphore, closes terminals,
clears the tree's cache, cleans up files and watches, restores forwards.
`CommandGuard` takes a slot of the connection's `ChannelSemaphore` for each exec
and each shell and wraps operations in activities. The panel and the tree call
`SSHConnection` through the guard; the panel's pools look at `ActivityService` to
yield to the user. `FileService` and `FileTreeProvider` enqueue background loads
in `PriorityQueueService`. A module contains what its component sees of the
others: `PortForwards`, `Terminals`, `FileWatch` and `SearchScopes` the life of
connection objects, `Activities` the guard and the search, `TreeFilters` the
commands of `extension.ts`, `SearchView` both ends of the message channel.

What makes each right: one retry at a time and no id stuck as reconnecting; as
many slots counted as held, no waiter forgotten; the user's loads before the
background's; no file missed by a search and every search over in the end; what
was saved is on the server and what is shown is what is there; no file lost by a
move, nothing replaced without a copy; what the user is shown as running, open or
forwarded is. `PROJECT.json` lists the hazards line by line with the properties
that would catch them.

## 2. Modules

### ConnectionManager, ReconnectCycle

`conn` holds the `SSHConnection` objects of the id: its `state`, whether `_client`
is set, where its `connect()` stands (`call`) and the socket under the ssh2 client
(`sock`, a library: external). `connections`, `disc` and `active` are the
manager's three maps at the id; `armed` is what the event loop still has to fire,
as opposed to the handle in `disc.timer`, which outlives its timer in the code,
too. `clearPending` is the 500 ms timer after a retry that failed for good.
`wanted` is a history variable, used by one property only. One action per
await-to-await step: `UserConnect`, `UserDisconnect`, `UserStopReconnect`,
`TimerFires` (attemptReconnect up to its first await), `AuthReady`, `AuthFails`,
`Ready`, `HandshakeError`, `ReadyTimeout`, `CatchConnect`, `Close`
(handleDisconnect and the listener it runs at once), `ConnectSucceeds`,
`ConnectFails`, `ClearActive`. An object is taken again once nothing can reach it
(`Free`): `Conns` bounds how many are alive, not how many were made.
`ReconnectCycle` is what the manager promises: an id is idle, waits, tries or
cools down; `phase` in `ConnectionManager` is the refinement mapping
(`Cycle == INSTANCE ReconnectCycle WITH phase <- phase`). `MCConnectionManager`
adds symmetry, `ConnectionManagerProofs` the theorems.

### SemaphoreState, ChannelSemaphore, CommandGuard, PriorityQueueService

The semaphore's methods are synchronous, so each is an operator of
`SemaphoreState` on its record; `ChannelSemaphore` is one semaphore and any
callers, `CommandGuard` has one per generation. A caller that holds a slot
releases it once, as the `released` flag in the closure sees to; the callers in
`Keepers` stand for `openShell`, which keeps its slot until the user closes the
terminal. `CommandGuard`
keeps two generations of the semaphore of one id, the one in the map and one that
was removed while calls still refer to it. In `PriorityQueueService`, `Process` is
processConnectionQueue with its inner choice of a task; the finally of executeTask
is part of `Finish`. A directory task may enqueue up to three subdirectories while
it holds its slot, as `enqueueDirectoryPreload` does (three are at work only with a
fourth folder: section 3).

### SearchPool, SearchScopes, SearchView

A pool is the closure of `performSearch`: its queue of folders and batches, its
counters, and how many of its workers list, grep, post or wait. Identity of the
workers does not matter, they share one loop, so they are counted. `hung` is set
when the synchronous loop of `updatePriority` has no exit. `SearchScopes` keeps
the panel's server list with its paths (a path is the sequence of its names), the
list the webview last got (`shown`) and its clicks in a queue, and the connections
a search opens and closes. `SearchView` is the webview with the panel reduced to
how many batches each search still posts; both directions are queues, and
rendering is compared by counts, as the code's fast path does.

### FileSync, FileCopy, Backups, RemoteMoves

`FileSync`: a content is a number, a modification time is known to be that of the
server's file or not. `pending` is the debounced save, `inFlight` the uploads whose
promise is open, `unapplied` those the server may still write after the client's
60 s. `sync` is the refresh, the button or the reopening that holds the lock.
`overlapped`, `raced`, `dropped`, `saved` and `external` are history. The defaults
of `package.json` hold: upload on save, no confirmation.

`FileCopy` has one file and the operations on its local copy: opens, preloads, the
poll's refresh, the button, the background download, cleanup, the command that
reconnects an orphan. Only the placeholder's text and the file's are told apart.
JavaScript runs the continuations a release wakes before any other event, which
`Settled` keeps. `Backups` names a content by file and number; `tasks` are the
operations between their awaits, `overtaken` the uploads during which another
operation changed their file. In `RemoteMoves` an entry has parts (a file one, a
directory itself and what is below it), each with the item whose content it is.
SFTP's rename refuses an occupied name, sudo's `mv` (`MayMove` with `mv`) replaces a
file by a file and moves into a directory, where what was moved has parts of its own
(`Inside`); `cp -r` (`MayCopy`) writes over files and merges directories. A listing
of the destination may fail, and then counts as empty (`Listings`). `AtOnce` bounds
how many operations overlap, `MaxCommands` what the user asks for; `stale` are the
pastes and drops that know less of their folders than there is, because the listing
failed or another operation changed them. Nothing is moved into a directory that
itself lies in one that was moved (`Lands`).

### Downloads, FileTree, TreeFilters

`Downloads`: an open is one call with the `DownloadState` it made; `gate` is the
chain of promises in `downloadLock`; files have equal names, so that closing a tab
may cancel the download of another file. `FileTree`: `activeLoads` with what a
load has `reading`, `fired` the folders the editor was told to ask for again,
`shown` what it shows; `Requests` bounds what users, servers and timers do.
`TreeFilters` has the pattern with its deep search of the servers and the filters
of single folders with their badges, `revealFile`, and the filename index: two
parts without common variables, run one at a time (`PatternNext`, `FolderNext`).

### PortForwards, Terminals, Activities, FileWatch

`PortForwards`: several objects of an id, the manager's entry, the local servers
each object listens on, the rules, the tree; `crossed` are the objects that lived
beside another of the id. `Terminals`: `Shares` says which id's
text begins with another's, as `closeTerminalsForConnection` compares; shell and
pseudoterminal are separate. `Activities`: operations of three kinds with their
activity, the user's cancel and the removal timers; a monitor is `stray` once a
second `startFileWatch`, as at the end of `openRemoteFile`, has overwritten its
activity's id, and then nobody ends it (`MonitorReplaced`). `FileWatch`: the focused file
with its watch, native or polled; `starting` counts the calls that wait for
`watchFile`, `streams` the channels open on the server, `stray` an activity that
no id stands for any more.

### Credentials, HostSync, SudoExec

`Credentials`: `updates` is the queue of `config.update` calls, each with the whole
index it writes; a secret counts when its store is issued. `HostSync`: one command
at a time, other machines push beside it, a sign-out may overlap a request.
`SudoExec`: `stderr` and `stdin` are sequences of tokens, cut into chunks anywhere;
sudo and the inner shell are external, modelled from what the protocol expects. The
password takes the first prompt out of the buffer, as `replace` does.

### MCQueues, MCFiles, MCSession

Each of these checks several components that share no variable, with one
`component` chosen in the initial state; the others keep their initial values and
have one initial state. The state space is therefore the disjoint union of those
of the components, each as large as if it were checked alone. Where the fairness
of a component is needed it is stated on its own actions and variables. TLC
counts, for its coverage report, one action per component; that every action and
disjunct inside fires was read from the counts of the subexpressions. Where two components
have a parameter of one name, the MC module has a constant for each
(`SemaphoreMax`, `SemaphoreRecover`, `GuardMax`, `GuardRecover` in `MCQueues`).

Their theorems are in `QueuesProofs` (about `MCQueues`), `FilesProofs` (`MCFiles`),
`SessionProofs` and `SearchProofs` (`MCSession`); those of `FileSync` in
`FileSyncProofs`, of `SearchPool` in `SearchPoolProofs`. A proof module extends the
module it is about and changes nothing in it. `FoldProofs` has the lemmas on folds
over finite sets that `QueuesProofs`, `SearchPoolProofs` and `SessionProofs` share;
`SearchProofs` extends `SessionProofs`, to state the types of the whole session.

## 3. Runs

| Run | Bounds | States | Shows |
|---|---|---|---|
| `cm` | 3 objects, 2 timers, symmetry | 1.38 M | `SingleAttempt`: one retry at a time, shielded exactly while it runs or cools down. `NoOrphanTimer`: what will fire can be cleared. `NoStalledReconnect`: an id shown as reconnecting is being worked on. `DropIsRetried`: the event of a loss schedules its retry. `ImplementsCycle`: refinement of `ReconnectCycle` |
| `cm_live` | 2 objects, 2 timers | 83 k | `ConnectSettles`, `KeepsRetrying`, `ActiveEnds` |
| `queues` | semaphore: 4 callers, 2 of them shells, ceiling 3, recovery after 5; guard: 2 execs, 1 shell, 2 generations, 1 retry; preloads: 3 folders, 1 background task, limits 1, 2, 4 | 110 k | `SlotsTrue`: slots counted as held, the queue is who waits, nobody waits beside an idle semaphore, the configured ceiling. `GuardTrue`: no slot of the live semaphore lost, activities end. `ReservedSlots`: also nothing that may run is left queued. `TypesOK` also says that a key stands for a task. `WaiterSettles`, `ExecSettles`, `HighStarts`: everybody is served, but for who waits without a timeout while shells hold all slots |
| `search_live` | 1 search, up to 3 workers, 6 items | 54 k | `SearchEnds` |
| `search_pool` | 2 searches, 2 paths, up to 3 workers wanted, cap 2, 2 items | 1.6 M | `WorkCounted`: every item queued, held or counted (`Accounted`), "done" only then (`DoneMeansAll`), and over only when all is seen (`NothingMissed`). `GrowthCapped` |
| `files` | 2 opens of 2 large files; 2 operations on a copy; 1 file, 3 versions, history of 2, 2 operations at once; 2 jobs, 2 folders of one server, 2 items, 3 commands, 2 operations at once; 2 directories, 4 requests | 922 k | `LocksHeld`: a lock belongs to who is inside, one reader per file. `OpenEnds`: every open ends. `UploadKeepsOld`: what an upload replaces is in the history, unless it was overtaken. `NothingLost`: no paste or drop loses a file, unless it is stale. `TreeIsCache`: spinners are loads, a quiet tree shows its cache. `TreeSettles`: a load ends |
| `file_sync` | 3 contents after the first | 1.16 M | `SavedIsOnServer`; `RememberedIsTrue`: the badge is there for an upload, the fast path skips nothing; `BadgeEnds` |
| `session` | 3 connection objects, 2 connects in flight, 2 ports; 2 ids with 2 terminals; 2 operations; 2 credentials, 2 calls; 2 hosts, 2 files on Drive; 1 sudo call, 2 passwords; 2 servers, 2 patterns, 2 searches; 2 watched files, 2 objects; 2 searches of 2 batches, 2 tabs; 1 server with paths of depth 2 | 1.09 M | `ForwardsTrue`, `TerminalsAreLive`, `ActivitiesAreReal`: what is shown as forwarded, open or running is. `HostsKept`: no host the user entered is taken away. `PasswordStaysOut`: the password is never part of a file. `FiltersTrue`: "Searching..." and badges stand for searches and filters. `NoMixedResults`: no tab shows two searches. `ScopesTrue`: every path is searched, by itself or by one above it |
| `manual_disconnect`, `search_hang`, `search_cancel`, `refresh_upload` | | | the code does not do what a line of the repository says: section 5 |

Why the bounds are enough. Two objects are needed for a late event of an old one
to meet a newer one, a third for a user's connect beside a retry and a dying
socket. With four callers on three slots somebody queues behind somebody. Slot
limits of 1, 2 and 4 leave room for one, two and all priorities; that a task queues
three subdirectories at once needs a fourth folder, which was checked by itself
with limits of 1, 2, 4 and 6 and symmetric folders (12 k states), and is part of
the theorem. Two searches
share the cap, the tabs and the routes. Three contents are an opened file, a save,
and a save or a foreign write that overtakes it; three versions fill a history of
two and push one out. Two opens, operations or servers are what an interleaving
needs; where a third or an overlap changes the answer, section 5 says so. One
folder name in two levels gives a path, its parent and the root; redundancy is
decided among the paths of one server, so one server is enough for it, and what
several of them would do is only in the theorem. The kept tabs
above their limit, where the oldest is evicted, need three tabs; they were checked
with `MaxTabs = 3` by themselves (1.03 M states).

With two pastes or drops at once a name that one listed as free is taken by the
other before it is used, and by sudo's `mv` written over; two folders of one server
let every kind of transfer happen between them, since a step by parts needs no
second server (a user may have two connections to one); three commands are a
selection and two pastes, or a paste beside two others.

Waiters of a kind, commands and folders are interchangeable in `queues`: its
liveness properties are checked for one of each, which stands for all. Where a run has a
total of requests, contents, starts or versions the system stops when they are
used up, hence no deadlock check in `files`, `file_sync` and `session`.

Conditions in the properties. `SavedIsOnServer` and the badge are stated for files
whose uploads did not overlap and were not dropped by a cleanup, the fast path for
syncs that met no save: outside these the code makes no promise that holds
(section 5), and the history variables say exactly where the promise ends. So do
the others: `UploadKeepsOld` excepts uploads that were `overtaken`, `NothingLost`
jobs that are `stale` (renames and new files the user asks for by name are not
pastes or drops, and sudo's `mv` may overwrite there, too), the tree of `ForwardsTrue`
objects that were `crossed`, though its servers none; `ActivitiesAreReal` a monitor
that is `stray`. `WaiterSettles` excepts a waiter without a timeout while `Keepers`
hold every slot that is held.
`KeepsRetrying` excepts the moment when all objects of the model are in use.
`ExecSettles` excepts shells that hold every slot, which a user may leave open for
ever, and `ActiveEnds` a retry that waits at a prompt.

Fairness. Timers fire and continuations of settled promises run: weak fairness of
these actions, since node's event loop runs what is due. A remote call is
answered, fails or times out where the code bounds it (the ready timeout, the
60 s of writeFile, the acquire timeouts) or where the connection's loss ends it.
In `files` the lock chain of the downloads and the steps of an open are fair, and
the editor asks for a folder it was told has changed. A command gives its slot back,
a shell need not: `Release` is fair for callers that are not `Keepers`. Nothing is
assumed of the user, nor that a server is ever reachable.

Every property comes with a mutant in `PROJECT.json`: an operator beside the
definition it replaces, with the change of a plausible bug, that TLC finds to
violate the property.

## 4. Theorems

Every theorem holds for all values of the constants that meet the assumptions of
the modules: any number of objects, callers, files, folders, searches, any bound.
None has a hypothesis beside the specification; where a promise of the code ends, the
history variable that says so is in the property (section 3), and each was put there
because TLC shows a counterexample without it (section 5). Proofs about several
components go through one module per run, whose lemma `OneComponent` (or
`SearchComponents`) says that a step of the run is a step of each component or
leaves it alone.

`ConnectionManagerProofs`: `Invariance` (`IInv == TypeOK /\ EntryWellFormed /\
SingleAttempt /\ NoOrphanTimer /\ NoStalledReconnect`), `TypeCorrect`,
`OneAttempt`, `TimersOwned`, `NoStall`, `DropAnswered` (the action property
`DropIsRetried`) and `Refinement` (`ImplementsCycle`). None of the invariants is
inductive alone: that a retry that fails re-arms the right timer needs that none
is armed beside it (`NoOrphanTimer`), that a timer that fires starts the only
retry needs `SingleAttempt`, that the listener's silence loses nothing needs both.
Together, and with the fact that an absent entry has no handle, they are. The
proof does not repeat the case analysis for each use: lemma `StepKind` shows that
every step of the specification is of one of eight kinds, which say only how
entry, timers, flag and the set of retries change; each kind preserves `IInv`
(`KindKeepsIInv`) and is a step of `ReconnectCycle` or a stutter
(`KindIsCycleStep`).

`QueuesProofs`:

- `Slots` (`SlotsTrue`). The invariant `SemaphoreInv` is the conjunction of the
  module's own properties and types: a hand-over keeps the count because the first
  of the queue is a waiter and occurs there once, which is `QueueIsWaiting` with
  the lemmas on sequences without repetition (`AppendDistinct`, `TailDistinct`,
  `SplicedDistinct`).
- `Guard` (`GuardTrue`). The invariant `GuardInv` says of semaphores, calls and the
  map's entry that they `Agree`: each queue lists those that wait on its semaphore,
  the semaphore in the map counts its holders, and any other one a call refers to
  was destroyed. Without the last part a release on an old semaphore could free a
  slot of the new one. One lemma per operation (acquire, release, timeout, remove)
  says that it keeps the agreement; the actions are compositions of these.
- `SlotsReserved` (`ReservedSlots`, two action properties). The invariant
  `PreloadInv`: the queues and the running set of a connection are finite, without
  repetition, disjoint, and hold a task under its own priority (`Lined`); no task is
  on two connections; the keys of the tree stand for tasks. A loop of
  processConnectionQueue starts a prefix of the tasks in order of priority and age,
  up to the first that may not run (`StartsFacts`, `ProcessLines`), so each one it
  starts fits beside the running and the more urgent ones (`ProcessFits`). The
  subdirectories of a directory task are a fold of such loops: by `FoldInduction`,
  after any set of them in any order, what has started exceeds its share by at most
  one slot for each (`EnqueuedGrows`), of which the directory task gives back one.
- `QueueTypes` (`TypesOK`), from the three invariants. `TasksAssumption`, that a
  preloaded file is not a directory, makes a key of the tree stand for one task.

`FileSyncProofs`: `Invariance`, `Types`, `Saved` (`SavedIsOnServer`), `Remembered`
(`RememberedIsTrue`). While uploads did not overlap there is one at a time and it
is of the content saved last (`OneUpload`); that content waits, is on its way,
failed or is on the server (`SavedArrives`). For the fast path, what a sync has
read is on the server while the stamp taken before the read is current
(`StampOfRead`), a sync that met no upload has the disk to itself (`SyncAlone`), a
write makes the stamp stale (`WriteUnstamps`), and a clean document shows what was
saved or read last (`Shown`).

`FilesProofs`:

- `Locks` (`LocksHeld`): whoever waits for a lock waits for an operation that is
  inside, and the downloads that are active are those their file's entry names.
- `Tree` (`TreeIsCache`): every folder in view whose drawing the editor was not
  asked for again shows its files, waits for a load, or shows that it failed.
- `Kept` (`UploadKeepsOld`), whatever else is under way: an upload that nothing has
  overtaken has what its editor had read in the history, which grows at its head
  and loses its oldest; as long as what the mapping remembers does not change, every
  save pushes that content again, so it cannot be the one that is lost.
- `Lost` (`NothingLost`), whatever else is under way: `SafeInv` says of every job that
  is not stale that the names of its destination are known to it, so that what is
  taken goes to a free one, where `mv`, `cp` and the copy by parts do the same; there
  it grows part by part, and is whole before its source is removed. `LaidApart` and
  `LandingApart` say what a move changes besides, `OtherIsSafe` that a step of another
  operation that leaves the job's folders alone leaves it safe.
- `Types` (`TypesOK` of `MCFiles`), from the invariants of all five components.

`SessionProofs`: one inductive invariant per component.

- `ServersAreLive` and `ForwardsHold` (`ForwardsTrue`), whatever is in flight: an object
  that is alive and was never crossed is the only one alive and the manager's entry;
  every other one is new or dead and listens on nothing.
- `TerminalsHold`, with the terminals being opened counted against the bound: of the
  terminals that are open in the editor and of the open shells, not of those created
  and not opened yet.
- `ActivitiesHold`: an operation not begun has no activity, one pressed away is on
  its way out, and the number of its removal timers follows from its state; a stray
  monitor is the only operation without an owner; for the
  watch, the lemma `WatchChanges` reduces every step to one of five kinds.
- `HostsHold`: what a command works on was read before its dialogs and requests,
  but what it writes back keeps what was entered meanwhile; files are never taken
  off the drive, so its target is there.
- `FiltersHold`: the searching mark belongs to the search whose controller is kept.
- `PasswordHolds`: an invariant on the exchange of one call (`Exchange`): before the
  password is sent nothing is, sudo has not prompted once it has started the shell,
  and a password in the input is its first line while the shell does not read yet.
  It is assumed (`SudoAssumption`) that no password is a token of the model.
- the types of filters, watch, credentials and exchanges, for `SessionTypes` below.
  Each of three needs an invariant of its own. Of an exchange (`SudoShape`): before
  the client has answered a prompt one token is on the way at most, and sudo does
  not ask again while an answer is in its input; so no more than two are ever
  unread, and a prompt is read when it is all there is. Of the watch
  (`WatchTyped`): whatever has an entry in the watcher map has a stream, so the number
  of streams, which every stop lowers, is never lowered below zero; the starts under
  way that `MayStart` bounds are a fold, handled as in `SearchPoolProofs`, and
  `WatchAssumption` says that there are finitely many files. Of the credentials
  (`CredentialsInv`): a call that adds knows what it adds.

`SearchProofs`: `ScopesHold` (`ScopesTrue`): the flags of redundancy are those of the
list as it is now; the shortest path above a path is not flagged (`ShortestCovers`,
by the least length), so it is searched. `TabsHold` (`NoMixedResults`): Current has
the newest number and results of the latest search only; a kept tab has one
search and the routes to it name that search. `SessionTypes` (`TypesOK` of
`MCSession`), from the invariants of all ten components (`SessionInv`). Those it adds
here: a click fits the bound of its queue (`ClicksBounded`); a message in the mail is
of a search there has been, and of the kinds "searching" and "batch" never without one
(`KnownMail`), so a tab, a route and a message back name a search in turn
(`TabsKnown`), and the kept tabs stay within `MaxKept` because the pin drops the
oldest.

`SearchPoolProofs`: `Types` (`TypeOK`), `WorkIsCounted` (`WorkCounted`) and
`GrowthIsCapped` (the action property `GrowthCapped`), for any number of searches,
paths, workers and items. A search and its pool agree (`Sound`): outside of its
running phase a pool is empty, what is completed and what is queued or held add up
to what was found (to no more of it once it is aborted), and the last worker leaves
no queue (`Held`). Workers that join (`Manned`) change neither the work nor what is
pending, which is all that most handlers need to know of `updatePriority`. That
one and the count of all workers are folds over the registered pools; the library
says nothing of what a fold computes, so `FoldExists` proves that one exists and
`FoldInduction` that what holds of the empty set and of each set whose rest it
holds of, holds of all; both from the well-foundedness of `<` on the numbers. With
them, `TotalGrows` says how the total changes when one pool does, and
`PrioritiesUpdated` that after all pools were visited each that grew is within its
target, and the total within the cap.

Only model-checked, and why. Liveness under fairness (`ConnectSettles`,
`KeepsRetrying`, `ActiveEnds`, `WaiterSettles`, `ExecSettles`, `HighStarts`,
`SearchEnds`, `OpenEnds`, `TreeSettles`, `BadgeEnds`) is out of the proof system's
reach. Every invariant a passing run checks is stated by a theorem. The formulas of
section 5 are false, so there is nothing to prove.

## 5. Where code and words differ

Four runs show it:

- `ManualDisconnectSticks`. The comment in `disconnect` says it marks the id "to
  prevent auto-reconnect". A second `disconnect()` before the client's 'close'
  event finds no client, sends the state event itself and so uses the mark up; the
  'close' event then starts reconnecting.
- `NeverHangs`. `updatePriority` adds workers until as many are active as wanted;
  workers that have nothing to do leave before they are counted, and the loop
  does not end: for instance when the number of processes is raised, or an
  operation of the user ends, while the last batch is being searched.
- `CancelledEnds`. A worker whose search is cancelled during a listing leaves
  without counting the listing off, and workers that wait for it poll for ever;
  `performSearch` never reaches its finally.
- `RefreshSparesUploads`. Of two uploads of a file, the first to end removes the
  marks of both, and a refresh starts while the other is in flight.

Others are formulas beside the properties of a module that TLC violates when they
are added to its run, with the bounds of that run unless said otherwise. They
mark where the properties of section 3 end.

| Formula | Length | What happens |
|---|---|---|
| `FileCopy!NoPlaceholderUpload` | 8 | the text "// Loading ..." of a copy that still downloads is mapped by reconnecting the orphan, saved and uploaded over the file |
| `FileCopy!MutualExclusion`, 3 operations | 6 | two waiters of one lock both go in |
| `FileCopy!OpenStaysMapped`, `TickerRuns` | 5, 3 | a cleanup forgets the mapping of an open document; a progress interval outlives its download |
| `Backups!DestroyedHasBackup` | 3 | the backup fails, the deletion or restore goes on |
| `Backups!FirstBackupIsOriginal` | 12 | the background backup of an open holds what was saved meanwhile |
| `Backups!UploadKeepsOld` without `overtaken` | 7 | of two uploads that overlap both push the content of before; what the first wrote is replaced by the second and was never pushed |
| `RemoteMoves!NothingLost` without `stale` | 5, 7 | the listing failed, so a name is thought free: a paste into its own folder writes over the file and breaks off; `cp` or sudo's `mv` writes over another file |
| `RemoteMoves!NeverOverwrites` | 5 | two operations choose one free name; a listing that fails counts as empty |
| `RemoteMoves!MappingFollows` | 5 | a moved or renamed folder leaves the mapping of a file in it behind |
| `PriorityQueueService!ReservedSlots` without `Late`, 4 folders | 5 | the limit was raised; of three subdirectories queued at once the third takes a slot that an IDLE task left free |
| `SudoExec!SavedIsWritten` | 4 | a channel that closes without an exit status counts as success |
| `Downloads!EditableIsMapped` | 12 | the open that finds the copy on disk does not map it |
| `Downloads!CancelledStays` | 7 | cancel reaches nobody; the end of the read turns cancelled into completed |
| `FileTree!RefreshIsFresh` | 5 | a load that read the folder before a change puts its old listing into the cleared cache |
| `TreeFilters!ResultsMatchPattern` | 6 | a search of an older pattern answers after it was cancelled and its results are kept |
| `FileWatch!OneWatcher`, `NativeIsWatched`, `NoStrayActivity` | 4, 5, 4 | a start that was awaited while focus or connection changed leaves a stream, a watch without events, an activity for ever |
| `Credentials!RetriesListed` | 8 | the new password is stored for a credential the refused login is deleting |
| `HostSync!OneFile` | 6 | two machines that push first both create the file |
| `PortForwards!TreeIsTrue` without `crossed` | 5 | a connect that fails deletes the entry of another one, whose forwards stay shown |
| `SearchView!KeptIsRouted`, `KeptKeepsView`, `ScreenIsTab` | 12, 12, 13 | the next search empties the routes of kept ones; a kept tab takes over the expansion of another; the fast render leaves another tab's results |
| `SearchScopes!ConnectingIsReal`, `EndSparesOthers`, `ModeIsChosen` | 7, 8, 3 | "connecting" stays after its search; a search disconnects a server others use; a state message turns the mode back |

Met while modelling and not stated: `.adn/flow/connection-flow.md:72` says that a
failure of authentication does not reconnect, but the 'close' event of a retry
that failed so, when it comes after the cool-down, starts again from the
beginning; lines 75-76 say a lost connection is retried, but a drop during the
save of the attempt just made is ignored; `FileTreeProvider.ts:757` says an
expanded folder resets a cancelled queue, but the flag of a global cancel stays,
and tail-follow, which asks the same queue, stops with it
(`ProgressiveFileContentProvider.ts:205`); a test of the semaphore expects its
count to stay below the ceiling, which a hand-over after `reduceMax` does not
keep; `.adn/flow/file-save-flow.md` gives other defaults for the debounce and the
confirmation than `package.json`; an older filename search that ends later brings
its filter back (`FileTreeProvider.ts:2441-2540`); the first listing of
`revealFile` may throw past the end of its activity (`extension.ts:2893`).

## 6. Not modelled

The components with status `not_modelled` in `PROJECT.json`, each with its reason:
the second transport (FTP), whose operations await one call each; remote monitors,
keys, snippets and diffs, one command and one parse; the text of shell commands;
telemetry, hooks and housekeeping, local I/O; views without state shared between
callbacks; the chaos harness. Formatting, wording, logging and layout are left out
throughout; so are the commands that run one remote program and show its output.
Within the modelled components, the note of each in `PROJECT.json` names what is
left out.

## 7. Plan

Done: the connection manager with its proofs; the semaphore and the guard; the
preload queue; the search pools, scopes and view; save and refresh; local copies,
backups and moves; downloads, the tree and its filters; forwards, terminals,
activities, watches; credentials, hosts and their synchronisation; sudo.

Next, in this order:

1. the session teardown of `extension.ts` as one composition of `ConnectionManager`
   with `PortForwards`, `Terminals` and `FileWatch`;
2. the smart refresh and the re-created mapping in `FileSync`; a second scope path
   per search.

Abstract specifications worth stating there: the semaphore as a counter of
holders, and the file as a register that a save writes.
