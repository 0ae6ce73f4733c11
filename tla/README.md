# BrowserFS in TLA+

BrowserFS gives programs in a browser the `fs` module of Node.  Its file systems
("backends") store their files in memory, `localStorage`, IndexedDB, on servers, in
other workers, or in one another.  This directory models the parts of it that keep
state, checks them with TLC on small instances, and proves the safety properties with
TLAPS for all instances.  Paths below are relative to `src/src/`.

## The system

| Part | State | Operations | What makes it hard |
|---|---|---|---|
| `SyncKeyValueFileSystem`, `InMemory` (`generic/key_value_filesystem.ts`, `backend/InMemory.ts`) | a key-value store: inodes, listings, file bytes, under random GUIDs | mkdir, open (create, truncate), sync and close of a file, unlink, rmdir, rename, empty | every operation changes three to five keys that must agree; open files outlive their path |
| `SimpleSyncRWTransaction` (same file) | an undo log | get, put, del, commit, abort | a put may throw after any mix of earlier ones |
| `LocalStorage` (`backend/LocalStorage.ts`) | the same layout, on disk after each put | the same | the tab may go away between any two puts; quota; a `del` that deletes nothing |
| `AsyncKeyValueFileSystem`, `IndexedDB` (same file, `backend/IndexedDB.ts`) | the store, a cache from path to inode id, transactions and timers under way | the same, with callbacks | calls overlap; the cache is read before a transaction, filled during and emptied around it |
| `LRUCache` (`generic/key_value_filesystem.ts`) | a map and a doubly linked list | set, get, remove, removeAll | pointer surgery at head, tail, limit |
| `LockedFS`, `Mutex` (`generic/locked_fs.ts`, `generic/mutex.ts`) | the lock, its waiters, the immediates | every call of a file system | hand-over by `setImmediate`; a wrapped file system that throws or answers twice |
| `OverlayFS` (`backend/OverlayFS.ts`) | two file systems, the set of deleted paths, its log | every call; initialize | deletions are answered before their log is written; copy-up; rename over two layers |
| `AsyncMirror` (`backend/AsyncMirror.ts`) | two file systems and the queue of operations between | every synchronous call | the queue fails half way; the mirror lags |
| `PreloadFile`, `BaseFileSystem` (`generic/preload_file.ts`, `core/file_system.ts`) | a file's buffer, position, dirtiness; none | read, write, truncate, sync; open by flag | open is several calls with gaps between them |
| `FS` (`core/FS.ts`) | the table of file descriptors | the API of Node | a descriptor is freed after its close has answered |
| `WorkerFS` (`backend/WorkerFS.ts`) | callbacks and descriptors on either side of a message channel | every call | ids that travel; whole buffers that overwrite each other |
| `MountableFileSystem`, `FolderAdapter` (`backend/MountableFileSystem.ts`, `backend/FolderAdapter.ts`) | mount points; a prefix | mount, umount; path translation | prefix matching; operations across two mounts |
| `HTTPRequest`, `FileIndex`; `DsFs` | the index and what was downloaded; none | open, stat, readdir | not modelled, see below |
| adapters (`Dropbox`, `HTML5FS`, `NodeFs`, `Emscripten`), archives (`IsoFS`, `ZipFS`), downloads, utilities, configuration | none that changes | forwarding, parsing | not modelled, see below |

`FS` calls the root backend, often a `MountableFileSystem`, which calls the mounted
ones.  `OverlayFS` is `UnlockedOverlayFS` inside `LockedFS`, over two other backends;
`AsyncMirror` is usually `InMemory` in front of `IndexedDB`; the two key-value file
systems share the layout of the store and differ in how they reach it.

What makes each of them correct: the key-value file systems keep a tree (no dangling
entry, no shared node, nothing leaked) through every sequence of calls, crash and
failed put, and a client sees only the operations it asked for; the cache never says
what the store does not; the lock lets one call in and forgets none; the overlay shows
the readable layer as changed by the writable one, deletions included, after a restart
too; the mirror's second store is the first one at some earlier moment; a file's
descriptor and buffer reach the store once and whole.

## Modules

| Module | Models | Extends / uses |
|---|---|---|
| `KeyValueStore` | the layout of the store and what each operation does to it, as operators | |
| `Trees` | trees of directories and files, and what the operations of `FileSystem` do to one, as operators | |
| `FileTree` | the abstract specification: what the operations promise | `Trees` |
| `KeyValueFS` | `SyncKeyValueFileSystem` over `InMemory`: one step per operation | `KeyValueStore`; implements `FileTree` |
| `SyncTransaction` | `SimpleSyncRWTransaction`, one step per call | |
| `LocalStorageFS` | the same operations over `localStorage`: one step per put, crashes, quota | `KeyValueStore` |
| `AsyncKeyValueFS` | `AsyncKeyValueFileSystem`, its cache, IndexedDB's transactions | `KeyValueStore` |
| `AsyncKeyValueHistory` | the same with two history variables: whether calls have overlapped, and whether a stale handle was synced over a directory with entries | `AsyncKeyValueFS` |
| `RecencyCache`, `LRUCache` | the cache as it should be; the pointers that implement it | `LRUCache` implements `RecencyCache` |
| `LockedFS` | `LockedFS`, `Mutex`, `setImmediate`'s queue | |
| `AsyncMirror` | `AsyncMirror`, its queue, its open files, between two stores | `Trees` |
| `DeletionLog` | the log of `OverlayFS`: deletions, the writes of its file, their failures, a restart | `Trees` |
| `OverlayFS` | `UnlockedOverlayFS` by its synchronous methods, step by step | `DeletionLog` |
| `PreloadFile` | a file in memory, and the flags it is opened with, as operators | |
| `DescriptorFS` | the calls of `FS` about files, and `BaseFileSystem`'s opens, reads and writes below them | `PreloadFile` |
| `FolderAdapter` | file systems that are trees, or folders of one | `Trees` |
| `MountableFS` | `MountableFileSystem` as the root of `FS`: mounts, lookups, renames between file systems | `FolderAdapter` |
| `WorkerFS` | both ends of `WorkerFS` and the messages between | `PreloadFile` |
| `MC...` | constants and symmetry for TLC | |
| `KeyValueStore_proofs` | lemmas about the operators of `KeyValueStore`, and about sequences | `KeyValueStore` |
| `..._proofs` | theorems | the module they are about |

**KeyValueStore.**  A store is a function from `Ids` (the GUIDs, and `Root`) to an inode,
a listing, a file's bytes, or `Undefined`.  `NodeIds` is `_findINode`; `CreatedIn`,
`RemovedFrom`, `RenamedIn`, `SyncedAt`, `RootMade` are `commitNewFile`, `removeEntry`,
`rename`, `_sync` and `makeRootDirectory` once their lookups are done, and the `Can...`
operators are the conditions under which they do not throw.  A throw leaves the store as
it was (`SyncTransaction` shows it for memory, `LocalStorageFS` for localStorage), so that
a failed operation is no step.  The synchronous file system finds the parent's inode in
the store, the asynchronous one through its cache; both then do the same.

**KeyValueFS.**  JavaScript runs a synchronous call to its end: one step each.
`handles` are the paths of the files open for writing; a `SyncKeyValueFile` remembers
nothing else of its file.  `Sync` writes to whatever the path names by then and, as
`Inode.update` takes the mode of the file's own stats, makes a file of it, a directory
too.  `clobbered` records that this has happened to a directory with entries: what was in
it is then out of reach, and `NoOrphans` and `AllReachable` no longer speak of it.
`FileTree` says so as well: its `Write` takes whatever has the path.

**LocalStorageFS.**  `Start` takes an operation and the keys it will put and delete, in the
order of the code; `WriteKey` does the next one.  `del` deletes nothing
(`this.partition +  + ":" + key` is `partition + NaN + key`), so deletes are skips.
`Abort` is one step: the code restores key by key, but a crash inside a rollback leaves a
state that a crash just before or after it leaves too, since no rollback changes more than
one key a reader can see.  `Crash` ends the operation and keeps the store.  `Sync` may write
to any path but the root's, for a handle outlives its file; the file that made the handle is not
remembered, as any of these paths may have been a file's before.  `torn` records the inodes
whose sync crashed between the put of the bytes (`generic/key_value_filesystem.ts:506`) and that of the
inode (`:509`): their data may not be what they say until the path is synced again.

**AsyncKeyValueFS.**  A call is made (`Lookup`, `Create`, `Unlink`, `Rmdir`, `Rename`,
`Sync`, `Clear`): it walks down in the cache and opens a transaction.  `Sync`, again, takes
whatever the path names: an open file that was unlinked and whose path is a directory's
by now makes a file of it.  If the directory had entries (`clobbered`), their keys stay, and
so does what the cache says of the paths below.  IndexedDB runs
readwrite transactions alone and in the order of their creation, so each is one step
(`Commit...` or `Fail`), and reads (`Look`, `CheckEmpty`) share.  Its callback comes later,
by `setTimeout` (`Return`).  `Remembered` is what the lookups of a transaction put into
the cache.

**LockedFS.**  `Lock` is any asynchronous method: `Mutex.lock` and, if it was free, the
entry into the wrapped file system; `Answer` is the callback with its `unlock`;
`RunImmediate` lets the next waiter in.  The wrapped file system is external.  It may throw
(`OverlayFS.exists` does, `backend/OverlayFS.ts:704`), which leaves its call in `dead`, and
answer again (`OverlayFS.stat` of a deleted file does, `:357`), which `twice` remembers.

**LRUCache.**  The map, `head`, `tail`, `prev` and `next` of each node, `size`; one step per
method.  Nothing is modelled after a throw.

**AsyncMirror.**  The two stores are external and are trees: `syncTree`, `asyncTree`.  A
file's bytes are abstracted to their number, which is what a write over a file that was not
truncated changes.  Each call changes the synchronous store and queues an operation
(`EnqueueOp`); `running` is the operation the asynchronous store is at.  A queued
`writeFile` is two steps there, `OpenRemote` (which may create or truncate) and
`WriteRemote`.  `WriteFile` is a call for a whole file, open to close, in one step:
`writeFileSync`, `appendFileSync`, and `truncateSync`, which opens with "r+".  `Open`,
`Change`, `Fsync` and `Close` are a `MirrorFile` that is kept open: the file is created or
truncated in the synchronous store only, and synced with "w" there but with its own flag in
the queue.  `Fail` is the error after which `doNextOp` throws and is never called again;
`Reload` is the tab closing and `_initialize` copying the asynchronous store into a new
synchronous one.  Each entry of the queue carries, as history, the asynchronous store before
and after it; `whole` remembers that the client used whole-file calls only and cut no file
short.

**DeletionLog.**  `deleteLog` is `_deleteLog` as a sequence of paths, `logFile` the file it is
written to and `writing` what the `writeFile` under way will leave there.  `UpdateLog` is
`updateLog`; its callback is `WriteLogFile`, which begins another write if one is needed, or
`FailLogFile`; `EmptyLogFile` is the truncation that `writeFile` begins with.
`ReadLogFile` is `_initialize` after the tab went away.  A restart finds only the file;
`_deletedFiles` is always the set of paths in the log.

**OverlayFS.**  Both layers are external and are trees of `Trees`; `View` is what they show
together.  A method is a list of steps in `todo`, of which each changes the writable layer at
most once, and `Run` takes the first.  `MkdirSync` or `RenameDirSync` put the steps of the
method in its place, with the arguments the code computes at that point; what the code looks
at later (`existsSync` after an unlink, the readable children in a rename) is looked at by a
later step (`DeleteIfExists`, `RenameChildren`).  A step of the writable layer throws when that
layer cannot do it (`CanDo`), which ends the call, as the code has no handlers.  `Fail` is an
error of the writable layer at any of its operations, `CheckInitialized` a pending error of
the log that ends the call it meets, in the middle of a rename too.  A synchronous method
needs a writable layer with synchronous methods, whose `writeFile` answers before it returns:
so `Run` waits for the write of the log, which may still fail or meet the closing of the tab.
Deletions that overlap a write are left to `DeletionLog` and its theorem.

`call` remembers what the view was and what it should become (`Promised`, the operations of
`FileTree`).  `careful` ends with the first call that the code gets wrong whatever happens
around it (`Careful`): unlinking a directory that only the readable layer has (it is not refused), writing over
one (a file appears over its children), creating below a file of the readable layer (a
directory takes the place of the file), renaming a directory that both layers hold part of
(see `RenameMovesFiles`), and with a restart that lost deletions.

**PreloadFile.**  A file is a record: `buffer` and `size` (the stats' size, which need not be
the buffer's length), `pos`, `dirty`, the flag.  `WriteSync`, `TruncateSync` and `ReadSync`
are what the methods leave of it.  The code changes a buffer in place when it is large enough
and takes a new one when not, so that a sync that was given the old one goes on with the
old bytes: `WriteKeepsBuffer` and `TruncateKeepsBuffer` tell which.  `unsaved` is history.

**DescriptorFS.**  A call of a caller is the record `calls[c]`, which says where it waits: for
`stat`, `createFile`, `openFile`, in possession of its File, for the `put` of a sync, or for
its callback (`synced`).  The handlers of `BaseFileSystem.open` and of `FS` are the actions
that lead from one to the next.  `files` has a File for each descriptor, and one for each call
that opens and closes a file by itself (`readFile`, `writeFile`, `appendFile`, `truncate`).
`synch` says whether the root file system has synchronous methods; if so no call has a step of
another in between.  The file system's own calls may fail wherever they are made.  `Put` stores
the buffer as it is then, or as it was when a later write has taken a new one (`SetAside`).
`careful` ends with the first change of a file that a sync of it under way will call clean:
after that the code does lose the write (see the departures).

**FolderAdapter, MountableFS.**  A file system is a tree (`trees`), or an adapter, a folder of
one; two paths may so be one file.  `GetFs` is `_getFs`, which takes the first mount point
of `mountList` that begins the path as a string: names that begin like others are related by
`Suffix`, and such a path asks the file system for a path without a slash (`Asked`), which a
store cannot serve and an adapter joins to its folder.  `Mount` and `Umount` make and remove
directories in `RootFs`, as `mkdirpSync` and the loop of `umount` do.  A rename between two
file systems is `RenameBetween` (readFile), `OpenNew` and `CloseNew` (the truncation and the
sync of writeFile) and `UnlinkMoved`, through the node API each time, with all other calls
between them; `RenameFails` is an error of any.  `mountsKept` ends when a mount point loses its
directory in `RootFs`, `moving.safe` when others touch the two paths or what is mounted.

**WorkerFS.**  `Open`, `Rpc` and `SyncClose` are the worker's calls: they put a callback into
`callbacks` under a fresh id and a request into `toHost`.  `Handle` is the host's listener:
it writes the whole buffer that came with a `sync` or `close` into its File (`Applied`) and asks the
file system, which is `jobs`: it finishes them in any order, and each may fail.  Responses
travel back in `toWorker`; `Receive` is the worker's listener, which calls the callback and
forgets it.  `lost` are the callbacks of requests at which the host's listener throws, since it has no
such descriptor any more.  Messages are neither lost nor reordered, as between workers.  Files
that are opened to append are in the model and outside `SyncedIsStored` (see the departures).

## Runs

Bounds are named in the modules' CONSTANTS.  Each run finishes within minutes.

| Run | Instance | Shows |
|---|---|---|
| `KeyValueFS` | names a, b, paths of depth 3; 4 GUIDs for data, 3 for inodes; contents empty and c1; 1 handle | `StoreWellFormed`, `NoOrphans`, `AllReachable` after every operation, `ImplementsFileTree`: every operation is one of the tree |
| `SyncTransaction` | 2 keys, 2 values, any number of transactions | the undo log always holds enough (`UndoLogSufficient`), and an abort restores the store (`AbortRestores`) |
| `LocalStorageFS_crash` | depth 2, 4 + 3 GUIDs, 1 reroll | between any two puts entries lead where they should and each inode agrees with its data, but the one that `_syncSync` is half way through or crashed in (`SoundAtEveryPut`); other paths are not touched by an operation under way (`OthersUntouched`), a rollback shows nothing (`RollbackKeepsTree`) |
| `LockedFS` | 3 calls under way | one call inside (`OneAtATime`), none when a synchronous call passes (`SyncCallsAlone`), first come first served (`NoOvertaking`), all answered (`EveryCallAnswered`), no waiter without an owner (`NoForgottenWaiter`) |
| `AsyncKeyValueFS_overlap` | 2 clients, depth 2, empty files | with overlapping calls and a stale cache the store stays a file system (`StoreWellFormed`); as long as clients wait for one another and no stale handle is synced over a directory with entries, the cache is never wrong (`CoherentAlone`) and nothing leaks (`NoOrphansAlone`) |
| `AsyncKeyValueFS_liveness` | 2 clients, depth 1 | the cache a rename disables comes back (`CacheComesBack`), every call is answered (`EveryCallReturns`) |
| `LRUCache` | 4 keys, 2 values, limit 3 | map and list agree (`ListMatchesMap`) and implement a cache that forgets the least recently used (`ImplementsRecency`) |
| `AsyncMirror` | 2 names, depth 1, lengths 0 and 1; 1 operation waiting behind the one under way; 1 file kept open, at one of the paths | the asynchronous store has done the operations in order and up to one of them, whatever fails (`InOrder`), the stores agree when nothing is pending (`SyncedAtRest`) and no operation comes too early (`NothingRefused`), both for a client of whole files; the queue is served to its end or to an error (`QueueDrains`) |
| `OverlayFS` | paths a, b, a/x, b/x; two readable trees; contents 0 and 1 | the log's file is a beginning of the log and complete when no write is under way (`LogOnDisk`), calls do all or nothing (`AllOrNothing`), what is shown is a tree at each moment and after each crash or failure (`StaysTree`) and differs only at the paths of the call (`OthersUntouched`), calls end (`EveryCallReturns`) |
| `DescriptorFS` | 2 callers, 1 descriptor, flags rs+, wx and a+ besides those of the whole-file calls, 1 byte at a time, sizes to 2 | what is clean is stored (`CleanMeansStored`), sizes and buffers agree (`SizesAgree`), who found a file opens it (`FoundIsThere`), no descriptor is given back with something unsaved (`CloseLosesNothing`) |
| `MountableFS` | names a, b, ab, four paths; mount points `/`, `/a`, `/a/b`; a root, a store and an adapter of it; 3 nodes | the nearest mount point serves and list and map agree (`NearestServes`), what is there is listed (`ThereIsListed`), a rename between file systems keeps the file whole under one of its names at every step and after every failure (`RenameLosesNothing`) |
| `WorkerFS` | 2 files and 2 calls at a time, flag r+, 1 byte | each callback is known to one message or job and none is lost but to a dead descriptor (`OneAnswerEach`), both sides have the same files open (`OpenOnBothSides`), what was synced is stored (`SyncedIsStored`) |

Why the bounds are enough.  Depth 3 with two names has a rename of a directory with
entries under, beside and above others, over a file, and into itself; three inodes besides
the root fill it in every shape of three nodes.  There is one more data GUID than inodes
need, so that a file can be truncated (unlinked and created again) while all inodes exist.
One handle is enough: a handle is a path, and does not know of others.  A crash or a
failed put concerns one operation, so that localStorage needs paths of depth 2 only: rename
from one directory to another, and a victim.  Two overlapping clients make every pair of
calls and transactions; three calls at the mutex are one inside, one about to enter, and one
that comes in between.  A limit of 3 has a head, a middle and a tail.  A mirror with one operation under way and one
behind it has every order of two operations on one or two paths, creation before use and
removal before creation among them; the proofs say the same of any queue and any tree.
The two readable trees of `OverlayFS` have a file and a directory below a directory, and a file
and an empty directory beside it; deletion, re-creation and rename of each, in every order, are
there, so that a path can be in any of the six combinations of present, deleted and absent in
the two layers.  Only contents that differ from the readable file's are written, and a rename
must fit in the four paths.
Two callers and one descriptor of `DescriptorFS` have every pair of calls that meet in one file, two closes
and a close with a write among them, and every File that a call has to itself beside it; a size
of 2 has a write inside, across and past the end.  `MountableFS` has a mount point inside
another, one at the root, a name that begins with a mount point's, and a folder that is mounted
beside its own store.  Two files of `WorkerFS` have the same node, so that two calls are two syncs
of one file, of two, or a close and an open.

Symmetry is used for names, GUIDs, clients and callers in safety runs: the code does not order them.
(The GUIDs are split into two pools, for data and inodes, because each pool then has fewer
symmetric copies; no operation depends on which is which.)  `CHECK_DEADLOCK FALSE` in
`LockedFS`: after a throw all calls may wait for ever, in the code too; and in `MountableFS`,
which ends where `mountsKept` does.  In `WorkerFS` a deadlock would be a call that is never
answered while the others wait for it.

All runs pass.  What comments of the code say and the code does not do has a property in the
modules and no run; TLC finds it violated at once when the property is added to the run named:

| Property | Run and change | Behaviour |
|---|---|---|
| `DirectoriesKept` | `KeyValueFS` | open('/a', 'w'), unlink('/a'), mkdir('/a'), mkdir('/a/b') and the close of the file, which makes a file of the directory (the sync gives the inode the file's mode) |
| `NoNamelessEntry` | `KeyValueFS` with `RenameTo <- AllPaths` | rename('/a', '/') stores an entry without a name |
| `NodesHaveOwnKeys` | `KeyValueFS` with `GuidsUnique = FALSE` | a GUID in use is taken for a free one (`:618` ignores the answer of put) |
| `RetriesBounded` | `LocalStorageFS_crash` with `MaxRerolls = 6` | a full localStorage is tried for ever (`:613`, `retries` never counts) |
| `RemoveLeavesNoTrace` | `LocalStorageFS_crash` | unlink leaves the data and the inode in localStorage for good, against "Remove all traces" (`:675`) |
| `KeptInSync` | `AsyncMirror` | "The two stores will be kept in sync" (`backend/AsyncMirror.ts:56`): a file opened with "w" and not written exists in one store only; a file cut short keeps its length in the other |
| `AbortRollsBack` | `LocalStorageFS_crash` | a failed create leaves its keys |
| `RenameWithoutCache` | `AsyncKeyValueFS_overlap` | the first of two renames to end enables the cache for the other |
| `RemovedIsForgotten` | `AsyncKeyValueFS_overlap` | a lookup caches the path that an unlink is removing |
| `OnlyEmptyRemoved` | `AsyncKeyValueFS_overlap` | rmdir finds the directory empty in one transaction and removes it in another: a file created between is lost |
| `MountPointsInRoot` | `MountableFS` | "Mount points are all defined in the root FS" (`backend/MountableFileSystem.ts:261`): a rename in the root file system moves what is above a mount point (`:209`), and umount of one mount point removes the directory of another that is above it (`:133`) |
| `RacesPrevented` | `LockedFS` | "We wrap these objects in a LockedFS to prevent races" (`backend/OverlayFS.ts:67`): `stat` answers a deleted path twice (`:357`) and the second answer unlocks the mutex of the call after it |
| `RenameMovesFiles` | `OverlayFS` | "Take care of writable first. Move any files there" (`backend/OverlayFS.ts:321`): a changed file that moved with its directory is overwritten by the readable layer's old one |
| `ListingsShow` | `OverlayFS` | "check delete log on RO file system's listing" (`backend/OverlayFS.ts:679`): in the root it looks up "//name" (`:688`), so that deleted names are still listed |
| `DeletesPersist` | `OverlayFS` | "Deletes are persisted" (`backend/OverlayFS.ts:991`): the log is emptied before it is written, and a crash in between forgets every deletion |
| `NeverThrows` | `LRUCache` with `Limit = 1` | evicting the only entry reads a property of null |

Other behaviour that the models have, or that was met while writing them, and that no property
is about (their `careful`, `mountsKept`, `moving.safe` and the like end where one of these begins):

- `SyncKeyValueFileSystem` over localStorage.  After open('/a', 'w'), write, unlink('/a') and mkdir('/a'),
  a crash in the close of the file between `:506` and `:509` leaves a directory whose listing is
  the file's bytes: readdir, rmdir and every call below it throw (`getDirListing` parses
  the bytes, `:604`; bytes that happen to be the JSON of a listing are left out) until a file
  open at its path is synced (a new one needs the directory moved away and back).  What was in it is out of reach.
- `AsyncKeyValueFileSystem`.  After open('/a', 'w'), write, unlink('/a'), mkdir('/a'),
  mkdir('/a/b') and close, each waiting for the one before, '/a' is a file and the inode and the
  listing of '/a/b' are in the store for good.  If '/a/b' was looked up before the close, the cache
  goes on answering for it, and stat finds a directory below a file.
- `FS`, `BaseFileSystem`, `PreloadFile`.  A write between the `put` of a sync and its callback is
  called clean by the callback (`generic/key_value_filesystem.ts:790`) and lost at close.  Two
  calls of open(p, 'w') for a new file both find it absent, and one is answered EEXIST
  (`core/file_system.ts:420`); any error of `stat` is taken for absence.  `writeFile` with the flag
  'a' writes at the beginning (`:712`).  A write that is refused with EPERM leaves the file
  dirty.  ftruncate of a file opened with 's' is answered twice (`generic/preload_file.ts:184`).
  Reads and writes at a given position move the position.  After an unlink, a dirty
  file of an asynchronous file system can never be closed: its sync fails each time.  A sync
  goes by path, to another file that has the path by then.  `realpath(path, cache, cb)` does not
  call back when there is a cache (`core/FS.ts:1391`).
- `MountableFileSystem`.  A mount point serves every path it begins as a string (`:151`): under
  `/m`, `/mx` is asked for as `x`, of which a store makes an endless recursion and an adapter
  a file of its folder; an rmdir of `/m` is refused while `/mx` is mounted.  readdir lists entries of
  the root file system that a mount point hides.  A rename from a mounted file system to an
  adapter of itself, of a file to where it is already, removes it.  A rename of a directory between file
  systems fails with the error of reading a directory.
- `WorkerFS`.  The host writes the whole buffer of a file opened to append at the end of it, at
  each sync; and what was in it before the open travels as its size only, so that the worker has zeros there.  A file
  that is not dirty is closed in the worker and not on the host, whose table grows.  After a close that failed
  the host has no descriptor, and the next call about it throws in the listener: its callback
  is never called (`lost`).  A method of the host's file system that throws is not answered either.
- `OverlayFS`, asynchronous methods.  `stat` of a deleted path answers twice (`:357`).  A
  rename of a directory moves the writable half only (`:233`).  `exists` throws when the log has an
  error (`:704`), with the lock taken, and nobody releases it.
- `LocalStorage.clear` wipes all partitions (`backend/LocalStorage.ts:40`).  `DsFs` calls back
  a second time when the callback throws (`backend/DsFs.ts:312`).

## Fairness

`LockedFS`: immediates run (the event loop), and the wrapped file system answers each call
it took and did not throw at; `EveryCallAnswered` excepts what follows a throw or a second
answer.  `AsyncKeyValueFS`: timers fire, and IndexedDB runs every transaction it was given;
weak fairness suffices since a transaction, once first, stays first.  `AsyncMirror`: the asynchronous store
answers every call, well or badly; `QueueDrains` excepts a client that never stops.  `OverlayFS`: a synchronous method
runs to its end, or fails, and a write of the log is answered.  No
fairness is assumed of callers.  The other specifications are about safety only.  For
`DescriptorFS`, `MountableFS` and `WorkerFS` that every call is answered is not true of the code without the
exceptions listed above, and with them says no more than that the file system below answers;
what the safety properties say instead is that no answer is lost on the way (`OneAnswerEach`).

## Proofs

Each theorem says that a specification always has a property, for every value of the constants
that the modules' assumptions allow; hypotheses beyond those are named.  An invariant was
checked by TLC before it was proved (of `PromiseInv`, which quantifies over outlines, the part `AllOrNothing`).  `DepthSuffices` apart, no hypothesis bounds the size of anything.

**KeyValueFS_proofs.**

- `WellFormedAlways`, `NoOrphansAlways`, assuming `GuidsUnique` (the code does not check for collisions,
  see above).  The inductive invariant is `TypeOK /\ WellFormed(store) /\ (clobbered \/
  OrphanFree(store))`.  `WellFormed` is its own strengthening: that no two inodes share data,
  and no two entries an inode, is what keeps a removal from taking something else with it.
  The argument is one lemma per operation on the store (`CreatedSound`, `RemovedSound`,
  `RenamedSound`, `SyncedSound`), each showing that its few changed keys keep every conjunct,
  and `LookupInjective`: two paths that name a node are the same path.
- `AllReachableAlways` and `StoreImplementsTree`, the refinement of `FileTree`: each operation is, seen
  through the paths of the store, the operation of the tree or no step.  Assumed besides
  `GuidsUnique`: that nobody renames to '/' (see `NoNamelessEntry`), and `DepthSuffices`, that paths may be as
  long as there are nodes, for else a rename may move a node to where no path reaches.  `TreeInv` adds to the invariant
  above that inodes come from `NodeGuids`, that no entry is without a name, and
  `AllReachable`.  The induction over the length of a path
  that reachability calls for is over a set of numbers (`SetInduction`), which is first-order.
- Of the transaction below it (`SyncTransaction`), `UndoLogAlwaysSufficient` and
  `AbortAlwaysRestores`.  The invariant, `TxInv`: each key of the store that differs from the
  store at the beginning is marked modified and its first value is in the log.

**LocalStorageFS_proofs.**  `SoundAtEveryPutAlways`, `OthersUntouchedAlways` and
`RollbackAlwaysKeepsTree`, with the modules' own assumptions only: fresh GUIDs are looked for there, not assumed.
A crash may come between any two puts, so what must be invariant is the whole plan of
the operation under way.  `Planned(name, paths, b, t, keys)`: when the first `i` of `keys` are written,
for every `i`, the store's entries lead where they should (`Intact`), its inodes agree with their data as far as
those of `b` did, but for the one a sync is half way through, it differs from `b` at the paths of the operation only, and
an abort there shows the tree of `b`.  `Intact` is weaker than `WellFormed` in one point, that a directory may
have lost its listing; the lemmas about the operators of `KeyValueStore` that the sync of a stale handle needs
are shown of such stores (`Linked`).  One lemma for each operation (create, remove, truncate, rename, sync)
shows that its keys, in the order of the code, are `Planned`; the invariant `Inv` is then that the store at
rest is sound, or is the `i`-th of a plan that was made from one.

**AsyncKeyValueFS_proofs.**

- `StoreWellFormedAlways`, for any clients whose calls overlap, and `CoherentAloneAlways`,
  `NoOrphansAloneAlways`, for as long as they do not (the history variable `alone`) and no handle is
  synced over a directory with entries (`clobbered`).  Assumed, as
  `GuidsUnique` is above: a GUID drawn is not in use (`Fresh`), and those drawn for data and
  for inodes are not the same (`ClientAssumption`).  The inductive invariant of the first,
  `Inv`, is that the store is `WellFormed` or blank, and that neither the cache nor the place a
  walk starts from gives the root's id for a path other than the root: a cached id may be
  stale, name a file where there was a directory, or nothing, but each operation looks at
  what is under it before it writes, and the lemmas about the operators of `KeyValueStore` ask for
  no more than that.  The invariant of the other two, `InTurn`, is that one transaction or
  one callback at most is under way and that what it was begun with is right still
  (`RightTx`): its starting place is where the store has it, the path to be removed is not in
  the cache, a directory to be removed is empty since the transaction that looked, and the
  cache is off while there is a rename.  A sync may be of any path: over a file or an empty directory
  no entry of the store changes, and the other case is what `clobbered` excepts.
- Of its cache (`LRUCache`), `ListMatchesMapAlways` and `LRUImplementsRecency`, the refinement of
  `RecencyCache`.  The invariant is that there is a sequence of distinct keys that the pointers spell
  from either end and that the map has (`Chain`), no longer than the limit.  A lemma for each piece of pointer surgery
  (unlinking a node at the head, in the middle or at the tail; a new head) says which sequence
  they spell then, and the refinement mapping, which follows the pointers, is shown to
  read that sequence.

**OverlayFS_proofs.**

- Of `DeletionLog`, `LogSpecOnDisk`, with deletions during a write, and of `OverlayFS` with
  all its methods `LogOnDiskAlways`.  `LogOnDisk` is inductive as it stands, given that the
  three logs are sequences: the log only grows, by one path at its end, until a restart makes
  it what is on disk, and a write that began before the last deletion has `updateNeeded` set.
- Of `OverlayFS`, `OverlayTypes`, `StaysTreeAlways` and `OthersUntouchedAlways`, for any finite
  readable tree (`ReadablesAssumption`), paths and contents.  The steps that a method has yet to make are
  a program in `todo`, and a crash may come before any of them, so that the invariant, `Going`, is about the
  whole program.  `Layered`: both layers are trees, what is readable below a deleted directory is
  deleted (`DeletedWhole`), and so is a readable directory with a writable file in its place
  (`FilesCover`); this alone makes a tree of what is shown (`LayersShowTree`).  `Program`: each step
  that is left is about the paths of the call, or makes a directory above them that is
  missing or shown already (`Within`), and the steps before it will have made what it needs (`Placed`): a
  file is created where no readable directory shows; a directory is unlinked when each of
  its readable children is deleted or is to be deleted by a step before (`Removes`).
  `ProgramGoesOn` is the core: when a step is replaced by others that are a program, and that
  hand over what it was to remove, all that is left is a program.  One lemma for each
  method shows that of the steps it puts in its place (`GotoOk`), and one for each operation of the writable
  layer that it keeps the layers and what is not the call's (`Moves`).  Since `todo` is data, no
  induction over it is needed: all is said of the places in it.
- `AllOrNothingAlways`, under the same conditions: what a call that returns did is what it
  promises, and one that throws changed nothing that is shown.  `Going` says what steps may
  touch; this asks what they come to.  So each step has a contract, of the two layers before and
  after it (`f`, `g` in `Layers`): what it `Needs`, when it is `Sure` not to throw, and its `Post`.  A
  list of steps `Leads` from some layers to others when there is an outline, a set of layers for
  each place between two steps, such that a step's needs are met in the set before it, its
  contract leads into the set behind it, and it is sure there, unless nothing shown has changed yet; steps
  `Fulfil` another when they lead to its `Post`, and may throw only where it may.  One lemma for each method (`RenameDirFulfils`
  and its like) shows that the steps it puts in its place fulfil it.  The invariant, `PromiseInv`, is `Going` and
  that the steps left lead from the layers as they are to what the call promised
  (`KeptOf`); it is kept since a step may be replaced by steps that fulfil it
  (`StepReplaced`) and is right to take when its needs are met (`StepTaken`).  The
  difficult case is the rename of a directory.  Its writable half moves at once and its readable half entry by
  entry, each again by the whole of `renameSync`, so that in between half of the subtree is in
  the new place: `Moved` says of which entries, by a set `M` of paths of the readable
  layer that are `Copied` to their `Twins` below the new path and deleted, and `ChildMoved`
  that the rename of the next entry adds what is at it and below it to `M`.  No induction over the depth of a
  directory is needed: the outline takes the contract of `renameSync` for its own calls, and each call is
  replaced by steps that fulfil it when its turn comes.  `DirsCover`, that no writable directory is in the place
  of a readable file that is not deleted, is needed besides `Layered`.
- Of `MountableFS`, `NearestServesAlways`, `ThereIsListedAlways` and `RenameNeverLoses`.  `MountInv` is
  that list and map have the same mount points, the list each once and no longer one after a shorter
  (`MountTable`); that every store is a tree and, while `mountsKept`, every mount point is a
  directory of the root (`TreesKept`); and that in a rename between file systems the old
  path has the file until the new one is complete, as long as nobody else changes them
  (`MovingKept`).  A lemma for each operation of `Trees` shows that it leaves a tree (`IsTree`).
  Assumed of the constants: a string that begins another one is shorter (`SizeAssumption`), the root file system
  is nobody else's (`MountAssumption`; the constructor makes it), and a path's parents are
  paths (`TreesAssumption`).

**AsyncMirror_proofs.**  The two wrappers that keep a queue of their own.

- Of `AsyncMirror`, `InOrderAlways`, `SyncedAtRestAlways`, `NothingRefusedAlways`.  The
  inductive invariant is `TypeOK /\ Chain /\ InOrder /\ Whole`: `Chain` says that each
  operation in the queue begins with the store the one before it ends with, up to `expected`;
  `Whole` that, for a client of whole files, `expected` is the synchronous store and every
  pending operation can be done where it begins.
- Of `LockedFS`, `MutualExclusion` (`OneAtATime`) and `SyncCallsAreAlone`, with the invariant `twice \/
  Held`: the call inside, the call that died inside, and the immediate are at most one
  altogether, and the mutex is locked if there is one.  `InOrderOfArrival` needs `Queued`
  besides: those that arrived and are not yet in are the immediate's and then the waiters, each once.
  `NoWaiterForgotten` is inductive as it stands.

**DescriptorFS_proofs.**  `TypeAlways`, `CleanMeansStoredAlways`, `SizesAgreeAlways`,
`FoundIsThereAlways`, `CloseLosesNothingAlways`, for any callers, descriptors, flags, bytes and
sizes.  The inductive invariant is `TypeOK /\ CallInv /\ CleanMeansStored /\ SizesAgree /\
SyncInv /\ SteadyInv`.  `CallInv` says what a call has at each place where it can wait (a
File, a descriptor, a flag that lets it go on).  `SyncInv` is what `CleanMeansStored` lacks:
between the `put` of a sync and its callback the File has nothing that is not stored, and a
buffer that was set aside for a `put` is still the File's, unless a write came between,
which ends `careful`.  `Leaves` is what every method of a File keeps, and is what one lemma
per step of a call is shown with.

**WorkerFS_proofs.**

- `OneAnswerEachAlways`, `OpenOnBothSidesAlways`, for any files, bytes and bounds, and any flags but the
  synchronous ones (`WorkerAssumption`).  The
  inductive invariant is `IdsInv /\ KnownInv /\ OpenOnBothSides`.  `IdsInv` says that an id of
  `_callbacks` is in one request, one job, one answer, or lost, and in one of them only;
  `KnownInv` that the callback under it is the one that asked, that a close was told to the
  worker's side first, and that every descriptor in a message is one the host gave, open or
  closed: a number is never given twice, and that is what keeps a late answer from another's
  File.
- `SyncedIsStoredAlways`, with `DataInv` besides: what a request carries is what the worker's File had when it was sent
  (`SentInv`), what an answer reports has been stored since (`RepliesInv`), and a descriptor
  that no later write has overtaken and that is not dirty is what is stored (`StoredInv`).

Only model-checked:

- Liveness (`EveryCallAnswered`, `EveryCallReturns`, `CacheComesBack`, `QueueDrains`), which the provers cannot
  state.  Every invariant and every action property that a run checks is proved.

## What is left out

In the modules there are: times, permissions and the byte layout of an inode; `link` and
`symlink`; the aliasing of buffers between `InMemory` and its callers; names that collide
with properties of `Object.prototype` (listings are JSON objects, so that a file called
"constructor" is found although it is not there, `:392`); `LocalStorage.clear`,
which wipes every partition; eviction from the cache of `AsyncKeyValueFS` (`LRUCache` has
it); in `AsyncMirror` that the queue holds
the buffer of an open file and not a copy (a later write shows in an earlier operation), and
`chmod`, `chown` and `utimes`, which go through the same queue; in `OverlayFS` the asynchronous
methods, `restoreDeletionLog`, files kept open (a call opens and closes), modes and times.

In `FS` there are: directories and links, permissions and times, and the `...Sync` methods as
entries of their own (with a synchronous root they are the asynchronous ones without a step
between); encodings; that an open whose create throws after it has removed the file leaves it removed
(`OpenFails` leaves the store as it was).  In `MountableFS` the steps inside a call of one file system; `umount`'s half
done work when it throws.  In `WorkerFS` the messages of the other methods, which are like
`unlink`, and a worker that is host and client on one channel.

Not modelled at all:

- `HTTPRequest` with `FileIndex`: read-only; the index is built once from a listing, and the one
  thing that changes is that a file's bytes are kept after the first download.
- `DsFs`, `Dropbox`, `HTML5FS`, `NodeFs`, `Emscripten`: they forward each call to a service, and
  what happens is the service's, which is not in the repository.
- `IsoFS`, `ZipFS`: parsers of a buffer, after which nothing changes.
- Downloads (`generic/xhr.ts`, `generic/fetch.ts`), utilities, and configuration: no state of
  their own.

## What remains

In order of importance: the asynchronous methods of `OverlayFS` as a module of their own, over
`DeletionLog` and under `LockedFS`, where the departures above are; and the composition of
`DescriptorFS` with `AsyncKeyValueFS` (here the file system below a File is one node that answers
or fails).
