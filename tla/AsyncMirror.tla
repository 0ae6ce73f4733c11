----------------------------- MODULE AsyncMirror -----------------------------
(***************************************************************************)
(* AsyncMirror (src/src/backend/AsyncMirror.ts): every synchronous call is *)
(* done to a synchronous store and queued for an asynchronous one, which   *)
(* does the queued operations one at a time.  Both stores are external,    *)
(* and trees here; the asynchronous one may fail at any operation.  The    *)
(* bytes of a file are abstracted to how many there are: writing n bytes   *)
(* over a file that is not truncated leaves the longer of the two.         *)
(***************************************************************************)
EXTENDS Trees, FiniteSets

CONSTANTS
  MaxPending,  \* bound: operations waiting in the queue
  MaxFiles,    \* bound: files open at a time
  KeptOpen     \* bound: the paths of files opened to stay open

ASSUME LengthsAssumption ==
  /\ Contents \subseteq Nat /\ Empty \in Contents /\ \A n \in Contents : Empty <= n
  /\ MaxPending \in Nat /\ MaxFiles \in Nat
  /\ KeptOpen \subseteq Paths

Flags == {"w", "wx", "a", "r+"}

VARIABLES
  syncTree,   \* _sync
  asyncTree,  \* _async
  files,      \* the MirrorFiles that are open
  queue,      \* _queue
  running,    \* the operation the asynchronous store is at, or Idle
  opened,     \* it is a writeFile, and has opened its file
  failed,     \* it failed: doNextOp threw, and _queueRunning stays true
  expected,   \* history: the asynchronous store once the queue is empty
  whole       \* history: no file opened to stay open, nor cut, since the last load

vars == <<syncTree, asyncTree, files, queue, running, opened, failed, expected, whole>>

Idle == [op |-> "none"]
MirrorFiles == [path : Paths, flag : Flags, length : Contents, dirty : BOOLEAN]

----------------------------------------------------------------------------
(* Operations, as they are queued and as either store does them. *)

Op(method, p) == [method |-> method, p |-> p, new |-> p, flag |-> "w", length |-> Empty]
WriteOp(p, flag, n) == [Op("writeFile", p) EXCEPT !.flag = flag, !.length = n]

(* open: pathNotExistsAction, pathExistsAction *)
CanOpen(t, p, flag) ==
  \/ CanCreate(t, p) /\ flag # "r+"
  \/ IsFileAt(t, p) /\ flag # "wx"
Opened(t, p, flag) ==
  IF IsFileAt(t, p) /\ flag # "w" THEN t ELSE With(t, p, File(Empty))

Longer(m, n) == IF m > n THEN m ELSE n
(* fd.write(data, 0, data.length, 0), and the fd closed *)
Written(t, p, n) == With(t, p, File(Longer(n, t[p].bytes)))

CanDo(t, op) ==
  \/ op.method = "mkdir" /\ CanCreate(t, op.p)
  \/ op.method = "rmdir" /\ CanRmdir(t, op.p)
  \/ op.method = "unlink" /\ CanUnlink(t, op.p)
  \/ op.method = "rename" /\ CanRename(t, op.p, op.new)
  \/ op.method = "writeFile" /\ CanOpen(t, op.p, op.flag)
Done(t, op) ==
  CASE op.method = "mkdir" -> With(t, op.p, Dir)
    [] op.method \in {"rmdir", "unlink"} -> With(t, op.p, Absent)
    [] op.method = "rename" -> Renamed(t, op.p, op.new)
    [] op.method = "writeFile" -> Written(Opened(t, op.p, op.flag), op.p, op.length)

Entry(op) ==
  [op |-> op, before |-> expected,
   after |-> IF CanDo(expected, op) THEN Done(expected, op) ELSE expected]

(* Mutants: an operation that does not wait for the one under way, or is
   dropped because there is one. *)
EnqueueOpAtOnce(op) ==
  /\ expected' = Entry(op).after
  /\ running' = Entry(op)
  /\ UNCHANGED <<queue, asyncTree, opened, failed>>
EnqueueOpIfIdle(op) ==
  IF running = Idle
  THEN /\ running' = Entry(op) /\ expected' = Entry(op).after
       /\ UNCHANGED <<queue, asyncTree, opened, failed>>
  ELSE UNCHANGED <<queue, running, asyncTree, opened, failed, expected>>
(* enqueueOp: the first of a queue is handed to the asynchronous store at once *)
EnqueueOp(op) ==
  /\ expected' = Entry(op).after
  /\ IF running = Idle
     THEN running' = Entry(op) /\ UNCHANGED queue
     ELSE /\ Len(queue) < MaxPending
          /\ queue' = Append(queue, Entry(op))
          /\ UNCHANGED running
  /\ UNCHANGED <<asyncTree, opened, failed>>

Init ==
  /\ asyncTree = EmptyTree /\ syncTree = asyncTree /\ expected = asyncTree
  /\ files = {} /\ queue = <<>> /\ running = Idle
  /\ opened = FALSE /\ failed = FALSE /\ whole = TRUE

----------------------------------------------------------------------------
(* The client's calls, each done when it returns. *)

Mirrored(op) ==
  /\ CanDo(syncTree, op)
  /\ syncTree' = Done(syncTree, op)
  /\ EnqueueOp(op)

Elsewhere == UNCHANGED <<files, whole>>
Mkdir(p) == Mirrored(Op("mkdir", p)) /\ Elsewhere
Rmdir(p) == Mirrored(Op("rmdir", p)) /\ Elsewhere
Unlink(p) == Mirrored(Op("unlink", p)) /\ Elsewhere
Rename(old, new) == Mirrored([Op("rename", old) EXCEPT !.new = new]) /\ Elsewhere

(* writeFileSync, appendFileSync, and truncateSync ("r+"): open, write or
   truncate, and close, which syncs *)
WriteFile(p, flag, n) ==
  /\ CanOpen(syncTree, p, flag)
  /\ LET old == Opened(syncTree, p, flag)[p].bytes
     IN /\ flag = "a" => n >= old
        /\ whole' = (whole /\ n >= old)
  /\ syncTree' = With(syncTree, p, File(n))
  /\ EnqueueOp(WriteOp(p, flag, n))
  /\ UNCHANGED files

(* openSync: opened and closed in the synchronous store, and nothing queued *)
Open(p, flag) ==
  /\ CanOpen(syncTree, p, flag)
  /\ LET t == Opened(syncTree, p, flag)
         file == [path |-> p, flag |-> flag, length |-> t[p].bytes, dirty |-> FALSE]
     IN syncTree' = t /\ files' = files \union {file}
  /\ whole' = FALSE
  /\ UNCHANGED <<asyncTree, queue, running, opened, failed, expected>>

(* write or truncate *)
Change(file, n) ==
  /\ files' = (files \ {file}) \union {[file EXCEPT !.length = n, !.dirty = TRUE]}
  /\ UNCHANGED <<syncTree, asyncTree, queue, running, opened, failed, expected, whole>>

(* _syncSync: written with "w" here, queued with the flag of the file *)
Sync(file) ==
  /\ file.dirty
  /\ CanOpen(syncTree, file.path, "w")
  /\ syncTree' = With(syncTree, file.path, File(file.length))
  /\ EnqueueOp(WriteOp(file.path, file.flag, file.length))
  /\ UNCHANGED whole

Fsync(file) == Sync(file) /\ files' = (files \ {file}) \union {[file EXCEPT !.dirty = FALSE]}

Close(file) ==
  /\ files' = files \ {file}
  /\ \/ Sync(file)
     \/ /\ ~ file.dirty
        /\ UNCHANGED <<syncTree, asyncTree, queue, running, opened, failed, expected, whole>>

----------------------------------------------------------------------------
(* The asynchronous store. *)

(* doNextOp without an error *)
DoNextOp ==
  /\ opened' = FALSE
  /\ IF queue = <<>>
     THEN running' = Idle /\ UNCHANGED queue
     ELSE running' = Head(queue) /\ queue' = Tail(queue)
  /\ UNCHANGED <<syncTree, files, failed, expected, whole>>

Busy == running # Idle /\ ~ failed

Perform ==
  /\ Busy /\ running.op.method # "writeFile"
  /\ CanDo(asyncTree, running.op)
  /\ asyncTree' = Done(asyncTree, running.op)
  /\ DoNextOp

(* writeFile is an open, which creates or truncates, and then a write. *)
OpenRemote ==
  /\ Busy /\ running.op.method = "writeFile" /\ ~ opened
  /\ CanOpen(asyncTree, running.op.p, running.op.flag)
  /\ asyncTree' = Opened(asyncTree, running.op.p, running.op.flag)
  /\ opened' = TRUE
  /\ UNCHANGED <<syncTree, files, queue, running, failed, expected, whole>>

WriteRemote ==
  /\ Busy /\ opened
  /\ asyncTree' = Written(asyncTree, running.op.p, running.op.length)
  /\ DoNextOp

(* Mutants: the error ignored and the next operation begun, or the same again. *)
FailGoingOn == Busy /\ DoNextOp /\ UNCHANGED asyncTree
FailRetrying ==
  /\ Busy
  /\ opened' = FALSE
  /\ UNCHANGED <<syncTree, asyncTree, files, queue, running, failed, expected, whole>>
(* The operation fails, as it must if it cannot be done, and may anyway.
   doNextOp throws "File system has desynchronized" and is never called again. *)
Fail ==
  /\ Busy
  /\ failed' = TRUE
  /\ UNCHANGED <<syncTree, asyncTree, files, queue, running, opened, expected, whole>>

(* The tab goes away; _initialize loads the asynchronous store into a new one. *)
Reload ==
  /\ syncTree' = asyncTree /\ expected' = asyncTree
  /\ files' = {} /\ queue' = <<>> /\ running' = Idle
  /\ opened' = FALSE /\ failed' = FALSE /\ whole' = TRUE
  /\ UNCHANGED asyncTree

Calls ==
  \/ \E p \in Paths :
       \/ Mkdir(p) \/ Rmdir(p) \/ Unlink(p)
       \/ \E new \in Paths : Rename(p, new)
       \/ \E flag \in Flags :
            \/ p \in KeptOpen /\ Cardinality(files) < MaxFiles /\ Open(p, flag)
            \/ \E n \in Contents : WriteFile(p, flag, n)
  \/ \E file \in files :
       \/ \E n \in Contents : Change(file, n)
       \/ Fsync(file) \/ Close(file)

Serves == Perform \/ OpenRemote \/ WriteRemote \/ Fail

Next == Calls \/ Serves \/ Reload

Spec == Init /\ [][Next]_vars

(* The asynchronous store answers every call, well or badly. *)
FairSpec == Spec /\ WF_vars(Serves)

----------------------------------------------------------------------------
Ops == [method : {"mkdir", "rmdir", "unlink", "rename", "writeFile"},
        p : Paths, new : Paths, flag : Flags, length : Contents]
Entries == [op : Ops, before : Trees, after : Trees]

TypeOK ==
  /\ {syncTree, asyncTree, expected} \subseteq Trees
  /\ files \subseteq MirrorFiles
  /\ queue \in Seq(Entries)
  /\ running \in Entries \union {Idle}
  /\ opened \in BOOLEAN /\ failed \in BOOLEAN /\ whole \in BOOLEAN

(* The asynchronous store has done the queued operations in order and up   *)
(* to one of them, whatever failed and whenever the tab went away; of the  *)
(* one it is at it has at most opened, and so emptied, the file.           *)
InOrder ==
  IF running = Idle THEN asyncTree = expected
  ELSE asyncTree = IF opened THEN Opened(running.before, running.op.p, running.op.flag)
                   ELSE running.before

(* "The two stores will be kept in sync": when nothing is pending they are *)
(* the same, for a client that reads and writes whole files and has not    *)
(* cut one short with truncateSync.                                        *)
SyncedAtRest == whole /\ running = Idle => asyncTree = syncTree

(* Such a client has every operation done, unless the asynchronous store   *)
(* fails by itself: none comes too early for what it needs.                *)
NothingRefused ==
  whole /\ running # Idle /\ ~ opened => CanDo(asyncTree, running.op)

(* Unless operations are added for ever, the queue is served to its end or *)
(* to an error.                                                            *)
QueueDrains ==
  []<><<Len(queue') > Len(queue)>>_vars \/ []<>(running = Idle \/ failed)

----------------------------------------------------------------------------
(* What the comments say and the code does not do.                          *)

(* "The two stores will be kept in sync."                                   *)
KeptInSync == running = Idle => asyncTree = syncTree
=============================================================================
