------------------------- MODULE AsyncMirror_proofs -------------------------
(* The two that stand before another file system, each with a queue.        *)
(* The asynchronous store of an AsyncMirror has done the queued operations  *)
(* in order and up to one of them, and equals the synchronous store when    *)
(* nothing is pending, for every set of paths and lengths and every bound,  *)
(* as long as the client reads and writes whole files.  The mutex of        *)
(* LockedFS lets in one call at a time, and all in the order they came.     *)
EXTENDS AsyncMirror, LockedFS, SequenceTheorems, TLAPS

(* What an entry of the queue says of its operation. *)
Sound(e) == e.after = IF CanDo(e.before, e.op) THEN Done(e.before, e.op) ELSE e.before

(* The entries lead from what the asynchronous store was given so far to    *)
(* what it is expected to be, each from where the one before it ends.       *)
Chain ==
  /\ running = Idle => queue = <<>> /\ ~ opened
  /\ running # Idle =>
       /\ Sound(running)
       /\ queue = <<>> => running.after = expected
       /\ queue # <<>> => /\ running.after = queue[1].before
                          /\ queue[Len(queue)].after = expected
  /\ \A i \in 1 .. Len(queue) : Sound(queue[i])
  /\ \A i \in 1 .. Len(queue) - 1 : queue[i].after = queue[i + 1].before
  /\ opened => /\ running.op.method = "writeFile"
               /\ CanOpen(running.before, running.op.p, running.op.flag)

(* A client that writes whole files: every operation could be done to the   *)
(* synchronous store, which the expected one is then equal to.              *)
Whole ==
  whole => /\ expected = syncTree
           /\ files = {}
           /\ running # Idle => CanDo(running.before, running.op)
           /\ \A i \in 1 .. Len(queue) : CanDo(queue[i].before, queue[i].op)

Inv == TypeOK /\ Chain /\ InOrder /\ Whole

----------------------------------------------------------------------------
(* Trees. *)

LEMMA FileNode ==
  ASSUME NEW t \in Trees, NEW p \in Paths, IsFileAt(t, p)
  PROVE  t[p].bytes \in Contents /\ t[p] = File(t[p].bytes)
BY DEF Trees, Nodes, IsFileAt, Absent, Dir, File

LEMMA WithTyped ==
  ASSUME NEW t \in Trees, NEW p \in Paths, NEW n \in Nodes
  PROVE  With(t, p, n) \in Trees /\ With(t, p, n)[p] = n
BY DEF Trees, With

LEMMA NodesTyped ==
  /\ Absent \in Nodes /\ Dir \in Nodes
  /\ \A c \in Contents : File(c) \in Nodes
BY DEF Nodes

LEMMA OpenedTyped ==
  ASSUME NEW t \in Trees, NEW p \in Paths, NEW flag \in Flags
  PROVE  Opened(t, p, flag) \in Trees /\ IsFileAt(Opened(t, p, flag), p)
<1>1. CASE IsFileAt(t, p) /\ flag # "w"
  BY <1>1 DEF Opened
<1>2. CASE ~ (IsFileAt(t, p) /\ flag # "w")
  <2>1. File(Empty) \in Nodes
    BY NodesTyped, LengthsAssumption
  <2>2. Opened(t, p, flag) = With(t, p, File(Empty))
    BY <1>2 DEF Opened
  <2>3. File(Empty).type = "file"
    BY DEF File
  <2> QED BY <2>1, <2>2, <2>3, WithTyped DEF IsFileAt
<1> QED BY <1>1, <1>2

LEMMA WrittenTyped ==
  ASSUME NEW t \in Trees, NEW p \in Paths, NEW n \in Contents, IsFileAt(t, p)
  PROVE  Written(t, p, n) \in Trees
<1>1. t[p].bytes \in Contents
  BY FileNode
<1>2. Longer(n, t[p].bytes) \in Contents
  BY <1>1 DEF Longer
<1> QED BY <1>2, NodesTyped, WithTyped DEF Written

LEMMA RenamedTyped ==
  ASSUME NEW t \in Trees, NEW old \in Paths, NEW new \in Paths
  PROVE  Renamed(t, old, new) \in Trees
<1> DEFINE node(q) ==
      IF IsPrefix(new, q)
      THEN LET from == old \o SubSeq(q, Len(new) + 1, Len(q))
           IN IF from \in Paths THEN t[from] ELSE Absent
      ELSE IF IsPrefix(old, q) THEN Absent ELSE t[q]
<1>1. \A q \in Paths : t[q] \in Nodes
  BY DEF Trees
<1>2. ASSUME NEW q \in Paths PROVE node(q) \in Nodes
  BY <1>1, NodesTyped
<1>3. Renamed(t, old, new) = [q \in Paths |-> node(q)]
  BY Zenon DEF Renamed
<1> HIDE DEF node
<1> QED BY <1>2, <1>3 DEF Trees

LEMMA DoneTyped ==
  ASSUME NEW t \in Trees, NEW op \in Ops, CanDo(t, op)
  PROVE  Done(t, op) \in Trees
<1> op.p \in Paths /\ op.new \in Paths /\ op.flag \in Flags /\ op.length \in Contents
  BY DEF Ops
<1>1. CASE op.method = "mkdir"
  BY <1>1, NodesTyped, WithTyped DEF Done
<1>2. CASE op.method \in {"rmdir", "unlink"}
  BY <1>2, NodesTyped, WithTyped DEF Done
<1>3. CASE op.method = "rename"
  BY <1>3, RenamedTyped DEF Done
<1>4. CASE op.method = "writeFile"
  BY <1>4, OpenedTyped, WrittenTyped DEF Done
<1> QED BY <1>1, <1>2, <1>3, <1>4 DEF Ops

LEMMA EntryTyped ==
  ASSUME NEW op \in Ops, expected \in Trees
  PROVE  /\ Entry(op) \in Entries /\ Entry(op).after \in Trees
         /\ Entry(op).op = op /\ Entry(op).before = expected
         /\ Sound(Entry(op)) /\ Entry(op) # Idle
<1>1. Entry(op).after \in Trees
  BY DoneTyped DEF Entry
<1>2. Entry(op) # Idle
  <2>1. "before" \in DOMAIN Entry(op) /\ "before" \notin DOMAIN Idle
    BY DEF Entry, Idle
  <2> QED BY <2>1
<1> QED BY <1>1, <1>2 DEF Entry, Entries, Sound

(* A whole file written: the same bytes in both stores, unless it is cut.   *)
LEMMA WriteAgrees ==
  ASSUME NEW t \in Trees, NEW p \in Paths, NEW flag \in Flags, NEW n \in Contents,
         n >= Opened(t, p, flag)[p].bytes
  PROVE  Written(Opened(t, p, flag), p, n) = With(t, p, File(n))
<1> DEFINE u == Opened(t, p, flag)
<1>1. u \in Trees /\ IsFileAt(u, p)
  BY OpenedTyped
<1>2. u[p].bytes \in Nat /\ n \in Nat
  BY <1>1, FileNode, LengthsAssumption
<1>3. Longer(n, u[p].bytes) = n
  BY <1>2 DEF Longer
<1>4. With(u, p, File(n)) = With(t, p, File(n))
  <2>1. u = t \/ u = With(t, p, File(Empty))
    BY DEF Opened
  <2> QED BY <2>1 DEF With, Trees
<1> QED BY <1>3, <1>4 DEF Written

----------------------------------------------------------------------------
(* The queue. *)

LEMMA EnqueueKeeps ==
  ASSUME TypeOK, Chain, InOrder, NEW op \in Ops, EnqueueOp(op)
  PROVE  /\ queue' \in Seq(Entries) /\ running' \in Entries \union {Idle}
         /\ expected' \in Trees /\ asyncTree' \in Trees
         /\ opened' \in BOOLEAN /\ failed' \in BOOLEAN
         /\ Chain' /\ InOrder'
<1> DEFINE e == Entry(op)
<1>1. /\ e \in Entries /\ e.after \in Trees /\ e.op = op /\ e.before = expected
      /\ Sound(e) /\ e # Idle
  BY EntryTyped DEF TypeOK
<1>2. expected' = e.after /\ UNCHANGED <<asyncTree, opened, failed>>
  BY DEF EnqueueOp
<1> HIDE DEF e
<1>3. CASE running = Idle
  <2>1. running' = e /\ queue' = <<>> /\ queue = <<>> /\ ~ opened
    BY <1>3 DEF EnqueueOp, Chain, e
  <2>2. Chain'
    BY <1>1, <1>2, <2>1 DEF Chain, Sound
  <2>3. InOrder'
    BY <1>1, <1>2, <1>3, <2>1 DEF InOrder
  <2> QED BY <1>1, <1>2, <2>1, <2>2, <2>3 DEF TypeOK
<1>4. CASE running # Idle
  <2>1. running' = running /\ queue' = Append(queue, e)
    BY <1>4 DEF EnqueueOp, e
  <2>2. queue \in Seq(Entries)
    BY DEF TypeOK
  <2>3. /\ queue' \in Seq(Entries) /\ Len(queue') = Len(queue) + 1
        /\ Len(queue) \in Nat /\ queue' # <<>>
        /\ \A i \in 1 .. Len(queue) : queue'[i] = queue[i]
        /\ queue'[Len(queue) + 1] = e
    BY <1>1, <2>1, <2>2, AppendProperties
  <2>4. \A i \in 1 .. Len(queue') : Sound(queue'[i])
    BY <1>1, <2>3 DEF Chain
  <2>5. \A i \in 1 .. Len(queue') - 1 : queue'[i].after = queue'[i + 1].before
    <3>1. SUFFICES ASSUME NEW i \in 1 .. Len(queue)
                   PROVE  queue'[i].after = queue'[i + 1].before
      BY <2>3
    <3>2. CASE i < Len(queue)
      BY <2>3, <3>2 DEF Chain
    <3>3. CASE i = Len(queue)
      <4>1. queue # <<>>
        BY <3>3, <2>2
      <4> QED BY <1>1, <1>4, <2>3, <3>3, <4>1 DEF Chain
    <3> QED BY <2>3, <3>2, <3>3
  <2>6. running'.after = queue'[1].before
    <3>1. CASE queue = <<>>
      BY <1>1, <1>4, <2>1, <2>3, <3>1 DEF Chain
    <3>2. CASE queue # <<>>
      <4>1. 1 \in 1 .. Len(queue)
        BY <2>2, <3>2, EmptySeq
      <4> QED BY <1>4, <2>1, <2>3, <3>2, <4>1 DEF Chain
    <3> QED BY <3>1, <3>2
  <2>7. Chain'
    BY <1>1, <1>2, <1>4, <2>1, <2>3, <2>4, <2>5, <2>6 DEF Chain, Sound
  <2>8. InOrder'
    BY <1>2, <1>4, <2>1 DEF InOrder
  <2> QED BY <1>1, <1>2, <2>1, <2>3, <2>7, <2>8 DEF TypeOK
<1> QED BY <1>3, <1>4

LEMMA EnqueueWhole ==
  ASSUME TypeOK, Chain, Whole, whole, NEW op \in Ops, CanDo(expected, op), EnqueueOp(op)
  PROVE  /\ expected' = Done(expected, op)
         /\ running' # Idle => CanDo(running'.before, running'.op)
         /\ \A i \in 1 .. Len(queue') : CanDo(queue'[i].before, queue'[i].op)
<1> DEFINE e == Entry(op)
<1>1. /\ e.op = op /\ e.before = expected /\ e.after = Done(expected, op)
      /\ e \in Entries
  <2>1. e.after = Done(expected, op)
    BY DEF Entry
  <2> QED BY <2>1, EntryTyped DEF TypeOK
<1>2. expected' = e.after
  BY DEF EnqueueOp
<1> HIDE DEF e
<1>3. CASE running = Idle
  BY <1>1, <1>2, <1>3 DEF EnqueueOp, Chain, e
<1>4. CASE running # Idle
  <2>1. running' = running /\ queue' = Append(queue, e)
    BY <1>4 DEF EnqueueOp, e
  <2>2. /\ Len(queue') = Len(queue) + 1 /\ Len(queue) \in Nat
        /\ \A i \in 1 .. Len(queue) : queue'[i] = queue[i]
        /\ queue'[Len(queue) + 1] = e
    BY <1>1, <2>1, AppendProperties DEF TypeOK
  <2> QED BY <1>1, <1>2, <1>4, <2>1, <2>2 DEF Whole
<1> QED BY <1>3, <1>4

(* doNextOp, the operation under way done. *)
LEMMA DoNextKeeps ==
  ASSUME Inv, running # Idle, DoNextOp, asyncTree' = running.after
  PROVE  Inv'
<1> USE DEF Inv
<1>1. asyncTree' \in Trees
  BY DEF TypeOK, Entries
<1>2. /\ opened' = FALSE
      /\ UNCHANGED <<syncTree, files, failed, expected, whole>>
  BY DEF DoNextOp
<1>3. CASE queue = <<>>
  <2>1. running' = Idle /\ queue' = <<>>
    BY <1>3 DEF DoNextOp
  <2>2. running.after = expected
    BY <1>3 DEF Chain
  <2>3. TypeOK'
    BY <1>1, <1>2, <2>1, EmptySeq DEF TypeOK
  <2>4. Chain' /\ InOrder' /\ Whole'
    BY <1>2, <2>1, <2>2 DEF Chain, InOrder, Whole
  <2> QED BY <2>3, <2>4
<1>4. CASE queue # <<>>
  <2>1. running' = queue[1] /\ queue' = Tail(queue)
    BY <1>4 DEF DoNextOp
  <2>2. queue \in Seq(Entries) /\ Len(queue) \in Nat /\ Len(queue) > 0
    BY <1>4, EmptySeq DEF TypeOK
  <2>3. /\ queue' \in Seq(Entries) /\ Len(queue') = Len(queue) - 1
        /\ \A i \in 1 .. Len(queue') : queue'[i] = queue[i + 1]
    BY <1>4, <2>1, <2>2, HeadTailProperties
  <2>4. queue[1] \in Entries
    BY <2>2
  <2>5. queue[1] # Idle
    BY <2>4 DEF Entries, Idle
  <2>6. queue' = <<>> => Len(queue) = 1
    BY <2>2, <2>3
  <2>7. queue' # <<>> => Len(queue) > 1 /\ queue'[Len(queue')] = queue[Len(queue)]
    BY <2>2, <2>3, EmptySeq
  <2>8. TypeOK'
    BY <1>1, <1>2, <2>1, <2>3, <2>4 DEF TypeOK
  <2>9. Chain'
    <3>1. Sound(queue[1])
      BY <2>2 DEF Chain
    <3>2. \A i \in 1 .. Len(queue') : Sound(queue'[i])
      BY <2>2, <2>3 DEF Chain
    <3>3. \A i \in 1 .. Len(queue') - 1 : queue'[i].after = queue'[i + 1].before
      BY <2>2, <2>3 DEF Chain
    <3>4. queue' = <<>> => queue[1].after = expected'
      BY <1>2, <1>4, <2>6 DEF Chain
    <3>5. queue' # <<>> => /\ queue[1].after = queue'[1].before
                           /\ queue'[Len(queue')].after = expected'
      BY <1>2, <1>4, <2>2, <2>3, <2>7 DEF Chain
    <3> QED BY <1>2, <2>1, <2>5, <3>1, <3>2, <3>3, <3>4, <3>5 DEF Chain, Sound
  <2>10. InOrder'
    BY <1>2, <1>4, <2>1, <2>5 DEF InOrder, Chain
  <2>11. Whole'
    BY <1>2, <2>1, <2>2, <2>3 DEF Whole
  <2> QED BY <2>8, <2>9, <2>10, <2>11
<1> QED BY <1>3, <1>4

----------------------------------------------------------------------------
(* The steps. *)

LEMMA OpTyped ==
  ASSUME NEW method \in {"mkdir", "rmdir", "unlink"}, NEW p \in Paths, NEW new \in Paths,
         NEW flag \in Flags, NEW n \in Contents
  PROVE  /\ Op(method, p) \in Ops
         /\ [Op("rename", p) EXCEPT !.new = new] \in Ops
         /\ WriteOp(p, flag, n) \in Ops
BY LengthsAssumption DEF Op, WriteOp, Ops, Flags

LEMMA MirroredKeeps ==
  ASSUME Inv, NEW op \in Ops, Mirrored(op), Elsewhere
  PROVE  Inv'
<1> USE DEF Inv
<1>1. CanDo(syncTree, op) /\ syncTree' = Done(syncTree, op) /\ UNCHANGED <<files, whole>>
  BY DEF Mirrored, Elsewhere
<1>2. EnqueueOp(op)
  BY DEF Mirrored
<1>3. syncTree' \in Trees
  BY <1>1, DoneTyped DEF TypeOK
<1>4. TypeOK' /\ Chain' /\ InOrder'
  BY <1>1, <1>2, <1>3, EnqueueKeeps DEF TypeOK
<1>5. Whole'
  <2>1. SUFFICES ASSUME whole PROVE Whole'
    BY <1>1 DEF Whole
  <2>2. expected = syncTree /\ files = {}
    BY <2>1 DEF Whole
  <2>3. CanDo(expected, op)
    BY <1>1, <2>2
  <2> QED BY <1>1, <1>2, <2>1, <2>2, <2>3, EnqueueWhole DEF Whole
<1> QED BY <1>4, <1>5

LEMMA WriteFileKeeps ==
  ASSUME Inv, NEW p \in Paths, NEW flag \in Flags, NEW n \in Contents, WriteFile(p, flag, n)
  PROVE  Inv'
<1> USE DEF Inv
<1> DEFINE op == WriteOp(p, flag, n)
<1>1. /\ CanOpen(syncTree, p, flag) /\ syncTree' = With(syncTree, p, File(n))
      /\ EnqueueOp(op) /\ files' = files
      /\ whole' = (whole /\ n >= Opened(syncTree, p, flag)[p].bytes)
  BY DEF WriteFile
<1>2. /\ op \in Ops /\ op.method = "writeFile"
      /\ op.p = p /\ op.flag = flag /\ op.length = n
  BY OpTyped DEF WriteOp, Op
<1> HIDE DEF op
<1>3. syncTree' \in Trees
  BY <1>1, NodesTyped, WithTyped DEF TypeOK
<1>4. TypeOK' /\ Chain' /\ InOrder'
  BY <1>1, <1>2, <1>3, EnqueueKeeps DEF TypeOK
<1>5. Whole'
  <2>1. SUFFICES ASSUME whole, n >= Opened(syncTree, p, flag)[p].bytes PROVE Whole'
    BY <1>1 DEF Whole
  <2>2. expected = syncTree /\ files = {}
    BY <2>1 DEF Whole
  <2>3. CanDo(expected, op)
    BY <1>1, <1>2, <2>2 DEF CanDo
  <2>4. Done(expected, op) = syncTree'
    BY <1>1, <1>2, <2>1, <2>2, WriteAgrees DEF Done, TypeOK
  <2> QED BY <1>1, <1>2, <2>1, <2>2, <2>3, <2>4, EnqueueWhole DEF Whole
<1> QED BY <1>4, <1>5

LEMMA OpenKeeps ==
  ASSUME Inv, NEW p \in Paths, NEW flag \in Flags, Open(p, flag)
  PROVE  Inv'
<1> USE DEF Inv
<1> DEFINE t == Opened(syncTree, p, flag)
           file == [path |-> p, flag |-> flag, length |-> t[p].bytes, dirty |-> FALSE]
<1>1. t \in Trees /\ t[p].bytes \in Contents
  BY OpenedTyped, FileNode DEF TypeOK
<1>2. file \in MirrorFiles
  BY <1>1 DEF MirrorFiles
<1>3. /\ syncTree' = t /\ files' = files \union {file} /\ whole' = FALSE
      /\ UNCHANGED <<asyncTree, queue, running, opened, failed, expected>>
  BY DEF Open
<1> QED BY <1>1, <1>2, <1>3 DEF TypeOK, Chain, Sound, InOrder, Whole

LEMMA SyncKeeps ==
  ASSUME Inv, NEW file \in files, Sync(file), files' \subseteq MirrorFiles
  PROVE  Inv'
<1> USE DEF Inv
<1>1. file.path \in Paths /\ file.flag \in Flags /\ file.length \in Contents
  BY DEF TypeOK, MirrorFiles
<1>2. WriteOp(file.path, file.flag, file.length) \in Ops
  BY <1>1, OpTyped
<1>3. syncTree' \in Trees /\ UNCHANGED whole
  BY <1>1, NodesTyped, WithTyped DEF Sync, TypeOK
<1>4. TypeOK' /\ Chain' /\ InOrder'
  BY <1>2, <1>3, EnqueueKeeps DEF Sync, TypeOK
<1>5. Whole'
  BY <1>3 DEF Whole
<1> QED BY <1>4, <1>5

LEMMA CallsKeep == ASSUME Inv, Calls PROVE Inv'
<1> USE DEF Inv
<1>1. ASSUME NEW p \in Paths, Mkdir(p) \/ Rmdir(p) \/ Unlink(p) PROVE Inv'
  BY <1>1, OpTyped, LengthsAssumption, MirroredKeeps DEF Mkdir, Rmdir, Unlink, Flags
<1>2. ASSUME NEW p \in Paths, NEW new \in Paths, Rename(p, new) PROVE Inv'
  BY <1>2, OpTyped, LengthsAssumption, MirroredKeeps DEF Rename, Flags
<1>3. ASSUME NEW p \in Paths, NEW flag \in Flags, Open(p, flag) PROVE Inv'
  BY <1>3, OpenKeeps
<1>4. ASSUME NEW p \in Paths, NEW flag \in Flags, NEW n \in Contents, WriteFile(p, flag, n)
      PROVE Inv'
  BY <1>4, WriteFileKeeps
<1>5. ASSUME NEW file \in files, NEW n \in Contents, Change(file, n) PROVE Inv'
  <2>1. ~ whole
    BY DEF Whole
  <2>2. [file EXCEPT !.length = n, !.dirty = TRUE] \in MirrorFiles
    BY DEF TypeOK, MirrorFiles
  <2>3. files' \subseteq MirrorFiles
    BY <1>5, <2>2 DEF Change, TypeOK
  <2>4. UNCHANGED <<syncTree, asyncTree, queue, running, opened, failed, expected, whole>>
    BY <1>5 DEF Change
  <2> QED BY <2>1, <2>3, <2>4 DEF TypeOK, Chain, Sound, InOrder, Whole
<1>6. ASSUME NEW file \in files, Fsync(file) PROVE Inv'
  <2>1. [file EXCEPT !.dirty = FALSE] \in MirrorFiles
    BY DEF TypeOK, MirrorFiles
  <2>2. files' \subseteq MirrorFiles
    BY <1>6, <2>1 DEF Fsync, TypeOK
  <2> QED BY <1>6, <2>2, SyncKeeps DEF Fsync
<1>7. ASSUME NEW file \in files, Close(file) PROVE Inv'
  <2>1. files' \subseteq MirrorFiles /\ ~ whole
    BY <1>7 DEF Close, TypeOK, Whole
  <2>2. CASE Sync(file)
    BY <2>1, <2>2, SyncKeeps
  <2>3. CASE UNCHANGED <<syncTree, asyncTree, queue, running, opened, failed, expected, whole>>
    BY <2>1, <2>3 DEF TypeOK, Chain, Sound, InOrder, Whole
  <2> QED BY <1>7, <2>2, <2>3 DEF Close
<1> QED BY <1>1, <1>2, <1>3, <1>4, <1>5, <1>6, <1>7 DEF Calls

LEMMA ServesKeep == ASSUME Inv, Serves PROVE Inv'
<1> USE DEF Inv
<1>1. CASE Perform
  <2>1. running # Idle /\ ~ opened /\ CanDo(asyncTree, running.op)
    BY <1>1 DEF Perform, Busy, Chain
  <2>2. asyncTree' = running.after
    BY <1>1, <2>1 DEF Perform, InOrder, Chain, Sound
  <2> QED BY <1>1, <2>1, <2>2, DoNextKeeps DEF Perform
<1>2. CASE OpenRemote
  <2>1. /\ running # Idle /\ asyncTree = running.before
        /\ CanOpen(running.before, running.op.p, running.op.flag)
        /\ running.op.method = "writeFile" /\ opened' = TRUE
        /\ asyncTree' = Opened(running.before, running.op.p, running.op.flag)
    BY <1>2 DEF OpenRemote, Busy, InOrder
  <2>2. UNCHANGED <<syncTree, files, queue, running, failed, expected, whole>>
    BY <1>2 DEF OpenRemote
  <2>3. asyncTree' \in Trees
    BY <2>1, OpenedTyped DEF TypeOK, Entries, Ops
  <2> QED BY <2>1, <2>2, <2>3 DEF TypeOK, Chain, Sound, InOrder, Whole
<1>3. CASE WriteRemote
  <2>1. /\ running # Idle /\ opened /\ running.op.method = "writeFile"
        /\ CanOpen(running.before, running.op.p, running.op.flag)
        /\ asyncTree = Opened(running.before, running.op.p, running.op.flag)
    BY <1>3 DEF WriteRemote, Busy, InOrder, Chain
  <2>2. asyncTree' = running.after
    BY <1>3, <2>1 DEF WriteRemote, Chain, Sound, CanDo, Done
  <2> QED BY <1>3, <2>1, <2>2, DoNextKeeps DEF WriteRemote
<1>4. CASE Fail
  BY <1>4 DEF Fail, TypeOK, Chain, Sound, InOrder, Whole
<1> QED BY <1>1, <1>2, <1>3, <1>4 DEF Serves

LEMMA NextInv == Inv /\ [Next]_vars => Inv'
<1> SUFFICES ASSUME Inv, [Next]_vars PROVE Inv'
  OBVIOUS
<1>1. CASE Reload
  <2>1. TypeOK'
    BY <1>1, EmptySeq DEF Reload, Inv, TypeOK
  <2>2. Chain' /\ InOrder' /\ Whole'
    BY <1>1 DEF Reload, Chain, InOrder, Whole
  <2> QED BY <2>1, <2>2 DEF Inv
<1>2. CASE UNCHANGED vars
  BY <1>2 DEF vars, Inv, TypeOK, Chain, Sound, InOrder, Whole
<1> QED BY <1>1, <1>2, CallsKeep, ServesKeep DEF Next

LEMMA InitInv == Init => Inv
<1>1. EmptyTree \in Trees
  BY NodesTyped DEF EmptyTree, Trees
<1> SUFFICES ASSUME Init PROVE Inv
  OBVIOUS
<1>2. TypeOK
  BY <1>1, EmptySeq DEF Init, TypeOK
<1>3. Chain /\ InOrder /\ Whole
  BY DEF Init, Chain, InOrder, Whole
<1> QED BY <1>2, <1>3 DEF Inv

LEMMA InvAlways == Spec => []Inv
BY InitInv, NextInv, PTL DEF Spec

----------------------------------------------------------------------------
(* Whatever fails and whenever the tab goes away, the asynchronous store    *)
(* has done the queued operations in order, up to one of them.              *)
THEOREM InOrderAlways == Spec => [](TypeOK /\ InOrder)
<1>1. Inv => TypeOK /\ InOrder
  BY DEF Inv
<1> QED BY <1>1, InvAlways, PTL

(* For a client that writes whole files the stores are the same at rest.    *)
THEOREM SyncedAtRestAlways == Spec => []SyncedAtRest
<1>1. Inv => SyncedAtRest
  BY DEF Inv, InOrder, Whole, SyncedAtRest
<1> QED BY <1>1, InvAlways, PTL

(* And none of its operations is refused by the asynchronous store: that    *)
(* one fails by itself or does them all.                                    *)
THEOREM NothingRefusedAlways == Spec => []NothingRefused
<1>1. Inv => NothingRefused
  BY DEF Inv, InOrder, Whole, NothingRefused
<1> QED BY <1>1, InvAlways, PTL

----------------------------------------------------------------------------
(* The mutex keeps the wrapped file system to one call at a time, for every *)
(* set of calls, as long as the wrapped file system answers no call twice.  *)

(* Who has the mutex: a call inside, one that died inside, or the one       *)
(* setImmediate is about to let in; never two of them.                      *)
Held ==
  /\ \A c, d \in inside \union dead : c = d
  /\ inside = {} \/ dead = {}
  /\ immediates # <<>> => inside = {} /\ dead = {} /\ Len(immediates) = 1
  /\ ~ locked => inside = {} /\ dead = {} /\ immediates = <<>> /\ waiters = <<>>

LockInv == LockTypeOK /\ (twice \/ Held)

LEMMA LockInitInv == LockInit => LockInv
BY EmptySeq DEF LockInit, LockInv, LockTypeOK, Held

(* What unlock does when only the caller held the mutex. *)
LEMMA UnlockHeld ==
  ASSUME LockTypeOK, Unlock, immediates = <<>>
  PROVE  /\ locked' \in BOOLEAN
         /\ waiters' \in Seq(AsyncCalls) /\ immediates' \in Seq(AsyncCalls)
         /\ immediates' # <<>> => Len(immediates') = 1
         /\ ~ locked' => immediates' = <<>> /\ waiters' = <<>>
<1>1. CASE waiters = <<>>
  BY <1>1 DEF LockTypeOK, Unlock
<1>2. CASE waiters # <<>>
  <2>1. locked' = TRUE
    BY <1>2 DEF Unlock
  <2>2. Head(waiters) \in AsyncCalls /\ Tail(waiters) \in Seq(AsyncCalls)
    BY <1>2 DEF LockTypeOK
  <2>3. immediates' = <<Head(waiters)>> /\ waiters' = Tail(waiters)
    BY <1>2, <2>2 DEF Unlock, LockTypeOK
  <2> QED BY <2>1, <2>2, <2>3
<1> QED BY <1>1, <1>2

(* Types are kept whatever the wrapped file system does. *)
LEMMA UnlockTyped ==
  ASSUME LockTypeOK, Unlock
  PROVE  /\ locked' \in BOOLEAN
         /\ waiters' \in Seq(AsyncCalls) /\ immediates' \in Seq(AsyncCalls)
<1>1. CASE waiters = <<>>
  BY <1>1 DEF LockTypeOK, Unlock
<1>2. CASE waiters # <<>>
  <2>1. Head(waiters) \in AsyncCalls /\ Tail(waiters) \in Seq(AsyncCalls)
    BY <1>2 DEF LockTypeOK
  <2>2. immediates' = Append(immediates, Head(waiters)) /\ waiters' = Tail(waiters)
    BY <1>2 DEF Unlock
  <2>3. immediates' \in Seq(AsyncCalls)
    BY <2>1, <2>2, AppendProperties DEF LockTypeOK
  <2>4. locked' \in BOOLEAN
    BY <1>2 DEF Unlock
  <2> QED BY <2>1, <2>2, <2>3, <2>4
<1> QED BY <1>1, <1>2

LEMMA NextTyped ==
  ASSUME LockTypeOK, [LockNext]_lockVars
  PROVE  LockTypeOK'
<1>1. CASE RunImmediate
  <2>1. Head(immediates) \in AsyncCalls /\ Tail(immediates) \in Seq(AsyncCalls)
    BY <1>1 DEF RunImmediate, LockTypeOK
  <2> QED BY <1>1, <2>1 DEF RunImmediate, Enter, LockTypeOK
<1>2. ASSUME NEW c \in AsyncCalls, Lock(c) PROVE LockTypeOK'
  <2>1. waiters' \in Seq(AsyncCalls)
    <3>1. waiters' = waiters \/ waiters' = Append(waiters, c)
      BY <1>2 DEF Lock
    <3> QED BY <3>1, AppendProperties DEF LockTypeOK
  <2> QED BY <1>2, <2>1 DEF Lock, Enter, LockTypeOK
<1>3. ASSUME NEW c \in AsyncCalls, Answer(c) PROVE LockTypeOK'
  BY <1>3, UnlockTyped DEF Answer, LockTypeOK
<1>4. ASSUME NEW c \in AsyncCalls, AnswerAgain(c) PROVE LockTypeOK'
  BY <1>4, UnlockTyped DEF AnswerAgain, LockTypeOK
<1>5. CASE UNCHANGED lockVars
  BY <1>5 DEF lockVars, LockTypeOK
<1> QED BY <1>1, <1>2, <1>3, <1>4, <1>5 DEF LockNext

LEMMA NextHeld ==
  ASSUME LockTypeOK, Held, [LockNext]_lockVars
  PROVE  twice' \/ Held'
<1>1. CASE RunImmediate
  <2>1. Len(immediates) = 1 /\ immediates \in Seq(AsyncCalls) /\ inside = {} /\ dead = {}
    BY <1>1 DEF RunImmediate, Held, LockTypeOK
  <2>2. Head(immediates) \in AsyncCalls /\ Tail(immediates) \in Seq(AsyncCalls)
    BY <2>1
  <2>3. Tail(immediates) = <<>>
    <3>1. Len(Tail(immediates)) = 0
      BY <2>1
    <3> QED BY <2>2, <3>1, EmptySeq
  <2>4. \/ inside' = {Head(immediates)} /\ dead' = {}
        \/ dead' = {Head(immediates)} /\ inside' = {}
    BY <1>1, <2>1 DEF RunImmediate, Enter
  <2>5. locked
    BY <1>1 DEF RunImmediate, Held, LockTypeOK
  <2> QED BY <1>1, <2>1, <2>2, <2>3, <2>4, <2>5 DEF RunImmediate, Held, LockTypeOK
<1>2. ASSUME NEW c \in AsyncCalls, Lock(c) PROVE Held'
  <2>1. CASE ~ locked
    <3>1. \/ inside' = {c} /\ dead' = {}
          \/ dead' = {c} /\ inside' = {}
      BY <1>2, <2>1 DEF Lock, Enter, Held
    <3> QED BY <1>2, <2>1, <3>1 DEF Lock, Held, LockTypeOK
  <2>2. CASE locked
    <3>1. UNCHANGED <<locked, immediates, inside, dead>>
      BY <1>2, <2>2 DEF Lock
    <3> QED BY <2>2, <3>1 DEF Held
  <2> QED BY <2>1, <2>2 DEF LockTypeOK
<1>3. ASSUME NEW c \in AsyncCalls, Answer(c) PROVE Held'
  <2>1. locked /\ immediates = <<>> /\ inside = {c} /\ dead = {}
    BY <1>3 DEF Answer, Held, LockTypeOK
  <2>2. Unlock /\ inside' = {} /\ dead' = {}
    BY <1>3, <2>1 DEF Answer
  <2> QED BY <2>1, <2>2, UnlockHeld DEF Held
<1>4. ASSUME NEW c \in AsyncCalls, AnswerAgain(c) PROVE twice'
  BY <1>4 DEF AnswerAgain
<1>5. CASE UNCHANGED lockVars
  BY <1>5 DEF lockVars, Held
<1> QED BY <1>1, <1>2, <1>3, <1>4, <1>5 DEF LockNext

LEMMA LockNextInv ==
  ASSUME LockInv, [LockNext]_lockVars
  PROVE  LockInv'
<1>1. LockTypeOK'
  BY NextTyped DEF LockInv
<1>2. CASE twice
  <2>1. twice'
    BY <1>2 DEF LockNext, RunImmediate, Lock, Answer, AnswerAgain, lockVars
  <2> QED BY <1>1, <2>1 DEF LockInv
<1>3. CASE Held
  BY <1>1, <1>3, NextHeld DEF LockInv
<1> QED BY <1>2, <1>3 DEF LockInv

(* The mutex excludes: at most one call in the wrapped file system.          *)
THEOREM MutualExclusion == LockSpec => [](LockTypeOK /\ OneAtATime)
<1>1. LockInv => LockTypeOK /\ OneAtATime
  BY DEF LockInv, Held, OneAtATime
<1>2. LockInv /\ [LockNext]_lockVars => LockInv'
  BY LockNextInv
<1> QED BY <1>1, <1>2, LockInitInv, PTL DEF LockSpec

(* A synchronous call that passes finds nothing in the wrapped file system  *)
(* or about to enter it.                                                    *)
THEOREM SyncCallsAreAlone == LockSpec => []SyncCallsAlone
<1>1. LockInv => SyncCallsAlone
  BY DEF LockInv, Held, SyncCallsAlone
<1>2. LockInv /\ [LockNext]_lockVars => LockInv'
  BY LockNextInv
<1> QED BY <1>1, <1>2, LockInitInv, PTL DEF LockSpec

----------------------------------------------------------------------------
(* The order of entry. *)

Distinct(s) == \A i, j \in DOMAIN s : s[i] = s[j] => i = j

(* The calls not let in yet are the one that setImmediate will let in and   *)
(* then the waiters, no call twice.                                         *)
Queued == arrived = immediates \o waiters /\ Distinct(arrived)

LEMMA RemoveHead ==
  ASSUME NEW s \in Seq(AsyncCalls), s # <<>>, Distinct(s)
  PROVE  RemoveAt(s, CHOOSE i \in DOMAIN s : s[i] = Head(s)) = Tail(s)
<1>1. 1 \in DOMAIN s /\ Head(s) = s[1] /\ Len(s) \in Nat
  OBVIOUS
<1>2. (CHOOSE i \in DOMAIN s : s[i] = Head(s)) = 1
  BY <1>1 DEF Distinct
<1>3. SubSeq(s, 1, 0) = <<>> /\ SubSeq(s, 2, Len(s)) = Tail(s)
  <2>1. SubSeq(s, 1, 0) \in Seq(AsyncCalls) /\ Len(SubSeq(s, 1, 0)) = 0
    OBVIOUS
  <2>2. SubSeq(s, 2, Len(s)) = Tail(s)
    OBVIOUS
  <2> QED BY <2>1, <2>2, EmptySeq
<1>4. <<>> \o Tail(s) = Tail(s)
  BY ConcatEmptySeq
<1>5. RemoveAt(s, 1) = Tail(s)
  BY <1>3, <1>4 DEF RemoveAt
<1> QED BY <1>2, <1>5

LEMMA OneThenRest ==
  ASSUME NEW s \in Seq(AsyncCalls), NEW t \in Seq(AsyncCalls), Len(s) = 1
  PROVE  /\ Tail(s) = <<>>
         /\ s \o t # <<>> /\ Head(s \o t) = Head(s) /\ Tail(s \o t) = t
<1>1. Tail(s) \in Seq(AsyncCalls)
  OBVIOUS
<1>2. Len(Tail(s)) = 0
  OBVIOUS
<1>3. s \o t \in Seq(AsyncCalls) /\ Len(s \o t) = 1 + Len(t) /\ Len(t) \in Nat
  BY ConcatProperties
<1>4. (s \o t)[1] = s[1]
  BY ConcatProperties, <1>3
<1>5. \A i \in 1..Len(t) : (s \o t)[i + 1] = t[i]
  <2> SUFFICES ASSUME NEW i \in 1..Len(t) PROVE (s \o t)[i + 1] = t[i]
    OBVIOUS
  <2>1. i + 1 \in 1..(Len(s) + Len(t)) /\ ~ (i + 1 <= Len(s)) /\ (i + 1) - Len(s) = i
    BY <1>3
  <2>2. \A j \in 1..(Len(s) + Len(t)) :
          (s \o t)[j] = IF j <= Len(s) THEN s[j] ELSE t[j - Len(s)]
    BY ConcatProperties
  <2> QED BY <2>1, <2>2
<1>6. s \o t # <<>>
  BY <1>3
<1>7. Head(s \o t) = (s \o t)[1] /\ Head(s) = s[1]
  BY <1>3, <1>6
<1>8. Tail(s \o t) \in Seq(AsyncCalls) /\ Len(Tail(s \o t)) = Len(t)
  BY <1>3, <1>6
<1>9. \A i \in 1..Len(t) : Tail(s \o t)[i] = t[i]
  BY <1>3, <1>5, <1>6
<1>10. Tail(s \o t) = t
  BY <1>8, <1>9, SeqEqual
<1> QED BY <1>1, <1>2, <1>4, <1>6, <1>7, <1>10, EmptySeq

LEMMA DistinctTail ==
  ASSUME NEW s \in Seq(AsyncCalls), s # <<>>, Distinct(s)
  PROVE  Distinct(Tail(s))
<1>1. DOMAIN Tail(s) = 1..(Len(s) - 1) /\ DOMAIN s = 1..Len(s) /\ Len(s) \in Nat
  OBVIOUS
<1>2. \A i \in DOMAIN Tail(s) : Tail(s)[i] = s[i + 1]
  OBVIOUS
<1> QED BY <1>1, <1>2 DEF Distinct

LEMMA DistinctAppend ==
  ASSUME NEW s \in Seq(AsyncCalls), NEW c \in AsyncCalls, Distinct(s),
         \A i \in DOMAIN s : s[i] # c
  PROVE  Distinct(Append(s, c))
<1>1. /\ DOMAIN s = 1..Len(s) /\ DOMAIN Append(s, c) = 1..(Len(s) + 1) /\ Len(s) \in Nat
      /\ \A i \in 1..Len(s) : Append(s, c)[i] = s[i]
      /\ Append(s, c)[Len(s) + 1] = c
  BY AppendProperties
<1> QED BY <1>1 DEF Distinct

LEMMA UnlockQueues ==
  ASSUME LockTypeOK, Queued, Unlock, immediates = <<>>, UNCHANGED arrived
  PROVE  Queued'
<1>1. arrived = waiters
  BY ConcatEmptySeq DEF Queued, LockTypeOK
<1>2. CASE waiters = <<>>
  BY <1>2 DEF Queued, Unlock, Distinct
<1>3. CASE waiters # <<>>
  <2>1. Head(waiters) \in AsyncCalls /\ Tail(waiters) \in Seq(AsyncCalls)
    BY <1>3 DEF LockTypeOK
  <2>2. immediates' = <<Head(waiters)>> /\ waiters' = Tail(waiters)
    BY <1>3, <2>1 DEF Unlock, LockTypeOK
  <2>3. <<Head(waiters)>> \o Tail(waiters) = waiters
    BY <1>3, <2>1 DEF LockTypeOK
  <2> QED BY <1>1, <2>2, <2>3 DEF Queued, Distinct
<1> QED BY <1>2, <1>3

LEMMA LockInitQueued == LockInit => Queued
<1> SUFFICES ASSUME LockInit PROVE Queued
  OBVIOUS
<1>1. <<>> \o <<>> = <<>>
  BY ConcatEmptySeq, EmptySeq
<1> QED BY <1>1 DEF LockInit, Queued, Distinct

LEMMA NextQueued ==
  ASSUME LockTypeOK, Held, Queued, [LockNext]_lockVars
  PROVE  twice' \/ Queued'
<1>0. arrived \in Seq(AsyncCalls)
  BY ConcatProperties DEF Queued, LockTypeOK
<1>1. CASE RunImmediate
  <2>1. Len(immediates) = 1 /\ immediates \in Seq(AsyncCalls) /\ waiters \in Seq(AsyncCalls)
    BY <1>1 DEF RunImmediate, Held, LockTypeOK
  <2>2. /\ arrived # <<>> /\ Head(arrived) = Head(immediates)
        /\ Tail(arrived) = waiters /\ Tail(immediates) = <<>>
    BY <2>1, OneThenRest DEF Queued
  <2>3. arrived' = waiters
    BY <1>0, <1>1, <2>2, RemoveHead DEF RunImmediate, Queued
  <2>5. arrived' = immediates' \o waiters'
    BY <1>1, <2>1, <2>2, <2>3, ConcatEmptySeq DEF RunImmediate
  <2>6. Distinct(Tail(arrived))
    BY <1>0, <2>2, DistinctTail DEF Queued
  <2> QED BY <2>2, <2>3, <2>5, <2>6 DEF Queued
<1>2. ASSUME NEW c \in AsyncCalls, Lock(c) PROVE Queued'
  <2>1. CASE ~ locked
    <3>1. UNCHANGED <<arrived, immediates, waiters>>
      BY <1>2, <2>1 DEF Lock
    <3> QED BY <3>1 DEF Queued, Distinct
  <2>2. CASE locked
    <3>1. /\ arrived' = Append(arrived, c) /\ waiters' = Append(waiters, c)
          /\ immediates' = immediates
      BY <1>2, <2>2 DEF Lock
    <3>2. arrived' = immediates' \o waiters'
      <4>1. immediates \o Append(waiters, c) = Append(immediates \o waiters, c)
        BY AppendIsConcat, ConcatAssociative DEF LockTypeOK
      <4> QED BY <3>1, <4>1 DEF Queued
    <3>3. \A i \in DOMAIN arrived : arrived[i] # c
      <4>1. c \notin Range(waiters) /\ c \notin Range(immediates)
        BY <1>2 DEF Lock, Pending
      <4>2. \A i \in DOMAIN waiters : waiters[i] # c
        BY <4>1 DEF Range
      <4>3. \A i \in DOMAIN immediates : immediates[i] # c
        BY <4>1 DEF Range
      <4> QED BY <4>2, <4>3 DEF Queued, LockTypeOK
    <3>4. Distinct(Append(arrived, c))
      BY <1>0, <3>3, DistinctAppend DEF Queued
    <3> QED BY <3>1, <3>2, <3>4 DEF Queued
  <2> QED BY <2>1, <2>2
<1>3. ASSUME NEW c \in AsyncCalls, Answer(c) PROVE Queued'
  <2>1. locked /\ immediates = <<>>
    BY <1>3 DEF Answer, Held, LockTypeOK
  <2> QED BY <1>3, <2>1, UnlockQueues DEF Answer
<1>4. ASSUME NEW c \in AsyncCalls, AnswerAgain(c) PROVE twice'
  BY <1>4 DEF AnswerAgain
<1>5. CASE UNCHANGED lockVars
  BY <1>5 DEF lockVars, Queued, Distinct
<1> QED BY <1>1, <1>2, <1>3, <1>4, <1>5 DEF LockNext

Ordered == LockTypeOK /\ (twice \/ (Held /\ Queued))

LEMMA NextOrdered ==
  ASSUME Ordered, [LockNext]_lockVars
  PROVE  Ordered'
<1>1. CASE twice
  <2>1. twice'
    BY <1>1 DEF LockNext, RunImmediate, Lock, Answer, AnswerAgain, lockVars
  <2> QED BY <2>1, NextTyped DEF Ordered
<1>2. CASE Held /\ Queued
  BY <1>2, NextTyped, NextHeld, NextQueued DEF Ordered
<1> QED BY <1>1, <1>2 DEF Ordered

(* Calls enter the wrapped file system, or die in it, in the order they     *)
(* were made.                                                               *)
THEOREM InOrderOfArrival == LockSpec => NoOvertaking
<1> DEFINE Entering ==
      \A c \in AsyncCalls :
        c \in (inside' \union dead') \ (inside \union dead)
          => twice \/ arrived = <<>> \/ c = Head(arrived)
<1>1. LockInit => Ordered
  BY LockInitInv, LockInitQueued DEF Ordered, LockInv
<1>2. Ordered /\ [LockNext]_lockVars => Ordered'
  BY NextOrdered
<1>3. Ordered /\ [LockNext]_lockVars => [Entering]_lockVars
  <2> SUFFICES ASSUME Ordered, LockNext, ~ twice PROVE Entering
    OBVIOUS
  <2> USE DEF Ordered
  <2>1. CASE RunImmediate
    <3>1. Len(immediates) = 1 /\ immediates \in Seq(AsyncCalls) /\ waiters \in Seq(AsyncCalls)
      BY <2>1 DEF RunImmediate, Held, LockTypeOK
    <3>2. Head(arrived) = Head(immediates)
      BY <3>1, OneThenRest DEF Queued
    <3> QED BY <2>1, <3>2 DEF RunImmediate, Enter
  <2>2. ASSUME NEW c \in AsyncCalls, Lock(c) PROVE Entering
    <3>1. CASE ~ locked
      <4>1. immediates = <<>> /\ waiters = <<>>
        BY <3>1 DEF Held
      <4>2. arrived = <<>>
        BY <4>1, ConcatEmptySeq, EmptySeq DEF Queued
      <4> QED BY <4>2
    <3>2. CASE locked
      BY <2>2, <3>2 DEF Lock
    <3> QED BY <3>1, <3>2
  <2>3. ASSUME NEW c \in AsyncCalls, Answer(c) PROVE Entering
    BY <2>3 DEF Answer
  <2>4. ASSUME NEW c \in AsyncCalls, AnswerAgain(c) PROVE Entering
    BY <2>4 DEF AnswerAgain
  <2> QED BY <2>1, <2>2, <2>3, <2>4 DEF LockNext
<1> QED BY <1>1, <1>2, <1>3, PTL DEF LockSpec, NoOvertaking

----------------------------------------------------------------------------
(* A waiter never waits for a mutex nobody holds, whatever the wrapped file *)
(* system does: no assumption on it.                                        *)
THEOREM NoWaiterForgotten == LockSpec => []NoForgottenWaiter
<1>1. LockInit => NoForgottenWaiter
  BY DEF LockInit, NoForgottenWaiter
<1>2. NoForgottenWaiter /\ [LockNext]_lockVars => NoForgottenWaiter'
  <2> SUFFICES ASSUME NoForgottenWaiter, [LockNext]_lockVars PROVE NoForgottenWaiter'
    OBVIOUS
  <2>1. Unlock => NoForgottenWaiter'
    BY DEF Unlock, NoForgottenWaiter
  <2>2. CASE RunImmediate
    BY <2>2 DEF RunImmediate, NoForgottenWaiter
  <2>3. ASSUME NEW c \in AsyncCalls, Lock(c) PROVE NoForgottenWaiter'
    BY <2>3 DEF Lock, NoForgottenWaiter
  <2>4. ASSUME NEW c \in AsyncCalls, Answer(c) PROVE NoForgottenWaiter'
    BY <2>1, <2>4 DEF Answer, NoForgottenWaiter
  <2>5. ASSUME NEW c \in AsyncCalls, AnswerAgain(c) PROVE NoForgottenWaiter'
    BY <2>1, <2>5 DEF AnswerAgain, NoForgottenWaiter
  <2>6. CASE UNCHANGED lockVars
    BY <2>6 DEF lockVars, NoForgottenWaiter
  <2> QED BY <2>2, <2>3, <2>4, <2>5, <2>6 DEF LockNext
<1> QED BY <1>1, <1>2, PTL DEF LockSpec
=============================================================================
