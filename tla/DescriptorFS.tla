---------------------------- MODULE DescriptorFS ----------------------------
(***************************************************************************)
(* The calls of the node API that are about files (src/src/core/FS.ts), as *)
(* BaseFileSystem makes them out of opens, buffers and syncs, over a file  *)
(* system that has PreloadFiles.  The file system's own calls (stat,       *)
(* createFile, openFile, _sync, unlink) are one step each.  They are       *)
(* asynchronous, with the steps of other calls between them, or            *)
(* synchronous: then a call is made at one go, and only its answer waits   *)
(* for setImmediate.  There is one file name, in a directory that stays.   *)
(***************************************************************************)
EXTENDS PreloadFile, FiniteSets

CONSTANTS
  Clients,   \* bound: callers, each with one call at a time
  Null,      \* no position given; no buffer set aside
  Flags,     \* bound: the flags of open
  Chunks,    \* bound: what is written at a time
  Lengths,   \* bound: what is truncated to, or read at a time
  Places,    \* bound: the positions given
  MaxOpens,  \* bound: descriptors ever given
  MaxSize    \* bound: what files grow to

FirstFd == 100
Fds == FirstFd .. FirstFd + MaxOpens - 1

ASSUME DescriptorAssumption ==
  /\ MaxOpens \in Nat /\ MaxSize \in Nat
  /\ Clients \cap Fds = {}
  /\ Flags \subseteq FlagStrs
  /\ Chunks \subseteq Seq(Bytes) /\ Lengths \subseteq Nat /\ Places \subseteq Nat

VARIABLES
  synch,   \* supportsSynch() of the root file system
  store,   \* the node of the file, as it is stored
  files,   \* the File objects: a descriptor's, and the one a call has to itself
  fdMap,   \* the descriptors that are open
  nextFd,  \* the next one
  calls,   \* what each caller waits for
  careful  \* history: no file was changed when a sync of it had no use for it any more

vars == <<synch, store, files, fdMap, nextFd, calls, careful>>

Handles == Fds \union Clients
Missing == [data |-> <<>>, size |-> -1]
EmptyNode == [data |-> <<>>, size |-> 0]
NoFile == NewFile("", "r", EmptyNode)

Idle == [op |-> "none", at |-> "idle", flag |-> "r", bytes |-> <<>>, len |-> 0, handle |-> Null,
         buffer |-> Null, next |-> "", steady |-> FALSE]

(* A synchronous file system leaves no other call half done. *)
At(c, where) ==
  /\ calls[c].at = where
  /\ synch => \A d \in Clients \ {c} : calls[d].at = "idle"

(* Bound: what was not careful is seen to its end, and no file is used after. *)
Free(c) == At(c, "idle") /\ careful

Is(c, call) == calls' = [calls EXCEPT ![c] = call]
Goes(c, where) == Is(c, [calls[c] EXCEPT !.at = where])

(* The callback, with whatever error; setImmediate makes it later. *)
Answers(c) == Is(c, Idle)

----------------------------------------------------------------------------
(* Syncs. *)

SyncedBy(cs, h) == {d \in Clients : cs[d].handle = h /\ cs[d].at \in {"put", "synced"}}

(* The Files fs, without those that nobody has any more: not a call, and not
   a sync that is under way. *)
Kept(fs, cs, fds) ==
  [h \in Handles |->
     IF h \in fds \/ SyncedBy(cs, h) # {} \/ (h \in Clients /\ cs[h].at \in {"opened", "put"})
     THEN fs[h] ELSE NoFile]

(* A File method leaves f of the File h.  A sync keeps the buffer it was
   given; what comes after it has put that is not dirty in the end. *)
Overtakes(h, keeps) ==
  \E d \in SyncedBy(calls, h) : calls[d].at = "synced" \/ calls[d].buffer # Null \/ ~ keeps
Changes(h, f, keeps) ==
  LET changed == NodeOf(f) # NodeOf(files[h])
  IN /\ files' = [files EXCEPT ![h] = [f EXCEPT !.unsaved = @ \/ changed]]
     /\ careful' = (careful /\ ~ (changed /\ Overtakes(h, keeps)))
SetAside(cs, h, keeps) ==
  [d \in Clients |->
     IF ~ keeps /\ d \in SyncedBy(cs, h) /\ cs[d].at = "put" /\ cs[d].buffer = Null
     THEN [cs[d] EXCEPT !.buffer = files[h].buffer] ELSE cs[d]]

(* sync: a dirty file is put into the store, the buffer as it is given now. *)
SyncCall(h, next) == [Idle EXCEPT !.op = "sync", !.at = "put", !.handle = h, !.next = next]

Put(c) ==
  /\ At(c, "put") /\ store # Missing
  /\ LET call == calls[c]
         f == files[call.handle]
         node == [data |-> IF call.buffer = Null THEN f.buffer ELSE call.buffer, size |-> f.size]
     IN /\ store' = node
        /\ files' = [files EXCEPT ![call.handle].unsaved = (@ /\ node # NodeOf(f))]
  /\ Goes(c, "synced")
  /\ UNCHANGED <<synch, fdMap, nextFd, careful>>

(* The callback of a sync that succeeded; close gives the descriptor back. *)
Synced(c) ==
  /\ At(c, "synced")
  /\ LET call == calls[c]
         clean == [files EXCEPT ![call.handle].dirty = FALSE]
     IN /\ IF call.next = "opened" THEN Goes(c, "opened") ELSE Answers(c)
        /\ fdMap' = IF call.next = "closed" THEN fdMap \ {call.handle} ELSE fdMap
        /\ files' = Kept(clean, calls', fdMap')
  /\ UNCHANGED <<synch, store, nextFd, careful>>

(* The store fails, or has no such file any more.  An open goes on.  The
   dirty flag stays, and so does a descriptor. *)
(* mutant: the dirty flag is reset before the sync, as OverlayFile.sync does *)
SyncFailsClean(c) ==
  /\ At(c, "put")
  /\ IF calls[c].next = "opened" THEN Goes(c, "opened") ELSE Answers(c)
  /\ files' = Kept([files EXCEPT ![calls[c].handle].dirty = FALSE], calls', fdMap)
  /\ UNCHANGED <<synch, store, fdMap, nextFd, careful>>
SyncFails(c) ==
  /\ At(c, "put")
  /\ IF calls[c].next = "opened" THEN Goes(c, "opened") ELSE Answers(c)
  /\ files' = Kept(files, calls', fdMap)
  /\ UNCHANGED <<synch, store, fdMap, nextFd, careful>>

----------------------------------------------------------------------------
(* BaseFileSystem.open, and what is made of it. *)

(* Bounds: every open gets a descriptor, and what is appended starts below
   MaxSize. *)
Sizes == {store.size} \union {files[h].size : h \in Handles}
Appends == {c \in Clients : calls[c].op = "appendFile"}
Opens == Cardinality({c \in Clients : calls[c].op = "open"})
Fits(op) ==
  /\ op = "open" => nextFd + Opens \in Fds
  /\ op = "appendFile" => Appends = {} /\ \A n \in Sizes : n < MaxSize

(* The calls, with FS's default flags. *)
Begin(c, op, flag, bytes, len) ==
  /\ Free(c) /\ Fits(op)
  /\ Is(c, [Idle EXCEPT !.op = op, !.at = "stat", !.flag = flag, !.bytes = bytes, !.len = len, !.handle = c,
                            !.steady = (store # Missing)])
  /\ UNCHANGED <<synch, store, files, fdMap, nextFd, careful>>
Open(c, flag) == Begin(c, "open", flag, <<>>, 0)
ReadFile(c) == Begin(c, "readFile", "r", <<>>, 0)
WriteFile(c, bytes) == Begin(c, "writeFile", "w", bytes, 0)
AppendFile(c, bytes) == Begin(c, "appendFile", "a", bytes, 0)
Truncate(c, len) == Begin(c, "truncate", "r+", <<>>, len)

(* stat: whatever its error, the file is taken not to exist. *)
StatFinds(c) ==
  /\ At(c, "stat") /\ store # Missing
  /\ IF calls[c].flag \in Exclusive THEN Answers(c) ELSE Goes(c, "openFile")
  /\ UNCHANGED <<synch, store, files, fdMap, nextFd, careful>>

StatFails(c) ==
  /\ At(c, "stat")
  /\ IF calls[c].flag \in Creating
     THEN Is(c, [calls[c] EXCEPT !.at = "createFile", !.steady = FALSE]) ELSE Answers(c)
  /\ UNCHANGED <<synch, store, files, fdMap, nextFd, careful>>

Has(c, f) == files' = [files EXCEPT ![c] = f]

CreateFile(c) ==
  /\ At(c, "createFile")
  /\ IF store # Missing THEN Answers(c) /\ UNCHANGED <<store, files>>
     ELSE /\ store' = EmptyNode
          /\ Has(c, NewFile("file", calls[c].flag, EmptyNode))
          /\ Goes(c, "opened")
  /\ UNCHANGED <<synch, fdMap, nextFd, careful>>

(* openFile.  The file is truncated, and that synced, before it is handed
   out: "as the file would not exist for a small period of time" otherwise.
   openSync does remove it, and creates it, at one go. *)
(* mutant: removes the file, and creates it in a step of its own *)
OpenFileAnew(c) ==
  /\ At(c, "openFile") /\ store # Missing
  /\ store' = Missing
  /\ Goes(c, "createFile")
  /\ UNCHANGED <<synch, files, fdMap, nextFd, careful>>
OpenFile(c) ==
  /\ At(c, "openFile")
  /\ IF store = Missing THEN Answers(c) /\ UNCHANGED <<store, files>>
     ELSE LET f == NewFile("file", calls[c].flag, store)
          IN \/ /\ calls[c].flag \notin Truncating
                /\ Has(c, f) /\ Goes(c, "opened") /\ UNCHANGED store
             \/ /\ calls[c].flag \in Truncating /\ ~ synch
                /\ Has(c, [TruncateSync(f, 0) EXCEPT !.unsaved = (store # EmptyNode)])
                /\ Is(c, [SyncCall(c, "opened") EXCEPT !.op = calls[c].op, !.bytes = calls[c].bytes]) /\ UNCHANGED store
             \/ /\ calls[c].flag \in Truncating /\ synch
                /\ store' = EmptyNode
                /\ Has(c, NewFile("file", calls[c].flag, EmptyNode))
                /\ Goes(c, "opened")
  /\ UNCHANGED <<synch, fdMap, nextFd, careful>>

OpenFails(c) ==
  /\ At(c, "createFile") \/ At(c, "openFile")
  /\ Answers(c)
  /\ UNCHANGED <<synch, store, files, fdMap, nextFd, careful>>

(* getFdForFile.  Bound: Fds, as Fits sees to. *)
GetFdForFile(c) ==
  /\ At(c, "opened") /\ calls[c].op = "open" /\ nextFd \in Fds
  /\ fdMap' = fdMap \union {nextFd} /\ nextFd' = nextFd + 1
  /\ files' = [files EXCEPT ![nextFd] = files[c], ![c] = NoFile]
  /\ Answers(c)
  /\ UNCHANGED <<synch, store, careful>>

(* The call has the file to itself: it reads or writes, and closes. *)
Used(call, f) ==
  CASE call.op = "readFile" -> ReadSync(f, f.size, 0)
    [] call.op = "writeFile" -> WriteSync(f, call.bytes, 0)
    [] call.op = "appendFile" -> WriteSync(f, call.bytes, GetPos(f))
    [] call.op = "truncate" -> TruncateSync(f, call.len)
UseFile(c) ==
  /\ At(c, "opened") /\ calls[c].op # "open"
  /\ LET f == Used(calls[c], files[c])
     IN /\ IF f.dirty THEN Is(c, SyncCall(c, "closed")) ELSE Answers(c)
        /\ files' = Kept([files EXCEPT ![c] = [f EXCEPT !.unsaved = NodeOf(f) # NodeOf(files[c]) \/ @]],
                         calls', fdMap)
  /\ UNCHANGED <<synch, store, fdMap, nextFd, careful>>

----------------------------------------------------------------------------
(* Calls of a descriptor.  fd2file: "EBADF, 'Invalid file descriptor.'" *)

BadFd(c) ==
  /\ Free(c)
  /\ \E fd \in FirstFd .. nextFd - 1 : fd \notin fdMap
  /\ Answers(c)
  /\ UNCHANGED <<synch, store, files, fdMap, nextFd, careful>>

(* mutant: the descriptor is given back before the file is synced *)
CloseFirst(c, fd) ==
  /\ Free(c) /\ fd \in fdMap
  /\ IF files[fd].dirty THEN Is(c, SyncCall(fd, "answer")) ELSE Answers(c)
  /\ fdMap' = fdMap \ {fd}
  /\ files' = Kept(files, calls', fdMap')
  /\ UNCHANGED <<synch, store, nextFd, careful>>
Close(c, fd) ==
  /\ Free(c) /\ fd \in fdMap
  /\ IF files[fd].dirty
     THEN Is(c, SyncCall(fd, "closed")) /\ UNCHANGED <<files, fdMap>>
     ELSE /\ Answers(c)
          /\ fdMap' = fdMap \ {fd}
          /\ files' = Kept(files, calls', fdMap')
  /\ UNCHANGED <<synch, store, nextFd, careful>>

(* fsync, and fdatasync, which is the same *)
Fsync(c, fd) ==
  /\ Free(c) /\ fd \in fdMap
  /\ IF files[fd].dirty THEN Is(c, SyncCall(fd, "answer")) ELSE Answers(c)
  /\ UNCHANGED <<synch, store, files, fdMap, nextFd, careful>>

(* A file opened with "s" is synced by what writes to it, if its file system
   can do that at once.  If not, a write is made and answered with ENOTSUP,
   and a truncation called back, and again when the file is synced. *)
WriteThrough(f, fd, can) ==
  IF f.flag \in Writeable \cap Synchronous /\ can THEN SyncCall(fd, "answer") ELSE Idle

Write(c, fd, bytes, place) ==
  /\ Free(c) /\ fd \in fdMap
  /\ LET f == files[fd]
         at == IF place = Null THEN GetPos(f) ELSE place
         keeps == WriteKeepsBuffer(f, bytes, at)
     IN /\ at + Len(bytes) <= MaxSize
        /\ Changes(fd, WriteSync(f, bytes, at), keeps)
        /\ calls' = [SetAside(calls, fd, keeps) EXCEPT ![c] = WriteThrough(f, fd, synch)]
  /\ UNCHANGED <<synch, store, fdMap, nextFd>>

Ftruncate(c, fd, len) ==
  /\ Free(c) /\ fd \in fdMap
  /\ LET f == files[fd]
         keeps == TruncateKeepsBuffer(f, len)
     IN /\ Changes(fd, TruncateSync(f, len), keeps)
        /\ calls' = [SetAside(calls, fd, keeps) EXCEPT ![c] =
                       WriteThrough(f, fd, synch \/ len <= Len(f.buffer))]
  /\ UNCHANGED <<synch, store, fdMap, nextFd>>

Read(c, fd, len, place) ==
  /\ Free(c) /\ fd \in fdMap
  /\ LET f == files[fd]
     IN files' = [files EXCEPT ![fd] = ReadSync(f, len, IF place = Null THEN GetPos(f) ELSE place)]
  /\ Answers(c)
  /\ UNCHANGED <<synch, store, fdMap, nextFd, careful>>

(* unlink, of the file system *)
Unlink(c) ==
  /\ At(c, "idle")
  /\ store' = Missing
  /\ calls' = [d \in Clients |-> [calls[d] EXCEPT !.steady = FALSE]]
  /\ UNCHANGED <<synch, files, fdMap, nextFd, careful>>

----------------------------------------------------------------------------
Init ==
  /\ synch \in BOOLEAN
  /\ store = Missing
  /\ files = [h \in Handles |-> NoFile] /\ careful = TRUE
  /\ fdMap = {} /\ nextFd = FirstFd
  /\ calls = [c \in Clients |-> Idle]

Makes(c) ==
  \/ \E flag \in Flags : Open(c, flag)
  \/ ReadFile(c)
  \/ \E bytes \in Chunks : WriteFile(c, bytes) \/ AppendFile(c, bytes)
  \/ \E len \in Lengths : Truncate(c, len)
  \/ \E fd \in fdMap :
       \/ Close(c, fd) \/ Fsync(c, fd)
       \/ \E place \in Places \union {Null} :
            \/ \E bytes \in Chunks : Write(c, fd, bytes, place)
            \/ \E len \in Lengths : Read(c, fd, len, place)
       \/ \E len \in Lengths : Ftruncate(c, fd, len)
  \/ BadFd(c) \/ Unlink(c)

Runs(c) ==
  \/ StatFinds(c) \/ StatFails(c) \/ CreateFile(c) \/ OpenFile(c) \/ OpenFails(c)
  \/ GetFdForFile(c) \/ UseFile(c)
  \/ Put(c) \/ Synced(c) \/ SyncFails(c)

Next == \E c \in Clients : Makes(c) \/ Runs(c)

Spec == Init /\ [][Next]_vars

----------------------------------------------------------------------------
Nodes == [data : Seq(Bytes), size : Nat]
FileObjects ==
  [path : {"", "file"}, flag : FlagStrs, buffer : Seq(Bytes), size : Nat, pos : Nat,
   dirty : BOOLEAN, unsaved : BOOLEAN]
FileCalls == {"open", "readFile", "writeFile", "appendFile", "truncate"}
CallObjects ==
  [op : FileCalls \union {"none", "sync"},
   at : {"idle", "stat", "createFile", "openFile", "opened", "put", "synced"},
   flag : FlagStrs, bytes : Seq(Bytes), len : Nat, handle : Handles \union {Null},
   buffer : {Null} \union Seq(Bytes), next : {"", "opened", "closed", "answer"}, steady : BOOLEAN]
TypeOK ==
  /\ synch \in BOOLEAN /\ careful \in BOOLEAN
  /\ store \in Nodes \union {Missing}
  /\ files \in [Handles -> FileObjects]
  /\ nextFd \in FirstFd .. FirstFd + MaxOpens /\ fdMap \subseteq FirstFd .. nextFd - 1
  /\ calls \in [Clients -> CallObjects]

(* The file in memory and the file in the store: a File that is not dirty   *)
(* has nothing that was not stored, so that close may do without a sync.    *)
CleanMeansStored ==
  careful => \A h \in Handles : files[h].unsaved => files[h].dirty

(* What is given back has been stored.                                      *)
CloseLosesNothing ==
  [][careful' => \A fd \in fdMap \ fdMap' : ~ files[fd].unsaved]_vars

(* Buffers, sizes and what is stored go together, at every moment and      *)
(* through all syncs in flight.                                             *)
SizesAgree ==
  careful => /\ store # Missing => Sized(store)
             /\ \A h \in Handles : Sized(NodeOf(files[h]))

(* Truncating, an open has "created a race condition if another             *)
(* asynchronous request was trying to read the file": who found the file    *)
(* opens it, unless it was unlinked.                                        *)
FoundIsThere ==
  \A c \in Clients : calls[c].at = "openFile" /\ calls[c].steady => store # Missing
=============================================================================
