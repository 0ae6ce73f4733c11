------------------------ MODULE DescriptorFS_proofs ------------------------
(* That nothing written through a descriptor is lost, for all callers,     *)
(* bytes, lengths and bounds.                                              *)
EXTENDS DescriptorFS, SequenceTheorems, TLAPS

----------------------------------------------------------------------------
(* Buffers *)

LEMMA ZerosAre ==
  ASSUME NEW n \in Nat
  PROVE  Zeros(n) \in Seq(Bytes) /\ Len(Zeros(n)) = n
<1>1. \A i \in 1 .. n : Zero \in Bytes
  BY ByteAssumption
<1> QED
  BY <1>1 DEF Zeros

LEMMA RoomIs ==
  ASSUME NEW f \in FileObjects, NEW end \in Nat
  PROVE  /\ Room(f, end) \in Seq(Bytes)
         /\ Sized(NodeOf(f)) => Len(Room(f, end)) = AtLeast(f.size, end)
<1>1. f.buffer \in Seq(Bytes) /\ Len(f.buffer) \in Nat /\ f.size \in Nat
  BY LenProperties DEF FileObjects
<1>2. CASE end > f.size /\ end > Len(f.buffer)
  <2> DEFINE more == end - Len(f.buffer)
  <2>1. more \in Nat /\ Len(f.buffer) + more = end
    BY <1>1, <1>2
  <2>2. Room(f, end) = f.buffer \o Zeros(more)
    BY <1>2 DEF Room
  <2> HIDE DEF more
  <2>3. Zeros(more) \in Seq(Bytes) /\ Len(Zeros(more)) = more
    BY <2>1, ZerosAre
  <2>4. /\ f.buffer \o Zeros(more) \in Seq(Bytes)
        /\ Len(f.buffer \o Zeros(more)) = Len(f.buffer) + Len(Zeros(more))
    BY <1>1, <2>3, ConcatProperties
  <2> QED
    BY <1>1, <1>2, <2>1, <2>2, <2>3, <2>4 DEF AtLeast
<1>3. CASE ~ (end > f.size /\ end > Len(f.buffer))
  BY <1>1, <1>3 DEF Room, AtLeast, Sized, NodeOf
<1> QED
  BY <1>2, <1>3

LEMMA CopiedIs ==
  ASSUME NEW buffer \in Seq(Bytes), NEW bytes \in Seq(Bytes), NEW at \in Nat
  PROVE  Copied(buffer, bytes, at) \in Seq(Bytes) /\ Len(Copied(buffer, bytes, at)) = Len(buffer)
<1>1. Len(buffer) \in Nat /\ Len(bytes) \in Nat
  BY LenProperties
<1>2. ASSUME NEW i \in 1 .. Len(buffer)
      PROVE  (IF i \in at + 1 .. at + Len(bytes) THEN bytes[i - at] ELSE buffer[i]) \in Bytes
  <2>1. CASE i \in at + 1 .. at + Len(bytes)
    <3>1. i - at \in 1 .. Len(bytes)
      BY <1>1, <2>1
    <3> QED
      BY <2>1, <3>1, ElementOfSeq
  <2>2. CASE i \notin at + 1 .. at + Len(bytes)
    BY <2>2, ElementOfSeq
  <2> QED
    BY <2>1, <2>2
<1> QED
  BY <1>1, <1>2 DEF Copied

----------------------------------------------------------------------------
(* What a method of a File leaves of it: f becomes g. *)
Leaves(f, g) ==
  /\ g \in FileObjects
  /\ g.unsaved = f.unsaved
  /\ f.dirty \/ NodeOf(g) # NodeOf(f) => g.dirty
  /\ Sized(NodeOf(f)) => Sized(NodeOf(g))

LEMMA PosIs ==
  ASSUME NEW f \in FileObjects
  PROVE  GetPos(f) \in Nat
BY DEF GetPos, FileObjects

LEMMA WriteLeaves ==
  ASSUME NEW f \in FileObjects, NEW bytes \in Seq(Bytes), NEW at \in Nat
  PROVE  Leaves(f, WriteSync(f, bytes, at)) /\ WriteSync(f, bytes, at).dirty
<1>1. CASE f.flag \in Writeable
  <2> DEFINE end == at + Len(bytes)
             buffer == Copied(Room(f, end), bytes, at)
             g == [f EXCEPT !.dirty = TRUE, !.size = AtLeast(f.size, end), !.buffer = buffer,
                            !.pos = IF f.flag \in Synchronous THEN f.pos ELSE end]
  <2>1. end \in Nat
    BY LenProperties
  <2>2. /\ buffer \in Seq(Bytes)
        /\ Sized(NodeOf(f)) => Len(buffer) = AtLeast(f.size, end)
    BY <2>1, RoomIs, CopiedIs
  <2>3. AtLeast(f.size, end) \in Nat
    BY <2>1 DEF AtLeast, FileObjects
  <2>4. WriteSync(f, bytes, at) = g
    BY <1>1 DEF WriteSync, WriteBuffer
  <2> HIDE DEF buffer, end
  <2>5. /\ g \in FileObjects /\ g.unsaved = f.unsaved /\ g.dirty
        /\ NodeOf(g) = [data |-> buffer, size |-> AtLeast(f.size, end)]
    BY <2>1, <2>2, <2>3 DEF FileObjects, NodeOf
  <2>6. Sized(NodeOf(f)) => Sized(NodeOf(g))
    BY <2>2, <2>5 DEF Sized
  <2> QED
    BY <2>4, <2>5, <2>6 DEF Leaves
<1>2. CASE f.flag \notin Writeable
  BY <1>2 DEF WriteSync, Leaves, FileObjects, NodeOf, Sized
<1> QED
  BY <1>1, <1>2

LEMMA TruncateLeaves ==
  ASSUME NEW f \in FileObjects, NEW len \in Nat
  PROVE  Leaves(f, TruncateSync(f, len)) /\ TruncateSync(f, len).dirty
<1>0. f.buffer \in Seq(Bytes) /\ Len(f.buffer) \in Nat
  BY LenProperties DEF FileObjects
<1>1. CASE f.flag \notin Writeable
  BY <1>1 DEF TruncateSync, Leaves, FileObjects, NodeOf, Sized
<1>2. CASE f.flag \in Writeable /\ len > Len(f.buffer)
  <2>1. Zeros(len - Len(f.buffer)) \in Seq(Bytes)
    BY <1>0, <1>2, ZerosAre
  <2>2. TruncateSync(f, len) = WriteSync(f, Zeros(len - Len(f.buffer)), Len(f.buffer))
    BY <1>2 DEF TruncateSync
  <2> QED
    BY <1>0, <2>1, <2>2, WriteLeaves
<1>3. CASE f.flag \in Writeable /\ ~ len > Len(f.buffer)
  <2> DEFINE cut == SubSeq(f.buffer, 1, len)
             g == [f EXCEPT !.dirty = TRUE, !.size = len, !.buffer = cut]
  <2>1. cut \in Seq(Bytes) /\ Len(cut) = len
    BY <1>0, <1>3, SubSeqProperties
  <2>2. TruncateSync(f, len) = g
    BY <1>3 DEF TruncateSync
  <2> HIDE DEF cut
  <2>3. /\ g \in FileObjects /\ g.unsaved = f.unsaved /\ g.dirty
        /\ NodeOf(g) = [data |-> cut, size |-> len]
    BY <2>1 DEF FileObjects, NodeOf
  <2> QED
    BY <2>1, <2>2, <2>3 DEF Leaves, Sized
<1> QED
  BY <1>1, <1>2, <1>3

LEMMA ReadLeaves ==
  ASSUME NEW f \in FileObjects, NEW len \in Nat, NEW at \in Nat
  PROVE  Leaves(f, ReadSync(f, len, at))
<1> DEFINE end == IF at + len > f.size THEN f.size ELSE at + len
           g == [f EXCEPT !.pos = end]
<1>0. f.size \in Nat
  BY DEF FileObjects
<1>1. end \in Nat
  BY <1>0
<1>2. ReadSync(f, len, at) = IF f.flag \in Readable THEN g ELSE f
  BY DEF ReadSync
<1> HIDE DEF end
<1>3. Leaves(f, g)
  BY <1>1 DEF Leaves, FileObjects, NodeOf, Sized
<1>4. Leaves(f, f)
  BY DEF Leaves
<1> QED
  BY <1>2, <1>3, <1>4

----------------------------------------------------------------------------
(* The inductive invariant.  A call that is about a File has a descriptor  *)
(* that was given, or the File that it has to itself; and it is one of the *)
(* node API as long as it opens its File.                                  *)
Opening == {"stat", "createFile", "openFile", "opened"}
CallFits(c, call, next) ==
  /\ call.at # "idle" => call.handle \in {c} \union FirstFd .. next - 1
  /\ call.at \in Opening \/ call.next = "opened" => call.op \in FileCalls
CallInv == \A c \in Clients : CallFits(c, calls[c], nextFd)

(* Between the put of a sync and its callback the File has nothing that is *)
(* not stored; and a buffer that was set aside is still what the File has. *)
Follows(call, fs) ==
  /\ call.at = "synced" => ~ fs[call.handle].unsaved
  /\ call.at = "put" /\ call.buffer # Null => call.buffer = fs[call.handle].buffer
SyncInv == careful => \A c \in Clients : Follows(calls[c], files)

SteadyInv == \A c \in Clients : calls[c].steady => store # Missing

Inv == TypeOK /\ CallInv /\ CleanMeansStored /\ SizesAgree /\ SyncInv /\ SteadyInv

----------------------------------------------------------------------------
LEMMA Basics ==
  /\ Missing \notin Nodes /\ EmptyNode \in Nodes /\ Sized(EmptyNode)
  /\ Idle \in CallObjects /\ NoFile \in FileObjects /\ ~ NoFile.unsaved
  /\ Sized(NodeOf(NoFile))
  /\ FirstFd \in Int /\ Fds \subseteq Handles /\ Clients \subseteq Handles
  /\ \A c \in Clients : c \notin Fds
BY DescriptorAssumption
   DEF Missing, Nodes, EmptyNode, Sized, Idle, CallObjects, NoFile, NewFile, FileObjects, NodeOf,
       FlagStrs, Handles, FirstFd, Fds, FileCalls

LEMMA NewFileIs ==
  ASSUME NEW flag \in FlagStrs, NEW node \in Nodes
  PROVE  LET f == NewFile("file", flag, node)
         IN f \in FileObjects /\ ~ f.unsaved /\ NodeOf(f) = node
BY DEF NewFile, Nodes, FileObjects, NodeOf

LEMMA SyncCallIs ==
  ASSUME NEW h \in Handles, NEW next \in {"opened", "closed", "answer"}
  PROVE  LET call == SyncCall(h, next)
         IN /\ call \in CallObjects /\ call.at = "put" /\ call.handle = h /\ call.buffer = Null
            /\ call.next = next /\ call.steady = FALSE
BY Basics DEF SyncCall, Idle, CallObjects

(* What a File may be, and what the store may hold. *)
FileOK(f) ==
  f \in FileObjects /\ (careful => (f.unsaved => f.dirty) /\ Sized(NodeOf(f)))
StoreOK(node) ==
  node \in Nodes \union {Missing} /\ (careful => (node # Missing => Sized(node)))

LEMMA KeptIs ==
  ASSUME NEW fs \in [Handles -> FileObjects], NEW cs, NEW fds
  PROVE  /\ Kept(fs, cs, fds) \in [Handles -> FileObjects]
         /\ \A h \in Handles : Kept(fs, cs, fds)[h] \in {fs[h], NoFile}
         /\ \A d \in Clients :
              cs[d].at \in {"put", "synced"} /\ cs[d].handle \in Handles
                => Kept(fs, cs, fds)[cs[d].handle] = fs[cs[d].handle]
<1>1. \A h \in Handles : Kept(fs, cs, fds)[h] \in {fs[h], NoFile}
  BY DEF Kept
<1>2. Kept(fs, cs, fds) \in [Handles -> FileObjects]
  BY Basics DEF Kept
<1>3. ASSUME NEW d \in Clients, cs[d].at \in {"put", "synced"}, cs[d].handle \in Handles
      PROVE  Kept(fs, cs, fds)[cs[d].handle] = fs[cs[d].handle]
  <2>1. d \in SyncedBy(cs, cs[d].handle)
    BY <1>3 DEF SyncedBy
  <2> QED
    BY <1>3, <2>1 DEF Kept
<1> QED
  BY <1>1, <1>2, <1>3
----------------------------------------------------------------------------
(* A step of c that leaves the calls of the others alone keeps the         *)
(* invariant if it does so with the Files, the store and its own call.     *)
LEMMA StepKeeps ==
  ASSUME Inv, NEW c \in Clients, NEW call \in CallObjects, Is(c, call),
         synch' = synch, careful' = careful,
         StoreOK(store'), store # Missing => store' # Missing,
         files' \in [Handles -> FileObjects], \A h \in Handles : FileOK(files'[h]),
         nextFd' \in nextFd .. FirstFd + MaxOpens, fdMap' \subseteq FirstFd .. nextFd' - 1,
         CallFits(c, call, nextFd'), call.steady => store' # Missing,
         careful => Follows(call, files'),
         careful => \A d \in Clients \ {c} : Follows(calls[d], files')
  PROVE  Inv'
<1>0. FirstFd \in Int /\ MaxOpens \in Nat /\ nextFd \in Int /\ FirstFd <= nextFd
  BY Basics, DescriptorAssumption DEF Inv, TypeOK
<1>1. /\ calls \in [Clients -> CallObjects]
      /\ calls' = [calls EXCEPT ![c] = call]
  BY DEF Inv, TypeOK, Is
<1>2. calls'[c] = call /\ \A d \in Clients \ {c} : calls'[d] = calls[d]
  BY <1>1
<1>3. TypeOK'
  <2>1. nextFd' \in FirstFd .. FirstFd + MaxOpens
    BY <1>0
  <2>2. calls' \in [Clients -> CallObjects]
    BY <1>1
  <2>3. store' \in Nodes \union {Missing}
    BY DEF StoreOK
  <2>4. synch' \in BOOLEAN /\ careful' \in BOOLEAN
    BY DEF Inv, TypeOK
  <2> QED
    BY <2>1, <2>2, <2>3, <2>4 DEF TypeOK
<1>4. CallInv'
  <2>1. \A d \in Clients \ {c} : CallFits(d, calls[d], nextFd')
    BY <1>0 DEF Inv, CallInv, CallFits
  <2> QED
    BY <1>2, <2>1 DEF CallInv, CallFits
<1>5. CleanMeansStored' /\ SizesAgree'
  BY DEF CleanMeansStored, SizesAgree, FileOK, StoreOK
<1>6. SyncInv'
  BY <1>2 DEF SyncInv, Follows
<1>7. SteadyInv'
  BY <1>2 DEF Inv, SteadyInv
<1> QED
  BY <1>3, <1>4, <1>5, <1>6, <1>7 DEF Inv

(* What the invariant says of one File, one call, the store. *)
LEMMA InvOf ==
  ASSUME Inv
  PROVE  /\ files \in [Handles -> FileObjects] /\ \A h \in Handles : FileOK(files[h])
         /\ StoreOK(store)
         /\ nextFd \in FirstFd .. FirstFd + MaxOpens /\ nextFd \in nextFd .. FirstFd + MaxOpens
         /\ fdMap \subseteq FirstFd .. nextFd - 1 /\ fdMap \subseteq Fds
         /\ \A c \in Clients :
              /\ calls[c] \in CallObjects /\ CallFits(c, calls[c], nextFd)
              /\ calls[c].at # "idle" => calls[c].handle \in Handles
              /\ careful => Follows(calls[c], files)
              /\ calls[c].steady => store # Missing
<1>1. FirstFd \in Int /\ MaxOpens \in Nat
  BY Basics, DescriptorAssumption
<1>2. TypeOK
  BY DEF Inv
<1>3. nextFd \in FirstFd .. FirstFd + MaxOpens /\ FirstFd .. nextFd - 1 \subseteq Fds
  BY <1>1, <1>2 DEF TypeOK, Fds
<1>4. \A h \in Handles : FileOK(files[h])
  BY <1>2 DEF Inv, TypeOK, CleanMeansStored, SizesAgree, FileOK
<1>5. StoreOK(store)
  BY <1>2 DEF Inv, TypeOK, SizesAgree, StoreOK
<1>6. ASSUME NEW c \in Clients
      PROVE  /\ calls[c] \in CallObjects /\ CallFits(c, calls[c], nextFd)
             /\ calls[c].at # "idle" => calls[c].handle \in Handles
             /\ careful => Follows(calls[c], files)
             /\ calls[c].steady => store # Missing
  <2>1. calls[c] \in CallObjects /\ CallFits(c, calls[c], nextFd)
    BY <1>2 DEF Inv, TypeOK, CallInv
  <2>2. calls[c].at # "idle" => calls[c].handle \in Handles
    BY <2>1, <1>3, Basics DEF CallFits
  <2> QED
    BY <2>1, <2>2 DEF Inv, SyncInv, SteadyInv
<1> QED
  BY <1>1, <1>2, <1>3, <1>4, <1>5, <1>6 DEF TypeOK

(* A step that is about a call only. *)
LEMMA CallKeeps ==
  ASSUME Inv, NEW c \in Clients, NEW call \in CallObjects, Is(c, call),
         UNCHANGED <<synch, store, files, fdMap, nextFd, careful>>,
         CallFits(c, call, nextFd), call.steady => store # Missing,
         call.at # "synced", call.at = "put" => call.buffer = Null
  PROVE  Inv'
<1>1. Follows(call, files)
  BY DEF Follows
<1> QED
  BY <1>1, InvOf, StepKeeps, SMTT(30)

(* A call that is answered waits for nothing. *)
LEMMA IdleFits ==
  ASSUME NEW c, NEW n
  PROVE  /\ CallFits(c, Idle, n) /\ Idle \in CallObjects /\ Idle.steady = FALSE
         /\ \A fs : Follows(Idle, fs)
         /\ Idle.at = "idle"
BY Basics DEF CallFits, Idle, Opening, Follows

(* A File that a call has to itself is in no other's way. *)
LEMMA OwnFile ==
  ASSUME Inv, NEW c \in Clients, NEW f, careful,
         NEW d \in Clients \ {c}
  PROVE  Follows(calls[d], [files EXCEPT ![c] = f])
<1>1. CallFits(d, calls[d], nextFd) /\ Follows(calls[d], files)
  BY InvOf
<1>2. c \notin FirstFd .. nextFd - 1
  BY InvOf, Basics, DescriptorAssumption DEF Fds
<1>3. calls[d].at # "idle" => calls[d].handle # c /\ calls[d].handle \in Handles
  BY <1>1, <1>2, InvOf DEF CallFits
<1>4. files \in [Handles -> FileObjects]
  BY InvOf
<1> QED
  BY <1>1, <1>3, <1>4 DEF Follows
----------------------------------------------------------------------------
(* Steps that are about a call only. *)

LEMMA BeginKeeps ==
  ASSUME Inv, NEW c \in Clients, NEW op \in FileCalls, NEW flag \in FlagStrs,
         NEW bytes \in Seq(Bytes), NEW len \in Nat, Begin(c, op, flag, bytes, len)
  PROVE  Inv'
<1> DEFINE call == [Idle EXCEPT !.op = op, !.at = "stat", !.flag = flag, !.bytes = bytes,
                                !.len = len, !.handle = c, !.steady = (store # Missing)]
<1>1. call \in CallObjects /\ CallFits(c, call, nextFd)
  BY Basics, SMTT(30), ZenonT(30) DEF Idle, CallObjects, CallFits, FileCalls
<1>2. call.at = "stat" /\ (call.steady => store # Missing)
  BY DEF Idle
<1>3. Is(c, call) /\ UNCHANGED <<synch, store, files, fdMap, nextFd, careful>>
  BY DEF Begin
<1> HIDE DEF call
<1> QED
  BY <1>1, <1>2, <1>3, CallKeeps

(* An open goes on to where it creates, opens or has its File. *)
LEMMA OpenGoes ==
  ASSUME Inv, NEW c \in Clients, calls[c].at \in Opening,
         NEW to \in Opening, NEW steady \in BOOLEAN, steady => calls[c].steady
  PROVE  LET call == [calls[c] EXCEPT !.at = to, !.steady = steady]
         IN /\ call \in CallObjects /\ \A n \in Int : n >= nextFd => CallFits(c, call, n)
            /\ call.at = to /\ (call.steady => store # Missing)
            /\ \A fs : Follows(call, fs)
<1>1. calls[c] \in CallObjects /\ CallFits(c, calls[c], nextFd) /\ (calls[c].steady => store # Missing)
  BY InvOf
<1>2. nextFd \in Int
  BY InvOf, Basics
<1> DEFINE call == [calls[c] EXCEPT !.at = to, !.steady = steady]
<1>3. /\ call \in CallObjects /\ call.at = to /\ call.steady = steady
      /\ call.handle = calls[c].handle /\ call.op = calls[c].op
  BY <1>1 DEF CallObjects, Opening
<1> HIDE DEF call
<1>4. \A n \in Int : n >= nextFd => CallFits(c, call, n)
  BY <1>1, <1>2, <1>3 DEF CallFits, Opening
<1>5. \A fs : Follows(call, fs)
  BY <1>3 DEF Follows, Opening
<1> QED
  BY <1>1, <1>3, <1>4, <1>5 DEF call

LEMMA GoesIs ==
  ASSUME Inv, NEW c \in Clients, NEW to, Goes(c, to)
  PROVE  Is(c, [calls[c] EXCEPT !.at = to, !.steady = calls[c].steady])
<1>1. calls[c] \in CallObjects
  BY InvOf
<1>2. [calls[c] EXCEPT !.at = to] = [calls[c] EXCEPT !.at = to, !.steady = calls[c].steady]
  BY <1>1 DEF CallObjects
<1> QED
  BY <1>2 DEF Goes

LEMMA StatFindsKeeps ==
  ASSUME Inv, NEW c \in Clients, StatFinds(c)
  PROVE  Inv'
<1>1. CASE Answers(c)
  BY <1>1, IdleFits, CallKeeps DEF StatFinds, Answers
<1>2. CASE Goes(c, "openFile")
  <2> DEFINE call == [calls[c] EXCEPT !.at = "openFile", !.steady = calls[c].steady]
  <2>1. calls[c].at = "stat" /\ calls[c].steady \in BOOLEAN
    BY InvOf DEF StatFinds, At, CallObjects
  <2>2. /\ call \in CallObjects /\ (\A n \in Int : n >= nextFd => CallFits(c, call, n))
        /\ call.at = "openFile" /\ (call.steady => store # Missing)
    BY <2>1, OpenGoes DEF Opening
  <2>3. Is(c, call)
    BY <1>2, GoesIs
  <2> HIDE DEF call
  <2>4. CallFits(c, call, nextFd)
    BY <2>2, InvOf, Basics
  <2> QED
    BY <2>2, <2>3, <2>4, CallKeeps DEF StatFinds
<1> QED
  BY <1>1, <1>2 DEF StatFinds

LEMMA StatFailsKeeps ==
  ASSUME Inv, NEW c \in Clients, StatFails(c)
  PROVE  Inv'
<1>1. CASE Answers(c)
  BY <1>1, IdleFits, CallKeeps DEF StatFails, Answers
<1>2. CASE Is(c, [calls[c] EXCEPT !.at = "createFile", !.steady = FALSE])
  <2> DEFINE call == [calls[c] EXCEPT !.at = "createFile", !.steady = FALSE]
  <2>1. calls[c].at = "stat"
    BY DEF StatFails, At
  <2>2. /\ call \in CallObjects /\ (\A n \in Int : n >= nextFd => CallFits(c, call, n))
        /\ call.at = "createFile" /\ (call.steady => store # Missing)
    BY <2>1, OpenGoes DEF Opening
  <2>3. Is(c, call)
    BY <1>2
  <2> HIDE DEF call
  <2>4. CallFits(c, call, nextFd)
    BY <2>2, InvOf, Basics
  <2> QED
    BY <2>2, <2>3, <2>4, CallKeeps DEF StatFails
<1> QED
  BY <1>1, <1>2 DEF StatFails

LEMMA AnswersKeeps ==
  ASSUME Inv, NEW c \in Clients, Answers(c),
         UNCHANGED <<synch, store, files, fdMap, nextFd, careful>>
  PROVE  Inv'
BY IdleFits, CallKeeps DEF Answers

(* A sync of a File that the call has, or that has a descriptor. *)
LEMMA SyncFits ==
  ASSUME Inv, NEW c \in Clients, NEW h \in {c} \union fdMap,
         NEW next \in {"opened", "closed", "answer"}, next # "opened"
  PROVE  LET call == SyncCall(h, next)
         IN /\ call \in CallObjects /\ (\A n \in Int : n >= nextFd => CallFits(c, call, n))
            /\ call.at = "put" /\ call.buffer = Null /\ call.steady = FALSE
            /\ \A fs : Follows(call, fs)
<1> DEFINE call == SyncCall(h, next)
<1>1. h \in Handles /\ h \in {c} \union FirstFd .. nextFd - 1
  BY InvOf, Basics
<1>2. /\ call \in CallObjects /\ call.at = "put" /\ call.handle = h /\ call.buffer = Null
      /\ call.next = next /\ call.steady = FALSE
  BY <1>1, SyncCallIs, SMTT(30), ZenonT(30)
<1> HIDE DEF call
<1>3. nextFd \in Int /\ FirstFd \in Int
  BY InvOf, Basics
<1>4. \A n \in Int : n >= nextFd => CallFits(c, call, n)
  BY <1>1, <1>2, <1>3 DEF CallFits, Opening
<1> QED
  BY <1>2, <1>4 DEF Follows, call

LEMMA SyncKeeps ==
  ASSUME Inv, NEW c \in Clients, NEW h \in fdMap, NEW next \in {"closed", "answer"},
         Is(c, SyncCall(h, next)), UNCHANGED <<synch, store, files, fdMap, nextFd, careful>>
  PROVE  Inv'
<1> DEFINE call == SyncCall(h, next)
<1>1. /\ call \in CallObjects /\ (\A n \in Int : n >= nextFd => CallFits(c, call, n))
      /\ call.at = "put" /\ call.buffer = Null /\ call.steady = FALSE
  BY SyncFits
<1>2. Is(c, call)
  OBVIOUS
<1> HIDE DEF call
<1>3. CallFits(c, call, nextFd)
  BY <1>1, InvOf, Basics
<1> QED
  BY <1>1, <1>2, <1>3, CallKeeps
----------------------------------------------------------------------------
(* Syncs.  What Kept leaves of Files that are as they must be.             *)
LEMMA KeptKeeps ==
  ASSUME Inv, NEW c \in Clients, NEW call \in CallObjects, Is(c, call),
         NEW fs \in [Handles -> FileObjects], \A h \in Handles : FileOK(fs[h]),
         NEW fds, files' = Kept(fs, calls', fds),
         UNCHANGED <<synch, store, nextFd, careful>>, fdMap' \subseteq fdMap,
         CallFits(c, call, nextFd), call.steady => store # Missing,
         careful => Follows(call, fs),
         careful => \A d \in Clients \ {c} : Follows(calls[d], fs)
  PROVE  Inv'
<1>1. /\ calls' = [calls EXCEPT ![c] = call] /\ calls \in [Clients -> CallObjects]
      /\ nextFd \in FirstFd .. FirstFd + MaxOpens
  BY DEF Is, Inv, TypeOK
<1>2. calls'[c] = call /\ \A d \in Clients \ {c} : calls'[d] = calls[d]
  BY <1>1
<1>3. /\ files' \in [Handles -> FileObjects]
      /\ \A h \in Handles : files'[h] \in {fs[h], NoFile}
      /\ \A d \in Clients : calls'[d].at \in {"put", "synced"} /\ calls'[d].handle \in Handles
                              => files'[calls'[d].handle] = fs[calls'[d].handle]
  BY KeptIs
<1>4. \A h \in Handles : FileOK(files'[h])
  BY <1>3, Basics DEF FileOK
<1>5. \A d \in Clients : calls'[d].at \in {"put", "synced"} => calls'[d].handle \in Handles
  <2>1. call.at # "idle" => call.handle \in Handles
    <3>1. FirstFd .. nextFd - 1 \subseteq Handles
      BY <1>1, Basics, DescriptorAssumption DEF Fds
    <3> QED
      BY <3>1, Basics DEF CallFits
  <2> QED
    BY <1>2, <2>1, InvOf
<1>6. careful => Follows(call, files') /\ \A d \in Clients \ {c} : Follows(calls[d], files')
  BY <1>2, <1>3, <1>5 DEF Follows
<1>7. StoreOK(store') /\ nextFd' \in nextFd .. FirstFd + MaxOpens
      /\ fdMap' \subseteq FirstFd .. nextFd' - 1 /\ CallFits(c, call, nextFd')
      /\ (store # Missing => store' # Missing) /\ (call.steady => store' # Missing)
  BY InvOf
<1> QED
  BY <1>3, <1>4, <1>6, <1>7, StepKeeps

LEMMA PutKeeps ==
  ASSUME Inv, NEW c \in Clients, Put(c)
  PROVE  Inv'
<1> DEFINE h == calls[c].handle
           f == files[h]
           node == [data |-> IF calls[c].buffer = Null THEN f.buffer ELSE calls[c].buffer,
                    size |-> f.size]
           g == [f EXCEPT !.unsaved = f.unsaved /\ node # NodeOf(f)]
           call == [calls[c] EXCEPT !.at = "synced"]
<1>1. /\ calls[c].at = "put" /\ store # Missing /\ store' = node
      /\ files' = [files EXCEPT ![h] = g]
      /\ Is(c, call) /\ UNCHANGED <<synch, fdMap, nextFd, careful>>
  BY DEF Put, At, Goes
<1>2. /\ files \in [Handles -> FileObjects] /\ h \in Handles /\ FileOK(f)
      /\ \A x \in Handles : FileOK(files[x])
      /\ calls[c] \in CallObjects /\ CallFits(c, calls[c], nextFd)
      /\ (careful => Follows(calls[c], files)) /\ nextFd \in nextFd .. FirstFd + MaxOpens
      /\ fdMap \subseteq FirstFd .. nextFd - 1
  BY <1>1, InvOf
<1>3. node \in Nodes
  BY <1>2 DEF FileOK, FileObjects, CallObjects, Nodes
<1>4. careful => node = NodeOf(f)
  BY <1>1, <1>2 DEF Follows, NodeOf
<1>5. careful => Sized(node)
  BY <1>2, <1>4 DEF FileOK
<1> HIDE DEF node
<1>6. /\ g \in FileObjects /\ NodeOf(g) = NodeOf(f) /\ g.dirty = f.dirty /\ g.buffer = f.buffer
      /\ g.unsaved = (f.unsaved /\ node # NodeOf(f))
  BY <1>2 DEF FileOK, FileObjects, NodeOf
<1>7. /\ call \in CallObjects /\ call.at = "synced" /\ call.handle = h /\ call.op = calls[c].op
      /\ call.next = calls[c].next /\ call.steady = calls[c].steady
  BY <1>2 DEF CallObjects
<1> HIDE DEF g, call, f
<1>8. CallFits(c, call, nextFd)
  BY <1>1, <1>2, <1>7 DEF CallFits, Opening
<1>9. files' \in [Handles -> FileObjects] /\ \A x \in Handles : FileOK(files'[x])
  BY <1>1, <1>2, <1>6 DEF FileOK, f
<1>10. careful => Follows(call, files')
  BY <1>1, <1>2, <1>4, <1>6, <1>7 DEF Follows
<1>11. careful => \A d \in Clients \ {c} : Follows(calls[d], files')
  <2>1. ASSUME careful, NEW d \in Clients
        PROVE  Follows(calls[d], files')
    <3>1. Follows(calls[d], files) /\ (calls[d].at # "idle" => calls[d].handle \in Handles)
      BY <2>1, InvOf
    <3>2. ASSUME NEW x \in Handles
          PROVE  files'[x].buffer = files[x].buffer /\ (files'[x].unsaved => files[x].unsaved)
      BY <1>1, <1>2, <1>6 DEF f
    <3> QED
      BY <3>1, <3>2 DEF Follows
  <2> QED
    BY <2>1
<1>12. StoreOK(store') /\ store' # Missing
  BY <1>1, <1>3, <1>5, Basics DEF StoreOK
<1> QED
  BY <1>1, <1>2, <1>7, <1>8, <1>9, <1>10, <1>11, <1>12, StepKeeps

(* Where a call goes when its sync is over. *)
LEMMA AfterSync ==
  ASSUME Inv, NEW c \in Clients, calls[c].at \in {"put", "synced"},
         IF calls[c].next = "opened" THEN Goes(c, "opened") ELSE Answers(c)
  PROVE  \E call \in CallObjects :
           /\ Is(c, call) /\ CallFits(c, call, nextFd) /\ (call.steady => store # Missing)
           /\ \A fs : Follows(call, fs)
<1>1. CASE calls[c].next = "opened"
  <2> DEFINE call == [calls[c] EXCEPT !.at = "opened"]
  <2>1. /\ calls[c] \in CallObjects /\ CallFits(c, calls[c], nextFd)
        /\ (calls[c].steady => store # Missing)
    BY InvOf
  <2>2. /\ call \in CallObjects /\ call.at = "opened" /\ call.handle = calls[c].handle
        /\ call.op = calls[c].op /\ call.steady = calls[c].steady /\ call.next = calls[c].next
    BY <2>1 DEF CallObjects
  <2>3. Is(c, call)
    BY <1>1 DEF Goes
  <2> HIDE DEF call
  <2>4. CallFits(c, call, nextFd) /\ \A fs : Follows(call, fs)
    BY <1>1, <2>1, <2>2 DEF CallFits, Follows
  <2> QED
    BY <2>1, <2>2, <2>3, <2>4
<1>2. CASE calls[c].next # "opened"
  BY <1>2, IdleFits DEF Answers
<1> QED
  BY <1>1, <1>2

LEMMA SyncedKeeps ==
  ASSUME Inv, NEW c \in Clients, Synced(c)
  PROVE  Inv'
<1> DEFINE h == calls[c].handle
           g == [files[h] EXCEPT !.dirty = FALSE]
           clean == [files EXCEPT ![h] = g]
<1>1. /\ calls[c].at = "synced" /\ files' = Kept(clean, calls', fdMap')
      /\ IF calls[c].next = "opened" THEN Goes(c, "opened") ELSE Answers(c)
      /\ UNCHANGED <<synch, store, nextFd, careful>> /\ fdMap' \subseteq fdMap
  BY DEF Synced, At
<1>2. PICK call \in CallObjects :
        /\ Is(c, call) /\ CallFits(c, call, nextFd) /\ (call.steady => store # Missing)
        /\ \A fs : Follows(call, fs)
  BY <1>1, AfterSync
<1>3. /\ files \in [Handles -> FileObjects] /\ h \in Handles
      /\ \A x \in Handles : FileOK(files[x])
      /\ careful => Follows(calls[c], files)
  BY <1>1, InvOf
<1>4. /\ g \in FileObjects /\ NodeOf(g) = NodeOf(files[h]) /\ g.buffer = files[h].buffer
      /\ g.unsaved = files[h].unsaved
  BY <1>3 DEF FileObjects, NodeOf
<1>5. careful => ~ g.unsaved
  BY <1>1, <1>3, <1>4 DEF Follows
<1> HIDE DEF g
<1>6. clean \in [Handles -> FileObjects] /\ \A x \in Handles : FileOK(clean[x])
  BY <1>3, <1>4, <1>5 DEF FileOK
<1>7. ASSUME careful, NEW d \in Clients
      PROVE  Follows(calls[d], clean)
  <2>1. Follows(calls[d], files) /\ (calls[d].at # "idle" => calls[d].handle \in Handles)
    BY <1>7, InvOf
  <2>2. \A x \in Handles : clean[x].buffer = files[x].buffer /\ clean[x].unsaved = files[x].unsaved
    BY <1>3, <1>4
  <2> QED
    BY <2>1, <2>2 DEF Follows
<1> HIDE DEF clean
<1> QED
  BY <1>1, <1>2, <1>6, <1>7, KeptKeeps

LEMMA SyncFailsKeeps ==
  ASSUME Inv, NEW c \in Clients, SyncFails(c)
  PROVE  Inv'
<1>1. /\ calls[c].at = "put" /\ files' = Kept(files, calls', fdMap)
      /\ IF calls[c].next = "opened" THEN Goes(c, "opened") ELSE Answers(c)
      /\ UNCHANGED <<synch, store, fdMap, nextFd, careful>>
  BY DEF SyncFails, At
<1>2. PICK call \in CallObjects :
        /\ Is(c, call) /\ CallFits(c, call, nextFd) /\ (call.steady => store # Missing)
        /\ \A fs : Follows(call, fs)
  BY <1>1, AfterSync
<1>3. /\ files \in [Handles -> FileObjects] /\ \A h \in Handles : FileOK(files[h])
      /\ careful => \A d \in Clients : Follows(calls[d], files)
  BY InvOf
<1> QED
  BY <1>1, <1>2, <1>3, KeptKeeps
----------------------------------------------------------------------------
(* Opens.  The File of the call is a new one.                              *)
LEMMA HasKeeps ==
  ASSUME Inv, NEW c \in Clients, NEW f, FileOK(f), Has(c, f),
         NEW call \in CallObjects, Is(c, call), CallFits(c, call, nextFd), call.steady => store' # Missing,
         \A fs : Follows(call, fs),
         StoreOK(store'), store # Missing => store' # Missing,
         UNCHANGED <<synch, fdMap, nextFd, careful>>
  PROVE  Inv'
<1>1. /\ files \in [Handles -> FileObjects] /\ \A h \in Handles : FileOK(files[h])
      /\ nextFd \in nextFd .. FirstFd + MaxOpens /\ fdMap \subseteq FirstFd .. nextFd - 1
      /\ c \in Handles
  BY InvOf, Basics
<1>2. files' = [files EXCEPT ![c] = f]
  BY DEF Has
<1>3. files' \in [Handles -> FileObjects] /\ \A h \in Handles : FileOK(files'[h])
  BY <1>1, <1>2 DEF FileOK
<1>4. careful => \A d \in Clients \ {c} : Follows(calls[d], files')
  BY <1>2, OwnFile
<1> QED
  BY <1>1, <1>3, <1>4, StepKeeps

LEMMA NewFileOK ==
  ASSUME NEW flag \in FlagStrs, NEW node \in Nodes, careful => Sized(node)
  PROVE  FileOK(NewFile("file", flag, node))
BY NewFileIs DEF FileOK

(* The call that has its File. *)
LEMMA OpenedFits ==
  ASSUME Inv, NEW c \in Clients, calls[c].at \in Opening, Goes(c, "opened")
  PROVE  \E call \in CallObjects :
           /\ Is(c, call) /\ CallFits(c, call, nextFd) /\ (call.steady => store # Missing)
           /\ \A fs : Follows(call, fs)
<1>0. calls[c] \in CallObjects /\ nextFd \in Int
  BY InvOf, Basics
<1>1. calls[c].steady \in BOOLEAN
  BY <1>0 DEF CallObjects
<1> DEFINE call == [calls[c] EXCEPT !.at = "opened", !.steady = calls[c].steady]
<1>2. /\ call \in CallObjects /\ (\A n \in Int : n >= nextFd => CallFits(c, call, n))
      /\ (call.steady => store # Missing) /\ \A fs : Follows(call, fs)
  BY <1>1, OpenGoes DEF Opening
<1>3. Is(c, call)
  BY GoesIs
<1>4. CallFits(c, call, nextFd)
  BY <1>0, <1>2
<1> HIDE DEF call
<1> QED
  BY <1>2, <1>3, <1>4

LEMMA CreateFileKeeps ==
  ASSUME Inv, NEW c \in Clients, CreateFile(c)
  PROVE  Inv'
<1>1. calls[c].at = "createFile" /\ calls[c].flag \in FlagStrs
  BY InvOf DEF CreateFile, At, CallObjects
<1>2. CASE store # Missing
  BY <1>2, AnswersKeeps DEF CreateFile
<1>3. CASE store = Missing
  <2> DEFINE f == NewFile("file", calls[c].flag, EmptyNode)
  <2>1. /\ store' = EmptyNode /\ Has(c, f) /\ Goes(c, "opened")
        /\ UNCHANGED <<synch, fdMap, nextFd, careful>>
    BY <1>3 DEF CreateFile
  <2>2. PICK call \in CallObjects :
          /\ Is(c, call) /\ CallFits(c, call, nextFd) /\ (call.steady => store # Missing)
          /\ \A fs : Follows(call, fs)
    BY <1>1, <2>1, OpenedFits DEF Opening
  <2>3. FileOK(f)
    BY <1>1, Basics, NewFileOK
  <2>4. StoreOK(store') /\ store' # Missing
    BY <2>1, Basics DEF StoreOK
  <2> HIDE DEF f
  <2> QED
    BY <2>1, <2>2, <2>3, <2>4, HasKeeps
<1> QED
  BY <1>2, <1>3

LEMMA OpenFileKeeps ==
  ASSUME Inv, NEW c \in Clients, OpenFile(c)
  PROVE  Inv'
<1>1. /\ calls[c].at = "openFile" /\ calls[c].flag \in FlagStrs /\ calls[c].bytes \in Seq(Bytes)
      /\ StoreOK(store) /\ UNCHANGED <<synch, fdMap, nextFd, careful>>
      /\ CallFits(c, calls[c], nextFd) /\ calls[c].op \in FileCalls
  BY InvOf DEF OpenFile, At, CallObjects, CallFits, Opening
<1>2. CASE store = Missing
  BY <1>1, <1>2, AnswersKeeps DEF OpenFile
<1>3. CASE store # Missing
  <2> DEFINE f == NewFile("file", calls[c].flag, store)
  <2>1. store \in Nodes /\ (careful => Sized(store))
    BY <1>1, <1>3 DEF StoreOK
  <2>2. FileOK(f) /\ f \in FileObjects
    BY <1>1, <2>1, NewFileOK, NewFileIs
  <2> HIDE DEF f
  <2>3. CASE calls[c].flag \notin Truncating /\ Has(c, f) /\ Goes(c, "opened") /\ UNCHANGED store
    <3>1. PICK call \in CallObjects :
            /\ Is(c, call) /\ CallFits(c, call, nextFd) /\ (call.steady => store # Missing)
            /\ \A fs : Follows(call, fs)
      BY <1>1, <2>3, OpenedFits DEF Opening
    <3>2. StoreOK(store') /\ store' # Missing
      BY <1>1, <1>3, <2>3
    <3> QED
      BY <1>1, <2>2, <2>3, <3>1, <3>2, HasKeeps
  <2>4. CASE /\ Has(c, [TruncateSync(f, 0) EXCEPT !.unsaved = (store # EmptyNode)])
             /\ Is(c, [SyncCall(c, "opened") EXCEPT !.op = calls[c].op, !.bytes = calls[c].bytes])
             /\ UNCHANGED store
    <3> DEFINE t == TruncateSync(f, 0)
               g == [t EXCEPT !.unsaved = (store # EmptyNode)]
               sync == SyncCall(c, "opened")
               call == [sync EXCEPT !.op = calls[c].op, !.bytes = calls[c].bytes]
    <3>1. Leaves(f, t) /\ t.dirty
      BY <2>2, TruncateLeaves
    <3>2. FileOK(t)
      BY <2>2, <3>1 DEF Leaves, FileOK
    <3> HIDE DEF t
    <3>3. FileOK(g)
      <4>1. t \in FileObjects
        BY <3>2 DEF FileOK
      <4>2. g \in FileObjects /\ g.dirty = t.dirty /\ NodeOf(g) = NodeOf(t)
        BY <4>1 DEF FileObjects, NodeOf
      <4> QED
        BY <3>1, <3>2, <4>2 DEF FileOK
    <3>4. /\ sync \in CallObjects /\ sync.at = "put" /\ sync.handle = c /\ sync.buffer = Null
          /\ sync.next = "opened" /\ sync.steady = FALSE
      BY SyncCallIs, Basics
    <3> HIDE DEF sync
    <3>5. /\ call \in CallObjects /\ call.at = "put" /\ call.handle = c /\ call.buffer = Null
          /\ call.next = "opened" /\ call.steady = FALSE /\ call.op = calls[c].op
      BY <1>1, <3>4 DEF CallObjects
    <3>6. Is(c, call) /\ Has(c, g)
      BY <2>4 DEF t, sync
    <3> HIDE DEF g, call
    <3>7. CallFits(c, call, nextFd) /\ \A fs : Follows(call, fs)
      BY <1>1, <3>5 DEF CallFits, Follows
    <3>8. StoreOK(store') /\ store' # Missing
      BY <1>1, <1>3, <2>4
    <3> QED
      BY <1>1, <3>3, <3>5, <3>6, <3>7, <3>8, HasKeeps
  <2>5. CASE /\ store' = EmptyNode
             /\ Has(c, NewFile("file", calls[c].flag, EmptyNode))
             /\ Goes(c, "opened")
    <3>1. PICK call \in CallObjects :
            /\ Is(c, call) /\ CallFits(c, call, nextFd) /\ (call.steady => store # Missing)
            /\ \A fs : Follows(call, fs)
      BY <1>1, <2>5, OpenedFits DEF Opening
    <3>2. StoreOK(store') /\ store' # Missing
      BY <2>5, Basics DEF StoreOK
    <3>3. FileOK(NewFile("file", calls[c].flag, EmptyNode))
      BY <1>1, Basics, NewFileOK
    <3> QED
      BY <1>1, <2>5, <3>1, <3>2, <3>3, HasKeeps
  <2> QED
    BY <1>3, <2>3, <2>4, <2>5 DEF OpenFile, f
<1> QED
  BY <1>2, <1>3

LEMMA GetFdForFileKeeps ==
  ASSUME Inv, NEW c \in Clients, GetFdForFile(c)
  PROVE  Inv'
<1>1. /\ nextFd \in Fds /\ fdMap' = fdMap \union {nextFd} /\ nextFd' = nextFd + 1
      /\ files' = [files EXCEPT ![nextFd] = files[c], ![c] = NoFile]
      /\ Is(c, Idle) /\ UNCHANGED <<synch, store, careful>>
  BY DEF GetFdForFile, Answers
<1>2. /\ files \in [Handles -> FileObjects] /\ \A h \in Handles : FileOK(files[h])
      /\ StoreOK(store) /\ fdMap \subseteq FirstFd .. nextFd - 1
      /\ nextFd \in FirstFd .. FirstFd + MaxOpens /\ FirstFd \in Int /\ MaxOpens \in Nat
      /\ c \in Handles /\ nextFd \in Handles
  BY <1>1, InvOf, Basics, DescriptorAssumption
<1>3. files' \in [Handles -> FileObjects] /\ \A h \in Handles : FileOK(files'[h])
  BY <1>1, <1>2, Basics DEF FileOK
<1>4. nextFd' \in nextFd .. FirstFd + MaxOpens /\ fdMap' \subseteq FirstFd .. nextFd' - 1
  BY <1>1, <1>2 DEF Fds
<1>5. ASSUME careful, NEW d \in Clients \ {c}
      PROVE  Follows(calls[d], files')
  <2>1. /\ CallFits(d, calls[d], nextFd) /\ Follows(calls[d], files)
        /\ calls[d].at # "idle" => calls[d].handle \in Handles
    BY <1>5, InvOf
  <2>2. d # nextFd /\ c \notin FirstFd .. nextFd - 1
    BY <1>1, <1>2, Basics DEF Fds
  <2>3. calls[d].at # "idle" => calls[d].handle # c /\ calls[d].handle # nextFd
    BY <1>2, <2>1, <2>2 DEF CallFits
  <2> QED
    BY <1>1, <1>2, <2>1, <2>3 DEF Follows
<1> QED
  BY <1>1, <1>2, <1>3, <1>4, <1>5, IdleFits, StepKeeps
----------------------------------------------------------------------------
(* Uses of Files.  A File method that changes the File leaves it dirty.    *)
LEMMA UsedLeaves ==
  ASSUME NEW f \in FileObjects, NEW call \in CallObjects, call.op \in FileCalls \ {"open"}
  PROVE  Leaves(f, Used(call, f))
<1>1. /\ f.size \in Nat /\ 0 \in Nat /\ GetPos(f) \in Nat
      /\ call.bytes \in Seq(Bytes) /\ call.len \in Nat
  BY PosIs DEF FileObjects, CallObjects
<1>2. CASE call.op = "readFile"
  BY <1>1, <1>2, ReadLeaves DEF Used
<1>3. CASE call.op = "writeFile"
  BY <1>1, <1>3, WriteLeaves DEF Used
<1>4. CASE call.op = "appendFile"
  BY <1>1, <1>4, WriteLeaves DEF Used
<1>5. CASE call.op = "truncate"
  BY <1>1, <1>5, TruncateLeaves DEF Used
<1> QED
  BY <1>2, <1>3, <1>4, <1>5 DEF FileCalls

LEMMA ChangedOK ==
  ASSUME NEW f, FileOK(f), NEW g, Leaves(f, g)
  PROVE  LET changed == NodeOf(g) # NodeOf(f)
             h == [g EXCEPT !.unsaved = changed \/ g.unsaved]
         IN /\ FileOK(h) /\ NodeOf(h) = NodeOf(g) /\ h.dirty = g.dirty
            /\ h.unsaved = (changed \/ f.unsaved)
<1> DEFINE changed == NodeOf(g) # NodeOf(f)
           h == [g EXCEPT !.unsaved = changed \/ g.unsaved]
<1>1. g \in FileObjects /\ g.unsaved = f.unsaved
  BY DEF Leaves
<1>2. h \in FileObjects /\ NodeOf(h) = NodeOf(g) /\ h.dirty = g.dirty /\ h.unsaved = (changed \/ f.unsaved)
  BY <1>1 DEF FileObjects, NodeOf
<1> HIDE DEF h
<1> QED
  BY <1>2 DEF FileOK, Leaves, h

LEMMA UseFileKeeps ==
  ASSUME Inv, NEW c \in Clients, UseFile(c)
  PROVE  Inv'
<1> DEFINE f == Used(calls[c], files[c])
           changed == NodeOf(f) # NodeOf(files[c])
           g == [f EXCEPT !.unsaved = changed \/ f.unsaved]
           fs == [files EXCEPT ![c] = g]
<1>1. /\ calls[c].at = "opened" /\ calls[c].op # "open"
      /\ IF f.dirty THEN Is(c, SyncCall(c, "closed")) ELSE Answers(c)
      /\ files' = Kept(fs, calls', fdMap)
      /\ UNCHANGED <<synch, store, fdMap, nextFd, careful>>
  BY DEF UseFile, At
<1>2. /\ calls[c] \in CallObjects /\ CallFits(c, calls[c], nextFd)
      /\ files \in [Handles -> FileObjects] /\ \A h \in Handles : FileOK(files[h])
      /\ c \in Handles
  BY InvOf, Basics
<1>3. calls[c].op \in FileCalls \ {"open"}
  BY <1>1, <1>2 DEF CallFits, Opening
<1>4. Leaves(files[c], f)
  BY <1>2, <1>3, UsedLeaves
<1> HIDE DEF f
<1>5. FileOK(g)
  BY <1>2, <1>4, ChangedOK
<1> HIDE DEF g
<1>6. fs \in [Handles -> FileObjects] /\ \A h \in Handles : FileOK(fs[h])
  BY <1>2, <1>5 DEF FileOK
<1>7. careful => \A d \in Clients \ {c} : Follows(calls[d], fs)
  BY OwnFile
<1> HIDE DEF fs
<1>8. CASE f.dirty
  <2>1. /\ SyncCall(c, "closed") \in CallObjects
        /\ \A n \in Int : n >= nextFd => CallFits(c, SyncCall(c, "closed"), n)
        /\ SyncCall(c, "closed").steady = FALSE
        /\ \A x : Follows(SyncCall(c, "closed"), x)
    BY SyncFits
  <2>2. CallFits(c, SyncCall(c, "closed"), nextFd)
    BY <2>1, InvOf, Basics
  <2> QED
    BY <1>1, <1>6, <1>7, <1>8, <2>1, <2>2, KeptKeeps
<1>9. CASE ~ f.dirty
  BY <1>1, <1>6, <1>7, <1>9, IdleFits, KeptKeeps DEF Answers
<1> QED
  BY <1>8, <1>9

LEMMA CloseKeeps ==
  ASSUME Inv, NEW c \in Clients, NEW fd \in fdMap, Close(c, fd)
  PROVE  Inv'
<1>1. CASE files[fd].dirty
  BY <1>1, SyncKeeps DEF Close
<1>2. CASE ~ files[fd].dirty
  <2>1. /\ files \in [Handles -> FileObjects] /\ \A h \in Handles : FileOK(files[h])
        /\ careful => \A d \in Clients : Follows(calls[d], files)
    BY InvOf
  <2>2. /\ Is(c, Idle) /\ fdMap' \subseteq fdMap /\ files' = Kept(files, calls', fdMap')
        /\ UNCHANGED <<synch, store, nextFd, careful>>
    BY <1>2 DEF Close, Answers
  <2> QED
    BY <2>1, <2>2, IdleFits, KeptKeeps
<1> QED
  BY <1>1, <1>2

LEMMA FsyncKeeps ==
  ASSUME Inv, NEW c \in Clients, NEW fd \in fdMap, Fsync(c, fd)
  PROVE  Inv'
<1>1. CASE files[fd].dirty
  BY <1>1, SyncKeeps DEF Fsync
<1>2. CASE ~ files[fd].dirty
  BY <1>2, AnswersKeeps DEF Fsync
<1> QED
  BY <1>1, <1>2

(* The calls after it: one that writes through syncs it. *)
ThenSyncs(c, fd, keeps, can) ==
  calls' = [SetAside(calls, fd, keeps) EXCEPT ![c] = WriteThrough(files[fd], fd, can)]

(* A change of a File that has a descriptor.  A sync of it that is under   *)
(* way, and that was overtaken, is not careful any more.                   *)
LEMMA ChangeKeeps ==
  ASSUME Inv, NEW c \in Clients, NEW fd \in fdMap, NEW f, Leaves(files[fd], f),
         NEW keeps, Changes(fd, f, keeps),
         NEW can, ThenSyncs(c, fd, keeps, can),
         UNCHANGED <<synch, store, fdMap, nextFd>>
  PROVE  Inv'
<1> DEFINE changed == NodeOf(f) # NodeOf(files[fd])
           g == [f EXCEPT !.unsaved = changed \/ f.unsaved]
           call == WriteThrough(files[fd], fd, can)
           aside == SetAside(calls, fd, keeps)
<1>1. /\ files' = [files EXCEPT ![fd] = g]
      /\ careful' = (careful /\ ~ (changed /\ Overtakes(fd, keeps)))
  BY DEF Changes
<1>2. /\ files \in [Handles -> FileObjects] /\ \A h \in Handles : FileOK(files[h])
      /\ fd \in Handles /\ StoreOK(store) /\ calls \in [Clients -> CallObjects] /\ nextFd \in Int
  BY InvOf, Basics DEF Inv, TypeOK
<1>3. /\ FileOK(g) /\ NodeOf(g) = NodeOf(f) /\ g.dirty = f.dirty
      /\ g.unsaved = (changed \/ files[fd].unsaved)
  <2>1. FileOK(files[fd])
    BY <1>2
  <2> QED
    BY <2>1, ChangedOK
<1> HIDE DEF g
<1>3a. files'[fd] = g /\ \A h \in Handles \ {fd} : files'[h] = files[h]
  <2>1. fd \in DOMAIN files /\ Handles = DOMAIN files
    BY <1>2
  <2> QED
    BY <1>1, <2>1
<1>4. /\ call \in CallObjects /\ CallFits(c, call, nextFd) /\ call.steady = FALSE
      /\ \A fs : Follows(call, fs)
  <2>1. CASE call = Idle
    BY <2>1, IdleFits
  <2>2. CASE call = SyncCall(fd, "answer")
    <3>1. /\ SyncCall(fd, "answer") \in CallObjects
          /\ \A n \in Int : n >= nextFd => CallFits(c, SyncCall(fd, "answer"), n)
          /\ SyncCall(fd, "answer").steady = FALSE
          /\ \A fs : Follows(SyncCall(fd, "answer"), fs)
      BY SyncFits
    <3> QED
      BY <1>2, <2>2, <3>1
  <2> QED
    BY <2>1, <2>2 DEF WriteThrough
<1> HIDE DEF call
<1>5. \A d \in Clients :
        /\ aside[d] \in CallObjects
        /\ aside[d].at = calls[d].at /\ aside[d].handle = calls[d].handle /\ aside[d].op = calls[d].op
        /\ aside[d].next = calls[d].next /\ aside[d].steady = calls[d].steady
        /\ \/ aside[d].buffer = calls[d].buffer
           \/ /\ ~ keeps /\ d \in SyncedBy(calls, fd) /\ aside[d].buffer = files[fd].buffer
  <2>0. files[fd] \in FileObjects
    BY <1>2
  <2>1. files[fd].buffer \in Seq(Bytes)
    BY <2>0 DEF FileObjects
  <2>2. ASSUME NEW d \in Clients PROVE calls[d] \in CallObjects
    BY <1>2
  <2>3. ASSUME NEW d \in Clients
        PROVE  \/ aside[d] = calls[d]
               \/ /\ ~ keeps /\ d \in SyncedBy(calls, fd)
                  /\ aside[d] = [calls[d] EXCEPT !.buffer = files[fd].buffer]
    BY DEF SetAside
  <2>4. ASSUME NEW k \in CallObjects, NEW data \in Seq(Bytes)
        PROVE  /\ [k EXCEPT !.buffer = data] \in CallObjects
               /\ LET e == [k EXCEPT !.buffer = data]
                  IN  /\ e.at = k.at /\ e.handle = k.handle /\ e.op = k.op
                      /\ e.next = k.next /\ e.steady = k.steady /\ e.buffer = data
    BY DEF CallObjects
  <2>5. ASSUME NEW d \in Clients
        PROVE  /\ aside[d] \in CallObjects
               /\ aside[d].at = calls[d].at /\ aside[d].handle = calls[d].handle
               /\ aside[d].op = calls[d].op
               /\ aside[d].next = calls[d].next /\ aside[d].steady = calls[d].steady
               /\ \/ aside[d].buffer = calls[d].buffer
                  \/ /\ ~ keeps /\ d \in SyncedBy(calls, fd)
                     /\ aside[d].buffer = files[fd].buffer
    <3> PICK k \in CallObjects : k = calls[d]
      BY <2>2
    <3> PICK data \in Seq(Bytes) : data = files[fd].buffer
      BY <2>1
    <3>1. \/ aside[d] = k
          \/ /\ ~ keeps /\ d \in SyncedBy(calls, fd)
             /\ aside[d] = [k EXCEPT !.buffer = data]
      BY <2>3
    <3> HIDE DEF aside
    <3>2. CASE aside[d] = k
      BY <3>2
    <3>3. CASE /\ ~ keeps /\ d \in SyncedBy(calls, fd)
               /\ aside[d] = [k EXCEPT !.buffer = data]
      BY <2>4, <3>3
    <3> QED
      BY <3>1, <3>2, <3>3
  <2> HIDE DEF aside
  <2> QED
    BY <2>5
<1>6. /\ calls' = [aside EXCEPT ![c] = call] /\ DOMAIN aside = Clients
  BY DEF ThenSyncs, SetAside, call
<1> HIDE DEF aside
<1>7. calls'[c] = call /\ \A d \in Clients \ {c} : calls'[d] = aside[d]
  BY <1>6
<1>8. TypeOK'
  <2>1. calls' \in [Clients -> CallObjects]
    BY <1>4, <1>5, <1>6
  <2>2. files' \in [Handles -> FileObjects]
    BY <1>1, <1>2, <1>3 DEF FileOK
  <2>3. careful' \in BOOLEAN
    BY <1>1 DEF Inv, TypeOK
  <2> QED
    BY <2>1, <2>2, <2>3 DEF Inv, TypeOK
<1>9. CallInv'
  BY <1>4, <1>5, <1>7 DEF Inv, CallInv, CallFits
<1>10. CleanMeansStored' /\ SizesAgree'
  BY <1>1, <1>2, <1>3 DEF CleanMeansStored, SizesAgree, FileOK, StoreOK
<1>11. SyncInv'
  <2>1. ASSUME careful', NEW d \in Clients \ {c}
        PROVE  Follows(aside[d], files')
    <3>1. careful /\ (changed => ~ Overtakes(fd, keeps))
      BY <1>1, <2>1
    <3>2. Follows(calls[d], files) /\ (calls[d].at # "idle" => calls[d].handle \in Handles)
      BY <3>1, InvOf
    <3>3. CASE calls[d].handle = fd /\ calls[d].at \in {"put", "synced"}
      <4>1. d \in SyncedBy(calls, fd)
        BY <3>3 DEF SyncedBy
      <4>2. changed => calls[d].at # "synced" /\ calls[d].buffer = Null /\ keeps
        BY <3>1, <4>1 DEF Overtakes
      <4>3. ~ changed => f.buffer = files[fd].buffer
        BY DEF NodeOf
      <4>4. g.buffer = f.buffer
        BY <1>3 DEF NodeOf
      <4> QED
        BY <1>3, <1>3a, <1>5, <3>2, <3>3, <4>2, <4>3, <4>4 DEF Follows
    <3>4. CASE ~ (calls[d].handle = fd /\ calls[d].at \in {"put", "synced"})
      <4>1. calls[d].at \in {"put", "synced"} => files'[calls[d].handle] = files[calls[d].handle]
        BY <1>3a, <3>2, <3>4
      <4>2. aside[d].buffer = calls[d].buffer
        BY <1>5, <3>4 DEF SyncedBy
      <4> QED
        BY <1>5, <3>2, <4>1, <4>2 DEF Follows
    <3> QED
      BY <3>3, <3>4
  <2> QED
    BY <1>4, <1>7, <2>1 DEF SyncInv
<1>12. SteadyInv'
  BY <1>4, <1>5, <1>7 DEF Inv, SteadyInv
<1> QED
  BY <1>8, <1>9, <1>10, <1>11, <1>12 DEF Inv
LEMMA WriteKeeps ==
  ASSUME Inv, NEW c \in Clients, NEW fd \in fdMap, NEW bytes \in Seq(Bytes),
         NEW place, place # Null => place \in Nat, Write(c, fd, bytes, place)
  PROVE  Inv'
<1> DEFINE f == files[fd]
           at == IF place = Null THEN GetPos(f) ELSE place
           keeps == WriteKeepsBuffer(f, bytes, at)
<1>1. f \in FileObjects
  BY InvOf, Basics
<1>2. at \in Nat
  BY <1>1, PosIs
<1>3. /\ Changes(fd, WriteSync(f, bytes, at), keeps)
      /\ ThenSyncs(c, fd, keeps, synch)
      /\ UNCHANGED <<synch, store, fdMap, nextFd>>
  BY DEF Write, ThenSyncs
<1> HIDE DEF at, keeps
<1>4. Leaves(f, WriteSync(f, bytes, at))
  BY <1>1, <1>2, WriteLeaves
<1> HIDE DEF f
<1> QED
  BY <1>3, <1>4, ChangeKeeps DEF f

LEMMA FtruncateKeeps ==
  ASSUME Inv, NEW c \in Clients, NEW fd \in fdMap, NEW len \in Nat, Ftruncate(c, fd, len)
  PROVE  Inv'
<1> DEFINE f == files[fd]
           keeps == TruncateKeepsBuffer(f, len)
           can == synch \/ len <= Len(f.buffer)
<1>1. f \in FileObjects
  BY InvOf, Basics
<1>2. /\ Changes(fd, TruncateSync(f, len), keeps)
      /\ ThenSyncs(c, fd, keeps, can)
      /\ UNCHANGED <<synch, store, fdMap, nextFd>>
  BY DEF Ftruncate, ThenSyncs
<1> HIDE DEF keeps, can
<1>3. Leaves(f, TruncateSync(f, len))
  BY <1>1, TruncateLeaves
<1> HIDE DEF f
<1> QED
  BY <1>2, <1>3, ChangeKeeps DEF f

LEMMA ReadKeeps ==
  ASSUME Inv, NEW c \in Clients, NEW fd \in fdMap, NEW len \in Nat,
         NEW place, place # Null => place \in Nat, Read(c, fd, len, place)
  PROVE  Inv'
<1> DEFINE at == IF place = Null THEN GetPos(files[fd]) ELSE place
           f == ReadSync(files[fd], len, at)
<1>1. /\ files \in [Handles -> FileObjects] /\ fd \in Handles
      /\ nextFd \in nextFd .. FirstFd + MaxOpens /\ fdMap \subseteq FirstFd .. nextFd - 1
      /\ StoreOK(store)
      /\ \A h \in Handles : FileOK(files[h])
  BY InvOf, Basics
<1>2. /\ files' = [files EXCEPT ![fd] = f] /\ Is(c, Idle)
      /\ UNCHANGED <<synch, store, fdMap, nextFd, careful>>
  BY DEF Read, Answers
<1>3. at \in Nat
  BY <1>1, PosIs
<1> HIDE DEF at
<1>4. Leaves(files[fd], f) /\ NodeOf(f) = NodeOf(files[fd]) /\ f.buffer = files[fd].buffer
  <2>1. files[fd] \in FileObjects
    BY <1>1
  <2>2. Leaves(files[fd], f)
    BY <1>3, <2>1, ReadLeaves
  <2>3. f = files[fd] \/ \E pos : f = [files[fd] EXCEPT !.pos = pos]
    BY DEF ReadSync
  <2> QED
    BY <2>1, <2>2, <2>3 DEF NodeOf, FileObjects
<1> HIDE DEF f
<1>5. FileOK(f) /\ f.unsaved = files[fd].unsaved
  BY <1>1, <1>4 DEF FileOK, Leaves
<1>6. files' \in [Handles -> FileObjects] /\ \A h \in Handles : FileOK(files'[h])
  BY <1>1, <1>2, <1>5 DEF FileOK
<1>7. \A h \in Handles : files'[h].buffer = files[h].buffer /\ files'[h].unsaved = files[h].unsaved
  BY <1>1, <1>2, <1>4, <1>5
<1>8. ASSUME careful, NEW d \in Clients
      PROVE  Follows(calls[d], files')
  <2>1. Follows(calls[d], files) /\ (calls[d].at # "idle" => calls[d].handle \in Handles)
    BY <1>8, InvOf
  <2> QED
    BY <1>7, <2>1 DEF Follows
<1> QED
  BY <1>1, <1>2, <1>6, <1>8, IdleFits, StepKeeps

LEMMA UnlinkKeeps ==
  ASSUME Inv, NEW c \in Clients, Unlink(c)
  PROVE  Inv'
<1>1. /\ store' = Missing /\ calls' = [d \in Clients |-> [calls[d] EXCEPT !.steady = FALSE]]
      /\ UNCHANGED <<synch, files, fdMap, nextFd, careful>>
  BY DEF Unlink
<1>2. ASSUME NEW d \in Clients
      PROVE  /\ calls'[d] \in CallObjects /\ calls'[d].at = calls[d].at
             /\ calls'[d].handle = calls[d].handle /\ calls'[d].op = calls[d].op
             /\ calls'[d].next = calls[d].next /\ calls'[d].buffer = calls[d].buffer
             /\ calls'[d].steady = FALSE
  <2>1. calls[d] \in CallObjects
    BY InvOf
  <2>2. calls'[d] = [calls[d] EXCEPT !.steady = FALSE]
    BY <1>1
  <2> QED
    BY <2>1, <2>2 DEF CallObjects
<1>3. TypeOK'
  <2>1. calls' \in [Clients -> CallObjects]
    BY <1>1, <1>2
  <2> QED
    BY <1>1, <2>1 DEF Inv, TypeOK
<1>4. CallInv'
  BY <1>1, <1>2 DEF Inv, CallInv, CallFits
<1>5. CleanMeansStored' /\ SizesAgree'
  BY <1>1 DEF Inv, CleanMeansStored, SizesAgree
<1>6. SyncInv'
  <2>1. ASSUME NEW d \in Clients, careful PROVE Follows(calls[d], files)
    BY <2>1 DEF Inv, SyncInv
  <2>2. ASSUME NEW d \in Clients, careful PROVE Follows(calls'[d], files)
    BY <1>2, <2>1, <2>2 DEF Follows
  <2> QED
    BY <1>1, <2>2 DEF SyncInv
<1>7. SteadyInv'
  BY <1>2 DEF SteadyInv
<1> QED
  BY <1>3, <1>4, <1>5, <1>6, <1>7 DEF Inv

----------------------------------------------------------------------------
LEMMA InitInv == Init => Inv
<1> SUFFICES ASSUME Init PROVE Inv
  OBVIOUS
<1>1. /\ synch \in BOOLEAN /\ store = Missing /\ files = [h \in Handles |-> NoFile]
      /\ careful = TRUE /\ fdMap = {} /\ nextFd = FirstFd /\ calls = [c \in Clients |-> Idle]
  BY DEF Init
<1>2. TypeOK
  <2>1. nextFd \in FirstFd .. FirstFd + MaxOpens
    BY <1>1, Basics, DescriptorAssumption
  <2> QED
    BY <1>1, <2>1, Basics DEF TypeOK
<1>3. CallInv
  BY <1>1, IdleFits DEF CallInv
<1>4. CleanMeansStored /\ SizesAgree
  BY <1>1, Basics DEF CleanMeansStored, SizesAgree
<1>5. SyncInv
  BY <1>1, IdleFits DEF SyncInv
<1>6. SteadyInv
  BY <1>1, IdleFits DEF SteadyInv
<1> QED
  BY <1>2, <1>3, <1>4, <1>5, <1>6 DEF Inv

LEMMA NextInv ==
  ASSUME Inv, [Next]_vars
  PROVE  Inv'
<1>1. CASE UNCHANGED vars
  BY <1>1 DEF vars, Inv, TypeOK, CallInv, CallFits, CleanMeansStored, SizesAgree, SyncInv, Follows, SteadyInv
<1>2. ASSUME NEW c \in Clients, Runs(c)
      PROVE  Inv'
  <2>1. CASE OpenFails(c)
    BY <2>1, AnswersKeeps DEF OpenFails
  <2> QED
    BY <1>2, <2>1, StatFindsKeeps, StatFailsKeeps, CreateFileKeeps, OpenFileKeeps, GetFdForFileKeeps,
       UseFileKeeps, PutKeeps, SyncedKeeps, SyncFailsKeeps DEF Runs
<1>3. ASSUME NEW c \in Clients, Makes(c)
      PROVE  Inv'
  <2>0. /\ Flags \subseteq FlagStrs /\ Chunks \subseteq Seq(Bytes) /\ Lengths \subseteq Nat
        /\ Places \subseteq Nat /\ {"r", "w", "a", "r+"} \subseteq FlagStrs /\ <<>> \in Seq(Bytes)
        /\ 0 \in Nat /\ {"open", "readFile", "writeFile", "appendFile", "truncate"} \subseteq FileCalls
    BY DescriptorAssumption DEF FlagStrs, FileCalls
  <2>1. CASE \E flag \in Flags : Open(c, flag)
    BY <2>0, <2>1, BeginKeeps DEF Open
  <2>2. CASE ReadFile(c)
    BY <2>0, <2>2, BeginKeeps DEF ReadFile
  <2>3. CASE \E bytes \in Chunks : WriteFile(c, bytes) \/ AppendFile(c, bytes)
    BY <2>0, <2>3, BeginKeeps DEF WriteFile, AppendFile
  <2>4. CASE \E len \in Lengths : Truncate(c, len)
    BY <2>0, <2>4, BeginKeeps DEF Truncate
  <2>5. CASE \E fd \in fdMap : Close(c, fd) \/ Fsync(c, fd)
    BY <2>5, CloseKeeps, FsyncKeeps
  <2>6. CASE \E fd \in fdMap, place \in Places \union {Null}, bytes \in Chunks : Write(c, fd, bytes, place)
    BY <2>0, <2>6, WriteKeeps
  <2>7. CASE \E fd \in fdMap, place \in Places \union {Null}, len \in Lengths : Read(c, fd, len, place)
    BY <2>0, <2>7, ReadKeeps
  <2>8. CASE \E fd \in fdMap, len \in Lengths : Ftruncate(c, fd, len)
    BY <2>0, <2>8, FtruncateKeeps
  <2>9. CASE BadFd(c)
    BY <2>9, AnswersKeeps DEF BadFd
  <2>10. CASE Unlink(c)
    BY <2>10, UnlinkKeeps
  <2> QED
    BY <1>3, <2>1, <2>2, <2>3, <2>4, <2>5, <2>6, <2>7, <2>8, <2>9, <2>10 DEF Makes
<1> QED
  BY <1>1, <1>2, <1>3 DEF Next

LEMMA InvAlways == Spec => []Inv
BY InitInv, NextInv, PTL DEF Spec

(* The type invariant.                                                     *)
THEOREM TypeAlways == Spec => []TypeOK
<1>1. Inv => TypeOK
  BY DEF Inv
<1> QED
  BY <1>1, InvAlways, PTL

(* PreloadFile's dirty flag: whatever fails, and in whatever order calls   *)
(* and the syncs of BaseFileSystem come, a File that is not dirty has      *)
(* nothing that was not stored, as long as none changes under its sync.    *)
THEOREM CleanMeansStoredAlways == Spec => []CleanMeansStored
<1>1. Inv => CleanMeansStored
  BY DEF Inv
<1> QED
  BY <1>1, InvAlways, PTL

(* The sizes that stats record are those of the buffers, in memory, in the *)
(* store, and through syncs that have set a buffer aside.                  *)
THEOREM SizesAgreeAlways == Spec => []SizesAgree
<1>1. Inv => SizesAgree
  BY DEF Inv
<1> QED
  BY <1>1, InvAlways, PTL

(* An open of an existing file finds it when it comes to open it, though   *)
(* others truncate it meanwhile.                                           *)
THEOREM FoundIsThereAlways == Spec => []FoundIsThere
<1>1. Inv => FoundIsThere
  BY DEF Inv, SteadyInv, FoundIsThere
<1> QED
  BY <1>1, InvAlways, PTL

----------------------------------------------------------------------------
(* Two steps give a descriptor back: a close of a File that is not dirty,  *)
(* and the callback of its sync.                                           *)
LEMMA CloseStep ==
  ASSUME Inv, [Next]_vars, careful', NEW fd \in fdMap, fd \notin fdMap'
  PROVE  ~ files[fd].unsaved
<1>1. PICK c \in Clients : Makes(c) \/ Runs(c)
  BY DEF Next, vars
<1>2. CASE Synced(c)
  <2>1. fd = calls[c].handle /\ calls[c].at = "synced" /\ careful
    BY <1>2 DEF Synced, At
  <2> QED
    BY <2>1, InvOf DEF Follows
<1>3. CASE \E x \in fdMap : Close(c, x)
  <2>1. PICK x \in fdMap : Close(c, x)
    BY <1>3
  <2>2. fd = x /\ ~ files[fd].dirty /\ careful
    BY <2>1 DEF Close
  <2>3. fd \in Handles
    BY InvOf, Basics
  <2> QED
    BY <2>2, <2>3, InvOf DEF FileOK
<1>4. CASE ~ Synced(c) /\ ~ \E x \in fdMap : Close(c, x)
  <2>1. fdMap \subseteq fdMap'
    BY <1>1, <1>4 DEF Makes, Runs, Open, ReadFile, WriteFile, AppendFile, Truncate, Begin, Fsync, Write,
       Read, Ftruncate, BadFd, Unlink, StatFinds, StatFails, CreateFile, OpenFile, OpenFails,
       GetFdForFile, UseFile, Put, SyncFails
  <2> QED
    BY <2>1
<1> QED
  BY <1>2, <1>3, <1>4

(* FS.close: what was written through a descriptor has been stored when it *)
(* is given back, unless it was written under the sync of that close.      *)
THEOREM CloseLosesNothingAlways == Spec => CloseLosesNothing
<1>1. Inv /\ [Next]_vars => [careful' => \A fd \in fdMap \ fdMap' : ~ files[fd].unsaved]_vars
  BY CloseStep
<1> QED
  BY <1>1, InvAlways, PTL DEF Spec, CloseLosesNothing
=============================================================================
