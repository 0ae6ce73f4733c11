--------------------------- MODULE OverlayFS_proofs ---------------------------
(* The file systems made of others: the deletion log of OverlayFS,          *)
(* MountableFS, and what OverlayFS shows of its two layers.                 *)
EXTENDS OverlayFS, MountableFS, SequenceTheorems, FiniteSetTheorems, WellFoundedInduction, TLAPS

(* The invariant asks of the log only that it is a sequence, whatever is    *)
(* in it, so that nothing need be known of the paths that are deleted.      *)
IsLog(s) == \E S : s \in Seq(S)

LogInv ==
  /\ IsLog(deleteLog) /\ IsLog(logFile) /\ IsLog(writing)
  /\ LogOnDisk

----------------------------------------------------------------------------
(* Prefixes *)

LEMMA PrefixItself ==
  ASSUME NEW s, IsLog(s)
  PROVE  IsPrefix(s, s)
BY LenProperties DEF IsLog, IsPrefix

LEMMA EmptyPrefix ==
  ASSUME NEW s, IsLog(s)
  PROVE  IsLog(<<>>) /\ IsPrefix(<<>>, s)
<1>1. IsLog(<<>>)
  BY DEF IsLog
<1>2. PICK S : s \in Seq(S)
  BY DEF IsLog
<1>3. Len(s) \in Nat /\ Len(<<>>) = 0
  BY <1>2, LenProperties
<1>4. SubSeq(<<>>, 1, 0) = <<>> /\ SubSeq(s, 1, 0) = <<>>
  BY <1>2
<1> QED
  BY <1>1, <1>3, <1>4 DEF IsPrefix

LEMMA AppendPrefix ==
  ASSUME NEW s, NEW t, NEW p, IsLog(s), IsLog(t), IsPrefix(s, t)
  PROVE  IsLog(Append(t, p)) /\ IsPrefix(s, Append(t, p))
<1>1. PICK S : s \in Seq(S)
  BY DEF IsLog
<1>2. PICK T : t \in Seq(T)
  BY DEF IsLog
<1> DEFINE U == S \union T \union {p}
<1>3. s \in Seq(U) /\ t \in Seq(U) /\ p \in U
  BY <1>1, <1>2
<1>4. Append(t, p) \in Seq(U) /\ Len(Append(t, p)) = Len(t) + 1
      /\ \A i \in 1 .. Len(t) : Append(t, p)[i] = t[i]
  BY <1>3, AppendProperties
<1>5. Len(s) \in Nat /\ Len(t) \in Nat /\ Len(s) <= Len(t)
  BY <1>3, LenProperties DEF IsPrefix
<1>6. SubSeq(Append(t, p), 1, Len(s)) = SubSeq(t, 1, Len(s))
  BY <1>3, <1>4, <1>5, SMTT(30)
<1> QED
  BY <1>4, <1>5, <1>6 DEF IsLog, IsPrefix

----------------------------------------------------------------------------
(* The steps of the log.  A deletion makes the log longer, and the write    *)
(* that is under way, if it began before, is known not to be the last.      *)

LEMMA DeletePathInv ==
  ASSUME LogInv, NEW p, DeletePath(p)
  PROVE  LogInv'
<1> DEFINE log == Append(deleteLog, p)
<1>1. IsLog(log) /\ IsPrefix(logFile, log) /\ IsPrefix(log, log)
  BY AppendPrefix, PrefixItself DEF LogInv, LogOnDisk
<1>2. CASE updatePending
  <2>1. IsPrefix(writing, log)
    BY <1>2, AppendPrefix DEF LogInv, LogOnDisk
  <2> QED
    BY <1>1, <1>2, <2>1 DEF DeletePath, UpdateLog, LogInv, LogOnDisk
<1>3. CASE ~ updatePending
  BY <1>1, <1>3 DEF DeletePath, UpdateLog, LogInv, LogOnDisk
<1> QED
  BY <1>2, <1>3

LEMMA LogWritesInv ==
  ASSUME LogInv, LogWrites
  PROVE  LogInv'
<1>1. IsLog(<<>>) /\ IsPrefix(<<>>, deleteLog) /\ IsPrefix(deleteLog, deleteLog)
  BY EmptyPrefix, PrefixItself DEF LogInv
<1>2. CASE EmptyLogFile
  BY <1>1, <1>2 DEF EmptyLogFile, LogInv, LogOnDisk
<1>3. CASE WriteLogFile
  BY <1>1, <1>3 DEF WriteLogFile, LogInv, LogOnDisk
<1>4. CASE FailLogFile
  BY <1>1, <1>4 DEF FailLogFile, LogInv, LogOnDisk
<1> QED
  BY <1>2, <1>3, <1>4 DEF LogWrites

LEMMA ReadLogFileInv ==
  ASSUME LogInv, ReadLogFile
  PROVE  LogInv'
<1>1. IsLog(<<>>) /\ IsPrefix(logFile, logFile)
  BY EmptyPrefix, PrefixItself DEF LogInv
<1> QED
  BY <1>1 DEF ReadLogFile, LogInv, LogOnDisk

LEMMA ReportLogErrorInv ==
  ASSUME LogInv, ReportLogError
  PROVE  LogInv'
BY DEF ReportLogError, LogInv, LogOnDisk

LEMMA UnchangedInv ==
  ASSUME LogInv, UNCHANGED logVars
  PROVE  LogInv'
BY DEF logVars, LogInv, LogOnDisk

LEMMA LogInitInv == LogInit => LogInv
<1>1. IsLog(<<>>)
  BY DEF IsLog
<1>2. IsPrefix(<<>>, <<>>)
  BY <1>1, PrefixItself
<1> QED
  BY <1>1, <1>2 DEF LogInit, LogInv, LogOnDisk

(* Every step of a method leaves the log alone, or deletes one path.        *)
LEMMA RunInv ==
  ASSUME LogInv, Run
  PROVE  LogInv'
<1> USE DEF Goto, Throw
<1>1. ASSUME CheckInitialized PROVE LogInv'
  BY <1>1, ReportLogErrorInv DEF CheckInitialized
<1>2. ASSUME Delete PROVE LogInv'
  BY <1>2, DeletePathInv DEF Delete
<1>3. ASSUME DoWritable PROVE LogInv'
  BY <1>3, UnchangedInv DEF DoWritable
<1>4. ASSUME CreateParentDirectory \/ MkdirSync \/ WriteFileSync \/ TruncateSync \/ OperateOnWritable
      PROVE  LogInv'
  BY <1>4, UnchangedInv
     DEF CreateParentDirectory, MkdirSync, WriteFileSync, TruncateSync, OperateOnWritable
<1>5. ASSUME UnlinkSync \/ DeleteIfExists \/ RmdirSync \/ DeleteIfEmpty
      PROVE  LogInv'
  BY <1>5, UnchangedInv DEF UnlinkSync, DeleteIfExists, RmdirSync, DeleteIfEmpty
<1>6. ASSUME RenameFileSync \/ RenameDirSync \/ RenameChildren \/ RenameNothing \/ UnlinkOld
      PROVE  LogInv'
  BY <1>6, UnchangedInv
     DEF RenameFileSync, RenameDirSync, RenameChildren, RenameNothing, UnlinkOld
<1> QED
  BY <1>1, <1>2, <1>3, <1>4, <1>5, <1>6 DEF Run

----------------------------------------------------------------------------
(* DeletionLog by itself, where writes and deletions overlap: what is on    *)
(* disk is a beginning of the deletions made, and all of them whenever no   *)
(* write is under way and the last one did not fail.                        *)
THEOREM LogSpecOnDisk == LogSpec => []LogOnDisk
<1>1. LogInv /\ [LogNext]_logVars => LogInv'
  BY DeletePathInv, LogWritesInv, ReadLogFileInv, ReportLogErrorInv, UnchangedInv DEF LogNext
<1>2. LogInv => LogOnDisk
  BY DEF LogInv
<1> QED
  BY LogInitInv, <1>1, <1>2, PTL DEF LogSpec

(* OverlayFS keeps the log so through all its methods, whatever throws, and *)
(* whenever the tab goes away.                                              *)
THEOREM LogOnDiskAlways == Spec => []LogOnDisk
<1>1. Init => LogInv
  BY LogInitInv DEF Init
<1>2. LogInv /\ [Next]_vars => LogInv'
  <2> SUFFICES ASSUME LogInv, [Next]_vars PROVE LogInv'
    OBVIOUS
  <2>1. CASE Calls
    BY <2>1, UnchangedInv DEF Calls, Call
  <2>2. CASE Run
    BY <2>2, RunInv
  <2>3. CASE Return \/ Fail
    BY <2>3, UnchangedInv DEF Return, Fail
  <2>4. CASE LogWrite
    BY <2>4, LogWritesInv DEF LogWrite
  <2>5. CASE Restart
    BY <2>5, ReadLogFileInv DEF Restart
  <2>6. CASE UNCHANGED vars
    BY <2>6, UnchangedInv DEF vars
  <2> QED
    BY <2>1, <2>2, <2>3, <2>4, <2>5, <2>6 DEF Next
<1>3. LogInv => LogOnDisk
  BY DEF LogInv
<1> QED
  BY <1>1, <1>2, <1>3, PTL DEF Spec

----------------------------------------------------------------------------
(* Paths *)

Name == UNION {ToSet(p) : p \in Paths}

LEMMA Smallest ==
  ASSUME NEW T, T \subseteq Nat, T # {}
  PROVE  \E x \in T : \A y \in T : x <= y
<1>1. PICK x \in T : \A y \in T : ~ (<<y, x>> \in OpToRel(<, Nat))
  BY NatLessThanWellFounded, WFMin
<1>2. \A y \in T : ~ (y < x)
  BY <1>1 DEF OpToRel
<1> QED
  BY <1>2

LEMMA PathsAre ==
  /\ <<>> \in Paths
  /\ \A p \in Paths : p \in Seq(Name) /\ Len(p) \in Nat /\ DOMAIN p = 1 .. Len(p)
  /\ \A p \in Paths \ {<<>>} : Len(p) > 0
BY TreesAssumption DEF Name

LEMMA PrefixIs ==
  ASSUME NEW p \in Seq(Name), NEW q \in Seq(Name)
  PROVE  /\ IsPrefix(p, q) <=> Len(p) <= Len(q) /\ \A i \in 1 .. Len(p) : p[i] = q[i]
         /\ IsStrictPrefix(p, q) <=> IsPrefix(p, q) /\ p # q
<1>1. Len(p) \in Nat /\ Len(q) \in Nat
  OBVIOUS
<1>2. CASE Len(p) <= Len(q)
  <2>1. /\ SubSeq(p, 1, Len(p)) \in Seq(Name) /\ Len(SubSeq(p, 1, Len(p))) = Len(p)
        /\ \A i \in 1 .. Len(p) : SubSeq(p, 1, Len(p))[i] = p[i]
    BY <1>1, SubSeqProperties
  <2>2. /\ SubSeq(q, 1, Len(p)) \in Seq(Name) /\ Len(SubSeq(q, 1, Len(p))) = Len(p)
        /\ \A i \in 1 .. Len(p) : SubSeq(q, 1, Len(p))[i] = q[i]
    BY <1>1, <1>2, SubSeqProperties
  <2> QED
    BY <1>1, <1>2, <2>1, <2>2, SeqEqual DEF IsPrefix, IsStrictPrefix
<1>3. CASE ~ Len(p) <= Len(q)
  BY <1>1, <1>3 DEF IsPrefix, IsStrictPrefix
<1> QED
  BY <1>2, <1>3

LEMMA ParentIs ==
  ASSUME NEW p \in Paths \ {<<>>}
  PROVE  /\ Parent(p) \in Paths /\ Parent(p) # p /\ Len(Parent(p)) = Len(p) - 1
         /\ \A i \in 1 .. Len(p) - 1 : Parent(p)[i] = p[i]
         /\ IsPrefix(Parent(p), p)
<1>1. Len(p) \in Nat /\ Len(p) > 0 /\ p \in Seq(Name)
  BY PathsAre
<1>2. PICK n \in Int : n = Len(p) - 1
  BY <1>1
<1>3. /\ SubSeq(p, 1, n) \in Seq(Name) /\ Len(SubSeq(p, 1, n)) = n
      /\ \A i \in 1 .. n : SubSeq(p, 1, n)[i] = p[i]
  <2>1. \A i \in 1 .. n : p[i] \in Name
    BY <1>1, <1>2
  <2>2. /\ SubSeq(p, 1, n) \in Seq(Name) /\ Len(SubSeq(p, 1, n)) = IF 1 <= n THEN n - 1 + 1 ELSE 0
        /\ \A i \in 1 .. n - 1 + 1 : SubSeq(p, 1, n)[i] = p[1 + i - 1]
    BY <2>1, SubSeqProperties
  <2> QED
    BY <1>1, <1>2, <2>2
<1>4. Parent(p) = SubSeq(p, 1, n) /\ Parent(p) \in Paths
  BY <1>2, TreesAssumption DEF Parent, Front
<1>5. Len(Parent(p)) = Len(p) - 1 /\ \A i \in 1 .. Len(p) - 1 : Parent(p)[i] = p[i]
  BY <1>2, <1>3, <1>4
<1>6. Parent(p) # p
  BY <1>1, <1>5
<1>7. IsPrefix(Parent(p), p)
  <2>1. Parent(p) \in Seq(Name)
    BY <1>3, <1>4
  <2>2. Len(Parent(p)) <= Len(p) /\ \A i \in 1 .. Len(Parent(p)) : Parent(p)[i] = p[i]
    BY <1>1, <1>5
  <2> QED
    BY <1>1, <2>1, <2>2, PrefixIs
<1> QED
  BY <1>4, <1>5, <1>6, <1>7

(* What is above a path, and what is above its parent. *)
LEMMA AboveParent ==
  ASSUME NEW p \in Paths \ {<<>>}, NEW q \in Paths, q # p
  PROVE  IsPrefix(q, p) <=> IsPrefix(q, Parent(p))
<1>1. /\ p \in Seq(Name) /\ q \in Seq(Name) /\ Len(p) \in Nat /\ Len(q) \in Nat /\ Len(p) > 0
      /\ Parent(p) \in Seq(Name)
  BY PathsAre, ParentIs
<1>2. /\ Len(Parent(p)) = Len(p) - 1
      /\ \A i \in 1 .. Len(p) - 1 : Parent(p)[i] = p[i]
  BY ParentIs
<1>3. ASSUME IsPrefix(q, p) PROVE IsPrefix(q, Parent(p))
  <2>1. Len(q) <= Len(p) /\ \A i \in 1 .. Len(q) : q[i] = p[i]
    BY <1>1, <1>3, PrefixIs
  <2>2. Len(q) # Len(p)
    BY <1>1, <2>1, SeqEqual
  <2>3. Len(q) <= Len(Parent(p)) /\ \A i \in 1 .. Len(q) : q[i] = Parent(p)[i]
    BY <1>1, <1>2, <2>1, <2>2
  <2> QED
    BY <1>1, <2>3, PrefixIs
<1>4. ASSUME IsPrefix(q, Parent(p)) PROVE IsPrefix(q, p)
  <2>1. Len(q) <= Len(Parent(p)) /\ \A i \in 1 .. Len(q) : q[i] = Parent(p)[i]
    BY <1>1, <1>4, PrefixIs
  <2>2. Len(q) <= Len(p) /\ \A i \in 1 .. Len(q) : q[i] = p[i]
    BY <1>1, <1>2, <2>1
  <2> QED
    BY <1>1, <2>2, PrefixIs
<1> QED
  BY <1>3, <1>4

LEMMA PrefixOrder ==
  /\ \A p \in Paths : IsPrefix(p, p) /\ IsPrefix(<<>>, p) /\ (IsPrefix(p, <<>>) => p = <<>>)
  /\ \A p, q, r \in Paths : IsPrefix(p, q) /\ IsPrefix(q, r) => IsPrefix(p, r)
  /\ \A p, q \in Paths : IsPrefix(p, q) /\ IsPrefix(q, p) => p = q
  /\ \A p, q, r \in Paths : IsPrefix(p, r) /\ IsPrefix(q, r) /\ Len(p) <= Len(q) => IsPrefix(p, q)
<1>1. \A p \in Paths : p \in Seq(Name) /\ Len(p) \in Nat /\ (Len(p) = 0 => p = <<>>)
  BY PathsAre
<1>2. /\ <<>> \in Seq(Name) /\ Len(<<>>) = 0
  OBVIOUS
<1>3. \A p, q \in Paths : IsPrefix(p, q) <=> Len(p) <= Len(q) /\ \A i \in 1 .. Len(p) : p[i] = q[i]
  BY <1>1, PrefixIs
<1>4. \A p, q \in Paths : Len(p) = Len(q) /\ (\A i \in 1 .. Len(p) : p[i] = q[i]) => p = q
  BY <1>1, SeqEqual
<1>5. \A p \in Paths : IsPrefix(p, p) /\ IsPrefix(<<>>, p) /\ (IsPrefix(p, <<>>) => p = <<>>)
  <2> TAKE p \in Paths
  <2>1. IsPrefix(p, p) /\ IsPrefix(<<>>, p)
    BY <1>1, <1>2, <1>3, PathsAre
  <2>2. IsPrefix(p, <<>>) => p = <<>>
    BY <1>1, <1>2, <1>3, PathsAre
  <2> QED
    BY <2>1, <2>2
<1>6. ASSUME NEW p \in Paths, NEW q \in Paths, NEW r \in Paths, IsPrefix(p, q), IsPrefix(q, r)
      PROVE  IsPrefix(p, r)
  BY <1>1, <1>3, <1>6
<1>7. ASSUME NEW p \in Paths, NEW q \in Paths, IsPrefix(p, q), IsPrefix(q, p)
      PROVE  p = q
  BY <1>1, <1>3, <1>4, <1>7
<1>8. ASSUME NEW p \in Paths, NEW q \in Paths, NEW r \in Paths,
             IsPrefix(p, r), IsPrefix(q, r), Len(p) <= Len(q)
      PROVE  IsPrefix(p, q)
  BY <1>1, <1>3, <1>8
<1> QED
  BY <1>5, <1>6, <1>7, <1>8

(* An element of Below *)
LEMMA BelowIs ==
  ASSUME NEW p \in Paths
  PROVE  Below(p) = {q \in Paths : IsPrefix(p, q) /\ q # p}
BY PathsAre, PrefixIs DEF Below

(* All that is above a path that is there is there. *)
IsTree(t) ==
  /\ t[<<>>] = Dir
  /\ \A p \in Paths \ {<<>>} : t[p] # Absent => t[Parent(p)] = Dir

LEMMA AboveIsThere ==
  ASSUME NEW t, IsTree(t), NEW p \in Paths, t[p] # Absent, NEW q \in Paths, IsPrefix(q, p)
  PROVE  t[q] # Absent
<1> DEFINE T == {Len(r) : r \in {r \in Paths : IsPrefix(q, r) /\ IsPrefix(r, p) /\ t[r] # Absent}}
<1>1. T \subseteq Nat /\ T # {}
  <2>1. \A r \in Paths : Len(r) \in Nat
    BY PathsAre
  <2>2. IsPrefix(p, p)
    BY PrefixOrder
  <2>3. Len(p) \in T
    BY <2>2
  <2> QED
    BY <2>1, <2>3
<1> HIDE DEF T
<1>2. PICK n \in T : \A m \in T : n <= m
  BY <1>1, Smallest
<1>3. PICK r \in Paths : n = Len(r) /\ IsPrefix(q, r) /\ IsPrefix(r, p) /\ t[r] # Absent
  BY <1>2 DEF T
<1>4. SUFFICES ASSUME r # q PROVE FALSE
  BY <1>3
<1>5. r # <<>>
  BY <1>3, <1>4, PrefixOrder
<1>6. /\ Parent(r) \in Paths /\ Len(Parent(r)) = Len(r) - 1
      /\ IsPrefix(q, Parent(r)) /\ IsPrefix(Parent(r), p)
  BY <1>3, <1>4, <1>5, ParentIs, AboveParent, PrefixOrder
<1>7. t[Parent(r)] # Absent
  BY <1>3, <1>5 DEF IsTree, Dir, Absent
<1>8. Len(Parent(r)) \in T
  BY <1>6, <1>7 DEF T
<1>9. Len(r) \in Nat
  BY PathsAre
<1> QED
  BY <1>2, <1>3, <1>6, <1>8, <1>9

----------------------------------------------------------------------------
(* What the operations do to a tree *)

LEMMA NodesDiffer ==
  /\ Dir # Absent
  /\ \A c : File(c) # Dir /\ File(c) # Absent /\ File(c).type = "file"
  /\ Dir.type # "file" /\ Absent.type # "file"
  /\ \A node \in Nodes : node.type = "file" => node = File(node.bytes)
BY DEF Nodes, Dir, Absent, File

(* A node takes a place below a directory, or the place of another. *)
LEMMA WithKeepsTree ==
  ASSUME NEW t \in Trees, IsTree(t), NEW p \in Paths, NEW node \in Nodes,
         CanWrite(t, p) \/ (CanRmdir(t, p) /\ node = Absent)
  PROVE  /\ With(t, p, node) \in Trees /\ IsTree(With(t, p, node))
         /\ \A q \in Paths : With(t, p, node)[q] = IF q = p THEN node ELSE t[q]
         /\ node # Dir /\ CanWrite(t, p) => t[p] # Dir
<1> PICK u : u = With(t, p, node)
  OBVIOUS
<1>1. /\ u \in Trees /\ \A q \in Paths : u[q] = IF q = p THEN node ELSE t[q]
  BY DEF With, Trees
<1>2. p # <<>> /\ (CanWrite(t, p) => t[p] # Dir) /\ t[Parent(p)] = Dir
  <2>1. CASE CanCreate(t, p)
    BY <2>1, NodesDiffer DEF CanCreate, IsDirAt
  <2>2. CASE IsFileAt(t, p)
    <3>1. t[p] # Dir /\ t[p] # Absent
      BY <2>2, NodesDiffer DEF IsFileAt
    <3> QED
      BY <3>1 DEF IsTree
  <2>3. CASE CanRmdir(t, p) /\ ~ CanWrite(t, p)
    BY <2>3, NodesDiffer DEF CanRmdir, IsDirAt, IsTree
  <2> QED
    BY <2>1, <2>2, <2>3 DEF CanWrite
<1>3. \A q \in Paths \ {<<>>} : Parent(q) = p => t[q] = Absent
  <2> SUFFICES ASSUME NEW q \in Paths \ {<<>>}, Parent(q) = p, t[q] # Absent PROVE FALSE
    OBVIOUS
  <2>1. t[p] = Dir
    BY DEF IsTree
  <2>2. CanRmdir(t, p)
    BY <1>2, <2>1
  <2>3. q \in Below(p)
    BY ParentIs, BelowIs
  <2> QED
    BY <2>2, <2>3 DEF CanRmdir
<1>4. p # Parent(p) /\ Parent(p) \in Paths
  BY <1>2, ParentIs
<1>5. u[<<>>] = Dir
  BY <1>1, <1>2, PathsAre DEF IsTree
<1>6. ASSUME NEW q \in Paths \ {<<>>}, u[q] # Absent PROVE u[Parent(q)] = Dir
  <2>1. Parent(q) \in Paths /\ Parent(q) # q
    BY ParentIs
  <2>2. CASE q = p
    BY <1>1, <1>2, <1>4, <2>2
  <2>3. CASE q # p
    <3>1. t[q] # Absent
      BY <1>1, <1>6, <2>3
    <3>2. t[Parent(q)] = Dir /\ Parent(q) # p
      BY <1>3, <3>1 DEF IsTree
    <3> QED
      BY <1>1, <2>1, <3>2
  <2> QED
    BY <2>2, <2>3
<1>7. IsTree(u)
  BY <1>5, <1>6 DEF IsTree
<1> QED
  BY <1>1, <1>2, <1>7

(* A subtree moves as a whole. *)
LEMMA RenamedKeepsTree ==
  ASSUME NEW t \in Trees, IsTree(t), NEW old \in Paths, NEW new \in Paths, CanRename(t, old, new)
  PROVE  /\ Renamed(t, old, new) \in Trees /\ IsTree(Renamed(t, old, new))
         /\ \A q \in Paths : ~ IsPrefix(old, q) /\ ~ IsPrefix(new, q) => Renamed(t, old, new)[q] = t[q]
<1> DEFINE rest(q) == SubSeq(q, Len(new) + 1, Len(q))
           from(q) == old \o rest(q)
<1> PICK u : u = Renamed(t, old, new)
  OBVIOUS
<1>1. u = [q \in Paths |->
             IF IsPrefix(new, q) THEN (IF from(q) \in Paths THEN t[from(q)] ELSE Absent)
             ELSE IF IsPrefix(old, q) THEN Absent ELSE t[q]]
  BY DEF Renamed
<1>2. /\ u \in Trees
      /\ \A q \in Paths : IsPrefix(new, q) => u[q] = IF from(q) \in Paths THEN t[from(q)] ELSE Absent
      /\ \A q \in Paths : ~ IsPrefix(new, q) /\ IsPrefix(old, q) => u[q] = Absent
      /\ \A q \in Paths : ~ IsPrefix(new, q) /\ ~ IsPrefix(old, q) => u[q] = t[q]
  <2>1. Absent \in Nodes
    BY DEF Nodes
  <2> HIDE DEF from
  <2> QED
    BY <1>1, <2>1 DEF Trees
<1>3. /\ old # <<>> /\ new # <<>> /\ old # new /\ t[Parent(new)] = Dir
      /\ ~ IsPrefix(old, Parent(new))
  BY DEF CanRename, IsDirAt
<1>4. u[<<>>] = Dir
  BY <1>2, <1>3, PathsAre, PrefixOrder DEF IsTree
<1>5. ASSUME NEW q \in Paths \ {<<>>}, u[q] # Absent PROVE u[Parent(q)] = Dir
  <2>1. /\ Parent(q) \in Paths /\ Parent(q) # q /\ IsPrefix(Parent(q), q)
    BY ParentIs
  <2>2. CASE q = new
    <3>1. ~ IsPrefix(new, Parent(new))
      BY <1>3, <2>1, <2>2, PrefixOrder
    <3> QED
      BY <1>2, <1>3, <2>1, <2>2, <3>1
  <2>3. CASE q # new /\ IsPrefix(new, q)
    <3>1. IsPrefix(new, Parent(q))
      BY <2>3, AboveParent
    <3>2. from(q) \in Paths /\ t[from(q)] # Absent
      BY <1>2, <1>5, <2>3
    <3>3. from(q) # <<>> /\ Parent(from(q)) = from(Parent(q))
      <4>1. /\ q \in Seq(Name) /\ new \in Seq(Name) /\ old \in Seq(Name) /\ Parent(q) \in Seq(Name)
            /\ Len(q) \in Nat /\ Len(new) \in Nat /\ Len(old) \in Nat /\ Len(old) > 0
        BY <1>3, <2>1, PathsAre
      <4>2. Len(new) <= Len(Parent(q)) /\ Len(Parent(q)) = Len(q) - 1
        BY <3>1, <4>1, <2>1, PrefixIs, ParentIs
      <4>3. /\ rest(q) \in Seq(Name) /\ Len(rest(q)) = Len(q) - Len(new)
            /\ \A i \in 1 .. Len(q) - Len(new) : rest(q)[i] = q[Len(new) + i]
        <5>1. PICK m \in Int : m = Len(new) + 1
          BY <4>1
        <5>2. PICK n \in Int : n = Len(q)
          BY <4>1
        <5>3. \A i \in m .. n : q[i] \in Name
          BY <4>1, <5>1, <5>2
        <5>4. /\ SubSeq(q, m, n) \in Seq(Name) /\ Len(SubSeq(q, m, n)) = IF m <= n THEN n - m + 1 ELSE 0
              /\ \A i \in 1 .. n - m + 1 : SubSeq(q, m, n)[i] = q[m + i - 1]
          BY <5>3, SubSeqProperties
        <5> QED
          BY <4>1, <4>2, <5>1, <5>2, <5>4
      <4>4. /\ rest(Parent(q)) \in Seq(Name) /\ Len(rest(Parent(q))) = Len(q) - 1 - Len(new)
            /\ \A i \in 1 .. Len(q) - 1 - Len(new) : rest(Parent(q))[i] = Parent(q)[Len(new) + i]
        <5>1. PICK m \in Int : m = Len(new) + 1
          BY <4>1
        <5>2. PICK n \in Int : n = Len(Parent(q))
          BY <4>1, <4>2
        <5>3. \A i \in m .. n : Parent(q)[i] \in Name
          BY <4>1, <5>1, <5>2
        <5>4. /\ SubSeq(Parent(q), m, n) \in Seq(Name)
              /\ Len(SubSeq(Parent(q), m, n)) = IF m <= n THEN n - m + 1 ELSE 0
              /\ \A i \in 1 .. n - m + 1 : SubSeq(Parent(q), m, n)[i] = Parent(q)[m + i - 1]
          BY <5>3, SubSeqProperties
        <5> QED
          BY <4>1, <4>2, <5>1, <5>2, <5>4
      <4> HIDE DEF rest
      <4>5. /\ from(q) \in Seq(Name) /\ Len(from(q)) = Len(old) + Len(q) - Len(new)
            /\ \A i \in 1 .. Len(from(q)) :
                 from(q)[i] = IF i <= Len(old) THEN old[i] ELSE q[Len(new) + i - Len(old)]
        <5>1. /\ from(q) \in Seq(Name) /\ Len(from(q)) = Len(old) + Len(rest(q))
              /\ \A i \in 1 .. Len(old) + Len(rest(q)) :
                   from(q)[i] = IF i <= Len(old) THEN old[i] ELSE rest(q)[i - Len(old)]
          BY <4>1, <4>3, ConcatProperties
        <5> HIDE DEF from
        <5>2. Len(from(q)) = Len(old) + Len(q) - Len(new)
          BY <4>1, <4>3, <5>1
        <5>3. ASSUME NEW i \in 1 .. Len(from(q))
              PROVE  from(q)[i] = IF i <= Len(old) THEN old[i] ELSE q[Len(new) + i - Len(old)]
          <6>1. CASE i <= Len(old)
            BY <4>1, <4>3, <5>1, <6>1
          <6>2. CASE ~ i <= Len(old)
            <7>1. i - Len(old) \in 1 .. Len(q) - Len(new)
              BY <4>1, <4>2, <5>2, <6>2
            <7>2. Len(new) + (i - Len(old)) = Len(new) + i - Len(old)
              BY <4>1, <7>1
            <7> QED
              BY <4>1, <4>3, <5>1, <6>2, <7>1, <7>2
          <6> QED
            BY <6>1, <6>2
        <5> QED
          BY <5>1, <5>2, <5>3
      <4>6. /\ from(Parent(q)) \in Seq(Name) /\ Len(from(Parent(q))) = Len(old) + Len(q) - 1 - Len(new)
            /\ \A i \in 1 .. Len(from(Parent(q))) :
                 from(Parent(q))[i] = IF i <= Len(old) THEN old[i] ELSE Parent(q)[Len(new) + i - Len(old)]
        <5>1. /\ from(Parent(q)) \in Seq(Name) /\ Len(from(Parent(q))) = Len(old) + Len(rest(Parent(q)))
              /\ \A i \in 1 .. Len(old) + Len(rest(Parent(q))) :
                   from(Parent(q))[i] = IF i <= Len(old) THEN old[i] ELSE rest(Parent(q))[i - Len(old)]
          BY <4>1, <4>4, ConcatProperties
        <5> QED
          BY <4>1, <4>2, <4>4, <5>1, SMTT(30), ZenonT(30)
      <4> HIDE DEF from
      <4>7. from(q) \in Paths \ {<<>>}
        BY <3>2, <4>1, <4>2, <4>5
      <4>8. /\ Parent(from(q)) \in Seq(Name) /\ Len(Parent(from(q))) = Len(from(q)) - 1
            /\ \A i \in 1 .. Len(from(q)) - 1 : Parent(from(q))[i] = from(q)[i]
        BY <4>7, ParentIs, PathsAre
      <4>9. \A i \in 1 .. Len(q) - 1 : Parent(q)[i] = q[i]
        BY ParentIs
      <4>10. Len(Parent(from(q))) = Len(from(Parent(q)))
        BY <4>1, <4>5, <4>6, <4>8
      <4>11. \A i \in 1 .. Len(Parent(from(q))) : Parent(from(q))[i] = from(Parent(q))[i]
        <5> TAKE i \in 1 .. Len(Parent(from(q)))
        <5>1. i \in 1 .. Len(from(q)) - 1 /\ i \in 1 .. Len(from(Parent(q))) /\ i \in 1 .. Len(from(q)) /\ i \in Nat
          BY <4>1, <4>2, <4>5, <4>8, <4>10
        <5>2. CASE i <= Len(old)
          BY <4>5, <4>6, <4>8, <5>1, <5>2
        <5>3. CASE ~ i <= Len(old)
          <6>1. Len(new) + i - Len(old) \in 1 .. Len(q) - 1
            BY <4>1, <4>2, <4>5, <5>1, <5>3
          <6>2. Parent(q)[Len(new) + i - Len(old)] = q[Len(new) + i - Len(old)]
            BY <4>9, <6>1
          <6> QED
            BY <4>5, <4>6, <4>8, <5>1, <5>3, <6>2
        <5> QED
          BY <5>2, <5>3
      <4>12. Parent(from(q)) = from(Parent(q))
        BY <4>6, <4>8, <4>10, <4>11, SeqEqual
      <4> QED
        BY <4>7, <4>12
    <3> HIDE DEF from
    <3>4. t[from(Parent(q))] = Dir /\ from(Parent(q)) \in Paths
      BY <3>2, <3>3, ParentIs DEF IsTree
    <3> QED
      BY <1>2, <2>1, <3>1, <3>4
  <2>4. CASE ~ IsPrefix(new, q)
    <3> HIDE DEF from
    <3>1. ~ IsPrefix(old, q) /\ t[q] # Absent
      BY <1>2, <1>5, <2>4
    <3>2. ~ IsPrefix(new, Parent(q)) /\ ~ IsPrefix(old, Parent(q))
      BY <2>1, <2>4, <3>1, PrefixOrder
    <3> QED
      BY <1>2, <2>1, <3>1, <3>2 DEF IsTree
  <2> QED
    BY <2>2, <2>3, <2>4
<1>6. IsTree(u)
  BY <1>4, <1>5 DEF IsTree
<1> QED
  BY <1>2, <1>6

LEMMA MkdirpKeepsTree ==
  ASSUME NEW t \in Trees, IsTree(t), NEW p \in Paths, CanMkdirp(t, p)
  PROVE  /\ Mkdirp(t, p) \in Trees /\ IsTree(Mkdirp(t, p))
         /\ \A q \in Paths : t[q] = Dir => Mkdirp(t, p)[q] = Dir
         /\ ~ IsFileAt(t, p) => Mkdirp(t, p)[p] = Dir
<1> PICK u : u = Mkdirp(t, p)
  OBVIOUS
<1>1. \A q \in Paths : u[q] = IF q \in Ancestors(p) /\ t[q] = Absent THEN Dir ELSE t[q]
  BY DEF Mkdirp
<1>2. u \in Trees
  BY DEF Mkdirp, Trees, Nodes
<1>3. \A q \in Paths : t[q] = Dir => u[q] = Dir
  BY <1>1, NodesDiffer
<1>4. ~ IsFileAt(t, p) => u[p] = Dir
  <2>1. t[p] \in {Absent, Dir} \/ IsFileAt(t, p)
    BY NodesDiffer DEF Trees, Nodes, IsFileAt
  <2>2. p = <<>> => t[p] = Dir
    BY DEF IsTree
  <2>3. p # <<>> => p \in Ancestors(p)
    BY PrefixOrder DEF Ancestors
  <2> QED
    BY <1>1, <1>3, <2>1, <2>2, <2>3
<1>5. ASSUME NEW q \in Paths \ {<<>>}, u[q] # Absent PROVE u[Parent(q)] = Dir
  <2>1. Parent(q) \in Paths /\ IsPrefix(Parent(q), q)
    BY ParentIs
  <2>2. CASE t[q] # Absent
    BY <1>3, <2>1, <2>2 DEF IsTree
  <2>3. CASE t[q] = Absent
    <3>1. q \in Ancestors(p)
      BY <1>1, <1>5, <2>3
    <3>2. Parent(q) = <<>> \/ Parent(q) \in Ancestors(p)
      BY <2>1, <3>1, PrefixOrder DEF Ancestors
    <3>3. t[p] = Absent
      BY <2>3, <3>1, AboveIsThere DEF Ancestors
    <3>4. Parent(q) \in Ancestors(p) => t[Parent(q)] \in {Absent, Dir}
      BY <3>3 DEF CanMkdirp
    <3> QED
      BY <1>1, <1>3, <2>1, <3>2, <3>4 DEF IsTree
  <2> QED
    BY <2>2, <2>3
<1>6. u[<<>>] = Dir
  BY <1>3, PathsAre DEF IsTree
<1>7. IsTree(u)
  BY <1>5, <1>6 DEF IsTree
<1> QED
  BY <1>2, <1>3, <1>4, <1>7

LEMMA VacatedKeepsTree ==
  ASSUME NEW t \in Trees, IsTree(t), NEW m \in Paths
  PROVE  LET u == [q \in Paths |-> IF q \in Vacated(t, m) THEN Absent ELSE t[q]]
         IN  u \in Trees /\ IsTree(u)
<1> PICK u : u = [q \in Paths |-> IF q \in Vacated(t, m) THEN Absent ELSE t[q]]
  OBVIOUS
<1>1. u \in Trees /\ \A q \in Paths : u[q] = IF q \in Vacated(t, m) THEN Absent ELSE t[q]
  BY DEF Trees, Nodes
<1>2. u[<<>>] = Dir
  BY <1>1, PathsAre DEF IsTree, Vacated, Ancestors
<1>3. ASSUME NEW q \in Paths \ {<<>>}, u[q] # Absent PROVE u[Parent(q)] = Dir
  <2>1. Parent(q) \in Paths /\ Parent(q) # q /\ IsPrefix(Parent(q), q)
    BY ParentIs
  <2>2. t[q] # Absent /\ q \notin Vacated(t, m) /\ t[Parent(q)] = Dir
    BY <1>1, <1>3 DEF IsTree
  <2>3. SUFFICES ASSUME Parent(q) \in Vacated(t, m) PROVE FALSE
    BY <1>1, <2>1, <2>2
  <2>4. /\ IsDirAt(t, m) /\ \A r \in Below(Parent(q)) : t[r] # Absent => IsPrefix(r, m)
    BY <2>3 DEF Vacated
  <2>5. q \in Below(Parent(q)) /\ Below(q) \subseteq Below(Parent(q))
    BY <2>1, BelowIs, PrefixOrder
  <2>6. q \in Ancestors(m)
    BY <2>2, <2>4, <2>5 DEF Ancestors
  <2> QED
    BY <2>2, <2>4, <2>5, <2>6 DEF Vacated
<1>4. IsTree(u)
  BY <1>2, <1>3 DEF IsTree
<1> QED
  BY <1>1, <1>4

----------------------------------------------------------------------------
(* The invariant of MountableFS but for the rename under way *)

MountTable ==
  /\ mntMap \in [Mounts -> FileSystems \ {RootFs}] /\ Mounts \subseteq Paths
  /\ mountList \in Seq(Paths) /\ IsInjective(mountList) /\ ToSet(mountList) = Mounts
  /\ \A i, j \in 1 .. Len(mountList) : i < j => Size[mountList[i]] >= Size[mountList[j]]

TreesKept ==
  /\ trees \in [Stores -> Trees] /\ made \subseteq FileSystems /\ mountsKept \in BOOLEAN
  /\ \A s \in Stores : IsTree(trees[s])
  /\ mountsKept => \A m \in Mounts : trees[RootFs][m] = Dir

LEMMA StringPrefixIs ==
  \A m, p : <<m, p>> \in StringPrefixes
              <=> m \in Paths /\ p \in Paths /\ (IsPrefix(m, p) \/ BeginsWithin(m, p))
<1> TAKE m, p
<1>1. ASSUME <<m, p>> \in StringPrefixes
      PROVE  m \in Paths /\ p \in Paths /\ (IsPrefix(m, p) \/ BeginsWithin(m, p))
  BY <1>1 DEF StringPrefixes
<1>2. ASSUME m \in Paths, p \in Paths, IsPrefix(m, p) \/ BeginsWithin(m, p)
      PROVE  <<m, p>> \in StringPrefixes
  <2>1. PICK mp \in Paths \X Paths : mp = <<m, p>>
    BY <1>2
  <2>2. IsPrefix(mp[1], mp[2]) \/ BeginsWithin(mp[1], mp[2])
    BY <1>2, <2>1
  <2> QED
    BY <2>1, <2>2 DEF StringPrefixes
<1> QED
  BY <1>1, <1>2

(* What GetFs finds: the first that begins the path, no other is longer. *)
LEMMA FirstFound ==
  ASSUME MountTable, NEW p \in Paths
  PROVE  /\ Found(p) = {} <=> \A m \in Mounts : ~ StringPrefix(m, p)
         /\ Found(p) # {} =>
              /\ Min(Found(p)) \in 1 .. Len(mountList)
              /\ GetFs(p).mount = mountList[Min(Found(p))]
              /\ GetFs(p).mount \in Mounts /\ StringPrefix(GetFs(p).mount, p)
              /\ \A i \in Found(p) : Min(Found(p)) <= i
              /\ \A m \in Mounts : StringPrefix(m, p) => Size[m] <= Size[GetFs(p).mount]
<1>1. /\ Len(mountList) \in Nat /\ DOMAIN mountList = 1 .. Len(mountList)
      /\ \A i \in 1 .. Len(mountList) : mountList[i] \in Paths
  BY DEF MountTable
<1>2. /\ Mounts = {mountList[i] : i \in 1 .. Len(mountList)}
      /\ Found(p) = {i \in 1 .. Len(mountList) : StringPrefix(mountList[i], p)}
  BY <1>1 DEF MountTable, ToSet, Found
<1>3. Found(p) = {} <=> \A m \in Mounts : ~ StringPrefix(m, p)
  BY <1>2
<1>4. SUFFICES ASSUME Found(p) # {}
      PROVE  /\ Min(Found(p)) \in 1 .. Len(mountList)
             /\ GetFs(p).mount = mountList[Min(Found(p))]
             /\ GetFs(p).mount \in Mounts /\ StringPrefix(GetFs(p).mount, p)
             /\ \A i \in Found(p) : Min(Found(p)) <= i
             /\ \A m \in Mounts : StringPrefix(m, p) => Size[m] <= Size[GetFs(p).mount]
  BY <1>3
<1>5. Found(p) \subseteq Nat
  BY <1>1, <1>2
<1>6. Min(Found(p)) \in Found(p) /\ \A i \in Found(p) : Min(Found(p)) <= i
  <2>1. \E x \in Found(p) : \A y \in Found(p) : x <= y
    BY <1>4, <1>5, Smallest
  <2> QED
    BY <2>1 DEF Min
<1>7. GetFs(p).mount = mountList[Min(Found(p))]
  BY <1>4 DEF GetFs
<1>8. ASSUME NEW m \in Mounts, StringPrefix(m, p) PROVE Size[m] <= Size[GetFs(p).mount]
  <2>1. PICK i \in 1 .. Len(mountList) : m = mountList[i]
    BY <1>2
  <2>2. i \in Found(p) /\ Min(Found(p)) <= i
    BY <1>2, <1>6, <1>8, <2>1
  <2>3. Size[m] \in Nat
    BY <1>1, <2>1, MountAssumption
  <2> QED
    BY <1>1, <1>2, <1>6, <1>7, <2>1, <2>2, <2>3 DEF MountTable
<1> QED
  BY <1>2, <1>6, <1>7, <1>8

(* Of two mount points above a path the one that is the longer string is     *)
(* below the other.                                                         *)
LEMMA LongerIsBelow ==
  ASSUME NEW p \in Paths, NEW m \in Paths, NEW n \in Paths,
         IsPrefix(m, p), StringPrefix(n, p), Size[m] <= Size[n]
  PROVE  IsPrefix(m, n)
<1>1. Size[m] \in Nat /\ Size[n] \in Nat
  BY MountAssumption
<1>2. Len(m) \in Nat /\ Len(n) \in Nat /\ Len(p) \in Nat
  BY PathsAre
<1>3. CASE IsPrefix(n, p)
  <2>1. CASE Len(m) <= Len(n)
    BY <1>3, <2>1, PrefixOrder
  <2>2. CASE ~ Len(m) <= Len(n)
    <3>1. IsPrefix(n, m) /\ n # m
      BY <1>2, <1>3, <2>2, PrefixOrder
    <3>2. <<n, m>> \in StringPrefixes
      BY <3>1, StringPrefixIs
    <3>3. PICK nm \in StringPrefixes : nm = <<n, m>>
      BY <3>2
    <3>4. Size[n] < Size[m]
      BY <3>1, <3>3, SizeAssumption
    <3> QED
      BY <1>1, <3>4
  <2> QED
    BY <2>1, <2>2
<1>4. CASE BeginsWithin(n, p)
  <2>1. /\ n # <<>> /\ Len(n) <= Len(p) /\ Parent(n) = SubSeq(p, 1, Len(n) - 1)
    BY <1>4 DEF BeginsWithin, Parent
  <2>2. IsPrefix(Parent(n), p)
    <3>1. Parent(n) \in Paths /\ Len(Parent(n)) = Len(n) - 1
      BY <2>1, ParentIs
    <3>2. SubSeq(Parent(n), 1, Len(Parent(n))) = Parent(n)
      BY <3>1, PathsAre, SubSeqFull
    <3> QED
      BY <1>2, <2>1, <3>1, <3>2 DEF IsPrefix
  <2>3. Parent(n) \in Paths /\ Len(Parent(n)) = Len(n) - 1 /\ IsPrefix(Parent(n), n)
    BY <2>1, ParentIs
  <2>4. CASE Len(m) <= Len(n) - 1
    BY <2>2, <2>3, <2>4, PrefixOrder
  <2>5. CASE ~ Len(m) <= Len(n) - 1
    <3>1. IsPrefix(Parent(n), m) /\ Len(n) <= Len(m)
      BY <1>2, <2>2, <2>3, <2>5, PrefixOrder
    <3>2. SubSeq(Parent(n), 1, Len(Parent(n))) = Parent(n)
      BY <2>3, PathsAre, SubSeqFull
    <3>3. Front(n) = SubSeq(m, 1, Len(n) - 1)
      BY <2>1, <2>3, <3>1, <3>2 DEF IsPrefix, Parent
    <3>4. Len(n) > 0
      BY <2>1, PathsAre
    <3>5. m[Len(n)] = p[Len(n)]
      BY <1>2, <3>1, <3>4, PrefixIs, PathsAre
    <3>6. BeginsWithin(n, m)
      BY <1>4, <2>1, <3>1, <3>3, <3>5 DEF BeginsWithin
    <3>7. <<n, m>> \in StringPrefixes
      BY <3>6, StringPrefixIs
    <3>8. PICK nm \in StringPrefixes : nm = <<n, m>>
      BY <3>7
    <3>9. n # m => Size[n] < Size[m]
      BY <3>8, SizeAssumption
    <3> QED
      BY <1>1, <3>9, PrefixOrder
  <2> QED
    BY <2>4, <2>5
<1> QED
  BY <1>3, <1>4, StringPrefixIs DEF StringPrefix

LEMMA ServesNearest == MountTable => NearestServes
<1> SUFFICES ASSUME MountTable, NEW p \in Paths, NEW m \in Mounts, IsPrefix(m, p)
             PROVE  IsPrefix(m, GetFs(p).mount)
  BY DEF NearestServes, MountTable
<1>1. m \in Paths /\ StringPrefix(m, p)
  BY StringPrefixIs DEF MountTable, StringPrefix
<1>2. /\ GetFs(p).mount \in Mounts /\ StringPrefix(GetFs(p).mount, p)
      /\ Size[m] <= Size[GetFs(p).mount]
  BY <1>1, FirstFound
<1> QED
  BY <1>1, <1>2, LongerIsBelow DEF MountTable

(* Nothing is mounted, or a mount point enters or leaves the list. *)
LEMMA InsertedKeepsTable ==
  ASSUME MountTable, NEW m \in Paths \ Mounts, NEW f \in FileSystems \ {RootFs},
         mntMap' = [q \in Mounts \union {m} |-> IF q = m THEN f ELSE mntMap[q]],
         mountList' = Inserted(mountList, m)
  PROVE  MountTable'
<1> PICK s \in Seq(Paths) : s = mountList
  BY DEF MountTable
<1>1. /\ Len(s) \in Nat /\ DOMAIN s = 1 .. Len(s) /\ \A i \in 1 .. Len(s) : s[i] \in Paths /\ Size[s[i]] \in Nat
      /\ Size[m] \in Nat /\ ToSet(s) = Mounts /\ IsInjective(s)
      /\ \A i, j \in 1 .. Len(s) : i < j => Size[s[i]] >= Size[s[j]]
  BY MountAssumption DEF MountTable
<1> DEFINE Placed(i) == \A j \in DOMAIN s : j < i <=> Size[s[j]] >= Size[m]
           T == {i \in 1 .. Len(s) + 1 : i = Len(s) + 1 \/ Size[s[i]] < Size[m]}
<1>2. \E i \in 1 .. Len(s) + 1 : Placed(i)
  <2>1. T \subseteq Nat /\ T # {}
    BY <1>1
  <2> HIDE DEF T
  <2>2. PICK i \in T : \A j \in T : i <= j
    BY <2>1, Smallest
  <2>3. i \in 1 .. Len(s) + 1 /\ (i # Len(s) + 1 => Size[s[i]] < Size[m])
    BY <2>2 DEF T
  <2>4. ASSUME NEW j \in 1 .. Len(s), j < i PROVE Size[s[j]] >= Size[m]
    <3>1. j \notin T
      BY <2>2, <2>3, <2>4
    <3> QED
      BY <1>1, <3>1 DEF T
  <2>5. ASSUME NEW j \in 1 .. Len(s), ~ j < i PROVE ~ Size[s[j]] >= Size[m]
    <3>1. i \in 1 .. Len(s) /\ i <= j
      BY <1>1, <2>3, <2>5
    <3>2. Size[s[i]] >= Size[s[j]]
      BY <1>1, <3>1
    <3> QED
      BY <1>1, <2>3, <3>1, <3>2
  <2> QED
    BY <1>1, <2>3, <2>4, <2>5
<1>3. PICK i \in 1 .. Len(s) + 1 : Placed(i) /\ Inserted(s, m) = InsertAt(s, i, m)
  BY <1>2 DEF Inserted
<1> PICK u : u = mountList'
  OBVIOUS
<1>4. /\ u \in Seq(Paths) /\ Len(u) = Len(s) + 1
      /\ \A j \in 1 .. Len(s) + 1 : u[j] = IF j < i THEN s[j] ELSE IF j = i THEN m ELSE s[j - 1]
  <2>1. PICK n \in Nat : n = Len(s)
    BY <1>1
  <2>2. PICK h \in Int : h = i - 1
    BY <2>1
  <2> DEFINE A == SubSeq(s, 1, h)
             B == SubSeq(s, i, n)
  <2>3. A \in Seq(Paths) /\ Len(A) = i - 1 /\ \A j \in 1 .. i - 1 : A[j] = s[j]
    <3>1. \A j \in 1 .. h : s[j] \in Paths
      BY <1>1, <2>1, <2>2
    <3>2. /\ A \in Seq(Paths) /\ Len(A) = IF 1 <= h THEN h - 1 + 1 ELSE 0
          /\ \A j \in 1 .. h - 1 + 1 : A[j] = s[1 + j - 1]
      BY <3>1, SubSeqProperties
    <3> HIDE DEF A
    <3> QED
      BY <2>1, <2>2, <3>2
  <2>4. B \in Seq(Paths) /\ Len(B) = n + 1 - i /\ \A j \in 1 .. n + 1 - i : B[j] = s[i + j - 1]
    <3>1. \A j \in i .. n : s[j] \in Paths
      BY <1>1, <2>1
    <3>2. i \in Int /\ n \in Int
      BY <2>1
    <3>3. /\ B \in Seq(Paths) /\ Len(B) = IF i <= n THEN n - i + 1 ELSE 0
          /\ \A j \in 1 .. n - i + 1 : B[j] = s[i + j - 1]
      BY <3>1, <3>2, SubSeqProperties
    <3> HIDE DEF B
    <3> QED
      BY <2>1, <3>3
  <2>5. u = A \o <<m>> \o B
    BY <1>3, <2>1, <2>2 DEF InsertAt
  <2> HIDE DEF A, B
  <2>6. /\ A \o <<m>> \in Seq(Paths) /\ Len(A \o <<m>>) = i
        /\ \A j \in 1 .. i : (A \o <<m>>)[j] = IF j < i THEN s[j] ELSE m
    <3>1. A \o <<m>> = Append(A, m)
      BY <2>3, AppendIsConcat
    <3>2. /\ Append(A, m) \in Seq(Paths) /\ Len(Append(A, m)) = i
          /\ \A j \in 1 .. Len(A) : Append(A, m)[j] = A[j]
          /\ Append(A, m)[i] = m
      BY <2>3, AppendProperties
    <3> QED
      BY <2>3, <3>1, <3>2
  <2> PICK v \in Seq(Paths) : v = A \o <<m>>
    BY <2>6
  <2> PICK w \in Seq(Paths) : w = B
    BY <2>4
  <2>7. /\ v \o w \in Seq(Paths) /\ Len(v \o w) = Len(v) + Len(w)
        /\ \A j \in 1 .. Len(v) + Len(w) : (v \o w)[j] = IF j <= Len(v) THEN v[j] ELSE w[j - Len(v)]
    BY ONLY ConcatProperties, v \in Seq(Paths), w \in Seq(Paths)
  <2>8. /\ u \in Seq(Paths) /\ Len(u) = n + 1
        /\ \A j \in 1 .. n + 1 : (j <= i => u[j] = v[j]) /\ (i < j => u[j] = B[j - i])
    <3>1. Len(v) = i /\ Len(v) + Len(w) = n + 1
      BY <2>1, <2>4, <2>6
    <3>2. u = v \o w
      BY <2>5
    <3>3. ASSUME NEW j \in 1 .. n + 1 PROVE (j <= i => u[j] = v[j]) /\ (i < j => u[j] = B[j - i])
      <4>1. j \in 1 .. Len(v) + Len(w) /\ (i < j => ~ j <= i)
        BY <2>1, <3>1
      <4> QED
        BY <2>7, <3>1, <3>2, <4>1
    <3> QED
      BY <2>7, <3>1, <3>2, <3>3
  <2>9. ASSUME NEW j \in 1 .. n + 1
        PROVE  u[j] = IF j < i THEN s[j] ELSE IF j = i THEN m ELSE s[j - 1]
    <3>1. CASE j <= i
      <4>1. j \in 1 .. i
        BY <2>1, <3>1
      <4>3. u[j] = v[j]
        BY <2>8, <3>1
      <4>2. v[j] = IF j < i THEN s[j] ELSE m
        BY <2>6, <4>1
      <4> QED
        BY <2>1, <3>1, <4>1, <4>2, <4>3
    <3>2. CASE ~ j <= i
      <4>1. j - i \in 1 .. n + 1 - i /\ i + (j - i) - 1 = j - 1
        BY <2>1, <3>2
      <4>2. B[j - i] = s[j - 1]
        BY <2>4, <4>1
      <4> QED
        BY <2>1, <2>8, <3>2, <4>2
    <3> QED
      BY <3>1, <3>2
  <2> QED
    BY <2>1, <2>8, <2>9
<1>5. DOMAIN u = 1 .. Len(s) + 1
  BY <1>4
<1> DEFINE was(j) == IF j < i THEN j ELSE j - 1
<1>10. /\ \A j \in 1 .. Len(s) + 1 : j # i => was(j) \in 1 .. Len(s) /\ u[j] = s[was(j)]
       /\ \A j, k \in 1 .. Len(s) + 1 : j # i /\ k # i /\ j < k => was(j) < was(k)
       /\ u[i] = m
  BY <1>1, <1>4
<1> HIDE DEF was
<1>6. IsInjective(u)
  <2>1. \A j \in 1 .. Len(s) : s[j] # m
    BY <1>1 DEF ToSet
  <2> SUFFICES ASSUME NEW j \in 1 .. Len(s) + 1, NEW k \in 1 .. Len(s) + 1, u[j] = u[k], j < k PROVE FALSE
    BY <1>1, <1>5 DEF IsInjective
  <2>2. CASE j # i /\ k # i
    <3>1. was(j) < was(k) /\ was(j) \in 1 .. Len(s) /\ was(k) \in 1 .. Len(s) /\ s[was(j)] = s[was(k)]
      BY <1>10, <2>2
    <3> QED
      BY <1>1, <3>1 DEF IsInjective
  <2>3. CASE j = i \/ k = i
    BY <1>10, <2>1, <2>3
  <2> QED
    BY <2>2, <2>3
<1>7. ToSet(u) = Mounts \union {m}
  <2>1. ASSUME NEW j \in 1 .. Len(s) PROVE s[j] \in ToSet(u)
    <3>1. CASE j < i
      BY <1>1, <1>4, <1>5, <3>1 DEF ToSet
    <3>2. CASE ~ j < i
      <4>1. j + 1 \in 1 .. Len(s) + 1 /\ u[j + 1] = s[j]
        BY <1>1, <1>4, <3>2
      <4> QED
        BY <1>5, <4>1 DEF ToSet
    <3> QED
      BY <3>1, <3>2
  <2>2. m \in ToSet(u)
    BY <1>4, <1>5 DEF ToSet
  <2>3. \A j \in 1 .. Len(s) + 1 : u[j] \in ToSet(s) \union {m}
    BY <1>1, <1>10 DEF ToSet
  <2>4. ToSet(u) \subseteq ToSet(s) \union {m}
    BY <1>5, <2>3 DEF ToSet
  <2>5. ToSet(s) \subseteq ToSet(u)
    BY <1>1, <2>1 DEF ToSet
  <2> QED
    BY <1>1, <2>2, <2>4, <2>5
<1>8. ASSUME NEW j \in 1 .. Len(u), NEW k \in 1 .. Len(u), j < k PROVE Size[u[j]] >= Size[u[k]]
  <2>1. j \in 1 .. Len(s) + 1 /\ k \in 1 .. Len(s) + 1
    BY <1>4
  <2>2. CASE j # i /\ k # i
    <3>1. was(j) < was(k) /\ was(j) \in 1 .. Len(s) /\ was(k) \in 1 .. Len(s)
      BY <1>10, <1>8, <2>1, <2>2
    <3>2. Size[s[was(j)]] >= Size[s[was(k)]]
      BY <1>1, <3>1
    <3> QED
      BY <1>10, <2>1, <2>2, <3>2
  <2>3. CASE k = i
    <3>1. j \in 1 .. Len(s) /\ u[j] = s[j] /\ j < i
      BY <1>1, <1>4, <1>8, <2>1, <2>3
    <3> QED
      BY <1>1, <1>3, <1>10, <2>3, <3>1
  <2>4. CASE j = i
    <3>1. k - 1 \in 1 .. Len(s) /\ ~ k - 1 < i /\ u[k] = s[k - 1] /\ u[j] = m
      BY <1>1, <1>4, <1>8, <2>1, <2>4
    <3>2. ~ Size[s[k - 1]] >= Size[m]
      BY <1>1, <1>3, <3>1
    <3> QED
      BY <1>1, <3>1, <3>2
  <2> QED
    BY <2>2, <2>3, <2>4
<1>9. /\ Mounts' = Mounts \union {m} /\ Mounts' \subseteq Paths
      /\ mntMap' \in [Mounts' -> FileSystems \ {RootFs}]
  BY DEF Mounts, MountTable
<1> QED
  BY <1>4, <1>6, <1>7, <1>8, <1>9 DEF MountTable

LEMMA RemovedKeepsTable ==
  ASSUME MountTable, NEW m \in Mounts,
         mntMap' = [q \in Mounts \ {m} |-> mntMap[q]],
         mountList' = RemoveAt(mountList, CHOOSE i \in DOMAIN mountList : mountList[i] = m)
  PROVE  MountTable'
<1> PICK s \in Seq(Paths) : s = mountList
  BY DEF MountTable
<1>1. /\ Len(s) \in Nat /\ DOMAIN s = 1 .. Len(s) /\ \A i \in 1 .. Len(s) : s[i] \in Paths
      /\ ToSet(s) = Mounts /\ IsInjective(s)
      /\ \A i, j \in 1 .. Len(s) : i < j => Size[s[i]] >= Size[s[j]]
  BY DEF MountTable
<1>2. \E i \in DOMAIN s : s[i] = m
  BY <1>1 DEF ToSet
<1>3. PICK i \in 1 .. Len(s) : s[i] = m /\ mountList' = RemoveAt(s, i)
  BY <1>1, <1>2
<1> PICK u : u = mountList'
  OBVIOUS
<1>4. /\ u \in Seq(Paths) /\ Len(u) = Len(s) - 1
      /\ \A j \in 1 .. Len(s) - 1 : u[j] = IF j < i THEN s[j] ELSE s[j + 1]
  <2>1. PICK n \in Nat : n = Len(s)
    BY <1>1
  <2>2. PICK h \in Int : h = i - 1
    BY <2>1
  <2>3. PICK l \in Int : l = i + 1
    BY <2>1
  <2> DEFINE A == SubSeq(s, 1, h)
             B == SubSeq(s, l, n)
  <2>4. A \in Seq(Paths) /\ Len(A) = i - 1 /\ \A j \in 1 .. i - 1 : A[j] = s[j]
    <3>1. \A j \in 1 .. h : s[j] \in Paths
      BY <1>1, <2>1, <2>2
    <3>2. /\ A \in Seq(Paths) /\ Len(A) = IF 1 <= h THEN h - 1 + 1 ELSE 0
          /\ \A j \in 1 .. h - 1 + 1 : A[j] = s[1 + j - 1]
      BY <3>1, SubSeqProperties
    <3> HIDE DEF A
    <3> QED
      BY <2>1, <2>2, <3>2
  <2>5. B \in Seq(Paths) /\ Len(B) = n - i /\ \A j \in 1 .. n - i : B[j] = s[i + j]
    <3>1. \A j \in l .. n : s[j] \in Paths
      BY <1>1, <2>1, <2>3
    <3>2. n \in Int
      BY <2>1
    <3>3. /\ B \in Seq(Paths) /\ Len(B) = IF l <= n THEN n - l + 1 ELSE 0
          /\ \A j \in 1 .. n - l + 1 : B[j] = s[l + j - 1]
      BY <3>1, <3>2, SubSeqProperties
    <3> HIDE DEF B
    <3>4. \A j \in 1 .. n - i : j \in 1 .. n - l + 1 /\ l + j - 1 = i + j
      BY <2>1, <2>3
    <3>5. Len(B) = n - i
      BY <2>1, <2>3, <3>3
    <3> QED
      BY <3>3, <3>4, <3>5
  <2>6. u = A \o B
    BY <1>3, <2>1, <2>2, <2>3 DEF RemoveAt
  <2> HIDE DEF A, B
  <2>7. /\ A \o B \in Seq(Paths) /\ Len(A \o B) = Len(A) + Len(B)
        /\ \A j \in 1 .. Len(A) + Len(B) : (A \o B)[j] = IF j <= Len(A) THEN A[j] ELSE B[j - Len(A)]
    BY <2>4, <2>5, ConcatProperties
  <2>8. /\ u \in Seq(Paths) /\ Len(u) = n - 1
        /\ \A j \in 1 .. n - 1 : u[j] = IF j <= i - 1 THEN A[j] ELSE B[j - (i - 1)]
    <3>1. Len(A) + Len(B) = n - 1
      BY <2>1, <2>4, <2>5
    <3> QED
      BY <2>4, <2>6, <2>7, <3>1
  <2>9. ASSUME NEW j \in 1 .. n - 1
        PROVE  u[j] = IF j < i THEN s[j] ELSE s[j + 1]
    <3>1. CASE j < i
      BY <2>1, <2>4, <2>8, <3>1, SMTT(30), ZenonT(30)
    <3>2. CASE ~ j < i
      <4>1. j - (i - 1) \in 1 .. n - i /\ i + (j - (i - 1)) = j + 1 /\ ~ j <= i - 1
        BY <2>1, <3>2
      <4>2. B[j - (i - 1)] = s[j + 1]
        BY <2>5, <4>1
      <4> QED
        BY <2>1, <2>8, <3>2, <4>1, <4>2
    <3> QED
      BY <3>1, <3>2
  <2> QED
    BY <2>1, <2>8, <2>9
<1>5. DOMAIN u = 1 .. Len(s) - 1
  <2>1. DOMAIN u = 1 .. Len(u)
    BY <1>4, LenProperties
  <2> QED
    BY <1>4, <2>1
<1> DEFINE was(j) == IF j < i THEN j ELSE j + 1
<1>10. /\ \A j \in 1 .. Len(s) - 1 : was(j) \in 1 .. Len(s) /\ was(j) # i /\ u[j] = s[was(j)]
       /\ \A j, k \in 1 .. Len(s) - 1 : j < k => was(j) < was(k)
  BY <1>1, <1>4
<1> HIDE DEF was
<1>6. IsInjective(u)
  <2> SUFFICES ASSUME NEW j \in 1 .. Len(s) - 1, NEW k \in 1 .. Len(s) - 1, u[j] = u[k], j < k PROVE FALSE
    BY <1>1, <1>5 DEF IsInjective
  <2>1. was(j) < was(k) /\ was(j) \in 1 .. Len(s) /\ was(k) \in 1 .. Len(s) /\ s[was(j)] = s[was(k)]
    BY <1>10
  <2> QED
    BY <1>1, <2>1 DEF IsInjective
<1>7. ToSet(u) = Mounts \ {m}
  <2>1. ASSUME NEW j \in 1 .. Len(s), j # i PROVE s[j] \in ToSet(u)
    <3>1. CASE j < i
      <4>1. j \in 1 .. Len(s) - 1
        BY <1>1, <3>1
      <4> QED
        BY <1>4, <1>5, <3>1, <4>1 DEF ToSet
    <3>2. CASE ~ j < i
      <4>1. j - 1 \in 1 .. Len(s) - 1 /\ u[j - 1] = s[j]
        BY <1>1, <1>4, <2>1, <3>2
      <4> QED
        BY <1>5, <4>1 DEF ToSet
    <3> QED
      BY <3>1, <3>2
  <2>2. ASSUME NEW j \in 1 .. Len(s) - 1 PROVE u[j] \in ToSet(s) \ {m}
    <3>1. was(j) \in 1 .. Len(s) /\ was(j) # i /\ u[j] = s[was(j)]
      BY <1>10
    <3>2. s[was(j)] \in ToSet(s) /\ s[was(j)] # m
      BY <1>1, <1>3, <3>1 DEF ToSet, IsInjective
    <3> QED
      BY <3>1, <3>2
  <2>3. ToSet(u) \subseteq ToSet(s) \ {m}
    BY <1>5, <2>2 DEF ToSet
  <2>4. ToSet(s) \ {m} \subseteq ToSet(u)
    BY <1>1, <1>3, <2>1, SMTT(30), ZenonT(30) DEF ToSet
  <2> QED
    BY <1>1, <2>3, <2>4
<1>8. ASSUME NEW j \in 1 .. Len(u), NEW k \in 1 .. Len(u), j < k PROVE Size[u[j]] >= Size[u[k]]
  <2>1. j \in 1 .. Len(s) - 1 /\ k \in 1 .. Len(s) - 1
    BY <1>4
  <2>2. was(j) < was(k) /\ was(j) \in 1 .. Len(s) /\ was(k) \in 1 .. Len(s)
    BY <1>8, <1>10, <2>1
  <2>3. Size[s[was(j)]] >= Size[s[was(k)]]
    BY <1>1, <2>2
  <2> QED
    BY <1>10, <2>1, <2>3
<1>9. /\ Mounts' = Mounts \ {m} /\ Mounts' \subseteq Paths
      /\ mntMap' \in [Mounts' -> FileSystems \ {RootFs}]
  BY DEF Mounts, MountTable
<1> QED
  BY <1>4, <1>6, <1>7, <1>8, <1>9 DEF MountTable

----------------------------------------------------------------------------
(* Where a call goes *)

LEMMA PlaceIs ==
  ASSUME NEW f \in FileSystems, NEW asked, Place(f, asked) # Nowhere
  PROVE  \E s \in Stores, q \in Paths :
           /\ Place(f, asked) = [store |-> s, path |-> q]
           /\ s = RootFs <=> f = RootFs
           /\ f = RootFs => q = asked.rest
<1>1. CASE f \in Adapters
  <2>1. Place(f, asked) = [store |-> Wrapped[f], path |-> Folder[f] \o asked.rest]
        /\ Folder[f] \o asked.rest \in Paths
    BY <1>1 DEF Place, Joined
  <2>2. Wrapped[f] \in Stores /\ Wrapped[f] # RootFs /\ f # RootFs
    BY <1>1, AdapterAssumption, MountAssumption
  <2> QED
    BY <2>1, <2>2
<1>2. CASE f \notin Adapters
  <2>1. Place(f, asked) = [store |-> f, path |-> asked.rest] /\ asked.rest \in Paths
    BY <1>2 DEF Place
  <2>2. f \in Stores
    BY <1>2 DEF FileSystems
  <2> QED
    BY <2>1, <2>2
<1> QED
  BY <1>1, <1>2

(* The tree of RootFs is the one that is asked for a path only if nothing is *)
(* mounted that begins it, and is then asked for that path.                  *)
LEMMA Served ==
  ASSUME MountTable, NEW p \in Paths
  PROVE  /\ GetFs(p).fs \in FileSystems
         /\ GetFs(p).place # Nowhere =>
              \E s \in Stores, q \in Paths :
                /\ GetFs(p).place = [store |-> s, path |-> q]
                /\ TreeOf(p) = trees[s] /\ PathOf(p) = q
                /\ s = RootFs <=> GetFs(p).fs = RootFs
                /\ s = RootFs => Found(p) = {} /\ q = p
<1>1. CASE Found(p) = {}
  <2>1. GetFs(p) = [mount |-> <<>>, fs |-> RootFs, place |-> Place(RootFs, Asked(p, TRUE))]
    BY <1>1 DEF GetFs
  <2>2. RootFs \in FileSystems
    BY MountAssumption DEF FileSystems
  <2>3. Place(RootFs, Asked(p, TRUE)) # Nowhere =>
          \E s \in Stores, q \in Paths :
            /\ Place(RootFs, Asked(p, TRUE)) = [store |-> s, path |-> q]
            /\ s = RootFs /\ q = Asked(p, TRUE).rest
    BY <2>2, PlaceIs
  <2>4. Asked(p, TRUE).rest = p
    BY DEF Asked
  <2>5. GetFs(p).fs = RootFs /\ GetFs(p).place = Place(RootFs, Asked(p, TRUE))
    BY <2>1
  <2>6. RootFs \in Stores
    BY MountAssumption
  <2>7. ASSUME GetFs(p).place # Nowhere
        PROVE  /\ GetFs(p).place = [store |-> RootFs, path |-> p] /\ p \in Paths
               /\ TreeOf(p) = trees[RootFs] /\ PathOf(p) = p
    <3>1. GetFs(p).place = [store |-> RootFs, path |-> p]
      BY <2>3, <2>4, <2>5, <2>7
    <3> QED
      BY <3>1 DEF TreeOf, PathOf
  <2> QED
    BY <1>1, <2>2, <2>5, <2>6, <2>7
<1>2. CASE Found(p) # {}
  <2>1. PICK m : m = GetFs(p).mount /\ m = mountList[Min(Found(p))] /\ m \in Mounts
    BY <1>2, FirstFound
  <2>2. GetFs(p) = [mount |-> m, fs |-> mntMap[m], place |-> Place(mntMap[m], Rests[<<m, p>>])]
    BY <1>2, <2>1 DEF GetFs
  <2>3. PICK f : f = mntMap[m] /\ f \in FileSystems \ {RootFs}
    BY <2>1 DEF MountTable
  <2>4. PICK asked : asked = Rests[<<m, p>>]
    OBVIOUS
  <2>5. Place(f, asked) # Nowhere =>
          \E s \in Stores, q \in Paths :
            /\ Place(f, asked) = [store |-> s, path |-> q]
            /\ s # RootFs
    BY <2>3, PlaceIs
  <2>6. GetFs(p).fs = f /\ GetFs(p).place = Place(f, asked)
    BY <2>2, <2>3, <2>4
  <2>7. /\ f \in FileSystems /\ f # RootFs
    BY <2>3
  <2> QED
    BY <2>5, <2>6, <2>7 DEF TreeOf, PathOf
<1> QED
  BY <1>1, <1>2

(* A call changes a mount point in none of the trees. *)
LEMMA ForwardKeeps ==
  ASSUME MountTable, TreesKept, NEW p \in Paths, NEW node \in Nodes, NEW allowed,
         allowed => \/ CanWrite(TreeOf(p), PathOf(p))
                    \/ CanRmdir(TreeOf(p), PathOf(p)) /\ node = Absent,
         Forward(p, allowed, node)
  PROVE  MountTable' /\ TreesKept'
<1>1. PICK s \in Stores, q \in Paths :
        /\ GetFs(p).place = [store |-> s, path |-> q]
        /\ TreeOf(p) = trees[s] /\ PathOf(p) = q
        /\ s = RootFs => Found(p) = {} /\ q = p
  BY Served DEF Forward
<1>2. /\ CanWrite(trees[s], q) \/ (CanRmdir(trees[s], q) /\ node = Absent)
      /\ UNCHANGED <<made, mntMap, mountList, mountsKept>>
  BY <1>1 DEF Forward
<1>3. trees' = [trees EXCEPT ![s] = With(trees[s], q, node)]
  BY <1>1 DEF Forward
<1>4. trees[s] \in Trees /\ IsTree(trees[s])
  BY DEF TreesKept
<1>5. PICK t \in Trees : t = With(trees[s], q, node)
  BY <1>2, <1>4, WithKeepsTree
<1>6. /\ IsTree(t)
      /\ \A r \in Paths : r # q => t[r] = trees[s][r]
  BY <1>2, <1>4, <1>5, WithKeepsTree
<1>7. /\ trees' \in [Stores -> Trees] /\ \A r \in Stores : trees'[r] = IF r = s THEN t ELSE trees[r]
  BY <1>3, <1>5 DEF TreesKept
<1>8. MountTable'
  BY <1>2 DEF MountTable, Mounts
<1>9. ASSUME mountsKept, NEW m \in Mounts PROVE trees'[RootFs][m] = Dir
  <2>1. m \in Paths /\ trees[RootFs][m] = Dir
    BY <1>9 DEF MountTable, TreesKept
  <2>2. s = RootFs => m # q
    <3>1. StringPrefix(m, m)
      BY <2>1, PrefixOrder, StringPrefixIs DEF StringPrefix
    <3>2. Found(m) # {}
      BY <2>1, <3>1, FirstFound
    <3> QED
      BY <1>1, <3>2
  <2> QED
    BY <1>6, <1>7, <2>1, <2>2, MountAssumption
<1>10. TreesKept'
  <2>1. Mounts' = Mounts /\ mountsKept' = mountsKept /\ made' = made
    BY <1>2 DEF Mounts
  <2> QED
    BY <1>6, <1>7, <1>9, <2>1 DEF TreesKept
<1> QED
  BY <1>8, <1>10

LEMMA NodesAre ==
  /\ Dir \in Nodes /\ Absent \in Nodes /\ \A c \in Contents : File(c) \in Nodes
  /\ \A t, q : (CanCreate(t, q) \/ CanUnlink(t, q)) => CanWrite(t, q)
BY DEF Nodes, CanWrite, CanUnlink

LEMMA AdaptKeeps ==
  ASSUME MountTable, TreesKept, NEW f \in Adapters, Adapt(f),
         UNCHANGED <<mntMap, mountList, mountsKept>>
  PROVE  MountTable' /\ TreesKept'
<1>1. PICK s \in Stores, q \in Paths : s = Wrapped[f] /\ q = Folder[f] /\ s # RootFs
  BY AdapterAssumption, MountAssumption
<1>2. MountTable' /\ Mounts' = Mounts /\ mountsKept' = mountsKept
  BY DEF MountTable, Mounts
<1>3. made' \subseteq FileSystems
  BY DEF Adapt, TreesKept, FileSystems
<1>4. CASE UNCHANGED trees
  BY <1>2, <1>3, <1>4 DEF TreesKept
<1>5. CASE CanCreate(trees[s], q) /\ trees' = [trees EXCEPT ![s] = With(trees[s], q, Dir)]
  <2>1. trees[s] \in Trees /\ IsTree(trees[s]) /\ CanWrite(trees[s], q)
    BY <1>5 DEF TreesKept, CanWrite
  <2>2. PICK t \in Trees : t = With(trees[s], q, Dir) /\ IsTree(t)
    BY <2>1, WithKeepsTree, NodesAre
  <2>3. /\ trees' \in [Stores -> Trees] /\ \A r \in Stores : trees'[r] = IF r = s THEN t ELSE trees[r]
    BY <1>5, <2>2 DEF TreesKept
  <2>4. trees'[RootFs] = trees[RootFs]
    BY <1>1, <2>3, MountAssumption
  <2> QED
    BY <1>2, <1>3, <2>2, <2>3, <2>4 DEF TreesKept
<1> QED
  BY <1>1, <1>4, <1>5 DEF Adapt

LEMMA MountKeeps ==
  ASSUME MountTable, TreesKept, mountsKept, NEW m \in MountPoints, NEW f \in FileSystems, Mount(m, f)
  PROVE  MountTable' /\ TreesKept'
<1>1. m \in Paths \ Mounts /\ f \in FileSystems \ {RootFs}
  BY MountAssumption DEF Mount
<1>2. /\ mntMap' = [q \in Mounts \union {m} |-> IF q = m THEN f ELSE mntMap[q]]
      /\ mountList' = Inserted(mountList, m)
  BY DEF Mount
<1>3. MountTable'
  BY <1>1, <1>2, InsertedKeepsTable
<1>4. Mounts' = Mounts \union {m}
  BY <1>2 DEF Mounts
<1>5. trees[RootFs] \in Trees /\ IsTree(trees[RootFs]) /\ CanMkdirp(trees[RootFs], m)
  BY MountAssumption DEF TreesKept, Mount
<1>6. PICK t \in Trees : /\ t = Mkdirp(trees[RootFs], m) /\ IsTree(t)
                         /\ \A q \in Paths : trees[RootFs][q] = Dir => t[q] = Dir
                         /\ ~ IsFileAt(trees[RootFs], m) => t[m] = Dir
  BY <1>1, <1>5, MkdirpKeepsTree
<1>7. /\ trees' = [trees EXCEPT ![RootFs] = t] /\ made' = made
      /\ mountsKept' = (mountsKept /\ ~ IsFileAt(trees[RootFs], m))
  BY <1>6 DEF Mount
<1>8. /\ trees' \in [Stores -> Trees] /\ \A r \in Stores : trees'[r] = IF r = RootFs THEN t ELSE trees[r]
  BY <1>7, MountAssumption DEF TreesKept
<1>9. /\ \A q \in Mounts : trees[RootFs][q] = Dir /\ q \in Paths
  BY DEF TreesKept, MountTable
<1>10. mountsKept' \in BOOLEAN /\ (mountsKept' => t[m] = Dir)
  BY <1>6, <1>7
<1>11. mountsKept' => \A q \in Mounts' : trees'[RootFs][q] = Dir
  BY <1>4, <1>6, <1>8, <1>9, <1>10, MountAssumption
<1>12. \A r \in Stores : IsTree(trees'[r])
  BY <1>6, <1>8 DEF TreesKept
<1> QED
  BY <1>3, <1>7, <1>8, <1>10, <1>11, <1>12 DEF TreesKept

LEMMA UmountKeeps ==
  ASSUME MountTable, TreesKept, mountsKept, NEW m \in Mounts, Umount(m)
  PROVE  MountTable' /\ TreesKept'
<1>1. /\ mntMap' = [q \in Mounts \ {m} |-> mntMap[q]]
      /\ mountList' = RemoveAt(mountList, CHOOSE i \in DOMAIN mountList : mountList[i] = m)
  BY DEF Umount
<1>2. MountTable'
  BY <1>1, RemovedKeepsTable
<1>3. Mounts' = Mounts \ {m}
  BY <1>1 DEF Mounts
<1>4. trees[RootFs] \in Trees /\ IsTree(trees[RootFs]) /\ m \in Paths
  BY MountAssumption DEF TreesKept, MountTable
<1>5. PICK t \in Trees : /\ t = [q \in Paths |-> IF q \in Vacated(trees[RootFs], m) THEN Absent ELSE trees[RootFs][q]]
                         /\ IsTree(t)
  BY <1>4, VacatedKeepsTree
<1>6. /\ trees' = [trees EXCEPT ![RootFs] = t] /\ made' = made
      /\ mountsKept' = (mountsKept /\ Mounts \cap Vacated(trees[RootFs], m) \subseteq {m})
  BY <1>5 DEF Umount
<1>7. /\ trees' \in [Stores -> Trees] /\ \A r \in Stores : trees'[r] = IF r = RootFs THEN t ELSE trees[r]
  BY <1>6, MountAssumption DEF TreesKept
<1>8. mountsKept' => \A q \in Mounts' : trees'[RootFs][q] = Dir
  <2> SUFFICES ASSUME mountsKept', NEW q \in Mounts, q # m PROVE trees'[RootFs][q] = Dir
    BY <1>3
  <2>1. q \in Paths /\ trees[RootFs][q] = Dir
    BY DEF TreesKept, MountTable
  <2>2. q \notin Vacated(trees[RootFs], m)
    BY <1>6
  <2> QED
    BY <1>5, <1>7, <2>1, <2>2, MountAssumption
<1>9. \A r \in Stores : IsTree(trees'[r])
  BY <1>5, <1>7 DEF TreesKept
<1>10. mountsKept' \in BOOLEAN
  BY <1>6
<1> QED
  BY <1>2, <1>6, <1>7, <1>8, <1>9, <1>10 DEF TreesKept

LEMMA RenameWithinKeeps ==
  ASSUME MountTable, TreesKept, mountsKept, NEW old \in Paths, NEW new \in Paths, RenameWithin(old, new)
  PROVE  MountTable' /\ TreesKept'
<1>1. PICK s \in Stores, q \in Paths :
        /\ GetFs(old).place = [store |-> s, path |-> q]
        /\ s = RootFs <=> GetFs(old).fs = RootFs
        /\ s = RootFs => q = old
  BY Served DEF RenameWithin
<1>2. PICK z \in Stores, r \in Paths :
        /\ GetFs(new).place = [store |-> z, path |-> r]
        /\ z = RootFs <=> GetFs(new).fs = RootFs
        /\ z = RootFs => r = new
  BY Served, SMTT(30), ZenonT(30) DEF RenameWithin
<1>3. s = RootFs => z = RootFs
  BY <1>1, <1>2 DEF RenameWithin
<1>4. /\ CanRename(trees[s], q, r)
      /\ trees' = [trees EXCEPT ![s] = Renamed(trees[s], q, r)]
      /\ mountsKept' = (mountsKept /\ ~ (s = RootFs /\ \E m \in Mounts : IsPrefix(old, m) \/ IsPrefix(new, m)))
      /\ UNCHANGED <<made, mntMap, mountList>>
  BY <1>1, <1>2 DEF RenameWithin
<1>5. trees[s] \in Trees /\ IsTree(trees[s])
  BY DEF TreesKept
<1>6. PICK t \in Trees : /\ t = Renamed(trees[s], q, r) /\ IsTree(t)
                         /\ \A x \in Paths : ~ IsPrefix(q, x) /\ ~ IsPrefix(r, x) => t[x] = trees[s][x]
  BY <1>4, <1>5, RenamedKeepsTree
<1>7. /\ trees' \in [Stores -> Trees] /\ \A x \in Stores : trees'[x] = IF x = s THEN t ELSE trees[x]
  BY <1>4, <1>6 DEF TreesKept
<1>8. MountTable' /\ Mounts' = Mounts
  BY <1>4 DEF MountTable, Mounts
<1>9. mountsKept' => \A m \in Mounts' : trees'[RootFs][m] = Dir
  <2> SUFFICES ASSUME mountsKept', NEW m \in Mounts PROVE trees'[RootFs][m] = Dir
    BY <1>8
  <2>1. m \in Paths /\ trees[RootFs][m] = Dir
    BY DEF TreesKept, MountTable
  <2>2. s = RootFs => ~ IsPrefix(q, m) /\ ~ IsPrefix(r, m)
    BY <1>1, <1>2, <1>3, <1>4
  <2> QED
    BY <1>6, <1>7, <2>1, <2>2, MountAssumption
<1>10. \A x \in Stores : IsTree(trees'[x])
  BY <1>6, <1>7 DEF TreesKept
<1>11. mountsKept' \in BOOLEAN /\ made' = made
  BY <1>4
<1> QED
  BY <1>7, <1>8, <1>9, <1>10, <1>11 DEF TreesKept

LEMMA CallsKeep ==
  ASSUME MountTable, TreesKept, mountsKept, MountCalls
  PROVE  MountTable' /\ TreesKept'
<1>1. ASSUME NEW f \in Adapters, Adapt(f), UNCHANGED <<mntMap, mountList, mountsKept>>
      PROVE  MountTable' /\ TreesKept'
  BY <1>1, AdaptKeeps
<1>2. ASSUME NEW m \in MountPoints, NEW f \in FileSystems, Mount(m, f) PROVE MountTable' /\ TreesKept'
  BY <1>2, MountKeeps
<1>3. ASSUME NEW m \in Mounts, Umount(m) PROVE MountTable' /\ TreesKept'
  BY <1>3, UmountKeeps
<1>4. ASSUME NEW p \in Paths, Mkdir(p) PROVE MountTable' /\ TreesKept'
  BY <1>4, ForwardKeeps, NodesAre DEF Mkdir
<1>5. ASSUME NEW p \in Paths, Unlink(p) PROVE MountTable' /\ TreesKept'
  BY <1>5, ForwardKeeps, NodesAre DEF Unlink
<1>6. ASSUME NEW p \in Paths, Rmdir(p) PROVE MountTable' /\ TreesKept'
  BY <1>6, ForwardKeeps, NodesAre DEF Rmdir
<1>7. ASSUME NEW p \in Paths, NEW c \in Written, WriteFile(p, c) PROVE MountTable' /\ TreesKept'
  BY <1>7, ForwardKeeps, NodesAre, MountAssumption DEF WriteFile
<1>8. ASSUME NEW old \in Paths, NEW new \in Paths, RenameWithin(old, new)
      PROVE  MountTable' /\ TreesKept'
  BY <1>8, RenameWithinKeeps
<1> QED
  BY <1>1, <1>2, <1>3, <1>4, <1>5, <1>6, <1>7, <1>8 DEF MountCalls

----------------------------------------------------------------------------
(* The rename between two file systems *)

MovingTyped ==
  moving \in [at : {"none", "open", "close", "unlink"}, old : Paths, new : Paths,
              data : Contents, safe : BOOLEAN]

(* As long as nobody else changed the two paths: the old one has the file    *)
(* until the new one is complete.                                            *)
MovingKept ==
  moving.at # "none" /\ moving.safe =>
    /\ GetFs(moving.old).place # GetFs(moving.new).place
    /\ moving.at # "unlink" => Node(moving.old) = File(moving.data)
    /\ moving.at = "unlink" => Node(moving.new) = File(moving.data)

LEMMA StepsKeep ==
  ASSUME MountTable, TreesKept, MovingTyped, Renames
  PROVE  MountTable' /\ TreesKept'
<1>1. ASSUME UNCHANGED <<trees, made, mntMap, mountList, mountsKept>> PROVE MountTable' /\ TreesKept'
  BY <1>1 DEF MountTable, TreesKept, Mounts
<1> PICK old \in Paths, new \in Paths, c \in Contents : old = moving.old /\ new = moving.new /\ c = moving.data
  BY DEF MovingTyped
<1>2. ASSUME NEW o \in Paths, NEW n \in Paths, RenameBetween(o, n) PROVE MountTable' /\ TreesKept'
  BY <1>1, <1>2 DEF RenameBetween
<1>3. ASSUME OpenNew PROVE MountTable' /\ TreesKept'
  BY <1>3, ForwardKeeps, NodesAre, TreesAssumption DEF OpenNew
<1>4. ASSUME CloseNew PROVE MountTable' /\ TreesKept'
  BY <1>4, ForwardKeeps, NodesAre DEF CloseNew, CanWrite
<1>5. ASSUME UnlinkMoved PROVE MountTable' /\ TreesKept'
  BY <1>5, ForwardKeeps, NodesAre DEF UnlinkMoved
<1>6. ASSUME RenameFails PROVE MountTable' /\ TreesKept'
  BY <1>1, <1>6 DEF RenameFails
<1> QED
  BY <1>2, <1>3, <1>4, <1>5, <1>6 DEF Renames

LEMMA SamePlaces ==
  ASSUME mntMap' = mntMap, mountList' = mountList, NEW p
  PROVE  GetFs(p)' = GetFs(p)
BY DEF GetFs, Found

(* Who mounts or unmounts changes the map. *)
LEMMA SameMounts ==
  ASSUME MountTable, MountCalls, mntMap' = mntMap
  PROVE  mountList' = mountList
<1>1. ASSUME NEW m, NEW f, Mount(m, f) PROVE FALSE
  <2>1. m \notin Mounts /\ Mounts' = Mounts \union {m}
    BY <1>1 DEF Mount, Mounts
  <2> QED
    BY <2>1 DEF Mounts
<1>2. ASSUME NEW m \in Mounts, Umount(m) PROVE FALSE
  <2>1. Mounts' = Mounts \ {m}
    BY <1>2 DEF Umount, Mounts
  <2> QED
    BY <2>1 DEF Mounts
<1> QED
  BY <1>1, <1>2 DEF MountCalls, Mkdir, WriteFile, Unlink, Rmdir, Forward, RenameWithin

(* What is put at one place is not seen at another. *)
LEMMA ForwardPuts ==
  ASSUME MountTable, TreesKept, NEW p \in Paths, NEW node, NEW allowed, Forward(p, allowed, node)
  PROVE  /\ \A q : GetFs(q)' = GetFs(q)
         /\ Node(p)' = node
         /\ \A q \in Paths : GetFs(q).place # GetFs(p).place => Node(q)' = Node(q)
<1>1. PICK s \in Stores, r \in Paths :
        GetFs(p).place = [store |-> s, path |-> r]
  BY Served DEF Forward
<1>2. \A q : GetFs(q)' = GetFs(q)
  BY SamePlaces DEF Forward
<1>3. trees' = [trees EXCEPT ![s] = [trees[s] EXCEPT ![r] = node]]
  BY <1>1 DEF Forward, With
<1>4. /\ trees'[s][r] = node
      /\ \A z \in Stores, q \in Paths : z # s \/ q # r => trees'[z][q] = trees[z][q]
  BY <1>3 DEF TreesKept, Trees
<1>5. Node(p)' = node
  BY <1>1, <1>2, <1>4 DEF Node, NodeAt, Forward
<1>6. ASSUME NEW q \in Paths, GetFs(q).place # GetFs(p).place PROVE Node(q)' = Node(q)
  <2>1. CASE GetFs(q).place = Nowhere
    BY <1>2, <2>1 DEF Node, NodeAt
  <2>2. CASE GetFs(q).place # Nowhere
    <3>1. PICK z \in Stores, y \in Paths : GetFs(q).place = [store |-> z, path |-> y]
      BY <2>2, Served
    <3>2. trees'[z][y] = trees[z][y]
      BY <1>1, <1>4, <1>6, <3>1
    <3> QED
      BY <1>2, <2>2, <3>1, <3>2 DEF Node, NodeAt
  <2> QED
    BY <2>1, <2>2
<1> QED
  BY <1>2, <1>5, <1>6

LEMMA NodeIsNode ==
  ASSUME MountTable, TreesKept, NEW p \in Paths
  PROVE  Node(p) \in Nodes
<1>1. CASE GetFs(p).place = Nowhere
  BY <1>1 DEF Node, NodeAt, Nodes
<1>2. CASE GetFs(p).place # Nowhere
  <2>1. PICK s \in Stores, q \in Paths : GetFs(p).place = [store |-> s, path |-> q]
    BY <1>2, Served
  <2> QED
    BY <1>2, <2>1 DEF Node, NodeAt, TreesKept, Trees
<1> QED
  BY <1>1, <1>2

LEMMA MeanwhileKeeps ==
  ASSUME MountTable, TreesKept, MovingTyped, MovingKept, MountCalls, Meanwhile
  PROVE  MovingTyped' /\ MovingKept'
<1> PICK old \in Paths, new \in Paths, c \in Contents : old = moving.old /\ new = moving.new /\ c = moving.data
  BY DEF MovingTyped
<1>1. PICK b \in BOOLEAN : b = (moving.safe /\ mntMap' = mntMap /\ \A p \in {old, new} : Node(p)' = Node(p))
  OBVIOUS
<1>2. moving' = [moving EXCEPT !.safe = b]
  BY <1>1 DEF Meanwhile
<1>3. /\ MovingTyped' /\ moving'.old = old /\ moving'.new = new /\ moving'.data = c
      /\ moving'.at = moving.at /\ moving'.safe = b
  BY <1>2 DEF MovingTyped
<1>4. CASE b /\ moving.at # "none"
  <2>1. /\ moving.safe /\ mntMap' = mntMap /\ Node(old)' = Node(old) /\ Node(new)' = Node(new)
    BY <1>1, <1>4
  <2>2. mountList' = mountList
    BY <2>1, SameMounts
  <2>3. GetFs(old)' = GetFs(old) /\ GetFs(new)' = GetFs(new)
    BY <2>1, <2>2, SamePlaces
  <2> QED
    BY <1>3, <1>4, <2>1, <2>3 DEF MovingKept
<1>5. CASE ~ (b /\ moving.at # "none")
  BY <1>3, <1>5 DEF MovingKept
<1> QED
  BY <1>4, <1>5

LEMMA RenamesKeep ==
  ASSUME MountTable, TreesKept, MovingTyped, MovingKept, Renames
  PROVE  MovingTyped' /\ MovingKept'
<1> PICK old \in Paths, new \in Paths, c \in Contents, safe \in BOOLEAN :
      old = moving.old /\ new = moving.new /\ c = moving.data /\ safe = moving.safe
  BY DEF MovingTyped
<1>1. ASSUME NEW o \in Paths, NEW n \in Paths, RenameBetween(o, n) PROVE MovingTyped' /\ MovingKept'
  <2>1. PICK node \in Nodes : node = Node(o) /\ node.type = "file" /\ node = File(node.bytes)
    BY <1>1, NodeIsNode, NodesDiffer DEF RenameBetween
  <2>2. node.bytes \in Contents
    BY <2>1, NodesDiffer DEF Nodes, File
  <2>3. PICK b \in BOOLEAN : b = (GetFs(o).place # GetFs(n).place)
    OBVIOUS
  <2>4. moving' = [at |-> "open", old |-> o, new |-> n, data |-> node.bytes, safe |-> b]
    BY <1>1, <2>1, <2>3 DEF RenameBetween
  <2>5. MovingTyped'
    BY <2>2, <2>4 DEF MovingTyped
  <2>6. trees' = trees /\ mntMap' = mntMap /\ mountList' = mountList
    BY <1>1 DEF RenameBetween
  <2>7. GetFs(o)' = GetFs(o) /\ GetFs(n)' = GetFs(n)
    BY <2>6, SamePlaces
  <2>8. Node(o)' = Node(o)
    BY <2>6, <2>7 DEF Node, NodeAt
  <2>9. moving'.old = o /\ moving'.new = n /\ moving'.data = node.bytes /\ moving'.at = "open" /\ moving'.safe = b
    BY <2>4
  <2> QED
    BY <2>1, <2>3, <2>5, <2>7, <2>8, <2>9 DEF MovingKept
<1>2. ASSUME NEW where \in {"close", "unlink"}, Goes(where)
      PROVE  /\ MovingTyped' /\ moving'.old = old /\ moving'.new = new /\ moving'.data = c
             /\ moving'.at = where /\ moving'.safe = safe
  BY <1>2 DEF MovingTyped, Goes
<1>3. ASSUME Answers PROVE MovingTyped' /\ MovingKept'
  BY <1>3, TreesAssumption DEF Answers, NotMoving, MovingTyped, MovingKept
<1>4. ASSUME OpenNew PROVE MovingTyped' /\ MovingKept'
  <2>1. /\ moving.at = "open" /\ Goes("close")
        /\ Forward(new, CanWrite(TreeOf(new), PathOf(new)), File(Empty))
    BY <1>4 DEF OpenNew
  <2>2. /\ \A q : GetFs(q)' = GetFs(q)
        /\ \A q \in Paths : GetFs(q).place # GetFs(new).place => Node(q)' = Node(q)
    BY <2>1, ForwardPuts
  <2>3. /\ MovingTyped' /\ moving'.old = old /\ moving'.new = new /\ moving'.data = c
        /\ moving'.at = "close" /\ moving'.safe = safe
    BY <1>2, <2>1
  <2> QED
    BY <2>1, <2>2, <2>3 DEF MovingKept
<1>5. ASSUME CloseNew PROVE MovingTyped' /\ MovingKept'
  <2>1. /\ moving.at = "close" /\ Goes("unlink")
        /\ Forward(new, IsFileAt(TreeOf(new), PathOf(new)), File(c))
    BY <1>5 DEF CloseNew
  <2>2. /\ \A q : GetFs(q)' = GetFs(q)
        /\ Node(new)' = File(c)
    BY <2>1, ForwardPuts
  <2>3. /\ MovingTyped' /\ moving'.old = old /\ moving'.new = new /\ moving'.data = c
        /\ moving'.at = "unlink" /\ moving'.safe = safe
    BY <1>2, <2>1
  <2> QED
    BY <2>1, <2>2, <2>3 DEF MovingKept
<1>6. ASSUME UnlinkMoved PROVE MovingTyped' /\ MovingKept'
  BY <1>3, <1>6 DEF UnlinkMoved
<1>7. ASSUME RenameFails PROVE MovingTyped' /\ MovingKept'
  BY <1>3, <1>7 DEF RenameFails
<1> QED
  BY <1>1, <1>4, <1>5, <1>6, <1>7 DEF Renames

MountInv == MountTable /\ TreesKept /\ MovingTyped /\ MovingKept

LEMMA MountInitInv == MountInit => MountInv
<1> SUFFICES ASSUME MountInit PROVE MountInv
  OBVIOUS
<1>1. Mounts = {} /\ mountList = <<>> /\ moving = NotMoving /\ mountsKept = TRUE
  BY DEF MountInit, Mounts
<1>2. MountTable
  <2>1. <<>> \in Seq(Paths) /\ DOMAIN <<>> = {} /\ Len(<<>>) = 0
    OBVIOUS
  <2> QED
    BY <1>1, <2>1 DEF MountTable, MountInit, Mounts, ToSet, IsInjective
<1>3. trees = [s \in Stores |-> EmptyTree] /\ made = Stores
  BY DEF MountInit, FSInit
<1>4. EmptyTree \in Trees /\ IsTree(EmptyTree)
  <2>1. EmptyTree \in Trees
    BY DEF EmptyTree, Trees, Nodes
  <2>2. EmptyTree[<<>>] = Dir /\ \A p \in Paths \ {<<>>} : EmptyTree[p] = Absent
    BY PathsAre DEF EmptyTree
  <2> QED
    BY <2>1, <2>2 DEF IsTree
<1>5. TreesKept
  <2> PICK t \in Trees : t = EmptyTree /\ IsTree(t)
    BY <1>4
  <2>1. trees \in [Stores -> Trees] /\ \A s \in Stores : trees[s] = t
    BY <1>3
  <2> QED
    BY <1>1, <1>3, <2>1 DEF TreesKept, FileSystems
<1>6. MovingTyped /\ MovingKept
  BY <1>1, TreesAssumption DEF NotMoving, MovingTyped, MovingKept
<1> QED
  BY <1>2, <1>5, <1>6 DEF MountInv

LEMMA MountNextInv ==
  ASSUME MountInv, [MountNext]_mountVars
  PROVE  MountInv'
<1>1. CASE mountsKept /\ MountCalls /\ Meanwhile
  BY <1>1, CallsKeep, MeanwhileKeeps DEF MountInv
<1>2. CASE mountsKept /\ Renames
  BY <1>2, StepsKeep, RenamesKeep DEF MountInv
<1>3. CASE UNCHANGED mountVars
  <2>1. /\ trees' = trees /\ made' = made /\ mntMap' = mntMap /\ mountList' = mountList
        /\ moving' = moving /\ mountsKept' = mountsKept
    BY <1>3 DEF mountVars
  <2>2. \A p : GetFs(p)' = GetFs(p)
    BY <2>1, SamePlaces
  <2>3. MovingKept'
    BY <2>1, <2>2 DEF MountInv, MovingKept, Node, NodeAt
  <2> QED
    BY <2>1, <2>3 DEF MountInv, MountTable, TreesKept, MovingTyped, Mounts
<1> QED
  BY <1>1, <1>2, <1>3 DEF MountNext

LEMMA MountInvAlways == MountSpec => []MountInv
  BY MountInitInv, MountNextInv, PTL DEF MountSpec

THEOREM NearestServesAlways == MountSpec => []NearestServes
<1>1. MountInv => NearestServes
  BY ServesNearest DEF MountInv
<1> QED
  BY <1>1, MountInvAlways, PTL

LEMMA StepLosesNothing ==
  ASSUME MountInv, [MountNext]_mountVars, moving.at # "none", moving.safe,
         moving' = NotMoving \/ moving'.safe
  PROVE  \E p \in {moving.old, moving.new}, node \in {File(moving.data)} : Node(p)' = node
<1> PICK old \in Paths, new \in Paths, c \in Contents : old = moving.old /\ new = moving.new /\ c = moving.data
  BY DEF MountInv, MovingTyped
<1>1. SUFFICES Node(old)' = File(c) \/ Node(new)' = File(c)
  OBVIOUS
<1>2. /\ GetFs(old).place # GetFs(new).place
      /\ Node(old) = File(c) \/ Node(new) = File(c)
      /\ moving.at = "unlink" => Node(new) = File(c)
      /\ moving.at # "unlink" => Node(old) = File(c)
  BY DEF MountInv, MovingKept
<1>3. ASSUME UNCHANGED <<trees, mntMap, mountList>> PROVE Node(old)' = File(c) \/ Node(new)' = File(c)
  <2>1. GetFs(old)' = GetFs(old) /\ GetFs(new)' = GetFs(new)
    BY <1>3, SamePlaces
  <2> QED
    BY <1>2, <1>3, <2>1 DEF Node, NodeAt
<1>4. CASE MountCalls /\ Meanwhile
  <2>1. moving' = [moving EXCEPT !.safe = moving.safe /\ mntMap' = mntMap
                                           /\ \A p \in {old, new} : Node(p)' = Node(p)]
    BY <1>4 DEF Meanwhile
  <2>2. moving'.at = moving.at
    BY <2>1 DEF MountInv, MovingTyped
  <2>3. moving'.safe
    BY <2>2 DEF NotMoving
  <2>4. \A p \in {old, new} : Node(p)' = Node(p)
    BY <2>1, <2>3 DEF MountInv, MovingTyped
  <2> QED
    BY <1>2, <2>4
<1>5. CASE OpenNew
  <2>1. Forward(new, CanWrite(TreeOf(new), PathOf(new)), File(Empty)) /\ moving.at = "open"
    BY <1>5 DEF OpenNew
  <2>2. Node(old)' = Node(old)
    BY <1>2, <2>1, ForwardPuts DEF MountInv
  <2> QED
    BY <1>2, <2>1, <2>2
<1>6. CASE CloseNew
  <2>1. Forward(new, IsFileAt(TreeOf(new), PathOf(new)), File(c))
    BY <1>6 DEF CloseNew
  <2> QED
    BY <2>1, ForwardPuts DEF MountInv
<1>7. CASE UnlinkMoved
  <2>1. Forward(old, CanUnlink(TreeOf(old), PathOf(old)), Absent) /\ moving.at = "unlink"
    BY <1>7 DEF UnlinkMoved
  <2>2. Node(new)' = Node(new)
    BY <1>2, <2>1, ForwardPuts DEF MountInv
  <2> QED
    BY <1>2, <2>1, <2>2
<1>8. CASE \E o, n \in Paths : RenameBetween(o, n)
  BY <1>8 DEF RenameBetween
<1>9. CASE RenameFails
  BY <1>3, <1>9 DEF RenameFails
<1>10. CASE UNCHANGED mountVars
  BY <1>3, <1>10 DEF mountVars
<1> QED
  BY <1>4, <1>5, <1>6, <1>7, <1>8, <1>9, <1>10 DEF MountNext, Renames

THEOREM RenameNeverLoses == MountSpec => RenameLosesNothing
<1>1. ASSUME MountInv, [MountNext]_mountVars
      PROVE  [moving.at # "none" /\ moving.safe /\ (moving' = NotMoving \/ moving'.safe)
                => \E p \in {moving.old, moving.new}, node \in {File(moving.data)} : Node(p)' = node]_mountVars
  BY <1>1, StepLosesNothing
<1> QED
  BY <1>1, MountInvAlways, PTL DEF MountSpec, RenameLosesNothing

----------------------------------------------------------------------------
(* What is there is listed. *)

LEMMA FrontOf ==
  ASSUME NEW q \in Seq(Name), q # <<>>
  PROVE  /\ Len(q) \in Nat \ {0} /\ Front(q) \in Seq(Name) /\ Len(Front(q)) = Len(q) - 1
         /\ \A i \in 1 .. Len(q) - 1 : Front(q)[i] = q[i]
         /\ Last(q) = q[Len(q)]
<1>1. Len(q) \in Nat \ {0}
  BY EmptySeq
<1>2. PICK n \in Int : n = Len(q) - 1
  BY <1>1
<1>3. \A i \in 1 .. n : q[i] \in Name
  BY <1>1, <1>2
<1>4. /\ SubSeq(q, 1, n) \in Seq(Name) /\ Len(SubSeq(q, 1, n)) = IF 1 <= n THEN n - 1 + 1 ELSE 0
      /\ \A i \in 1 .. n - 1 + 1 : SubSeq(q, 1, n)[i] = q[1 + i - 1]
  BY <1>3, SubSeqProperties
<1>5. Front(q) = SubSeq(q, 1, n)
  BY <1>2 DEF Front
<1>6. Front(q) \in Seq(Name) /\ Len(Front(q)) = n
  BY <1>1, <1>2, <1>4, <1>5
<1>7. \A i \in 1 .. n : i \in 1 .. n - 1 + 1 /\ 1 + i - 1 = i
  BY <1>2
<1> QED
  BY <1>1, <1>2, <1>4, <1>5, <1>6, <1>7 DEF Last

LEMMA JoinedFront ==
  ASSUME NEW a \in Seq(Name), NEW b \in Seq(Name), b # <<>>
  PROVE  a \o b # <<>> /\ Front(a \o b) = a \o Front(b) /\ Last(a \o b) = Last(b)
<1>1. /\ Len(a) \in Nat /\ Len(b) \in Nat \ {0} /\ Front(b) \in Seq(Name) /\ Len(Front(b)) = Len(b) - 1
      /\ \A i \in 1 .. Len(b) - 1 : Front(b)[i] = b[i]
      /\ Last(b) = b[Len(b)]
  BY FrontOf
<1> PICK c \in Seq(Name) : c = Front(b)
  BY <1>1
<1>2. /\ a \o b \in Seq(Name) /\ Len(a \o b) = Len(a) + Len(b)
      /\ \A i \in 1 .. Len(a) + Len(b) : (a \o b)[i] = IF i <= Len(a) THEN a[i] ELSE b[i - Len(a)]
  BY ConcatProperties
<1>3. /\ a \o c \in Seq(Name) /\ Len(a \o c) = Len(a) + Len(c)
      /\ \A i \in 1 .. Len(a) + Len(c) : (a \o c)[i] = IF i <= Len(a) THEN a[i] ELSE c[i - Len(a)]
  BY ConcatProperties
<1> PICK u \in Seq(Name) : u = a \o b
  BY <1>2
<1> PICK v \in Seq(Name) : v = a \o c
  BY <1>3
<1>4. Len(u) = Len(a) + Len(b) /\ Len(v) = Len(a) + Len(b) - 1
  BY <1>1, <1>2, <1>3
<1>5. u # <<>>
  BY <1>1, <1>4
<1>6. /\ Front(u) \in Seq(Name) /\ Len(Front(u)) = Len(u) - 1
      /\ \A i \in 1 .. Len(u) - 1 : Front(u)[i] = u[i]
      /\ Last(u) = u[Len(u)]
  BY <1>5, FrontOf
<1>7. ASSUME NEW i \in 1 .. Len(v) PROVE Front(u)[i] = v[i]
  <2>1. i \in 1 .. Len(u) - 1 /\ i \in 1 .. Len(a) + Len(b) /\ i \in 1 .. Len(a) + Len(c)
    BY <1>1, <1>4
  <2>2. Front(u)[i] = IF i <= Len(a) THEN a[i] ELSE b[i - Len(a)]
    BY <1>2, <1>6, <2>1
  <2>3. v[i] = IF i <= Len(a) THEN a[i] ELSE c[i - Len(a)]
    BY <1>3, <2>1
  <2>4. ~ i <= Len(a) => b[i - Len(a)] = c[i - Len(a)]
    <3>1. ~ i <= Len(a) => i - Len(a) \in 1 .. Len(b) - 1
      BY <1>1, <2>1
    <3> QED
      BY <1>1, <3>1
  <2> QED
    BY <2>2, <2>3, <2>4
<1>8. Front(u) = v
  <2>1. Len(Front(u)) = Len(v) /\ Front(u) \in Seq(Name)
    BY <1>4, <1>6
  <2>2. \A i \in 1 .. Len(Front(u)) : Front(u)[i] = v[i]
    BY <1>7, <2>1
  <2> QED
    BY <2>1, <2>2, SeqEqual
<1>9. u[Len(u)] = b[Len(b)]
  <2>1. Len(u) \in 1 .. Len(a) + Len(b) /\ ~ Len(u) <= Len(a) /\ Len(u) - Len(a) = Len(b)
    BY <1>1, <1>4
  <2> QED
    BY <1>2, <2>1
<1> QED
  BY <1>1, <1>5, <1>6, <1>8, <1>9

LEMMA RestOf ==
  ASSUME NEW p \in Paths, NEW m \in Paths, IsPrefix(m, p), m # p
  PROVE  /\ SubSeq(p, Len(m) + 1, Len(p)) \in Seq(Name) \ {<<>>}
         /\ Last(SubSeq(p, Len(m) + 1, Len(p))) = Last(p)
         /\ Front(SubSeq(p, Len(m) + 1, Len(p))) = SubSeq(Parent(p), Len(m) + 1, Len(Parent(p)))
<1>1. /\ p \in Seq(Name) /\ m \in Seq(Name) /\ Len(p) \in Nat /\ Len(m) \in Nat
      /\ p # <<>>
  BY PathsAre, PrefixOrder
<1>2. Len(m) < Len(p)
  <2>1. Len(m) <= Len(p) /\ \A i \in 1 .. Len(m) : m[i] = p[i]
    BY <1>1, PrefixIs
  <2>2. Len(m) # Len(p)
    BY <1>1, <2>1, SeqEqual
  <2> QED
    BY <1>1, <2>1, <2>2
<1>3. /\ Parent(p) \in Seq(Name) /\ Len(Parent(p)) = Len(p) - 1
      /\ \A i \in 1 .. Len(p) - 1 : Parent(p)[i] = p[i]
  BY <1>1, ParentIs, PathsAre
<1>4. PICK l \in Int : l = Len(m) + 1
  BY <1>1
<1>5. PICK n \in Int : n = Len(p)
  BY <1>1
<1>6. PICK k \in Int : k = Len(Parent(p))
  BY <1>1, <1>3
<1> PICK u, v : u = SubSeq(p, l, n) /\ v = SubSeq(Parent(p), l, k)
  OBVIOUS
<1>7. u \in Seq(Name) /\ Len(u) = n - l + 1 /\ \A i \in 1 .. n - l + 1 : u[i] = p[l + i - 1]
  <2>1. \A i \in l .. n : p[i] \in Name
    BY <1>1, <1>4, <1>5
  <2>2. /\ u \in Seq(Name) /\ Len(u) = IF l <= n THEN n - l + 1 ELSE 0
        /\ \A i \in 1 .. n - l + 1 : u[i] = p[l + i - 1]
    BY <2>1, SubSeqProperties
  <2> QED
    BY <1>1, <1>2, <1>4, <1>5, <2>2
<1>8. v \in Seq(Name) /\ Len(v) = n - l /\ \A i \in 1 .. n - l : v[i] = Parent(p)[l + i - 1]
  <2>1. \A i \in l .. k : Parent(p)[i] \in Name
    BY <1>1, <1>3, <1>4, <1>6
  <2>2. /\ v \in Seq(Name) /\ Len(v) = IF l <= k THEN k - l + 1 ELSE 0
        /\ \A i \in 1 .. k - l + 1 : v[i] = Parent(p)[l + i - 1]
    BY <2>1, SubSeqProperties
  <2>3. k - l + 1 = n - l /\ (~ l <= k => n - l = 0)
    BY <1>1, <1>2, <1>3, <1>4, <1>5, <1>6
  <2> QED
    BY <1>4, <1>6, <2>2, <2>3
<1>14. n - l + 1 \in Nat \ {0} /\ l + (n - l + 1) - 1 = n
  BY <1>1, <1>2, <1>4, <1>5
<1>9. u # <<>>
  BY <1>7, <1>14
<1>10. /\ Front(u) \in Seq(Name) /\ Len(Front(u)) = Len(u) - 1
       /\ \A i \in 1 .. Len(u) - 1 : Front(u)[i] = u[i]
       /\ Last(u) = u[Len(u)]
  BY <1>7, <1>9, FrontOf
<1>11. Last(u) = Last(p)
  <2>1. Len(u) \in 1 .. n - l + 1 /\ l + Len(u) - 1 = Len(p)
    BY <1>5, <1>7, <1>14
  <2> QED
    BY <1>7, <1>10, <2>1 DEF Last
<1>12. ASSUME NEW i \in 1 .. Len(v) PROVE Front(u)[i] = v[i]
  <2>1. i \in 1 .. n - l /\ i \in 1 .. n - l + 1 /\ i \in 1 .. Len(u) - 1 /\ l + i - 1 \in 1 .. Len(p) - 1
    BY <1>1, <1>4, <1>5, <1>7, <1>8
  <2> QED
    BY <1>3, <1>7, <1>8, <1>10, <2>1
<1>13. Front(u) = v
  <2>1. Len(Front(u)) = Len(v)
    BY <1>4, <1>5, <1>7, <1>8, <1>10
  <2> QED
    BY <1>8, <1>10, <1>12, <2>1, SeqEqual
<1> QED
  BY <1>4, <1>5, <1>6, <1>7, <1>9, <1>11, <1>13

LEMMA ChildOf ==
  ASSUME TreesKept, NEW s \in Stores, NEW q \in Paths \ {<<>>}, trees[s][q] # Absent
  PROVE  Last(q) \in ChildrenAt([store |-> s, path |-> Parent(q)])
<1>1. IsDirAt(trees[s], Parent(q))
  BY DEF TreesKept, IsTree, IsDirAt
<1>2. PICK place : place = [store |-> s, path |-> Parent(q)]
  OBVIOUS
<1>3. place.store = s /\ place.path = Parent(q) /\ place # Nowhere
  BY <1>2, AdapterAssumption DEF Nowhere
<1> QED
  BY <1>1, <1>2, <1>3 DEF ChildrenAt

(* What serves a path serves the path above it, unless it is mounted there.  *)
LEMMA ParentServed ==
  ASSUME MountTable, NEW p \in Paths \ {<<>>}, Found(p) # {} => GetFs(p).mount # p, Plain(p)
  PROVE  /\ Found(p) = {} => Found(Parent(p)) = {}
         /\ Found(p) # {} => Found(Parent(p)) # {} /\ Min(Found(Parent(p))) = Min(Found(p))
<1> PICK q \in Paths : q = Parent(p) /\ IsPrefix(q, p) /\ Len(q) = Len(p) - 1
  BY ParentIs
<1>1. ASSUME NEW n \in Paths, StringPrefix(n, q) PROVE StringPrefix(n, p)
  <2>1. CASE IsPrefix(n, q)
    BY <2>1, PrefixOrder, StringPrefixIs DEF StringPrefix
  <2>2. CASE BeginsWithin(n, q)
    <3>1. /\ n # <<>> /\ Len(n) <= Len(q) /\ Parent(n) = SubSeq(q, 1, Len(n) - 1)
          /\ Len(n) \in Nat /\ Len(n) > 0 /\ Len(q) \in Nat /\ Len(p) \in Nat
      BY <2>2, PathsAre DEF BeginsWithin, Parent
    <3>2. Parent(n) \in Paths /\ Len(Parent(n)) = Len(n) - 1
      BY <3>1, ParentIs
    <3>3. SubSeq(Parent(n), 1, Len(Parent(n))) = Parent(n)
      BY <3>2, PathsAre, SubSeqFull
    <3>4. IsPrefix(Parent(n), q)
      BY <3>1, <3>2, <3>3 DEF IsPrefix
    <3>5. IsPrefix(Parent(n), p)
      BY <3>2, <3>4, PrefixOrder
    <3>6. Front(n) = SubSeq(p, 1, Len(n) - 1)
      BY <3>1, <3>2, <3>3, <3>5 DEF IsPrefix, Parent
    <3>7. q[Len(n)] = p[Len(n)]
      <4>1. q \in Seq(Name) /\ p \in Seq(Name) /\ Len(n) \in 1 .. Len(q)
        BY <3>1, PathsAre
      <4>2. \A i \in 1 .. Len(q) : q[i] = p[i]
        BY <4>1, PrefixIs
      <4> QED
        BY <4>1, <4>2
    <3>8. BeginsWithin(n, p)
      BY <2>2, <3>1, <3>6, <3>7 DEF BeginsWithin
    <3> QED
      BY <3>8, StringPrefixIs DEF StringPrefix
  <2> QED
    BY <1>1, <2>1, <2>2, StringPrefixIs DEF StringPrefix
<1>2. /\ Len(mountList) \in Nat /\ DOMAIN mountList = 1 .. Len(mountList)
      /\ \A i \in DOMAIN mountList : mountList[i] \in Paths
  BY DEF MountTable
<1>3. Found(q) \subseteq Found(p)
  BY <1>1, <1>2 DEF Found
<1>4. ASSUME Found(p) # {} PROVE Found(q) # {} /\ Min(Found(q)) = Min(Found(p))
  <2>1. PICK i \in 1 .. Len(mountList) : /\ i = Min(Found(p)) /\ mountList[i] = GetFs(p).mount
                                         /\ \A j \in Found(p) : i <= j
    BY <1>4, FirstFound
  <2>2. IsPrefix(mountList[i], p) /\ mountList[i] # p /\ mountList[i] \in Paths
    BY <1>2, <1>4, <2>1 DEF Plain
  <2>3. IsPrefix(mountList[i], q)
    BY <2>2, AboveParent
  <2>4. i \in Found(q)
    BY <1>2, <2>2, <2>3, StringPrefixIs DEF Found, StringPrefix
  <2>5. /\ Min(Found(q)) \in 1 .. Len(mountList) /\ \A j \in Found(q) : Min(Found(q)) <= j
        /\ Min(Found(q)) \in Found(q)
    <3>1. /\ Min(Found(q)) \in 1 .. Len(mountList) /\ \A j \in Found(q) : Min(Found(q)) <= j
          /\ GetFs(q).mount = mountList[Min(Found(q))] /\ StringPrefix(GetFs(q).mount, q)
      BY <2>4, FirstFound
    <3> QED
      BY <1>2, <3>1 DEF Found
  <2> QED
    BY <1>2, <1>3, <2>1, <2>4, <2>5
<1> QED
  BY <1>3, <1>4

LEMMA PlaceOfParent ==
  ASSUME NEW f \in FileSystems, NEW below \in Seq(Name) \ {<<>>}, Place(f, Asked(below, TRUE)) # Nowhere
  PROVE  \E s \in Stores, q \in Paths \ {<<>>} :
           /\ Place(f, Asked(below, TRUE)) = [store |-> s, path |-> q]
           /\ Place(f, Asked(Front(below), TRUE)) = [store |-> s, path |-> Parent(q)]
           /\ Last(q) = Last(below)
<1>1. /\ Asked(below, TRUE).rest = below /\ Asked(Front(below), TRUE).rest = Front(below)
      /\ Asked(Front(below), TRUE).absolute
  BY DEF Asked
<1>2. CASE f \in Adapters
  <2>1. Place(f, Asked(below, TRUE)) = [store |-> Wrapped[f], path |-> Folder[f] \o below]
        /\ Folder[f] \o below \in Paths
    BY <1>1, <1>2 DEF Place, Joined
  <2>2. Wrapped[f] \in Stores /\ Folder[f] \in Seq(Name)
    BY <1>2, AdapterAssumption, PathsAre
  <2>3. PICK q \in Paths \ {<<>>} : /\ q = Folder[f] \o below /\ Parent(q) = Folder[f] \o Front(below)
                                    /\ Last(q) = Last(below)
    BY <2>1, <2>2, JoinedFront, SMTT(30), ZenonT(30) DEF Parent
  <2>4. Parent(q) \in Paths
    BY ParentIs
  <2>5. Place(f, Asked(Front(below), TRUE)) = [store |-> Wrapped[f], path |-> Parent(q)]
    BY <1>1, <1>2, <2>3, <2>4 DEF Place, Joined
  <2> QED
    BY <2>1, <2>2, <2>3, <2>5
<1>3. CASE f \notin Adapters
  <2>1. Place(f, Asked(below, TRUE)) = [store |-> f, path |-> below] /\ below \in Paths \ {<<>>}
    BY <1>1, <1>3 DEF Place
  <2>2. f \in Stores
    BY <1>3 DEF FileSystems
  <2>3. Parent(below) \in Paths /\ Parent(below) = Front(below)
    BY <2>1, ParentIs DEF Parent
  <2>4. Place(f, Asked(Front(below), TRUE)) = [store |-> f, path |-> Parent(below)]
    BY <1>1, <1>3, <2>3 DEF Place
  <2> QED
    BY <2>1, <2>2, <2>4
<1> QED
  BY <1>2, <1>3

LEMMA ListsAll ==
  ASSUME MountTable, TreesKept
  PROVE  ThereIsListed
<1> SUFFICES ASSUME mountsKept, NEW p \in Paths \ {<<>>}, Exists(p), Plain(p)
             PROVE  Last(p) \in MergedListing(Parent(p))
  BY DEF ThereIsListed
<1>1. Parent(p) \in Paths
  BY ParentIs
<1>2. RootFs \in Stores /\ RootFs \notin Adapters
  BY MountAssumption, AdapterAssumption
<1>3. \A q \in Paths : Place(RootFs, Asked(q, TRUE)) = [store |-> RootFs, path |-> q]
  BY <1>2 DEF Place, Asked
<1>4. ASSUME trees[RootFs][p] # Absent PROVE Last(p) \in MergedListing(Parent(p))
  <2>1. Last(p) \in ChildrenAt([store |-> RootFs, path |-> Parent(p)])
    BY <1>2, <1>4, ChildOf
  <2> QED
    BY <1>1, <1>3, <2>1 DEF MergedListing
<1>5. CASE Found(p) = {}
  <2>1. GetFs(p).place = [store |-> RootFs, path |-> p]
    BY <1>3, <1>5 DEF GetFs
  <2>2. trees[RootFs][p] # Absent
    BY <2>1 DEF Exists, Node, NodeAt
  <2> QED
    BY <1>4, <2>2
<1>6. CASE Found(p) # {} /\ GetFs(p).mount = p
  <2>1. trees[RootFs][p] = Dir
    BY <1>6, FirstFound DEF TreesKept
  <2> QED
    BY <1>4, <2>1, NodesDiffer
<1>7. CASE Found(p) # {} /\ GetFs(p).mount # p
  <2>1. PICK m : m = GetFs(p).mount /\ m = mountList[Min(Found(p))] /\ m \in Mounts
    BY <1>7, FirstFound
  <2>2. m \in Paths /\ IsPrefix(m, p) /\ m # p
    BY <1>7, <2>1 DEF MountTable, Plain
  <2>3. IsPrefix(m, Parent(p))
    BY <2>2, AboveParent
  <2>4. Found(Parent(p)) # {} /\ mountList[Min(Found(Parent(p)))] = m
    BY <1>7, <2>1, ParentServed
  <2>5. PICK f \in FileSystems : f = mntMap[m]
    BY <2>1 DEF MountTable
  <2>6. PICK below \in Seq(Name) \ {<<>>} :
          /\ below = SubSeq(p, Len(m) + 1, Len(p)) /\ Last(below) = Last(p)
          /\ Front(below) = SubSeq(Parent(p), Len(m) + 1, Len(Parent(p)))
    BY <2>2, RestOf
  <2>7. GetFs(p).place = Place(f, Asked(below, TRUE))
    <3>1. <<m, p>> \in StringPrefixes
      BY <2>2, StringPrefixIs
    <3>2. Rests[<<m, p>>] = Asked(below, TRUE)
      BY <2>2, <2>6, <3>1 DEF Rests
    <3> QED
      BY <1>7, <2>1, <2>5, <3>2 DEF GetFs
  <2>8. GetFs(Parent(p)).place = Place(f, Asked(Front(below), TRUE))
    <3>1. <<m, Parent(p)>> \in StringPrefixes
      BY <1>1, <2>2, <2>3, StringPrefixIs
    <3>2. Rests[<<m, Parent(p)>>] = Asked(Front(below), TRUE)
      BY <2>3, <2>6, <3>1 DEF Rests
    <3> QED
      BY <2>4, <2>5, <3>2 DEF GetFs
  <2>9. Place(f, Asked(below, TRUE)) # Nowhere
    BY <2>7 DEF Exists, Node, NodeAt
  <2>10. PICK s \in Stores, q \in Paths \ {<<>>} :
           /\ Place(f, Asked(below, TRUE)) = [store |-> s, path |-> q]
           /\ Place(f, Asked(Front(below), TRUE)) = [store |-> s, path |-> Parent(q)]
           /\ Last(q) = Last(below)
    BY <2>9, PlaceOfParent
  <2>11. trees[s][q] # Absent
    <3>1. GetFs(p).place = [store |-> s, path |-> q] /\ GetFs(p).place # Nowhere
      BY <2>7, <2>9, <2>10
    <3> QED
      BY <3>1 DEF Exists, Node, NodeAt
  <2>12. Last(q) \in ChildrenAt([store |-> s, path |-> Parent(q)])
    BY <2>11, ChildOf
  <2> QED
    BY <2>6, <2>8, <2>10, <2>12 DEF MergedListing
<1> QED
  BY <1>5, <1>6, <1>7

THEOREM ThereIsListedAlways == MountSpec => []ThereIsListed
<1>1. MountInv => ThereIsListed
  BY ListsAll DEF MountInv
<1> QED
  BY <1>1, MountInvAlways, PTL

----------------------------------------------------------------------------
(* What OverlayFS shows: a tree w over a tree r of which D is deleted       *)

Over(w, r, D) ==
  [p \in Paths |-> IF w[p] # Absent THEN w[p] ELSE IF p \in D THEN Absent ELSE r[p]]

(* What is below a deleted directory is deleted, and so is a directory that *)
(* a file is in the place of.                                               *)
DeletedWhole(r, D) == \A p \in Paths : p \in D => \A q \in Below(p) : r[q] # Absent => q \in D
FilesCover(w, r, D) == \A p \in Paths : IsFileAt(w, p) /\ r[p] = Dir => p \in D
Layered(w, r, D) ==
  /\ w \in Trees /\ r \in Trees /\ IsTree(w) /\ IsTree(r)
  /\ DeletedWhole(r, D) /\ FilesCover(w, r, D)

LEMMA ParentBelow ==
  ASSUME NEW p \in Paths \ {<<>>}
  PROVE  p \in Below(Parent(p)) /\ Parent(p) \in Paths
BY ParentIs, BelowIs

(* This makes a tree of the two. *)
LEMMA LayersShowTree ==
  ASSUME NEW w, NEW r, NEW D, Layered(w, r, D)
  PROVE  Over(w, r, D) \in Trees /\ IsTree(Over(w, r, D))
<1> PICK v : v = Over(w, r, D)
  OBVIOUS
<1>1. /\ v = [p \in Paths |-> v[p]]
      /\ \A p \in Paths : v[p] = IF w[p] # Absent THEN w[p] ELSE IF p \in D THEN Absent ELSE r[p]
  BY DEF Over
<1>2. v \in Trees
  BY <1>1 DEF Trees, Nodes, Layered
<1>3. v[<<>>] = Dir
  BY <1>1, PathsAre, NodesDiffer DEF Layered, IsTree
<1>4. ASSUME NEW p \in Paths \ {<<>>}, v[p] # Absent PROVE v[Parent(p)] = Dir
  <2>1. Parent(p) \in Paths /\ p \in Below(Parent(p))
    BY ParentBelow
  <2>2. CASE w[p] # Absent
    <3>1. w[Parent(p)] = Dir
      BY <2>2 DEF Layered, IsTree
    <3> QED
      BY <1>1, <2>1, <3>1, NodesDiffer
  <2>3. CASE w[p] = Absent
    <3>1. p \notin D /\ r[p] # Absent
      BY <1>1, <1>4, <2>3
    <3>2. r[Parent(p)] = Dir /\ Parent(p) \notin D
      BY <2>1, <3>1 DEF Layered, IsTree, DeletedWhole
    <3>3. ~ IsFileAt(w, Parent(p))
      BY <2>1, <3>2 DEF Layered, FilesCover
    <3>4. w[Parent(p)] \in {Absent, Dir}
      BY <2>1, <3>3 DEF Layered, Trees, Nodes, IsFileAt, File
    <3> QED
      BY <1>1, <2>1, <3>2, <3>4
  <2> QED
    BY <2>2, <2>3
<1> QED
  BY <1>2, <1>3, <1>4 DEF IsTree

(* The operations on the writable file system *)
LEMMA DirLayered ==
  ASSUME NEW w, NEW r, NEW D, Layered(w, r, D), NEW p \in Paths, CanCreate(w, p)
  PROVE  Layered(With(w, p, Dir), r, D)
<1>1. Dir \in Nodes /\ CanWrite(w, p)
  BY DEF Nodes, CanWrite
<1>2. /\ With(w, p, Dir) \in Trees /\ IsTree(With(w, p, Dir))
      /\ \A q \in Paths : With(w, p, Dir)[q] = IF q = p THEN Dir ELSE w[q]
  BY <1>1, WithKeepsTree DEF Layered
<1> QED
  BY <1>2, NodesDiffer DEF Layered, FilesCover, IsFileAt

LEMMA FileLayered ==
  ASSUME NEW w, NEW r, NEW D, Layered(w, r, D), NEW p \in Paths, NEW c \in Contents,
         IsFileAt(w, p) \/ (CanCreate(w, p) /\ (r[p] # Dir \/ p \in D))
  PROVE  Layered(With(w, p, File(c)), r, D)
<1>1. File(c) \in Nodes /\ CanWrite(w, p)
  BY DEF Nodes, CanWrite
<1>2. /\ With(w, p, File(c)) \in Trees /\ IsTree(With(w, p, File(c)))
      /\ \A q \in Paths : With(w, p, File(c))[q] = IF q = p THEN File(c) ELSE w[q]
  BY <1>1, WithKeepsTree DEF Layered
<1>3. r[p] = Dir => p \in D
  BY DEF Layered, FilesCover
<1>4. ASSUME NEW q \in Paths, IsFileAt(With(w, p, File(c)), q), r[q] = Dir PROVE q \in D
  BY <1>2, <1>3, <1>4 DEF Layered, FilesCover, IsFileAt
<1> QED
  BY <1>2, <1>4 DEF Layered, FilesCover

LEMMA RemovedLayered ==
  ASSUME NEW w, NEW r, NEW D, Layered(w, r, D), NEW p \in Paths, CanUnlink(w, p) \/ CanRmdir(w, p)
  PROVE  Layered(With(w, p, Absent), r, D)
<1>1. Absent \in Nodes /\ (CanWrite(w, p) \/ CanRmdir(w, p))
  BY DEF Nodes, CanWrite, CanUnlink
<1>2. /\ With(w, p, Absent) \in Trees /\ IsTree(With(w, p, Absent))
      /\ \A q \in Paths : With(w, p, Absent)[q] = IF q = p THEN Absent ELSE w[q]
  BY <1>1, WithKeepsTree DEF Layered
<1> QED
  BY <1>2, NodesDiffer DEF Layered, FilesCover, IsFileAt

(* Where nothing is shown and nothing can be below *)
Vacant(v, p) == v[p] = Absent \/ (v[p] = Dir /\ Children(v, p) = {})

LEMMA NothingBelow ==
  ASSUME NEW v, IsTree(v), NEW p \in Paths, Vacant(v, p), NEW q \in Below(p)
  PROVE  v[q] = Absent
<1>1. q \in Paths /\ IsPrefix(p, q) /\ q # p /\ q # <<>>
  BY BelowIs, PrefixOrder
<1>2. SUFFICES ASSUME v[q] # Absent PROVE FALSE
  OBVIOUS
<1>3. v[p] # Absent
  BY <1>1, <1>2, AboveIsThere
<1>4. v[p] = Dir /\ Children(v, p) = {}
  BY <1>3 DEF Vacant
<1> DEFINE T == {Len(x) : x \in {x \in Below(p) : v[x] # Absent}}
<1>5. T \subseteq Nat /\ T # {}
  <2>1. \A x \in Below(p) : Len(x) \in Nat
    BY PathsAre, BelowIs
  <2>2. Len(q) \in T
    BY <1>2
  <2> QED
    BY <2>1, <2>2
<1> HIDE DEF T
<1>6. PICK n \in T : \A m \in T : n <= m
  BY <1>5, Smallest
<1>7. PICK x \in Below(p) : n = Len(x) /\ v[x] # Absent
  BY <1>6 DEF T
<1>8. x \in Paths \ {<<>>} /\ IsPrefix(p, x) /\ x # p
  BY <1>7, BelowIs, PrefixOrder
<1>9. /\ Parent(x) \in Paths /\ Len(Parent(x)) = Len(x) - 1 /\ IsPrefix(p, Parent(x))
      /\ v[Parent(x)] # Absent
  BY <1>7, <1>8, ParentIs, AboveParent, NodesDiffer DEF IsTree
<1>10. Parent(x) # p
  BY <1>4, <1>7, <1>8 DEF Children, IsDirAt, Parent
<1>11. Len(Parent(x)) \in T
  BY <1>9, <1>10, BelowIs DEF T
<1>12. Len(x) \in Nat
  BY <1>8, PathsAre
<1> QED
  BY <1>6, <1>7, <1>9, <1>11, <1>12

(* What a rename leaves at the two paths *)
LEMMA RenamedIs ==
  ASSUME NEW t \in Trees, NEW old \in Paths, NEW new \in Paths, CanRename(t, old, new)
  PROVE  /\ Renamed(t, old, new)[new] = t[old]
         /\ \A q \in Paths : IsPrefix(old, q) => Renamed(t, old, new)[q] = Absent \/ IsPrefix(new, q)
<1>1. IsPrefix(new, new)
  BY PrefixOrder
<1>2. SubSeq(new, Len(new) + 1, Len(new)) = <<>> /\ old \o <<>> = old
  <2>1. new \in Seq(Name) /\ old \in Seq(Name)
    BY PathsAre
  <2>2. PICK n \in Nat : n = Len(new)
    BY <2>1
  <2>3. SubSeq(new, n + 1, n) \in Seq(Name) /\ Len(SubSeq(new, n + 1, n)) = 0
    <3>1. \A i \in n + 1 .. n : new[i] \in Name
      BY <2>2
    <3> QED
      BY <2>2, <3>1, SubSeqProperties
  <2>4. SubSeq(new, n + 1, n) = <<>>
    BY <2>3, EmptySeq
  <2>5. old \o <<>> = old
    BY <2>1, ConcatEmptySeq
  <2> QED
    BY <2>2, <2>4, <2>5
<1> QED
  BY <1>1, <1>2 DEF Renamed

LEMMA RenameLayered ==
  ASSUME NEW w, NEW r, NEW D, Layered(w, r, D), NEW old \in Paths, NEW new \in Paths,
         CanRename(w, old, new), w[old] = Dir, Vacant(Over(w, r, D), new)
  PROVE  Layered(Renamed(w, old, new), r, D)
<1> PICK u : u = Renamed(w, old, new)
  OBVIOUS
<1>1. /\ u \in Trees /\ IsTree(u) /\ u[new] = Dir
      /\ \A q \in Paths : ~ IsPrefix(old, q) /\ ~ IsPrefix(new, q) => u[q] = w[q]
      /\ \A q \in Paths : IsPrefix(old, q) => u[q] = Absent \/ IsPrefix(new, q)
  BY RenamedKeepsTree, RenamedIs DEF Layered
<1>2. ASSUME NEW p \in Paths, IsFileAt(u, p), r[p] = Dir PROVE p \in D
  <2>1. u[p] # Absent /\ u[p] # Dir
    BY <1>2, NodesDiffer DEF IsFileAt
  <2>2. CASE IsPrefix(new, p)
    <3>1. p \in Below(new)
      BY <1>1, <2>1, <2>2, BelowIs
    <3>2. Over(w, r, D)[p] = Absent
      BY <3>1, NothingBelow, LayersShowTree
    <3> QED
      BY <1>2, <3>2, NodesDiffer DEF Over
  <2>3. CASE ~ IsPrefix(new, p)
    <3>1. u[p] = w[p]
      BY <1>1, <2>1, <2>3
    <3> QED
      BY <1>2, <3>1 DEF Layered, FilesCover, IsFileAt
  <2> QED
    BY <2>2, <2>3
<1> QED
  BY <1>1, <1>2 DEF Layered, FilesCover

(* A deletion, of what has nothing readable below it *)
LEMMA DeletedLayered ==
  ASSUME NEW w, NEW r, NEW D, Layered(w, r, D), NEW p \in Paths, Children(r, p) \subseteq D
  PROVE  Layered(w, r, D \union {p})
<1>1. ASSUME NEW q \in Below(p), r[q] # Absent PROVE q \in D
  <2>1. q \in Paths /\ IsPrefix(p, q) /\ q # p
    BY BelowIs
  <2> DEFINE T == {Len(x) : x \in {x \in Below(p) : IsPrefix(x, q)}}
  <2>2. T \subseteq Nat /\ T # {}
    <3>1. \A x \in Below(p) : Len(x) \in Nat
      BY PathsAre, BelowIs
    <3>2. Len(q) \in T
      BY <2>1, PrefixOrder
    <3> QED
      BY <3>1, <3>2
  <2> HIDE DEF T
  <2>3. PICK n \in T : \A m \in T : n <= m
    BY <2>2, Smallest
  <2>4. PICK x \in Below(p) : n = Len(x) /\ IsPrefix(x, q)
    BY <2>3 DEF T
  <2>5. x \in Paths \ {<<>>} /\ IsPrefix(p, x) /\ x # p /\ Len(x) \in Nat
    BY <2>4, BelowIs, PrefixOrder, PathsAre
  <2>6. /\ Parent(x) \in Paths /\ Len(Parent(x)) = Len(x) - 1 /\ IsPrefix(p, Parent(x))
        /\ IsPrefix(Parent(x), q)
    BY <2>1, <2>4, <2>5, ParentIs, AboveParent, PrefixOrder
  <2>7. Parent(x) = p
    <3>1. Parent(x) # p => Len(Parent(x)) \in T
      BY <2>6, BelowIs DEF T
    <3> QED
      BY <2>3, <2>4, <2>5, <2>6, <3>1
  <2>8. r[x] # Absent
    BY <1>1, <2>1, <2>4, <2>5, AboveIsThere DEF Layered
  <2>9. r[p] = Dir
    BY <2>5, <2>7, <2>8 DEF Layered, IsTree
  <2>10. x \in D
    BY <2>5, <2>7, <2>8, <2>9 DEF Children, IsDirAt, Parent
  <2>11. x = q \/ q \in Below(x)
    BY <2>1, <2>4, <2>5, BelowIs
  <2> QED
    BY <1>1, <2>5, <2>10, <2>11 DEF Layered, DeletedWhole
<1>2. DeletedWhole(r, D \union {p})
  BY <1>1 DEF Layered, DeletedWhole
<1> QED
  BY <1>2 DEF Layered, FilesCover

----------------------------------------------------------------------------
(* The steps: where a rename leads to, there are paths. *)

Doing == Checking \union OnWritable \union {"renameChildren", "deletePath"}

Reaches(r, p, new) ==
  \A q \in Below(p) : r[q] # Absent => new \o SubSeq(q, Len(p) + 1, Len(q)) \in Paths
Doable(r) == {s \in Steps : s.do \in {"renameSync", "renameChildren"} => Reaches(r, s.p, s.new)}

LEMMA StepIs ==
  ASSUME NEW do, NEW p, NEW new, NEW c
  PROVE  /\ Step(do, p) = [do |-> do, p |-> p, new |-> p, bytes |-> Empty]
         /\ StepTo(do, p, new) = [do |-> do, p |-> p, new |-> new, bytes |-> Empty]
         /\ StepWith(do, p, c) = [do |-> do, p |-> p, new |-> p, bytes |-> c]
BY DEF Step, StepTo, StepWith

LEMMA StepsAre ==
  ASSUME NEW r, NEW s \in Doable(r)
  PROVE  s \in Steps /\ s.do \in Doing /\ s.p \in Paths /\ s.new \in Paths /\ s.bytes \in Contents
BY DEF Doable, Steps, Doing

LEMMA StepsDoable ==
  ASSUME NEW r, NEW p \in Paths, NEW new \in Paths, NEW c \in Contents, NEW do \in Doing,
         do \in {"renameSync", "renameChildren"} => Reaches(r, p, new) /\ Reaches(r, p, p)
  PROVE  Step(do, p) \in Doable(r) /\ StepTo(do, p, new) \in Doable(r) /\ StepWith(do, p, c) \in Doable(r)
<1>1. Empty \in Contents
  BY TreesAssumption
<1>2. ASSUME NEW n \in {p, new}, NEW b \in Contents
      PROVE  [do |-> do, p |-> p, new |-> n, bytes |-> b] \in Doable(r)
  <2>1. [do |-> do, p |-> p, new |-> n, bytes |-> b] \in Steps
    BY DEF Steps, Doing
  <2>2. Reaches(r, p, new) /\ Reaches(r, p, p) => Reaches(r, p, n)
    OBVIOUS
  <2> QED
    BY <2>1, <2>2 DEF Doable
<1> QED
  BY <1>1, <1>2, StepIs

(* The beginnings of a path *)
LEMMA BeginningIs ==
  ASSUME NEW p \in Paths, NEW i \in 0 .. Len(p)
  PROVE  /\ SubSeq(p, 1, i) \in Seq(Name) /\ Len(SubSeq(p, 1, i)) = i
         /\ \A j \in 1 .. i : SubSeq(p, 1, i)[j] = p[j]
<1>1. p \in Seq(Name) /\ Len(p) \in Nat
  BY PathsAre
<1>2. PICK n \in Nat : n = i
  BY <1>1
<1>3. \A j \in 1 .. n : p[j] \in Name
  BY <1>1, <1>2
<1>4. /\ SubSeq(p, 1, n) \in Seq(Name) /\ Len(SubSeq(p, 1, n)) = IF 1 <= n THEN n - 1 + 1 ELSE 0
      /\ \A j \in 1 .. n - 1 + 1 : SubSeq(p, 1, n)[j] = p[1 + j - 1]
  BY <1>3, SubSeqProperties
<1>5. Len(SubSeq(p, 1, n)) = n /\ \A j \in 1 .. n : j \in 1 .. n - 1 + 1 /\ 1 + j - 1 = j
  BY <1>4
<1> QED
  BY <1>2, <1>4, <1>5

LEMMA Beginnings ==
  ASSUME NEW p \in Paths, NEW i \in 0 .. Len(p)
  PROVE  /\ SubSeq(p, 1, i) \in Paths /\ IsPrefix(SubSeq(p, 1, i), p)
         /\ i < Len(p) => SubSeq(p, 1, i) # p
<1>1. p \in Seq(Name) /\ Len(p) \in Nat
  BY PathsAre
<1> DEFINE T == {n \in i .. Len(p) : SubSeq(p, 1, n) \in Paths}
<1>2. T \subseteq Nat /\ T # {}
  <2>1. SubSeq(p, 1, Len(p)) = p
    BY <1>1, SubSeqFull
  <2>2. Len(p) \in i .. Len(p)
    BY <1>1
  <2>3. Len(p) \in T
    BY <2>1, <2>2
  <2>4. T \subseteq i .. Len(p)
    OBVIOUS
  <2>5. i .. Len(p) \subseteq Nat
    BY <1>1
  <2> QED
    BY <2>3, <2>4, <2>5
<1> HIDE DEF T
<1>3. PICK n \in T : \A m \in T : n <= m
  BY <1>2, Smallest
<1>4. n \in i .. Len(p) /\ n \in 0 .. Len(p) /\ SubSeq(p, 1, n) \in Paths
  BY <1>1, <1>3 DEF T
<1>5. CASE n = i
  <2> PICK q : q = SubSeq(p, 1, i)
    OBVIOUS
  <2>1. q \in Seq(Name) /\ Len(q) = i /\ \A j \in 1 .. i : q[j] = p[j]
    BY BeginningIs
  <2>2. Len(q) <= Len(p) /\ \A j \in 1 .. Len(q) : q[j] = p[j]
    BY <1>1, <2>1
  <2>3. IsPrefix(q, p)
    BY <1>1, <2>1, <2>2, PrefixIs
  <2> QED
    BY <1>1, <1>4, <1>5, <2>1, <2>3
<1>6. CASE n # i
  <2>1. n - 1 \in 0 .. Len(p) /\ n - 1 \in i .. Len(p) /\ n \in Nat \ {0}
    BY <1>1, <1>4, <1>6
  <2> PICK k \in 0 .. Len(p) : k = n - 1
    BY <2>1
  <2> PICK q \in Paths : q = SubSeq(p, 1, n)
    BY <1>4
  <2>2. q \in Seq(Name) /\ Len(q) = n /\ \A j \in 1 .. n : q[j] = p[j]
    <3> PICK l \in 0 .. Len(p) : l = n
      BY <1>4
    <3>1. /\ SubSeq(p, 1, l) \in Seq(Name) /\ Len(SubSeq(p, 1, l)) = l
          /\ \A j \in 1 .. l : SubSeq(p, 1, l)[j] = p[j]
      BY BeginningIs
    <3> QED
      BY <3>1
  <2>3. q # <<>>
    BY <2>1, <2>2
  <2>4. /\ Parent(q) \in Paths /\ Parent(q) \in Seq(Name) /\ Len(Parent(q)) = n - 1
        /\ \A j \in 1 .. n - 1 : Parent(q)[j] = q[j]
    BY <2>2, <2>3, ParentIs, PathsAre
  <2>5. /\ SubSeq(p, 1, k) \in Seq(Name) /\ Len(SubSeq(p, 1, k)) = k
        /\ \A j \in 1 .. k : SubSeq(p, 1, k)[j] = p[j]
    BY BeginningIs
  <2>6. Parent(q) = SubSeq(p, 1, k)
    <3>1. Len(Parent(q)) = Len(SubSeq(p, 1, k))
      BY <2>4, <2>5
    <3>2. \A j \in 1 .. Len(Parent(q)) : Parent(q)[j] = SubSeq(p, 1, k)[j]
      <4>1. \A j \in 1 .. n - 1 : j \in 1 .. n /\ j \in 1 .. k
        BY <2>1
      <4> QED
        BY <2>2, <2>4, <2>5, <4>1
    <3> QED
      BY <2>4, <2>5, <3>1, <3>2, SeqEqual
  <2>7. n - 1 \in T
    BY <2>1, <2>4, <2>6 DEF T
  <2> QED
    BY <1>1, <1>3, <1>4, <2>7
<1> QED
  BY <1>5, <1>6

LEMMA MissingAre ==
  ASSUME NEW p \in Paths, writable[<<>>] # Absent, NEW missing, missing = MissingParents(p)
  PROVE  /\ missing \in Seq(Paths)
         /\ \A i \in 1 .. Len(missing) :
              IsPrefix(missing[i], p) /\ missing[i] # p /\ writable[missing[i]] = Absent
<1>1. p \in Seq(Name) /\ Len(p) \in Nat /\ Len(<<>>) = 0
  BY PathsAre
<1>2. Parent(p) \in Paths /\ Len(Parent(p)) \in Nat /\ (p # <<>> => Len(Parent(p)) = Len(p) - 1)
      /\ (p = <<>> => Len(Parent(p)) = 0)
  <2>1. CASE p = <<>>
    BY <1>1, <2>1 DEF Parent
  <2>2. CASE p # <<>>
    BY <2>2, ParentIs, PathsAre
  <2> QED
    BY <2>1, <2>2
<1> PICK n \in Nat : n = Len(Parent(p))
  BY <1>2
<1> DEFINE There == {i \in 0 .. n : writable[SubSeq(p, 1, i)] # Absent}
<1>3. 0 \in There
  <2>1. SubSeq(p, 1, 0) \in Seq(Name) /\ Len(SubSeq(p, 1, 0)) = 0
    BY <1>1, BeginningIs
  <2>2. SubSeq(p, 1, 0) = <<>>
    BY <2>1, EmptySeq
  <2>3. 0 \in 0 .. n
    OBVIOUS
  <2> QED
    BY <2>2, <2>3, Zenon
<1> HIDE DEF There
<1>4. \E x \in There : \A y \in There : x >= y
  <2> DEFINE Gap == {n - i : i \in There}
  <2>1. Gap \subseteq Nat /\ Gap # {}
    <3>1. There \subseteq 0 .. n
      BY DEF There
    <3>2. \A i \in 0 .. n : n - i \in Nat
      OBVIOUS
    <3> QED
      BY <1>3, <3>1, <3>2
  <2>2. PICK g \in Gap : \A h \in Gap : g <= h
    <3> HIDE DEF Gap
    <3> QED
      BY <2>1, Smallest
  <2>3. PICK x \in There : g = n - x
    BY <2>2
  <2>4. \A y \in There : n - x <= n - y
    BY <2>2, <2>3
  <2> QED
    BY <2>3, <2>4 DEF There
<1>5. PICK there \in There : there = Max(There) /\ \A y \in There : there >= y
  BY <1>4 DEF Max
<1>6. there \in 0 .. n
  BY <1>5 DEF There
<1>7. missing = [i \in 1 .. n - there |-> SubSeq(p, 1, there + i)]
  BY <1>5 DEF MissingParents, There, InWritable
<1>8. ASSUME NEW i \in 1 .. n - there
      PROVE  /\ missing[i] \in Paths /\ IsPrefix(missing[i], p) /\ missing[i] # p
             /\ writable[missing[i]] = Absent
  <2>1. there + i \in 0 .. n /\ there + i > there
    BY <1>6
  <2>2. p # <<>>
    BY <1>2, <2>1, <1>6
  <2>3. there + i \in 0 .. Len(p) /\ there + i < Len(p)
    BY <1>1, <1>2, <2>1, <2>2
  <2> PICK k \in 0 .. Len(p) : k = there + i
    BY <2>3
  <2>4. SubSeq(p, 1, k) \in Paths /\ IsPrefix(SubSeq(p, 1, k), p) /\ SubSeq(p, 1, k) # p
    BY <2>3, Beginnings
  <2>5. k \notin There
    BY <1>5, <1>6, <2>1
  <2>6. writable[SubSeq(p, 1, k)] = Absent
    BY <2>1, <2>5 DEF There
  <2> QED
    BY <1>7, <2>4, <2>6
<1>9. Len(missing) = n - there /\ n - there \in Nat
  BY <1>6, <1>7
<1>10. missing \in Seq(Paths)
  <2>1. missing \in [1 .. n - there -> Paths]
    BY <1>7, <1>8
  <2> QED
    BY <1>9, <2>1, SeqDef
<1> QED
  BY <1>8, <1>9, <1>10

----------------------------------------------------------------------------
(* What is true of the steps that a call c has yet to make *)

TouchedBy(c, p) == IsPrefix(c.p, p) \/ IsPrefix(c.new, p)

(* No file is where a directory is needed that the call's path is to be in. *)
AllowsParents(w, r, D, c) ==
  \A q \in Paths : IsPrefix(q, c.new) /\ q # c.new /\ ~ TouchedBy(c, q) =>
    w[q] # Absent \/ Over(w, r, D)[q] \in {Absent, Dir}

Makers == {"createParentDirectory", "_writable.mkdirSync"}

(* A step is about the call's own paths, or makes a directory above them. *)
Within(s, w, r, D, c) ==
  /\ s.do = "createParentDirectory" => TouchedBy(c, s.p) \/ Over(w, r, D)[s.p] \in {Absent, Dir}
  /\ s.do = "_writable.mkdirSync" => TouchedBy(c, s.p) \/ Over(w, r, D)[s.p] = Dir
  /\ s.do \notin Makers => TouchedBy(c, s.p)
  /\ s.do \in {"mkdirSync", "writeFileSync", "renameSync", "renameChildren"} => AllowsParents(w, r, D, c)
  /\ s.do \in {"mkdirSync", "writeFileSync", "truncateSync", "chmodSync"} => IsPrefix(c.new, s.p)
  /\ s.do \in {"renameSync", "renameChildren", "_writable.renameSync"} => IsPrefix(c.new, s.new)
  /\ s.do = "renameChildren" => s.p # s.new

(* All that is readable in a directory is deleted. *)
Emptied(r, D, p) == Children(r, p) \subseteq D

(* What a step, and those that take its place, see deleted *)
Removes(s, p) ==
  \/ s.do \in {"unlinkOld", "renameSync"} /\ s.p = p /\ s.p # s.new
  \/ s.do \in {"unlinkSync", "deleteIfExists", "deletePath"} /\ s.p = p
  \/ s.do = "renameChildren" /\ p # <<>> /\ Parent(p) = s.p

(* What makes it right to take the k-th step, when those before it are taken *)
Placed(t, k, w, r, D) ==
  LET s == t[k]
  IN /\ s.do \in {"_writable.openSync", "writeFileSync"} =>
          /\ Over(w, r, D)[s.p] # Dir \/ w[s.p] # Absent
          /\ \A j \in 1 .. k - 1 : t[j].do \in Makers
     /\ s.do = "_writable.renameSync" =>
          k = 1 /\ w[s.p] = Dir /\ Vacant(Over(w, r, D), s.new)
     /\ s.do = "deletePath" => k = 1 /\ Emptied(r, D, s.p)
     /\ s.do = "unlinkSync" =>
          k = 1 /\ (w[s.p] # Absent \/ Over(w, r, D)[s.p] = Absent \/ Emptied(r, D, s.p))
     /\ s.do = "deleteIfExists" =>
          \/ k = 1 /\ Emptied(r, D, s.p)
          \/ k = 2 /\ t[1].do = "_writable.unlinkSync" /\ t[1].p = s.p
     /\ s.do = "unlinkOld" =>
          \A q \in Children(r, s.p) : q \in D \/ \E j \in 1 .. k - 1 : Removes(t[j], q)

Program(t, w, r, D, c) ==
  \A k \in 1 .. Len(t) : Within(t[k], w, r, D, c) /\ Placed(t, k, w, r, D)

(* A step of the call leaves what is not the call's as it is ... *)
LeavesOthers(w, D, w2, D2, r, c) ==
  /\ D \subseteq D2
  /\ \A q \in Paths : ~ TouchedBy(c, q) =>
       Over(w2, r, D2)[q] = Over(w, r, D)[q] /\ (w[q] # Absent => w2[q] # Absent)

(* ... and what it had to do it did, or leaves to those in its place. *)
HandsOver(s, steps, r, D2) ==
  \A q \in Paths : Removes(s, q) /\ r[q] # Absent =>
    q \in D2 \/ \E j \in 1 .. Len(steps) : Removes(steps[j], q)
MakesOnly(s, steps, w, D, w2, D2, r) ==
  s.do \in Makers =>
    /\ \A j \in 1 .. Len(steps) : steps[j].do \in Makers
    /\ \A p \in Paths : Over(w, r, D)[p] # Dir \/ w[p] # Absent =>
         Over(w2, r, D2)[p] # Dir \/ w2[p] # Absent
Unlinks(s, steps, r, D2) ==
  s.do = "_writable.unlinkSync" => steps = <<>> /\ Emptied(r, D2, s.p)

LEMMA WithinStays ==
  ASSUME NEW s \in Steps, NEW w, NEW D, NEW w2, NEW D2, NEW r, NEW c,
         Within(s, w, r, D, c), LeavesOthers(w, D, w2, D2, r, c)
  PROVE  Within(s, w2, r, D2, c)
<1>1. s.p \in Paths
  BY DEF Steps
<1>2. AllowsParents(w, r, D, c) => AllowsParents(w2, r, D2, c)
  BY DEF AllowsParents, LeavesOthers
<1>3. ~ TouchedBy(c, s.p) => Over(w2, r, D2)[s.p] = Over(w, r, D)[s.p]
  BY <1>1 DEF LeavesOthers
<1> QED
  BY <1>2, <1>3 DEF Within

(* The steps in place of the first, and those that were after it *)
LEMMA InPlaceOfHead ==
  ASSUME NEW t \in Seq(Steps), t # <<>>, NEW steps \in Seq(Steps), NEW u, u = steps \o Tail(t)
  PROVE  /\ u \in Seq(Steps) /\ Len(steps) \in Nat /\ Len(t) \in Nat \ {0}
         /\ Len(u) = Len(steps) + Len(t) - 1
         /\ \A k \in 1 .. Len(steps) : u[k] = steps[k]
         /\ \A k \in 1 .. Len(u) : ~ k <= Len(steps) => u[k] = t[k - Len(steps) + 1]
<1>1. /\ Len(steps) \in Nat /\ Len(t) \in Nat \ {0} /\ Tail(t) \in Seq(Steps)
      /\ Len(Tail(t)) = Len(t) - 1
      /\ \A i \in 1 .. Len(Tail(t)) : Tail(t)[i] = t[i + 1]
  BY LenProperties, EmptySeq, HeadTailProperties
<1> PICK v \in Seq(Steps) : v = Tail(t)
  BY <1>1
<1>2. /\ u \in Seq(Steps) /\ Len(u) = Len(steps) + Len(v)
      /\ \A i \in 1 .. Len(steps) + Len(v) : u[i] = IF i <= Len(steps) THEN steps[i] ELSE v[i - Len(steps)]
  BY ConcatProperties
<1>3. Len(u) = Len(steps) + Len(t) - 1
  BY <1>1, <1>2
<1>4. ASSUME NEW k \in 1 .. Len(steps) PROVE u[k] = steps[k]
  <2>1. k \in 1 .. Len(steps) + Len(v) /\ k <= Len(steps)
    BY <1>1
  <2> QED
    BY <1>2, <2>1
<1>5. ASSUME NEW k \in 1 .. Len(u), ~ k <= Len(steps) PROVE u[k] = t[k - Len(steps) + 1]
  <2>1. k \in 1 .. Len(steps) + Len(v) /\ k - Len(steps) \in 1 .. Len(v)
    BY <1>1, <1>2, <1>5
  <2>2. u[k] = v[k - Len(steps)]
    BY <1>2, <1>5, <2>1
  <2>3. v[k - Len(steps)] = t[k - Len(steps) + 1]
    BY <1>1, <2>1
  <2> QED
    BY <2>2, <2>3
<1> QED
  BY <1>1, <1>2, <1>3, <1>4, <1>5

LEMMA ProgramGoesOn ==
  ASSUME NEW t \in Seq(Steps), t # <<>>, NEW steps \in Seq(Steps),
         NEW w, NEW D, NEW w2, NEW D2, NEW r, NEW c,
         Program(t, w, r, D, c), Program(steps, w2, r, D2, c),
         LeavesOthers(w, D, w2, D2, r, c), HandsOver(t[1], steps, r, D2),
         MakesOnly(t[1], steps, w, D, w2, D2, r), Unlinks(t[1], steps, r, D2)
  PROVE  Program(steps \o Tail(t), w2, r, D2, c)
<1> PICK u, n : u = steps \o Tail(t) /\ n = Len(steps)
  OBVIOUS
<1>1. /\ u \in Seq(Steps) /\ n \in Nat /\ Len(t) \in Nat \ {0}
      /\ Len(u) = n + Len(t) - 1
      /\ \A k \in 1 .. n : u[k] = steps[k]
      /\ \A k \in 1 .. Len(u) : ~ k <= n => u[k] = t[k - n + 1]
  BY InPlaceOfHead
<1>2. \A k \in 1 .. Len(u) : u[k] \in Steps
  BY <1>1, ElementOfSeq
<1>3. ASSUME NEW k \in 1 .. n
      PROVE  Within(u[k], w2, r, D2, c) /\ Placed(u, k, w2, r, D2)
  <2>1. u[k] = steps[k] /\ \A j \in 1 .. k - 1 : u[j] = steps[j]
    BY <1>1
  <2>2. k = 2 => u[1] = steps[1]
    BY <2>1
  <2>3. Within(steps[k], w2, r, D2, c) /\ Placed(steps, k, w2, r, D2)
    BY DEF Program
  <2>4. \A q : (\E j \in 1 .. k - 1 : Removes(steps[j], q)) => \E j \in 1 .. k - 1 : Removes(u[j], q)
    BY <2>1
  <2>5. (\A j \in 1 .. k - 1 : steps[j].do \in Makers) => \A j \in 1 .. k - 1 : u[j].do \in Makers
    BY <2>1
  <2> PICK s : s = u[k]
    OBVIOUS
  <2>6. s = steps[k]
    BY <2>1
  <2>7. s.do \in {"_writable.openSync", "writeFileSync"} =>
          /\ Over(w2, r, D2)[s.p] # Dir \/ w2[s.p] # Absent
          /\ \A j \in 1 .. k - 1 : u[j].do \in Makers
    BY <2>3, <2>5, <2>6 DEF Placed
  <2>8. /\ s.do = "_writable.renameSync" => k = 1 /\ w2[s.p] = Dir /\ Vacant(Over(w2, r, D2), s.new)
        /\ s.do = "deletePath" => k = 1 /\ Emptied(r, D2, s.p)
        /\ s.do = "unlinkSync" =>
             k = 1 /\ (w2[s.p] # Absent \/ Over(w2, r, D2)[s.p] = Absent \/ Emptied(r, D2, s.p))
    BY <2>3, <2>6 DEF Placed
  <2>9. s.do = "deleteIfExists" =>
          \/ k = 1 /\ Emptied(r, D2, s.p)
          \/ k = 2 /\ u[1].do = "_writable.unlinkSync" /\ u[1].p = s.p
    BY <2>2, <2>3, <2>6 DEF Placed
  <2>10. s.do = "unlinkOld" =>
           \A q \in Children(r, s.p) : q \in D2 \/ \E j \in 1 .. k - 1 : Removes(u[j], q)
    BY <2>3, <2>4, <2>6 DEF Placed
  <2>11. Within(u[k], w2, r, D2, c)
    BY <2>3, <2>6
  <2>12. Placed(u, k, w2, r, D2)
    BY ONLY <2>7, <2>8, <2>9, <2>10, s = u[k] DEF Placed
  <2> QED
    BY <2>11, <2>12
<1>4. ASSUME NEW k \in 1 .. Len(u), ~ k <= n
      PROVE  Within(u[k], w2, r, D2, c) /\ Placed(u, k, w2, r, D2)
  <2>0. k \in Int /\ n \in Int /\ Len(t) \in Int /\ ~ k <= n /\ k <= n + Len(t) - 1
    BY <1>1, <1>4
  <2> PICK i \in Int : i = k - n + 1
    BY ONLY <2>0
  <2>1. i \in 2 .. Len(t) /\ u[k] = t[i]
    <3>1. i \in 2 .. Len(t)
      BY <2>0
    <3> QED
      BY <1>1, <1>4, <3>1
  <2> PICK s \in Steps : s = t[i]
    BY <1>2, <2>1
  <2>2. Within(s, w, r, D, c) /\ Placed(t, i, w, r, D)
    BY <2>1 DEF Program
  <2>3. \A j \in 1 .. n : u[j] = steps[j] /\ j \in 1 .. k - 1
    BY <1>1, <1>4
  <2>4. \A j \in 2 .. i - 1 : u[n + j - 1] = t[j] /\ n + j - 1 \in 1 .. k - 1
    <3> TAKE j \in 2 .. i - 1
    <3>1. n + j - 1 \in 1 .. Len(u) /\ ~ n + j - 1 <= n /\ (n + j - 1) - n + 1 = j
      BY <1>1, <2>1
    <3> QED
      BY <1>1, <2>1, <3>1
  <2>5. \A j \in 1 .. k - 1 : \/ j \in 1 .. n
                              \/ j - n + 1 \in 2 .. i - 1 /\ u[j] = t[j - n + 1]
    <3> TAKE j \in 1 .. k - 1
    <3>1. j \in 1 .. Len(u) /\ (j \in 1 .. n \/ (~ j <= n /\ j - n + 1 \in 2 .. i - 1))
      BY <1>1, <2>1
    <3> QED
      BY <1>1, <3>1
  <2>6. Within(u[k], w2, r, D2, c)
    BY <2>1, <2>2, WithinStays
  <2>7. s.p \in Paths
    BY DEF Steps
  <2>8. CASE s.do \in {"_writable.openSync", "writeFileSync"}
    <3>1. /\ Over(w, r, D)[s.p] # Dir \/ w[s.p] # Absent
          /\ \A j \in 1 .. i - 1 : t[j].do \in Makers
      BY <2>2, <2>8 DEF Placed
    <3>2. 1 \in 1 .. i - 1 /\ \A j \in 2 .. i - 1 : j \in 1 .. i - 1
      BY <2>1
    <3>3. /\ \A j \in 1 .. n : steps[j].do \in Makers
          /\ Over(w2, r, D2)[s.p] # Dir \/ w2[s.p] # Absent
      BY <2>7, <3>1, <3>2 DEF MakesOnly
    <3>4. \A j \in 1 .. k - 1 : u[j].do \in Makers
      BY <2>3, <2>5, <3>1, <3>2, <3>3
    <3> QED
      BY <2>1, <2>6, <2>8, <3>3, <3>4 DEF Placed
  <2>9. CASE s.do \in {"_writable.renameSync", "deletePath", "unlinkSync"}
    BY <2>1, <2>2, <2>9 DEF Placed
  <2>10. CASE s.do = "deleteIfExists"
    <3>1. i = 2 /\ t[1].do = "_writable.unlinkSync" /\ t[1].p = s.p
      BY <2>1, <2>2, <2>10 DEF Placed
    <3>2. steps = <<>> /\ Emptied(r, D2, s.p)
      BY <3>1 DEF Unlinks
    <3>3. n = 0 /\ k = 1
      BY <1>1, <1>4, <3>1, <3>2
    <3> QED
      BY <2>1, <2>6, <2>10, <3>2, <3>3 DEF Placed
  <2>11. CASE s.do = "unlinkOld"
    <3>1. ASSUME NEW q \in Children(r, s.p)
          PROVE  q \in D2 \/ \E j \in 1 .. k - 1 : Removes(u[j], q)
      <4>1. q \in Paths /\ r[q] # Absent
        BY <3>1 DEF Children
      <4>2. q \in D \/ \E j \in 1 .. i - 1 : Removes(t[j], q)
        BY <2>2, <2>11, <3>1 DEF Placed
      <4>3. CASE q \in D
        BY <4>3 DEF LeavesOthers
      <4>4. ASSUME NEW j \in 1 .. i - 1, Removes(t[j], q)
            PROVE  q \in D2 \/ \E l \in 1 .. k - 1 : Removes(u[l], q)
        <5>1. CASE j = 1
          <6>1. q \in D2 \/ \E l \in 1 .. n : Removes(steps[l], q)
            BY <4>1, <4>4, <5>1 DEF HandsOver
          <6> QED
            BY <2>3, <6>1
        <5>2. CASE j # 1
          <6>1. j \in 2 .. i - 1
            BY <5>2
          <6> QED
            BY <2>4, <4>4, <6>1
        <5> QED
          BY <5>1, <5>2
      <4> QED
        BY <4>2, <4>3, <4>4
    <3> QED
      BY <2>1, <2>6, <2>11, <3>1 DEF Placed
  <2> QED
    BY <2>1, <2>6, <2>8, <2>9, <2>10, <2>11 DEF Placed
<1>5. \A k \in 1 .. Len(u) : k \in 1 .. n \/ ~ k <= n
  BY <1>1
<1>6. Program(u, w2, r, D2, c)
  BY <1>3, <1>4, <1>5 DEF Program
<1> QED
  BY <1>6

----------------------------------------------------------------------------
(* Programs put together *)

LEMMA NoProgram ==
  ASSUME NEW w, NEW r, NEW D, NEW c
  PROVE  Program(<<>>, w, r, D, c)
BY DEF Program

(* Placed, for the step that is next *)
First(s, w, r, D) ==
  /\ s.do \in {"_writable.openSync", "writeFileSync"} =>
       Over(w, r, D)[s.p] # Dir \/ w[s.p] # Absent
  /\ s.do = "_writable.renameSync" => w[s.p] = Dir /\ Vacant(Over(w, r, D), s.new)
  /\ s.do \in {"deletePath", "deleteIfExists", "unlinkOld"} => Emptied(r, D, s.p)
  /\ s.do = "unlinkSync" =>
       w[s.p] # Absent \/ Over(w, r, D)[s.p] = Absent \/ Emptied(r, D, s.p)

LEMMA PlacedFirst ==
  ASSUME NEW t, NEW w, NEW r, NEW D
  PROVE  Placed(t, 1, w, r, D) <=> First(t[1], w, r, D)
<1> PICK s : s = t[1]
  OBVIOUS
<1>1. \A j \in 1 .. 1 - 1 : FALSE
  OBVIOUS
<1>2. s.do = "unlinkOld" =>
        (Emptied(r, D, s.p) <=>
           \A q \in Children(r, s.p) : q \in D \/ \E j \in 1 .. 1 - 1 : Removes(t[j], q))
  BY <1>1 DEF Emptied
<1>3. \A j \in 1 .. 1 - 1 : t[j].do \in Makers
  BY <1>1
<1>4. Placed(t, 1, w, r, D) => First(s, w, r, D)
  BY <1>2, <1>3 DEF Placed, First
<1>5. First(s, w, r, D) => Placed(t, 1, w, r, D)
  BY <1>2, <1>3 DEF Placed, First
<1> QED
  BY <1>4, <1>5

LEMMA ProgramOne ==
  ASSUME NEW s, NEW w, NEW r, NEW D, NEW c, Within(s, w, r, D, c), First(s, w, r, D)
  PROVE  Program(<<s>>, w, r, D, c)
<1> PICK t : t = <<s>>
  OBVIOUS
<1>1. Len(t) = 1 /\ t[1] = s
  OBVIOUS
<1>2. Placed(t, 1, w, r, D)
  BY <1>1, PlacedFirst
<1> QED
  BY <1>1, <1>2 DEF Program

LEMMA ProgramTwo ==
  ASSUME NEW a, NEW b, NEW w, NEW r, NEW D, NEW c,
         Within(a, w, r, D, c), First(a, w, r, D), Within(b, w, r, D, c),
         b.do \notin {"_writable.openSync", "writeFileSync", "_writable.renameSync", "deletePath",
                      "unlinkSync"},
         b.do = "deleteIfExists" => a.do = "_writable.unlinkSync" /\ a.p = b.p,
         b.do = "unlinkOld" => Emptied(r, D, b.p) \/ \A q \in Children(r, b.p) : Removes(a, q)
  PROVE  Program(<<a, b>>, w, r, D, c)
<1> PICK t : t = <<a, b>>
  OBVIOUS
<1>1. Len(t) = 2 /\ t[1] = a /\ t[2] = b
  OBVIOUS
<1>2. Placed(t, 1, w, r, D)
  BY <1>1, PlacedFirst
<1>3. b.do = "unlinkOld" =>
        \A q \in Children(r, b.p) : q \in D \/ \E j \in 1 .. 2 - 1 : Removes(t[j], q)
  BY <1>1 DEF Emptied
<1>4. Placed(t, 2, w, r, D)
  BY <1>1, <1>3 DEF Placed
<1>5. \A k \in 1 .. 2 : k = 1 \/ k = 2
  OBVIOUS
<1> QED
  BY <1>1, <1>2, <1>4, <1>5 DEF Program

(* Where one sequence ends, the next begins. *)
LEMMA WhereJoined ==
  ASSUME NEW t \in Seq(Steps), NEW v \in Seq(Steps), NEW u, u = t \o v
  PROVE  /\ u \in Seq(Steps) /\ Len(t) \in Nat /\ Len(v) \in Nat /\ Len(u) = Len(t) + Len(v)
         /\ \A k \in 1 .. Len(t) : u[k] = t[k] /\ k \in 1 .. Len(u)
         /\ \A k \in 1 .. Len(v) : u[Len(t) + k] = v[k] /\ Len(t) + k \in 1 .. Len(u)
         /\ \A k \in 1 .. Len(u) : k \in 1 .. Len(t) \/ k - Len(t) \in 1 .. Len(v)
<1>1. Len(t) \in Nat /\ Len(v) \in Nat
  OBVIOUS
<1>2. /\ u \in Seq(Steps) /\ Len(u) = Len(t) + Len(v)
      /\ \A i \in 1 .. Len(t) + Len(v) : u[i] = IF i <= Len(t) THEN t[i] ELSE v[i - Len(t)]
  BY ConcatProperties
<1>3. ASSUME NEW k \in 1 .. Len(t) PROVE u[k] = t[k] /\ k \in 1 .. Len(u)
  <2>1. k \in 1 .. Len(t) + Len(v) /\ k <= Len(t)
    BY <1>1
  <2> QED
    BY <1>2, <2>1
<1>4. ASSUME NEW k \in 1 .. Len(v) PROVE u[Len(t) + k] = v[k] /\ Len(t) + k \in 1 .. Len(u)
  <2>1. /\ Len(t) + k \in 1 .. Len(t) + Len(v) /\ ~ Len(t) + k <= Len(t)
        /\ (Len(t) + k) - Len(t) = k
    BY <1>1
  <2> QED
    BY <1>2, <2>1
<1>5. \A k \in 1 .. Len(u) : k \in 1 .. Len(t) \/ k - Len(t) \in 1 .. Len(v)
  BY <1>1, <1>2
<1> QED
  BY <1>1, <1>2, <1>3, <1>4, <1>5

LEMMA ProgramJoin ==
  ASSUME NEW t \in Seq(Steps), NEW v \in Seq(Steps), NEW w, NEW r, NEW D, NEW c,
         Program(t, w, r, D, c), Program(v, w, r, D, c),
         \A k \in 1 .. Len(v) :
           /\ v[k].do \notin {"_writable.renameSync", "deletePath", "unlinkSync", "deleteIfExists"}
           /\ v[k].do \in {"_writable.openSync", "writeFileSync"} =>
                \A j \in 1 .. Len(t) : t[j].do \in Makers
  PROVE  Program(t \o v, w, r, D, c)
<1> PICK u, n : u = t \o v /\ n = Len(t)
  OBVIOUS
<1>1. /\ u \in Seq(Steps) /\ n \in Nat /\ Len(v) \in Nat /\ Len(u) = n + Len(v)
      /\ \A k \in 1 .. n : u[k] = t[k] /\ k \in 1 .. Len(u)
      /\ \A k \in 1 .. Len(v) : u[n + k] = v[k] /\ n + k \in 1 .. Len(u)
      /\ \A k \in 1 .. Len(u) : k \in 1 .. n \/ k - n \in 1 .. Len(v)
  <2>1. /\ u \in Seq(Steps) /\ Len(t) \in Nat /\ Len(v) \in Nat /\ Len(u) = Len(t) + Len(v)
        /\ \A k \in 1 .. Len(t) : u[k] = t[k] /\ k \in 1 .. Len(u)
        /\ \A k \in 1 .. Len(v) : u[Len(t) + k] = v[k] /\ Len(t) + k \in 1 .. Len(u)
        /\ \A k \in 1 .. Len(u) : k \in 1 .. Len(t) \/ k - Len(t) \in 1 .. Len(v)
    BY ONLY WhereJoined, t \in Seq(Steps), v \in Seq(Steps), u = t \o v
  <2> QED
    BY ONLY <2>1, n = Len(t)
<1>2. ASSUME NEW k \in 1 .. n
      PROVE  Within(u[k], w, r, D, c) /\ Placed(u, k, w, r, D)
  <2> PICK s : s = u[k]
    OBVIOUS
  <2>1. s = t[k] /\ (\A j \in 1 .. k - 1 : u[j] = t[j]) /\ (k = 2 => u[1] = t[1])
    BY <1>1
  <2>2. Within(s, w, r, D, c) /\ Placed(t, k, w, r, D)
    BY <2>1 DEF Program
  <2>3. \A q : (\E j \in 1 .. k - 1 : Removes(t[j], q)) => \E j \in 1 .. k - 1 : Removes(u[j], q)
    BY <2>1
  <2>4. (\A j \in 1 .. k - 1 : t[j].do \in Makers) => \A j \in 1 .. k - 1 : u[j].do \in Makers
    BY <2>1
  <2>5. s.do \in {"_writable.openSync", "writeFileSync"} =>
          /\ Over(w, r, D)[s.p] # Dir \/ w[s.p] # Absent
          /\ \A j \in 1 .. k - 1 : u[j].do \in Makers
    BY <2>1, <2>2, <2>4 DEF Placed
  <2>6. /\ s.do = "_writable.renameSync" => k = 1 /\ w[s.p] = Dir /\ Vacant(Over(w, r, D), s.new)
        /\ s.do = "deletePath" => k = 1 /\ Emptied(r, D, s.p)
        /\ s.do = "unlinkSync" =>
             k = 1 /\ (w[s.p] # Absent \/ Over(w, r, D)[s.p] = Absent \/ Emptied(r, D, s.p))
    BY <2>1, <2>2 DEF Placed
  <2>7. s.do = "deleteIfExists" =>
          \/ k = 1 /\ Emptied(r, D, s.p)
          \/ k = 2 /\ u[1].do = "_writable.unlinkSync" /\ u[1].p = s.p
    BY <2>1, <2>2 DEF Placed
  <2>8. s.do = "unlinkOld" =>
           \A q \in Children(r, s.p) : q \in D \/ \E j \in 1 .. k - 1 : Removes(u[j], q)
    BY <2>1, <2>2, <2>3 DEF Placed
  <2>9. Placed(u, k, w, r, D)
    BY ONLY <2>5, <2>6, <2>7, <2>8, s = u[k] DEF Placed
  <2> QED
    BY <2>2, <2>9
<1>3. ASSUME NEW i \in 1 .. Len(v)
      PROVE  Within(u[n + i], w, r, D, c) /\ Placed(u, n + i, w, r, D)
  <2> PICK s, k : s = v[i] /\ k = n + i
    OBVIOUS
  <2>1. u[k] = s
    BY <1>1
  <2>2. Within(s, w, r, D, c) /\ Placed(v, i, w, r, D)
    BY DEF Program
  <2>3. \A j \in 1 .. i - 1 : u[n + j] = v[j] /\ n + j \in 1 .. k - 1
    <3> TAKE j \in 1 .. i - 1
    <3>1. j \in 1 .. Len(v) /\ n + j \in 1 .. k - 1
      BY <1>1
    <3> QED
      BY <1>1, <3>1
  <2>4. \A j \in 1 .. k - 1 : \/ j \in 1 .. n /\ u[j] = t[j]
                              \/ j - n \in 1 .. i - 1 /\ u[j] = v[j - n]
    <3> TAKE j \in 1 .. k - 1
    <3>1. j \in 1 .. n \/ (j - n \in 1 .. i - 1 /\ j - n \in 1 .. Len(v) /\ n + (j - n) = j)
      BY <1>1
    <3> QED
      BY <1>1, <3>1
  <2>5. s.do \in {"_writable.openSync", "writeFileSync"} =>
          /\ Over(w, r, D)[s.p] # Dir \/ w[s.p] # Absent
          /\ \A j \in 1 .. k - 1 : u[j].do \in Makers
    BY <2>2, <2>4 DEF Placed
  <2>6. s.do = "unlinkOld" =>
           \A q \in Children(r, s.p) : q \in D \/ \E j \in 1 .. k - 1 : Removes(u[j], q)
    <3>1. \A q : (\E j \in 1 .. i - 1 : Removes(v[j], q)) => \E j \in 1 .. k - 1 : Removes(u[j], q)
      BY <2>3
    <3> QED
      BY <2>2, <3>1 DEF Placed
  <2>7. s.do \notin {"_writable.renameSync", "deletePath", "unlinkSync", "deleteIfExists"}
    OBVIOUS
  <2>8. Placed(u, k, w, r, D)
    BY ONLY <2>1, <2>5, <2>6, <2>7 DEF Placed
  <2> QED
    BY <2>1, <2>2, <2>8
<1>4. ASSUME NEW k \in 1 .. Len(u)
      PROVE  Within(u[k], w, r, D, c) /\ Placed(u, k, w, r, D)
  <2>1. CASE k \in 1 .. n
    BY <1>2, <2>1
  <2>2. CASE k - n \in 1 .. Len(v)
    <3> PICK i \in 1 .. Len(v) : i = k - n
      BY <2>2
    <3>1. k = n + i
      BY <1>1
    <3> QED
      BY <1>3, <3>1
  <2> QED
    BY <1>1, <2>1, <2>2
<1> QED
  BY <1>4 DEF Program

(* The directories that are missing above p are made from the top. *)
LEMMA ParentsDoable ==
  ASSUME NEW r, NEW p \in Paths, IsTree(writable)
  PROVE  /\ CreateParents(p) \in Seq(Doable(r))
         /\ \A j \in 1 .. Len(CreateParents(p)) :
              LET s == CreateParents(p)[j]
              IN /\ s.do = "createParentDirectory" /\ s.p \in Paths
                 /\ IsPrefix(s.p, p) /\ s.p # p /\ writable[s.p] = Absent
<1> PICK missing : missing = MissingParents(p)
  OBVIOUS
<1> PICK n : n = Len(missing)
  OBVIOUS
<1> PICK t : t = CreateParents(p)
  OBVIOUS
<1>1. /\ missing \in Seq(Paths)
      /\ \A i \in 1 .. n : IsPrefix(missing[i], p) /\ missing[i] # p /\ writable[missing[i]] = Absent
  <2>1. writable[<<>>] # Absent
    BY NodesDiffer DEF IsTree
  <2>2. /\ missing \in Seq(Paths)
        /\ \A i \in 1 .. Len(missing) :
             IsPrefix(missing[i], p) /\ missing[i] # p /\ writable[missing[i]] = Absent
    BY ONLY <2>1, MissingAre, p \in Paths, missing = MissingParents(p)
  <2> QED
    BY <2>2
<1>2. t = [i \in 1 .. n |-> Step("createParentDirectory", missing[i])]
  BY DEF CreateParents
<1>3. n \in Nat /\ \A i \in 1 .. n : missing[i] \in Paths
  BY <1>1
<1>4. Len(t) = n /\ \A i \in 1 .. n : t[i] = Step("createParentDirectory", missing[i])
  BY <1>2, <1>3
<1>5. ASSUME NEW i \in 1 .. n
      PROVE  /\ t[i] \in Doable(r) /\ t[i].do = "createParentDirectory" /\ t[i].p = missing[i]
  <2> PICK q \in Paths : q = missing[i]
    BY <1>3
  <2>1. t[i].do = "createParentDirectory" /\ t[i].p = q
    <3>1. t[i] = [do |-> "createParentDirectory", p |-> q, new |-> q, bytes |-> Empty]
      BY <1>4 DEF Step
    <3> QED
      BY <3>1
  <2>2. t[i] \in Doable(r)
    <3>1. "createParentDirectory" \in Doing /\ Empty \in Contents
      BY TreesAssumption DEF Doing, Checking
    <3> QED
      BY <1>4, <3>1, StepsDoable
  <2> QED
    BY <2>1, <2>2
<1>6. t \in Seq(Doable(r))
  <2>1. t \in [1 .. n -> Doable(r)]
    BY <1>2, <1>4, <1>5
  <2> QED
    BY <1>3, <2>1, SeqDef
<1> QED
  BY <1>1, <1>3, <1>4, <1>5, <1>6

LEMMA ParentsProgram ==
  ASSUME NEW r, NEW D, NEW c, c.new \in Paths, NEW p \in Paths, IsPrefix(c.new, p),
         IsTree(writable), AllowsParents(writable, r, D, c)
  PROVE  /\ Program(CreateParents(p), writable, r, D, c)
         /\ \A j \in 1 .. Len(CreateParents(p)) : CreateParents(p)[j].do \in Makers
<1> PICK t : t = CreateParents(p)
  OBVIOUS
<1>1. \A j \in 1 .. Len(t) :
        /\ t[j].do = "createParentDirectory" /\ t[j].p \in Paths
        /\ IsPrefix(t[j].p, p) /\ t[j].p # p /\ writable[t[j].p] = Absent
  BY ParentsDoable
<1>2. ASSUME NEW i \in 1 .. Len(t)
      PROVE  Within(t[i], writable, r, D, c) /\ Placed(t, i, writable, r, D)
  <2> PICK q \in Paths : q = t[i].p
    BY <1>1
  <2>1. IsPrefix(q, p) /\ q # p /\ writable[q] = Absent /\ t[i].do = "createParentDirectory"
    BY <1>1
  <2>2. ~ IsPrefix(c.new, q) => IsPrefix(q, c.new) /\ q # c.new
    <3>1. Len(q) \in Nat /\ Len(c.new) \in Nat
      BY PathsAre
    <3>2. Len(c.new) <= Len(q) => IsPrefix(c.new, q)
      BY <2>1, PrefixOrder
    <3>3. Len(q) <= Len(c.new) => IsPrefix(q, c.new)
      BY <2>1, PrefixOrder
    <3> QED
      BY <3>1, <3>2, <3>3
  <2>3. TouchedBy(c, q) \/ Over(writable, r, D)[q] \in {Absent, Dir}
    BY <2>1, <2>2 DEF AllowsParents, TouchedBy
  <2>4. Within(t[i], writable, r, D, c)
    BY <2>1, <2>3 DEF Within, Makers
  <2>5. Placed(t, i, writable, r, D)
    BY <2>1 DEF Placed
  <2> QED
    BY <2>4, <2>5
<1> QED
  BY <1>1, <1>2 DEF Program, Makers

----------------------------------------------------------------------------
(* What the steps of a call find and leave *)

Taking(s, w, r, D, c) ==
  /\ s \in Doable(r) /\ c \in Steps
  /\ Layered(w, r, D) /\ Within(s, w, r, D, c) /\ First(s, w, r, D)

GotoOk(s, steps, w, r, D, c) ==
  /\ Program(steps, w, r, D, c)
  /\ HandsOver(s, steps, r, D)
  /\ s.do \in Makers => \A j \in 1 .. Len(steps) : steps[j].do \in Makers
  /\ s.do # "_writable.unlinkSync"

(* Above a path that is there are directories. *)
LEMMA AboveIsDir ==
  ASSUME NEW t, IsTree(t), NEW p \in Paths, t[p] # Absent, NEW q \in Paths, IsPrefix(q, p), q # p
  PROVE  t[q] = Dir
<1>1. p \in Seq(Name) /\ q \in Seq(Name) /\ Len(p) \in Nat /\ Len(q) \in Nat
  BY PathsAre
<1>2. Len(q) < Len(p)
  <2>1. Len(q) <= Len(p) /\ \A i \in 1 .. Len(q) : q[i] = p[i]
    BY <1>1, PrefixIs
  <2>2. Len(q) # Len(p)
    BY <1>1, <2>1, SeqEqual
  <2> QED
    BY <1>1, <2>1, <2>2
<1> PICK i \in 0 .. Len(p) : i = Len(q) + 1
  BY <1>1, <1>2
<1>3. /\ SubSeq(p, 1, i) \in Paths /\ IsPrefix(SubSeq(p, 1, i), p)
      /\ Len(SubSeq(p, 1, i)) = i
  BY Beginnings, BeginningIs
<1> PICK x \in Paths : x = SubSeq(p, 1, i)
  BY <1>3
<1>4. IsPrefix(x, p) /\ Len(x) = Len(q) + 1
  BY <1>3
<1>5. x # <<>> /\ t[x] # Absent /\ q # x
  BY <1>1, <1>4, PathsAre, AboveIsThere
<1>6. t[Parent(x)] = Dir /\ Parent(x) \in Paths /\ Len(Parent(x)) = Len(q) /\ IsPrefix(Parent(x), p)
  <2>1. /\ Parent(x) \in Paths /\ Len(Parent(x)) = Len(x) - 1 /\ IsPrefix(Parent(x), x)
        /\ t[Parent(x)] = Dir
    BY <1>5, ParentIs DEF IsTree
  <2> QED
    BY <1>1, <1>4, <2>1, PrefixOrder
<1>7. Parent(x) = q
  <2>1. IsPrefix(Parent(x), q) /\ IsPrefix(q, Parent(x))
    BY <1>1, <1>6, PrefixOrder
  <2> QED
    BY <1>6, <2>1, PrefixOrder
<1> QED
  BY <1>6, <1>7

LEMMA AllowedByTree ==
  ASSUME NEW w, NEW r, NEW D, Layered(w, r, D), NEW c, c.new \in Paths, NEW p \in Paths,
         IsPrefix(c.new, p), Over(w, r, D)[p] # Absent
  PROVE  AllowsParents(w, r, D, c)
<1> PICK v : v = Over(w, r, D)
  OBVIOUS
<1>1. IsTree(v) /\ v[p] # Absent
  BY LayersShowTree
<1>2. ASSUME NEW q \in Paths, IsPrefix(q, c.new), q # c.new PROVE v[q] = Dir
  <2>1. IsPrefix(q, p) /\ q # p
    BY <1>2, PrefixOrder
  <2> QED
    BY <1>1, <2>1, AboveIsDir
<1> QED
  BY <1>2 DEF AllowsParents

(* Where a file is, all that was readable is deleted. *)
LEMMA FileEmptied ==
  ASSUME NEW w, NEW r, NEW D, Layered(w, r, D), NEW p \in Paths,
         IsFileAt(w, p) \/ IsFileAt(Over(w, r, D), p)
  PROVE  Emptied(r, D, p)
<1>1. CASE r[p] = Dir
  <2>1. IsFileAt(w, p) \/ p \in D
    <3>1. Over(w, r, D)[p] = IF w[p] # Absent THEN w[p] ELSE IF p \in D THEN Absent ELSE r[p]
      BY DEF Over
    <3> QED
      BY <1>1, <3>1, NodesDiffer DEF IsFileAt
  <2>2. p \in D
    BY <1>1, <2>1 DEF Layered, FilesCover
  <2>3. ASSUME NEW q \in Children(r, p) PROVE q \in Below(p) /\ r[q] # Absent
    <3>1. q \in Paths \ {<<>>} /\ Parent(q) = p /\ r[q] # Absent
      BY <1>1, <2>3 DEF Children, IsDirAt, Parent
    <3> QED
      BY <3>1, ParentBelow
  <2> QED
    BY <2>2, <2>3 DEF Emptied, Layered, DeletedWhole
<1>2. CASE r[p] # Dir
  BY <1>2 DEF Emptied, Children, IsDirAt
<1> QED
  BY <1>1, <1>2

LEMMA Touching ==
  ASSUME NEW c \in Steps, NEW p \in Paths, NEW q \in Paths, IsPrefix(p, q), TouchedBy(c, p)
  PROVE  TouchedBy(c, q)
BY PrefixOrder DEF TouchedBy, Steps

LEMMA OfTaking ==
  ASSUME NEW s, NEW w, NEW r, NEW D, NEW c, Taking(s, w, r, D, c)
  PROVE  /\ s \in Steps /\ s.p \in Paths /\ s.new \in Paths /\ c.p \in Paths /\ c.new \in Paths
         /\ s.bytes \in Contents
BY StepsAre DEF Taking, Steps

----------------------------------------------------------------------------
(* The steps, one by one *)

LEMMA NothingLeft ==
  ASSUME NEW s, NEW w, NEW r, NEW D, NEW c, s.do # "_writable.unlinkSync",
         \A q \in Paths : Removes(s, q) /\ r[q] # Absent => q \in D
  PROVE  GotoOk(s, <<>>, w, r, D, c)
BY NoProgram DEF GotoOk, HandsOver

LEMMA OneLeft ==
  ASSUME NEW s, NEW a, NEW w, NEW r, NEW D, NEW c, s.do # "_writable.unlinkSync",
         Within(a, w, r, D, c), First(a, w, r, D), s.do \in Makers => a.do \in Makers,
         \A q \in Paths : Removes(s, q) /\ r[q] # Absent => q \in D \/ Removes(a, q)
  PROVE  GotoOk(s, <<a>>, w, r, D, c)
<1> PICK t : t = <<a>>
  OBVIOUS
<1>1. Len(t) = 1 /\ t[1] = a
  OBVIOUS
<1>2. Program(t, w, r, D, c)
  BY ProgramOne
<1>3. HandsOver(s, t, r, D)
  BY <1>1 DEF HandsOver
<1> QED
  BY <1>1, <1>2, <1>3 DEF GotoOk

LEMMA CreateParentDirectoryOk ==
  ASSUME NEW s, NEW w, NEW r, NEW D, NEW c, Taking(s, w, r, D, c),
         s.do = "createParentDirectory", Over(w, r, D)[s.p] # Absent
  PROVE  GotoOk(s, <<Step("_writable.mkdirSync", s.p)>>, w, r, D, c)
<1> PICK a : a = Step("_writable.mkdirSync", s.p)
  OBVIOUS
<1>1. a.do = "_writable.mkdirSync" /\ a.p = s.p
  BY DEF Step
<1>2. TouchedBy(c, s.p) \/ Over(w, r, D)[s.p] = Dir
  BY DEF Taking, Within
<1>3. Within(a, w, r, D, c) /\ First(a, w, r, D)
  BY <1>1, <1>2 DEF Within, First, Makers
<1>4. \A q \in Paths : ~ Removes(s, q)
  BY DEF Removes
<1> QED
  BY <1>1, <1>3, <1>4, OneLeft DEF Makers

LEMMA DeleteIfExistsOk ==
  ASSUME NEW s, NEW w, NEW r, NEW D, NEW c, Taking(s, w, r, D, c), s.do = "deleteIfExists"
  PROVE  /\ Over(w, r, D)[s.p] = Absent => GotoOk(s, <<>>, w, r, D, c)
         /\ GotoOk(s, <<Step("deletePath", s.p)>>, w, r, D, c)
<1>1. \A q : Removes(s, q) => q = s.p
  BY DEF Removes
<1>2. ASSUME Over(w, r, D)[s.p] = Absent PROVE GotoOk(s, <<>>, w, r, D, c)
  <2>1. r[s.p] # Absent => s.p \in D
    BY <1>2, OfTaking DEF Over
  <2> QED
    BY <1>1, <2>1, NothingLeft
<1> PICK a : a = Step("deletePath", s.p)
  OBVIOUS
<1>3. a.do = "deletePath" /\ a.p = s.p
  BY DEF Step
<1>4. TouchedBy(c, s.p) /\ Emptied(r, D, s.p)
  BY DEF Taking, Within, First, Makers
<1>5. Within(a, w, r, D, c) /\ First(a, w, r, D)
  BY <1>3, <1>4 DEF Within, First, Makers
<1>6. \A q : Removes(s, q) => Removes(a, q)
  BY <1>1, <1>3 DEF Removes
<1>7. GotoOk(s, <<a>>, w, r, D, c)
  BY <1>5, <1>6, OneLeft DEF Makers
<1> QED
  BY <1>2, <1>7

LEMMA DeleteIfEmptyOk ==
  ASSUME NEW s, NEW w, NEW r, NEW D, NEW c, Taking(s, w, r, D, c), s.do = "deleteIfEmpty"
  PROVE  /\ GotoOk(s, <<>>, w, r, D, c)
         /\ Emptied(r, D, s.p) => GotoOk(s, <<Step("deletePath", s.p)>>, w, r, D, c)
<1>1. \A q : ~ Removes(s, q)
  BY DEF Removes
<1>2. GotoOk(s, <<>>, w, r, D, c)
  BY <1>1, NothingLeft
<1> PICK a : a = Step("deletePath", s.p)
  OBVIOUS
<1>3. a.do = "deletePath" /\ a.p = s.p
  BY DEF Step
<1>4. TouchedBy(c, s.p)
  BY DEF Taking, Within, Makers
<1>5. Emptied(r, D, s.p) => Within(a, w, r, D, c) /\ First(a, w, r, D)
  BY <1>3, <1>4 DEF Within, First, Makers
<1>6. Emptied(r, D, s.p) => GotoOk(s, <<a>>, w, r, D, c)
  BY <1>1, <1>5, OneLeft DEF Makers
<1> QED
  BY <1>2, <1>6

LEMMA UnlinkOldOk ==
  ASSUME NEW s, NEW w, NEW r, NEW D, NEW c, Taking(s, w, r, D, c), s.do = "unlinkOld"
  PROVE  /\ ~ (s.p # s.new /\ Over(w, r, D)[s.p] # Absent) => GotoOk(s, <<>>, w, r, D, c)
         /\ GotoOk(s, <<Step("unlinkSync", s.p)>>, w, r, D, c)
<1>1. \A q : Removes(s, q) => q = s.p /\ s.p # s.new
  BY DEF Removes
<1>2. ASSUME ~ (s.p # s.new /\ Over(w, r, D)[s.p] # Absent) PROVE GotoOk(s, <<>>, w, r, D, c)
  <2>1. s.p # s.new /\ r[s.p] # Absent => s.p \in D
    BY <1>2, OfTaking DEF Over
  <2> QED
    BY <1>1, <2>1, NothingLeft
<1> PICK a : a = Step("unlinkSync", s.p)
  OBVIOUS
<1>3. a.do = "unlinkSync" /\ a.p = s.p
  BY DEF Step
<1>4. TouchedBy(c, s.p) /\ Emptied(r, D, s.p)
  BY DEF Taking, Within, First, Makers
<1>5. Within(a, w, r, D, c) /\ First(a, w, r, D)
  BY <1>3, <1>4 DEF Within, First, Makers
<1>6. \A q : Removes(s, q) => Removes(a, q)
  BY <1>1, <1>3 DEF Removes
<1>7. GotoOk(s, <<a>>, w, r, D, c)
  BY <1>5, <1>6, OneLeft DEF Makers
<1> QED
  BY <1>2, <1>7

LEMMA TwoAre ==
  ASSUME NEW a, NEW b
  PROVE  <<a>> \o <<b>> = <<a, b>> /\ <<>> \o <<b>> = <<b>>
<1> PICK S : S = {a, b}
  OBVIOUS
<1>1. <<a>> \in Seq(S) /\ <<b>> \in Seq(S) /\ <<a, b>> \in Seq(S)
  OBVIOUS
<1> PICK s \in Seq(S) : s = <<a>>
  BY <1>1
<1> PICK t \in Seq(S) : t = <<b>>
  BY <1>1
<1> PICK u \in Seq(S) : u = <<a, b>>
  BY <1>1
<1>2. Len(s) = 1 /\ Len(t) = 1 /\ Len(u) = 2 /\ s[1] = a /\ t[1] = b /\ u[1] = a /\ u[2] = b
  OBVIOUS
<1>3. /\ s \o t \in Seq(S) /\ Len(s \o t) = 2
      /\ \A i \in 1 .. 2 : (s \o t)[i] = IF i <= 1 THEN s[i] ELSE t[i - 1]
  <2>1. /\ s \o t \in Seq(S) /\ Len(s \o t) = Len(s) + Len(t)
        /\ \A i \in 1 .. Len(s) + Len(t) : (s \o t)[i] = IF i <= Len(s) THEN s[i] ELSE t[i - Len(s)]
    BY ConcatProperties
  <2> QED
    BY <1>2, <2>1
<1>4. (s \o t)[1] = a /\ (s \o t)[2] = b
  BY <1>2, <1>3
<1>5. \A i \in 1 .. 2 : (s \o t)[i] = u[i]
  BY <1>2, <1>4
<1>6. s \o t = u
  BY <1>2, <1>3, <1>5, SeqEqual
<1>7. <<>> \o t = t
  BY ConcatEmptySeq
<1> QED
  BY <1>6, <1>7

LEMMA TwoLeft ==
  ASSUME NEW s, NEW a, NEW b, NEW w, NEW r, NEW D, NEW c, s.do # "_writable.unlinkSync",
         Program(<<a, b>>, w, r, D, c), s.do \notin Makers,
         \A q \in Paths : Removes(s, q) /\ r[q] # Absent => q \in D \/ Removes(b, q)
  PROVE  GotoOk(s, <<a, b>>, w, r, D, c)
<1> PICK t : t = <<a, b>>
  OBVIOUS
<1>1. Len(t) = 2 /\ t[2] = b
  OBVIOUS
<1>2. HandsOver(s, t, r, D)
  BY <1>1 DEF HandsOver
<1> QED
  BY <1>2 DEF GotoOk

LEMMA UnlinkSyncOk ==
  ASSUME NEW s, NEW w, NEW r, NEW D, NEW c, Taking(s, w, r, D, c), s.do = "unlinkSync",
         Over(w, r, D)[s.p] # Absent
  PROVE  /\ GotoOk(s, <<Step("_writable.unlinkSync", s.p), Step("deleteIfExists", s.p)>>, w, r, D, c)
         /\ w[s.p] = Absent => GotoOk(s, <<Step("deleteIfExists", s.p)>>, w, r, D, c)
<1> PICK a, b : a = Step("_writable.unlinkSync", s.p) /\ b = Step("deleteIfExists", s.p)
  OBVIOUS
<1>1. a.do = "_writable.unlinkSync" /\ a.p = s.p /\ b.do = "deleteIfExists" /\ b.p = s.p
  BY DEF Step
<1>2. TouchedBy(c, s.p)
  BY DEF Taking, Within, Makers
<1>3. Within(a, w, r, D, c) /\ First(a, w, r, D) /\ Within(b, w, r, D, c)
  BY <1>1, <1>2 DEF Within, First, Makers
<1>4. \A q : Removes(s, q) => Removes(b, q)
  BY <1>1 DEF Removes
<1>5. GotoOk(s, <<a, b>>, w, r, D, c)
  <2>1. Program(<<a, b>>, w, r, D, c)
    BY <1>1, <1>3, ProgramTwo
  <2> QED
    BY <1>4, <2>1, TwoLeft DEF Makers
<1>6. ASSUME w[s.p] = Absent PROVE GotoOk(s, <<b>>, w, r, D, c)
  <2>1. Emptied(r, D, s.p)
    BY <1>6 DEF Taking, First
  <2>2. First(b, w, r, D)
    BY <1>1, <2>1 DEF First
  <2> QED
    BY <1>3, <1>4, <2>2, OneLeft DEF Makers
<1> QED
  BY <1>5, <1>6

LEMMA RmdirSyncOk ==
  ASSUME NEW s, NEW w, NEW r, NEW D, NEW c, Taking(s, w, r, D, c), s.do = "rmdirSync"
  PROVE  /\ GotoOk(s, <<Step("_writable.rmdirSync", s.p), Step("deleteIfEmpty", s.p)>>, w, r, D, c)
         /\ GotoOk(s, <<Step("deleteIfEmpty", s.p)>>, w, r, D, c)
<1> PICK a, b : a = Step("_writable.rmdirSync", s.p) /\ b = Step("deleteIfEmpty", s.p)
  OBVIOUS
<1>1. a.do = "_writable.rmdirSync" /\ a.p = s.p /\ b.do = "deleteIfEmpty" /\ b.p = s.p
  BY DEF Step
<1>2. TouchedBy(c, s.p)
  BY DEF Taking, Within, Makers
<1>3. /\ Within(a, w, r, D, c) /\ First(a, w, r, D)
      /\ Within(b, w, r, D, c) /\ First(b, w, r, D)
  BY <1>1, <1>2 DEF Within, First, Makers
<1>4. \A q : ~ Removes(s, q)
  BY DEF Removes
<1>5. GotoOk(s, <<a, b>>, w, r, D, c)
  <2>1. Program(<<a, b>>, w, r, D, c)
    BY <1>1, <1>3, ProgramTwo
  <2> QED
    BY <1>4, <2>1, TwoLeft DEF Makers
<1>6. GotoOk(s, <<b>>, w, r, D, c)
  BY <1>3, <1>4, OneLeft DEF Makers
<1> QED
  BY <1>5, <1>6

LEMMA RenameFileSyncOk ==
  ASSUME NEW s, NEW w, NEW r, NEW D, NEW c, Taking(s, w, r, D, c), s.do = "renameSync",
         IsFileAt(Over(w, r, D), s.p), Over(w, r, D)[s.new] # Dir, NEW data
  PROVE  GotoOk(s, <<StepWith("writeFileSync", s.new, data), StepTo("unlinkOld", s.p, s.new)>>,
                w, r, D, c)
<1> PICK a, b : a = StepWith("writeFileSync", s.new, data) /\ b = StepTo("unlinkOld", s.p, s.new)
  OBVIOUS
<1>1. a.do = "writeFileSync" /\ a.p = s.new /\ b.do = "unlinkOld" /\ b.p = s.p /\ b.new = s.new
  BY StepIs
<1>2. /\ TouchedBy(c, s.p) /\ AllowsParents(w, r, D, c) /\ IsPrefix(c.new, s.new)
      /\ TouchedBy(c, s.new)
  BY DEF Taking, Within, Makers, TouchedBy
<1>3. Within(a, w, r, D, c) /\ First(a, w, r, D) /\ Within(b, w, r, D, c)
  BY <1>1, <1>2 DEF Within, First, Makers
<1>4. \A q : Removes(s, q) => Removes(b, q)
  BY <1>1 DEF Removes
<1>5. Emptied(r, D, s.p)
  BY OfTaking, FileEmptied DEF Taking
<1>6. Program(<<a, b>>, w, r, D, c)
  BY <1>1, <1>3, <1>5, ProgramTwo
<1> QED
  BY <1>4, <1>6, TwoLeft DEF Makers

LEMMA Tuples ==
  ASSUME NEW S, NEW a \in S, NEW b \in S
  PROVE  <<>> \in Seq(S) /\ <<a>> \in Seq(S) /\ <<a, b>> \in Seq(S)
OBVIOUS

(* A file is opened after its directories are made. *)
LEMMA MkdirSyncOk ==
  ASSUME NEW s, NEW r, NEW D, NEW c, Taking(s, writable, r, D, c), s.do = "mkdirSync"
  PROVE  GotoOk(s, CreateParents(s.p) \o <<Step("_writable.mkdirSync", s.p)>>, writable, r, D, c)
<1> PICK a, t : a = Step("_writable.mkdirSync", s.p) /\ t = CreateParents(s.p)
  OBVIOUS
<1>1. a.do = "_writable.mkdirSync" /\ a.p = s.p
  BY DEF Step
<1>2. TouchedBy(c, s.p) /\ AllowsParents(writable, r, D, c) /\ IsPrefix(c.new, s.p)
  BY DEF Taking, Within, Makers
<1>3. Within(a, writable, r, D, c) /\ First(a, writable, r, D)
  BY <1>1, <1>2 DEF Within, First, Makers
<1>4. a \in Steps /\ s.p \in Paths /\ c.new \in Paths
  <2>1. s.p \in Paths /\ c.new \in Paths
    BY OfTaking
  <2>2. "_writable.mkdirSync" \in Doing /\ Empty \in Contents
    BY TreesAssumption DEF Doing, OnWritable
  <2>3. a \in Doable(r)
    BY <2>1, <2>2, StepsDoable
  <2> QED
    BY <2>1, <2>3, StepsAre
<1>5. t \in Seq(Steps)
  <2>1. t \in Seq(Doable(r))
    BY <1>4, ParentsDoable DEF Taking, Layered
  <2> QED
    BY <2>1, SeqMonotonic DEF Doable
<1>6. Program(t, writable, r, D, c)
  BY <1>2, <1>4, ParentsProgram DEF Taking, Layered
<1>7. Program(<<a>>, writable, r, D, c)
  BY <1>3, ProgramOne
<1> PICK v \in Seq(Steps) : v = <<a>>
  BY ONLY <1>4, Tuples
<1>8. Len(v) = 1 /\ \A k \in 1 .. Len(v) : v[k].do = "_writable.mkdirSync"
  BY <1>1
<1>9. Program(t \o v, writable, r, D, c)
  BY <1>5, <1>6, <1>7, <1>8, ProgramJoin
<1>10. \A q : ~ Removes(s, q)
  BY DEF Removes
<1> QED
  BY <1>9, <1>10 DEF GotoOk, HandsOver, Makers

LEMMA OpenProgram ==
  ASSUME NEW s, NEW r, NEW D, NEW c, Taking(s, writable, r, D, c), NEW data \in Contents,
         AllowsParents(writable, r, D, c), IsPrefix(c.new, s.p),
         Over(writable, r, D)[s.p] # Dir \/ writable[s.p] # Absent
  PROVE  Program(Open(s.p) \o <<StepWith("_writable.write", s.p, data)>>, writable, r, D, c)
<1> PICK a, b : a = Step("_writable.openSync", s.p) /\ b = StepWith("_writable.write", s.p, data)
  OBVIOUS
<1> PICK t : t = CreateParents(s.p)
  OBVIOUS
<1>1. /\ a.do = "_writable.openSync" /\ a.p = s.p
      /\ b.do = "_writable.write" /\ b.p = s.p
  BY StepIs
<1>2. TouchedBy(c, s.p)
  BY DEF TouchedBy
<1>3. /\ Within(a, writable, r, D, c) /\ First(a, writable, r, D)
      /\ Within(b, writable, r, D, c) /\ First(b, writable, r, D)
  BY <1>1, <1>2 DEF Within, First, Makers
<1>4. a \in Steps /\ b \in Steps /\ s.p \in Paths /\ c.new \in Paths
  <2>1. s.p \in Paths /\ c.new \in Paths
    BY OfTaking
  <2>2. "_writable.openSync" \in Doing /\ "_writable.write" \in Doing
    BY DEF Doing, OnWritable
  <2>3. a \in Doable(r) /\ b \in Doable(r)
    BY <2>1, <2>2, StepsDoable
  <2> QED
    BY <2>1, <2>3, StepsAre
<1>5. t \in Seq(Steps)
  <2>1. t \in Seq(Doable(r))
    BY <1>4, ParentsDoable DEF Taking, Layered
  <2> QED
    BY <2>1, SeqMonotonic DEF Doable
<1>6. Program(t, writable, r, D, c) /\ \A j \in 1 .. Len(t) : t[j].do \in Makers
  BY <1>4, ParentsProgram DEF Taking, Layered
<1>7. Program(<<a>>, writable, r, D, c) /\ Program(<<b>>, writable, r, D, c)
  BY <1>3, ProgramOne
<1> PICK v \in Seq(Steps) : v = <<a>>
  BY ONLY <1>4, Tuples
<1> PICK x \in Seq(Steps) : x = <<b>>
  BY ONLY <1>4, Tuples
<1>8. /\ Len(v) = 1 /\ \A k \in 1 .. Len(v) : v[k].do = "_writable.openSync"
      /\ Len(x) = 1 /\ \A k \in 1 .. Len(x) : x[k].do = "_writable.write"
  BY <1>1
<1>9. Program(t \o v, writable, r, D, c) /\ t \o v \in Seq(Steps)
  BY <1>5, <1>6, <1>7, <1>8, ProgramJoin, ConcatProperties
<1> PICK u \in Seq(Steps) : u = t \o v
  BY <1>9
<1>10. Program(u \o x, writable, r, D, c)
  BY <1>7, <1>8, <1>9, ProgramJoin
<1>11. Open(s.p) = u
  BY DEF Open
<1> QED
  BY <1>10, <1>11

LEMMA WriteFileSyncOk ==
  ASSUME NEW s, NEW r, NEW D, NEW c, Taking(s, writable, r, D, c), s.do = "writeFileSync"
  PROVE  GotoOk(s, Open(s.p) \o <<StepWith("_writable.write", s.p, s.bytes)>>, writable, r, D, c)
<1>1. /\ AllowsParents(writable, r, D, c) /\ IsPrefix(c.new, s.p)
      /\ Over(writable, r, D)[s.p] # Dir \/ writable[s.p] # Absent
  BY DEF Taking, Within, First
<1>2. Program(Open(s.p) \o <<StepWith("_writable.write", s.p, s.bytes)>>, writable, r, D, c)
  BY <1>1, OpenProgram, OfTaking
<1>3. \A q : ~ Removes(s, q)
  BY DEF Removes
<1> QED
  BY <1>2, <1>3 DEF GotoOk, HandsOver, Makers

LEMMA TruncateSyncOk ==
  ASSUME NEW s, NEW r, NEW D, NEW c, Taking(s, writable, r, D, c), s.do = "truncateSync"
  PROVE  /\ GotoOk(s, <<StepWith("_writable.write", s.p, s.bytes)>>, writable, r, D, c)
         /\ IsFileAt(Over(writable, r, D), s.p) =>
              GotoOk(s, Open(s.p) \o <<StepWith("_writable.write", s.p, s.bytes)>>, writable, r, D, c)
<1> PICK a : a = StepWith("_writable.write", s.p, s.bytes)
  OBVIOUS
<1>1. a.do = "_writable.write" /\ a.p = s.p
  BY StepIs
<1>2. IsPrefix(c.new, s.p) /\ TouchedBy(c, s.p)
  BY DEF Taking, Within, Makers
<1>3. Within(a, writable, r, D, c) /\ First(a, writable, r, D)
  BY <1>1, <1>2 DEF Within, First, Makers
<1>4. \A q : ~ Removes(s, q)
  BY DEF Removes
<1>5. GotoOk(s, <<a>>, writable, r, D, c)
  BY <1>3, <1>4, OneLeft DEF Makers
<1>6. ASSUME IsFileAt(Over(writable, r, D), s.p)
      PROVE  GotoOk(s, Open(s.p) \o <<a>>, writable, r, D, c)
  <2>1. Over(writable, r, D)[s.p] # Absent /\ Over(writable, r, D)[s.p] # Dir
    BY <1>6, NodesDiffer DEF IsFileAt
  <2>2. AllowsParents(writable, r, D, c)
    BY <1>2, <2>1, AllowedByTree, OfTaking DEF Taking
  <2>3. Program(Open(s.p) \o <<a>>, writable, r, D, c)
    BY <1>2, <2>1, <2>2, OpenProgram, OfTaking
  <2> QED
    BY <1>4, <2>3 DEF GotoOk, HandsOver, Makers
<1> QED
  BY <1>5, <1>6

LEMMA OperateOnWritableOk ==
  ASSUME NEW s, NEW w, NEW r, NEW D, NEW c, Taking(s, w, r, D, c), s.do = "chmodSync", NEW data
  PROVE  /\ GotoOk(s, <<>>, w, r, D, c)
         /\ GotoOk(s, <<Step("_writable.mkdirSync", s.p)>>, w, r, D, c)
         /\ IsFileAt(Over(w, r, D), s.p) =>
              GotoOk(s, <<StepWith("writeFileSync", s.p, data)>>, w, r, D, c)
<1> PICK a, b : a = Step("_writable.mkdirSync", s.p) /\ b = StepWith("writeFileSync", s.p, data)
  OBVIOUS
<1>1. a.do = "_writable.mkdirSync" /\ a.p = s.p /\ b.do = "writeFileSync" /\ b.p = s.p
  BY StepIs
<1>2. IsPrefix(c.new, s.p) /\ TouchedBy(c, s.p)
  BY DEF Taking, Within, Makers
<1>3. Within(a, w, r, D, c) /\ First(a, w, r, D)
  BY <1>1, <1>2 DEF Within, First, Makers
<1>4. \A q : ~ Removes(s, q)
  BY DEF Removes
<1>5. GotoOk(s, <<>>, w, r, D, c) /\ GotoOk(s, <<a>>, w, r, D, c)
  BY <1>3, <1>4, NothingLeft, OneLeft DEF Makers
<1>6. ASSUME IsFileAt(Over(w, r, D), s.p) PROVE GotoOk(s, <<b>>, w, r, D, c)
  <2>1. Over(w, r, D)[s.p] # Absent /\ Over(w, r, D)[s.p] # Dir
    BY <1>6, NodesDiffer DEF IsFileAt
  <2>2. AllowsParents(w, r, D, c)
    BY <1>2, <2>1, AllowedByTree, OfTaking DEF Taking
  <2>3. Within(b, w, r, D, c) /\ First(b, w, r, D)
    BY <1>1, <1>2, <2>1, <2>2 DEF Within, First, Makers
  <2> QED
    BY <1>4, <2>3, OneLeft DEF Makers
<1> QED
  BY <1>5, <1>6

----------------------------------------------------------------------------
(* The rename of a directory *)

LEMMA RenameDirSyncOk ==
  ASSUME NEW s, NEW w, NEW r, NEW D, NEW c, Taking(s, w, r, D, c), s.do = "renameSync",
         s.p # s.new, NEW t \in Seq(Steps),
         \/ t = <<>>
         \/ t = <<Step("_writable.mkdirSync", s.new)>>
         \/ /\ t = <<StepTo("_writable.renameSync", s.p, s.new)>>
            /\ w[s.p] = Dir /\ Vacant(Over(w, r, D), s.new)
  PROVE  GotoOk(s, t \o <<StepTo("renameChildren", s.p, s.new), StepTo("unlinkOld", s.p, s.new)>>,
                w, r, D, c)
<1> PICK a, b : a = StepTo("renameChildren", s.p, s.new) /\ b = StepTo("unlinkOld", s.p, s.new)
  OBVIOUS
<1>1. /\ a.do = "renameChildren" /\ a.p = s.p /\ a.new = s.new
      /\ b.do = "unlinkOld" /\ b.p = s.p /\ b.new = s.new
  <2>1. a = [do |-> "renameChildren", p |-> s.p, new |-> s.new, bytes |-> Empty]
    BY DEF StepTo, Step
  <2>2. b = [do |-> "unlinkOld", p |-> s.p, new |-> s.new, bytes |-> Empty]
    BY DEF StepTo, Step
  <2> QED
    BY ONLY <2>1, <2>2
<1>2. /\ TouchedBy(c, s.p) /\ AllowsParents(w, r, D, c) /\ IsPrefix(c.new, s.new)
      /\ TouchedBy(c, s.new)
  BY DEF Taking, Within, Makers, TouchedBy
<1>3. /\ Within(a, w, r, D, c) /\ First(a, w, r, D)
      /\ Within(b, w, r, D, c)
  BY <1>1, <1>2 DEF Within, First, Makers
<1>4. a \in Steps /\ b \in Steps
  <2>1. s \in Doable(r) /\ Reaches(r, s.p, s.new) /\ s.p \in Paths /\ s.new \in Paths
    BY OfTaking DEF Taking, Doable
  <2>2. Empty \in Contents
    BY TreesAssumption
  <2>3. /\ a = [do |-> "renameChildren", p |-> s.p, new |-> s.new, bytes |-> Empty]
        /\ b = [do |-> "unlinkOld", p |-> s.p, new |-> s.new, bytes |-> Empty]
    BY DEF StepTo, Step
  <2> QED
    BY <2>1, <2>2, <2>3 DEF Steps, Checking
<1>5. Program(<<a, b>>, w, r, D, c)
  <2>1. \A q \in Children(r, b.p) : Removes(a, q)
    BY <1>1 DEF Children, Removes, Parent
  <2> QED
    BY <1>1, <1>3, <2>1, ProgramTwo
<1>6. Program(t, w, r, D, c)
  <2>1. CASE t = <<>>
    BY <2>1, NoProgram
  <2>2. CASE t = <<Step("_writable.mkdirSync", s.new)>>
    <3> PICK x : x = Step("_writable.mkdirSync", s.new)
      OBVIOUS
    <3>1. x.do = "_writable.mkdirSync" /\ x.p = s.new
      BY DEF Step
    <3>2. Within(x, w, r, D, c) /\ First(x, w, r, D)
      BY <1>2, <3>1 DEF Within, First, Makers
    <3> QED
      BY <2>2, <3>2, ProgramOne
  <2>3. CASE /\ t = <<StepTo("_writable.renameSync", s.p, s.new)>>
             /\ w[s.p] = Dir /\ Vacant(Over(w, r, D), s.new)
    <3> PICK x : x = StepTo("_writable.renameSync", s.p, s.new)
      OBVIOUS
    <3>1. x.do = "_writable.renameSync" /\ x.p = s.p /\ x.new = s.new
      BY DEF StepTo, Step
    <3>2. Within(x, w, r, D, c) /\ First(x, w, r, D)
      BY <1>2, <2>3, <3>1 DEF Within, First, Makers
    <3> QED
      BY <2>3, <3>2, ProgramOne
  <2> QED
    BY <2>1, <2>2, <2>3
<1> PICK v \in Seq(Steps) : v = <<a, b>>
  BY ONLY <1>4, Tuples
<1>7. Len(v) = 2 /\ v[1] = a /\ v[2] = b /\ \A k \in 1 .. 2 : k = 1 \/ k = 2
  OBVIOUS
<1>8. \A k \in 1 .. Len(v) : v[k].do \in {"renameChildren", "unlinkOld"}
  BY <1>1, <1>7
<1>9. Program(t \o v, w, r, D, c)
  BY <1>5, <1>6, <1>8, ProgramJoin
<1>10. HandsOver(s, t \o v, r, D)
  <2> PICK u : u = t \o v
    OBVIOUS
  <2>1. \A k \in 1 .. Len(v) : u[Len(t) + k] = v[k] /\ Len(t) + k \in 1 .. Len(u)
    BY WhereJoined
  <2>2. 2 \in 1 .. Len(v)
    BY <1>7
  <2>3. u[Len(t) + 2] = b /\ Len(t) + 2 \in 1 .. Len(u)
    BY <1>7, <2>1, <2>2
  <2>4. \A q : Removes(s, q) => Removes(b, q)
    BY <1>1 DEF Removes
  <2> QED
    BY <2>3, <2>4 DEF HandsOver
<1> QED
  BY <1>9, <1>10 DEF GotoOk, Makers

(* Every child has a place in a sequence of all of them. *)
LEMMA AllNamed ==
  ASSUME NEW S, IsFiniteSet(S), NEW names \in SetToSeqs(S)
  PROVE  /\ names \in Seq(S)
         /\ \A x \in S : \E i \in 1 .. Len(names) : names[i] = x
<1> PICK n \in Nat : n = Cardinality(S)
  BY FS_CardinalityType
<1>1. names \in [1 .. n -> S] /\ \A i, j \in 1 .. n : i # j => names[i] # names[j]
  BY DEF SetToSeqs
<1>2. names \in Injection(1 .. n, S)
  BY <1>1 DEF Injection, IsInjective
<1>3. Cardinality(1 .. n) = n
  BY FS_Interval
<1>4. names \in Surjection(1 .. n, S)
  BY <1>2, <1>3, FS_Injection
<1>5. names \in Seq(S) /\ Len(names) = n
  BY <1>1, SeqDef
<1> QED
  BY <1>4, <1>5 DEF Surjection

(* A child moves to the place of its name in the new directory. *)
LEMMA ChildMoves ==
  ASSUME NEW r, NEW p \in Paths, NEW new \in Paths, Reaches(r, p, new),
         NEW q \in Paths \ {<<>>}, Parent(q) = p, r[q] # Absent
  PROVE  /\ Append(new, Last(q)) \in Paths /\ IsPrefix(new, Append(new, Last(q)))
         /\ p # new => q # Append(new, Last(q))
         /\ \A z \in Below(q) : r[z] # Absent =>
              Append(new, Last(q)) \o SubSeq(z, Len(q) + 1, Len(z)) \in Paths
<1> PICK l : l = Last(q)
  OBVIOUS
<1>1. /\ q \in Seq(Name) /\ p \in Seq(Name) /\ new \in Seq(Name)
      /\ Len(q) \in Nat /\ Len(p) \in Nat /\ Len(new) \in Nat
      /\ Len(p) = Len(q) - 1 /\ \A i \in 1 .. Len(p) : p[i] = q[i]
      /\ l = q[Len(q)]
  BY PathsAre, ParentIs DEF Last
<1>2. l \in Name
  BY <1>1, ElementOfSeq, PathsAre
<1> PICK m \in Nat \ {0} : m = Len(p) + 1
  BY <1>1
<1>3. m = Len(q)
  BY <1>1
<1> PICK d \in Seq(Name) : d = Append(new, l)
  BY <1>1, <1>2, AppendProperties
<1>4. d = new \o <<l>> /\ <<l>> \in Seq(Name)
  BY <1>1, <1>2, AppendIsConcat
<1>5. Len(d) = Len(new) + 1 /\ \A i \in 1 .. Len(new) : d[i] = new[i]
  <2>1. Len(d) = Len(new) + 1 /\ \A i \in 1 .. Len(new) + 1 : d[i] = IF i <= Len(new) THEN new[i] ELSE l
    BY <1>1, <1>2, AppendProperties
  <2> QED
    BY <1>1, <2>1
<1>6. ASSUME NEW z \in Paths, IsPrefix(q, z), r[z] # Absent
      PROVE  d \o SubSeq(z, m + 1, Len(z)) \in Paths
  <2>1. z \in Seq(Name) /\ Len(z) \in Nat /\ Len(q) <= Len(z) /\ z[m] = l
    <3>1. z \in Seq(Name) /\ Len(z) \in Nat
      BY PathsAre
    <3>2. Len(q) <= Len(z) /\ \A i \in 1 .. Len(q) : q[i] = z[i]
      BY <1>1, <1>6, <3>1, PrefixIs
    <3> QED
      BY <1>1, <1>3, <3>1, <3>2
  <2> PICK n \in Nat : n = Len(z)
    BY <2>1
  <2>2. m \in 1 .. Len(z) /\ n \in m .. Len(z)
    BY <1>3, <2>1
  <2>3. SubSeq(z, m, n) = <<z[m]>> \o SubSeq(z, m + 1, n)
    BY <2>1, <2>2, SubSeqRecursiveFirst
  <2>4. SubSeq(z, m + 1, n) \in Seq(Name)
    <3>1. \A i \in m + 1 .. n : z[i] \in Name
      <4>1. \A i \in m + 1 .. n : i \in 1 .. Len(z)
        OBVIOUS
      <4> QED
        BY <2>1, <4>1, ElementOfSeq
    <3> QED
      BY <3>1, SubSeqProperties
  <2> PICK v \in Seq(Name) : v = SubSeq(z, m + 1, n)
    BY <2>4
  <2>5. (new \o <<l>>) \o v = new \o (<<l>> \o v)
    <3>1. new \in Seq(Name) /\ <<l>> \in Seq(Name) /\ v \in Seq(Name)
      BY <1>1, <1>4
    <3> QED
      BY ONLY <3>1, ConcatAssociative
  <2>6. d \o v = new \o SubSeq(z, m, n)
    BY <1>4, <2>1, <2>3, <2>5
  <2>7. z \in Below(p)
    <3>1. IsPrefix(p, q) /\ p # q
      BY ParentIs
    <3>2. IsPrefix(p, z) /\ z # p
      BY <1>6, <3>1, PrefixOrder
    <3> QED
      BY <3>2, BelowIs
  <2>8. new \o SubSeq(z, Len(p) + 1, Len(z)) \in Paths
    BY <1>6, <2>7 DEF Reaches
  <2>9. SubSeq(z, Len(p) + 1, Len(z)) = SubSeq(z, m, n) /\ SubSeq(z, m + 1, Len(z)) = v
    BY ONLY m = Len(p) + 1, n = Len(z), v = SubSeq(z, m + 1, n)
  <2>10. new \o SubSeq(z, m, n) \in Paths
    BY ONLY <2>8, <2>9
  <2> QED
    BY ONLY <2>6, <2>9, <2>10
<1>7. d \in Paths
  <2>1. d \o SubSeq(q, m + 1, Len(q)) \in Paths
    BY <1>6, PrefixOrder
  <2>2. SubSeq(q, m + 1, Len(q)) = <<>>
    BY <1>3, SubSeqEmpty
  <2>3. d \o <<>> = d
    BY ConcatEmptySeq
  <2> QED
    BY <2>1, <2>2, <2>3
<1>8. IsPrefix(new, d)
  <2>1. Len(new) <= Len(d) /\ \A i \in 1 .. Len(new) : new[i] = d[i]
    BY <1>1, <1>5
  <2> QED
    BY <1>1, <2>1, PrefixIs
<1>9. ASSUME q = d PROVE p = new
  <2>1. Len(p) = Len(new)
    BY <1>1, <1>5, <1>9
  <2>2. \A i \in 1 .. Len(p) : p[i] = new[i]
    BY <1>1, <1>5, <1>9, <2>1
  <2> QED
    BY <1>1, <2>1, <2>2, SeqEqual
<1>10. \A z \in Below(q) : z \in Paths /\ IsPrefix(q, z)
  BY BelowIs
<1> QED
  BY <1>3, <1>6, <1>7, <1>8, <1>9, <1>10

LEMMA RenamesAre ==
  ASSUME NEW r \in Readables, NEW p \in Paths, NEW new \in Paths, Reaches(r, p, new),
         NEW names \in SetToSeqs(Children(r, p)),
         NEW t, t = [i \in DOMAIN names |-> StepTo("renameSync", names[i], Append(new, Last(names[i])))]
  PROVE  /\ t \in Seq(Doable(r))
         /\ \A i \in 1 .. Len(t) :
              /\ t[i].do = "renameSync" /\ t[i].p \in Paths /\ IsPrefix(p, t[i].p)
              /\ IsPrefix(new, t[i].new) /\ (p # new => t[i].p # t[i].new)
         /\ \A q \in Children(r, p) : \E i \in 1 .. Len(t) : t[i].p = q
<1>1. IsFiniteSet(Children(r, p))
  <2>1. IsFiniteSet({q \in Paths : r[q] # Absent})
    BY ReadablesAssumption
  <2>2. Children(r, p) \in SUBSET {q \in Paths : r[q] # Absent}
    BY DEF Children
  <2> QED
    BY <2>1, <2>2, FS_Subset
<1>2. /\ names \in Seq(Children(r, p))
      /\ \A q \in Children(r, p) : \E i \in 1 .. Len(names) : names[i] = q
  BY <1>1, AllNamed
<1> PICK n \in Nat : n = Len(names)
  BY <1>2
<1>3. DOMAIN names = 1 .. n /\ \A i \in 1 .. n : names[i] \in Children(r, p)
  BY <1>2
<1>4. ASSUME NEW i \in 1 .. n
      PROVE  /\ t[i] \in Doable(r) /\ t[i].do = "renameSync" /\ t[i].p = names[i]
             /\ t[i].p \in Paths /\ IsPrefix(p, t[i].p)
             /\ IsPrefix(new, t[i].new) /\ (p # new => t[i].p # t[i].new)
  <2> PICK q : q = names[i]
    OBVIOUS
  <2>1. q \in Paths \ {<<>>} /\ Parent(q) = p /\ r[q] # Absent
    BY <1>3 DEF Children, Parent
  <2> PICK d : d = Append(new, Last(q))
    OBVIOUS
  <2>2. /\ d \in Paths /\ IsPrefix(new, d) /\ (p # new => q # d)
        /\ \A z \in Below(q) : r[z] # Absent => d \o SubSeq(z, Len(q) + 1, Len(z)) \in Paths
    BY <2>1, ChildMoves
  <2> PICK e : e = t[i]
    OBVIOUS
  <2>3. e = [do |-> "renameSync", p |-> q, new |-> d, bytes |-> Empty]
    BY <1>3 DEF StepTo, Step
  <2>4. e \in Doable(r)
    <3>1. Reaches(r, q, d)
      BY <2>2 DEF Reaches
    <3>2. Empty \in Contents
      BY TreesAssumption
    <3>3. e \in Steps
      BY ONLY <2>1, <2>2, <2>3, <3>2 DEF Steps, Checking, Methods
    <3>4. e.p = q /\ e.new = d
      BY ONLY <2>3
    <3> QED
      BY ONLY <3>1, <3>3, <3>4 DEF Doable
  <2>5. IsPrefix(p, q)
    BY <2>1, ParentIs
  <2>6. /\ e.do = "renameSync" /\ e.p = q /\ e.p \in Paths /\ IsPrefix(p, e.p)
        /\ IsPrefix(new, e.new) /\ (p # new => e.p # e.new)
    BY ONLY <2>1, <2>2, <2>3, <2>5
  <2> QED
    BY ONLY <2>4, <2>6, e = t[i], q = names[i]
<1>5. t \in Seq(Doable(r)) /\ Len(t) = n
  <2>1. t \in [1 .. n -> Doable(r)]
    BY <1>3, <1>4
  <2> QED
    BY <2>1, SeqDef
<1> QED
  BY <1>2, <1>3, <1>4, <1>5

LEMMA RenameChildrenOk ==
  ASSUME NEW s, NEW w, NEW r \in Readables, NEW D, NEW c, Taking(s, w, r, D, c),
         s.do = "renameChildren"
  PROVE  /\ r[s.p] # Dir => GotoOk(s, <<>>, w, r, D, c)
         /\ \A names \in SetToSeqs(Children(r, s.p)) :
              GotoOk(s, [i \in DOMAIN names |->
                           StepTo("renameSync", names[i], Append(s.new, Last(names[i])))], w, r, D, c)
<1>1. /\ TouchedBy(c, s.p) /\ AllowsParents(w, r, D, c) /\ IsPrefix(c.new, s.new) /\ s.p # s.new
      /\ s.p \in Paths /\ s.new \in Paths /\ c \in Steps /\ c.new \in Paths
  BY OfTaking DEF Taking, Within, Makers
<1>2. ASSUME NEW q \in Paths, Removes(s, q), r[q] # Absent PROVE q \in Children(r, s.p)
  <2>1. q # <<>> /\ Parent(q) = s.p
    BY <1>2 DEF Removes
  <2>2. r[s.p] = Dir
    BY <1>2, <2>1 DEF Taking, Layered, IsTree
  <2> QED
    BY <1>2, <2>1, <2>2 DEF Children, IsDirAt, Parent
<1>3. ASSUME r[s.p] # Dir PROVE GotoOk(s, <<>>, w, r, D, c)
  <2>1. Children(r, s.p) = {}
    BY <1>3 DEF Children, IsDirAt
  <2> QED
    BY <1>2, <2>1, NothingLeft
<1>4. ASSUME NEW names \in SetToSeqs(Children(r, s.p)),
             NEW t, t = [i \in DOMAIN names |->
                           StepTo("renameSync", names[i], Append(s.new, Last(names[i])))]
      PROVE  GotoOk(s, t, w, r, D, c)
  <2>1. Reaches(r, s.p, s.new)
    BY DEF Taking, Doable
  <2>2. /\ \A i \in 1 .. Len(t) :
              /\ t[i].do = "renameSync" /\ t[i].p \in Paths /\ IsPrefix(s.p, t[i].p)
              /\ IsPrefix(s.new, t[i].new) /\ (s.p # s.new => t[i].p # t[i].new)
        /\ \A q \in Children(r, s.p) : \E i \in 1 .. Len(t) : t[i].p = q
        /\ t \in Seq(Doable(r))
    BY <1>1, <1>4, <2>1, RenamesAre
  <2>3. ASSUME NEW i \in 1 .. Len(t) PROVE Within(t[i], w, r, D, c) /\ Placed(t, i, w, r, D)
    <3> PICK e : e = t[i]
      OBVIOUS
    <3>1. e \in Doable(r)
      BY <2>2, ElementOfSeq
    <3>2. /\ e.do = "renameSync" /\ IsPrefix(s.p, e.p) /\ IsPrefix(s.new, e.new)
      BY ONLY <2>2, e = t[i], i \in 1 .. Len(t)
    <3>3. e.p \in Paths /\ e.new \in Paths
      BY ONLY <3>1, StepsAre
    <3> PICK p \in Paths, new \in Paths : p = e.p /\ new = e.new
      BY <3>3
    <3>4. TouchedBy(c, p)
      <4>1. IsPrefix(s.p, p)
        BY ONLY <3>2, p = e.p
      <4> QED
        BY ONLY <1>1, <4>1, Touching, p \in Paths
    <3>5. IsPrefix(c.new, new)
      <4>1. IsPrefix(s.new, new)
        BY ONLY <3>2, new = e.new
      <4> QED
        BY ONLY <1>1, <4>1, PrefixOrder, new \in Paths
    <3>6. Within(e, w, r, D, c)
      BY ONLY <1>1, <3>2, <3>4, <3>5, p = e.p, new = e.new DEF Within, Makers
    <3>7. Placed(t, i, w, r, D)
      BY ONLY <3>2, e = t[i] DEF Placed
    <3> QED
      BY ONLY <3>6, <3>7, e = t[i]
  <2>4. Program(t, w, r, D, c)
    BY <2>3 DEF Program
  <2>5. HandsOver(s, t, r, D)
    <3>1. \A i \in 1 .. Len(t) : Removes(t[i], t[i].p)
      BY <1>1, <2>2 DEF Removes
    <3> QED
      BY <1>2, <2>2, <3>1 DEF HandsOver
  <2> QED
    BY <2>4, <2>5 DEF GotoOk, Makers
<1> QED
  BY <1>3, <1>4

----------------------------------------------------------------------------
(* The steps that change something *)

Moves(s, w, D, w2, D2, r, c) ==
  /\ Layered(w2, r, D2) /\ LeavesOthers(w, D, w2, D2, r, c)
  /\ HandsOver(s, <<>>, r, D2) /\ MakesOnly(s, <<>>, w, D, w2, D2, r) /\ Unlinks(s, <<>>, r, D2)

(* One node changes, that the call may touch. *)
LEMMA OneChanges ==
  ASSUME NEW s, NEW w, NEW r, NEW D, NEW c, Taking(s, w, r, D, c), NEW node \in Nodes,
         NEW w2, w2 = With(w, s.p, node), Layered(w2, r, D), s.do \notin Makers,
         \A q \in Paths : ~ Removes(s, q),
         s.do = "_writable.unlinkSync" => Emptied(r, D, s.p)
  PROVE  Moves(s, w, D, w2, D, r, c)
<1>1. TouchedBy(c, s.p)
  BY DEF Taking, Within
<1>2. w \in Trees /\ s.p \in Paths
  BY OfTaking DEF Taking, Layered
<1>3. \A q \in Paths : q # s.p => w2[q] = w[q]
  BY <1>2 DEF With, Trees
<1>4. LeavesOthers(w, D, w2, D, r, c)
  BY <1>1, <1>3 DEF LeavesOthers, Over
<1> QED
  BY <1>4 DEF Moves, HandsOver, MakesOnly, Unlinks

LEMMA WritableMkdirOk ==
  ASSUME NEW s, NEW w, NEW r, NEW D, NEW c, Taking(s, w, r, D, c),
         s.do = "_writable.mkdirSync", CanCreate(w, s.p),
         NEW w2, w2 = With(w, s.p, Dir)
  PROVE  Moves(s, w, D, w2, D, r, c)
<1>1. w \in Trees /\ s.p \in Paths /\ Layered(w, r, D)
  BY OfTaking DEF Taking, Layered
<1>2. Layered(w2, r, D)
  BY <1>1, DirLayered
<1>3. w2[s.p] = Dir /\ \A q \in Paths : q # s.p => w2[q] = w[q]
  BY <1>1 DEF With, Trees
<1>4. TouchedBy(c, s.p) \/ Over(w, r, D)[s.p] = Dir
  BY DEF Taking, Within
<1>5. Over(w2, r, D)[s.p] = Dir /\ \A q \in Paths : q # s.p => Over(w2, r, D)[q] = Over(w, r, D)[q]
  BY <1>1, <1>3, NodesDiffer DEF Over
<1>6. LeavesOthers(w, D, w2, D, r, c)
  BY <1>3, <1>4, <1>5, NodesDiffer DEF LeavesOthers
<1>7. MakesOnly(s, <<>>, w, D, w2, D, r)
  BY <1>3, <1>5, NodesDiffer DEF MakesOnly
<1> QED
  BY <1>2, <1>6, <1>7 DEF Moves, HandsOver, Unlinks, Removes

LEMMA WritableRmdirOk ==
  ASSUME NEW s, NEW w, NEW r, NEW D, NEW c, Taking(s, w, r, D, c),
         s.do = "_writable.rmdirSync", CanRmdir(w, s.p),
         NEW w2, w2 = With(w, s.p, Absent)
  PROVE  Moves(s, w, D, w2, D, r, c)
<1>1. s.p \in Paths /\ Layered(w, r, D)
  BY OfTaking DEF Taking
<1>2. Layered(w2, r, D)
  BY <1>1, RemovedLayered
<1>3. Absent \in Nodes
  BY DEF Nodes
<1>4. s.do \notin Makers /\ s.do # "_writable.unlinkSync" /\ \A q \in Paths : ~ Removes(s, q)
  BY DEF Makers, Removes
<1> QED
  BY <1>2, <1>3, <1>4, OneChanges

LEMMA WritableUnlinkOk ==
  ASSUME NEW s, NEW w, NEW r, NEW D, NEW c, Taking(s, w, r, D, c),
         s.do = "_writable.unlinkSync", CanUnlink(w, s.p),
         NEW w2, w2 = With(w, s.p, Absent)
  PROVE  Moves(s, w, D, w2, D, r, c)
<1>1. s.p \in Paths /\ Layered(w, r, D)
  BY OfTaking DEF Taking
<1>2. Layered(w2, r, D)
  BY <1>1, RemovedLayered
<1>3. Absent \in Nodes
  BY DEF Nodes
<1>4. s.do \notin Makers /\ \A q \in Paths : ~ Removes(s, q)
  BY DEF Makers, Removes
<1>5. Emptied(r, D, s.p)
  BY <1>1, FileEmptied DEF CanUnlink
<1> QED
  BY <1>2, <1>3, <1>4, <1>5, OneChanges

LEMMA WritableFileOk ==
  ASSUME NEW s, NEW w, NEW r, NEW D, NEW c, Taking(s, w, r, D, c),
         \/ s.do = "_writable.openSync" /\ (CanCreate(w, s.p) \/ IsFileAt(w, s.p))
         \/ s.do = "_writable.write" /\ IsFileAt(w, s.p),
         NEW w2, w2 = With(w, s.p, File(s.bytes))
  PROVE  Moves(s, w, D, w2, D, r, c)
<1>1. s.p \in Paths /\ s.bytes \in Contents /\ Layered(w, r, D)
  BY OfTaking DEF Taking
<1>2. IsFileAt(w, s.p) \/ (CanCreate(w, s.p) /\ (r[s.p] # Dir \/ s.p \in D))
  <2>1. CASE IsFileAt(w, s.p)
    BY <2>1
  <2>2. CASE ~ IsFileAt(w, s.p)
    <3>1. s.do = "_writable.openSync" /\ CanCreate(w, s.p)
      BY <2>2
    <3>2. w[s.p] = Absent
      BY <3>1 DEF CanCreate
    <3>3. Over(w, r, D)[s.p] # Dir
      BY <3>1, <3>2 DEF Taking, First
    <3> QED
      BY <1>1, <3>1, <3>2, <3>3 DEF Over
  <2> QED
    BY <2>1, <2>2
<1>3. Layered(w2, r, D)
  BY <1>1, <1>2, FileLayered
<1>4. File(s.bytes) \in Nodes
  BY <1>1 DEF Nodes
<1>5. s.do \notin Makers /\ s.do # "_writable.unlinkSync" /\ \A q \in Paths : ~ Removes(s, q)
  BY DEF Makers, Removes
<1> QED
  BY <1>3, <1>4, <1>5, OneChanges

LEMMA WritableRenameOk ==
  ASSUME NEW s, NEW w, NEW r, NEW D, NEW c, Taking(s, w, r, D, c),
         s.do = "_writable.renameSync", CanRename(w, s.p, s.new),
         NEW w2, w2 = Renamed(w, s.p, s.new)
  PROVE  Moves(s, w, D, w2, D, r, c)
<1>1. /\ s.p \in Paths /\ s.new \in Paths /\ c.new \in Paths /\ c \in Steps
      /\ w \in Trees /\ IsTree(w) /\ Layered(w, r, D)
  BY OfTaking DEF Taking, Layered
<1>2. w[s.p] = Dir /\ Vacant(Over(w, r, D), s.new)
  BY DEF Taking, First
<1>3. Layered(w2, r, D)
  BY <1>1, <1>2, RenameLayered
<1>4. \A q \in Paths : ~ IsPrefix(s.p, q) /\ ~ IsPrefix(s.new, q) => w2[q] = w[q]
  BY DEF Renamed
<1>5. TouchedBy(c, s.p) /\ IsPrefix(c.new, s.new)
  BY DEF Taking, Within, Makers
<1>6. ASSUME NEW q \in Paths, ~ TouchedBy(c, q) PROVE w2[q] = w[q]
  <2>1. ~ IsPrefix(s.p, q)
    BY <1>1, <1>5, <1>6, Touching
  <2>2. ~ IsPrefix(s.new, q)
    BY <1>1, <1>5, <1>6, PrefixOrder DEF TouchedBy
  <2> QED
    BY <1>4, <2>1, <2>2
<1>7. LeavesOthers(w, D, w2, D, r, c)
  BY <1>6 DEF LeavesOthers, Over
<1> QED
  BY <1>3, <1>7 DEF Moves, HandsOver, MakesOnly, Unlinks, Removes, Makers

LEMMA DeleteOk ==
  ASSUME NEW s, NEW w, NEW r, NEW D, NEW c, Taking(s, w, r, D, c), s.do = "deletePath",
         NEW D2, D2 = D \union {s.p}
  PROVE  Moves(s, w, D, w, D2, r, c)
<1>1. s.p \in Paths /\ Layered(w, r, D)
  BY OfTaking DEF Taking
<1>2. Emptied(r, D, s.p) /\ TouchedBy(c, s.p)
  BY DEF Taking, First, Within, Makers
<1>3. Layered(w, r, D2)
  BY <1>1, <1>2, DeletedLayered DEF Emptied
<1>4. LeavesOthers(w, D, w, D2, r, c)
  BY <1>2 DEF LeavesOthers, Over
<1>5. HandsOver(s, <<>>, r, D2)
  BY DEF HandsOver, Removes
<1> QED
  BY <1>3, <1>4, <1>5 DEF Moves, MakesOnly, Unlinks, Makers

----------------------------------------------------------------------------
(* What is so between the steps of a call that found b shown *)

Going(t, w, r, D, c, b) ==
  /\ Layered(w, r, D) /\ Program(t, w, r, D, c)
  /\ \A p \in Paths : TouchedBy(c, p) \/ Over(w, r, D)[p] = b[p]

LEMMA GoingTakes ==
  ASSUME NEW t, NEW w, NEW r, NEW D, NEW c \in Steps, NEW b, Going(t, w, r, D, c, b),
         t \in Seq(Doable(r)), t # <<>>
  PROVE  Taking(t[1], w, r, D, c) /\ t \in Seq(Steps)
<1>1. t[1] \in Doable(r) /\ 1 \in 1 .. Len(t)
  <2>1. Len(t) \in Nat \ {0}
    BY EmptySeq
  <2>2. 1 \in 1 .. Len(t)
    BY <2>1
  <2> QED
    BY <2>2, ElementOfSeq
<1>2. Within(t[1], w, r, D, c) /\ Placed(t, 1, w, r, D)
  BY <1>1 DEF Going, Program
<1>3. First(t[1], w, r, D)
  BY <1>2, PlacedFirst
<1>4. t \in Seq(Steps)
  <2>1. Doable(r) \subseteq Steps
    BY DEF Doable
  <2> QED
    BY <2>1, ElementOfSeq, SeqDef
<1> QED
  BY <1>1, <1>2, <1>3, <1>4 DEF Taking, Going

LEMMA GoesOn ==
  ASSUME NEW t, NEW w, NEW r, NEW D, NEW c \in Steps, NEW b, Going(t, w, r, D, c, b),
         t \in Seq(Doable(r)), t # <<>>
  PROVE  /\ \A steps \in Seq(Steps) :
              GotoOk(t[1], steps, w, r, D, c) => Going(steps \o Tail(t), w, r, D, c, b)
         /\ \A w2, D2 : Moves(t[1], w, D, w2, D2, r, c) => Going(<<>> \o Tail(t), w2, r, D2, c, b)
<1>1. t \in Seq(Steps) /\ Program(t, w, r, D, c)
  BY GoingTakes DEF Going
<1>2. ASSUME NEW steps \in Seq(Steps), GotoOk(t[1], steps, w, r, D, c)
      PROVE  Going(steps \o Tail(t), w, r, D, c, b)
  <2>1. LeavesOthers(w, D, w, D, r, c)
    BY DEF LeavesOthers
  <2>2. /\ HandsOver(t[1], steps, r, D) /\ MakesOnly(t[1], steps, w, D, w, D, r)
        /\ Unlinks(t[1], steps, r, D) /\ Program(steps, w, r, D, c)
    BY <1>2 DEF GotoOk, MakesOnly, Unlinks
  <2>3. Program(steps \o Tail(t), w, r, D, c)
    BY ONLY <1>1, <2>1, <2>2, steps \in Seq(Steps), t # <<>>, ProgramGoesOn
  <2> QED
    BY <2>3 DEF Going
<1>3. ASSUME NEW w2, NEW D2, Moves(t[1], w, D, w2, D2, r, c)
      PROVE  Going(<<>> \o Tail(t), w2, r, D2, c, b)
  <2>1. /\ LeavesOthers(w, D, w2, D2, r, c) /\ Layered(w2, r, D2)
        /\ HandsOver(t[1], <<>>, r, D2) /\ MakesOnly(t[1], <<>>, w, D, w2, D2, r)
        /\ Unlinks(t[1], <<>>, r, D2)
    BY <1>3 DEF Moves
  <2>2. Program(<<>>, w2, r, D2, c)
    BY NoProgram
  <2>3. <<>> \in Seq(Steps)
    BY EmptySeq
  <2>4. Program(<<>> \o Tail(t), w2, r, D2, c)
    BY ONLY <1>1, <2>1, <2>2, <2>3, t # <<>>, ProgramGoesOn
  <2>5. \A p \in Paths : TouchedBy(c, p) \/ Over(w2, r, D2)[p] = b[p]
    BY <2>1 DEF Going, LeavesOthers
  <2> QED
    BY <2>1, <2>4, <2>5 DEF Going
<1> QED
  BY <1>2, <1>3

----------------------------------------------------------------------------
(* The invariant of OverlayFS *)

OverlayTyped ==
  /\ LogTypeOK
  /\ readable \in Readables /\ writable \in Trees /\ IsTree(writable)
  /\ call \in [step : Steps, before : Trees, after : Trees]
  /\ todo \in Seq(Doable(readable))
  /\ answer \in {"none", "returned", "threw", "failed"}
  /\ careful \in BOOLEAN

OverlayInv ==
  /\ OverlayTyped
  /\ careful => Going(todo, writable, readable, DeletedFiles, call.step, call.before)

(* What every method does that does not throw: its steps take its place. *)
Proceeds ==
  \E steps \in Seq(Doable(readable)) :
    /\ Goto(steps)
    /\ careful => GotoOk(step, steps, writable, readable, DeletedFiles, call.step)

LEMMA ReadableIsTree ==
  ASSUME NEW r \in Readables
  PROVE  r \in Trees /\ IsTree(r)
BY ReadablesAssumption DEF IsTree, IsDirAt

LEMMA ViewIs ==
  ASSUME OverlayTyped
  PROVE  /\ View = Over(writable, readable, DeletedFiles) /\ View \in Trees
         /\ readable \in Trees
<1>1. View = Over(writable, readable, DeletedFiles)
  BY DEF View, Shown, Over
<1>2. readable \in Trees
  BY ReadableIsTree DEF OverlayTyped
<1>3. Absent \in Nodes
  BY DEF Nodes
<1>4. writable \in Trees
  BY DEF OverlayTyped
<1>5. Over(writable, readable, DeletedFiles) \in Trees
  BY ONLY <1>2, <1>3, <1>4 DEF Over, Trees
<1> QED
  BY <1>1, <1>2, <1>5

LEMMA StepFound ==
  ASSUME OverlayInv, Running, NEW s, s = step
  PROVE  /\ s \in Doable(readable) /\ s \in Steps /\ s = todo[1]
         /\ s.p \in Paths /\ s.new \in Paths /\ s.bytes \in Contents
         /\ careful => Taking(s, writable, readable, DeletedFiles, call.step)
<1> PICK t : t = todo
  OBVIOUS
<1>1. t \in Seq(Doable(readable)) /\ t # <<>> /\ s = t[1]
  BY DEF OverlayInv, OverlayTyped, Running, step
<1>2. Len(t) \in Nat \ {0}
  BY <1>1, EmptySeq
<1>3. s \in Doable(readable)
  <2>1. 1 \in 1 .. Len(t)
    BY <1>2
  <2> QED
    BY <1>1, <2>1, ElementOfSeq
<1>4. s \in Steps /\ s.p \in Paths /\ s.new \in Paths /\ s.bytes \in Contents
  BY <1>3, StepsAre
<1>5. ASSUME careful PROVE Taking(s, writable, readable, DeletedFiles, call.step)
  <2>1. Going(t, writable, readable, DeletedFiles, call.step, call.before)
    BY <1>5 DEF OverlayInv
  <2>2. call.step \in Steps
    BY DEF OverlayInv, OverlayTyped
  <2> QED
    BY <1>1, <2>1, <2>2, GoingTakes
<1> QED
  BY <1>1, <1>3, <1>4, <1>5

(* Steps that need no more than paths *)
LEMMA PlainDoable ==
  ASSUME NEW r, NEW do \in Doing \ {"renameSync", "renameChildren"},
         NEW p \in Paths, NEW new \in Paths, NEW c \in Contents
  PROVE  Step(do, p) \in Doable(r) /\ StepTo(do, p, new) \in Doable(r) /\ StepWith(do, p, c) \in Doable(r)
BY StepsDoable

LEMMA Doings ==
  /\ {"createParentDirectory", "mkdirSync", "writeFileSync", "truncateSync", "unlinkSync", "rmdirSync",
      "renameSync", "chmodSync", "deleteIfExists", "deleteIfEmpty", "unlinkOld", "deletePath",
      "renameChildren"} \subseteq Doing
  /\ OnWritable \subseteq Doing
  /\ {"_writable.mkdirSync", "_writable.rmdirSync", "_writable.unlinkSync", "_writable.renameSync",
      "_writable.openSync", "_writable.write"} = OnWritable
BY DEF Doing, Checking, Methods, OnWritable

LEMMA OneDoable ==
  ASSUME NEW r, NEW do \in Doing \ {"renameSync", "renameChildren"},
         NEW p \in Paths, NEW new \in Paths, NEW c \in Contents
  PROVE  /\ <<Step(do, p)>> \in Seq(Doable(r)) /\ <<StepTo(do, p, new)>> \in Seq(Doable(r))
         /\ <<StepWith(do, p, c)>> \in Seq(Doable(r))
<1>1. Step(do, p) \in Doable(r) /\ StepTo(do, p, new) \in Doable(r) /\ StepWith(do, p, c) \in Doable(r)
  BY PlainDoable
<1> QED
  BY ONLY <1>1, Tuples

(* Nothing listed *)
LEMMA NothingListed ==
  ASSUME OverlayTyped, NEW p \in Paths, Listing(p) = {}
  PROVE  Emptied(readable, DeletedFiles, p) /\ Children(View, p) = {}
<1>1. Children(writable, p) = {} /\ Children(readable, p) \subseteq DeletedFiles
  BY DEF Listing
<1>2. ASSUME NEW q \in Children(View, p) PROVE FALSE
  <2>1. q \in Paths \ {<<>>} /\ Front(q) = p /\ View[q] # Absent
    BY <1>2 DEF Children
  <2>2. CASE writable[q] # Absent
    <3>1. Parent(q) = p
      BY <2>1 DEF Parent
    <3>2. writable[p] = Dir
      BY <2>1, <2>2, <3>1 DEF OverlayTyped, IsTree
    <3>3. q \in Children(writable, p)
      BY <2>1, <2>2, <3>2 DEF Children, IsDirAt
    <3> QED
      BY <1>1, <3>3
  <2>3. CASE writable[q] = Absent
    <3>1. q \notin DeletedFiles /\ readable[q] # Absent
      BY <2>1, <2>3, ViewIs DEF Over
    <3>2. Parent(q) = p
      BY <2>1 DEF Parent
    <3>3. IsTree(readable)
      BY ReadableIsTree DEF OverlayTyped
    <3>4. readable[p] = Dir
      BY <2>1, <3>1, <3>2, <3>3 DEF IsTree
    <3>5. q \in Children(readable, p)
      BY <2>1, <3>1, <3>4 DEF Children, IsDirAt
    <3> QED
      BY <1>1, <3>1, <3>5
  <2> QED
    BY <2>2, <2>3
<1> QED
  BY <1>1, <1>2 DEF Emptied

----------------------------------------------------------------------------
(* The methods, one by one *)

LEMMA CreateParentDirectoryGoes ==
  ASSUME OverlayInv, Running, CreateParentDirectory
  PROVE  Throw \/ Proceeds
<1> PICK s : s = step
  OBVIOUS
<1>1. /\ s.p \in Paths /\ s.new \in Paths /\ s.bytes \in Contents
      /\ careful => Taking(s, writable, readable, DeletedFiles, call.step)
  BY StepFound
<1>2. s.do = "createParentDirectory" /\ (View[s.p] # Absent => Goto(<<Step("_writable.mkdirSync", s.p)>>))
      /\ (View[s.p] = Absent => Throw)
  BY DEF CreateParentDirectory
<1>3. <<Step("_writable.mkdirSync", s.p)>> \in Seq(Doable(readable))
  BY <1>1, Doings, OneDoable
<1>4. View = Over(writable, readable, DeletedFiles)
  BY ViewIs DEF OverlayInv
<1>5. careful /\ View[s.p] # Absent =>
        GotoOk(s, <<Step("_writable.mkdirSync", s.p)>>, writable, readable, DeletedFiles, call.step)
  BY <1>1, <1>2, <1>4, CreateParentDirectoryOk
<1> QED
  BY <1>2, <1>3, <1>5 DEF Proceeds

LEMMA MkdirSyncGoes ==
  ASSUME OverlayInv, Running, MkdirSync
  PROVE  Throw \/ Proceeds
<1> PICK s : s = step
  OBVIOUS
<1>1. /\ s.p \in Paths /\ s.new \in Paths /\ s.bytes \in Contents
      /\ careful => Taking(s, writable, readable, DeletedFiles, call.step)
  BY StepFound
<1> PICK u : u = CreateParents(s.p) \o <<Step("_writable.mkdirSync", s.p)>>
  OBVIOUS
<1>2. s.do = "mkdirSync" /\ (Goto(u) \/ Throw)
  BY DEF MkdirSync
<1>3. <<Step("_writable.mkdirSync", s.p)>> \in Seq(Doable(readable))
  BY <1>1, Doings, OneDoable
<1>4. CreateParents(s.p) \in Seq(Doable(readable))
  BY <1>1, ParentsDoable DEF OverlayInv, OverlayTyped
<1>5. u \in Seq(Doable(readable))
  BY ONLY <1>3, <1>4, ConcatProperties, u = CreateParents(s.p) \o <<Step("_writable.mkdirSync", s.p)>>
<1>6. careful => GotoOk(s, u, writable, readable, DeletedFiles, call.step)
  BY <1>1, <1>2, MkdirSyncOk
<1> QED
  BY <1>2, <1>5, <1>6 DEF Proceeds

LEMMA OpenDoable ==
  ASSUME OverlayTyped, NEW p \in Paths, NEW data \in Contents
  PROVE  Open(p) \o <<StepWith("_writable.write", p, data)>> \in Seq(Doable(readable))
<1>1. <<Step("_writable.openSync", p)>> \in Seq(Doable(readable))
  BY Doings, OneDoable
<1>2. <<StepWith("_writable.write", p, data)>> \in Seq(Doable(readable))
  BY Doings, OneDoable
<1>3. CreateParents(p) \in Seq(Doable(readable))
  BY ParentsDoable DEF OverlayTyped
<1>4. Open(p) \in Seq(Doable(readable))
  BY ONLY <1>1, <1>3, ConcatProperties DEF Open
<1> QED
  BY ONLY <1>2, <1>4, ConcatProperties

LEMMA WriteFileSyncGoes ==
  ASSUME OverlayInv, Running, WriteFileSync
  PROVE  Throw \/ Proceeds
<1> PICK s : s = step
  OBVIOUS
<1>1. /\ s.p \in Paths /\ s.bytes \in Contents
      /\ careful => Taking(s, writable, readable, DeletedFiles, call.step)
  BY StepFound
<1> PICK u : u = Open(s.p) \o <<StepWith("_writable.write", s.p, s.bytes)>>
  OBVIOUS
<1>2. s.do = "writeFileSync" /\ Goto(u)
  BY DEF WriteFileSync
<1>3. u \in Seq(Doable(readable))
  BY <1>1, OpenDoable DEF OverlayInv
<1>4. careful => GotoOk(s, u, writable, readable, DeletedFiles, call.step)
  BY <1>1, <1>2, WriteFileSyncOk
<1> QED
  BY <1>2, <1>3, <1>4 DEF Proceeds

LEMMA TruncateSyncGoes ==
  ASSUME OverlayInv, Running, TruncateSync
  PROVE  Throw \/ Proceeds
<1> PICK s : s = step
  OBVIOUS
<1>1. /\ s.p \in Paths /\ s.bytes \in Contents
      /\ careful => Taking(s, writable, readable, DeletedFiles, call.step)
  BY StepFound
<1> PICK a : a = <<StepWith("_writable.write", s.p, s.bytes)>>
  OBVIOUS
<1> PICK u : u = Open(s.p) \o a
  OBVIOUS
<1>2. s.do = "truncateSync" /\ (Goto(a) \/ (IsFileAt(View, s.p) /\ Goto(u)) \/ Throw)
  BY DEF TruncateSync
<1>3. u \in Seq(Doable(readable))
  BY <1>1, OpenDoable DEF OverlayInv
<1>4. a \in Seq(Doable(readable))
  BY <1>1, Doings, OneDoable
<1>5. View = Over(writable, readable, DeletedFiles)
  BY ViewIs DEF OverlayInv
<1>6. careful => /\ GotoOk(s, a, writable, readable, DeletedFiles, call.step)
                 /\ IsFileAt(View, s.p) => GotoOk(s, u, writable, readable, DeletedFiles, call.step)
  BY <1>1, <1>2, <1>5, TruncateSyncOk
<1> QED
  BY <1>2, <1>3, <1>4, <1>6 DEF Proceeds

LEMMA UnlinkSyncGoes ==
  ASSUME OverlayInv, Running, UnlinkSync
  PROVE  Throw \/ Proceeds
<1> PICK s : s = step
  OBVIOUS
<1>1. /\ s.p \in Paths /\ s.new \in Paths /\ s.bytes \in Contents
      /\ careful => Taking(s, writable, readable, DeletedFiles, call.step)
  BY StepFound
<1> PICK a, b : a = Step("_writable.unlinkSync", s.p) /\ b = Step("deleteIfExists", s.p)
  OBVIOUS
<1>2. <<a>> \o <<b>> = <<a, b>> /\ <<>> \o <<b>> = <<b>>
  BY TwoAre
<1>3. /\ s.do = "unlinkSync"
      /\ \/ Throw
         \/ View[s.p] # Absent /\ Goto(<<a>> \o <<b>>)
         \/ View[s.p] # Absent /\ writable[s.p] = Absent /\ Goto(<<>> \o <<b>>)
  BY DEF UnlinkSync, InWritable
<1>4. a \in Doable(readable) /\ b \in Doable(readable)
  BY <1>1, Doings, PlainDoable
<1>5. <<a, b>> \in Seq(Doable(readable)) /\ <<b>> \in Seq(Doable(readable))
  BY ONLY <1>4, Tuples
<1>6. View = Over(writable, readable, DeletedFiles)
  BY ViewIs DEF OverlayInv
<1>7. careful /\ View[s.p] # Absent =>
        /\ GotoOk(s, <<a, b>>, writable, readable, DeletedFiles, call.step)
        /\ writable[s.p] = Absent => GotoOk(s, <<b>>, writable, readable, DeletedFiles, call.step)
  BY <1>1, <1>3, <1>6, UnlinkSyncOk
<1> QED
  BY <1>2, <1>3, <1>5, <1>7 DEF Proceeds

LEMMA RmdirSyncGoes ==
  ASSUME OverlayInv, Running, RmdirSync
  PROVE  Throw \/ Proceeds
<1> PICK s : s = step
  OBVIOUS
<1>1. /\ s.p \in Paths /\ s.new \in Paths /\ s.bytes \in Contents
      /\ careful => Taking(s, writable, readable, DeletedFiles, call.step)
  BY StepFound
<1> PICK a, b : a = Step("_writable.rmdirSync", s.p) /\ b = Step("deleteIfEmpty", s.p)
  OBVIOUS
<1>2. <<a>> \o <<b>> = <<a, b>> /\ <<>> \o <<b>> = <<b>>
  BY TwoAre
<1>3. s.do = "rmdirSync" /\ (Throw \/ Goto(<<a>> \o <<b>>) \/ Goto(<<>> \o <<b>>))
  BY DEF RmdirSync
<1>4. a \in Doable(readable) /\ b \in Doable(readable)
  BY <1>1, Doings, PlainDoable
<1>5. <<a, b>> \in Seq(Doable(readable)) /\ <<b>> \in Seq(Doable(readable))
  BY ONLY <1>4, Tuples
<1>6. careful => /\ GotoOk(s, <<a, b>>, writable, readable, DeletedFiles, call.step)
                 /\ GotoOk(s, <<b>>, writable, readable, DeletedFiles, call.step)
  BY <1>1, <1>3, RmdirSyncOk
<1> QED
  BY <1>2, <1>3, <1>5, <1>6 DEF Proceeds

LEMMA DeleteIfExistsGoes ==
  ASSUME OverlayInv, Running, DeleteIfExists
  PROVE  Throw \/ Proceeds
<1> PICK s : s = step
  OBVIOUS
<1>1. /\ s.p \in Paths /\ s.new \in Paths /\ s.bytes \in Contents
      /\ careful => Taking(s, writable, readable, DeletedFiles, call.step)
  BY StepFound
<1> PICK b : b = <<Step("deletePath", s.p)>>
  OBVIOUS
<1>2. s.do = "deleteIfExists" /\ ((View[s.p] = Absent /\ Goto(<<>>)) \/ Goto(b))
  BY DEF DeleteIfExists
<1>3. b \in Seq(Doable(readable)) /\ <<>> \in Seq(Doable(readable))
  BY <1>1, Doings, OneDoable
<1>4. View = Over(writable, readable, DeletedFiles)
  BY ViewIs DEF OverlayInv
<1>5. careful => /\ GotoOk(s, b, writable, readable, DeletedFiles, call.step)
                 /\ View[s.p] = Absent => GotoOk(s, <<>>, writable, readable, DeletedFiles, call.step)
  BY <1>1, <1>2, <1>4, DeleteIfExistsOk
<1> QED
  BY <1>2, <1>3, <1>5 DEF Proceeds

LEMMA DeleteIfEmptyGoes ==
  ASSUME OverlayInv, Running, DeleteIfEmpty
  PROVE  Throw \/ Proceeds
<1> PICK s : s = step
  OBVIOUS
<1>1. /\ s.p \in Paths /\ s.new \in Paths /\ s.bytes \in Contents
      /\ careful => Taking(s, writable, readable, DeletedFiles, call.step)
  BY StepFound
<1> PICK b : b = <<Step("deletePath", s.p)>>
  OBVIOUS
<1>2. s.do = "deleteIfEmpty" /\ (Throw \/ Goto(<<>>) \/ (Listing(s.p) = {} /\ Goto(b)))
  BY DEF DeleteIfEmpty
<1>3. b \in Seq(Doable(readable)) /\ <<>> \in Seq(Doable(readable))
  BY <1>1, Doings, OneDoable
<1>4. Listing(s.p) = {} => Emptied(readable, DeletedFiles, s.p)
  BY <1>1, NothingListed DEF OverlayInv
<1>5. careful => /\ GotoOk(s, <<>>, writable, readable, DeletedFiles, call.step)
                 /\ Listing(s.p) = {} => GotoOk(s, b, writable, readable, DeletedFiles, call.step)
  BY <1>1, <1>2, <1>4, DeleteIfEmptyOk
<1> QED
  BY <1>2, <1>3, <1>5 DEF Proceeds

LEMMA UnlinkOldGoes ==
  ASSUME OverlayInv, Running, UnlinkOld
  PROVE  Throw \/ Proceeds
<1> PICK s : s = step
  OBVIOUS
<1>1. /\ s.p \in Paths /\ s.new \in Paths /\ s.bytes \in Contents
      /\ careful => Taking(s, writable, readable, DeletedFiles, call.step)
  BY StepFound
<1> PICK b : b = <<Step("unlinkSync", s.p)>>
  OBVIOUS
<1>2. s.do = "unlinkOld" /\ ((~ (s.p # s.new /\ View[s.p] # Absent) /\ Goto(<<>>)) \/ Goto(b))
  BY DEF UnlinkOld
<1>3. b \in Seq(Doable(readable)) /\ <<>> \in Seq(Doable(readable))
  BY <1>1, Doings, OneDoable
<1>4. View = Over(writable, readable, DeletedFiles)
  BY ViewIs DEF OverlayInv
<1>5. careful => /\ GotoOk(s, b, writable, readable, DeletedFiles, call.step)
                 /\ ~ (s.p # s.new /\ View[s.p] # Absent) =>
                      GotoOk(s, <<>>, writable, readable, DeletedFiles, call.step)
  BY <1>1, <1>2, <1>4, UnlinkOldOk
<1> QED
  BY <1>2, <1>3, <1>5 DEF Proceeds

LEMMA FileShown ==
  ASSUME OverlayTyped, NEW p \in Paths, IsFileAt(View, p)
  PROVE  /\ View[p].bytes \in Contents
         /\ writable[p] = Absent => readable[p].bytes \in Contents
<1>1. \A node \in Nodes : node.type = "file" => node.bytes \in Contents
  BY DEF Nodes, Dir, Absent, File
<1>2. View[p] \in Nodes /\ View[p].type = "file"
  BY ViewIs DEF Trees, IsFileAt
<1>3. writable[p] = Absent => View[p] = readable[p]
  BY <1>2, ViewIs, NodesDiffer DEF Over
<1> QED
  BY <1>1, <1>2, <1>3

LEMMA RenameFileSyncGoes ==
  ASSUME OverlayInv, Running, RenameFileSync
  PROVE  Throw \/ Proceeds
<1> PICK s : s = step
  OBVIOUS
<1>1. /\ s.p \in Paths /\ s.new \in Paths
      /\ careful => Taking(s, writable, readable, DeletedFiles, call.step)
  BY StepFound
<1> PICK data : data = View[s.p].bytes
  OBVIOUS
<1> PICK a : a = StepWith("writeFileSync", s.new, data)
  OBVIOUS
<1> PICK b : b = StepTo("unlinkOld", s.p, s.new)
  OBVIOUS
<1>2. /\ s.do = "renameSync" /\ IsFileAt(View, s.p)
      /\ Throw \/ (View[s.new] # Dir /\ Goto(<<a, b>>))
  BY DEF RenameFileSync, IsDirAt
<1>3. data \in Contents
  BY <1>1, <1>2, FileShown DEF OverlayInv
<1>4. a \in Doable(readable) /\ b \in Doable(readable)
  BY <1>1, <1>3, Doings, PlainDoable
<1>5. <<a, b>> \in Seq(Doable(readable))
  BY ONLY <1>4, Tuples
<1>6. View = Over(writable, readable, DeletedFiles)
  BY ViewIs DEF OverlayInv
<1>7. careful /\ View[s.new] # Dir => GotoOk(s, <<a, b>>, writable, readable, DeletedFiles, call.step)
  BY <1>1, <1>2, <1>6, RenameFileSyncOk
<1> QED
  BY <1>2, <1>5, <1>7 DEF Proceeds

LEMMA RenameDirSyncGoes ==
  ASSUME OverlayInv, Running, RenameDirSync
  PROVE  Throw \/ Proceeds
<1> PICK s : s = step
  OBVIOUS
<1>1. /\ s.p \in Paths /\ s.new \in Paths /\ s \in Doable(readable) /\ s.bytes \in Contents
      /\ careful => Taking(s, writable, readable, DeletedFiles, call.step)
  BY StepFound
<1> PICK a, m : a = StepTo("_writable.renameSync", s.p, s.new) /\ m = Step("_writable.mkdirSync", s.new)
  OBVIOUS
<1> PICK b : b = <<StepTo("renameChildren", s.p, s.new), StepTo("unlinkOld", s.p, s.new)>>
  OBVIOUS
<1> DEFINE Free == View[s.new] = Absent \/ (IsDirAt(View, s.new) /\ Listing(s.new) = {})
<1>2. s.do = "renameSync" /\ View[s.p] = Dir
  BY DEF RenameDirSync, IsDirAt
<1>3. \/ Throw
      \/ s.p = s.new /\ Goto(<<>>)
      \/ /\ s.p # s.new /\ Free
         /\ \/ writable[s.p] # Absent /\ Goto(<<a>> \o b)
            \/ writable[s.p] = Absent /\ Goto(<<m>> \o b)
            \/ writable[s.p] = Absent /\ Goto(<<>> \o b)
  BY DEF RenameDirSync, InWritable
<1>4. a \in Doable(readable) /\ m \in Doable(readable)
  BY <1>1, Doings, PlainDoable
<1>5. b \in Seq(Doable(readable))
  <2>1. Reaches(readable, s.p, s.new)
    BY <1>1, <1>2 DEF Doable
  <2>2. StepTo("renameChildren", s.p, s.new)
          = [do |-> "renameChildren", p |-> s.p, new |-> s.new, bytes |-> Empty]
    BY StepIs
  <2>3. StepTo("renameChildren", s.p, s.new) \in Steps
    BY <1>1, <2>2, TreesAssumption DEF Steps
  <2>4. StepTo("renameChildren", s.p, s.new) \in Doable(readable)
    BY <2>1, <2>2, <2>3 DEF Doable
  <2>5. StepTo("unlinkOld", s.p, s.new) \in Doable(readable)
    BY <1>1, Doings, PlainDoable
  <2>6. <<StepTo("renameChildren", s.p, s.new), StepTo("unlinkOld", s.p, s.new)>> \in Seq(Doable(readable))
    BY ONLY <2>4, <2>5, Tuples
  <2> QED
    BY <2>6
<1>6. <<a>> \in Seq(Doable(readable)) /\ <<m>> \in Seq(Doable(readable)) /\ <<>> \in Seq(Doable(readable))
  BY ONLY <1>4, Tuples
<1>7. /\ <<a>> \o b \in Seq(Doable(readable)) /\ <<m>> \o b \in Seq(Doable(readable))
      /\ <<>> \o b \in Seq(Doable(readable))
  BY ONLY <1>5, <1>6, ConcatProperties
<1>8. View = Over(writable, readable, DeletedFiles)
  BY ViewIs DEF OverlayInv
<1>9. Free => Vacant(Over(writable, readable, DeletedFiles), s.new)
  <2>1. Free => View[s.new] = Absent \/ (View[s.new] = Dir /\ Children(View, s.new) = {})
    BY <1>1, NothingListed DEF OverlayInv, IsDirAt
  <2> QED
    BY <1>8, <2>1 DEF Vacant
<1>10. writable[s.p] # Absent => writable[s.p] = Dir
  BY <1>1, <1>2, <1>8 DEF Over
<1>11. <<a>> \in Seq(Steps) /\ <<m>> \in Seq(Steps) /\ <<>> \in Seq(Steps)
  <2>1. a \in Steps /\ m \in Steps
    BY <1>4, StepsAre
  <2> QED
    BY ONLY <2>1, Tuples
<1>12. ASSUME careful, s.p # s.new, Free
       PROVE  /\ writable[s.p] # Absent => GotoOk(s, <<a>> \o b, writable, readable, DeletedFiles, call.step)
              /\ GotoOk(s, <<m>> \o b, writable, readable, DeletedFiles, call.step)
              /\ GotoOk(s, <<>> \o b, writable, readable, DeletedFiles, call.step)
  <2>1. \A t \in Seq(Steps) :
          \/ t = <<>>
          \/ t = <<Step("_writable.mkdirSync", s.new)>>
          \/ /\ t = <<StepTo("_writable.renameSync", s.p, s.new)>>
             /\ writable[s.p] = Dir /\ Vacant(Over(writable, readable, DeletedFiles), s.new)
          => GotoOk(s, t \o <<StepTo("renameChildren", s.p, s.new), StepTo("unlinkOld", s.p, s.new)>>,
                    writable, readable, DeletedFiles, call.step)
    BY <1>1, <1>2, <1>12, RenameDirSyncOk
  <2>2. Vacant(Over(writable, readable, DeletedFiles), s.new)
    BY <1>9, <1>12
  <2> QED
    BY <1>10, <1>11, <2>1, <2>2
<1>13. careful /\ s.p = s.new => GotoOk(s, <<>>, writable, readable, DeletedFiles, call.step)
  <2>1. s.p = s.new => \A q \in Paths : ~ Removes(s, q)
    BY <1>2 DEF Removes
  <2> QED
    BY <1>2, <2>1, NothingLeft
<1> HIDE DEF Free
<1> QED
  BY <1>3, <1>6, <1>7, <1>12, <1>13 DEF Proceeds

LEMMA RenameChildrenGoes ==
  ASSUME OverlayInv, Running, RenameChildren
  PROVE  Throw \/ Proceeds
<1> PICK s : s = step
  OBVIOUS
<1>1. /\ s.p \in Paths /\ s.new \in Paths /\ s \in Doable(readable) /\ readable \in Readables
      /\ careful => Taking(s, writable, readable, DeletedFiles, call.step)
  BY StepFound DEF OverlayInv, OverlayTyped
<1>2. /\ s.do = "renameChildren"
      /\ \/ Throw
         \/ readable[s.p] = Absent /\ Goto(<<>>)
         \/ \E names \in SetToSeqs(Children(readable, s.p)) :
              Goto([i \in DOMAIN names |-> StepTo("renameSync", names[i], Append(s.new, Last(names[i])))])
  BY DEF RenameChildren, InReadable
<1>3. <<>> \in Seq(Doable(readable))
  OBVIOUS
<1>4. Reaches(readable, s.p, s.new)
  BY <1>1, <1>2 DEF Doable
<1>5. /\ careful /\ readable[s.p] # Dir => GotoOk(s, <<>>, writable, readable, DeletedFiles, call.step)
      /\ careful => \A names \in SetToSeqs(Children(readable, s.p)) :
           GotoOk(s, [i \in DOMAIN names |->
                        StepTo("renameSync", names[i], Append(s.new, Last(names[i])))],
                  writable, readable, DeletedFiles, call.step)
  BY <1>1, <1>2, RenameChildrenOk
<1>6. \A names \in SetToSeqs(Children(readable, s.p)) :
        [i \in DOMAIN names |-> StepTo("renameSync", names[i], Append(s.new, Last(names[i])))]
          \in Seq(Doable(readable))
  <2> TAKE names \in SetToSeqs(Children(readable, s.p))
  <2> PICK t : t = [i \in DOMAIN names |-> StepTo("renameSync", names[i], Append(s.new, Last(names[i])))]
    OBVIOUS
  <2> PICK r : r = readable
    OBVIOUS
  <2>1. t \in Seq(Doable(r))
    BY <1>1, <1>4, RenamesAre
  <2> QED
    BY ONLY <2>1, r = readable,
       t = [i \in DOMAIN names |-> StepTo("renameSync", names[i], Append(s.new, Last(names[i])))]
<1> QED
  BY <1>2, <1>3, <1>5, <1>6, NodesDiffer DEF Proceeds

LEMMA OperateOnWritableGoes ==
  ASSUME OverlayInv, Running, OperateOnWritable
  PROVE  Throw \/ Proceeds
<1> PICK s : s = step
  OBVIOUS
<1>1. /\ s.p \in Paths /\ s.new \in Paths /\ s.bytes \in Contents
      /\ careful => Taking(s, writable, readable, DeletedFiles, call.step)
  BY StepFound
<1> PICK data, a : data = readable[s.p].bytes /\ a = <<Step("_writable.mkdirSync", s.p)>>
  OBVIOUS
<1> PICK b : b = <<StepWith("writeFileSync", s.p, data)>>
  OBVIOUS
<1>2. /\ s.do = "chmodSync"
      /\ \/ Throw \/ Goto(<<>>) \/ Goto(a)
         \/ writable[s.p] = Absent /\ IsFileAt(View, s.p) /\ Goto(b)
  BY DEF OperateOnWritable, InWritable
<1>3. a \in Seq(Doable(readable)) /\ <<>> \in Seq(Doable(readable))
  <2>1. "_writable.mkdirSync" \in Doing \ {"renameSync", "renameChildren"}
    BY Doings
  <2>2. <<Step("_writable.mkdirSync", s.p)>> \in Seq(Doable(readable))
    BY ONLY <1>1, <2>1, OneDoable
  <2> QED
    BY <2>2
<1>4. writable[s.p] = Absent /\ IsFileAt(View, s.p) => b \in Seq(Doable(readable))
  <2>1. writable[s.p] = Absent /\ IsFileAt(View, s.p) => data \in Contents
    BY <1>1, FileShown DEF OverlayInv
  <2> QED
    BY <1>1, <2>1, Doings, OneDoable
<1>5. View = Over(writable, readable, DeletedFiles)
  BY ViewIs DEF OverlayInv
<1>6. careful => /\ GotoOk(s, <<>>, writable, readable, DeletedFiles, call.step)
                 /\ GotoOk(s, a, writable, readable, DeletedFiles, call.step)
                 /\ IsFileAt(View, s.p) => GotoOk(s, b, writable, readable, DeletedFiles, call.step)
  BY <1>1, <1>2, <1>5, OperateOnWritableOk
<1> QED
  BY <1>2, <1>3, <1>4, <1>6 DEF Proceeds

----------------------------------------------------------------------------
(* What one step does to the invariant *)

LEMMA ProceedsKeeps ==
  ASSUME OverlayInv, Running, Proceeds
  PROVE  OverlayInv'
<1> PICK t : t = todo
  OBVIOUS
<1> PICK w, r, D, c, b : w = writable /\ r = readable /\ D = DeletedFiles /\ c = call.step /\ b = call.before
  OBVIOUS
<1>1. PICK steps \in Seq(Doable(r)) :
        Goto(steps) /\ (careful => GotoOk(t[1], steps, w, r, D, c))
  BY StepFound DEF Proceeds
<1>2. /\ todo' = steps \o Tail(t) /\ UNCHANGED <<readable, call, careful, writable, logVars>>
      /\ answer' = "returned" \/ answer' = answer
  BY <1>1 DEF Goto, Continue
<1>3. t \in Seq(Doable(r)) /\ t # <<>> /\ c \in Steps
  BY DEF OverlayInv, OverlayTyped, Running
<1>4. steps \o Tail(t) \in Seq(Doable(r))
  <2>1. Tail(t) \in Seq(Doable(r))
    BY ONLY <1>3, HeadTailProperties
  <2> QED
    BY ONLY <1>1, <2>1, ConcatProperties
<1>5. DeletedFiles' = D
  BY <1>2 DEF logVars, DeletedFiles
<1>6. OverlayTyped'
  BY <1>2, <1>4 DEF OverlayInv, OverlayTyped, LogTypeOK, logVars
<1>7. careful => Going(steps \o Tail(t), w, r, D, c, b)
  <2>1. careful => Going(t, w, r, D, c, b)
    BY DEF OverlayInv
  <2>2. steps \in Seq(Steps)
    <3>1. Doable(r) \subseteq Steps
      BY DEF Doable
    <3> QED
      BY <1>1, <3>1, ElementOfSeq, SeqDef
  <2> QED
    BY <1>1, <1>3, <2>1, <2>2, GoesOn
<1> QED
  BY <1>2, <1>5, <1>6, <1>7 DEF OverlayInv

(* A call that ends early has nothing left to do. *)
LEMMA LeaveKeeps ==
  ASSUME OverlayInv, NEW how \in {"threw", "failed"}, Leave(how), writable' = writable,
         deleteLog' = deleteLog, LogTypeOK'
  PROVE  OverlayInv'
<1>1. todo' = <<>> /\ UNCHANGED <<readable, call, careful>> /\ answer' = how
  BY DEF Leave
<1>2. DeletedFiles' = DeletedFiles
  BY DEF DeletedFiles
<1>3. OverlayTyped'
  BY <1>1 DEF OverlayInv, OverlayTyped
<1>4. careful => Program(<<>>, writable, readable, DeletedFiles, call.step)
  BY NoProgram
<1> QED
  BY <1>1, <1>2, <1>3, <1>4 DEF OverlayInv, Going

LEMMA ThrowKeeps ==
  ASSUME OverlayInv, Throw
  PROVE  OverlayInv'
<1>1. Leave("threw") /\ writable' = writable /\ deleteLog' = deleteLog /\ LogTypeOK'
  BY DEF Throw, logVars, OverlayInv, OverlayTyped, LogTypeOK
<1> QED
  BY <1>1, LeaveKeeps

LEMMA FailKeeps ==
  ASSUME OverlayInv, Fail
  PROVE  OverlayInv'
<1>1. Leave("failed") /\ writable' = writable /\ deleteLog' = deleteLog /\ LogTypeOK'
  BY DEF Fail, logVars, OverlayInv, OverlayTyped, LogTypeOK
<1> QED
  BY <1>1, LeaveKeeps

LEMMA CheckInitializedKeeps ==
  ASSUME OverlayInv, CheckInitialized
  PROVE  OverlayInv'
<1>1. Leave("failed") /\ writable' = writable /\ deleteLog' = deleteLog /\ LogTypeOK'
  BY DEF CheckInitialized, ReportLogError, OverlayInv, OverlayTyped, LogTypeOK
<1> QED
  BY <1>1, LeaveKeeps

LEMMA WritableChanges ==
  ASSUME OverlayInv, Running, NEW s, s = step, s.do \in OnWritable, CanDo(s), NEW w2, w2 = Done(s)
  PROVE  /\ w2 \in Trees /\ IsTree(w2)
         /\ careful => Moves(s, writable, DeletedFiles, w2, DeletedFiles, readable, call.step)
<1> PICK w, D, r, c : w = writable /\ D = DeletedFiles /\ r = readable /\ c = call.step
  OBVIOUS
<1>1. /\ s.p \in Paths /\ s.new \in Paths /\ s.bytes \in Contents /\ w \in Trees /\ IsTree(w)
      /\ careful => Taking(s, w, r, D, c)
  BY StepFound DEF OverlayInv, OverlayTyped
<1>2. Dir \in Nodes /\ Absent \in Nodes /\ File(s.bytes) \in Nodes
  BY <1>1 DEF Nodes
<1>3. CASE s.do = "_writable.mkdirSync"
  <2>1. CanCreate(w, s.p) /\ w2 = With(w, s.p, Dir)
    BY <1>3 DEF CanDo, Done
  <2>2. w2 \in Trees /\ IsTree(w2)
    BY <1>1, <1>2, <2>1, WithKeepsTree DEF CanWrite
  <2>3. careful => Moves(s, w, D, w2, D, r, c)
    BY <1>1, <1>3, <2>1, WritableMkdirOk
  <2> QED
    BY <2>2, <2>3
<1>4. CASE s.do = "_writable.rmdirSync"
  <2>1. CanRmdir(w, s.p) /\ w2 = With(w, s.p, Absent)
    BY <1>4 DEF CanDo, Done
  <2>2. w2 \in Trees /\ IsTree(w2)
    BY <1>1, <1>2, <2>1, WithKeepsTree
  <2>3. careful => Moves(s, w, D, w2, D, r, c)
    BY <1>1, <1>4, <2>1, WritableRmdirOk
  <2> QED
    BY <2>2, <2>3
<1>5. CASE s.do = "_writable.unlinkSync"
  <2>1. CanUnlink(w, s.p) /\ w2 = With(w, s.p, Absent)
    BY <1>5 DEF CanDo, Done
  <2>2. w2 \in Trees /\ IsTree(w2)
    BY <1>1, <1>2, <2>1, WithKeepsTree DEF CanWrite, CanUnlink
  <2>3. careful => Moves(s, w, D, w2, D, r, c)
    BY <1>1, <1>5, <2>1, WritableUnlinkOk
  <2> QED
    BY <2>2, <2>3
<1>6. CASE s.do \in {"_writable.openSync", "_writable.write"}
  <2>1. /\ \/ s.do = "_writable.openSync" /\ (CanCreate(w, s.p) \/ IsFileAt(w, s.p))
           \/ s.do = "_writable.write" /\ IsFileAt(w, s.p)
        /\ w2 = With(w, s.p, File(s.bytes))
    BY <1>6 DEF CanDo, Done
  <2>2. w2 \in Trees /\ IsTree(w2)
    BY <1>1, <1>2, <2>1, WithKeepsTree DEF CanWrite
  <2>3. careful => Moves(s, w, D, w2, D, r, c)
    BY <1>1, <2>1, WritableFileOk
  <2> QED
    BY <2>2, <2>3
<1>7. CASE s.do = "_writable.renameSync"
  <2>1. CanRename(w, s.p, s.new) /\ w2 = Renamed(w, s.p, s.new)
    BY <1>7 DEF CanDo, Done
  <2>2. w2 \in Trees /\ IsTree(w2)
    BY <1>1, <2>1, RenamedKeepsTree
  <2>3. careful => Moves(s, w, D, w2, D, r, c)
    BY <1>1, <1>7, <2>1, WritableRenameOk
  <2> QED
    BY <2>2, <2>3
<1> QED
  BY <1>3, <1>4, <1>5, <1>6, <1>7 DEF OnWritable

(* A step after which the next is as it was *)
LEMMA MovesKeep ==
  ASSUME OverlayInv, Running, Continue(<<>>), LogTypeOK', NEW w2, writable' = w2, NEW D2, DeletedFiles' = D2,
         w2 \in Trees, IsTree(w2),
         careful => Moves(step, writable, DeletedFiles, w2, D2, readable, call.step)
  PROVE  OverlayInv'
<1> PICK t : t = todo
  OBVIOUS
<1> PICK w, r, D, c, b : w = writable /\ r = readable /\ D = DeletedFiles /\ c = call.step /\ b = call.before
  OBVIOUS
<1>1. /\ todo' = <<>> \o Tail(t) /\ UNCHANGED <<readable, call, careful>>
      /\ answer' = "returned" \/ answer' = answer
  BY DEF Continue
<1>2. t \in Seq(Doable(r)) /\ t # <<>> /\ c \in Steps
  BY DEF OverlayInv, OverlayTyped, Running
<1>3. <<>> \o Tail(t) \in Seq(Doable(r))
  <2>1. Tail(t) \in Seq(Doable(r)) /\ <<>> \in Seq(Doable(r))
    BY ONLY <1>2, HeadTailProperties, Tuples
  <2> QED
    BY ONLY <2>1, ConcatProperties
<1>4. OverlayTyped'
  BY <1>1, <1>3 DEF OverlayInv, OverlayTyped
<1>5. careful => Going(<<>> \o Tail(t), w2, r, D2, c, b)
  <2>1. careful => Going(t, w, r, D, c, b)
    BY DEF OverlayInv
  <2>2. careful => Moves(t[1], w, D, w2, D2, r, c)
    BY StepFound
  <2> QED
    BY <1>2, <2>1, <2>2, GoesOn
<1> QED
  BY <1>1, <1>4, <1>5 DEF OverlayInv

LEMMA DoWritableKeeps ==
  ASSUME OverlayInv, Running, DoWritable
  PROVE  OverlayInv'
<1>1. CASE Throw
  BY <1>1, ThrowKeeps
<1>2. CASE ~ Throw
  <2> PICK s : s = step
    OBVIOUS
  <2>1. s.do \in OnWritable /\ CanDo(s) /\ writable' = Done(s) /\ Continue(<<>>) /\ UNCHANGED logVars
    BY <1>2 DEF DoWritable
  <2> PICK w2 : w2 = Done(s)
    OBVIOUS
  <2>2. /\ w2 \in Trees /\ IsTree(w2)
        /\ careful => Moves(s, writable, DeletedFiles, w2, DeletedFiles, readable, call.step)
    BY <2>1, WritableChanges
  <2>3. LogTypeOK' /\ DeletedFiles' = DeletedFiles
    BY <2>1 DEF logVars, DeletedFiles, LogTypeOK, OverlayInv, OverlayTyped
  <2> PICK D2 : D2 = DeletedFiles
    OBVIOUS
  <2> QED
    BY <2>1, <2>2, <2>3, MovesKeep
<1> QED
  BY <1>1, <1>2

(* What is deleted is in the log, and what was in it. *)
LEMMA Logged ==
  ASSUME NEW l \in Seq(Paths), NEW p \in Paths
  PROVE  ToSet(Append(l, p)) = ToSet(l) \union {p}
<1> PICK u : u = Append(l, p)
  OBVIOUS
<1>1. /\ u \in Seq(Paths) /\ Len(l) \in Nat /\ Len(u) = Len(l) + 1
      /\ \A i \in 1 .. Len(l) : u[i] = l[i]
      /\ u[Len(l) + 1] = p
  BY AppendProperties
<1>2. DOMAIN l = 1 .. Len(l) /\ DOMAIN u = 1 .. Len(l) + 1
  BY <1>1
<1>3. ToSet(u) \subseteq ToSet(l) \union {p}
  BY <1>1, <1>2 DEF ToSet
<1>4. p \in ToSet(u)
  BY <1>1, <1>2 DEF ToSet
<1>5. ToSet(l) \subseteq ToSet(u)
  BY <1>1, <1>2 DEF ToSet
<1> QED
  BY <1>3, <1>4, <1>5

LEMMA DeleteKeeps ==
  ASSUME OverlayInv, Running, Delete
  PROVE  OverlayInv'
<1> PICK s, l : s = step /\ l = deleteLog
  OBVIOUS
<1>1. /\ s.do = "deletePath" /\ Continue(<<>>) /\ writable' = writable /\ UpdateLog(Append(l, s.p))
      /\ s.p \in Paths /\ l \in Seq(Paths) /\ LogTypeOK
      /\ careful => Taking(s, writable, readable, DeletedFiles, call.step)
  BY StepFound DEF Delete, DeletePath, OverlayInv, OverlayTyped, LogTypeOK
<1>2. Append(l, s.p) \in Seq(Paths) /\ ToSet(Append(l, s.p)) = ToSet(l) \union {s.p}
  BY <1>1, AppendProperties, Logged
<1>3. LogTypeOK'
  BY <1>1, <1>2 DEF UpdateLog, LogTypeOK
<1>4. DeletedFiles' = DeletedFiles \union {s.p}
  BY <1>1, <1>2 DEF UpdateLog, DeletedFiles
<1> PICK w2, D2 : w2 = writable /\ D2 = DeletedFiles \union {s.p}
  OBVIOUS
<1>5. careful => Moves(s, writable, DeletedFiles, w2, D2, readable, call.step)
  BY <1>1, DeleteOk
<1>6. w2 \in Trees /\ IsTree(w2)
  BY DEF OverlayInv, OverlayTyped
<1> QED
  BY <1>1, <1>3, <1>4, <1>5, <1>6, MovesKeep

LEMMA OverlayRunKeeps ==
  ASSUME OverlayInv, Run
  PROVE  OverlayInv'
<1>1. Running
  BY DEF Run
<1>2. CASE CheckInitialized
  BY <1>2, CheckInitializedKeeps
<1>3. CASE DoWritable
  BY <1>1, <1>3, DoWritableKeeps
<1>4. CASE Delete
  BY <1>1, <1>4, DeleteKeeps
<1>5. CASE RenameNothing
  BY <1>5, ThrowKeeps DEF RenameNothing
<1>6. ASSUME \/ CreateParentDirectory \/ MkdirSync \/ WriteFileSync \/ TruncateSync
             \/ OperateOnWritable \/ UnlinkSync \/ DeleteIfExists \/ RmdirSync \/ DeleteIfEmpty
             \/ RenameFileSync \/ RenameDirSync \/ RenameChildren \/ UnlinkOld
      PROVE  OverlayInv'
  <2>1. Throw \/ Proceeds
    BY <1>1, <1>6, CreateParentDirectoryGoes, MkdirSyncGoes, WriteFileSyncGoes, TruncateSyncGoes,
       OperateOnWritableGoes, UnlinkSyncGoes, DeleteIfExistsGoes, RmdirSyncGoes, DeleteIfEmptyGoes,
       RenameFileSyncGoes, RenameDirSyncGoes, RenameChildrenGoes, UnlinkOldGoes
  <2> QED
    BY <1>1, <2>1, ThrowKeeps, ProceedsKeeps
<1> QED
  BY <1>2, <1>3, <1>4, <1>5, <1>6 DEF Run

----------------------------------------------------------------------------
(* Calls, and what is between them *)

LEMMA PromisedIsTree ==
  ASSUME NEW s \in Steps, NEW t \in Trees
  PROVE  Promised(s, t) \in Trees
<1>1. s.p \in Paths /\ s.new \in Paths /\ s.bytes \in Contents
  BY DEF Steps
<1>2. Dir \in Nodes /\ Absent \in Nodes /\ File(s.bytes) \in Nodes
  BY <1>1 DEF Nodes
<1>3. /\ With(t, s.p, Dir) \in Trees /\ With(t, s.p, Absent) \in Trees
      /\ With(t, s.p, File(s.bytes)) \in Trees
  BY <1>1, <1>2 DEF With, Trees
<1>4. Renamed(t, s.p, s.new) \in Trees
  BY <1>2 DEF Renamed, Trees
<1> QED
  BY <1>3, <1>4 DEF Promised

LEMMA IdleTyped ==
  /\ Idle \in [step : Steps, before : Trees, after : Trees]
  /\ Idle.step \in Steps /\ \A p \in Paths : TouchedBy(Idle.step, p)
<1> PICK s : s = Step("chmodSync", <<>>)
  OBVIOUS
<1>1. s = [do |-> "chmodSync", p |-> <<>>, new |-> <<>>, bytes |-> Empty]
  BY StepIs
<1>2. s \in Steps
  BY <1>1, TreesAssumption DEF Steps, Checking, Methods
<1>3. EmptyTree \in Trees
  BY DEF EmptyTree, Trees, Nodes
<1>4. \A p \in Paths : TouchedBy(s, p)
  BY <1>1, PrefixOrder DEF TouchedBy
<1> QED
  BY <1>2, <1>3, <1>4 DEF Idle

(* What is asked of a call *)
LEMMA CarefulIs ==
  ASSUME OverlayInv, careful, NEW s \in Doable(readable), s.do \in Methods,
         s.do # "renameSync" => s.new = s.p, Careful(s)
  PROVE  Program(<<s>>, writable, readable, DeletedFiles, s)
<1> PICK w, r, D : w = writable /\ r = readable /\ D = DeletedFiles
  OBVIOUS
<1>1. /\ s.p \in Paths /\ s.new \in Paths /\ Layered(w, r, D)
      /\ View = Over(w, r, D) /\ View \in Trees
  BY StepsAre, ViewIs DEF OverlayInv, Going
<1>2. IsPrefix(s.p, s.p) /\ IsPrefix(s.new, s.new)
  BY <1>1, PrefixOrder
<1>3. \A q \in Paths : TouchedBy(s, s.p) /\ (IsPrefix(s.new, q) => TouchedBy(s, q))
  BY <1>2 DEF TouchedBy
<1>4. s.do \in {"mkdirSync", "writeFileSync", "renameSync"} => AllowsParents(w, r, D, s)
  <2> SUFFICES ASSUME s.do \in {"mkdirSync", "writeFileSync", "renameSync"},
                      NEW q \in Paths, IsPrefix(q, s.new), q # s.new, w[q] = Absent
               PROVE  View[q] \in {Absent, Dir}
    BY <1>1 DEF AllowsParents
  <2>1. IsStrictPrefix(q, s.new)
    <3>1. s.new \in Below(q)
      BY <1>1, BelowIs
    <3> QED
      BY <3>1 DEF Below
  <2>2. ~ (OnlyReadable(q) /\ IsFileAt(View, q))
    BY <2>1 DEF Careful
  <2>3. View[q] \in Nodes
    BY <1>1 DEF Trees
  <2>4. View[q] = Absent \/ ~ IsFileAt(View, q)
    BY <2>2 DEF OnlyReadable, InWritable
  <2> QED
    BY <2>3, <2>4 DEF Nodes, IsFileAt, File
<1>5. Within(s, w, r, D, s)
  <2>1. s.do \notin {"createParentDirectory", "_writable.mkdirSync", "renameChildren", "_writable.renameSync"}
    BY DEF Methods
  <2>2. s.do \in {"mkdirSync", "writeFileSync", "truncateSync", "chmodSync"} => IsPrefix(s.new, s.p)
    BY <1>2
  <2>3. TouchedBy(s, s.p)
    BY <1>1, <1>3
  <2> QED
    BY ONLY <1>2, <1>4, <2>1, <2>2, <2>3 DEF Within, Makers
<1>6. s.do \in {"unlinkSync", "writeFileSync"} => w[s.p] # Absent \/ View[s.p] # Dir
  BY NodesDiffer DEF Careful, OnlyReadable, InWritable, IsDirAt
<1>7. s.do = "unlinkSync" => w[s.p] # Absent \/ View[s.p] = Absent \/ Emptied(r, D, s.p)
  <2> PICK node : node = View[s.p]
    OBVIOUS
  <2>1. node \in Nodes
    BY <1>1 DEF Trees
  <2>2. node # Absent /\ node # Dir => node.type = "file"
    BY ONLY <2>1 DEF Nodes, File
  <2>3. node.type = "file" => Emptied(r, D, s.p)
    BY <1>1, FileEmptied DEF IsFileAt
  <2> QED
    BY <1>1, <1>6, <2>2, <2>3
<1>8. First(s, w, r, D)
  BY <1>1, <1>6, <1>7 DEF First, Methods
<1> QED
  BY <1>5, <1>8, ProgramOne

LEMMA CallKeeps ==
  ASSUME OverlayInv, NEW s \in Doable(readable), s.do \in Methods,
         s.do # "renameSync" => s.new = s.p, Call(s)
  PROVE  OverlayInv'
<1> PICK v : v = View
  OBVIOUS
<1>1. /\ todo' = <<s>> /\ call' = [step |-> s, before |-> v, after |-> Promised(s, v)]
      /\ answer' = "none" /\ careful' = (careful /\ Careful(s))
      /\ UNCHANGED <<readable, writable, logVars>>
  BY DEF Call
<1>2. v \in Trees /\ s \in Steps /\ v = Over(writable, readable, DeletedFiles)
  BY ViewIs, StepsAre DEF OverlayInv
<1>3. Promised(s, v) \in Trees
  BY <1>2, PromisedIsTree
<1>4. <<s>> \in Seq(Doable(readable))
  BY ONLY Tuples, s \in Doable(readable)
<1>5. call' \in [step : Steps, before : Trees, after : Trees] /\ call'.step = s /\ call'.before = v
  BY <1>1, <1>2, <1>3
<1>6. LogTypeOK' /\ DeletedFiles' = DeletedFiles
  BY <1>1 DEF logVars, DeletedFiles, LogTypeOK, OverlayInv, OverlayTyped
<1>7. careful' \in BOOLEAN
  BY <1>1 DEF OverlayInv, OverlayTyped, Careful
<1>8. OverlayTyped'
  BY <1>1, <1>4, <1>5, <1>6, <1>7 DEF OverlayInv, OverlayTyped
<1>9. careful' => Going(<<s>>, writable, readable, DeletedFiles, s, v)
  <2>1. careful' => careful /\ Careful(s)
    BY <1>1
  <2>2. careful => Layered(writable, readable, DeletedFiles)
    BY DEF OverlayInv, Going
  <2>3. careful' => Program(<<s>>, writable, readable, DeletedFiles, s)
    BY <2>1, CarefulIs
  <2> QED
    BY <1>2, <2>1, <2>2, <2>3 DEF Going
<1> QED
  BY <1>1, <1>5, <1>6, <1>8, <1>9 DEF OverlayInv

(* A call is one of the methods, of paths that it may have. *)
LEMMA CalledStep ==
  ASSUME Calls
  PROVE  \E s \in Doable(readable) : s.do \in Methods /\ (s.do # "renameSync" => s.new = s.p) /\ Call(s)
<1>1. ASSUME NEW p \in Paths, NEW do \in {"mkdirSync", "unlinkSync", "rmdirSync", "chmodSync"},
             Call(Step(do, p))
      PROVE  \E s \in Doable(readable) : s.do \in Methods /\ (s.do # "renameSync" => s.new = s.p) /\ Call(s)
  <2> PICK s : s = Step(do, p)
    OBVIOUS
  <2>1. s = [do |-> do, p |-> p, new |-> p, bytes |-> Empty]
    BY StepIs
  <2>2. s \in Doable(readable)
    BY <2>1, TreesAssumption DEF Doable, Steps, Checking, Methods
  <2>3. Call(s) /\ s.do \in Methods /\ s.new = s.p
    BY <1>1, <2>1 DEF Methods
  <2> QED
    BY <2>2, <2>3
<1>2. ASSUME NEW p \in Paths, NEW do \in {"writeFileSync", "truncateSync"}, NEW c \in Contents,
             Call(StepWith(do, p, c))
      PROVE  \E s \in Doable(readable) : s.do \in Methods /\ (s.do # "renameSync" => s.new = s.p) /\ Call(s)
  <2> PICK s : s = StepWith(do, p, c)
    OBVIOUS
  <2>1. s = [do |-> do, p |-> p, new |-> p, bytes |-> c]
    BY StepIs
  <2>2. s \in Doable(readable)
    BY <2>1 DEF Doable, Steps, Checking, Methods
  <2>3. Call(s) /\ s.do \in Methods /\ s.new = s.p
    BY <1>2, <2>1 DEF Methods
  <2> QED
    BY <2>2, <2>3
<1>3. ASSUME NEW p \in Paths, NEW new \in Paths, Fits(p, new), Call(StepTo("renameSync", p, new))
      PROVE  \E s \in Doable(readable) : s.do \in Methods /\ (s.do # "renameSync" => s.new = s.p) /\ Call(s)
  <2> PICK s : s = StepTo("renameSync", p, new)
    OBVIOUS
  <2>1. s = [do |-> "renameSync", p |-> p, new |-> new, bytes |-> Empty]
    BY DEF StepTo, Step
  <2>2. Reaches(readable, p, new)
    BY <1>3 DEF Fits, Reaches, InReadable
  <2>3. s \in Steps
    BY <2>1, TreesAssumption DEF Steps, Checking, Methods
  <2>4. s \in Doable(readable)
    BY <2>1, <2>2, <2>3 DEF Doable
  <2>5. Call(s) /\ s.do \in Methods /\ s.do = "renameSync"
    BY <1>3, <2>1 DEF Methods
  <2> QED
    BY <2>4, <2>5
<1> QED
  BY <1>1, <1>2, <1>3 DEF Calls

LEMMA CallsKeepOverlay ==
  ASSUME OverlayInv, Calls
  PROVE  OverlayInv'
<1>1. PICK s \in Doable(readable) : /\ s.do \in Methods /\ (s.do # "renameSync" => s.new = s.p) /\ Call(s)
  BY CalledStep
<1> QED
  BY <1>1, CallKeeps

(* A call that is over is forgotten; so is one that a restart ends. *)
LEMMA IdleGoes ==
  ASSUME NEW w, NEW r, NEW D, NEW b, Layered(w, r, D)
  PROVE  Going(<<>>, w, r, D, Idle.step, b)
BY NoProgram, IdleTyped DEF Going

LEMMA ReturnKeeps ==
  ASSUME OverlayInv, Return
  PROVE  OverlayInv'
<1>1. /\ todo = <<>> /\ todo' = <<>> /\ call' = Idle /\ answer' = "none"
      /\ UNCHANGED <<readable, writable, careful, logVars>>
  BY DEF Return, Running
<1>2. LogTypeOK' /\ DeletedFiles' = DeletedFiles
  BY <1>1 DEF logVars, DeletedFiles, LogTypeOK, OverlayInv, OverlayTyped
<1>3. OverlayTyped'
  BY <1>1, <1>2, IdleTyped DEF OverlayInv, OverlayTyped
<1>4. careful => Layered(writable, readable, DeletedFiles)
  BY DEF OverlayInv, Going
<1>5. careful => Going(<<>>, writable, readable, DeletedFiles, Idle.step, Idle.before)
  BY <1>4, IdleGoes
<1> QED
  BY <1>1, <1>2, <1>3, <1>5 DEF OverlayInv

LEMMA RestartKeeps ==
  ASSUME OverlayInv, Restart
  PROVE  OverlayInv'
<1>1. /\ todo' = <<>> /\ call' = Idle /\ answer' = "none" /\ deleteLog' = logFile
      /\ careful' = (careful /\ logFile = deleteLog) /\ UNCHANGED <<readable, writable>>
  BY DEF Restart, ReadLogFile
<1>2. LogTypeOK'
  <2>1. logFile \in Seq(Paths)
    BY DEF OverlayInv, OverlayTyped, LogTypeOK
  <2>2. /\ deleteLog' = logFile /\ logFile' = logFile /\ writing' = <<>>
        /\ updatePending' = FALSE /\ updateNeeded' = FALSE
        /\ deleteLogError' = FALSE /\ behind' = FALSE
    BY DEF Restart, ReadLogFile
  <2>3. <<>> \in Seq(Paths)
    OBVIOUS
  <2> QED
    BY ONLY <2>1, <2>2, <2>3 DEF LogTypeOK
<1>3. todo' \in Seq(Doable(readable)) /\ careful' \in BOOLEAN
  BY <1>1 DEF OverlayInv, OverlayTyped
<1>4. OverlayTyped'
  BY <1>1, <1>2, <1>3, IdleTyped DEF OverlayInv, OverlayTyped
<1>5. careful' => DeletedFiles' = DeletedFiles
  BY <1>1 DEF DeletedFiles
<1>6. careful => Layered(writable, readable, DeletedFiles)
  BY DEF OverlayInv, Going
<1>7. careful => Going(<<>>, writable, readable, DeletedFiles, Idle.step, Idle.before)
  BY <1>6, IdleGoes
<1> QED
  BY <1>1, <1>4, <1>5, <1>7 DEF OverlayInv

LEMMA LogWriteKeeps ==
  ASSUME OverlayInv, LogWrite
  PROVE  OverlayInv'
<1>1. UNCHANGED <<readable, writable, todo, call, answer, careful>> /\ LogWrites
  BY DEF LogWrite, ovVars
<1>2. deleteLog' = deleteLog
  BY <1>1 DEF LogWrites, EmptyLogFile, WriteLogFile, FailLogFile
<1>3. LogTypeOK'
  <2>1. LogTypeOK
    BY DEF OverlayInv, OverlayTyped
  <2>2. <<>> \in Seq(Paths)
    OBVIOUS
  <2> QED
    BY <1>1, <2>1, <2>2 DEF LogWrites, EmptyLogFile, WriteLogFile, FailLogFile, LogTypeOK
<1>4. DeletedFiles' = DeletedFiles
  BY <1>2 DEF DeletedFiles
<1> QED
  BY <1>1, <1>3, <1>4 DEF OverlayInv, OverlayTyped

LEMMA OverlayInitInv == Init => OverlayInv
<1> SUFFICES ASSUME Init PROVE OverlayInv
  OBVIOUS
<1>1. /\ LogInit /\ readable \in Readables /\ writable = EmptyTree
      /\ todo = <<>> /\ call = Idle /\ answer = "none" /\ careful = TRUE
  BY DEF Init
<1>2. LogTypeOK /\ DeletedFiles = {}
  <2>1. /\ deleteLog = <<>> /\ logFile = <<>> /\ writing = <<>>
        /\ updatePending = FALSE /\ updateNeeded = FALSE
        /\ deleteLogError = FALSE /\ behind = FALSE
    BY <1>1 DEF LogInit
  <2>2. <<>> \in Seq(Paths)
    OBVIOUS
  <2>3. LogTypeOK
    BY ONLY <2>1, <2>2 DEF LogTypeOK
  <2>4. ToSet(<<>>) = {}
    BY DEF ToSet
  <2> QED
    BY <2>1, <2>3, <2>4 DEF DeletedFiles
<1>3. writable \in Trees /\ IsTree(writable)
  <2>1. /\ writable = [p \in Paths |-> IF p = <<>> THEN Dir ELSE Absent]
        /\ <<>> \in Paths
    BY <1>1, PathsAre DEF EmptyTree
  <2>2. Dir \in Nodes /\ Absent \in Nodes
    BY DEF Nodes
  <2>3. \A p \in Paths \ {<<>>} : writable[p] = Absent
    BY <2>1
  <2> QED
    BY ONLY <2>1, <2>2, <2>3 DEF Trees, IsTree
<1>4. todo \in Seq(Doable(readable))
  BY <1>1
<1>5. OverlayTyped
  BY <1>1, <1>2, <1>3, <1>4, IdleTyped DEF OverlayTyped
<1>6. Layered(writable, readable, DeletedFiles)
  <2>1. readable \in Trees /\ IsTree(readable)
    BY <1>1, ReadableIsTree
  <2>2. FilesCover(writable, readable, DeletedFiles)
    BY <1>1, NodesDiffer DEF FilesCover, IsFileAt, EmptyTree
  <2>3. DeletedWhole(readable, DeletedFiles)
    BY <1>2 DEF DeletedWhole
  <2> QED
    BY <1>3, <2>1, <2>2, <2>3 DEF Layered
<1> QED
  BY <1>1, <1>5, <1>6, IdleGoes DEF OverlayInv

LEMMA OverlayNextInv == OverlayInv /\ [Next]_vars => OverlayInv'
<1> SUFFICES ASSUME OverlayInv, [Next]_vars PROVE OverlayInv'
  OBVIOUS
<1>1. CASE Calls
  BY <1>1, CallsKeepOverlay
<1>2. CASE Run
  BY <1>2, OverlayRunKeeps
<1>3. CASE Return
  BY <1>3, ReturnKeeps
<1>4. CASE Fail
  BY <1>4, FailKeeps
<1>5. CASE LogWrite
  BY <1>5, LogWriteKeeps
<1>6. CASE Restart
  BY <1>6, RestartKeeps
<1>7. CASE UNCHANGED vars
  <2>1. UNCHANGED <<deleteLog, updatePending, updateNeeded, deleteLogError, logFile, writing, behind>>
    BY <1>7 DEF vars, logVars
  <2>2. UNCHANGED <<readable, writable, todo, call, answer, careful>>
    BY <1>7 DEF vars, ovVars
  <2>3. LogTypeOK' /\ DeletedFiles' = DeletedFiles
    BY <2>1 DEF OverlayInv, OverlayTyped, LogTypeOK, DeletedFiles
  <2> QED
    BY <2>2, <2>3 DEF OverlayInv, OverlayTyped
<1> QED
  BY <1>1, <1>2, <1>3, <1>4, <1>5, <1>6, <1>7 DEF Next

LEMMA OverlayInvAlways == Spec => []OverlayInv
BY OverlayInitInv, OverlayNextInv, PTL DEF Spec

(* The log, both file systems and the steps that a method has yet to make   *)
(* are what they are used for, for any readable file system and any paths.  *)
THEOREM OverlayTypes == Spec => []TypeOK
<1>1. OverlayInv => TypeOK
  <2> SUFFICES ASSUME OverlayInv PROVE TypeOK
    OBVIOUS
  <2>1. todo \in Seq(Steps)
    <3>1. Doable(readable) \subseteq Steps
      BY DEF Doable
    <3> QED
      BY <3>1, ElementOfSeq, SeqDef DEF OverlayInv, OverlayTyped
  <2>2. readable \in Trees
    BY ViewIs DEF OverlayInv
  <2> QED
    BY <2>1, <2>2 DEF OverlayInv, OverlayTyped, TypeOK
<1> QED
  BY <1>1, OverlayInvAlways, PTL

(* Whatever is called, and wherever the tab goes away or the writable file  *)
(* system fails, all that OverlayFS shows is in a directory that it shows,  *)
(* as long as no call was made that it gets wrong, nor a deletion lost.     *)
THEOREM StaysTreeAlways == Spec => []StaysTree
<1>1. OverlayInv => StaysTree
  <2> SUFFICES ASSUME OverlayInv, careful, NEW p \in Paths \ {<<>>}, View[p] # Absent
               PROVE  View[Front(p)] = Dir
    BY DEF StaysTree, IsDirAt
  <2>1. Layered(writable, readable, DeletedFiles)
    BY DEF OverlayInv, Going
  <2>2. IsTree(View)
    BY <2>1, LayersShowTree, ViewIs DEF OverlayInv
  <2> QED
    BY <2>2 DEF IsTree, Parent
<1> QED
  BY <1>1, OverlayInvAlways, PTL

(* A call leaves all that is not at its own paths or below them as it found *)
(* it, also when it goes no further than half of its steps.                 *)
THEOREM OthersUntouchedAlways == Spec => []OthersUntouched
<1>1. OverlayInv => OthersUntouched
  <2> SUFFICES ASSUME OverlayInv, careful, NEW p \in Paths
               PROVE  Touched(p) \/ View[p] = call.before[p]
    BY DEF OthersUntouched
  <2>1. TouchedBy(call.step, p) \/ Over(writable, readable, DeletedFiles)[p] = call.before[p]
    BY DEF OverlayInv, Going
  <2> QED
    BY <2>1, ViewIs DEF OverlayInv, TouchedBy, Touched
<1> QED
  BY <1>1, OverlayInvAlways, PTL

----------------------------------------------------------------------------
(* What a step comes to.  The two layers are a tree and what is deleted of  *)
(* the one below it; a directory of the first is nowhere above a file of    *)
(* the second that is not deleted.                                          *)

DirsCover(w, r, D) == \A p \in Paths : w[p] = Dir /\ IsFileAt(r, p) => p \in D
Layers(r) ==
  {f \in [w : Trees, D : SUBSET Paths] : Layered(f.w, r, f.D) /\ DirsCover(f.w, r, f.D)}
Shows(f, r) == Over(f.w, r, f.D)

(* Below a file that only r has, nothing can be made. *)
ClearAbove(p, f, r) ==
  \A q \in Paths : IsPrefix(q, p) /\ q # p /\ f.w[q] = Absent => Shows(f, r)[q] \in {Absent, Dir}

(* z is to p what q is to new. *)
Twins(p, new, z, q) ==
  /\ IsPrefix(p, z) /\ IsPrefix(new, q) /\ Len(z) - Len(p) = Len(q) - Len(new)
  /\ \A i \in 1 .. Len(z) - Len(p) : z[Len(p) + i] = q[Len(new) + i]
Apart(p, new) == ~ IsPrefix(p, new) /\ ~ IsPrefix(new, p)
HasTwin(p, new, z) == \E q \in Paths : Twins(p, new, z, q)
ReadBelow(p, r) == {z \in Below(p) : r[z] # Absent}
Unmixed(p, f, r) == \A z \in ReadBelow(p, r) : f.w[z] = Absent /\ z \notin f.D

(* writeFileSync: a file is made or changed, and the directories above it *)
(* are made in w.                                                         *)
Wrote(p, c, f, g, r) ==
  /\ CanCreate(Shows(f, r), p) \/ IsFileAt(Shows(f, r), p)
  /\ g.D = f.D /\ g.w[p] = File(c)
  /\ \A q \in Paths : q # p =>
       g.w[q] = f.w[q] \/ (f.w[q] = Absent /\ Shows(f, r)[q] = Dir /\ g.w[q] = Dir /\ IsPrefix(q, p))
(* unlinkSync *)
Unlinked(p, f, g, r) ==
  /\ Shows(f, r)[p] # Absent /\ f.w[p] # Dir
  /\ g.w = With(f.w, p, Absent)
  /\ g.D = IF r[p] # Absent THEN f.D \union {p} ELSE f.D
UnlinkedOld(p, new, f, g, r) ==
  IF p = new \/ Shows(f, r)[p] = Absent THEN g.w = f.w /\ g.D = f.D ELSE Unlinked(p, f, g, r)
(* What w has at p and below it goes to new, where a directory is. *)
MovedDir(p, new, w, u) ==
  /\ u[new] = Dir
  /\ \A q \in Paths : IsPrefix(p, q) => u[q] = Absent
  /\ \A q \in Below(new) : /\ \A z \in Paths : Twins(p, new, z, q) => u[q] = w[z]
                           /\ (\A z \in Paths : ~ Twins(p, new, z, q)) => u[q] = Absent
  /\ \A q \in Paths : ~ IsPrefix(p, q) /\ ~ IsPrefix(new, q) => u[q] = w[q]
(* What r has in M, below p, is copied to below new. *)
Copied(p, new, M, w, u, r) ==
  \A q \in Paths :
    /\ \A z \in M : Twins(p, new, z, q) => u[q] = r[z]
    /\ (\A z \in M : ~ Twins(p, new, z, q)) => u[q] = w[q]
RenamedDir(p, new, f, g, r) ==
  /\ Apart(p, new) /\ Vacant(Shows(f, r), new) /\ Shows(f, r)[Parent(new)] = Dir
  /\ \E u \in Trees : MovedDir(p, new, f.w, u) /\ Copied(p, new, ReadBelow(p, r), u, g.w, r)
  /\ g.D = f.D \union {z \in Paths : IsPrefix(p, z) /\ r[z] # Absent}

(* The methods of the writable file system, of a tree w *)
CanDoIn(s, w) ==
  \/ s.do = "_writable.mkdirSync" /\ CanCreate(w, s.p)
  \/ s.do = "_writable.rmdirSync" /\ CanRmdir(w, s.p)
  \/ s.do = "_writable.unlinkSync" /\ CanUnlink(w, s.p)
  \/ s.do = "_writable.renameSync" /\ CanRename(w, s.p, s.new)
  \/ s.do = "_writable.openSync" /\ (CanCreate(w, s.p) \/ IsFileAt(w, s.p))
  \/ s.do = "_writable.write" /\ IsFileAt(w, s.p)
DoneIn(s, w, u) ==
  /\ s.do = "_writable.mkdirSync" => u = With(w, s.p, Dir)
  /\ s.do \in {"_writable.rmdirSync", "_writable.unlinkSync"} => u = With(w, s.p, Absent)
  /\ s.do = "_writable.renameSync" => u = Renamed(w, s.p, s.new)
  /\ s.do \in {"_writable.openSync", "_writable.write"} => u = With(w, s.p, File(s.bytes))

(* What a step needs, when it cannot throw, and what it comes to if it does not *)
Needs(s, f, r) ==
  LET v == Shows(f, r)
  IN /\ s.do \in {"_writable.mkdirSync", "createParentDirectory"} => v[s.p] \in {Absent, Dir}
     /\ s.do = "_writable.renameSync" => f.w[s.p] = Dir /\ Vacant(v, s.new)
     /\ s.do \in {"_writable.openSync", "writeFileSync"} => v[s.p] # Dir \/ f.w[s.p] # Absent
     /\ s.do \in {"deletePath", "deleteIfExists"} => Emptied(r, f.D, s.p)
     /\ s.do \in {"unlinkSync", "unlinkOld"} =>
          (f.w[s.p] = Absent /\ v[s.p] = Dir => Emptied(r, f.D, s.p))
     /\ s.do \in {"mkdirSync", "writeFileSync"} => ClearAbove(s.p, f, r)
     /\ s.do = "renameSync" =>
          /\ ClearAbove(s.new, f, r)
          /\ v[s.p] = Dir =>
               /\ Unmixed(s.p, f, r) /\ ~ IsFileAt(r, s.p)
               /\ \A z \in ReadBelow(s.p, r) : HasTwin(s.p, s.new, z)
     /\ s.do = "renameChildren" =>
          /\ Apart(s.p, s.new) /\ f.w[s.new] = Dir /\ ~ IsFileAt(r, s.p)
          /\ \A q \in Paths : IsPrefix(s.p, q) => f.w[q] = Absent
          /\ \A z \in ReadBelow(s.p, r) :
               z \notin f.D /\ \E q \in Paths : Twins(s.p, s.new, z, q) /\ v[q] = Absent

Sure(s, f, r) ==
  LET v == Shows(f, r)
  IN \/ CanDoIn(s, f.w)
     \/ s.do = "createParentDirectory" /\ v[s.p] = Dir /\ CanCreate(f.w, s.p)
     \/ s.do \in {"deletePath", "deleteIfExists", "renameChildren"}
     \/ s.do = "deleteIfEmpty" /\ v[s.p] = Absent
     \/ s.do = "unlinkSync" /\ v[s.p] # Absent /\ f.w[s.p] # Dir
     \/ s.do = "unlinkOld" /\ (s.p = s.new \/ v[s.p] = Absent \/ f.w[s.p] # Dir)
     \/ s.do = "writeFileSync" /\ (CanCreate(f.w, s.p) \/ IsFileAt(f.w, s.p))
     \/ /\ s.do = "renameSync" /\ CanCreate(f.w, s.new) /\ v[s.new] = Absent
        /\ IsFileAt(v, s.p) \/ (v[s.p] = Dir /\ f.w[s.p] = Absent)

Post(s, f, g, r) ==
  LET v == Shows(f, r)
  IN /\ g \in Layers(r)
     /\ s.do \in OnWritable => CanDoIn(s, f.w) /\ DoneIn(s, f.w, g.w) /\ g.D = f.D
     /\ s.do = "createParentDirectory" =>
          v[s.p] = Dir /\ CanCreate(f.w, s.p) /\ g.w = With(f.w, s.p, Dir) /\ g.D = f.D
     /\ s.do = "deletePath" => g.w = f.w /\ g.D = f.D \union {s.p}
     /\ s.do = "deleteIfExists" =>
          g.w = f.w /\ g.D = IF v[s.p] = Absent THEN f.D ELSE f.D \union {s.p}
     /\ s.do = "deleteIfEmpty" =>
          /\ g.w = f.w
          /\ \/ v[s.p] = Absent /\ g.D = f.D
             \/ v[s.p] = Dir /\ Children(v, s.p) = {} /\ g.D = f.D \union {s.p}
     /\ s.do = "unlinkSync" => Unlinked(s.p, f, g, r)
     /\ s.do = "unlinkOld" => UnlinkedOld(s.p, s.new, f, g, r)
     /\ s.do = "writeFileSync" => Wrote(s.p, s.bytes, f, g, r)
     /\ s.do = "renameSync" =>
          /\ v[s.p] # Absent
          /\ IsFileAt(v, s.p) =>
               \E h \in Layers(r) : Wrote(s.new, v[s.p].bytes, f, h, r) /\ UnlinkedOld(s.p, s.new, h, g, r)
          /\ v[s.p] = Dir /\ s.p = s.new => g = f
          /\ v[s.p] = Dir /\ s.p # s.new => RenamedDir(s.p, s.new, f, g, r)
     /\ s.do = "renameChildren" =>
          Copied(s.p, s.new, ReadBelow(s.p, r), f.w, g.w, r) /\ g.D = f.D \union ReadBelow(s.p, r)
     /\ s.do \in {"mkdirSync", "truncateSync", "rmdirSync", "chmodSync"} =>
          Shows(g, r) = Promised(s, v)

----------------------------------------------------------------------------
(* What a list of steps leads to from X: to Z, if none of them throws, and  *)
(* one that may throw is taken in T only.                                   *)
Leads(X, t, Z, T, r) ==
  \E R \in [1 .. Len(t) + 1 -> SUBSET Layers(r)] :
    /\ X \subseteq R[1] /\ R[Len(t) + 1] \subseteq Z
    /\ \A k \in 1 .. Len(t) : \A f \in R[k] :
         /\ Needs(t[k], f, r) /\ (Sure(t[k], f, r) \/ f \in T)
         /\ \A g \in Layers(r) : Post(t[k], f, g, r) => g \in R[k + 1]

(* Steps that do what s is to do, and where they may throw so may s *)
Showing(v, r) == {g \in Layers(r) : Shows(g, r) = v}
Fulfils(s, steps, f, r) ==
  Leads({f}, steps, {g \in Layers(r) : Post(s, f, g, r)},
        IF Sure(s, f, r) THEN {} ELSE Showing(Shows(f, r), r), r)

LEMMA LeadsNone ==
  ASSUME NEW r, NEW X, X \subseteq Layers(r), NEW Z, X \subseteq Z, NEW T
  PROVE  Leads(X, <<>>, Z, T, r)
<1> PICK R : R = [k \in 1 .. 1 |-> X]
  OBVIOUS
<1>1. R \in [1 .. 1 -> SUBSET Layers(r)] /\ R[1] = X
  OBVIOUS
<1>2. Len(<<>>) = 0
  OBVIOUS
<1> QED
  BY <1>1, <1>2 DEF Leads

LEMMA NothingToDo ==
  ASSUME NEW r, NEW f, NEW s, Post(s, f, f, r)
  PROVE  Fulfils(s, <<>>, f, r)
<1> PICK Z, T : /\ Z = {g \in Layers(r) : Post(s, f, g, r)}
                /\ T = IF Sure(s, f, r) THEN {} ELSE Showing(Shows(f, r), r)
  OBVIOUS
<1>1. {f} \subseteq Layers(r) /\ {f} \subseteq Z
  BY DEF Post
<1>2. Leads({f}, <<>>, Z, T, r)
  BY <1>1, LeadsNone
<1> QED
  BY <1>2 DEF Fulfils

LEMMA LeadsOne ==
  ASSUME NEW r, NEW X, X \subseteq Layers(r), NEW Z, NEW T, NEW s,
         \A f \in X : Needs(s, f, r) /\ (Sure(s, f, r) \/ f \in T),
         \A f \in X : \A g \in Layers(r) : Post(s, f, g, r) => g \in Z
  PROVE  Leads(X, <<s>>, Z, T, r)
<1> PICK R : R = [k \in 1 .. 2 |-> IF k = 1 THEN X ELSE Z \intersect Layers(r)]
  OBVIOUS
<1>1. R \in [1 .. 2 -> SUBSET Layers(r)] /\ R[1] = X /\ R[2] = Z \intersect Layers(r)
  OBVIOUS
<1>2. Len(<<s>>) = 1 /\ <<s>>[1] = s
  OBVIOUS
<1> PICK t : t = <<s>>
  OBVIOUS
<1>3. \A k \in 1 .. Len(t) : k = 1
  BY <1>2
<1>4. Len(t) + 1 = 2
  BY <1>2
<1> QED
  BY <1>1, <1>2, <1>3, <1>4 DEF Leads

LEMMA LeadsMore ==
  ASSUME NEW r, NEW X, NEW Z, NEW T, NEW t, Leads(X, t, Z, T, r),
         NEW X2, X2 \subseteq X, NEW Z2, Z \subseteq Z2, NEW T2, T \subseteq T2
  PROVE  Leads(X2, t, Z2, T2, r)
<1>1. PICK R \in [1 .. Len(t) + 1 -> SUBSET Layers(r)] :
        /\ X \subseteq R[1] /\ R[Len(t) + 1] \subseteq Z
        /\ \A k \in 1 .. Len(t) : \A f \in R[k] :
             /\ Needs(t[k], f, r) /\ (Sure(t[k], f, r) \/ f \in T)
             /\ \A g \in Layers(r) : Post(t[k], f, g, r) => g \in R[k + 1]
  BY DEF Leads
<1>2. X2 \subseteq R[1] /\ R[Len(t) + 1] \subseteq Z2
  BY <1>1
<1>3. \A k \in 1 .. Len(t) : \A f \in R[k] :
        /\ Needs(t[k], f, r) /\ (Sure(t[k], f, r) \/ f \in T2)
        /\ \A g \in Layers(r) : Post(t[k], f, g, r) => g \in R[k + 1]
  BY <1>1
<1> QED
  BY <1>2, <1>3 DEF Leads

LEMMA LeadsJoin ==
  ASSUME NEW r, NEW X, NEW M, NEW Z, NEW T, NEW a \in Seq(Steps), NEW b \in Seq(Steps),
         Leads(X, a, M, T, r), Leads(M, b, Z, T, r)
  PROVE  Leads(X, a \o b, Z, T, r)
<1>1. PICK R \in [1 .. Len(a) + 1 -> SUBSET Layers(r)] :
        /\ X \subseteq R[1] /\ R[Len(a) + 1] \subseteq M
        /\ \A k \in 1 .. Len(a) : \A f \in R[k] :
             /\ Needs(a[k], f, r) /\ (Sure(a[k], f, r) \/ f \in T)
             /\ \A g \in Layers(r) : Post(a[k], f, g, r) => g \in R[k + 1]
  BY DEF Leads
<1>2. PICK Q \in [1 .. Len(b) + 1 -> SUBSET Layers(r)] :
        /\ M \subseteq Q[1] /\ Q[Len(b) + 1] \subseteq Z
        /\ \A k \in 1 .. Len(b) : \A f \in Q[k] :
             /\ Needs(b[k], f, r) /\ (Sure(b[k], f, r) \/ f \in T)
             /\ \A g \in Layers(r) : Post(b[k], f, g, r) => g \in Q[k + 1]
  BY DEF Leads
<1> PICK m \in Nat, n \in Nat : m = Len(a) /\ n = Len(b)
  BY LenProperties
<1> PICK t : t = a \o b
  OBVIOUS
<1>3. /\ t \in Seq(Steps) /\ Len(t) = m + n
      /\ \A i \in 1 .. m + n : t[i] = IF i <= m THEN a[i] ELSE b[i - m]
  BY ConcatProperties
<1> PICK S : S = [k \in 1 .. m + n + 1 |-> IF k <= m THEN R[k] ELSE Q[k - m]]
  OBVIOUS
<1>4. S \in [1 .. m + n + 1 -> SUBSET Layers(r)]
  <2>1. \A k \in 1 .. m + n + 1 : (k <= m => k \in 1 .. m + 1) /\ (~ k <= m => k - m \in 1 .. n + 1)
    OBVIOUS
  <2> QED
    BY <2>1
<1>5. /\ \A k \in 1 .. m : S[k] = R[k]
      /\ \A k \in 1 .. n + 1 : S[m + k] = Q[k]
  <2>1. \A k \in 1 .. m : k \in 1 .. m + n + 1 /\ k <= m
    OBVIOUS
  <2>2. \A k \in 1 .. n + 1 : m + k \in 1 .. m + n + 1 /\ ~ m + k <= m /\ m + k - m = k
    OBVIOUS
  <2> QED
    BY <2>1, <2>2
<1>6. \A k \in 1 .. m + 1 : R[k] \subseteq S[k]
  <2>1. R[m + 1] \subseteq S[m + 1]
    BY <1>1, <1>2, <1>5
  <2>2. \A k \in 1 .. m + 1 : k \in 1 .. m \/ k = m + 1
    OBVIOUS
  <2> QED
    BY <1>5, <2>1, <2>2
<1>7. X \subseteq S[1]
  <2>1. 1 \in 1 .. m + 1
    OBVIOUS
  <2> QED
    BY <1>1, <1>6, <2>1
<1>8. S[m + n + 1] \subseteq Z
  <2>1. n + 1 \in 1 .. n + 1 /\ m + (n + 1) = m + n + 1
    OBVIOUS
  <2> QED
    BY <1>2, <1>5, <2>1
<1>9. ASSUME NEW k \in 1 .. m + n, NEW f \in S[k]
      PROVE  /\ Needs(t[k], f, r) /\ (Sure(t[k], f, r) \/ f \in T)
             /\ \A g \in Layers(r) : Post(t[k], f, g, r) => g \in S[k + 1]
  <2>1. CASE k <= m
    <3>1. k \in 1 .. m /\ k + 1 \in 1 .. m + 1
      BY <2>1
    <3>2. t[k] = a[k]
      BY <1>3, <2>1
    <3>3. f \in R[k]
      BY <1>5, <1>9, <3>1
    <3>4. R[k + 1] \subseteq S[k + 1]
      BY <1>6, <3>1
    <3>5. /\ Needs(a[k], f, r) /\ (Sure(a[k], f, r) \/ f \in T)
          /\ \A g \in Layers(r) : Post(a[k], f, g, r) => g \in R[k + 1]
      BY <1>1, <3>1, <3>3
    <3> QED
      BY <3>2, <3>4, <3>5
  <2>2. CASE ~ k <= m
    <3>5. k - m \in Nat
      BY ONLY <2>2, k \in 1 .. m + n, m \in Nat, n \in Nat
    <3> PICK j \in Nat : j = k - m
      BY <3>5
    <3>1. j \in 1 .. n /\ j \in 1 .. n + 1 /\ j + 1 \in 1 .. n + 1 /\ m + j = k /\ m + (j + 1) = k + 1
      BY <2>2
    <3>2. t[k] = b[j]
      BY <1>3, <2>2
    <3>3. S[k] = Q[j] /\ S[k + 1] = Q[j + 1]
      <4>1. S[m + j] = Q[j] /\ S[m + (j + 1)] = Q[j + 1]
        BY <1>5, <3>1
      <4> QED
        BY <3>1, <4>1
    <3>4. f \in Q[j]
      BY <1>9, <3>3
    <3>6. /\ Needs(b[j], f, r) /\ (Sure(b[j], f, r) \/ f \in T)
          /\ \A g \in Layers(r) : Post(b[j], f, g, r) => g \in Q[j + 1]
      BY <1>2, <3>1, <3>4
    <3> QED
      BY ONLY <3>2, <3>3, <3>6
  <2> QED
    BY <2>1, <2>2
<1>10. Leads(X, t, Z, T, r)
  BY ONLY <1>3, <1>4, <1>7, <1>8, <1>9 DEF Leads
<1> QED
  BY <1>10

LEMMA LeadsOn ==
  ASSUME NEW r, NEW f, NEW Z, NEW T, NEW t \in Seq(Steps), t # <<>>, Leads({f}, t, Z, T, r)
  PROVE  /\ f \in Layers(r) /\ Needs(t[1], f, r) /\ (Sure(t[1], f, r) \/ f \in T)
         /\ Leads({g \in Layers(r) : Post(t[1], f, g, r)}, Tail(t), Z, T, r)
<1>1. PICK R \in [1 .. Len(t) + 1 -> SUBSET Layers(r)] :
        /\ {f} \subseteq R[1] /\ R[Len(t) + 1] \subseteq Z
        /\ \A k \in 1 .. Len(t) : \A h \in R[k] :
             /\ Needs(t[k], h, r) /\ (Sure(t[k], h, r) \/ h \in T)
             /\ \A g \in Layers(r) : Post(t[k], h, g, r) => g \in R[k + 1]
  BY DEF Leads
<1> PICK u : u = Tail(t)
  OBVIOUS
<1>2. /\ Len(t) \in Nat \ {0} /\ u \in Seq(Steps) /\ Len(u) = Len(t) - 1
      /\ \A i \in 1 .. Len(u) : u[i] = t[i + 1]
  BY LenProperties, EmptySeq, HeadTailProperties
<1> PICK n \in Nat : n = Len(u)
  BY <1>2, LenProperties
<1>3. Len(t) = n + 1 /\ 1 \in 1 .. Len(t) /\ 1 \in 1 .. Len(t) + 1 /\ Len(t) + 1 = n + 2
  BY <1>2
<1>4. f \in R[1] /\ R[1] \subseteq Layers(r)
  BY <1>1, <1>3
<1>5. Needs(t[1], f, r) /\ (Sure(t[1], f, r) \/ f \in T)
  BY <1>1, <1>3, <1>4
<1>6. \A g \in Layers(r) : Post(t[1], f, g, r) => g \in R[1 + 1]
  BY <1>1, <1>3, <1>4
<1> PICK S : S = [k \in 1 .. n + 1 |-> R[k + 1]]
  OBVIOUS
<1>7. S \in [1 .. n + 1 -> SUBSET Layers(r)] /\ \A k \in 1 .. n + 1 : S[k] = R[k + 1]
  <2>1. \A k \in 1 .. n + 1 : k + 1 \in 1 .. Len(t) + 1
    BY <1>3
  <2> QED
    BY <2>1
<1>8. {g \in Layers(r) : Post(t[1], f, g, r)} \subseteq S[1]
  BY <1>6, <1>7
<1>9. S[n + 1] \subseteq Z
  <2>1. n + 1 \in 1 .. n + 1 /\ (n + 1) + 1 = Len(t) + 1
    BY <1>3
  <2> QED
    BY <1>1, <1>7, <2>1
<1>10. ASSUME NEW k \in 1 .. n, NEW h \in S[k]
       PROVE  /\ Needs(u[k], h, r) /\ (Sure(u[k], h, r) \/ h \in T)
              /\ \A g \in Layers(r) : Post(u[k], h, g, r) => g \in S[k + 1]
  <2>1. k + 1 \in 1 .. Len(t) /\ k \in 1 .. n + 1 /\ k + 1 \in 1 .. n + 1
    BY <1>3
  <2> PICK j : j = k + 1
    OBVIOUS
  <2>2. u[k] = t[j] /\ h \in R[j] /\ S[k + 1] = R[j + 1]
    BY <1>2, <1>7, <1>10, <2>1
  <2>3. /\ Needs(t[j], h, r) /\ (Sure(t[j], h, r) \/ h \in T)
        /\ \A g \in Layers(r) : Post(t[j], h, g, r) => g \in R[j + 1]
    BY <1>1, <2>1, <2>2
  <2> QED
    BY ONLY <2>2, <2>3
<1>11. Leads({g \in Layers(r) : Post(t[1], f, g, r)}, u, Z, T, r)
  <2> PICK X : X = {g \in Layers(r) : Post(t[1], f, g, r)}
    OBVIOUS
  <2>1. Len(u) = n /\ X \subseteq S[1]
    BY <1>8
  <2>2. S \in [1 .. n + 1 -> SUBSET Layers(r)]
    BY <1>7
  <2>3. Leads(X, u, Z, T, r)
    BY ONLY <1>9, <1>10, <2>1, <2>2 DEF Leads
  <2> QED
    BY <2>3
<1> QED
  BY <1>4, <1>5, <1>11

LEMMA LeadsEnd ==
  ASSUME NEW r, NEW f, NEW Z, NEW T, Leads({f}, <<>>, Z, T, r)
  PROVE  f \in Z
<1>1. Len(<<>>) = 0 /\ 0 + 1 = 1
  OBVIOUS
<1> QED
  BY <1>1 DEF Leads

(* A step is taken, or replaced by the steps that do the same. *)
LEMMA StepTaken ==
  ASSUME NEW r, NEW f, NEW Z, NEW T, NEW t \in Seq(Steps), t # <<>>, Leads({f}, t, Z, T, r),
         NEW g, Post(t[1], f, g, r)
  PROVE  Leads({g}, <<>> \o Tail(t), Z, T, r)
<1>1. Leads({h \in Layers(r) : Post(t[1], f, h, r)}, Tail(t), Z, T, r)
  BY LeadsOn
<1>2. g \in Layers(r)
  BY DEF Post
<1>3. Tail(t) \in Seq(Steps)
  BY HeadTailProperties
<1>4. <<>> \o Tail(t) = Tail(t)
  BY <1>3, ConcatEmptySeq
<1>5. Leads({g}, Tail(t), Z, T, r)
  BY <1>1, <1>2, LeadsMore
<1> QED
  BY <1>4, <1>5

LEMMA StepReplaced ==
  ASSUME NEW r, NEW f, NEW Z, NEW v, NEW t \in Seq(Steps), t # <<>>,
         Leads({f}, t, Z, Showing(v, r), r), NEW steps \in Seq(Steps), Fulfils(t[1], steps, f, r)
  PROVE  Leads({f}, steps \o Tail(t), Z, Showing(v, r), r)
<1> PICK M : M = {g \in Layers(r) : Post(t[1], f, g, r)}
  OBVIOUS
<1>1. Leads(M, Tail(t), Z, Showing(v, r), r) /\ (Sure(t[1], f, r) \/ f \in Showing(v, r))
  BY LeadsOn
<1>2. (IF Sure(t[1], f, r) THEN {} ELSE Showing(Shows(f, r), r)) \subseteq Showing(v, r)
  BY <1>1 DEF Showing
<1>3. Leads({f}, steps, M, Showing(v, r), r)
  BY <1>2, LeadsMore DEF Fulfils
<1>4. Tail(t) \in Seq(Steps)
  BY HeadTailProperties
<1> QED
  BY <1>1, <1>3, <1>4, LeadsJoin

----------------------------------------------------------------------------
(* The contract of each step *)

LEMMA WritableMkdirIs ==
  ASSUME NEW s, s.do = "_writable.mkdirSync", NEW f, NEW g, NEW r
  PROVE  /\ Needs(s, f, r) <=> Shows(f, r)[s.p] \in {Absent, Dir}
         /\ Sure(s, f, r) <=> CanCreate(f.w, s.p)
         /\ Post(s, f, g, r) <=> g \in Layers(r) /\ CanCreate(f.w, s.p) /\ g.w = With(f.w, s.p, Dir) /\ g.D = f.D
BY DEF Needs, Sure, Post, CanDoIn, DoneIn, OnWritable

LEMMA WritableRmdirIs ==
  ASSUME NEW s, s.do = "_writable.rmdirSync", NEW f, NEW g, NEW r
  PROVE  /\ Needs(s, f, r)
         /\ Sure(s, f, r) <=> CanRmdir(f.w, s.p)
         /\ Post(s, f, g, r) <=> g \in Layers(r) /\ CanRmdir(f.w, s.p) /\ g.w = With(f.w, s.p, Absent) /\ g.D = f.D
BY DEF Needs, Sure, Post, CanDoIn, DoneIn, OnWritable

LEMMA WritableUnlinkIs ==
  ASSUME NEW s, s.do = "_writable.unlinkSync", NEW f, NEW g, NEW r
  PROVE  /\ Needs(s, f, r)
         /\ Sure(s, f, r) <=> CanUnlink(f.w, s.p)
         /\ Post(s, f, g, r) <=> g \in Layers(r) /\ CanUnlink(f.w, s.p) /\ g.w = With(f.w, s.p, Absent) /\ g.D = f.D
BY DEF Needs, Sure, Post, CanDoIn, DoneIn, OnWritable

LEMMA WritableRenameIs ==
  ASSUME NEW s, s.do = "_writable.renameSync", NEW f, NEW g, NEW r
  PROVE  /\ Needs(s, f, r) <=> (f.w[s.p] = Dir /\ Vacant(Shows(f, r), s.new))
         /\ Sure(s, f, r) <=> CanRename(f.w, s.p, s.new)
         /\ Post(s, f, g, r) <=>
          /\ g \in Layers(r)
          /\ CanRename(f.w, s.p, s.new)
          /\ g.w = Renamed(f.w, s.p, s.new)
          /\ g.D = f.D
BY DEF Needs, Sure, Post, CanDoIn, DoneIn, OnWritable

LEMMA WritableOpenIs ==
  ASSUME NEW s, s.do = "_writable.openSync", NEW f, NEW g, NEW r
  PROVE  /\ Needs(s, f, r) <=> (Shows(f, r)[s.p] # Dir \/ f.w[s.p] # Absent)
         /\ Sure(s, f, r) <=> (CanCreate(f.w, s.p) \/ IsFileAt(f.w, s.p))
         /\ Post(s, f, g, r) <=>
          /\ g \in Layers(r)
          /\ (CanCreate(f.w, s.p) \/ IsFileAt(f.w, s.p))
          /\ g.w = With(f.w, s.p, File(s.bytes))
          /\ g.D = f.D
BY DEF Needs, Sure, Post, CanDoIn, DoneIn, OnWritable

LEMMA WritableWriteIs ==
  ASSUME NEW s, s.do = "_writable.write", NEW f, NEW g, NEW r
  PROVE  /\ Needs(s, f, r)
         /\ Sure(s, f, r) <=> IsFileAt(f.w, s.p)
         /\ Post(s, f, g, r) <=>
          /\ g \in Layers(r)
          /\ IsFileAt(f.w, s.p)
          /\ g.w = With(f.w, s.p, File(s.bytes))
          /\ g.D = f.D
BY DEF Needs, Sure, Post, CanDoIn, DoneIn, OnWritable

LEMMA CreateParentIs ==
  ASSUME NEW s, s.do = "createParentDirectory", NEW f, NEW g, NEW r
  PROVE  /\ Needs(s, f, r) <=> Shows(f, r)[s.p] \in {Absent, Dir}
         /\ Sure(s, f, r) <=> (Shows(f, r)[s.p] = Dir /\ CanCreate(f.w, s.p))
         /\ Post(s, f, g, r) <=>
          /\ g \in Layers(r)
          /\ Shows(f, r)[s.p] = Dir
          /\ CanCreate(f.w, s.p)
          /\ g.w = With(f.w, s.p, Dir)
          /\ g.D = f.D
BY DEF Needs, Sure, Post, CanDoIn, OnWritable

LEMMA DeletePathIs ==
  ASSUME NEW s, s.do = "deletePath", NEW f, NEW g, NEW r
  PROVE  /\ Needs(s, f, r) <=> Emptied(r, f.D, s.p)
         /\ Sure(s, f, r)
         /\ Post(s, f, g, r) <=> g \in Layers(r) /\ g.w = f.w /\ g.D = f.D \union {s.p}
BY DEF Needs, Sure, Post, CanDoIn, OnWritable

LEMMA DeleteIfExistsIs ==
  ASSUME NEW s, s.do = "deleteIfExists", NEW f, NEW g, NEW r
  PROVE  /\ Needs(s, f, r) <=> Emptied(r, f.D, s.p)
         /\ Sure(s, f, r)
         /\ Post(s, f, g, r) <=>
              /\ g \in Layers(r) /\ g.w = f.w
              /\ Shows(f, r)[s.p] = Absent => g.D = f.D
              /\ Shows(f, r)[s.p] # Absent => g.D = f.D \union {s.p}
BY DEF Needs, Sure, Post, CanDoIn, OnWritable

LEMMA DeleteIfEmptySure ==
  ASSUME NEW s, s.do = "deleteIfEmpty", NEW f, NEW r
  PROVE  Sure(s, f, r) <=> Shows(f, r)[s.p] = Absent
BY DEF Sure, CanDoIn, OnWritable

LEMMA DeleteIfEmptyIs ==
  ASSUME NEW s, s.do = "deleteIfEmpty", NEW f, NEW g, NEW r
  PROVE  /\ Needs(s, f, r)
         /\ Sure(s, f, r) <=> Shows(f, r)[s.p] = Absent
         /\ Post(s, f, g, r) <=>
          /\ g \in Layers(r)
          /\ g.w = f.w
          /\ (\/ Shows(f, r)[s.p] = Absent /\ g.D = f.D
             \/ /\ Shows(f, r)[s.p] = Dir /\ Children(Shows(f, r), s.p) = {}
                /\ g.D = f.D \union {s.p})
BY DEF Needs, Sure, Post, CanDoIn, OnWritable

LEMMA UnlinkIs ==
  ASSUME NEW s, s.do = "unlinkSync", NEW f, NEW g, NEW r
  PROVE  /\ Needs(s, f, r) <=> (f.w[s.p] = Absent /\ Shows(f, r)[s.p] = Dir => Emptied(r, f.D, s.p))
         /\ Sure(s, f, r) <=> (Shows(f, r)[s.p] # Absent /\ f.w[s.p] # Dir)
         /\ Post(s, f, g, r) <=> g \in Layers(r) /\ Unlinked(s.p, f, g, r)
BY DEF Needs, Sure, Post, CanDoIn, OnWritable

LEMMA UnlinkOldIs ==
  ASSUME NEW s, s.do = "unlinkOld", NEW f, NEW g, NEW r
  PROVE  /\ Needs(s, f, r) <=> (f.w[s.p] = Absent /\ Shows(f, r)[s.p] = Dir => Emptied(r, f.D, s.p))
         /\ Sure(s, f, r) <=> (s.p = s.new \/ Shows(f, r)[s.p] = Absent \/ f.w[s.p] # Dir)
         /\ Post(s, f, g, r) <=> g \in Layers(r) /\ UnlinkedOld(s.p, s.new, f, g, r)
BY DEF Needs, Sure, Post, CanDoIn, OnWritable

LEMMA WriteFileIs ==
  ASSUME NEW s, s.do = "writeFileSync", NEW f, NEW g, NEW r
  PROVE  /\ Needs(s, f, r) <=> (ClearAbove(s.p, f, r) /\ (Shows(f, r)[s.p] # Dir \/ f.w[s.p] # Absent))
         /\ Sure(s, f, r) <=> (CanCreate(f.w, s.p) \/ IsFileAt(f.w, s.p))
         /\ Post(s, f, g, r) <=> g \in Layers(r) /\ Wrote(s.p, s.bytes, f, g, r)
BY DEF Needs, Sure, Post, CanDoIn, OnWritable

LEMMA MkdirIs ==
  ASSUME NEW s, s.do = "mkdirSync", NEW f, NEW g, NEW r
  PROVE  /\ Needs(s, f, r) <=> ClearAbove(s.p, f, r)
         /\ ~ Sure(s, f, r)
         /\ Post(s, f, g, r) <=> g \in Layers(r) /\ Shows(g, r) = Promised(s, Shows(f, r))
BY DEF Needs, Sure, Post, CanDoIn, OnWritable

LEMMA TruncateIs ==
  ASSUME NEW s, s.do = "truncateSync", NEW f, NEW g, NEW r
  PROVE  /\ Needs(s, f, r)
         /\ ~ Sure(s, f, r)
         /\ Post(s, f, g, r) <=> g \in Layers(r) /\ Shows(g, r) = Promised(s, Shows(f, r))
BY DEF Needs, Sure, Post, CanDoIn, OnWritable

LEMMA RmdirIs ==
  ASSUME NEW s, s.do = "rmdirSync", NEW f, NEW g, NEW r
  PROVE  /\ Needs(s, f, r)
         /\ ~ Sure(s, f, r)
         /\ Post(s, f, g, r) <=> g \in Layers(r) /\ Shows(g, r) = Promised(s, Shows(f, r))
BY DEF Needs, Sure, Post, CanDoIn, OnWritable

LEMMA ChmodIs ==
  ASSUME NEW s, s.do = "chmodSync", NEW f, NEW g, NEW r
  PROVE  /\ Needs(s, f, r)
         /\ ~ Sure(s, f, r)
         /\ Post(s, f, g, r) <=> g \in Layers(r) /\ Shows(g, r) = Promised(s, Shows(f, r))
BY DEF Needs, Sure, Post, CanDoIn, OnWritable

(* The two layers and what they show *)
LEMMA LayersAre ==
  ASSUME NEW r, NEW f \in Layers(r)
  PROVE  /\ Layered(f.w, r, f.D) /\ DirsCover(f.w, r, f.D) /\ f.D \subseteq Paths
         /\ f.w \in Trees /\ IsTree(f.w) /\ r \in Trees /\ IsTree(r)
         /\ Shows(f, r) \in Trees /\ IsTree(Shows(f, r))
         /\ \A p \in Paths :
              Shows(f, r)[p] = IF f.w[p] # Absent THEN f.w[p] ELSE IF p \in f.D THEN Absent ELSE r[p]
<1>1. Layered(f.w, r, f.D) /\ DirsCover(f.w, r, f.D) /\ f.D \subseteq Paths
  BY DEF Layers
<1>2. Shows(f, r) \in Trees /\ IsTree(Shows(f, r))
  BY <1>1, LayersShowTree DEF Shows
<1>3. \A p \in Paths :
        Shows(f, r)[p] = IF f.w[p] # Absent THEN f.w[p] ELSE IF p \in f.D THEN Absent ELSE r[p]
  BY DEF Shows, Over
<1> QED
  BY <1>1, <1>2, <1>3 DEF Layered

LEMMA WithIs ==
  ASSUME NEW t \in Trees, NEW p \in Paths, NEW node
  PROVE  With(t, p, node)[p] = node /\ \A q \in Paths : q # p => With(t, p, node)[q] = t[q]
BY DEF With, Trees

LEMMA TreesEqual ==
  ASSUME NEW t \in Trees, NEW u, u \in Trees, \A p \in Paths : t[p] = u[p]
  PROVE  t = u
BY DEF Trees

LEMMA KindsOfNode ==
  ASSUME NEW t \in Trees, NEW p \in Paths
  PROVE  /\ t[p] = Absent \/ t[p] = Dir \/ IsFileAt(t, p)
         /\ IsFileAt(t, p) => t[p] # Absent /\ t[p] # Dir /\ t[p] = File(t[p].bytes) /\ t[p].bytes \in Contents
BY DEF Trees, Nodes, IsFileAt, Absent, Dir, File

LEMMA CreateParentDirectoryFulfils ==
  ASSUME NEW r, NEW f \in Layers(r), NEW s \in Steps, s.do = "createParentDirectory",
         Needs(s, f, r), Shows(f, r)[s.p] # Absent
  PROVE  Fulfils(s, <<Step("_writable.mkdirSync", s.p)>>, f, r)
<1> PICK m : m = Step("_writable.mkdirSync", s.p)
  OBVIOUS
<1>1. m.do = "_writable.mkdirSync" /\ m.p = s.p
  BY StepIs
<1>2. Shows(f, r)[s.p] = Dir
  BY CreateParentIs
<1>3. Needs(m, f, r) /\ (Sure(m, f, r) <=> Sure(s, f, r)) /\ f \in Showing(Shows(f, r), r)
  BY <1>1, <1>2, WritableMkdirIs, CreateParentIs DEF Showing
<1>4. \A g \in Layers(r) : Post(m, f, g, r) => Post(s, f, g, r)
  BY <1>1, <1>2, WritableMkdirIs, CreateParentIs
<1> QED
  BY <1>3, <1>4, LeadsOne DEF Fulfils

LEMMA DeleteIfExistsFulfils ==
  ASSUME NEW r, NEW f \in Layers(r), NEW s \in Steps, s.do = "deleteIfExists", Needs(s, f, r)
  PROVE  /\ Shows(f, r)[s.p] = Absent => Fulfils(s, <<>>, f, r)
         /\ Shows(f, r)[s.p] # Absent => Fulfils(s, <<Step("deletePath", s.p)>>, f, r)
<1> PICK m : m = Step("deletePath", s.p)
  OBVIOUS
<1>1. m.do = "deletePath" /\ m.p = s.p
  BY StepIs
<1>2. CASE Shows(f, r)[s.p] = Absent
  <2>1. Post(s, f, f, r)
    BY <1>2, DeleteIfExistsIs
  <2> QED
    BY <1>2, <2>1, NothingToDo
<1>3. CASE Shows(f, r)[s.p] # Absent
  <2>1. Needs(m, f, r) /\ Sure(m, f, r)
    BY <1>1, DeletePathIs, DeleteIfExistsIs
  <2>2. \A g \in Layers(r) : Post(m, f, g, r) => Post(s, f, g, r)
    BY <1>1, <1>3, DeletePathIs, DeleteIfExistsIs
  <2> QED
    BY <1>3, <2>1, <2>2, LeadsOne DEF Fulfils
<1> QED
  BY <1>2, <1>3

LEMMA DeleteIfEmptyFulfils ==
  ASSUME NEW r, NEW f \in Layers(r), NEW s \in Steps, s.do = "deleteIfEmpty"
  PROVE  /\ Shows(f, r)[s.p] = Absent => Fulfils(s, <<>>, f, r)
         /\ Shows(f, r)[s.p] = Dir /\ Children(Shows(f, r), s.p) = {} /\ Emptied(r, f.D, s.p) =>
              Fulfils(s, <<Step("deletePath", s.p)>>, f, r)
<1> PICK m : m = Step("deletePath", s.p)
  OBVIOUS
<1>1. m.do = "deletePath" /\ m.p = s.p
  BY StepIs
<1>2. ASSUME Shows(f, r)[s.p] = Absent PROVE Fulfils(s, <<>>, f, r)
  <2>1. Post(s, f, f, r)
    BY <1>2, DeleteIfEmptyIs
  <2> QED
    BY <2>1, NothingToDo
<1>3. ASSUME Shows(f, r)[s.p] = Dir, Children(Shows(f, r), s.p) = {}, Emptied(r, f.D, s.p)
      PROVE  Fulfils(s, <<m>>, f, r)
  <2>1. Needs(m, f, r) /\ Sure(m, f, r)
    BY <1>1, <1>3, DeletePathIs
  <2>2. \A g \in Layers(r) : Post(m, f, g, r) => Post(s, f, g, r)
    BY <1>1, <1>3, DeletePathIs, DeleteIfEmptyIs
  <2> QED
    BY <2>1, <2>2, LeadsOne DEF Fulfils
<1> QED
  BY <1>2, <1>3

(* Steps that a method makes *)
LEMMA StepOf ==
  ASSUME NEW do \in Checking \union OnWritable \union {"renameChildren", "deletePath"}, NEW p \in Paths
  PROVE  /\ Step(do, p) \in Steps /\ Step(do, p).do = do /\ Step(do, p).p = p
         /\ \A new \in Paths : LET s == StepTo(do, p, new)
                               IN  s \in Steps /\ s.do = do /\ s.p = p /\ s.new = new
         /\ \A c \in Contents : LET s == StepWith(do, p, c)
                                IN  s \in Steps /\ s.do = do /\ s.p = p /\ s.bytes = c
<1>1. Empty \in Contents
  BY TreesAssumption
<1>2. /\ Step(do, p) = [do |-> do, p |-> p, new |-> p, bytes |-> Empty]
      /\ \A new : StepTo(do, p, new) = [do |-> do, p |-> p, new |-> new, bytes |-> Empty]
      /\ \A c : StepWith(do, p, c) = [do |-> do, p |-> p, new |-> p, bytes |-> c]
  BY StepIs
<1>3. \A new \in Paths, c \in Contents : [do |-> do, p |-> p, new |-> new, bytes |-> c] \in Steps
  BY DEF Steps
<1> QED
  BY <1>1, <1>2, <1>3

LEMMA WriteStep ==
  ASSUME NEW p \in Paths, NEW c \in Contents, NEW a, a = StepWith("writeFileSync", p, c)
  PROVE  a \in Steps /\ a.do = "writeFileSync" /\ a.p = p /\ a.bytes = c
<1>1. "writeFileSync" \in Checking
  BY DEF Checking, Methods
<1> QED
  BY <1>1, StepOf

LEMMA SameShown ==
  ASSUME NEW r, NEW f \in Layers(r), NEW g \in Layers(r), g.w = f.w, g.D = f.D
  PROVE  Shows(g, r) = Shows(f, r)
BY DEF Shows

(* unlinkSync *)
LEMMA UnlinkSyncFulfils ==
  ASSUME NEW r, NEW f \in Layers(r), NEW s \in Steps, s.do = "unlinkSync", Needs(s, f, r),
         Shows(f, r)[s.p] # Absent
  PROVE  /\ f.w[s.p] # Absent =>
              Fulfils(s, <<Step("_writable.unlinkSync", s.p)>> \o <<Step("deleteIfExists", s.p)>>, f, r)
         /\ f.w[s.p] = Absent => Fulfils(s, <<>> \o <<Step("deleteIfExists", s.p)>>, f, r)
<1> PICK p \in Paths : p = s.p
  BY DEF Steps
<1> PICK a, b : a = Step("_writable.unlinkSync", p) /\ b = Step("deleteIfExists", p)
  OBVIOUS
<1>1. /\ a \in Steps /\ a.do = "_writable.unlinkSync" /\ a.p = p
      /\ b \in Steps /\ b.do = "deleteIfExists" /\ b.p = p
  BY StepOf DEF OnWritable, Checking
<1> PICK v : v = Shows(f, r)
  OBVIOUS
<1>2. /\ Layered(f.w, r, f.D) /\ f.w \in Trees /\ f.D \subseteq Paths
      /\ v[p] = IF f.w[p] # Absent THEN f.w[p] ELSE IF p \in f.D THEN Absent ELSE r[p]
  BY LayersAre
<1>3. IsFileAt(f.w, p) \/ IsFileAt(v, p) => Emptied(r, f.D, p)
  BY <1>2, FileEmptied DEF Shows
<1> PICK Z : Z = {g \in Layers(r) : Post(s, f, g, r)}
  OBVIOUS
<1> PICK T : T = IF Sure(s, f, r) THEN {} ELSE Showing(v, r)
  OBVIOUS
<1>4. ~ Sure(s, f, r) => f \in T
  BY DEF Showing
<1>5. ASSUME f.w[p] # Absent PROVE Leads({f}, <<a>> \o <<b>>, Z, T, r)
  <2> PICK M : M = {g \in Layers(r) : IsFileAt(f.w, p) /\ g.w = With(f.w, p, Absent) /\ g.D = f.D}
    OBVIOUS
  <2>1. Leads({f}, <<a>>, M, T, r)
    <3>1. Needs(a, f, r) /\ (Sure(a, f, r) <=> IsFileAt(f.w, p))
      BY <1>1, WritableUnlinkIs DEF CanUnlink
    <3>2. Sure(a, f, r) \/ f \in T
      BY <1>2, <1>4, <1>5, <3>1, UnlinkIs, KindsOfNode
    <3>3. \A g \in Layers(r) : Post(a, f, g, r) => g \in M
      BY <1>1, WritableUnlinkIs DEF CanUnlink
    <3> QED
      BY <3>1, <3>2, <3>3, LeadsOne
  <2>2. Leads(M, <<b>>, Z, T, r)
    <3>1. ASSUME NEW g \in M PROVE Needs(b, g, r) /\ Sure(b, g, r)
      BY <1>1, <1>3, DeleteIfExistsIs
    <3>2. ASSUME NEW g \in M, NEW h \in Layers(r), Post(b, g, h, r) PROVE Post(s, f, h, r)
      <4>1. Shows(g, r)[p] = IF p \in f.D THEN Absent ELSE r[p]
        BY <1>2, WithIs, LayersAre
      <4>6. /\ h.w = g.w
            /\ Shows(g, r)[p] = Absent => h.D = g.D
            /\ Shows(g, r)[p] # Absent => h.D = g.D \union {p}
        BY <1>1, <3>2, DeleteIfExistsIs
      <4>2. /\ h.w = With(f.w, p, Absent)
            /\ Shows(g, r)[p] = Absent => h.D = f.D
            /\ Shows(g, r)[p] # Absent => h.D = f.D \union {p}
        BY <4>6
      <4>3. f.w[p] # Dir
        BY <1>2, KindsOfNode
      <4>4. h.D = IF r[p] # Absent THEN f.D \union {p} ELSE f.D
        BY <4>1, <4>2
      <4>5. Unlinked(p, f, h, r)
        BY <4>2, <4>3, <4>4 DEF Unlinked
      <4> QED
        BY <4>5, UnlinkIs
    <3> QED
      BY <3>1, <3>2, LeadsOne
  <2>3. <<a>> \in Seq(Steps) /\ <<b>> \in Seq(Steps)
    BY ONLY <1>1, Tuples
  <2> QED
    BY <2>1, <2>2, <2>3, LeadsJoin
<1>6. ASSUME f.w[p] = Absent PROVE Leads({f}, <<b>>, Z, T, r)
  <2>1. Needs(b, f, r) /\ Sure(b, f, r)
    <3>1. v[p] = Dir => Emptied(r, f.D, p)
      BY <1>6, UnlinkIs
    <3>2. v[p] # Dir => IsFileAt(v, p)
      BY KindsOfNode, LayersAre
    <3> QED
      BY <1>1, <1>3, <3>1, <3>2, DeleteIfExistsIs
  <2>2. ASSUME NEW h \in Layers(r), Post(b, f, h, r) PROVE Post(s, f, h, r)
    <3>1. h.w = f.w /\ h.D = f.D \union {p}
      BY <1>1, <2>2, DeleteIfExistsIs
    <3>2. With(f.w, p, Absent) = f.w
      BY <1>2, <1>6 DEF With, Trees
    <3>3. Unlinked(p, f, h, r)
      BY <1>2, <1>6, <3>1, <3>2, NodesDiffer DEF Unlinked
    <3> QED
      BY <3>3, UnlinkIs
  <2> QED
    BY <2>1, <2>2, LeadsOne
<1>7. <<>> \o <<b>> = <<b>>
  OBVIOUS
<1> QED
  BY <1>5, <1>6, <1>7 DEF Fulfils

LEMMA UnlinkOldFulfils ==
  ASSUME NEW r, NEW f \in Layers(r), NEW s \in Steps, s.do = "unlinkOld", Needs(s, f, r)
  PROVE  /\ s.p # s.new /\ Shows(f, r)[s.p] # Absent => Fulfils(s, <<Step("unlinkSync", s.p)>>, f, r)
         /\ ~ (s.p # s.new /\ Shows(f, r)[s.p] # Absent) => Fulfils(s, <<>>, f, r)
<1> PICK p \in Paths : p = s.p
  BY DEF Steps
<1> PICK a : a = Step("unlinkSync", p)
  OBVIOUS
<1>1. a.do = "unlinkSync" /\ a.p = p
  BY StepOf DEF Checking, Methods
<1>2. ASSUME p # s.new, Shows(f, r)[p] # Absent PROVE Fulfils(s, <<a>>, f, r)
  <2>1. Needs(a, f, r) /\ (Sure(a, f, r) <=> Sure(s, f, r))
    BY <1>1, <1>2, UnlinkIs, UnlinkOldIs
  <2>2. \A g \in Layers(r) : Post(a, f, g, r) => Post(s, f, g, r)
    BY <1>1, <1>2, UnlinkIs, UnlinkOldIs DEF UnlinkedOld
  <2>3. f \in Showing(Shows(f, r), r)
    BY DEF Showing
  <2> QED
    BY <2>1, <2>2, <2>3, LeadsOne DEF Fulfils
<1>3. ASSUME ~ (p # s.new /\ Shows(f, r)[p] # Absent) PROVE Fulfils(s, <<>>, f, r)
  <2>1. Post(s, f, f, r)
    BY <1>3, UnlinkOldIs DEF UnlinkedOld
  <2> QED
    BY <2>1, NothingToDo
<1> QED
  BY <1>2, <1>3

(* rmdirSync: the empty directory that is shown after the writable one is *)
(* removed is the one that was shown.                                      *)
LEMMA Rmdired ==
  ASSUME NEW r, NEW f \in Layers(r), NEW s \in Steps, s.do = "rmdirSync", NEW h \in Layers(r),
         CanRmdir(Shows(f, r), s.p), Shows(h, r)[s.p] = Absent,
         \A q \in Paths : q # s.p => Shows(h, r)[q] = Shows(f, r)[q]
  PROVE  Post(s, f, h, r)
<1> PICK p \in Paths : p = s.p
  BY DEF Steps
<1> PICK v : v = Shows(f, r)
  OBVIOUS
<1>1. v \in Trees /\ Shows(h, r) \in Trees
  BY LayersAre
<1>2. With(v, p, Absent) = Shows(h, r)
  BY <1>1 DEF With, Trees
<1>3. Promised(s, v) = With(v, p, Absent)
  BY DEF Promised
<1> QED
  BY <1>2, <1>3, RmdirIs

LEMMA RmdirSyncFulfils ==
  ASSUME NEW r, NEW f \in Layers(r), NEW s \in Steps, s.do = "rmdirSync"
  PROVE  /\ f.w[s.p] # Absent =>
              Fulfils(s, <<Step("_writable.rmdirSync", s.p)>> \o <<Step("deleteIfEmpty", s.p)>>, f, r)
         /\ f.w[s.p] = Absent /\ Shows(f, r)[s.p] # Absent =>
              Fulfils(s, <<>> \o <<Step("deleteIfEmpty", s.p)>>, f, r)
<1> PICK p \in Paths : p = s.p
  BY DEF Steps
<1> PICK a, b : a = Step("_writable.rmdirSync", p) /\ b = Step("deleteIfEmpty", p)
  OBVIOUS
<1>1. /\ a \in Steps /\ a.do = "_writable.rmdirSync" /\ a.p = p
      /\ b \in Steps /\ b.do = "deleteIfEmpty" /\ b.p = p
  BY StepOf DEF OnWritable, Checking
<1> PICK v : v = Shows(f, r)
  OBVIOUS
<1>2. /\ Layered(f.w, r, f.D) /\ DirsCover(f.w, r, f.D) /\ f.w \in Trees /\ r \in Trees
      /\ IsTree(f.w) /\ IsTree(v) /\ v \in Trees
      /\ \A q \in Paths : v[q] = IF f.w[q] # Absent THEN f.w[q] ELSE IF q \in f.D THEN Absent ELSE r[q]
  BY LayersAre
<1> PICK Z : Z = {g \in Layers(r) : Post(s, f, g, r)}
  OBVIOUS
<1>3. ~ Sure(s, f, r) /\ f \in Showing(v, r)
  BY RmdirIs DEF Showing
<1>4. ASSUME f.w[p] # Absent PROVE Leads({f}, <<a>> \o <<b>>, Z, Showing(v, r), r)
  <2> PICK M : M = {g \in Layers(r) : CanRmdir(f.w, p) /\ g.w = With(f.w, p, Absent) /\ g.D = f.D}
    OBVIOUS
  <2>1. Leads({f}, <<a>>, M, Showing(v, r), r)
    <3>1. Needs(a, f, r)
      BY <1>1, WritableRmdirIs
    <3>2. \A g \in Layers(r) : Post(a, f, g, r) => g \in M
      BY <1>1, WritableRmdirIs
    <3> QED
      BY <1>3, <3>1, <3>2, LeadsOne
  <2>2. ASSUME NEW g \in M
        PROVE  /\ \A q \in Paths : q # p => Shows(g, r)[q] = v[q]
               /\ Shows(g, r)[p] = Absent \/ (Shows(g, r)[p] = Dir /\ Shows(g, r) = v)
               /\ v[p] = Dir /\ p # <<>> /\ g \in Layers(r)
               /\ Shows(g, r) \in Trees /\ IsTree(Shows(g, r))
    <3>1. /\ g \in Layers(r) /\ f.w[p] = Dir /\ p # <<>> /\ g.D = f.D
          /\ g.w[p] = Absent /\ \A q \in Paths : q # p => g.w[q] = f.w[q]
      BY <1>2, WithIs DEF CanRmdir, IsDirAt
    <3>2. \A q \in Paths : Shows(g, r)[q] = IF g.w[q] # Absent THEN g.w[q] ELSE IF q \in g.D THEN Absent ELSE r[q]
      BY <3>1, LayersAre
    <3>3. \A q \in Paths : q # p => Shows(g, r)[q] = v[q]
      BY <1>2, <3>1, <3>2
    <3>4. v[p] = Dir
      BY <1>2, <1>4, <3>1
    <3>5. r[p] = Absent \/ r[p] = Dir \/ p \in f.D
      BY <1>2, <3>1, KindsOfNode DEF DirsCover
    <3>6. Shows(g, r)[p] = Absent \/ Shows(g, r)[p] = Dir
      BY <3>1, <3>2, <3>5
    <3>7. Shows(g, r) \in Trees /\ IsTree(Shows(g, r))
      BY <3>1, LayersAre
    <3>8. Shows(g, r)[p] = Dir => Shows(g, r) = v
      BY <1>2, <3>3, <3>4, <3>7, TreesEqual
    <3> QED
      BY <3>1, <3>3, <3>4, <3>6, <3>7, <3>8
  <2>3. Leads(M, <<b>>, Z, Showing(v, r), r)
    <3>1. ASSUME NEW g \in M PROVE Needs(b, g, r) /\ (Sure(b, g, r) \/ g \in Showing(v, r))
      BY <1>1, <2>2, DeleteIfEmptyIs DEF Showing
    <3>2. ASSUME NEW g \in M, NEW h \in Layers(r), Post(b, g, h, r) PROVE h \in Z
      <4> PICK u : u = Shows(g, r)
        OBVIOUS
      <4>1. /\ g \in Layers(r) /\ u \in Trees /\ IsTree(u) /\ v[p] = Dir /\ p # <<>>
            /\ \A q \in Paths : q # p => u[q] = v[q]
        BY <2>2
      <4>2. /\ h.w = g.w
            /\ \/ u[p] = Absent /\ h.D = g.D
               \/ u[p] = Dir /\ Children(u, p) = {} /\ h.D = g.D \union {p}
        BY <1>1, <3>2, DeleteIfEmptyIs
      <4>3. \A q \in Below(p) : u[q] = Absent
        BY <4>1, <4>2, NothingBelow DEF Vacant
      <4>4. CanRmdir(v, p)
        BY <4>1, <4>3, BelowIs DEF CanRmdir, IsDirAt
      <4>5. g.w[p] = Absent
        BY <1>2, WithIs
      <4>6. \A q \in Paths : /\ u[q] = IF g.w[q] # Absent THEN g.w[q] ELSE IF q \in g.D THEN Absent ELSE r[q]
                             /\ Shows(h, r)[q] = IF h.w[q] # Absent THEN h.w[q] ELSE IF q \in h.D THEN Absent ELSE r[q]
        BY <4>1, LayersAre
      <4>7. Shows(h, r)[p] = Absent
        BY <4>2, <4>5, <4>6
      <4>8. \A q \in Paths : q # p => Shows(h, r)[q] = v[q]
        BY <4>1, <4>2, <4>6
      <4> QED
        BY <4>4, <4>7, <4>8, Rmdired
    <3> QED
      BY <3>1, <3>2, LeadsOne
  <2>4. <<a>> \in Seq(Steps) /\ <<b>> \in Seq(Steps)
    BY ONLY <1>1, Tuples
  <2> QED
    BY <2>1, <2>3, <2>4, LeadsJoin
<1>5. ASSUME f.w[p] = Absent, v[p] # Absent PROVE Leads({f}, <<b>>, Z, Showing(v, r), r)
  <2>1. Needs(b, f, r)
    BY <1>1, DeleteIfEmptyIs
  <2>2. ASSUME NEW h \in Layers(r), Post(b, f, h, r) PROVE h \in Z
    <3>6. /\ h.w = f.w
          /\ \/ v[b.p] = Absent /\ h.D = f.D
             \/ v[b.p] = Dir /\ Children(v, b.p) = {} /\ h.D = f.D \union {b.p}
      BY <1>1, <2>2, DeleteIfEmptyIs
    <3>1. h.w = f.w /\ v[p] = Dir /\ Children(v, p) = {} /\ h.D = f.D \union {p}
      BY <1>1, <1>5, <3>6
    <3>2. p # <<>>
      BY <1>2, <1>5, NodesDiffer DEF IsTree
    <3>3. CanRmdir(v, p)
      BY <1>2, <3>1, <3>2, NothingBelow DEF CanRmdir, IsDirAt, Vacant
    <3>4. \A q \in Paths : Shows(h, r)[q] = IF h.w[q] # Absent THEN h.w[q] ELSE IF q \in h.D THEN Absent ELSE r[q]
      BY LayersAre
    <3>5. Shows(h, r)[p] = Absent /\ \A q \in Paths : q # p => Shows(h, r)[q] = v[q]
      BY <1>2, <1>5, <3>1, <3>4
    <3> QED
      BY <3>3, <3>5, Rmdired
  <2> QED
    BY <1>3, <2>1, <2>2, LeadsOne
<1>6. <<>> \o <<b>> = <<b>>
  OBVIOUS
<1> QED
  BY <1>3, <1>4, <1>5, <1>6 DEF Fulfils

(* The directories above p are made: w has more of them, and the same is shown. *)
ParentsMade(p, f, r) ==
  {g \in Layers(r) :
     /\ g.D = f.D /\ Shows(g, r) = Shows(f, r)
     /\ \A q \in Paths :
          \/ g.w[q] = f.w[q]
          \/ f.w[q] = Absent /\ Shows(f, r)[q] = Dir /\ g.w[q] = Dir /\ IsPrefix(q, p) /\ q # p}
Parents(t, p, f) ==
  \A j \in 1 .. Len(t) :
    /\ t[j].do = "createParentDirectory" /\ t[j].p \in Paths
    /\ IsPrefix(t[j].p, p) /\ t[j].p # p /\ f.w[t[j].p] = Absent

LEMMA ParentsLead ==
  ASSUME NEW r, NEW f \in Layers(r), NEW p \in Paths, ClearAbove(p, f, r), NEW t \in Seq(Steps),
         Parents(t, p, f), NEW T, t # <<>> => Showing(Shows(f, r), r) \subseteq T
  PROVE  Leads({f}, t, ParentsMade(p, f, r), T, r)
<1> PICK v, M : v = Shows(f, r) /\ M = ParentsMade(p, f, r)
  OBVIOUS
<1> PICK n \in Nat : n = Len(t)
  BY LenProperties
<1>1. M \subseteq Layers(r) /\ f \in M
  BY DEF ParentsMade
<1>2. ASSUME NEW k \in 1 .. n, NEW g \in M
      PROVE  /\ Needs(t[k], g, r) /\ (Sure(t[k], g, r) \/ g \in T)
             /\ \A h \in Layers(r) : Post(t[k], g, h, r) => h \in M
  <2> PICK e : e = t[k]
    OBVIOUS
  <2>1. /\ e.do = "createParentDirectory" /\ e.p \in Paths
        /\ IsPrefix(e.p, p) /\ e.p # p /\ f.w[e.p] = Absent
    BY DEF Parents
  <2> PICK q \in Paths : q = e.p
    BY <2>1
  <2>2. /\ g \in Layers(r) /\ g.D = f.D /\ Shows(g, r) = v
        /\ \A x \in Paths : \/ g.w[x] = f.w[x]
                            \/ f.w[x] = Absent /\ v[x] = Dir /\ g.w[x] = Dir /\ IsPrefix(x, p) /\ x # p
    BY DEF ParentsMade
  <2>3. v[q] \in {Absent, Dir}
    BY <2>1 DEF ClearAbove
  <2>4. t # <<>>
    <3>1. Len(t) # 0
      OBVIOUS
    <3> QED
      BY <3>1, EmptySeq
  <2>5. g \in T
    BY <2>2, <2>4 DEF Showing
  <2>6. Needs(e, g, r)
    BY <2>1, <2>2, <2>3, CreateParentIs
  <2>7. ASSUME NEW h \in Layers(r), Post(e, g, h, r) PROVE h \in M
    <3>1. v[q] = Dir /\ h.w = With(g.w, q, Dir) /\ h.D = f.D
      <4>1. Shows(g, r)[e.p] = Dir /\ h.w = With(g.w, e.p, Dir) /\ h.D = g.D
        BY <2>1, <2>7, CreateParentIs
      <4> QED
        BY <2>2, <4>1
    <3>2. g.w \in Trees /\ Shows(h, r) \in Trees /\ v \in Trees
      BY <2>2, LayersAre
    <3>3. h.w[q] = Dir /\ \A x \in Paths : x # q => h.w[x] = g.w[x]
      BY <3>1, <3>2, WithIs
    <3>4. \A x \in Paths : /\ v[x] = IF g.w[x] # Absent THEN g.w[x] ELSE IF x \in g.D THEN Absent ELSE r[x]
                           /\ Shows(h, r)[x] = IF h.w[x] # Absent THEN h.w[x] ELSE IF x \in h.D THEN Absent ELSE r[x]
      BY <2>2, LayersAre
    <3>5. \A x \in Paths : Shows(h, r)[x] = v[x]
      BY <2>2, <3>1, <3>3, <3>4, NodesDiffer
    <3>6. Shows(h, r) = v
      BY <3>2, <3>5, TreesEqual
    <3>7. \A x \in Paths : \/ h.w[x] = f.w[x]
                           \/ f.w[x] = Absent /\ v[x] = Dir /\ h.w[x] = Dir /\ IsPrefix(x, p) /\ x # p
      BY <2>1, <2>2, <3>1, <3>3
    <3> QED
      BY <3>1, <3>6, <3>7 DEF ParentsMade
  <2> QED
    BY <2>5, <2>6, <2>7
<1> PICK R : R = [k \in 1 .. n + 1 |-> M]
  OBVIOUS
<1>3. R \in [1 .. n + 1 -> SUBSET Layers(r)] /\ \A k \in 1 .. n + 1 : R[k] = M
  BY <1>1
<1>4. 1 \in 1 .. n + 1 /\ n + 1 \in 1 .. n + 1 /\ \A k \in 1 .. n : k \in 1 .. n + 1 /\ k + 1 \in 1 .. n + 1
  OBVIOUS
<1>5. {f} \subseteq R[1] /\ R[n + 1] \subseteq M
  BY <1>1, <1>3, <1>4
<1>6. \A k \in 1 .. n : \A g \in R[k] :
        /\ Needs(t[k], g, r) /\ (Sure(t[k], g, r) \/ g \in T)
        /\ \A h \in Layers(r) : Post(t[k], g, h, r) => h \in R[k + 1]
  BY <1>2, <1>3, <1>4
<1> QED
  BY <1>3, <1>5, <1>6 DEF Leads

(* What writeFileSync comes to is shown. *)
LEMMA WroteShows ==
  ASSUME NEW r, NEW f \in Layers(r), NEW g \in Layers(r), NEW p \in Paths, NEW c, Wrote(p, c, f, g, r)
  PROVE  Shows(g, r) = With(Shows(f, r), p, File(c))
<1> PICK v : v = Shows(f, r)
  OBVIOUS
<1>1. \A x \in Paths : /\ v[x] = IF f.w[x] # Absent THEN f.w[x] ELSE IF x \in f.D THEN Absent ELSE r[x]
                       /\ Shows(g, r)[x] = IF g.w[x] # Absent THEN g.w[x] ELSE IF x \in g.D THEN Absent ELSE r[x]
  BY LayersAre
<1>2. v \in Trees /\ Shows(g, r) \in Trees
  BY LayersAre
<1>3. g.D = f.D /\ g.w[p] = File(c)
  BY DEF Wrote
<1>4. \A q \in Paths : q # p => g.w[q] = f.w[q] \/ (f.w[q] = Absent /\ v[q] = Dir /\ g.w[q] = Dir)
  BY DEF Wrote
<1>5. Shows(g, r)[p] = File(c)
  BY <1>1, <1>3, NodesDiffer
<1>6. \A q \in Paths : q # p => Shows(g, r)[q] = v[q]
  BY <1>1, <1>3, <1>4, NodesDiffer
<1> QED
  BY <1>2, <1>5, <1>6 DEF With, Trees

LEMMA WriteFileFulfils ==
  ASSUME NEW r, NEW f \in Layers(r), NEW s \in Steps, s.do = "writeFileSync", Needs(s, f, r),
         NEW t \in Seq(Steps), Parents(t, s.p, f)
  PROVE  Fulfils(s, (t \o <<Step("_writable.openSync", s.p)>>) \o
                    <<StepWith("_writable.write", s.p, s.bytes)>>, f, r)
<1> PICK p \in Paths, c \in Contents : p = s.p /\ c = s.bytes
  BY DEF Steps
<1> PICK a, b : a = Step("_writable.openSync", p) /\ b = StepWith("_writable.write", p, c)
  OBVIOUS
<1>1. /\ a \in Steps /\ a.do = "_writable.openSync" /\ a.p = p
      /\ b \in Steps /\ b.do = "_writable.write" /\ b.p = p /\ b.bytes = c
  <2>1. "_writable.openSync" \in OnWritable /\ "_writable.write" \in OnWritable
    BY DEF OnWritable
  <2>2. a \in Steps /\ a.do = "_writable.openSync" /\ a.p = p
    BY <2>1, StepOf
  <2>3. b \in Steps /\ b.do = "_writable.write" /\ b.p = p /\ b.bytes = c
    BY <2>1, StepOf
  <2> QED
    BY <2>2, <2>3
<1> PICK v : v = Shows(f, r)
  OBVIOUS
<1>2. /\ ClearAbove(p, f, r) /\ (v[p] # Dir \/ f.w[p] # Absent)
      /\ Sure(s, f, r) <=> (CanCreate(f.w, p) \/ IsFileAt(f.w, p))
  BY WriteFileIs
<1>3. /\ f.w \in Trees /\ IsTree(f.w) /\ v \in Trees
      /\ \A x \in Paths : v[x] = IF f.w[x] # Absent THEN f.w[x] ELSE IF x \in f.D THEN Absent ELSE r[x]
  BY LayersAre
<1> PICK Z : Z = {g \in Layers(r) : Post(s, f, g, r)}
  OBVIOUS
<1> PICK T : T = IF Sure(s, f, r) THEN {} ELSE Showing(v, r)
  OBVIOUS
<1> PICK M : M = ParentsMade(p, f, r)
  OBVIOUS
<1> PICK N : N = {g \in Layers(r) :
                    /\ CanCreate(v, p) \/ IsFileAt(v, p)
                    /\ g.D = f.D /\ IsFileAt(g.w, p)
                    /\ \A q \in Paths : q # p =>
                         \/ g.w[q] = f.w[q]
                         \/ f.w[q] = Absent /\ v[q] = Dir /\ g.w[q] = Dir /\ IsPrefix(q, p)}
  OBVIOUS
<1>4. p # <<>> => Parent(p) \in Paths /\ IsPrefix(Parent(p), p) /\ Parent(p) # p
  BY ParentIs
<1>5. Leads({f}, t, M, T, r)
  <2>1. ASSUME t # <<>> PROVE ~ Sure(s, f, r)
    <3> PICK n \in Nat : n = Len(t)
      BY LenProperties
    <3>1. 1 \in 1 .. n
      BY <2>1, EmptySeq
    <3> PICK q : q = t[1].p
      OBVIOUS
    <3>2. q \in Paths /\ IsPrefix(q, p) /\ q # p /\ f.w[q] = Absent
      BY <3>1 DEF Parents
    <3>3. f.w[p] = Absent
      BY <1>3, <3>2, AboveIsThere
    <3>4. p # <<>> => f.w[Parent(p)] = Absent
      BY <1>3, <1>4, <3>2, AboveIsThere, AboveParent
    <3> QED
      BY <1>2, <3>3, <3>4, NodesDiffer DEF CanCreate, IsFileAt, IsDirAt
  <2> QED
    BY <1>2, <2>1, ParentsLead
<1>6. ASSUME NEW g \in M
      PROVE  /\ g \in Layers(r) /\ g.D = f.D /\ Shows(g, r) = v /\ g.w[p] = f.w[p] /\ g.w \in Trees
             /\ \A q \in Paths : \/ g.w[q] = f.w[q]
                                 \/ f.w[q] = Absent /\ v[q] = Dir /\ g.w[q] = Dir /\ IsPrefix(q, p)
  <2>1. g \in Layers(r) /\ g.D = f.D /\ Shows(g, r) = v
    BY DEF ParentsMade
  <2>2. g.w[p] = f.w[p]
    BY DEF ParentsMade
  <2>3. \A q \in Paths : \/ g.w[q] = f.w[q]
                         \/ f.w[q] = Absent /\ v[q] = Dir /\ g.w[q] = Dir /\ IsPrefix(q, p)
    BY DEF ParentsMade
  <2> QED
    BY <2>1, <2>2, <2>3, LayersAre
<1>7. Leads(M, <<a>>, N, T, r)
  <2>1. ASSUME NEW g \in M PROVE Needs(a, g, r) /\ (Sure(a, g, r) \/ g \in T)
    <3>1. Needs(a, g, r)
      <4>1. Shows(g, r)[p] # Dir \/ g.w[p] # Absent
        BY <1>2, <1>6
      <4> QED
        BY <1>1, <4>1, WritableOpenIs
    <3>2. CASE Sure(s, f, r)
      <4>1. CanCreate(f.w, p) => CanCreate(g.w, p)
        BY <1>4, <1>6 DEF CanCreate, IsDirAt
      <4>2. IsFileAt(f.w, p) => IsFileAt(g.w, p)
        BY <1>6 DEF IsFileAt
      <4> QED
        BY <1>1, <1>2, <3>1, <3>2, <4>1, <4>2, WritableOpenIs
    <3>3. CASE ~ Sure(s, f, r)
      BY <1>6, <3>1, <3>3 DEF Showing
    <3> QED
      BY <3>2, <3>3
  <2>2. ASSUME NEW g \in M, NEW h \in Layers(r), Post(a, g, h, r) PROVE h \in N
    <3>1. (CanCreate(g.w, p) \/ IsFileAt(g.w, p)) /\ h.w = With(g.w, p, File(a.bytes)) /\ h.D = g.D
      <4>1. (CanCreate(g.w, a.p) \/ IsFileAt(g.w, a.p)) /\ h.w = With(g.w, a.p, File(a.bytes)) /\ h.D = g.D
        BY <1>1, <2>2, WritableOpenIs
      <4> QED
        BY <1>1, <4>1
    <3>2. h.w[p] = File(a.bytes) /\ \A q \in Paths : q # p => h.w[q] = g.w[q]
      BY <1>6, <3>1, WithIs
    <3>3. IsFileAt(h.w, p)
      BY <3>2, NodesDiffer DEF IsFileAt
    <3>4. CanCreate(v, p) \/ IsFileAt(v, p)
      <4>1. CASE IsFileAt(g.w, p)
        BY <1>3, <1>6, <4>1, NodesDiffer DEF IsFileAt
      <4>2. CASE CanCreate(g.w, p)
        <5>1. p # <<>> /\ g.w[Parent(p)] = Dir /\ f.w[p] = Absent
          BY <1>6, <4>2 DEF CanCreate, IsDirAt
        <5>2. v[Parent(p)] = Dir
          BY <1>3, <1>4, <1>6, <5>1, NodesDiffer
        <5>3. v[p] = Absent \/ IsFileAt(v, p)
          BY <1>2, <1>3, <5>1, KindsOfNode
        <5> QED
          BY <5>1, <5>2, <5>3 DEF CanCreate, IsDirAt
      <4> QED
        BY <3>1, <4>1, <4>2
    <3> QED
      BY <1>6, <3>1, <3>2, <3>3, <3>4
  <2>3. M \subseteq Layers(r)
    BY <1>6
  <2> QED
    BY <2>1, <2>2, <2>3, LeadsOne
<1>8. Leads(N, <<b>>, Z, T, r)
  <2>1. ASSUME NEW g \in N PROVE Needs(b, g, r) /\ Sure(b, g, r)
    <3>1. IsFileAt(g.w, p)
      OBVIOUS
    <3> QED
      BY <1>1, <3>1, WritableWriteIs
  <2>5. N \subseteq Layers(r)
    OBVIOUS
  <2>2. ASSUME NEW g \in N, NEW h \in Layers(r), Post(b, g, h, r) PROVE h \in Z
    <3>1. h.w = With(g.w, p, File(c)) /\ h.D = g.D
      <4>1. h.w = With(g.w, b.p, File(b.bytes)) /\ h.D = g.D
        BY <1>1, <2>2, WritableWriteIs
      <4> QED
        BY <1>1, <4>1
    <3>2. g \in Layers(r) /\ g.w \in Trees
      BY LayersAre
    <3>3. h.w[p] = File(c) /\ \A q \in Paths : q # p => h.w[q] = g.w[q]
      BY <3>1, <3>2, WithIs
    <3>4. Wrote(p, c, f, h, r)
      BY <3>1, <3>3 DEF Wrote
    <3> QED
      BY <3>4, WriteFileIs
  <2>3. \A g \in N : Needs(b, g, r) /\ (Sure(b, g, r) \/ g \in T)
    BY <2>1
  <2>4. \A g \in N : \A h \in Layers(r) : Post(b, g, h, r) => h \in Z
    BY <2>2
  <2> QED
    BY ONLY <2>3, <2>4, <2>5, LeadsOne
<1>9. <<a>> \in Seq(Steps) /\ <<b>> \in Seq(Steps)
  BY ONLY <1>1, Tuples
<1>10. t \o <<a>> \in Seq(Steps)
  BY ONLY <1>9, t \in Seq(Steps), ConcatProperties
<1>11. Leads({f}, t \o <<a>>, N, T, r)
  BY <1>5, <1>7, <1>9, LeadsJoin
<1>12. Leads({f}, (t \o <<a>>) \o <<b>>, Z, T, r)
  <2> PICK u \in Seq(Steps) : u = t \o <<a>>
    BY <1>10
  <2> PICK x \in Seq(Steps) : x = <<b>>
    BY <1>9
  <2>1. Leads({f}, u, N, T, r) /\ Leads(N, x, Z, T, r)
    BY <1>8, <1>11
  <2>2. Leads({f}, u \o x, Z, T, r)
    BY ONLY <2>1, u \in Seq(Steps), x \in Seq(Steps), LeadsJoin
  <2> QED
    BY <2>2
<1> QED
  BY <1>12 DEF Fulfils

LEMMA MkdirSyncFulfils ==
  ASSUME NEW r, NEW f \in Layers(r), NEW s \in Steps, s.do = "mkdirSync", Needs(s, f, r),
         Shows(f, r)[s.p] = Absent, NEW t \in Seq(Steps), Parents(t, s.p, f)
  PROVE  Fulfils(s, t \o <<Step("_writable.mkdirSync", s.p)>>, f, r)
<1> PICK p \in Paths : p = s.p
  BY DEF Steps
<1> PICK a : a = Step("_writable.mkdirSync", p)
  OBVIOUS
<1>1. a \in Steps /\ a.do = "_writable.mkdirSync" /\ a.p = p
  <2>1. "_writable.mkdirSync" \in OnWritable
    BY DEF OnWritable
  <2> QED
    BY <2>1, StepOf
<1> PICK v : v = Shows(f, r)
  OBVIOUS
<1>2. ClearAbove(p, f, r) /\ ~ Sure(s, f, r) /\ v[p] = Absent
  BY MkdirIs
<1> PICK Z, M : Z = {g \in Layers(r) : Post(s, f, g, r)} /\ M = ParentsMade(p, f, r)
  OBVIOUS
<1>3. Leads({f}, t, M, Showing(v, r), r)
  BY <1>2, ParentsLead
<1>4. Leads(M, <<a>>, Z, Showing(v, r), r)
  <2>1. ASSUME NEW g \in M
        PROVE  g \in Layers(r) /\ g.D = f.D /\ Shows(g, r) = v /\ g.w \in Trees /\ g \in Showing(v, r)
    <3>1. g \in Layers(r) /\ g.D = f.D /\ Shows(g, r) = v
      BY DEF ParentsMade
    <3> QED
      BY <3>1, LayersAre DEF Showing
  <2>2. ASSUME NEW g \in M PROVE Needs(a, g, r)
    <3>1. Shows(g, r)[p] = Absent
      BY <1>2, <2>1
    <3> QED
      BY <1>1, <3>1, WritableMkdirIs
  <2>3. ASSUME NEW g \in M, NEW h \in Layers(r), Post(a, g, h, r) PROVE h \in Z
    <3>1. CanCreate(g.w, a.p) /\ h.w = With(g.w, a.p, Dir) /\ h.D = g.D
      BY <1>1, <2>3, WritableMkdirIs
    <3>2. CanCreate(g.w, p) /\ h.w = With(g.w, p, Dir) /\ h.D = g.D
      BY <1>1, <3>1
    <3>3. h.w[p] = Dir /\ \A q \in Paths : q # p => h.w[q] = g.w[q]
      BY <2>1, <3>2, WithIs
    <3>4. \A x \in Paths : /\ v[x] = IF g.w[x] # Absent THEN g.w[x] ELSE IF x \in g.D THEN Absent ELSE r[x]
                           /\ Shows(h, r)[x] = IF h.w[x] # Absent THEN h.w[x] ELSE IF x \in h.D THEN Absent ELSE r[x]
      BY <2>1, LayersAre
    <3>5. v \in Trees /\ Shows(h, r) \in Trees
      BY LayersAre
    <3>6. Shows(h, r)[p] = Dir /\ \A q \in Paths : q # p => Shows(h, r)[q] = v[q]
      BY <3>2, <3>3, <3>4, NodesDiffer
    <3>7. Shows(h, r) = With(v, p, Dir)
      BY <3>5, <3>6 DEF With, Trees
    <3>8. CanCreate(v, p)
      <4>1. p # <<>> /\ g.w[Parent(p)] = Dir
        BY <3>2 DEF CanCreate, IsDirAt
      <4>2. Parent(p) \in Paths
        BY <4>1, ParentIs
      <4>3. v[Parent(p)] = Dir
        BY <3>4, <4>1, <4>2, NodesDiffer
      <4> QED
        BY <1>2, <4>1, <4>3 DEF CanCreate, IsDirAt
    <3>9. Promised(s, v) = With(v, p, Dir)
      BY <3>8 DEF Promised
    <3> QED
      BY <3>7, <3>9, MkdirIs
  <2>4. M \subseteq Layers(r)
    BY <2>1
  <2>5. \A g \in M : Needs(a, g, r) /\ (Sure(a, g, r) \/ g \in Showing(v, r))
    BY <2>1, <2>2
  <2> QED
    BY <2>3, <2>4, <2>5, LeadsOne
<1>5. <<a>> \in Seq(Steps)
  BY ONLY <1>1, Tuples
<1>6. Leads({f}, t \o <<a>>, Z, Showing(v, r), r)
  BY <1>3, <1>4, <1>5, LeadsJoin
<1> QED
  BY <1>2, <1>6 DEF Fulfils

(* A file that is written, by a step that is not to do anything else *)
LEMMA CopyFulfils ==
  ASSUME NEW r, NEW f \in Layers(r), NEW s \in Steps, NEW c \in Contents,
         s.do \in {"truncateSync", "chmodSync"}, IsFileAt(Shows(f, r), s.p),
         NEW steps, Fulfils(StepWith("writeFileSync", s.p, c), steps, f, r),
         Promised(s, Shows(f, r)) = With(Shows(f, r), s.p, File(c))
  PROVE  Fulfils(s, steps, f, r)
<1> PICK p \in Paths : p = s.p
  BY DEF Steps
<1> PICK v, a : v = Shows(f, r) /\ a = StepWith("writeFileSync", p, c)
  OBVIOUS
<1>1. a.do = "writeFileSync" /\ a.p = p /\ a.bytes = c
  BY WriteStep
<1>2. ~ Sure(s, f, r)
  BY TruncateIs, ChmodIs
<1>3. ASSUME NEW g \in Layers(r), Post(a, f, g, r) PROVE Post(s, f, g, r)
  <2>1. Wrote(a.p, a.bytes, f, g, r)
    BY <1>1, <1>3, WriteFileIs
  <2>2. Wrote(p, c, f, g, r)
    BY <1>1, <2>1
  <2>3. Shows(g, r) = Promised(s, v)
    BY <2>2, WroteShows
  <2> QED
    BY <2>3, TruncateIs, ChmodIs
<1> PICK Z, Y : Z = {g \in Layers(r) : Post(s, f, g, r)} /\ Y = {g \in Layers(r) : Post(a, f, g, r)}
  OBVIOUS
<1> PICK T : T = IF Sure(a, f, r) THEN {} ELSE Showing(v, r)
  OBVIOUS
<1>4. Leads({f}, steps, Y, T, r)
  BY DEF Fulfils
<1>5. Y \subseteq Z /\ T \subseteq Showing(v, r)
  BY <1>3
<1>6. Leads({f}, steps, Z, Showing(v, r), r)
  BY <1>4, <1>5, LeadsMore
<1> QED
  BY <1>2, <1>6 DEF Fulfils

(* Above a file that is shown there are directories. *)
LEMMA ClearAboveFile ==
  ASSUME NEW r, NEW f \in Layers(r), NEW p \in Paths, IsFileAt(Shows(f, r), p), NEW c \in Contents
  PROVE  /\ ClearAbove(p, f, r)
         /\ Needs(StepWith("writeFileSync", p, c), f, r)
<1>1. Shows(f, r)[p] # Absent /\ Shows(f, r)[p] # Dir
  BY NodesDiffer DEF IsFileAt
<1>2. ClearAbove(p, f, r)
  BY <1>1, LayersAre, AboveIsDir DEF ClearAbove
<1> PICK a : a = StepWith("writeFileSync", p, c)
  OBVIOUS
<1>3. a.do = "writeFileSync" /\ a.p = p
  BY WriteStep
<1> QED
  BY <1>1, <1>2, <1>3, WriteFileIs

LEMMA TruncateSyncFulfils ==
  ASSUME NEW r, NEW f \in Layers(r), NEW s \in Steps, s.do = "truncateSync"
  PROVE  /\ f.w[s.p] # Absent => Fulfils(s, <<StepWith("_writable.write", s.p, s.bytes)>>, f, r)
         /\ \A t \in Seq(Steps) : Parents(t, s.p, f) /\ IsFileAt(Shows(f, r), s.p) =>
              Fulfils(s, (t \o <<Step("_writable.openSync", s.p)>>) \o
                         <<StepWith("_writable.write", s.p, s.bytes)>>, f, r)
<1> PICK p \in Paths, c \in Contents : p = s.p /\ c = s.bytes
  BY DEF Steps
<1> PICK v : v = Shows(f, r)
  OBVIOUS
<1>1. /\ f.w \in Trees /\ v \in Trees
      /\ \A x \in Paths : v[x] = IF f.w[x] # Absent THEN f.w[x] ELSE IF x \in f.D THEN Absent ELSE r[x]
  BY LayersAre
<1>2. ~ Sure(s, f, r) /\ f \in Showing(v, r)
  BY TruncateIs DEF Showing
<1>3. IsFileAt(v, p) => Promised(s, v) = With(v, p, File(c))
  BY DEF Promised
<1>4. ASSUME f.w[p] # Absent PROVE Fulfils(s, <<StepWith("_writable.write", p, c)>>, f, r)
  <2> PICK a : a = StepWith("_writable.write", p, c)
    OBVIOUS
  <2>1. a.do = "_writable.write" /\ a.p = p /\ a.bytes = c
    <3>1. "_writable.write" \in OnWritable
      BY DEF OnWritable
    <3> QED
      BY <3>1, StepOf
  <2>2. ASSUME NEW g \in Layers(r), Post(a, f, g, r) PROVE Post(s, f, g, r)
    <3>1. IsFileAt(f.w, a.p) /\ g.w = With(f.w, a.p, File(a.bytes)) /\ g.D = f.D
      BY <2>1, <2>2, WritableWriteIs
    <3>2. IsFileAt(f.w, p) /\ g.w = With(f.w, p, File(c)) /\ g.D = f.D
      BY <2>1, <3>1
    <3>3. IsFileAt(v, p)
      BY <1>1, <1>4, <3>2 DEF IsFileAt
    <3>4. Wrote(p, c, f, g, r)
      BY <1>1, <3>2, <3>3, WithIs DEF Wrote
    <3>5. Shows(g, r) = Promised(s, v)
      BY <1>3, <3>3, <3>4, WroteShows
    <3> QED
      BY <3>5, TruncateIs
  <2>3. Needs(a, f, r)
    BY <2>1, WritableWriteIs
  <2> QED
    BY <1>2, <2>2, <2>3, LeadsOne DEF Fulfils
<1>5. ASSUME NEW t \in Seq(Steps), Parents(t, p, f), IsFileAt(v, p)
      PROVE  Fulfils(s, (t \o <<Step("_writable.openSync", p)>>) \o <<StepWith("_writable.write", p, c)>>, f, r)
  <2> PICK a : a = StepWith("writeFileSync", p, c)
    OBVIOUS
  <2>1. a \in Steps /\ a.do = "writeFileSync" /\ a.p = p /\ a.bytes = c
    BY WriteStep
  <2> PICK steps : steps = (t \o <<Step("_writable.openSync", p)>>) \o <<StepWith("_writable.write", p, c)>>
    OBVIOUS
  <2>2. Needs(a, f, r)
    BY <1>5, ClearAboveFile
  <2>3. Fulfils(a, (t \o <<Step("_writable.openSync", a.p)>>) \o <<StepWith("_writable.write", a.p, a.bytes)>>, f, r)
    BY <1>5, <2>1, <2>2, WriteFileFulfils
  <2>4. Fulfils(a, steps, f, r)
    BY <2>1, <2>3
  <2>5. Promised(s, v) = With(v, p, File(c))
    BY <1>3, <1>5
  <2> QED
    BY <1>5, <2>4, <2>5, CopyFulfils
<1> QED
  BY <1>4, <1>5

LEMMA ChmodSyncFulfils ==
  ASSUME NEW r, NEW f \in Layers(r), NEW s \in Steps, s.do = "chmodSync"
  PROVE  /\ Fulfils(s, <<>>, f, r)
         /\ f.w[s.p] = Absent /\ Shows(f, r)[s.p] = Dir =>
              Fulfils(s, <<Step("_writable.mkdirSync", s.p)>>, f, r)
         /\ f.w[s.p] = Absent /\ IsFileAt(Shows(f, r), s.p) =>
              Fulfils(s, <<StepWith("writeFileSync", s.p, r[s.p].bytes)>>, f, r)
<1> PICK p \in Paths : p = s.p
  BY DEF Steps
<1> PICK v : v = Shows(f, r)
  OBVIOUS
<1>1. /\ f.w \in Trees /\ v \in Trees /\ r \in Trees
      /\ \A x \in Paths : v[x] = IF f.w[x] # Absent THEN f.w[x] ELSE IF x \in f.D THEN Absent ELSE r[x]
  BY LayersAre
<1>2. Promised(s, v) = v
  BY DEF Promised
<1>3. ~ Sure(s, f, r) /\ f \in Showing(v, r)
  BY ChmodIs DEF Showing
<1>4. Fulfils(s, <<>>, f, r)
  <2>1. Post(s, f, f, r)
    BY <1>2, ChmodIs
  <2> QED
    BY <2>1, NothingToDo
<1>5. ASSUME f.w[p] = Absent, v[p] = Dir PROVE Fulfils(s, <<Step("_writable.mkdirSync", p)>>, f, r)
  <2> PICK a : a = Step("_writable.mkdirSync", p)
    OBVIOUS
  <2>1. a.do = "_writable.mkdirSync" /\ a.p = p
    <3>1. "_writable.mkdirSync" \in OnWritable
      BY DEF OnWritable
    <3> QED
      BY <3>1, StepOf
  <2>2. ASSUME NEW h \in Layers(r), Post(a, f, h, r) PROVE Post(s, f, h, r)
    <3>1. h.w = With(f.w, a.p, Dir) /\ h.D = f.D
      BY <2>1, <2>2, WritableMkdirIs
    <3>2. h.w[p] = Dir /\ \A q \in Paths : q # p => h.w[q] = f.w[q]
      BY <1>1, <2>1, <3>1, WithIs
    <3>3. /\ Shows(h, r) \in Trees
          /\ \A x \in Paths : Shows(h, r)[x] = IF h.w[x] # Absent THEN h.w[x] ELSE IF x \in h.D THEN Absent ELSE r[x]
      BY LayersAre
    <3>4. \A x \in Paths : Shows(h, r)[x] = v[x]
      BY <1>1, <1>5, <3>1, <3>2, <3>3, NodesDiffer
    <3>5. Shows(h, r) = v
      BY <1>1, <3>3, <3>4, TreesEqual
    <3> QED
      BY <1>2, <3>5, ChmodIs
  <2>3. Needs(a, f, r)
    BY <1>5, <2>1, WritableMkdirIs
  <2> QED
    BY <1>3, <2>2, <2>3, LeadsOne DEF Fulfils
<1>6. ASSUME f.w[p] = Absent, IsFileAt(v, p)
      PROVE  Fulfils(s, <<StepWith("writeFileSync", p, r[p].bytes)>>, f, r)
  <2>1. v[p] = r[p] /\ IsFileAt(r, p)
    <3>1. v[p] # Absent
      BY <1>6, NodesDiffer DEF IsFileAt
    <3>2. v[p] = r[p]
      BY <1>1, <1>6, <3>1
    <3> QED
      BY <1>6, <3>2 DEF IsFileAt
  <2> PICK c \in Contents : c = r[p].bytes
    BY <1>1, <2>1, KindsOfNode
  <2>2. v[p] = File(c)
    BY <1>1, <2>1, KindsOfNode
  <2> PICK a : a = StepWith("writeFileSync", p, c)
    OBVIOUS
  <2>3. Needs(a, f, r)
    BY <1>6, ClearAboveFile
  <2>4. Fulfils(a, <<a>>, f, r)
    <3>1. Sure(a, f, r) \/ f \in Showing(v, r)
      BY <1>3
    <3> QED
      BY <2>3, <3>1, LeadsOne DEF Fulfils
  <2>5. Promised(s, v) = With(v, p, File(c))
    BY <1>1, <1>2, <2>2 DEF With, Trees
  <2> QED
    BY <1>6, <2>4, <2>5, CopyFulfils
<1> QED
  BY <1>4, <1>5, <1>6

LEMMA RenameIs ==
  ASSUME NEW s, s.do = "renameSync", NEW f, NEW g, NEW r
  PROVE  /\ Needs(s, f, r) <=>
              /\ ClearAbove(s.new, f, r)
              /\ Shows(f, r)[s.p] = Dir =>
                   /\ Unmixed(s.p, f, r) /\ ~ IsFileAt(r, s.p)
                   /\ \A z \in ReadBelow(s.p, r) : HasTwin(s.p, s.new, z)
         /\ Sure(s, f, r) <=>
              /\ CanCreate(f.w, s.new) /\ Shows(f, r)[s.new] = Absent
              /\ IsFileAt(Shows(f, r), s.p) \/ (Shows(f, r)[s.p] = Dir /\ f.w[s.p] = Absent)
         /\ Post(s, f, g, r) <=>
              /\ g \in Layers(r) /\ Shows(f, r)[s.p] # Absent
              /\ IsFileAt(Shows(f, r), s.p) =>
                   \E h \in Layers(r) : /\ Wrote(s.new, Shows(f, r)[s.p].bytes, f, h, r)
                                        /\ UnlinkedOld(s.p, s.new, h, g, r)
              /\ Shows(f, r)[s.p] = Dir /\ s.p = s.new => g = f
              /\ Shows(f, r)[s.p] = Dir /\ s.p # s.new => RenamedDir(s.p, s.new, f, g, r)
BY DEF Needs, Sure, Post, CanDoIn, OnWritable

LEMMA RenameSure ==
  ASSUME NEW s, s.do = "renameSync", NEW f, NEW r
  PROVE  Sure(s, f, r) <=>
           /\ CanCreate(f.w, s.new) /\ Shows(f, r)[s.new] = Absent
           /\ IsFileAt(Shows(f, r), s.p) \/ (Shows(f, r)[s.p] = Dir /\ f.w[s.p] = Absent)
BY DEF Sure, CanDoIn, OnWritable

LEMMA RenameChildrenNeeds ==
  ASSUME NEW s, s.do = "renameChildren", NEW f, NEW r, Needs(s, f, r)
  PROVE  /\ Apart(s.p, s.new) /\ f.w[s.new] = Dir /\ ~ IsFileAt(r, s.p)
         /\ \A q \in Paths : IsPrefix(s.p, q) => f.w[q] = Absent
         /\ \A z \in ReadBelow(s.p, r) :
              z \notin f.D /\ \E q \in Paths : Twins(s.p, s.new, z, q) /\ Shows(f, r)[q] = Absent
BY DEF Needs

LEMMA RenameChildrenIs ==
  ASSUME NEW s, s.do = "renameChildren", NEW f, NEW g, NEW r
  PROVE  /\ Needs(s, f, r) <=>
              /\ Apart(s.p, s.new) /\ f.w[s.new] = Dir /\ ~ IsFileAt(r, s.p)
              /\ \A q \in Paths : IsPrefix(s.p, q) => f.w[q] = Absent
              /\ \A z \in ReadBelow(s.p, r) :
                   z \notin f.D /\ \E q \in Paths : Twins(s.p, s.new, z, q) /\ Shows(f, r)[q] = Absent
         /\ Sure(s, f, r)
         /\ Post(s, f, g, r) <=>
              /\ g \in Layers(r) /\ Copied(s.p, s.new, ReadBelow(s.p, r), f.w, g.w, r)
              /\ g.D = f.D \union ReadBelow(s.p, r)
BY DEF Needs, Sure, Post, CanDoIn, OnWritable

LEMMA RenameFileFulfils ==
  ASSUME NEW r, NEW f \in Layers(r), NEW s \in Steps, s.do = "renameSync", Needs(s, f, r),
         IsFileAt(Shows(f, r), s.p), Shows(f, r)[s.new] # Dir
  PROVE  Fulfils(s, <<StepWith("writeFileSync", s.new, Shows(f, r)[s.p].bytes),
                      StepTo("unlinkOld", s.p, s.new)>>, f, r)
<1> PICK p \in Paths, new \in Paths : p = s.p /\ new = s.new
  BY DEF Steps
<1> PICK v : v = Shows(f, r)
  OBVIOUS
<1>1. /\ f.w \in Trees /\ v \in Trees
      /\ \A x \in Paths : v[x] = IF f.w[x] # Absent THEN f.w[x] ELSE IF x \in f.D THEN Absent ELSE r[x]
  BY LayersAre
<1> PICK c \in Contents : c = v[p].bytes
  BY <1>1, KindsOfNode
<1> PICK a, b : a = StepWith("writeFileSync", new, c) /\ b = StepTo("unlinkOld", p, new)
  OBVIOUS
<1>2. a \in Steps /\ a.do = "writeFileSync" /\ a.p = new /\ a.bytes = c
  BY WriteStep
<1>3. b \in Steps /\ b.do = "unlinkOld" /\ b.p = p /\ b.new = new
  BY StepOf DEF Checking
<1>4. v[p] # Dir /\ v[p] # Absent
  BY NodesDiffer DEF IsFileAt
<1> PICK T : T = IF Sure(s, f, r) THEN {} ELSE Showing(v, r)
  OBVIOUS
<1> PICK Z : Z = {g \in Layers(r) : Post(s, f, g, r)}
  OBVIOUS
<1> PICK M : M = {h \in Layers(r) : Wrote(new, c, f, h, r)}
  OBVIOUS
<1>5. Leads({f}, <<a>>, M, T, r)
  <2>1. ClearAbove(new, f, r) /\ v[new] # Dir
    BY RenameIs
  <2>2. Needs(a, f, r)
    BY <1>2, <2>1, WriteFileIs
  <2>3. Sure(s, f, r) => Sure(a, f, r)
    BY <1>2, RenameIs, WriteFileIs
  <2>4. ~ Sure(s, f, r) => f \in T
    BY DEF Showing
  <2>5. ASSUME NEW h \in Layers(r), Post(a, f, h, r) PROVE h \in M
    <3>1. Wrote(a.p, a.bytes, f, h, r)
      BY <1>2, <2>5, WriteFileIs
    <3> QED
      BY <1>2, <3>1
  <2> QED
    BY <2>2, <2>3, <2>4, <2>5, LeadsOne
<1>6. Leads(M, <<b>>, Z, T, r)
  <2>1. ASSUME NEW h \in M PROVE Needs(b, h, r) /\ Sure(b, h, r)
    <3>1. h \in Layers(r) /\ Wrote(new, c, f, h, r)
      OBVIOUS
    <3>2. Shows(h, r) = With(v, new, File(c))
      BY <3>1, WroteShows
    <3>3. Shows(h, r)[p] # Dir
      BY <1>1, <1>4, <3>2, WithIs, NodesDiffer
    <3>4. p # new => h.w[p] # Dir
      <4>1. p # new => h.w[p] = f.w[p] \/ v[p] = Dir
        BY <3>1 DEF Wrote
      <4> QED
        BY <1>1, <1>4, <4>1, NodesDiffer
    <3> QED
      BY <1>3, <3>3, <3>4, UnlinkOldIs
  <2>2. ASSUME NEW h \in M, NEW g \in Layers(r), Post(b, h, g, r) PROVE g \in Z
    <3>1. h \in Layers(r) /\ Wrote(new, c, f, h, r)
      OBVIOUS
    <3>2. UnlinkedOld(b.p, b.new, h, g, r)
      BY <1>3, <2>2, UnlinkOldIs
    <3>3. \E x \in Layers(r) : Wrote(s.new, v[s.p].bytes, f, x, r) /\ UnlinkedOld(s.p, s.new, x, g, r)
      BY <1>3, <3>1, <3>2
    <3> QED
      BY <1>4, <3>3, RenameIs
  <2>3. M \subseteq Layers(r)
    OBVIOUS
  <2>4. \A h \in M : Needs(b, h, r) /\ (Sure(b, h, r) \/ h \in T)
    BY <2>1
  <2> QED
    BY <2>2, <2>3, <2>4, LeadsOne
<1>7. <<a>> \in Seq(Steps) /\ <<b>> \in Seq(Steps)
  BY ONLY <1>2, <1>3, Tuples
<1>8. Leads({f}, <<a>> \o <<b>>, Z, T, r)
  BY <1>5, <1>6, <1>7, LeadsJoin
<1>9. Leads({f}, <<a, b>>, Z, T, r)
  BY <1>8, TwoAre
<1> QED
  BY <1>9 DEF Fulfils

----------------------------------------------------------------------------
(* Twins: what follows p in z follows new in q. *)

Matched(p, new, z, q, d) ==
  /\ Len(p) <= Len(z) /\ Len(q) = Len(z) + d
  /\ \A j \in 1 .. Len(p) : p[j] = z[j]
  /\ \A j \in 1 .. Len(new) : new[j] = q[j]
  /\ \A j \in Len(p) + 1 .. Len(z) : z[j] = q[j + d]

LEMMA TwinsAre ==
  ASSUME NEW p \in Paths, NEW new \in Paths, NEW z \in Paths, NEW q \in Paths,
         NEW d \in Int, d = Len(new) - Len(p)
  PROVE  Twins(p, new, z, q) <=> Matched(p, new, z, q, d)
<1> PICK lp \in Nat, ln \in Nat, lz \in Nat, lq \in Nat :
      lp = Len(p) /\ ln = Len(new) /\ lz = Len(z) /\ lq = Len(q)
  BY PathsAre
<1>1. /\ IsPrefix(p, z) <=> lp <= lz /\ \A j \in 1 .. lp : p[j] = z[j]
      /\ IsPrefix(new, q) <=> ln <= lq /\ \A j \in 1 .. ln : new[j] = q[j]
  BY PathsAre, PrefixIs
<1>2. d = ln - lp
  OBVIOUS
<1>3. ASSUME lp <= lz, lz - lp = lq - ln
      PROVE  (\A i \in 1 .. lz - lp : z[lp + i] = q[ln + i]) <=> \A j \in lp + 1 .. lz : z[j] = q[j + d]
  <2>1. ASSUME \A i \in 1 .. lz - lp : z[lp + i] = q[ln + i], NEW j \in lp + 1 .. lz
        PROVE  z[j] = q[j + d]
    <3>0. j - lp \in 1 .. lz - lp
      OBVIOUS
    <3> PICK i \in 1 .. lz - lp : i = j - lp
      BY <3>0
    <3>1. lp + i = j /\ ln + i = j + d
      BY <1>2
    <3>2. z[lp + i] = q[ln + i]
      BY <2>1
    <3> QED
      BY <3>1, <3>2
  <2>2. ASSUME \A j \in lp + 1 .. lz : z[j] = q[j + d], NEW i \in 1 .. lz - lp
        PROVE  z[lp + i] = q[ln + i]
    <3>1. lp + i \in lp + 1 .. lz /\ lp + i + d = ln + i
      BY <1>2, <1>3
    <3>2. z[lp + i] = q[lp + i + d]
      BY <2>2, <3>1
    <3> QED
      BY <3>1, <3>2
  <2> QED
    BY <2>1, <2>2
<1>4. lq = lz + d <=> lz - lp = lq - ln
  BY <1>2
<1>5. lp <= lz /\ lz - lp = lq - ln => ln <= lq
  OBVIOUS
<1>6. Twins(p, new, z, q) <=>
        /\ IsPrefix(p, z) /\ IsPrefix(new, q) /\ lz - lp = lq - ln
        /\ \A i \in 1 .. lz - lp : z[lp + i] = q[ln + i]
  BY DEF Twins
<1>7. Matched(p, new, z, q, d) <=>
        /\ lp <= lz /\ lq = lz + d
        /\ \A j \in 1 .. lp : p[j] = z[j]
        /\ \A j \in 1 .. ln : new[j] = q[j]
        /\ \A j \in lp + 1 .. lz : z[j] = q[j + d]
  BY DEF Matched
<1> QED
  BY ONLY <1>1, <1>3, <1>4, <1>5, <1>6, <1>7

LEMMA OffsetIs ==
  ASSUME NEW p \in Paths, NEW new \in Paths
  PROVE  Len(new) - Len(p) \in Int
<1>1. Len(p) \in Nat /\ Len(new) \in Nat
  BY PathsAre
<1> QED
  BY <1>1

LEMMA TwinsTurn ==
  ASSUME NEW p \in Paths, NEW new \in Paths, NEW z \in Paths, NEW q \in Paths, Twins(p, new, z, q)
  PROVE  Twins(new, p, q, z)
<1> PICK lp \in Nat, ln \in Nat, lz \in Nat, lq \in Nat :
      lp = Len(p) /\ ln = Len(new) /\ lz = Len(z) /\ lq = Len(q)
  BY PathsAre
<1>1. lz - lp = lq - ln
  BY DEF Twins
<1> QED
  BY <1>1 DEF Twins

LEMMA TwinsSelf ==
  ASSUME NEW p \in Paths, NEW new \in Paths
  PROVE  Twins(p, new, p, new)
<1>1. Len(p) \in Nat /\ Len(new) \in Nat /\ IsPrefix(p, p) /\ IsPrefix(new, new)
  BY PathsAre, PrefixOrder
<1>2. \A i \in 1 .. Len(p) - Len(p) : FALSE
  BY <1>1
<1> QED
  BY <1>1, <1>2 DEF Twins

LEMMA TwinsOne ==
  ASSUME NEW p \in Paths, NEW new \in Paths, NEW z \in Paths, NEW q \in Paths, Twins(p, new, z, q)
  PROVE  \A x \in Paths : Twins(p, new, z, x) => x = q
<1> PICK d \in Int : d = Len(new) - Len(p)
  BY OffsetIs
<1> SUFFICES ASSUME NEW x \in Paths, Twins(p, new, z, x) PROVE x = q
  OBVIOUS
<1>1. /\ Len(q) = Len(z) + d
      /\ \A j \in 1 .. Len(new) : new[j] = q[j]
      /\ \A j \in Len(p) + 1 .. Len(z) : z[j] = q[j + d]
  <2>1. Matched(p, new, z, q, d)
    BY TwinsAre
  <2> QED
    BY <2>1 DEF Matched
<1>2. /\ Len(x) = Len(z) + d
      /\ \A j \in 1 .. Len(new) : new[j] = x[j]
      /\ \A j \in Len(p) + 1 .. Len(z) : z[j] = x[j + d]
  <2>1. Matched(p, new, z, x, d)
    BY TwinsAre
  <2> QED
    BY <2>1 DEF Matched
<1> PICK lp \in Nat, ln \in Nat, lz \in Nat, lq \in Nat :
      lp = Len(p) /\ ln = Len(new) /\ lz = Len(z) /\ lq = Len(q)
  BY PathsAre
<1>3. lq = lz + d /\ d = ln - lp /\ Len(x) = lq
  BY <1>1, <1>2
<1>4. ASSUME NEW j \in 1 .. lq PROVE x[j] = q[j]
  <2>1. CASE j <= ln
    BY <1>1, <1>2, <2>1
  <2>2. CASE ~ j <= ln
    <3>1. j - d \in lp + 1 .. lz /\ j - d + d = j
      BY <1>3, <2>2
    <3>2. z[j - d] = q[j - d + d] /\ z[j - d] = x[j - d + d]
      BY <1>1, <1>2, <3>1
    <3> QED
      BY <3>1, <3>2
  <2> QED
    BY <2>1, <2>2
<1> QED
  BY <1>3, <1>4, PathsAre, SeqEqual

(* Twins of twins *)
LEMMA TwinsNest ==
  ASSUME NEW p \in Paths, NEW new \in Paths, NEW z \in Paths, NEW q \in Paths, Twins(p, new, z, q),
         NEW z2 \in Paths, NEW q2 \in Paths
  PROVE  Twins(z, q, z2, q2) <=> Twins(p, new, z2, q2) /\ IsPrefix(z, z2)
<1> PICK d \in Int : d = Len(new) - Len(p)
  BY OffsetIs
<1> PICK lp \in Nat, ln \in Nat, lz \in Nat, lq \in Nat, lz2 \in Nat, lq2 \in Nat :
      /\ lp = Len(p) /\ ln = Len(new) /\ lz = Len(z) /\ lq = Len(q)
      /\ lz2 = Len(z2) /\ lq2 = Len(q2)
  BY PathsAre
<1>1. /\ lp <= lz /\ lq = lz + d
      /\ \A j \in 1 .. lp : p[j] = z[j]
      /\ \A j \in 1 .. ln : new[j] = q[j]
      /\ \A j \in lp + 1 .. lz : z[j] = q[j + d]
  <2>1. Matched(p, new, z, q, d)
    BY TwinsAre
  <2> QED
    BY <2>1 DEF Matched
<1>2. d = ln - lp /\ d = lq - lz
  BY <1>1
<1>3. Twins(z, q, z2, q2) <=>
        /\ lz <= lz2 /\ lq2 = lz2 + d
        /\ \A j \in 1 .. lz : z[j] = z2[j]
        /\ \A j \in 1 .. lq : q[j] = q2[j]
        /\ \A j \in lz + 1 .. lz2 : z2[j] = q2[j + d]
  <2>1. d = Len(q) - Len(z)
    BY <1>2
  <2>2. Twins(z, q, z2, q2) <=> Matched(z, q, z2, q2, d)
    BY <2>1, TwinsAre
  <2> QED
    BY <2>2 DEF Matched
<1>4. Twins(p, new, z2, q2) <=>
        /\ lp <= lz2 /\ lq2 = lz2 + d
        /\ \A j \in 1 .. lp : p[j] = z2[j]
        /\ \A j \in 1 .. ln : new[j] = q2[j]
        /\ \A j \in lp + 1 .. lz2 : z2[j] = q2[j + d]
  <2>2. Twins(p, new, z2, q2) <=> Matched(p, new, z2, q2, d)
    BY TwinsAre
  <2> QED
    BY <2>2 DEF Matched
<1>5. IsPrefix(z, z2) <=> lz <= lz2 /\ \A j \in 1 .. lz : z[j] = z2[j]
  BY PathsAre, PrefixIs
<1>6. ASSUME Twins(z, q, z2, q2) PROVE Twins(p, new, z2, q2) /\ IsPrefix(z, z2)
  <2>1. lp <= lz2 /\ lq2 = lz2 + d
    BY <1>1, <1>3, <1>6
  <2>2. ASSUME NEW j \in 1 .. lp PROVE p[j] = z2[j]
    <3>1. j \in 1 .. lz
      BY <1>1
    <3> QED
      BY <1>1, <1>3, <1>6, <3>1
  <2>3. ASSUME NEW j \in 1 .. ln PROVE new[j] = q2[j]
    <3>1. j \in 1 .. lq
      BY <1>1, <1>2
    <3> QED
      BY <1>1, <1>3, <1>6, <3>1
  <2>4. ASSUME NEW j \in lp + 1 .. lz2 PROVE z2[j] = q2[j + d]
    <3>1. CASE j <= lz
      <4>1. j \in 1 .. lz /\ j \in lp + 1 .. lz /\ j + d \in 1 .. lq
        BY <1>1, <1>2, <3>1
      <4>2. z[j] = z2[j] /\ z[j] = q[j + d] /\ q[j + d] = q2[j + d]
        BY <1>1, <1>3, <1>6, <4>1
      <4> QED
        BY <4>2
    <3>2. CASE ~ j <= lz
      BY <1>3, <1>6, <3>2
    <3> QED
      BY <3>1, <3>2
  <2> QED
    BY <1>3, <1>4, <1>5, <1>6, <2>1, <2>2, <2>3, <2>4
<1>7. ASSUME Twins(p, new, z2, q2), IsPrefix(z, z2) PROVE Twins(z, q, z2, q2)
  <2>1. lz <= lz2 /\ lq2 = lz2 + d /\ \A j \in 1 .. lz : z[j] = z2[j]
    BY <1>4, <1>5, <1>7
  <2>2. ASSUME NEW j \in 1 .. lq PROVE q[j] = q2[j]
    <3>1. CASE j <= ln
      BY <1>1, <1>4, <1>7, <3>1
    <3>2. CASE ~ j <= ln
      <4>1. /\ j - d \in lp + 1 .. lz /\ j - d \in lp + 1 .. lz2 /\ j - d \in 1 .. lz
            /\ j - d + d = j
        BY <1>1, <1>2, <2>1, <3>2
      <4>2. z[j - d] = q[j - d + d] /\ z2[j - d] = q2[j - d + d] /\ z[j - d] = z2[j - d]
        BY <1>1, <1>4, <1>7, <2>1, <4>1
      <4> QED
        BY <4>1, <4>2
    <3> QED
      BY <3>1, <3>2
  <2>3. ASSUME NEW j \in lz + 1 .. lz2 PROVE z2[j] = q2[j + d]
    <3>1. j \in lp + 1 .. lz2
      BY <1>1
    <3> QED
      BY <1>4, <1>7, <3>1
  <2> QED
    BY <1>3, <2>1, <2>2, <2>3
<1> QED
  BY <1>6, <1>7

(* The twin is what the code computes. *)
Computed(p, new, z) == new \o SubSeq(z, Len(p) + 1, Len(z))

LEMMA TwinIs ==
  ASSUME NEW p \in Paths, NEW new \in Paths, NEW z \in Paths, IsPrefix(p, z)
  PROVE  \A q \in Paths : Twins(p, new, z, q) <=> q = Computed(p, new, z)
<1> PICK x : x = new \o SubSeq(z, Len(p) + 1, Len(z))
  OBVIOUS
<1>11. x = Computed(p, new, z)
  BY DEF Computed
<1> PICK lp \in Nat, ln \in Nat, lz \in Nat :
      lp = Len(p) /\ ln = Len(new) /\ lz = Len(z)
  BY PathsAre
<1>0. ln - lp \in Int
  OBVIOUS
<1> PICK d \in Int : d = ln - lp
  BY <1>0
<1>1. p \in Seq(Name) /\ new \in Seq(Name) /\ z \in Seq(Name)
  BY PathsAre
<1>2. lp <= lz /\ \A j \in 1 .. lp : p[j] = z[j]
  BY <1>1, PrefixIs
<1>10. lz - lp \in Nat
  BY <1>2
<1> PICK k \in Nat : k = lz - lp
  BY <1>10
<1> PICK y : y = SubSeq(z, lp + 1, lz)
  OBVIOUS
<1>3. y \in Seq(Name) /\ Len(y) = k /\ \A i \in 1 .. k : y[i] = z[lp + i]
  <2>1. \A i \in lp + 1 .. lz : z[i] \in Name
    <3>1. \A i \in lp + 1 .. lz : i \in 1 .. Len(z)
      OBVIOUS
    <3> QED
      BY <1>1, <3>1, ElementOfSeq
  <2>2. /\ SubSeq(z, lp + 1, lz) \in Seq(Name)
        /\ Len(SubSeq(z, lp + 1, lz)) = IF lp + 1 <= lz THEN lz - (lp + 1) + 1 ELSE 0
        /\ \A i \in 1 .. lz - (lp + 1) + 1 : SubSeq(z, lp + 1, lz)[i] = z[lp + 1 + i - 1]
    BY <2>1, SubSeqProperties
  <2>3. k = IF lp + 1 <= lz THEN lz - (lp + 1) + 1 ELSE 0
    BY <1>2
  <2>4. \A i \in 1 .. k : i \in 1 .. lz - (lp + 1) + 1 /\ lp + 1 + i - 1 = lp + i
    OBVIOUS
  <2> QED
    BY <2>2, <2>3, <2>4
<1>4. x = new \o y
  OBVIOUS
<1>5. /\ x \in Seq(Name) /\ Len(x) = ln + k
      /\ \A i \in 1 .. ln + k : x[i] = IF i <= ln THEN new[i] ELSE y[i - ln]
  <2>1. new \in Seq(Name) /\ y \in Seq(Name)
    BY <1>1, <1>3
  <2>2. /\ new \o y \in Seq(Name) /\ Len(new \o y) = Len(new) + Len(y)
        /\ \A i \in 1 .. Len(new) + Len(y) : (new \o y)[i] = IF i <= Len(new) THEN new[i] ELSE y[i - Len(new)]
    BY ONLY <2>1, ConcatProperties
  <2> QED
    BY <1>3, <1>4, <2>2
<1>6. \A j \in 1 .. ln : new[j] = x[j]
  BY <1>5
<1>7. ASSUME NEW j \in lp + 1 .. lz PROVE z[j] = x[j + d]
  <2>0. j - lp \in 1 .. k
    OBVIOUS
  <2> PICK i \in 1 .. k : i = j - lp
    BY <2>0
  <2>1. j + d \in 1 .. ln + k /\ ~ j + d <= ln /\ j + d - ln = i /\ lp + i = j
    OBVIOUS
  <2>5. j + d \in Nat
    BY <2>1
  <2> PICK m \in Nat : m = j + d
    BY <2>5
  <2>6. m \in 1 .. ln + k /\ m - ln = i /\ ~ m <= ln
    BY <2>1
  <2>4. x[m] = y[m - ln]
    BY <1>5, <2>6
  <2>2. x[j + d] = y[i]
    BY <2>4, <2>6
  <2>3. y[i] = z[lp + i]
    BY <1>3
  <2> QED
    BY <2>1, <2>2, <2>3
<1>8. ASSUME x \in Paths PROVE Twins(p, new, z, x)
  <2>1. Len(x) = lz + d
    BY <1>5
  <2>2. Matched(p, new, z, x, d)
    BY <1>2, <1>6, <1>7, <2>1 DEF Matched
  <2> QED
    BY <1>8, <2>2, TwinsAre
<1>9. ASSUME NEW q \in Paths, Twins(p, new, z, q) PROVE q = x
  <2>1. /\ Len(q) = lz + d
        /\ \A j \in 1 .. ln : new[j] = q[j]
        /\ \A j \in lp + 1 .. lz : z[j] = q[j + d]
    <3>1. Matched(p, new, z, q, d)
      BY <1>9, TwinsAre
    <3> QED
      BY <3>1 DEF Matched
  <2> PICK m \in Nat : m = Len(q)
    BY PathsAre
  <2>2. m = ln + k
    BY <2>1
  <2>3. ASSUME NEW j \in 1 .. m PROVE x[j] = q[j]
    <3>1. CASE j <= ln
      BY <1>6, <2>1, <3>1
    <3>2. CASE ~ j <= ln
      <4>1. j - d \in lp + 1 .. lz /\ j - d + d = j
        BY <2>2, <3>2
      <4>2. z[j - d] = q[j - d + d] /\ z[j - d] = x[j - d + d]
        BY <1>7, <2>1, <4>1
      <4> QED
        BY <4>1, <4>2
    <3> QED
      BY <3>1, <3>2
  <2>4. q \in Seq(Name)
    BY PathsAre
  <2> QED
    BY <1>5, <2>2, <2>3, <2>4, SeqEqual
<1> QED
  BY <1>8, <1>9, <1>11

(* What the first step of the rename of a directory comes to *)
Moving(p, new, f, r) ==
  {g \in Layers(r) :
     /\ Apart(p, new) /\ Vacant(Shows(f, r), new) /\ Shows(f, r)[Parent(new)] = Dir
     /\ MovedDir(p, new, f.w, g.w) /\ g.D = f.D}

(* The writable file system has nothing at p, and nothing below new. *)
LEMMA NothingMoves ==
  ASSUME NEW w \in Trees, NEW u, NEW p \in Paths, NEW new \in Paths, Apart(p, new), u[new] = Dir,
         \A q \in Paths : q # new => u[q] = w[q],
         \A q \in Paths : IsPrefix(p, q) => w[q] = Absent,
         \A q \in Below(new) : w[q] = Absent
  PROVE  MovedDir(p, new, w, u)
<1>1. \A q \in Paths : IsPrefix(p, q) => u[q] = Absent
  BY DEF Apart
<1>2. ASSUME NEW q \in Below(new)
      PROVE  u[q] = Absent /\ \A z \in Paths : Twins(p, new, z, q) => w[z] = Absent
  <2>1. q \in Paths /\ q # new
    BY BelowIs
  <2>2. u[q] = Absent
    BY <2>1
  <2>3. \A z \in Paths : Twins(p, new, z, q) => w[z] = Absent
    BY DEF Twins
  <2> QED
    BY <2>2, <2>3
<1>3. \A q \in Paths : ~ IsPrefix(p, q) /\ ~ IsPrefix(new, q) => u[q] = w[q]
  BY PrefixOrder
<1> QED
  BY <1>1, <1>2, <1>3 DEF MovedDir

LEMMA RenamedMoves ==
  ASSUME NEW w \in Trees, IsTree(w), NEW p \in Paths, NEW new \in Paths, Apart(p, new), w[p] = Dir,
         CanRename(w, p, new)
  PROVE  MovedDir(p, new, w, Renamed(w, p, new))
<1> PICK u : u = Renamed(w, p, new)
  OBVIOUS
<1>1. /\ u[new] = Dir
      /\ \A q \in Paths : IsPrefix(p, q) => u[q] = Absent \/ IsPrefix(new, q)
      /\ \A q \in Paths : ~ IsPrefix(p, q) /\ ~ IsPrefix(new, q) => u[q] = w[q]
  BY RenamedIs, RenamedKeepsTree
<1>2. ASSUME NEW q \in Paths, IsPrefix(p, q) PROVE u[q] = Absent
  <2>1. ~ IsPrefix(new, q)
    <3>1. Len(p) \in Nat /\ Len(new) \in Nat
      BY PathsAre
    <3>2. Len(p) <= Len(new) \/ Len(new) <= Len(p)
      BY <3>1
    <3> QED
      BY <1>2, <3>2, PrefixOrder DEF Apart
  <2> QED
    BY <1>1, <1>2, <2>1
<1>3. ASSUME NEW q \in Below(new)
      PROVE  /\ \A z \in Paths : Twins(p, new, z, q) => u[q] = w[z]
             /\ (\A z \in Paths : ~ Twins(p, new, z, q)) => u[q] = Absent
  <2>1. q \in Paths /\ IsPrefix(new, q)
    BY BelowIs
  <2> PICK from : from = Computed(new, p, q)
    OBVIOUS
  <2>2. u[q] = IF from \in Paths THEN w[from] ELSE Absent
    BY <2>1 DEF Renamed, Computed
  <2>3. \A z \in Paths : Twins(new, p, q, z) <=> z = from
    BY <2>1, TwinIs
  <2>4. \A z \in Paths : Twins(p, new, z, q) <=> z = from
    BY <2>1, <2>3, TwinsTurn
  <2> QED
    BY <2>2, <2>4
<1> QED
  BY <1>1, <1>2, <1>3 DEF MovedDir

LEMMA FirstMoves ==
  ASSUME NEW r, NEW f \in Layers(r), NEW s \in Steps, s.do = "renameSync",
         Shows(f, r)[s.p] = Dir, s.p # s.new, Vacant(Shows(f, r), s.new), NEW t,
         \/ f.w[s.p] # Absent /\ t = <<StepTo("_writable.renameSync", s.p, s.new)>>
         \/ /\ f.w[s.p] = Absent /\ f.w[s.new] = Absent
            /\ t = <<Step("_writable.mkdirSync", s.new)>>
         \/ f.w[s.p] = Absent /\ f.w[s.new] # Absent /\ t = <<>>
  PROVE  /\ Leads({f}, t, Moving(s.p, s.new, f, r),
                  IF Sure(s, f, r) THEN {} ELSE Showing(Shows(f, r), r), r)
         /\ t \in Seq(Steps)
<1> PICK p \in Paths, new \in Paths : p = s.p /\ new = s.new
  BY DEF Steps
<1> PICK v : v = Shows(f, r)
  OBVIOUS
<1>1. /\ f.w \in Trees /\ IsTree(f.w) /\ v \in Trees /\ IsTree(v)
      /\ \A x \in Paths : v[x] = IF f.w[x] # Absent THEN f.w[x] ELSE IF x \in f.D THEN Absent ELSE r[x]
  BY LayersAre
<1> PICK T : T = IF Sure(s, f, r) THEN {} ELSE Showing(v, r)
  OBVIOUS
<1>2. Sure(s, f, r) => CanCreate(f.w, new) /\ f.w[p] = Absent
  <2>1. Sure(s, f, r) => CanCreate(f.w, new) /\ (IsFileAt(v, p) \/ f.w[p] = Absent)
    BY RenameIs
  <2> QED
    BY <2>1, NodesDiffer DEF IsFileAt
<1>3. ~ Sure(s, f, r) => f \in T
  BY DEF Showing
<1> PICK M : M = Moving(p, new, f, r)
  OBVIOUS
<1>4. new # <<>> => Parent(new) \in Paths /\ IsPrefix(Parent(new), new) /\ Parent(new) # new
  BY ParentIs
<1>5. p # new /\ IsPrefix(p, new) => new # <<>> /\ IsPrefix(p, Parent(new))
  BY PrefixOrder, AboveParent
<1>6. p # new => ~ IsPrefix(new, p)
  <2>1. ASSUME p # new, IsPrefix(new, p) PROVE FALSE
    <3>1. p \in Below(new)
      BY <2>1, BelowIs
    <3>2. v[p] = Absent
      BY <1>1, <3>1, NothingBelow
    <3> QED
      BY <3>2, NodesDiffer
  <2> QED
    BY <2>1
<1>7. \A q \in Below(new) : f.w[q] = Absent
  BY <1>1, NothingBelow, BelowIs
<1>8. f.w[p] = Absent => \A q \in Paths : IsPrefix(p, q) => f.w[q] = Absent
  BY <1>1, AboveIsThere
<1>9. CASE f.w[p] # Absent /\ t = <<StepTo("_writable.renameSync", p, new)>>
  <2> PICK a : a = StepTo("_writable.renameSync", p, new)
    OBVIOUS
  <2>1. a \in Steps /\ a.do = "_writable.renameSync" /\ a.p = p /\ a.new = new
    <3>1. "_writable.renameSync" \in OnWritable
      BY DEF OnWritable
    <3> QED
      BY <3>1, StepOf
  <2>2. f.w[p] = Dir
    BY <1>1, <1>9
  <2>3. Needs(a, f, r)
    BY <2>1, <2>2, WritableRenameIs
  <2>4. ASSUME NEW g \in Layers(r), Post(a, f, g, r) PROVE g \in M
    <3>1. CanRename(f.w, a.p, a.new) /\ g.w = Renamed(f.w, a.p, a.new) /\ g.D = f.D
      BY <2>1, <2>4, WritableRenameIs
    <3>2. CanRename(f.w, p, new) /\ g.w = Renamed(f.w, p, new) /\ g.D = f.D
      BY <2>1, <3>1
    <3>3. Apart(p, new)
      BY <1>5, <1>6, <3>2 DEF Apart, CanRename
    <3>4. v[Parent(new)] = Dir
      <4>1. new # <<>> /\ f.w[Parent(new)] = Dir
        BY <3>2 DEF CanRename, IsDirAt
      <4> QED
        BY <1>1, <1>4, <4>1, NodesDiffer
    <3>5. MovedDir(p, new, f.w, g.w)
      BY <1>1, <2>2, <3>2, <3>3, RenamedMoves
    <3> QED
      BY <3>2, <3>3, <3>4, <3>5 DEF Moving
  <2>5. Sure(a, f, r) \/ f \in T
    BY <1>2, <1>3, <1>9
  <2>6. Leads({f}, <<a>>, M, T, r)
    BY <2>3, <2>4, <2>5, LeadsOne
  <2>7. <<a>> \in Seq(Steps)
    BY ONLY <2>1, Tuples
  <2> QED
    BY <1>9, <2>6, <2>7
<1>10. CASE f.w[p] = Absent /\ f.w[new] = Absent /\ t = <<Step("_writable.mkdirSync", new)>>
  <2> PICK a : a = Step("_writable.mkdirSync", new)
    OBVIOUS
  <2>1. a \in Steps /\ a.do = "_writable.mkdirSync" /\ a.p = new
    <3>1. "_writable.mkdirSync" \in OnWritable
      BY DEF OnWritable
    <3> QED
      BY <3>1, StepOf
  <2>2. Needs(a, f, r)
    BY <2>1, WritableMkdirIs DEF Vacant
  <2>3. Sure(a, f, r) \/ f \in T
    BY <1>2, <1>3, <2>1, WritableMkdirIs
  <2>4. ASSUME NEW g \in Layers(r), Post(a, f, g, r) PROVE g \in M
    <3>1. CanCreate(f.w, a.p) /\ g.w = With(f.w, a.p, Dir) /\ g.D = f.D
      BY <2>1, <2>4, WritableMkdirIs
    <3>2. new # <<>> /\ f.w[Parent(new)] = Dir /\ g.w = With(f.w, new, Dir) /\ g.D = f.D
      BY <2>1, <3>1 DEF CanCreate, IsDirAt
    <3>3. g.w[new] = Dir /\ \A q \in Paths : q # new => g.w[q] = f.w[q]
      BY <1>1, <3>2, WithIs
    <3>4. Apart(p, new)
      <4>1. f.w[Parent(new)] # Absent
        BY <3>2, NodesDiffer
      <4> QED
        BY <1>4, <1>5, <1>6, <1>8, <1>10, <3>2, <4>1 DEF Apart
    <3>5. v[Parent(new)] = Dir
      BY <1>1, <1>4, <3>2, NodesDiffer
    <3>6. MovedDir(p, new, f.w, g.w)
      BY <1>1, <1>7, <1>8, <1>10, <3>3, <3>4, NothingMoves
    <3> QED
      BY <3>2, <3>4, <3>5, <3>6 DEF Moving
  <2>5. Leads({f}, <<a>>, M, T, r)
    BY <2>2, <2>3, <2>4, LeadsOne
  <2>6. <<a>> \in Seq(Steps)
    BY ONLY <2>1, Tuples
  <2> QED
    BY <1>10, <2>5, <2>6
<1>11. CASE f.w[p] = Absent /\ f.w[new] # Absent /\ t = <<>>
  <2>1. f.w[new] = Dir
    BY <1>1, <1>11 DEF Vacant
  <2>2. Apart(p, new)
    BY <1>6, <1>8, <1>11 DEF Apart
  <2>3. v[Parent(new)] = Dir
    <3>1. new # <<>>
      BY <2>2, PrefixOrder DEF Apart
    <3>2. f.w[Parent(new)] = Dir
      BY <1>1, <1>11, <3>1 DEF IsTree
    <3> QED
      BY <1>1, <1>4, <3>1, <3>2, NodesDiffer
  <2>4. MovedDir(p, new, f.w, f.w)
    BY <1>1, <1>7, <1>8, <1>11, <2>1, <2>2, NothingMoves
  <2>5. f \in M
    BY <2>2, <2>3, <2>4 DEF Moving
  <2>6. Leads({f}, <<>>, M, T, r)
    BY <2>5, LeadsNone
  <2>7. <<>> \in Seq(Steps)
    OBVIOUS
  <2> QED
    BY <1>11, <2>6, <2>7
<1> QED
  BY <1>9, <1>10, <1>11

LEMMA RenameDirFulfils ==
  ASSUME NEW r, NEW f \in Layers(r), NEW s \in Steps, s.do = "renameSync", Needs(s, f, r),
         Shows(f, r)[s.p] = Dir, s.p # s.new, Vacant(Shows(f, r), s.new), NEW t,
         \/ f.w[s.p] # Absent /\ t = <<StepTo("_writable.renameSync", s.p, s.new)>>
         \/ /\ f.w[s.p] = Absent /\ f.w[s.new] = Absent
            /\ t = <<Step("_writable.mkdirSync", s.new)>>
         \/ f.w[s.p] = Absent /\ f.w[s.new] # Absent /\ t = <<>>
  PROVE  Fulfils(s, t \o <<StepTo("renameChildren", s.p, s.new), StepTo("unlinkOld", s.p, s.new)>>, f, r)
<1> PICK p \in Paths, new \in Paths : p = s.p /\ new = s.new
  BY DEF Steps
<1> PICK v : v = Shows(f, r)
  OBVIOUS
<1>1. /\ f.w \in Trees /\ IsTree(v) /\ r \in Trees /\ IsTree(r)
      /\ \A x \in Paths : v[x] = IF f.w[x] # Absent THEN f.w[x] ELSE IF x \in f.D THEN Absent ELSE r[x]
  BY LayersAre
<1> PICK T : T = IF Sure(s, f, r) THEN {} ELSE Showing(v, r)
  OBVIOUS
<1> PICK Z : Z = {g \in Layers(r) : Post(s, f, g, r)}
  OBVIOUS
<1> PICK M, B : M = Moving(p, new, f, r) /\ B = ReadBelow(p, r)
  OBVIOUS
<1> PICK N : N = {h \in Layers(r) :
                    /\ Apart(p, new) /\ Vacant(v, new) /\ v[Parent(new)] = Dir
                    /\ \E u \in Trees : MovedDir(p, new, f.w, u) /\ Copied(p, new, B, u, h.w, r)
                    /\ h.D = f.D \union B}
  OBVIOUS
<1> PICK b, c : b = StepTo("renameChildren", p, new) /\ c = StepTo("unlinkOld", p, new)
  OBVIOUS
<1>2. b \in Steps /\ b.do = "renameChildren" /\ b.p = p /\ b.new = new
  BY StepOf
<1>3. c \in Steps /\ c.do = "unlinkOld" /\ c.p = p /\ c.new = new
  <2>1. "unlinkOld" \in Checking
    BY DEF Checking
  <2> QED
    BY <2>1, StepOf
<1>4. Leads({f}, t, M, T, r) /\ t \in Seq(Steps)
  BY FirstMoves
<1>5. /\ Unmixed(p, f, r) /\ ~ IsFileAt(r, p)
      /\ \A z \in B : HasTwin(p, new, z)
  BY RenameIs
<1>6. \A z \in B : z \in Paths /\ z # p /\ IsPrefix(p, z) /\ r[z] # Absent
  BY BelowIs DEF ReadBelow
<1>7. Leads(M, <<b>>, N, T, r)
  <2>1. ASSUME NEW g \in M
        PROVE  /\ g \in Layers(r) /\ g.D = f.D /\ MovedDir(p, new, f.w, g.w) /\ g.w \in Trees
               /\ Apart(p, new) /\ Vacant(v, new) /\ v[Parent(new)] = Dir
    <3>1. /\ g \in Layers(r) /\ g.D = f.D /\ MovedDir(p, new, f.w, g.w)
          /\ Apart(p, new) /\ Vacant(v, new) /\ v[Parent(new)] = Dir
      BY DEF Moving
    <3> QED
      BY <3>1, LayersAre
  <2>2. ASSUME NEW g \in M PROVE Needs(b, g, r) /\ Sure(b, g, r)
    <3>1. ASSUME NEW z \in B
          PROVE  z \notin g.D /\ \E q \in Paths : Twins(p, new, z, q) /\ Shows(g, r)[q] = Absent
      <4> PICK q \in Paths : Twins(p, new, z, q)
        BY <1>5 DEF HasTwin
      <4>1. f.w[z] = Absent /\ z \notin f.D
        BY <1>5 DEF Unmixed
      <4>2. q \in Below(new)
        <5>1. IsPrefix(new, q)
          BY DEF Twins
        <5>2. q # new
          <6>1. ASSUME q = new PROVE FALSE
            <7>1. Twins(new, p, new, z) /\ Twins(new, p, new, p)
              BY <1>6, <6>1, TwinsTurn, TwinsSelf
            <7>2. z = p
              BY <1>6, <7>1, TwinsOne
            <7> QED
              BY <1>6, <7>2
          <6> QED
            BY <6>1
        <5> QED
          BY <5>1, <5>2, BelowIs
      <4>3. g.w[q] = Absent
        <5>1. g.w[q] = f.w[z]
          BY <1>6, <2>1, <4>2 DEF MovedDir
        <5> QED
          BY <4>1, <5>1
      <4>4. v[q] = Absent
        BY <1>1, <2>1, <4>2, NothingBelow
      <4>5. Shows(g, r)[q] = IF g.w[q] # Absent THEN g.w[q] ELSE IF q \in g.D THEN Absent ELSE r[q]
        BY <2>1, LayersAre
      <4>6. Shows(g, r)[q] = Absent
        BY <1>1, <2>1, <4>3, <4>4, <4>5
      <4> QED
        BY <2>1, <4>1, <4>6
    <3>2. g.w[new] = Dir /\ \A q \in Paths : IsPrefix(p, q) => g.w[q] = Absent
      BY <2>1 DEF MovedDir
    <3>3. Apart(p, new)
      BY <2>1
    <3>4. ~ IsFileAt(r, p)
      BY <1>5
    <3> QED
      BY ONLY <1>2, <3>1, <3>2, <3>3, <3>4, RenameChildrenIs, B = ReadBelow(p, r)
  <2>3. ASSUME NEW g \in M, NEW h \in Layers(r), Post(b, g, h, r) PROVE h \in N
    <3>1. Copied(b.p, b.new, ReadBelow(b.p, r), g.w, h.w, r) /\ h.D = g.D \union ReadBelow(b.p, r)
      BY <1>2, <2>3, RenameChildrenIs
    <3>2. Copied(p, new, B, g.w, h.w, r) /\ h.D = f.D \union B
      BY <1>2, <2>1, <3>1
    <3> QED
      BY <2>1, <3>2
  <2>4. M \subseteq Layers(r)
    BY <2>1
  <2>5. \A g \in M : Needs(b, g, r) /\ (Sure(b, g, r) \/ g \in T)
    BY <2>2
  <2> QED
    BY <2>3, <2>4, <2>5, LeadsOne
<1>8. Leads(N, <<c>>, Z, T, r)
  <2>1. ASSUME NEW h \in N
        PROVE  /\ h \in Layers(r) /\ h.w \in Trees /\ h.w[p] = Absent /\ h.D = f.D \union B
               /\ Shows(h, r)[p] = IF p \in h.D THEN Absent ELSE r[p]
    <3>1. PICK u \in Trees : MovedDir(p, new, f.w, u) /\ Copied(p, new, B, u, h.w, r)
      OBVIOUS
    <3>2. Apart(p, new) /\ h.D = f.D \union B /\ h \in Layers(r)
      OBVIOUS
    <3>3. u[p] = Absent
      BY <3>1, PrefixOrder DEF MovedDir
    <3>4. \A z \in B : ~ Twins(p, new, z, p)
      BY <3>2 DEF Twins, Apart
    <3>5. h.w[p] = u[p]
      BY <3>1, <3>4 DEF Copied
    <3> QED
      BY <3>2, <3>3, <3>5, LayersAre
  <2>2. ASSUME NEW h \in N PROVE Needs(c, h, r) /\ Sure(c, h, r)
    <3>1. Emptied(r, h.D, p)
      <4>1. Children(r, p) \subseteq B
        BY ParentBelow DEF Children, ReadBelow, Parent
      <4> QED
        BY <2>1, <4>1 DEF Emptied
    <3>2. h.w[p] # Dir
      BY <2>1, NodesDiffer
    <3> QED
      BY <1>3, <3>1, <3>2, UnlinkOldIs
  <2>3. ASSUME NEW h \in N, NEW g \in Layers(r), Post(c, h, g, r) PROVE g \in Z
    <3>1. UnlinkedOld(c.p, c.new, h, g, r)
      BY <1>3, <2>3, UnlinkOldIs
    <3>2. UnlinkedOld(p, new, h, g, r)
      BY <1>3, <3>1
    <3> PICK A : A = {z \in Paths : IsPrefix(p, z) /\ r[z] # Absent}
      OBVIOUS
    <3>3. A = B \union (IF r[p] # Absent THEN {p} ELSE {})
      BY BelowIs, PrefixOrder DEF ReadBelow
    <3>4. g.w = h.w /\ g.D = f.D \union A
      <4>1. CASE Shows(h, r)[p] = Absent
        <5>1. g.w = h.w /\ g.D = h.D
          BY <3>2, <4>1 DEF UnlinkedOld
        <5>2. r[p] # Absent => p \in f.D
          BY <1>6, <2>1, <4>1
        <5> QED
          BY <2>1, <3>3, <5>1, <5>2
      <4>2. CASE Shows(h, r)[p] # Absent
        <5>1. g.w = With(h.w, p, Absent) /\ g.D = IF r[p] # Absent THEN h.D \union {p} ELSE h.D
          BY <3>2, <4>2 DEF UnlinkedOld, Unlinked
        <5>2. g.w = h.w
          BY <2>1, <5>1 DEF With, Trees
        <5>3. g.D = f.D \union A
          BY <2>1, <3>3, <5>1
        <5> QED
          BY <5>2, <5>3
      <4> QED
        BY <4>1, <4>2
    <3>5. RenamedDir(p, new, f, g, r)
      BY <3>4 DEF RenamedDir
    <3> QED
      BY <3>5, NodesDiffer, RenameIs DEF IsFileAt
  <2>4. N \subseteq Layers(r)
    OBVIOUS
  <2>5. \A h \in N : Needs(c, h, r) /\ (Sure(c, h, r) \/ h \in T)
    BY <2>2
  <2> QED
    BY <2>3, <2>4, <2>5, LeadsOne
<1>9. <<b>> \in Seq(Steps) /\ <<c>> \in Seq(Steps) /\ <<b, c>> \in Seq(Steps)
  BY ONLY <1>2, <1>3, Tuples
<1>10. Leads(M, <<b>> \o <<c>>, Z, T, r)
  BY <1>7, <1>8, <1>9, LeadsJoin
<1>11. Leads(M, <<b, c>>, Z, T, r)
  BY <1>10, TwoAre
<1>12. Leads({f}, t \o <<b, c>>, Z, T, r)
  BY <1>4, <1>9, <1>11, LeadsJoin
<1> QED
  BY <1>12 DEF Fulfils

(* A child's twin is its name in the new directory. *)
LEMMA ChildTwin ==
  ASSUME NEW p \in Paths, NEW new \in Paths, NEW c \in Paths \ {<<>>}, Parent(c) = p,
         HasTwin(p, new, c)
  PROVE  LET q == Append(new, Last(c))
         IN  /\ q \in Paths \ {<<>>} /\ Twins(p, new, c, q) /\ Parent(q) = new
             /\ IsPrefix(new, q) /\ q # new /\ IsPrefix(p, c) /\ c # p
<1> PICK d \in Int : d = Len(new) - Len(p)
  BY OffsetIs
<1> PICK y \in Paths : Twins(p, new, c, y)
  BY DEF HasTwin
<1> PICK l : l = Last(c)
  OBVIOUS
<1> PICK lp \in Nat, ln \in Nat, lc \in Nat, ly \in Nat :
      lp = Len(p) /\ ln = Len(new) /\ lc = Len(c) /\ ly = Len(y)
  BY PathsAre
<1>1. lp = lc - 1 /\ IsPrefix(p, c) /\ c # p /\ lc > 0 /\ c \in Seq(Name) /\ l = c[lc]
  BY ParentIs, PathsAre DEF Last
<1>2. l \in Name /\ new \in Seq(Name)
  <2>1. lc \in 1 .. Len(c)
    BY <1>1
  <2> QED
    BY <1>1, <2>1, ElementOfSeq, PathsAre
<1> PICK q \in Seq(Name) : q = Append(new, l)
  BY <1>2, AppendProperties
<1>3. Len(q) = ln + 1 /\ \A i \in 1 .. ln + 1 : q[i] = IF i <= ln THEN new[i] ELSE l
  BY <1>2, AppendProperties
<1>4. /\ ly = lc + d
      /\ \A j \in 1 .. ln : new[j] = y[j]
      /\ \A j \in lp + 1 .. lc : c[j] = y[j + d]
  <2>1. Matched(p, new, c, y, d)
    BY TwinsAre
  <2> QED
    BY <2>1 DEF Matched
<1>5. ly = ln + 1 /\ lc \in lp + 1 .. lc /\ lc + d = ln + 1
  BY <1>1, <1>4
<1>6. y[ln + 1] = l
  BY <1>1, <1>4, <1>5
<1>7. \A i \in 1 .. ln + 1 : q[i] = y[i]
  <2>1. ASSUME NEW i \in 1 .. ln + 1 PROVE q[i] = y[i]
    <3>1. i \in 1 .. ln \/ (i = ln + 1 /\ ~ i <= ln)
      OBVIOUS
    <3> QED
      BY <1>3, <1>4, <1>6, <3>1
  <2> QED
    BY <2>1
<1>8. y \in Seq(Name)
  BY PathsAre
<1>9. q = y
  BY <1>3, <1>5, <1>7, <1>8, SeqEqual
<1>10. y # <<>>
  <2>1. ln + 1 # 0 /\ Len(<<>>) = 0
    OBVIOUS
  <2> QED
    BY ONLY <1>5, <2>1, ly = Len(y)
<1>11. IsPrefix(new, y)
  BY DEF Twins
<1>12. y # new
  <2>1. ln + 1 # ln
    OBVIOUS
  <2> QED
    BY ONLY <1>5, <2>1, ly = Len(y), ln = Len(new)
<1>13. Parent(y) = new
  <2>1. /\ Parent(y) \in Paths /\ Len(Parent(y)) = ly - 1
        /\ \A i \in 1 .. ly - 1 : Parent(y)[i] = y[i]
    BY <1>10, ParentIs
  <2>2. Parent(y) \in Seq(Name) /\ new \in Seq(Name) /\ Len(Parent(y)) = ln
    BY <1>5, <2>1, PathsAre
  <2>3. \A i \in 1 .. ln : Parent(y)[i] = new[i]
    BY <1>4, <1>5, <2>1
  <2> QED
    BY <2>2, <2>3, SeqEqual
<1> QED
  BY <1>1, <1>9, <1>10, <1>11, <1>12, <1>13

(* The rename of what is readable in p and nowhere else, of which M is done *)
Renaming(p, new, f, r) ==
  /\ Apart(p, new) /\ f.w[new] = Dir
  /\ \A x \in Paths : IsPrefix(p, x) => f.w[x] = Absent
  /\ \A z \in ReadBelow(p, r) :
       z \notin f.D /\ \E y \in Paths : Twins(p, new, z, y) /\ Shows(f, r)[y] = Absent
Moved(M, p, new, f, r) ==
  {g \in Layers(r) : Copied(p, new, M, f.w, g.w, r) /\ g.D = f.D \union M}

LEMMA ApartSides ==
  ASSUME NEW p \in Paths, NEW new \in Paths, Apart(p, new), NEW x \in Paths
  PROVE  ~ (IsPrefix(p, x) /\ IsPrefix(new, x))
<1>1. Len(p) \in Nat /\ Len(new) \in Nat
  BY PathsAre
<1>2. Len(p) <= Len(new) \/ Len(new) <= Len(p)
  BY <1>1
<1> QED
  BY <1>2, PrefixOrder DEF Apart

(* The layers before a child is renamed *)
Ahead(c, q, p, new, g, r) ==
  /\ g \in Layers(r) /\ g.w[new] = Dir
  /\ q \in Paths \ {<<>>} /\ Twins(p, new, c, q) /\ Parent(q) = new /\ c \in ReadBelow(p, r)
  /\ g.w[q] = Absent /\ Shows(g, r)[q] = Absent
  /\ \A x \in Paths : IsPrefix(c, x) => g.w[x] = Absent
  /\ \A x \in Paths : IsPrefix(c, x) /\ r[x] # Absent => x \notin g.D
  /\ \A x \in Paths : IsPrefix(c, x) => Shows(g, r)[x] = r[x] \/ r[x] = Absent

LEMMA BeforeChild ==
  ASSUME NEW r, NEW f \in Layers(r), NEW p \in Paths, NEW new \in Paths, Renaming(p, new, f, r),
         NEW M, M \subseteq ReadBelow(p, r), NEW g \in Moved(M, p, new, f, r),
         NEW c \in Paths \ {<<>>}, Parent(c) = p, r[c] # Absent,
         \A x \in Paths : IsPrefix(c, x) => x \notin M
  PROVE  Ahead(c, Append(new, Last(c)), p, new, g, r)
<1> PICK q, B : q = Append(new, Last(c)) /\ B = ReadBelow(p, r)
  OBVIOUS
<1>1. /\ g \in Layers(r) /\ Copied(p, new, M, f.w, g.w, r) /\ g.D = f.D \union M
  BY DEF Moved
<1>2. /\ Apart(p, new) /\ f.w[new] = Dir
      /\ \A x \in Paths : IsPrefix(p, x) => f.w[x] = Absent
      /\ \A z \in B : z \notin f.D /\ \E y \in Paths : Twins(p, new, z, y) /\ Shows(f, r)[y] = Absent
  BY DEF Renaming
<1>3. \A z : z \in B <=> z \in Paths /\ IsPrefix(p, z) /\ z # p /\ r[z] # Absent
  BY BelowIs DEF ReadBelow
<1>4. c \in B
  BY <1>3, ParentIs
<1>5. /\ q \in Paths \ {<<>>} /\ Twins(p, new, c, q) /\ Parent(q) = new
      /\ IsPrefix(p, c)
  BY <1>2, <1>4, ChildTwin DEF HasTwin
<1>6. Shows(f, r)[q] = Absent
  <2>1. PICK y \in Paths : Twins(p, new, c, y) /\ Shows(f, r)[y] = Absent
    BY <1>2, <1>4
  <2>2. y = q
    BY <1>5, <2>1, TwinsOne
  <2> QED
    BY <2>1, <2>2
<1>7. ASSUME NEW x \in Paths, IsPrefix(c, x) PROVE g.w[x] = Absent
  <2>1. IsPrefix(p, x)
    BY <1>5, <1>7, PrefixOrder
  <2>2. \A z \in M : ~ Twins(p, new, z, x)
    BY <1>2, <2>1, ApartSides DEF Twins
  <2>3. g.w[x] = f.w[x]
    BY <1>1, <2>2 DEF Copied
  <2> QED
    BY <1>2, <2>1, <2>3
<1>8. ASSUME NEW x \in Paths, IsPrefix(c, x), r[x] # Absent PROVE x \notin g.D
  <2>1. IsPrefix(p, x) /\ x # p
    <3>1. c # p
      BY ParentIs
    <3> QED
      BY <1>5, <1>8, <3>1, PrefixOrder
  <2>2. x \in B
    BY <1>3, <1>8, <2>1
  <2> QED
    BY <1>1, <1>2, <1>8, <2>2
<1>9. \A z \in M : z \in Paths /\ IsPrefix(p, z) /\ z # p
  BY <1>3
<1>10. g.w[new] = Dir
  <2>1. ASSUME NEW z \in M, Twins(p, new, z, new) PROVE FALSE
    <3>1. Twins(new, p, new, z) /\ Twins(new, p, new, p)
      BY <1>9, <2>1, TwinsTurn, TwinsSelf
    <3>2. z = p
      BY <1>9, <3>1, TwinsOne
    <3> QED
      BY <1>9, <3>2
  <2>2. g.w[new] = f.w[new]
    BY <1>1, <2>1 DEF Copied
  <2> QED
    BY <1>2, <2>2
<1>11. \A x \in Paths : /\ Shows(f, r)[x] = IF f.w[x] # Absent THEN f.w[x] ELSE IF x \in f.D THEN Absent ELSE r[x]
                        /\ Shows(g, r)[x] = IF g.w[x] # Absent THEN g.w[x] ELSE IF x \in g.D THEN Absent ELSE r[x]
  BY <1>1, LayersAre
<1>12. g.w[q] = Absent
  <2>1. ASSUME NEW z \in M, Twins(p, new, z, q) PROVE FALSE
    <3>1. Twins(new, p, q, z) /\ Twins(new, p, q, c)
      BY <1>5, <1>9, <2>1, TwinsTurn
    <3>2. z = c
      BY <1>5, <1>9, <3>1, TwinsOne
    <3> QED
      BY <3>2, PrefixOrder
  <2>2. g.w[q] = f.w[q]
    BY <1>1, <1>5, <2>1 DEF Copied
  <2> QED
    BY <1>5, <1>6, <1>11, <2>2
<1>13. Shows(g, r)[q] = Absent
  BY <1>1, <1>5, <1>6, <1>11, <1>12
<1>14. \A x \in Paths : IsPrefix(c, x) => Shows(g, r)[x] = r[x] \/ r[x] = Absent
  BY <1>7, <1>8, <1>11
<1>15. Ahead(c, q, p, new, g, r)
  BY <1>1, <1>4, <1>5, <1>7, <1>8, <1>10, <1>12, <1>13, <1>14 DEF Ahead
<1> QED
  BY <1>15

LEMMA ChildReady ==
  ASSUME NEW r, NEW f \in Layers(r), NEW p \in Paths, NEW new \in Paths, Renaming(p, new, f, r),
         NEW M, M \subseteq ReadBelow(p, r), NEW g \in Moved(M, p, new, f, r),
         NEW c \in Paths \ {<<>>}, Parent(c) = p, r[c] # Absent,
         \A x \in Paths : IsPrefix(c, x) => x \notin M,
         NEW e, e.do = "renameSync", e.p = c, e.new = Append(new, Last(c))
  PROVE  Needs(e, g, r) /\ Sure(e, g, r)
<1> PICK q : q = Append(new, Last(c))
  OBVIOUS
<1>1. /\ g \in Layers(r) /\ g.w[new] = Dir
      /\ q \in Paths \ {<<>>} /\ Twins(p, new, c, q) /\ Parent(q) = new /\ c \in ReadBelow(p, r)
      /\ g.w[q] = Absent /\ Shows(g, r)[q] = Absent
      /\ \A x \in Paths : IsPrefix(c, x) => g.w[x] = Absent
      /\ \A x \in Paths : IsPrefix(c, x) /\ r[x] # Absent => x \notin g.D
      /\ \A x \in Paths : IsPrefix(c, x) => Shows(g, r)[x] = r[x] \/ r[x] = Absent
  <2>1. Ahead(c, q, p, new, g, r)
    BY BeforeChild
  <2> QED
    BY <2>1 DEF Ahead
<1>2. IsPrefix(c, c) /\ Shows(g, r)[c] = r[c]
  BY <1>1, PrefixOrder
<1>3. ClearAbove(q, g, r)
  <2>1. ASSUME NEW y \in Paths, IsPrefix(y, q), y # q PROVE g.w[y] # Absent
    <3>1. IsPrefix(y, new)
      <4>1. IsPrefix(y, q) <=> IsPrefix(y, Parent(q))
        BY ONLY <1>1, <2>1, y \in Paths, AboveParent
      <4> QED
        BY <1>1, <2>1, <4>1
    <3>2. IsTree(g.w) /\ g.w[new] # Absent
      BY <1>1, LayersAre, NodesDiffer
    <3> QED
      BY <3>1, <3>2, AboveIsThere
  <2> QED
    BY <2>1 DEF ClearAbove
<1>4. \A z \in ReadBelow(c, r) : z \in Paths /\ IsPrefix(c, z) /\ z # c /\ r[z] # Absent
  BY BelowIs DEF ReadBelow
<1>5. Unmixed(c, g, r)
  BY <1>1, <1>4 DEF Unmixed
<1>6. ASSUME NEW z \in ReadBelow(c, r) PROVE HasTwin(c, q, z)
  <2>1. z \in Paths /\ IsPrefix(c, z) /\ r[z] # Absent
    BY <1>4
  <2>2. z \in ReadBelow(p, r)
    <3>1. IsPrefix(p, z) /\ z # p
      BY <1>4, <2>1, ParentIs, PrefixOrder
    <3> QED
      BY <2>1, <3>1, BelowIs DEF ReadBelow
  <2>3. PICK y \in Paths : Twins(p, new, z, y)
    BY <2>2 DEF Renaming
  <2>4. Twins(c, q, z, y)
    BY <1>1, <2>1, <2>3, TwinsNest
  <2> QED
    BY <2>4 DEF HasTwin
<1>7. Shows(g, r)[c] = Dir => ~ IsFileAt(r, c)
  BY <1>2, NodesDiffer DEF IsFileAt
<1>12. e.p = c /\ e.new = q /\ e.do = "renameSync"
  OBVIOUS
<1>8. Needs(e, g, r)
  BY ONLY <1>3, <1>5, <1>6, <1>7, <1>12, RenameIs
<1>9. CanCreate(g.w, q)
  BY <1>1 DEF CanCreate, IsDirAt
<1>10. IsFileAt(Shows(g, r), c) \/ (Shows(g, r)[c] = Dir /\ g.w[c] = Absent)
  <2>1. Shows(g, r) \in Trees /\ g.w[c] = Absent
    BY <1>1, <1>2, LayersAre
  <2> QED
    BY <1>2, <2>1, KindsOfNode
<1>11. Sure(e, g, r)
  <2>1. Shows(g, r)[q] = Absent
    BY <1>1
  <2> QED
    BY ONLY <1>9, <1>10, <1>12, <2>1, RenameSure
<1> QED
  BY <1>8, <1>11

(* A copy after a copy *)
LEMMA CopiedTwice ==
  ASSUME NEW p \in Paths, NEW new \in Paths, NEW r, NEW M, M \subseteq Paths, NEW N, N \subseteq Paths,
         NEW w, NEW u, NEW x, Copied(p, new, M, w, u, r), Copied(p, new, N, u, x, r)
  PROVE  Copied(p, new, M \union N, w, x, r)
<1>1. \A q \in Paths :
        /\ \A z \in M : Twins(p, new, z, q) => u[q] = r[z]
        /\ (\A z \in M : ~ Twins(p, new, z, q)) => u[q] = w[q]
  BY DEF Copied
<1>2. \A q \in Paths :
        /\ \A z \in N : Twins(p, new, z, q) => x[q] = r[z]
        /\ (\A z \in N : ~ Twins(p, new, z, q)) => x[q] = u[q]
  BY DEF Copied
<1>3. ASSUME NEW q \in Paths, NEW z \in M, Twins(p, new, z, q) PROVE x[q] = r[z]
  <2>1. CASE \E y \in N : Twins(p, new, y, q)
    <3> PICK y \in N : Twins(p, new, y, q)
      BY <2>1
    <3>1. Twins(new, p, q, y) /\ Twins(new, p, q, z)
      BY <1>3, TwinsTurn
    <3>2. y = z
      BY <3>1, TwinsOne
    <3> QED
      BY <1>2, <3>2
  <2>2. CASE \A y \in N : ~ Twins(p, new, y, q)
    BY <1>1, <1>2, <1>3, <2>2
  <2> QED
    BY <2>1, <2>2
<1>4. ASSUME NEW q \in Paths
      PROVE  /\ \A z \in M \union N : Twins(p, new, z, q) => x[q] = r[z]
             /\ (\A z \in M \union N : ~ Twins(p, new, z, q)) => x[q] = w[q]
  BY <1>1, <1>2, <1>3
<1> QED
  BY <1>4 DEF Copied

(* What r has at c and below it *)
Whole(c, r) == {c} \union ReadBelow(c, r)

(* The layers after the rename of a file, of which there is nothing at q *)
LEMMA FileChildMoved ==
  ASSUME NEW r, NEW p \in Paths, NEW new \in Paths, Apart(p, new), NEW g, NEW h, NEW h0,
         NEW c \in Paths, NEW q \in Paths, Ahead(c, q, p, new, g, r), IsFileAt(Shows(g, r), c), r[c] # Absent,
         h0 \in Layers(r), h \in Layers(r),
         Wrote(q, Shows(g, r)[c].bytes, g, h0, r), UnlinkedOld(c, q, h0, h, r)
  PROVE  Copied(p, new, Whole(c, r), g.w, h.w, r)
         /\ h.D = g.D \union Whole(c, r)
<1>1. /\ g \in Layers(r) /\ g.w[new] = Dir
      /\ q # <<>> /\ Twins(p, new, c, q) /\ Parent(q) = new /\ c \in ReadBelow(p, r)
      /\ g.w[q] = Absent
      /\ \A x \in Paths : IsPrefix(c, x) => g.w[x] = Absent
      /\ \A x \in Paths : IsPrefix(c, x) /\ r[x] # Absent => x \notin g.D
      /\ \A x \in Paths : IsPrefix(c, x) => Shows(g, r)[x] = r[x] \/ r[x] = Absent
  BY DEF Ahead
<1>2. IsPrefix(c, c) /\ g.w[c] = Absent /\ c \notin g.D /\ Shows(g, r)[c] = r[c]
  BY <1>1, PrefixOrder
<1>3. /\ g.w \in Trees /\ h0.w \in Trees /\ h.w \in Trees /\ r \in Trees /\ IsTree(g.w) /\ IsTree(r)
      /\ Shows(g, r) \in Trees
      /\ \A x \in Paths : Shows(h0, r)[x] = IF h0.w[x] # Absent THEN h0.w[x] ELSE IF x \in h0.D THEN Absent ELSE r[x]
  BY <1>1, LayersAre
<1>4. c # q
  BY <1>1, <1>2, ApartSides DEF Twins
<1>5. Shows(g, r)[c] = File(Shows(g, r)[c].bytes) /\ r[c] # Dir
  BY <1>2, <1>3, KindsOfNode
<1>6. /\ h0.D = g.D /\ h0.w[q] = r[c]
      /\ \A x \in Paths : x # q => h0.w[x] = g.w[x] \/ (g.w[x] = Absent /\ IsPrefix(x, q))
  BY <1>2, <1>5 DEF Wrote
<1>7. ASSUME NEW x \in Paths, x # q PROVE h0.w[x] = g.w[x]
  <2>1. CASE IsPrefix(x, q)
    <3>1. IsPrefix(x, new)
      <4>1. IsPrefix(x, q) <=> IsPrefix(x, Parent(q))
        BY ONLY <1>1, <1>7, q \in Paths, x \in Paths, AboveParent
      <4> QED
        BY <1>1, <2>1, <4>1
    <3>2. g.w[x] # Absent
      <4>1. g.w[new] # Absent
        BY <1>1, NodesDiffer
      <4> QED
        BY <1>3, <3>1, <4>1, AboveIsThere
    <3> QED
      BY <1>6, <1>7, <3>2
  <2>2. CASE ~ IsPrefix(x, q)
    BY <1>6, <1>7, <2>2
  <2> QED
    BY <2>1, <2>2
<1>8. h0.w[c] = Absent /\ Shows(h0, r)[c] # Absent
  BY <1>2, <1>3, <1>4, <1>6, <1>7
<1>9. h.w = With(h0.w, c, Absent) /\ h.D = h0.D \union {c}
  BY <1>4, <1>8 DEF UnlinkedOld, Unlinked
<1>10. \A x \in Paths : h.w[x] = IF x = q THEN r[c] ELSE g.w[x]
  <2>1. With(h0.w, c, Absent)[c] = Absent /\ \A x \in Paths : x # c => With(h0.w, c, Absent)[x] = h0.w[x]
    BY <1>3, WithIs
  <2> QED
    BY <1>2, <1>4, <1>6, <1>7, <1>9, <2>1
<1>11. ReadBelow(c, r) = {}
  <2>1. ASSUME NEW z \in ReadBelow(c, r) PROVE FALSE
    <3>1. z \in Paths /\ IsPrefix(c, z) /\ z # c /\ r[z] # Absent
      BY BelowIs DEF ReadBelow
    <3>2. r[c] = Dir
      BY <1>3, <3>1, AboveIsDir
    <3> QED
      BY <1>5, <3>2
  <2> QED
    BY <2>1
<1>12. Copied(p, new, {c}, g.w, h.w, r)
  <2>1. ASSUME NEW x \in Paths
        PROVE  /\ Twins(p, new, c, x) => h.w[x] = r[c]
               /\ ~ Twins(p, new, c, x) => h.w[x] = g.w[x]
    <3>1. Twins(p, new, c, x) <=> x = q
      BY <1>1, TwinsOne
    <3> QED
      BY <1>10, <3>1
  <2> QED
    BY <2>1 DEF Copied
<1>13. Whole(c, r) = {c}
  BY <1>11 DEF Whole
<1> QED
  BY <1>6, <1>9, <1>12, <1>13

(* The layers after the rename of a directory *)
LEMMA DirChildMoved ==
  ASSUME NEW r, NEW p \in Paths, NEW new \in Paths, Apart(p, new), NEW g, NEW h,
         NEW c \in Paths, NEW q \in Paths, Ahead(c, q, p, new, g, r), IsDirAt(Shows(g, r), c), r[c] # Absent,
         h \in Layers(r), RenamedDir(c, q, g, h, r)
  PROVE  Copied(p, new, Whole(c, r), g.w, h.w, r)
         /\ h.D = g.D \union Whole(c, r)
<1> PICK B : B = ReadBelow(c, r)
  OBVIOUS
<1>1. /\ g \in Layers(r) /\ g.w[new] = Dir
      /\ q # <<>> /\ Twins(p, new, c, q) /\ Parent(q) = new /\ c \in ReadBelow(p, r)
      /\ g.w[q] = Absent
      /\ \A x \in Paths : IsPrefix(c, x) => g.w[x] = Absent
      /\ \A x \in Paths : IsPrefix(c, x) => Shows(g, r)[x] = r[x] \/ r[x] = Absent
  BY DEF Ahead
<1>2. IsPrefix(c, c) /\ IsPrefix(q, q) /\ g.w[c] = Absent /\ r[c] = Dir
  BY <1>1, PrefixOrder DEF IsDirAt
<1>3. \A z : z \in B <=> z \in Paths /\ IsPrefix(c, z) /\ z # c /\ r[z] # Absent
  BY BelowIs DEF ReadBelow
<1>4. PICK u \in Trees : MovedDir(c, q, g.w, u) /\ Copied(c, q, B, u, h.w, r)
  BY DEF RenamedDir
<1>5. h.D = g.D \union ({c} \union B)
  <2>1. h.D = g.D \union {z \in Paths : IsPrefix(c, z) /\ r[z] # Absent}
    BY DEF RenamedDir
  <2> QED
    BY <1>2, <1>3, <2>1
<1>6. IsTree(g.w)
  BY <1>1, LayersAre
<1>7. /\ u[q] = Dir
      /\ \A x \in Paths : IsPrefix(c, x) => u[x] = Absent
      /\ \A x \in Below(q) : /\ \A z \in Paths : Twins(c, q, z, x) => u[x] = g.w[z]
                             /\ (\A z \in Paths : ~ Twins(c, q, z, x)) => u[x] = Absent
      /\ \A x \in Paths : ~ IsPrefix(c, x) /\ ~ IsPrefix(q, x) => u[x] = g.w[x]
  BY <1>4 DEF MovedDir
<1>8. ASSUME NEW x \in Paths, x # q PROVE u[x] = g.w[x]
  <2>1. CASE IsPrefix(c, x)
    BY <1>1, <1>7, <2>1
  <2>2. CASE IsPrefix(q, x)
    <3>1. x \in Below(q)
      BY <1>8, <2>2, BelowIs
    <3>2. g.w[x] = Absent
      BY <1>1, <1>6, <2>2, AboveIsThere
    <3>3. u[x] = Absent
      <4>1. ASSUME NEW z \in Paths, Twins(c, q, z, x) PROVE g.w[z] = Absent
        BY <1>1, <4>1 DEF Twins
      <4> QED
        BY <1>7, <3>1, <4>1
    <3> QED
      BY <3>2, <3>3
  <2> QED
    BY <1>7, <1>8, <2>1, <2>2
<1>9. \A x \in Paths :
        /\ \A z \in B : Twins(c, q, z, x) => h.w[x] = r[z]
        /\ (\A z \in B : ~ Twins(c, q, z, x)) => h.w[x] = u[x]
  BY <1>4 DEF Copied
<1>10. h.w[q] = r[c]
  <2>1. ASSUME NEW z \in B, Twins(c, q, z, q) PROVE FALSE
    <3>1. Twins(q, c, q, z) /\ Twins(q, c, q, c)
      BY <1>3, <2>1, TwinsTurn, TwinsSelf
    <3>2. z = c
      BY <1>3, <3>1, TwinsOne
    <3> QED
      BY <1>3, <3>2
  <2> QED
    BY <1>2, <1>7, <1>9, <2>1
<1>11. ASSUME NEW x \in Paths
       PROVE  /\ \A z \in {c} \union B : Twins(p, new, z, x) => h.w[x] = r[z]
              /\ (\A z \in {c} \union B : ~ Twins(p, new, z, x)) => h.w[x] = g.w[x]
  <2>1. Twins(p, new, c, x) <=> x = q
    BY <1>1, TwinsOne
  <2>2. ASSUME NEW z \in B PROVE Twins(c, q, z, x) <=> Twins(p, new, z, x)
    BY <1>1, <1>3, TwinsNest
  <2>3. \A z \in B : Twins(p, new, z, x) => h.w[x] = r[z]
    BY <1>9, <2>2
  <2>4. (\A z \in B : ~ Twins(p, new, z, x)) /\ x # q => h.w[x] = g.w[x]
    BY <1>8, <1>9, <2>2
  <2> QED
    BY <1>10, <2>1, <2>3, <2>4
<1>12. Copied(p, new, {c} \union B, g.w, h.w, r)
  BY <1>11 DEF Copied
<1>13. Whole(c, r) = {c} \union B
  BY DEF Whole
<1> QED
  BY <1>5, <1>12, <1>13

LEMMA ChildMoved ==
  ASSUME NEW r, NEW f \in Layers(r), NEW p \in Paths, NEW new \in Paths, Renaming(p, new, f, r),
         NEW M, M \subseteq ReadBelow(p, r), NEW g \in Moved(M, p, new, f, r),
         NEW c \in Paths \ {<<>>}, Parent(c) = p, r[c] # Absent,
         \A x \in Paths : IsPrefix(c, x) => x \notin M,
         NEW e, e.do = "renameSync", e.p = c, e.new = Append(new, Last(c)),
         NEW h, Post(e, g, h, r)
  PROVE  h \in Moved(M \union Whole(c, r), p, new, f, r)
<1> PICK q, N : q = Append(new, Last(c)) /\ N = Whole(c, r)
  OBVIOUS
<1>1. Ahead(c, q, p, new, g, r)
  BY BeforeChild
<1>2. g \in Layers(r) /\ q \in Paths /\ IsPrefix(c, c) /\ Shows(g, r)[c] = r[c] /\ Shows(g, r) \in Trees
      /\ Twins(p, new, c, q)
  <2>1. g \in Layers(r) /\ q \in Paths /\ Twins(p, new, c, q)
        /\ \A x \in Paths : IsPrefix(c, x) => Shows(g, r)[x] = r[x] \/ r[x] = Absent
    BY <1>1 DEF Ahead
  <2> QED
    BY <2>1, LayersAre, PrefixOrder
<1>3. Apart(p, new)
  BY DEF Renaming
<1>4. e.p = c /\ e.new = q /\ e.do = "renameSync"
  OBVIOUS
<1>5. /\ h \in Layers(r)
      /\ IsFileAt(Shows(g, r), e.p) =>
           \E h0 \in Layers(r) : /\ Wrote(e.new, Shows(g, r)[e.p].bytes, g, h0, r)
                                 /\ UnlinkedOld(e.p, e.new, h0, h, r)
      /\ Shows(g, r)[e.p] = Dir /\ e.p # e.new => RenamedDir(e.p, e.new, g, h, r)
  BY ONLY <1>4, Post(e, g, h, r), RenameIs
<1>6. c # q
  BY <1>2, <1>3, ApartSides DEF Twins
<1>7. Copied(p, new, N, g.w, h.w, r) /\ h.D = g.D \union N
  <2>1. CASE IsFileAt(Shows(g, r), c)
    <3> PICK h0 \in Layers(r) : Wrote(q, Shows(g, r)[c].bytes, g, h0, r) /\ UnlinkedOld(c, q, h0, h, r)
      BY <1>4, <1>5, <2>1
    <3>1. h0 \in Layers(r) /\ h \in Layers(r) /\ c \in Paths
      BY <1>5
    <3>2. Copied(p, new, Whole(c, r), g.w, h.w, r)
          /\ h.D = g.D \union Whole(c, r)
      BY ONLY <1>1, <1>2, <1>3, <2>1, <3>1, p \in Paths, new \in Paths, r[c] # Absent,
              Wrote(q, Shows(g, r)[c].bytes, g, h0, r), UnlinkedOld(c, q, h0, h, r), FileChildMoved
    <3> QED
      BY <3>2
  <2>2. CASE Shows(g, r)[c] = Dir
    <3>1. RenamedDir(c, q, g, h, r)
      BY <1>4, <1>5, <1>6, <2>2
    <3>2. h \in Layers(r) /\ c \in Paths
      BY <1>5
    <3>4. IsDirAt(Shows(g, r), c)
      BY <2>2 DEF IsDirAt
    <3>3. Copied(p, new, Whole(c, r), g.w, h.w, r)
          /\ h.D = g.D \union Whole(c, r)
      BY ONLY <1>1, <1>2, <1>3, <3>4, <3>1, <3>2, p \in Paths, new \in Paths, r[c] # Absent, DirChildMoved
    <3> QED
      BY <3>3
  <2> QED
    BY <1>2, <2>1, <2>2, KindsOfNode
<1>8. M \subseteq Paths /\ N \subseteq Paths
  BY BelowIs DEF ReadBelow, Whole
<1>9. Copied(p, new, M, f.w, g.w, r) /\ g.D = f.D \union M
  BY DEF Moved
<1>10. Copied(p, new, M \union N, f.w, h.w, r)
  BY <1>7, <1>8, <1>9, CopiedTwice
<1>11. h.D = f.D \union (M \union N)
  BY <1>7, <1>9
<1> QED
  BY <1>5, <1>10, <1>11 DEF Moved

(* What is below p is below a child of p. *)
LEMMA ChildOver ==
  ASSUME NEW p \in Paths, NEW z \in Below(p)
  PROVE  \E c \in Paths \ {<<>>} : Parent(c) = p /\ IsPrefix(c, z)
<1>1. z \in Paths /\ IsPrefix(p, z) /\ z # p
  BY BelowIs
<1> PICK lp \in Nat, lz \in Nat : lp = Len(p) /\ lz = Len(z)
  BY <1>1, PathsAre
<1>2. lp < lz
  <2>1. ~ lz <= lp
    BY <1>1, PrefixOrder
  <2> QED
    BY <2>1
<1>3. lp + 1 \in 0 .. Len(z)
  BY <1>2
<1> PICK c : c = SubSeq(z, 1, lp + 1)
  OBVIOUS
<1>4. c \in Paths /\ IsPrefix(c, z) /\ Len(c) = lp + 1
  BY <1>1, <1>3, Beginnings, BeginningIs
<1>5. c # <<>>
  <2>1. lp + 1 # 0 /\ Len(<<>>) = 0
    OBVIOUS
  <2> QED
    BY <1>4, <2>1
<1>6. /\ Parent(c) \in Paths /\ Len(Parent(c)) = Len(c) - 1 /\ IsPrefix(Parent(c), c)
  BY <1>4, <1>5, ParentIs
<1>7. Len(Parent(c)) = lp
  BY <1>4, <1>6
<1>8. IsPrefix(Parent(c), z)
  BY <1>1, <1>4, <1>6, PrefixOrder
<1>9. IsPrefix(Parent(c), p) /\ IsPrefix(p, Parent(c))
  <2>1. Len(Parent(c)) <= Len(p) /\ Len(p) <= Len(Parent(c))
    BY <1>7
  <2> QED
    BY <1>1, <1>6, <1>8, <2>1, PrefixOrder
<1>10. Parent(c) = p
  BY <1>6, <1>9, PrefixOrder
<1> QED
  BY <1>4, <1>5, <1>10

(* Two children of a directory have nothing in common. *)
LEMMA ChildrenApart ==
  ASSUME NEW p, NEW c \in Paths \ {<<>>}, Parent(c) = p, NEW d \in Paths \ {<<>>}, Parent(d) = p,
         NEW x \in Paths, IsPrefix(c, x), IsPrefix(d, x)
  PROVE  c = d
<1> PICK lc \in Nat, ld \in Nat : lc = Len(c) /\ ld = Len(d)
  BY PathsAre
<1>1. Len(Parent(c)) = lc - 1 /\ Len(Parent(d)) = ld - 1
  BY ParentIs
<1>2. lc = ld
  <2>1. lc - 1 = ld - 1
    BY <1>1
  <2> QED
    BY <2>1
<1>3. IsPrefix(c, d) /\ IsPrefix(d, c)
  <2>1. Len(c) <= Len(d) /\ Len(d) <= Len(c)
    BY <1>2
  <2> QED
    BY <2>1, PrefixOrder
<1> QED
  BY <1>3, PrefixOrder

LEMMA NamedOnce ==
  ASSUME NEW S, IsFiniteSet(S), NEW names \in SetToSeqs(S)
  PROVE  /\ DOMAIN names = 1 .. Len(names) /\ Len(names) \in Nat
         /\ \A i \in 1 .. Len(names) : names[i] \in S
         /\ \A i, j \in 1 .. Len(names) : i # j => names[i] # names[j]
         /\ \A x \in S : \E i \in 1 .. Len(names) : names[i] = x
<1> PICK n \in Nat : n = Cardinality(S)
  BY FS_CardinalityType
<1>1. names \in [1 .. n -> S] /\ \A i, j \in 1 .. n : i # j => names[i] # names[j]
  BY DEF SetToSeqs
<1>2. names \in Seq(S) /\ Len(names) = n
  BY <1>1, SeqDef
<1>3. \A x \in S : \E i \in 1 .. Len(names) : names[i] = x
  BY AllNamed
<1> QED
  BY <1>1, <1>2, <1>3

(* What is at or below the names before the i-th *)
Passed(names, i, p, r) ==
  {z \in ReadBelow(p, r) : \E j \in 1 .. Len(names) : j < i /\ IsPrefix(names[j], z)}

LEMMA RenameNothingFulfils ==
  ASSUME NEW r, NEW f \in Layers(r), NEW s \in Steps, s.do = "renameChildren", Needs(s, f, r),
         r[s.p] = Absent
  PROVE  Fulfils(s, <<>>, f, r)
<1> PICK p \in Paths : p = s.p
  BY DEF Steps
<1>1. IsTree(r)
  BY LayersAre
<1>2. ReadBelow(p, r) = {}
  <2>1. ASSUME NEW z \in ReadBelow(p, r) PROVE FALSE
    <3>1. z \in Paths /\ IsPrefix(p, z) /\ r[z] # Absent
      BY BelowIs DEF ReadBelow
    <3> QED
      BY <1>1, <3>1, AboveIsThere
  <2> QED
    BY <2>1
<1>3. Copied(s.p, s.new, {}, f.w, f.w, r) /\ f.D = f.D \union {}
  BY DEF Copied
<1>4. Post(s, f, f, r)
  <2>1. Copied(s.p, s.new, ReadBelow(s.p, r), f.w, f.w, r) /\ f.D = f.D \union ReadBelow(s.p, r)
    BY <1>2, <1>3
  <2> QED
    BY <2>1, RenameChildrenIs
<1> QED
  BY <1>4, NothingToDo

LEMMA ChildrenFulfil ==
  ASSUME NEW r \in Readables, NEW f \in Layers(r), NEW s \in Steps, s.do = "renameChildren", Needs(s, f, r),
         NEW names \in SetToSeqs(Children(r, s.p)),
         NEW t, t = [i \in DOMAIN names |->
                       StepTo("renameSync", names[i], Append(s.new, Last(names[i])))]
  PROVE  IsDirAt(r, s.p) => Fulfils(s, t, f, r)
<1> SUFFICES ASSUME IsDirAt(r, s.p) PROVE Fulfils(s, t, f, r)
  OBVIOUS
<1> PICK p \in Paths, new \in Paths : p = s.p /\ new = s.new
  BY DEF Steps
<1>1. Renaming(p, new, f, r)
  <2>1. /\ Apart(s.p, s.new) /\ f.w[s.new] = Dir
        /\ \A q \in Paths : IsPrefix(s.p, q) => f.w[q] = Absent
        /\ \A z \in ReadBelow(s.p, r) :
             z \notin f.D /\ \E q \in Paths : Twins(s.p, s.new, z, q) /\ Shows(f, r)[q] = Absent
    BY ONLY s.do = "renameChildren", Needs(s, f, r), RenameChildrenNeeds
  <2>2. /\ Apart(p, new) /\ f.w[new] = Dir
        /\ \A q \in Paths : IsPrefix(p, q) => f.w[q] = Absent
        /\ \A z \in ReadBelow(p, r) :
             z \notin f.D /\ \E q \in Paths : Twins(p, new, z, q) /\ Shows(f, r)[q] = Absent
    BY <2>1
  <2> QED
    BY <2>2 DEF Renaming
<1>2. names \in SetToSeqs(Children(r, p))
  OBVIOUS
<1>3. IsFiniteSet(Children(r, p))
  <2>1. IsFiniteSet({q \in Paths : r[q] # Absent})
    BY ReadablesAssumption
  <2>2. Children(r, p) \in SUBSET {q \in Paths : r[q] # Absent}
    BY DEF Children
  <2> QED
    BY <2>1, <2>2, FS_Subset
<1> PICK n : n = Len(names)
  OBVIOUS
<1>4. /\ DOMAIN names = 1 .. n /\ n \in Nat
      /\ \A i \in 1 .. n : names[i] \in Children(r, p)
      /\ \A i, j \in 1 .. n : i # j => names[i] # names[j]
      /\ \A x \in Children(r, p) : \E i \in 1 .. n : names[i] = x
  BY <1>2, <1>3, NamedOnce
<1>5. \A q : q \in Children(r, p) <=> q \in Paths \ {<<>>} /\ Parent(q) = p /\ r[q] # Absent
  <2>1. IsDirAt(r, p)
    OBVIOUS
  <2> QED
    BY <2>1 DEF Children, Parent
<1>6. \A i \in 1 .. n : names[i] \in Paths \ {<<>>} /\ Parent(names[i]) = p /\ r[names[i]] # Absent
  BY <1>4, <1>5
<1>7. DOMAIN t = 1 .. n /\ Len(t) = n
  BY <1>4
<1>8. ASSUME NEW i \in 1 .. n
      PROVE  t[i].do = "renameSync" /\ t[i].p = names[i] /\ t[i].new = Append(new, Last(names[i]))
  <2> PICK c : c = names[i]
    OBVIOUS
  <2> PICK d : d = Append(new, Last(c))
    OBVIOUS
  <2>1. t[i] = StepTo("renameSync", c, d)
    BY <1>4
  <2>2. StepTo("renameSync", c, d) = [do |-> "renameSync", p |-> c, new |-> d, bytes |-> Empty]
    BY ONLY DEF StepTo, Step
  <2>3. t[i].do = "renameSync" /\ t[i].p = c /\ t[i].new = d
    BY ONLY <2>1, <2>2
  <2> QED
    BY <2>3
<1>9. \A i \in 1 .. n + 1 : Passed(names, i, p, r) \subseteq ReadBelow(p, r)
  BY DEF Passed
<1> PICK R : R = [i \in 1 .. n + 1 |-> Moved(Passed(names, i, p, r), p, new, f, r)]
  OBVIOUS
<1>10. /\ R \in [1 .. n + 1 -> SUBSET Layers(r)]
       /\ \A i \in 1 .. n + 1 : R[i] = Moved(Passed(names, i, p, r), p, new, f, r)
  BY DEF Moved
<1>11. f \in R[1]
  <2>1. Passed(names, 1, p, r) = {}
    BY <1>4 DEF Passed
  <2>2. Copied(p, new, {}, f.w, f.w, r) /\ f.D = f.D \union {}
    BY DEF Copied
  <2>3. f \in Moved({}, p, new, f, r)
    BY <2>2 DEF Moved
  <2>4. 1 \in 1 .. n + 1
    BY <1>4
  <2> QED
    BY <1>10, <2>1, <2>3, <2>4
<1> PICK Z : Z = {g \in Layers(r) : Post(s, f, g, r)}
  OBVIOUS
<1>12. R[n + 1] \subseteq Z
  <2>1. ReadBelow(p, r) \subseteq Passed(names, n + 1, p, r)
    <3>1. ASSUME NEW z \in ReadBelow(p, r) PROVE \E j \in 1 .. n : j < n + 1 /\ IsPrefix(names[j], z)
      <4>1. z \in Below(p) /\ z \in Paths /\ r[z] # Absent
        BY BelowIs DEF ReadBelow
      <4>2. PICK c \in Paths \ {<<>>} : Parent(c) = p /\ IsPrefix(c, z)
        BY <4>1, ChildOver
      <4>3. IsTree(r)
        BY LayersAre
      <4>4. r[c] # Absent
        BY <4>1, <4>2, <4>3, AboveIsThere
      <4>5. PICK j \in 1 .. n : names[j] = c
        BY <1>4, <1>5, <4>2, <4>4
      <4>6. j < n + 1
        BY <1>4
      <4> QED
        BY <4>2, <4>5, <4>6
    <3> QED
      BY <3>1 DEF Passed
  <2>2. n + 1 \in 1 .. n + 1
    BY <1>4
  <2>3. Passed(names, n + 1, p, r) = ReadBelow(p, r)
    BY <1>9, <2>1, <2>2
  <2>4. R[n + 1] = Moved(ReadBelow(p, r), p, new, f, r)
    BY <1>10, <2>2, <2>3
  <2>5. ASSUME NEW g \in R[n + 1] PROVE g \in Layers(r) /\ Post(s, f, g, r)
    <3>1. g \in Layers(r) /\ Copied(p, new, ReadBelow(p, r), f.w, g.w, r) /\ g.D = f.D \union ReadBelow(p, r)
      BY <2>4, <2>5 DEF Moved
    <3>2. g \in Layers(r) /\ Copied(s.p, s.new, ReadBelow(s.p, r), f.w, g.w, r)
          /\ g.D = f.D \union ReadBelow(s.p, r)
      BY <3>1
    <3> QED
      BY <3>2, RenameChildrenIs
  <2> QED
    BY <2>5
<1>13. ASSUME NEW k \in 1 .. n, NEW g \in R[k]
       PROVE  /\ Needs(t[k], g, r) /\ Sure(t[k], g, r)
              /\ \A h \in Layers(r) : Post(t[k], g, h, r) => h \in R[k + 1]
  <2> PICK c, e, M : c = names[k] /\ e = t[k] /\ M = Passed(names, k, p, r)
    OBVIOUS
  <2>1. k \in 1 .. n + 1 /\ k + 1 \in 1 .. n + 1
    BY <1>4
  <2>2. c \in Paths \ {<<>>} /\ Parent(c) = p /\ r[c] # Absent
    BY <1>6
  <2>3. e.do = "renameSync" /\ e.p = c /\ e.new = Append(new, Last(c))
    BY <1>8
  <2>4. g \in Moved(M, p, new, f, r)
    BY <1>10, <1>13, <2>1
  <2>5. M \subseteq ReadBelow(p, r)
    BY <1>9, <2>1
  <2>6. ASSUME NEW x \in Paths, IsPrefix(c, x), x \in M PROVE FALSE
    <3>1. PICK j \in 1 .. n : j < k /\ IsPrefix(names[j], x)
      BY <2>6 DEF Passed
    <3>2. names[j] \in Paths \ {<<>>} /\ Parent(names[j]) = p
      BY <1>6
    <3>3. names[j] = c
      BY <2>2, <2>6, <3>1, <3>2, ChildrenApart
    <3>4. j # k
      BY <1>4, <3>1
    <3> QED
      BY <1>4, <3>3, <3>4
  <2>10. \A x \in Paths : IsPrefix(c, x) => x \notin M
    BY <2>6
  <2>7. Needs(e, g, r) /\ Sure(e, g, r)
    BY ONLY <1>1, <2>2, <2>3, <2>4, <2>5, <2>10, f \in Layers(r), p \in Paths, new \in Paths, ChildReady
  <2>8. M \union Whole(c, r) = Passed(names, k + 1, p, r)
    <3>1. ASSUME NEW z \in ReadBelow(p, r)
          PROVE  z \in Passed(names, k + 1, p, r) <=> z \in M \/ IsPrefix(c, z)
      <4>1. z \in Passed(names, k + 1, p, r) <=> \E j \in 1 .. n : j < k + 1 /\ IsPrefix(names[j], z)
        BY <3>1 DEF Passed
      <4>2. z \in M <=> \E j \in 1 .. n : j < k /\ IsPrefix(names[j], z)
        BY <3>1 DEF Passed
      <4>3. \A j \in 1 .. n : j < k + 1 <=> j < k \/ j = k
        BY <1>4
      <4> QED
        BY <4>1, <4>2, <4>3
    <3>2. \A z : z \in ReadBelow(p, r) <=> z \in Paths /\ IsPrefix(p, z) /\ z # p /\ r[z] # Absent
      BY BelowIs DEF ReadBelow
    <3>3. \A z : z \in Whole(c, r) <=> z \in Paths /\ IsPrefix(c, z) /\ r[z] # Absent
      <4>1. \A z : z \in ReadBelow(c, r) <=> z \in Paths /\ IsPrefix(c, z) /\ z # c /\ r[z] # Absent
        BY <2>2, BelowIs DEF ReadBelow
      <4>2. IsPrefix(c, c)
        BY <2>2, PrefixOrder
      <4> QED
        BY <2>2, <4>1, <4>2 DEF Whole
    <3>4. IsPrefix(p, c) /\ p # c
      BY <2>2, ParentIs
    <3>5. \A z \in Paths : IsPrefix(c, z) => IsPrefix(p, z) /\ z # p
      BY <2>2, <3>4, PrefixOrder
    <3>6. \A z : z \in Whole(c, r) <=> z \in ReadBelow(p, r) /\ IsPrefix(c, z)
      BY <3>2, <3>3, <3>5
    <3>7. Passed(names, k + 1, p, r) \subseteq ReadBelow(p, r)
      BY DEF Passed
    <3> QED
      BY <2>5, <3>1, <3>6, <3>7
  <2>9. ASSUME NEW h \in Layers(r), Post(e, g, h, r) PROVE h \in R[k + 1]
    <3>1. h \in Moved(M \union Whole(c, r), p, new, f, r)
      BY <1>1, <2>2, <2>3, <2>4, <2>5, <2>10, <2>9, ChildMoved
    <3> QED
      BY <1>10, <2>1, <2>8, <3>1
  <2> QED
    BY <2>7, <2>9
<1>14. Leads({f}, t, Z, {}, r)
  <2>1. R \in [1 .. Len(t) + 1 -> SUBSET Layers(r)] /\ {f} \subseteq R[1] /\ R[Len(t) + 1] \subseteq Z
    BY <1>7, <1>10, <1>11, <1>12
  <2>2. \A k \in 1 .. Len(t) : \A g \in R[k] :
          /\ Needs(t[k], g, r) /\ (Sure(t[k], g, r) \/ g \in {})
          /\ \A h \in Layers(r) : Post(t[k], g, h, r) => h \in R[k + 1]
    BY <1>7, <1>13
  <2> QED
    BY <2>1, <2>2 DEF Leads
<1>15. Sure(s, f, r)
  BY RenameChildrenIs
<1> QED
  BY <1>14, <1>15 DEF Fulfils

(* A call that did what its first step is to do did what it promises. *)
LEMMA RemovedShows ==
  ASSUME NEW r, NEW f \in Layers(r), NEW g \in Layers(r), NEW p \in Paths, Unlinked(p, f, g, r)
  PROVE  Shows(g, r) = With(Shows(f, r), p, Absent)
<1> PICK v, x : v = Shows(f, r) /\ x = Shows(g, r)
  OBVIOUS
<1>1. /\ f.w \in Trees /\ v \in Trees /\ x \in Trees
      /\ \A q \in Paths : /\ v[q] = IF f.w[q] # Absent THEN f.w[q] ELSE IF q \in f.D THEN Absent ELSE r[q]
                          /\ x[q] = IF g.w[q] # Absent THEN g.w[q] ELSE IF q \in g.D THEN Absent ELSE r[q]
  BY LayersAre
<1>2. /\ g.w = With(f.w, p, Absent)
      /\ g.D = IF r[p] # Absent THEN f.D \union {p} ELSE f.D
  BY DEF Unlinked
<1>3. g.w[p] = Absent /\ \A q \in Paths : q # p => g.w[q] = f.w[q]
  BY <1>1, <1>2, WithIs
<1>4. x[p] = Absent
  BY <1>1, <1>2, <1>3
<1>5. \A q \in Paths : q # p => x[q] = v[q]
  BY <1>1, <1>2, <1>3
<1>6. With(v, p, Absent)[p] = Absent /\ \A q \in Paths : q # p => With(v, p, Absent)[q] = v[q]
  BY <1>1, WithIs
<1>7. With(v, p, Absent) \in Trees
  BY <1>1 DEF With, Trees, Nodes
<1>8. \A q \in Paths : x[q] = With(v, p, Absent)[q]
  BY <1>4, <1>5, <1>6
<1> QED
  BY <1>1, <1>7, <1>8, TreesEqual

LEMMA RenamedTwin ==
  ASSUME NEW t, NEW p \in Paths, NEW new \in Paths, NEW q \in Paths, NEW z \in Paths, Twins(p, new, z, q)
  PROVE  Renamed(t, p, new)[q] = t[z]
<1> PICK from : from = Computed(new, p, q)
  OBVIOUS
<1>1. IsPrefix(new, q) /\ Twins(new, p, q, z)
  BY TwinsTurn DEF Twins
<1>2. Renamed(t, p, new)[q] = IF from \in Paths THEN t[from] ELSE Absent
  BY <1>1 DEF Renamed, Computed
<1>3. z = from
  BY <1>1, TwinIs
<1> QED
  BY <1>2, <1>3

LEMMA RenamedNone ==
  ASSUME NEW t, NEW p \in Paths, NEW new \in Paths, NEW q \in Paths, IsPrefix(new, q),
         \A z \in Paths : ~ Twins(p, new, z, q)
  PROVE  Renamed(t, p, new)[q] = Absent
<1> PICK from : from = Computed(new, p, q)
  OBVIOUS
<1>1. Renamed(t, p, new)[q] = IF from \in Paths THEN t[from] ELSE Absent
  BY DEF Renamed, Computed
<1>2. from \notin Paths
  BY TwinIs, TwinsTurn
<1> QED
  BY <1>1, <1>2

LEMMA RenamedElse ==
  ASSUME NEW t, NEW p \in Paths, NEW new \in Paths, NEW q \in Paths, ~ IsPrefix(new, q)
  PROVE  /\ IsPrefix(p, q) => Renamed(t, p, new)[q] = Absent
         /\ ~ IsPrefix(p, q) => Renamed(t, p, new)[q] = t[q]
BY DEF Renamed

LEMMA UnlinkPromise ==
  ASSUME NEW r, NEW f \in Layers(r), NEW s \in Steps, s.do = "unlinkSync",
         ~ (f.w[s.p] = Absent /\ Shows(f, r)[s.p] = Dir), NEW g, Post(s, f, g, r)
  PROVE  Shows(g, r) = Promised(s, Shows(f, r))
<1> PICK p \in Paths : p = s.p
  BY DEF Steps
<1> PICK v : v = Shows(f, r)
  OBVIOUS
<1>1. g \in Layers(r) /\ Unlinked(s.p, f, g, r)
  BY UnlinkIs
<1>2. Unlinked(p, f, g, r)
  BY <1>1
<1>3. v[p] # Absent /\ f.w[p] # Dir
  BY <1>2 DEF Unlinked
<1>4. v \in Trees /\ v[p] = IF f.w[p] # Absent THEN f.w[p] ELSE IF p \in f.D THEN Absent ELSE r[p]
  BY LayersAre
<1>5. v[p] # Dir
  BY <1>3, <1>4
<1>6. CanUnlink(v, p)
  BY <1>3, <1>4, <1>5, KindsOfNode DEF CanUnlink
<1>7. Promised(s, v) = With(v, p, Absent)
  BY <1>6 DEF Promised
<1> QED
  BY <1>1, <1>2, <1>7, RemovedShows

LEMMA WritePromise ==
  ASSUME NEW r, NEW f \in Layers(r), NEW s \in Steps, s.do = "writeFileSync", NEW g, Post(s, f, g, r)
  PROVE  Shows(g, r) = Promised(s, Shows(f, r))
<1> PICK p \in Paths, c \in Contents : p = s.p /\ c = s.bytes
  BY DEF Steps
<1> PICK v : v = Shows(f, r)
  OBVIOUS
<1>1. g \in Layers(r) /\ Wrote(s.p, s.bytes, f, g, r)
  BY WriteFileIs
<1>2. Wrote(p, c, f, g, r)
  BY <1>1
<1>3. CanCreate(v, p) \/ IsFileAt(v, p)
  BY <1>2 DEF Wrote
<1>4. Promised(s, v) = With(v, p, File(c))
  BY <1>3 DEF Promised
<1> QED
  BY <1>1, <1>2, <1>4, WroteShows

(* A file is renamed. *)
LEMMA RenameFilePromise ==
  ASSUME NEW r, NEW f \in Layers(r), NEW s \in Steps, s.do = "renameSync", IsFileAt(Shows(f, r), s.p),
         NEW g, Post(s, f, g, r)
  PROVE  Shows(g, r) = Promised(s, Shows(f, r))
<1> PICK p \in Paths, new \in Paths : p = s.p /\ new = s.new
  BY DEF Steps
<1> PICK v : v = Shows(f, r)
  OBVIOUS
<1> PICK c : c = v[p].bytes
  OBVIOUS
<1>1. v \in Trees /\ IsTree(v) /\ IsFileAt(v, p)
  BY LayersAre
<1>2. v[p] = File(c) /\ v[p] # Absent /\ v[p] # Dir
  BY <1>1, KindsOfNode
<1>3. /\ g \in Layers(r)
      /\ \E h \in Layers(r) : Wrote(new, c, f, h, r) /\ UnlinkedOld(p, new, h, g, r)
  BY <1>1, RenameIs
<1> PICK h \in Layers(r) : Wrote(new, c, f, h, r) /\ UnlinkedOld(p, new, h, g, r)
  BY <1>3
<1>4. Shows(h, r) = With(v, new, v[p])
  BY <1>2, WroteShows
<1>5. With(v, new, v[p])[new] = v[p] /\ \A q \in Paths : q # new => With(v, new, v[p])[q] = v[q]
  BY <1>1, WithIs
<1>6. CASE p = new
  <2>1. Promised(s, v) = v
    BY <1>6 DEF Promised, CanRename
  <2>2. Shows(g, r) = Shows(h, r)
    BY <1>3, <1>6, SameShown DEF UnlinkedOld
  <2>3. \A q \in Paths : Shows(h, r)[q] = v[q]
    BY <1>4, <1>5, <1>6
  <2>4. Shows(h, r) \in Trees
    BY LayersAre
  <2>5. Shows(h, r) = v
    BY <1>1, <2>3, <2>4, TreesEqual
  <2> QED
    BY <2>1, <2>2, <2>5
<1>7. CASE p # new
  <2>1. Shows(h, r)[p] # Absent
    BY <1>2, <1>4, <1>5, <1>7
  <2>2. Unlinked(p, h, g, r)
    BY <1>7, <2>1 DEF UnlinkedOld
  <2> PICK x : x = Shows(g, r)
    OBVIOUS
  <2>3. x = With(Shows(h, r), p, Absent) /\ x \in Trees /\ Shows(h, r) \in Trees
    BY <1>3, <2>2, RemovedShows, LayersAre
  <2>4. x[p] = Absent /\ x[new] = v[p] /\ \A q \in Paths : q # p /\ q # new => x[q] = v[q]
    <3>1. With(Shows(h, r), p, Absent)[p] = Absent
          /\ \A q \in Paths : q # p => With(Shows(h, r), p, Absent)[q] = Shows(h, r)[q]
      BY <2>3, WithIs
    <3> QED
      BY <1>4, <1>5, <1>7, <2>3, <3>1
  <2>5. CanCreate(v, new) \/ IsFileAt(v, new)
    BY DEF Wrote
  <2>6. v[<<>>] = Dir
    BY <1>1 DEF IsTree
  <2>7. p # <<>> /\ new # <<>>
    BY <1>2, <2>5, <2>6, NodesDiffer DEF CanCreate, IsFileAt
  <2>8. Parent(new) \in Paths /\ Parent(new) # new /\ v[Parent(new)] = Dir
    <3>1. IsFileAt(v, new) => v[new] # Absent
      BY NodesDiffer DEF IsFileAt
    <3> QED
      BY <1>1, <2>5, <2>7, <3>1, ParentIs DEF CanCreate, IsDirAt, IsTree
  <2>9. ~ IsPrefix(p, Parent(new))
    <3>1. SUFFICES ASSUME IsPrefix(p, Parent(new)) PROVE FALSE
      OBVIOUS
    <3>2. p # Parent(new) /\ v[Parent(new)] # Absent
      BY <1>2, <2>8, NodesDiffer
    <3>3. v[p] = Dir
      BY <1>1, <2>8, <3>1, <3>2, AboveIsDir
    <3> QED
      BY <1>2, <3>3
  <2>10. v[new] = Absent \/ IsFileAt(v, new)
    BY <2>5 DEF CanCreate
  <2>11. CanReplace(v, p, new)
    BY <1>2, <2>10 DEF CanReplace, IsDirAt
  <2>12. CanRename(With(v, new, Absent), p, new)
    <3>1. With(v, new, Absent)[new] = Absent /\ \A q \in Paths : q # new => With(v, new, Absent)[q] = v[q]
      BY <1>1, WithIs
    <3> QED
      BY <1>2, <1>7, <2>7, <2>8, <2>9, <3>1 DEF CanRename, IsDirAt
  <2>13. Promised(s, v) = Renamed(v, p, new)
    BY <2>11, <2>12 DEF Promised
  <2>14. ASSUME NEW q \in Paths PROVE Renamed(v, p, new)[q] = x[q]
    <3>1. CASE q = new
      <4>1. Twins(p, new, p, new) /\ IsPrefix(new, new)
        BY TwinsSelf, PrefixOrder
      <4>2. Renamed(v, p, new)[new] = v[p]
        BY <4>1, RenamedTwin
      <4> QED
        BY <2>4, <3>1, <4>2
    <3>2. CASE q # new /\ IsPrefix(new, q)
      <4>1. v[q] = Absent
        BY <1>1, <2>10, <3>2, AboveIsDir, NodesDiffer DEF IsFileAt
      <4>2. ASSUME NEW z \in Paths, Twins(p, new, z, q) PROVE v[z] = Absent
        <5>1. IsPrefix(p, z)
          BY <4>2 DEF Twins
        <5>2. z # p
          <6>1. SUFFICES ASSUME z = p PROVE FALSE
            OBVIOUS
          <6>2. q = new
            BY <4>2, <6>1, TwinsSelf, TwinsOne
          <6> QED
            BY <3>2, <6>2
        <5> QED
          BY <1>1, <1>2, <5>1, <5>2, AboveIsDir
      <4>3. Renamed(v, p, new)[q] = Absent
        <5>1. CASE \E z \in Paths : Twins(p, new, z, q)
          <6> PICK z \in Paths : Twins(p, new, z, q)
            BY <5>1
          <6>1. Renamed(v, p, new)[q] = v[z]
            BY RenamedTwin
          <6> QED
            BY <4>2, <6>1
        <5>2. CASE \A z \in Paths : ~ Twins(p, new, z, q)
          BY <3>2, <5>2, RenamedNone
        <5> QED
          BY <5>1, <5>2
      <4>4. x[q] = Absent
        BY <2>4, <3>2, <4>1
      <4> QED
        BY <4>3, <4>4
    <3>3. CASE ~ IsPrefix(new, q)
      <4>1. /\ IsPrefix(p, q) => Renamed(v, p, new)[q] = Absent
            /\ ~ IsPrefix(p, q) => Renamed(v, p, new)[q] = v[q]
        BY ONLY <3>3, p \in Paths, new \in Paths, q \in Paths, RenamedElse
      <4>2. q # new /\ IsPrefix(p, p)
        BY <3>3, PrefixOrder
      <4>3. IsPrefix(p, q) /\ q # p => v[q] = Absent
        BY <1>1, <1>2, AboveIsDir
      <4> QED
        BY <2>4, <4>1, <4>2, <4>3
    <3> QED
      BY <3>1, <3>2, <3>3
  <2>15. Renamed(v, p, new) \in Trees
    BY <1>1 DEF Renamed, Trees, Nodes
  <2> QED
    BY <2>3, <2>13, <2>14, <2>15, TreesEqual
<1> QED
  BY <1>6, <1>7

(* A directory is renamed. *)
LEMMA RenameDirPromise ==
  ASSUME NEW r, NEW f \in Layers(r), NEW s \in Steps, s.do = "renameSync", Shows(f, r)[s.p] = Dir,
         Needs(s, f, r), NEW g, Post(s, f, g, r)
  PROVE  Shows(g, r) = Promised(s, Shows(f, r))
<1> PICK p \in Paths, new \in Paths : p = s.p /\ new = s.new
  BY DEF Steps
<1> PICK v, x : v = Shows(f, r) /\ x = Shows(g, r)
  OBVIOUS
<1>1. g \in Layers(r) /\ (p = new => g = f) /\ (p # new => RenamedDir(p, new, f, g, r))
  BY RenameIs
<1>2. Unmixed(p, f, r)
  BY RenameIs
<1>3. /\ v \in Trees /\ x \in Trees /\ IsTree(v)
      /\ \A q \in Paths : /\ v[q] = IF f.w[q] # Absent THEN f.w[q] ELSE IF q \in f.D THEN Absent ELSE r[q]
                          /\ x[q] = IF g.w[q] # Absent THEN g.w[q] ELSE IF q \in g.D THEN Absent ELSE r[q]
  BY <1>1, LayersAre
<1>4. CASE p = new
  <2>1. Promised(s, v) = v
    BY <1>4 DEF Promised, CanRename
  <2> QED
    BY <1>1, <1>4, <2>1
<1>5. CASE p # new
  <2>1. /\ Apart(p, new) /\ Vacant(v, new) /\ v[Parent(new)] = Dir
        /\ g.D = f.D \union {z \in Paths : IsPrefix(p, z) /\ r[z] # Absent}
    BY <1>1, <1>5 DEF RenamedDir
  <2>2. PICK u \in Trees : MovedDir(p, new, f.w, u) /\ Copied(p, new, ReadBelow(p, r), u, g.w, r)
    BY <1>1, <1>5 DEF RenamedDir
  <2>3. p # <<>> /\ new # <<>>
    BY <2>1, PrefixOrder DEF Apart
  <2>4. Parent(new) \in Paths /\ Parent(new) # new /\ IsPrefix(Parent(new), new)
    BY <2>3, ParentIs
  <2>5. ~ IsPrefix(p, Parent(new))
    BY <2>1, <2>4, PrefixOrder DEF Apart
  <2>6. CanReplace(v, p, new)
    BY <2>1, NodesDiffer DEF CanReplace, IsFileAt, IsDirAt, Vacant
  <2>7. CanRename(With(v, new, Absent), p, new)
    <3>1. With(v, new, Absent)[new] = Absent /\ \A q \in Paths : q # new => With(v, new, Absent)[q] = v[q]
      BY <1>3, WithIs
    <3> QED
      BY <1>5, <2>1, <2>3, <2>4, <2>5, <3>1, NodesDiffer DEF CanRename, IsDirAt
  <2>8. Promised(s, v) = Renamed(v, p, new)
    BY <2>6, <2>7 DEF Promised
  <2>9. /\ u[new] = Dir
        /\ \A q \in Paths : IsPrefix(p, q) => u[q] = Absent
        /\ \A q \in Below(new) : /\ \A z \in Paths : Twins(p, new, z, q) => u[q] = f.w[z]
                                 /\ (\A z \in Paths : ~ Twins(p, new, z, q)) => u[q] = Absent
        /\ \A q \in Paths : ~ IsPrefix(p, q) /\ ~ IsPrefix(new, q) => u[q] = f.w[q]
    BY <2>2 DEF MovedDir
  <2>10. \A q \in Paths :
           /\ \A z \in ReadBelow(p, r) : Twins(p, new, z, q) => g.w[q] = r[z]
           /\ (\A z \in ReadBelow(p, r) : ~ Twins(p, new, z, q)) => g.w[q] = u[q]
    BY <2>2 DEF Copied
  <2>11. \A z : z \in ReadBelow(p, r) <=> z \in Paths /\ IsPrefix(p, z) /\ z # p /\ r[z] # Absent
    BY BelowIs DEF ReadBelow
  <2>12. ASSUME NEW q \in Paths PROVE Renamed(v, p, new)[q] = x[q]
    <3>1. CASE ~ IsPrefix(new, q)
      <4>1. /\ IsPrefix(p, q) => Renamed(v, p, new)[q] = Absent
            /\ ~ IsPrefix(p, q) => Renamed(v, p, new)[q] = v[q]
        BY ONLY <3>1, p \in Paths, new \in Paths, q \in Paths, RenamedElse
      <4>2. g.w[q] = u[q]
        BY <2>10, <3>1 DEF Twins
      <4>3. CASE IsPrefix(p, q)
        BY <1>3, <2>1, <2>9, <4>1, <4>2, <4>3
      <4>4. CASE ~ IsPrefix(p, q)
        <5>1. g.w[q] = f.w[q] /\ (q \in g.D <=> q \in f.D)
          BY <2>1, <2>9, <3>1, <4>2, <4>4
        <5> QED
          BY <1>3, <4>1, <4>4, <5>1
      <4> QED
        BY <4>3, <4>4
    <3>2. CASE q = new
      <4>1. Twins(p, new, p, new) /\ IsPrefix(new, new)
        BY TwinsSelf, PrefixOrder
      <4>2. Renamed(v, p, new)[new] = v[p]
        BY <4>1, RenamedTwin
      <4>3. ASSUME NEW z \in ReadBelow(p, r), Twins(p, new, z, new) PROVE FALSE
        <5>1. Twins(new, p, new, z) /\ Twins(new, p, new, p)
          BY <2>11, <4>3, TwinsTurn, TwinsSelf
        <5>2. z = p
          BY <2>11, <5>1, TwinsOne
        <5> QED
          BY <2>11, <5>2
      <4>4. g.w[new] = Dir
        BY <2>9, <2>10, <4>3
      <4> QED
        BY <1>3, <3>2, <4>2, <4>4, NodesDiffer
    <3>3. CASE IsPrefix(new, q) /\ q # new
      <4>1. q \in Below(new)
        BY <3>3, BelowIs
      <4>2. v[q] = Absent
        BY <1>3, <2>1, <4>1, NothingBelow
      <4>3. f.w[q] = Absent /\ (q \in g.D \/ r[q] = Absent)
        BY <1>3, <2>1, <4>2
      <4>4. CASE \E y \in Paths : Twins(p, new, y, q)
        <5> PICK y \in Paths : Twins(p, new, y, q)
          BY <4>4
        <5>1. Renamed(v, p, new)[q] = v[y]
          BY RenamedTwin
        <5>2. ASSUME NEW z \in Paths, Twins(p, new, z, q) PROVE z = y
          <6>1. Twins(new, p, q, z) /\ Twins(new, p, q, y)
            BY <5>2, TwinsTurn
          <6> QED
            BY <6>1, TwinsOne
        <5>3. IsPrefix(p, y) /\ y # p
          <6>1. SUFFICES ASSUME y = p PROVE FALSE
            BY DEF Twins
          <6>2. q = new
            BY <6>1, TwinsSelf, TwinsOne
          <6> QED
            BY <3>3, <6>2
        <5>4. CASE r[y] # Absent
          <6>1. y \in ReadBelow(p, r)
            BY <2>11, <5>3, <5>4
          <6>2. g.w[q] = r[y] /\ f.w[y] = Absent /\ y \notin f.D
            BY <1>2, <2>10, <6>1 DEF Unmixed
          <6> QED
            BY <1>3, <5>1, <5>4, <6>2
        <5>5. CASE r[y] = Absent
          <6>1. g.w[q] = u[q]
            BY <2>10, <2>11, <5>2, <5>5
          <6>2. g.w[q] = f.w[y]
            BY <2>9, <4>1, <6>1
          <6> QED
            BY <1>3, <4>3, <5>1, <5>5, <6>2
        <5> QED
          BY <5>4, <5>5
      <4>5. CASE \A y \in Paths : ~ Twins(p, new, y, q)
        <5>1. Renamed(v, p, new)[q] = Absent
          BY <3>3, <4>5, RenamedNone
        <5>2. g.w[q] = Absent
          BY <2>9, <2>10, <2>11, <4>1, <4>5
        <5> QED
          BY <1>3, <4>3, <5>1, <5>2
      <4> QED
        BY <4>4, <4>5
    <3> QED
      BY <3>1, <3>2, <3>3
  <2>13. Renamed(v, p, new) \in Trees
    BY <1>3 DEF Renamed, Trees, Nodes
  <2> QED
    BY <1>3, <2>8, <2>12, <2>13, TreesEqual
<1> QED
  BY <1>4, <1>5

LEMMA CallDone ==
  ASSUME NEW r, NEW f \in Layers(r), NEW s \in Steps, s.do \in Methods, Needs(s, f, r),
         s.do = "unlinkSync" => ~ (f.w[s.p] = Absent /\ Shows(f, r)[s.p] = Dir),
         NEW g, Post(s, f, g, r)
  PROVE  g \in Layers(r) /\ Shows(g, r) = Promised(s, Shows(f, r))
<1> PICK p \in Paths : p = s.p
  BY DEF Steps
<1>1. g \in Layers(r)
  BY DEF Post
<1>2. CASE s.do = "mkdirSync"
  BY <1>2, MkdirIs
<1>3. CASE s.do = "truncateSync"
  BY <1>3, TruncateIs
<1>4. CASE s.do = "rmdirSync"
  BY <1>4, RmdirIs
<1>5. CASE s.do = "chmodSync"
  BY <1>5, ChmodIs
<1>6. CASE s.do = "unlinkSync"
  <2>1. ~ (f.w[s.p] = Absent /\ Shows(f, r)[s.p] = Dir)
    BY <1>6
  <2>2. Shows(g, r) = Promised(s, Shows(f, r))
    BY ONLY <1>6, <2>1, f \in Layers(r), s \in Steps, Post(s, f, g, r), UnlinkPromise
  <2> QED
    BY <1>1, <2>2
<1>7. CASE s.do = "writeFileSync"
  <2>1. Shows(g, r) = Promised(s, Shows(f, r))
    BY ONLY <1>7, f \in Layers(r), s \in Steps, Post(s, f, g, r), WritePromise
  <2> QED
    BY <1>1, <2>1
<1>8. CASE s.do = "renameSync"
  <2>1. Shows(f, r)[s.p] # Absent
    BY <1>8, RenameIs
  <2>2. Shows(f, r)[p] = Absent \/ Shows(f, r)[p] = Dir \/ IsFileAt(Shows(f, r), p)
    BY LayersAre, KindsOfNode
  <2>3. CASE Shows(f, r)[s.p] = Dir
    BY <1>1, <1>8, <2>3, RenameDirPromise
  <2>4. CASE IsFileAt(Shows(f, r), s.p)
    BY <1>1, <1>8, <2>4, RenameFilePromise
  <2> QED
    BY <2>1, <2>2, <2>3, <2>4
<1> QED
  BY <1>1, <1>2, <1>3, <1>4, <1>5, <1>6, <1>7, <1>8 DEF Methods

LEMMA CallLeads ==
  ASSUME NEW r, NEW f \in Layers(r), NEW s \in Steps, s.do \in Methods, Needs(s, f, r),
         s.do = "unlinkSync" => ~ (f.w[s.p] = Absent /\ Shows(f, r)[s.p] = Dir)
  PROVE  Leads({f}, <<s>>, Showing(Promised(s, Shows(f, r)), r), Showing(Shows(f, r), r), r)
<1> PICK Z, T, X : Z = Showing(Promised(s, Shows(f, r)), r) /\ T = Showing(Shows(f, r), r) /\ X = {f}
  OBVIOUS
<1>1. X \subseteq Layers(r) /\ f \in T
  BY DEF Showing
<1>2. \A h \in X : Needs(s, h, r) /\ (Sure(s, h, r) \/ h \in T)
  BY <1>1
<1>3. \A h \in X : \A g \in Layers(r) : Post(s, h, g, r) => g \in Z
  <2>1. ASSUME NEW g \in Layers(r), Post(s, f, g, r) PROVE g \in Z
    <3>1. Shows(g, r) = Promised(s, Shows(f, r))
      BY <2>1, CallDone
    <3> QED
      BY <3>1 DEF Showing
  <2> QED
    BY <2>1
<1>4. Leads(X, <<s>>, Z, T, r)
  BY ONLY <1>1, <1>2, <1>3, LeadsOne
<1> QED
  BY <1>4

(* A step of the writable file system *)
LEMMA LayerOf ==
  ASSUME NEW r, NEW u, NEW D, D \subseteq Paths, Layered(u, r, D), DirsCover(u, r, D)
  PROVE  [w |-> u, D |-> D] \in Layers(r)
<1>1. u \in Trees
  BY DEF Layered
<1> PICK g : g = [w |-> u, D |-> D]
  OBVIOUS
<1>2. g \in [w : Trees, D : SUBSET Paths] /\ g.w = u /\ g.D = D
  BY <1>1
<1> QED
  BY <1>2 DEF Layers

LEMMA WritableKeepsLayers ==
  ASSUME NEW r, NEW f \in Layers(r), NEW s \in Steps, s.do \in OnWritable, CanDoIn(s, f.w), Needs(s, f, r),
         NEW u, DoneIn(s, f.w, u)
  PROVE  Layered(u, r, f.D) /\ DirsCover(u, r, f.D)
<1> PICK p \in Paths, new \in Paths : p = s.p /\ new = s.new
  BY DEF Steps
<1> PICK c \in Contents : c = s.bytes
  BY DEF Steps
<1> PICK v, w, D : v = Shows(f, r) /\ w = f.w /\ D = f.D
  OBVIOUS
<1>1. /\ Layered(w, r, D) /\ DirsCover(w, r, D) /\ w \in Trees /\ IsTree(w) /\ v \in Trees /\ IsTree(v)
      /\ \A q \in Paths : v[q] = IF w[q] # Absent THEN w[q] ELSE IF q \in D THEN Absent ELSE r[q]
  BY LayersAre
<1>2. \A q \in Paths : w[q] = Dir /\ IsFileAt(r, q) => q \in D
  BY <1>1 DEF DirsCover
<1>3. CASE s.do = "_writable.mkdirSync"
  <2>1. CanCreate(w, p) /\ u = With(w, p, Dir)
    BY <1>3 DEF CanDoIn, DoneIn
  <2>2. Layered(u, r, D)
    BY <1>1, <2>1, DirLayered
  <2>3. v[p] \in {Absent, Dir}
    BY <1>3, WritableMkdirIs
  <2>4. IsFileAt(r, p) => p \in D
    BY <1>1, <2>1, <2>3, NodesDiffer DEF CanCreate, IsFileAt
  <2>5. \A q \in Paths : q # p => u[q] = w[q]
    BY <1>1, <2>1, WithIs
  <2>6. DirsCover(u, r, D)
    BY <1>2, <2>4, <2>5 DEF DirsCover
  <2> QED
    BY <2>2, <2>6
<1>4. CASE s.do \in {"_writable.rmdirSync", "_writable.unlinkSync"}
  <2>1. (CanRmdir(w, p) \/ CanUnlink(w, p)) /\ u = With(w, p, Absent)
    BY <1>4 DEF CanDoIn, DoneIn
  <2>2. Layered(u, r, D)
    BY <1>1, <2>1, RemovedLayered
  <2>3. u[p] = Absent /\ \A q \in Paths : q # p => u[q] = w[q]
    BY <1>1, <2>1, WithIs
  <2>4. DirsCover(u, r, D)
    BY <1>2, <2>3, NodesDiffer DEF DirsCover
  <2> QED
    BY <2>2, <2>4
<1>5. CASE s.do \in {"_writable.openSync", "_writable.write"}
  <2>1. u = With(w, p, File(c)) /\ (IsFileAt(w, p) \/ (s.do = "_writable.openSync" /\ CanCreate(w, p)))
    BY <1>5 DEF CanDoIn, DoneIn
  <2>2. IsFileAt(w, p) \/ (CanCreate(w, p) /\ (r[p] # Dir \/ p \in D))
    <3>1. s.do = "_writable.openSync" => v[p] # Dir \/ w[p] # Absent
      BY WritableOpenIs
    <3> QED
      BY <1>1, <2>1, <3>1 DEF CanCreate
  <2>3. Layered(u, r, D)
    BY <1>1, <2>1, <2>2, FileLayered
  <2>4. u[p] = File(c) /\ \A q \in Paths : q # p => u[q] = w[q]
    BY <1>1, <2>1, WithIs
  <2>5. DirsCover(u, r, D)
    BY <1>2, <2>4, NodesDiffer DEF DirsCover
  <2> QED
    BY <2>3, <2>5
<1>6. CASE s.do = "_writable.renameSync"
  <2>1. CanRename(w, p, new) /\ u = Renamed(w, p, new)
    BY <1>6 DEF CanDoIn, DoneIn
  <2>2. w[p] = Dir /\ Vacant(v, new)
    BY <1>6, WritableRenameIs
  <2>3. Vacant(Over(w, r, D), new)
    BY <2>2 DEF Shows
  <2>4. Layered(u, r, D)
    BY <1>1, <2>1, <2>2, <2>3, RenameLayered
  <2>5. ASSUME NEW q \in Paths, u[q] = Dir, IsFileAt(r, q) PROVE q \in D
    <3>1. CASE ~ IsPrefix(new, q)
      <4>1. /\ IsPrefix(p, q) => u[q] = Absent
            /\ ~ IsPrefix(p, q) => u[q] = w[q]
        BY ONLY <2>1, <3>1, p \in Paths, new \in Paths, q \in Paths, RenamedElse
      <4> QED
        BY <1>2, <2>5, <4>1, NodesDiffer
    <3>2. CASE q = new
      <4>1. ~ IsFileAt(w, new) => w[new] = Absent
        BY <2>1 DEF CanRename
      <4>2. v[new] = Absent \/ v[new] = Dir
        BY <2>2 DEF Vacant
      <4>3. w[new] = Absent
        BY <1>1, <4>1, <4>2, NodesDiffer DEF IsFileAt
      <4>4. r[new] # Dir /\ r[new] # Absent
        BY <2>5, <3>2, NodesDiffer DEF IsFileAt
      <4> QED
        BY <1>1, <3>2, <4>2, <4>3, <4>4
    <3>3. CASE IsPrefix(new, q) /\ q # new
      <4>1. q \in Below(new)
        BY <3>3, BelowIs
      <4>2. v[q] = Absent
        BY <1>1, <2>2, <4>1, NothingBelow
      <4>3. r[q] # Absent
        BY <2>5, NodesDiffer DEF IsFileAt
      <4> QED
        BY <1>1, <4>2, <4>3
    <3> QED
      BY <3>1, <3>2, <3>3
  <2> QED
    BY <2>4, <2>5 DEF DirsCover
<1> QED
  BY <1>3, <1>4, <1>5, <1>6 DEF OnWritable

LEMMA WritablePost ==
  ASSUME NEW r, NEW f \in Layers(r), NEW s \in Steps, s.do \in OnWritable, CanDoIn(s, f.w), Needs(s, f, r),
         NEW u, DoneIn(s, f.w, u)
  PROVE  Post(s, f, [w |-> u, D |-> f.D], r)
<1> PICK D : D = f.D
  OBVIOUS
<1> PICK g : g = [w |-> u, D |-> D]
  OBVIOUS
<1>1. g \in Layers(r)
  <2>1. Layered(u, r, D) /\ DirsCover(u, r, D)
    BY WritableKeepsLayers
  <2>2. D \subseteq Paths
    BY LayersAre
  <2> QED
    BY <2>1, <2>2, LayerOf
<1>2. g.w = u /\ g.D = f.D
  OBVIOUS
<1>3. Post(s, f, g, r)
  BY <1>1, <1>2 DEF Post, OnWritable
<1> QED
  BY <1>3

LEMMA DeletePost ==
  ASSUME NEW r, NEW f \in Layers(r), NEW s \in Steps, s.do = "deletePath", Needs(s, f, r)
  PROVE  Post(s, f, [w |-> f.w, D |-> f.D \union {s.p}], r)
<1> PICK p \in Paths : p = s.p
  BY DEF Steps
<1> PICK w, D : w = f.w /\ D = f.D \union {p}
  OBVIOUS
<1>1. Layered(f.w, r, f.D) /\ DirsCover(f.w, r, f.D) /\ f.D \subseteq Paths
  BY LayersAre
<1>2. Children(r, p) \subseteq f.D
  BY DeletePathIs DEF Emptied
<1>3. Layered(w, r, D)
  BY <1>1, <1>2, DeletedLayered
<1>4. DirsCover(w, r, D) /\ D \subseteq Paths
  BY <1>1 DEF DirsCover
<1> PICK g : g = [w |-> w, D |-> D]
  OBVIOUS
<1>5. g \in Layers(r)
  BY <1>3, <1>4, LayerOf
<1>6. g.w = f.w /\ g.D = f.D \union {s.p}
  OBVIOUS
<1>7. Post(s, f, g, r)
  BY <1>5, <1>6, DeletePathIs
<1> QED
  BY <1>7

(* What is so between the steps of a call c, of which t is left and a said *)
KeptOf(f, r, t, c, a) ==
  /\ f \in Layers(r)
  /\ t # <<>> => Leads({f}, t, Showing(c.after, r), Showing(c.before, r), r)
  /\ a = "returned" => Shows(f, r) = c.after
  /\ a = "threw" => Shows(f, r) = c.before

LEMMA ThrowKept ==
  ASSUME NEW f, NEW r, NEW t \in Seq(Steps), t # <<>>, NEW c, NEW a, KeptOf(f, r, t, c, a), ~ Sure(t[1], f, r)
  PROVE  KeptOf(f, r, <<>>, c, "threw")
<1>1. Leads({f}, t, Showing(c.after, r), Showing(c.before, r), r)
  BY DEF KeptOf
<1>2. f \in Layers(r) /\ f \in Showing(c.before, r)
  BY <1>1, LeadsOn
<1> QED
  BY <1>2 DEF KeptOf, Showing

LEMMA LeadsKept ==
  ASSUME NEW r, NEW f \in Layers(r), NEW t, NEW c,
         Leads({f}, t, Showing(c.after, r), Showing(c.before, r), r)
  PROVE  KeptOf(f, r, t, c, IF t = <<>> THEN "returned" ELSE "none")
<1>1. CASE t = <<>>
  <2>1. Leads({f}, <<>>, Showing(c.after, r), Showing(c.before, r), r)
    BY <1>1
  <2>2. f \in Showing(c.after, r)
    BY <2>1, LeadsEnd
  <2> QED
    BY <1>1, <2>2 DEF KeptOf, Showing
<1>2. CASE t # <<>>
  BY <1>2 DEF KeptOf
<1> QED
  BY <1>1, <1>2

LEMMA GotoKept ==
  ASSUME NEW f, NEW r, NEW t \in Seq(Steps), t # <<>>, NEW c, NEW a, KeptOf(f, r, t, c, a),
         NEW steps \in Seq(Steps), Fulfils(t[1], steps, f, r), NEW u, u = steps \o Tail(t)
  PROVE  KeptOf(f, r, u, c, IF u = <<>> THEN "returned" ELSE "none")
<1>1. Leads({f}, t, Showing(c.after, r), Showing(c.before, r), r) /\ f \in Layers(r)
  BY DEF KeptOf
<1>2. Leads({f}, u, Showing(c.after, r), Showing(c.before, r), r)
  BY <1>1, StepReplaced
<1> QED
  BY <1>1, <1>2, LeadsKept

LEMMA PostKept ==
  ASSUME NEW f, NEW r, NEW t \in Seq(Steps), t # <<>>, NEW c, NEW a, KeptOf(f, r, t, c, a),
         NEW g, Post(t[1], f, g, r), NEW u, u = <<>> \o Tail(t)
  PROVE  KeptOf(g, r, u, c, IF u = <<>> THEN "returned" ELSE "none")
<1>1. Leads({f}, t, Showing(c.after, r), Showing(c.before, r), r) /\ g \in Layers(r)
  BY DEF KeptOf, Post
<1>2. Leads({g}, u, Showing(c.after, r), Showing(c.before, r), r)
  BY <1>1, StepTaken
<1> QED
  BY <1>1, <1>2, LeadsKept

LEMMA NeedsKept ==
  ASSUME NEW f, NEW r, NEW t \in Seq(Steps), t # <<>>, NEW c, NEW a, KeptOf(f, r, t, c, a)
  PROVE  f \in Layers(r) /\ Needs(t[1], f, r)
<1>1. Leads({f}, t, Showing(c.after, r), Showing(c.before, r), r)
  BY DEF KeptOf
<1> QED
  BY <1>1, LeadsOn

----------------------------------------------------------------------------
(* The methods: each throws where it may, or does its part by its steps. *)

Layer == [w |-> writable, D |-> DeletedFiles]
Taken(s, f, r) ==
  /\ OverlayTyped /\ r = readable /\ f = Layer /\ f \in Layers(r)
  /\ s = step /\ s \in Steps /\ Needs(s, f, r)
Faithful(s, f, r) ==
  \/ Throw /\ ~ Sure(s, f, r)
  \/ \E steps \in Seq(Steps) : Goto(steps) /\ Fulfils(s, steps, f, r)

LEMMA TakenIs ==
  ASSUME NEW s, NEW f, NEW r, Taken(s, f, r)
  PROVE  /\ f \in Layers(r) /\ f.w = writable /\ f.D = DeletedFiles /\ r = readable
         /\ View = Shows(f, r)
         /\ s \in Steps /\ s.p \in Paths /\ s.new \in Paths /\ s.bytes \in Contents
         /\ s = step /\ Needs(s, f, r)
         /\ \A p \in Paths : View[p] = IF f.w[p] # Absent THEN f.w[p] ELSE IF p \in f.D THEN Absent ELSE r[p]
<1>1. f.w = writable /\ f.D = DeletedFiles /\ r = readable /\ f \in Layers(r)
  BY DEF Taken, Layer
<1>2. View = Shows(f, r)
  <2>1. View = Over(writable, readable, DeletedFiles)
    BY ViewIs DEF Taken
  <2> QED
    BY <1>1, <2>1 DEF Shows
<1>3. s \in Steps /\ s = step /\ Needs(s, f, r)
  BY DEF Taken
<1>4. s.p \in Paths /\ s.new \in Paths /\ s.bytes \in Contents
  BY <1>3 DEF Steps
<1>5. \A p \in Paths :
        Shows(f, r)[p] = IF f.w[p] # Absent THEN f.w[p] ELSE IF p \in f.D THEN Absent ELSE r[p]
  BY <1>1, LayersAre
<1> QED
  BY <1>1, <1>2, <1>3, <1>4, <1>5

LEMMA ParentsOf ==
  ASSUME OverlayTyped, NEW f, f.w = writable, NEW p \in Paths
  PROVE  CreateParents(p) \in Seq(Steps) /\ Parents(CreateParents(p), p, f)
<1> PICK t : t = CreateParents(p)
  OBVIOUS
<1>1. /\ t \in Seq(Doable(readable))
      /\ \A j \in 1 .. Len(t) :
           LET s == t[j]
           IN /\ s.do = "createParentDirectory" /\ s.p \in Paths
              /\ IsPrefix(s.p, p) /\ s.p # p /\ writable[s.p] = Absent
  BY ParentsDoable DEF OverlayTyped
<1>2. t \in Seq(Steps)
  <2>1. Doable(readable) \subseteq Steps
    BY DEF Doable
  <2> QED
    BY <1>1, <2>1, ElementOfSeq, SeqDef
<1>3. Parents(t, p, f)
  BY <1>1 DEF Parents
<1> QED
  BY <1>2, <1>3

LEMMA SomeSteps ==
  ASSUME NEW do \in (Checking \ {"renameSync"}) \union OnWritable \union {"deletePath"},
         NEW p \in Paths, NEW c \in Contents
  PROVE  <<Step(do, p)>> \in Seq(Steps) /\ <<StepWith(do, p, c)>> \in Seq(Steps)
<1>1. do \in Checking \union OnWritable \union {"renameChildren", "deletePath"}
  OBVIOUS
<1>2. Step(do, p) \in Steps /\ StepWith(do, p, c) \in Steps
  BY <1>1, StepOf
<1> QED
  BY ONLY <1>2, Tuples

LEMMA CreateParentFaithful ==
  ASSUME NEW s, NEW f, NEW r, Taken(s, f, r), CreateParentDirectory
  PROVE  Faithful(s, f, r)
<1> PICK p : p = s.p
  OBVIOUS
<1>1. /\ f \in Layers(r) /\ View = Shows(f, r) /\ s \in Steps /\ p \in Paths /\ s = step /\ Needs(s, f, r)
      /\ Empty \in Contents
  BY TakenIs, TreesAssumption
<1>2. s.do = "createParentDirectory" /\ (View[p] # Absent => Goto(<<Step("_writable.mkdirSync", p)>>))
      /\ (View[p] = Absent => Throw)
  BY <1>1 DEF CreateParentDirectory
<1>3. <<Step("_writable.mkdirSync", p)>> \in Seq(Steps)
  <2>1. "_writable.mkdirSync" \in OnWritable
    BY DEF OnWritable
  <2> QED
    BY <1>1, <2>1, SomeSteps
<1>4. CASE View[p] = Absent
  <2>1. ~ Sure(s, f, r)
    BY <1>1, <1>2, <1>4, CreateParentIs, NodesDiffer
  <2> QED
    BY <1>2, <1>4, <2>1 DEF Faithful
<1>5. CASE View[p] # Absent
  <2>1. Fulfils(s, <<Step("_writable.mkdirSync", p)>>, f, r)
    BY <1>1, <1>2, <1>5, CreateParentDirectoryFulfils
  <2> QED
    BY <1>2, <1>3, <1>5, <2>1 DEF Faithful
<1> QED
  BY <1>4, <1>5

LEMMA MkdirFaithful ==
  ASSUME NEW s, NEW f, NEW r, Taken(s, f, r), MkdirSync
  PROVE  Faithful(s, f, r)
<1> PICK p : p = s.p
  OBVIOUS
<1>1. /\ f \in Layers(r) /\ View = Shows(f, r) /\ s \in Steps /\ p \in Paths /\ s = step /\ Needs(s, f, r)
      /\ Empty \in Contents /\ f.w = writable /\ OverlayTyped
  BY TakenIs, TreesAssumption DEF Taken
<1> PICK t, a : t = CreateParents(p) /\ a = <<Step("_writable.mkdirSync", p)>>
  OBVIOUS
<1>2. s.do = "mkdirSync" /\ (View[p] = Absent => Goto(t \o a)) /\ (View[p] # Absent => Throw)
  BY <1>1 DEF MkdirSync
<1>3. t \in Seq(Steps) /\ Parents(t, p, f)
  BY <1>1, ParentsOf
<1>4. a \in Seq(Steps)
  <2>1. "_writable.mkdirSync" \in OnWritable
    BY DEF OnWritable
  <2> QED
    BY <1>1, <2>1, SomeSteps
<1>5. t \o a \in Seq(Steps)
  BY ONLY <1>3, <1>4, ConcatProperties
<1>6. CASE View[p] = Absent
  <2>1. Fulfils(s, t \o a, f, r)
    BY <1>1, <1>2, <1>3, <1>6, MkdirSyncFulfils
  <2> QED
    BY <1>2, <1>5, <1>6, <2>1 DEF Faithful
<1>7. CASE View[p] # Absent
  BY <1>2, <1>7, MkdirIs DEF Faithful
<1> QED
  BY <1>6, <1>7

LEMMA WriteFaithful ==
  ASSUME NEW s, NEW f, NEW r, Taken(s, f, r), WriteFileSync
  PROVE  Faithful(s, f, r)
<1> PICK p, c : p = s.p /\ c = s.bytes
  OBVIOUS
<1>1. /\ f \in Layers(r) /\ s \in Steps /\ p \in Paths /\ c \in Contents /\ s = step /\ Needs(s, f, r)
      /\ f.w = writable /\ OverlayTyped
  BY TakenIs DEF Taken
<1> PICK t : t = CreateParents(p)
  OBVIOUS
<1> PICK a, b : a = <<Step("_writable.openSync", p)>> /\ b = <<StepWith("_writable.write", p, c)>>
  OBVIOUS
<1>2. s.do = "writeFileSync" /\ Goto((t \o a) \o b)
  BY <1>1 DEF WriteFileSync, Open
<1>3. t \in Seq(Steps) /\ Parents(t, p, f)
  BY <1>1, ParentsOf
<1>4. a \in Seq(Steps) /\ b \in Seq(Steps)
  <2>1. "_writable.openSync" \in OnWritable /\ "_writable.write" \in OnWritable
    BY DEF OnWritable
  <2> QED
    BY <1>1, <2>1, SomeSteps
<1>5. (t \o a) \o b \in Seq(Steps)
  <2>1. t \o a \in Seq(Steps)
    BY ONLY <1>3, <1>4, ConcatProperties
  <2> QED
    BY ONLY <1>4, <2>1, ConcatProperties
<1>6. Fulfils(s, (t \o a) \o b, f, r)
  BY <1>1, <1>2, <1>3, WriteFileFulfils
<1> QED
  BY <1>2, <1>5, <1>6 DEF Faithful

LEMMA TruncateFaithful ==
  ASSUME NEW s, NEW f, NEW r, Taken(s, f, r), TruncateSync
  PROVE  Faithful(s, f, r)
<1> PICK p, c : p = s.p /\ c = s.bytes
  OBVIOUS
<1>1. /\ f \in Layers(r) /\ s \in Steps /\ p \in Paths /\ c \in Contents /\ s = step
      /\ f.w = writable /\ View = Shows(f, r) /\ OverlayTyped
  BY TakenIs DEF Taken
<1> PICK t : t = CreateParents(p)
  OBVIOUS
<1> PICK a, b : a = <<Step("_writable.openSync", p)>> /\ b = <<StepWith("_writable.write", p, c)>>
  OBVIOUS
<1>2. /\ s.do = "truncateSync"
      /\ \/ f.w[p] # Absent /\ Goto(b)
         \/ IsFileAt(View, p) /\ Goto((t \o a) \o b)
         \/ Throw
  BY <1>1 DEF TruncateSync, Open, InWritable
<1>3. t \in Seq(Steps) /\ Parents(t, p, f)
  BY <1>1, ParentsOf
<1>4. a \in Seq(Steps) /\ b \in Seq(Steps)
  <2>1. "_writable.openSync" \in OnWritable /\ "_writable.write" \in OnWritable
    BY DEF OnWritable
  <2> QED
    BY <1>1, <2>1, SomeSteps
<1>5. (t \o a) \o b \in Seq(Steps)
  <2>1. t \o a \in Seq(Steps)
    BY ONLY <1>3, <1>4, ConcatProperties
  <2> QED
    BY ONLY <1>4, <2>1, ConcatProperties
<1>6. f.w[p] # Absent => Fulfils(s, b, f, r)
  BY <1>1, <1>2, TruncateSyncFulfils
<1>7. IsFileAt(View, p) => Fulfils(s, (t \o a) \o b, f, r)
  BY <1>1, <1>2, <1>3, TruncateSyncFulfils
<1>8. ~ Sure(s, f, r)
  BY <1>2, TruncateIs
<1> QED
  BY <1>2, <1>4, <1>5, <1>6, <1>7, <1>8 DEF Faithful

LEMMA UnlinkFaithful ==
  ASSUME NEW s, NEW f, NEW r, Taken(s, f, r), UnlinkSync
  PROVE  Faithful(s, f, r)
<1> PICK p : p = s.p
  OBVIOUS
<1>1. /\ f \in Layers(r) /\ View = Shows(f, r) /\ s \in Steps /\ p \in Paths /\ s = step /\ Needs(s, f, r)
      /\ Empty \in Contents /\ f.w = writable
  BY TakenIs, TreesAssumption
<1> PICK a, b : a = <<Step("_writable.unlinkSync", p)>> /\ b = <<Step("deleteIfExists", p)>>
  OBVIOUS
<1>2. /\ s.do = "unlinkSync" /\ (View[p] = Absent => Throw)
      /\ View[p] # Absent => \/ f.w[p] # Absent /\ Goto(a \o b)
                             \/ f.w[p] = Absent /\ Goto(<<>> \o b)
  BY <1>1 DEF UnlinkSync, InWritable
<1>3. a \in Seq(Steps) /\ b \in Seq(Steps) /\ <<>> \in Seq(Steps)
  <2>1. "_writable.unlinkSync" \in OnWritable /\ "deleteIfExists" \in Checking \ {"renameSync"}
    BY DEF OnWritable, Checking
  <2> QED
    BY <1>1, <2>1, SomeSteps
<1>4. a \o b \in Seq(Steps) /\ <<>> \o b \in Seq(Steps)
  BY ONLY <1>3, ConcatProperties
<1>5. CASE View[p] = Absent
  <2>1. ~ Sure(s, f, r)
    BY <1>1, <1>2, <1>5, UnlinkIs
  <2> QED
    BY <1>2, <1>5, <2>1 DEF Faithful
<1>6. CASE View[p] # Absent
  <2>1. /\ f.w[p] # Absent => Fulfils(s, a \o b, f, r)
        /\ f.w[p] = Absent => Fulfils(s, <<>> \o b, f, r)
    BY <1>1, <1>2, <1>6, UnlinkSyncFulfils
  <2> QED
    BY <1>2, <1>4, <1>6, <2>1 DEF Faithful
<1> QED
  BY <1>5, <1>6

LEMMA DeleteIfExistsFaithful ==
  ASSUME NEW s, NEW f, NEW r, Taken(s, f, r), DeleteIfExists
  PROVE  Faithful(s, f, r)
<1> PICK p : p = s.p
  OBVIOUS
<1>1. /\ f \in Layers(r) /\ View = Shows(f, r) /\ s \in Steps /\ p \in Paths /\ s = step /\ Needs(s, f, r)
      /\ Empty \in Contents
  BY TakenIs, TreesAssumption
<1> PICK b : b = <<Step("deletePath", p)>>
  OBVIOUS
<1>2. /\ s.do = "deleteIfExists" /\ (View[p] = Absent => Goto(<<>>)) /\ (View[p] # Absent => Goto(b))
  BY <1>1 DEF DeleteIfExists
<1>3. b \in Seq(Steps) /\ <<>> \in Seq(Steps)
  BY <1>1, SomeSteps
<1>4. /\ View[p] = Absent => Fulfils(s, <<>>, f, r)
      /\ View[p] # Absent => Fulfils(s, b, f, r)
  BY <1>1, <1>2, DeleteIfExistsFulfils
<1> QED
  BY <1>2, <1>3, <1>4 DEF Faithful

LEMMA RmdirFaithful ==
  ASSUME NEW s, NEW f, NEW r, Taken(s, f, r), RmdirSync
  PROVE  Faithful(s, f, r)
<1> PICK p : p = s.p
  OBVIOUS
<1>1. /\ f \in Layers(r) /\ View = Shows(f, r) /\ s \in Steps /\ p \in Paths /\ s = step
      /\ Empty \in Contents /\ f.w = writable
  BY TakenIs, TreesAssumption
<1> PICK a, b : a = <<Step("_writable.rmdirSync", p)>> /\ b = <<Step("deleteIfEmpty", p)>>
  OBVIOUS
<1>2. /\ s.do = "rmdirSync" /\ (View[p] = Absent => Throw)
      /\ View[p] # Absent => \/ f.w[p] # Absent /\ Goto(a \o b)
                             \/ f.w[p] = Absent /\ Goto(<<>> \o b)
  BY <1>1 DEF RmdirSync, InWritable
<1>3. a \in Seq(Steps) /\ b \in Seq(Steps) /\ <<>> \in Seq(Steps)
  <2>1. "_writable.rmdirSync" \in OnWritable /\ "deleteIfEmpty" \in Checking \ {"renameSync"}
    BY DEF OnWritable, Checking
  <2> QED
    BY <1>1, <2>1, SomeSteps
<1>4. a \o b \in Seq(Steps) /\ <<>> \o b \in Seq(Steps)
  BY ONLY <1>3, ConcatProperties
<1>5. CASE View[p] = Absent
  BY <1>2, <1>5, RmdirIs DEF Faithful
<1>6. CASE View[p] # Absent
  <2>1. /\ f.w[p] # Absent => Fulfils(s, a \o b, f, r)
        /\ f.w[p] = Absent => Fulfils(s, <<>> \o b, f, r)
    BY <1>1, <1>2, <1>6, RmdirSyncFulfils
  <2> QED
    BY <1>2, <1>4, <1>6, <2>1 DEF Faithful
<1> QED
  BY <1>5, <1>6

LEMMA DeleteIfEmptyFaithful ==
  ASSUME NEW s, NEW f, NEW r, Taken(s, f, r), DeleteIfEmpty
  PROVE  Faithful(s, f, r)
<1> PICK p : p = s.p
  OBVIOUS
<1>1. /\ f \in Layers(r) /\ View = Shows(f, r) /\ s \in Steps /\ p \in Paths /\ s = step
      /\ Empty \in Contents /\ f.D = DeletedFiles /\ r = readable /\ OverlayTyped
  BY TakenIs, TreesAssumption DEF Taken
<1> PICK b : b = <<Step("deletePath", p)>>
  OBVIOUS
<1>2. /\ s.do = "deleteIfEmpty"
      /\ \/ View[p] = Absent /\ Goto(<<>>)
         \/ View[p] = Dir /\ Listing(p) = {} /\ Goto(b)
         \/ View[p] # Absent /\ Throw
  BY <1>1 DEF DeleteIfEmpty, IsDirAt
<1>3. b \in Seq(Steps) /\ <<>> \in Seq(Steps)
  <2>1. "deletePath" \in (Checking \ {"renameSync"}) \union OnWritable \union {"deletePath"}
    OBVIOUS
  <2> QED
    BY <1>1, <2>1, SomeSteps
<1>4. CASE View[p] = Absent /\ Goto(<<>>)
  <2>1. Fulfils(s, <<>>, f, r)
    BY <1>1, <1>2, <1>4, DeleteIfEmptyFulfils
  <2> QED
    BY <1>3, <1>4, <2>1 DEF Faithful
<1>5. CASE View[p] = Dir /\ Listing(p) = {} /\ Goto(b)
  <2>1. Emptied(r, f.D, p) /\ Children(Shows(f, r), p) = {}
    BY <1>1, <1>5, NothingListed
  <2>2. Fulfils(s, b, f, r)
    BY <1>1, <1>2, <1>5, <2>1, DeleteIfEmptyFulfils
  <2> QED
    BY <1>3, <1>5, <2>2 DEF Faithful
<1>6. CASE View[p] # Absent /\ Throw
  <2>1. ~ Sure(s, f, r)
    <3>1. s.do = "deleteIfEmpty" /\ Shows(f, r)[s.p] # Absent
      BY <1>1, <1>2, <1>6
    <3> QED
      BY ONLY <3>1, DeleteIfEmptySure
  <2> QED
    BY <1>6, <2>1 DEF Faithful
<1> QED
  BY <1>2, <1>4, <1>5, <1>6

LEMMA UnlinkOldFaithful ==
  ASSUME NEW s, NEW f, NEW r, Taken(s, f, r), UnlinkOld
  PROVE  Faithful(s, f, r)
<1> PICK p : p = s.p
  OBVIOUS
<1>1. /\ f \in Layers(r) /\ View = Shows(f, r) /\ s \in Steps /\ p \in Paths /\ s = step /\ Needs(s, f, r)
      /\ Empty \in Contents
  BY TakenIs, TreesAssumption
<1> PICK b : b = <<Step("unlinkSync", p)>>
  OBVIOUS
<1>2. /\ s.do = "unlinkOld"
      /\ s.p # s.new /\ View[s.p] # Absent => Goto(b)
      /\ ~ (s.p # s.new /\ View[s.p] # Absent) => Goto(<<>>)
  BY <1>1 DEF UnlinkOld
<1>3. b \in Seq(Steps) /\ <<>> \in Seq(Steps)
  <2>1. "unlinkSync" \in Checking \ {"renameSync"}
    BY DEF Checking, Methods
  <2> QED
    BY <1>1, <2>1, SomeSteps
<1>4. /\ s.p # s.new /\ View[s.p] # Absent => Fulfils(s, b, f, r)
      /\ ~ (s.p # s.new /\ View[s.p] # Absent) => Fulfils(s, <<>>, f, r)
  BY <1>1, <1>2, UnlinkOldFulfils
<1> QED
  BY <1>2, <1>3, <1>4 DEF Faithful

LEMMA ChmodFaithful ==
  ASSUME NEW s, NEW f, NEW r, Taken(s, f, r), OperateOnWritable
  PROVE  Faithful(s, f, r)
<1> PICK p : p = s.p
  OBVIOUS
<1>1. /\ f \in Layers(r) /\ View = Shows(f, r) /\ s \in Steps /\ p \in Paths /\ s = step
      /\ Empty \in Contents /\ f.w = writable /\ r = readable /\ OverlayTyped
  BY TakenIs, TreesAssumption DEF Taken
<1> PICK data : data = r[p].bytes
  OBVIOUS
<1> PICK a, b : a = <<Step("_writable.mkdirSync", p)>> /\ b = <<StepWith("writeFileSync", p, data)>>
  OBVIOUS
<1>2. /\ s.do = "chmodSync"
      /\ \/ Throw \/ Goto(<<>>)
         \/ f.w[p] = Absent /\ View[p] = Dir /\ Goto(a)
         \/ f.w[p] = Absent /\ IsFileAt(View, p) /\ Goto(b)
  BY <1>1 DEF OperateOnWritable, InWritable, IsDirAt
<1>3. a \in Seq(Steps) /\ <<>> \in Seq(Steps)
  <2>1. "_writable.mkdirSync" \in OnWritable
    BY DEF OnWritable
  <2> QED
    BY <1>1, <2>1, SomeSteps
<1>4. f.w[p] = Absent /\ IsFileAt(View, p) => b \in Seq(Steps)
  <2>1. f.w[p] = Absent /\ IsFileAt(View, p) => data \in Contents
    BY <1>1, FileShown
  <2>2. "writeFileSync" \in Checking \ {"renameSync"}
    BY DEF Checking, Methods
  <2> QED
    BY <1>1, <2>1, <2>2, SomeSteps
<1>5. /\ Fulfils(s, <<>>, f, r)
      /\ f.w[p] = Absent /\ View[p] = Dir => Fulfils(s, a, f, r)
      /\ f.w[p] = Absent /\ IsFileAt(View, p) => Fulfils(s, b, f, r)
  BY <1>1, <1>2, ChmodSyncFulfils
<1>6. ~ Sure(s, f, r)
  BY <1>2, ChmodIs
<1> QED
  BY <1>2, <1>3, <1>4, <1>5, <1>6 DEF Faithful

LEMMA RenameFileFaithful ==
  ASSUME NEW s, NEW f, NEW r, Taken(s, f, r), RenameFileSync
  PROVE  Faithful(s, f, r)
<1> PICK p, new : p = s.p /\ new = s.new
  OBVIOUS
<1>1. /\ f \in Layers(r) /\ View = Shows(f, r) /\ s \in Steps /\ p \in Paths /\ new \in Paths
      /\ s = step /\ Needs(s, f, r) /\ OverlayTyped
  BY TakenIs DEF Taken
<1> PICK data : data = View[p].bytes
  OBVIOUS
<1> PICK a, b : a = StepWith("writeFileSync", new, data) /\ b = StepTo("unlinkOld", p, new)
  OBVIOUS
<1>2. /\ s.do = "renameSync" /\ IsFileAt(View, p)
      /\ (View[new] = Dir /\ Throw) \/ (View[new] # Dir /\ Goto(<<a, b>>))
  BY <1>1 DEF RenameFileSync, IsDirAt
<1>3. data \in Contents
  BY <1>1, <1>2, FileShown
<1>4. <<a, b>> \in Seq(Steps)
  <2>1. {"writeFileSync", "unlinkOld"} \subseteq Checking
    BY DEF Checking, Methods
  <2>2. a \in Steps /\ b \in Steps
    BY <1>1, <1>3, <2>1, StepOf
  <2> QED
    BY ONLY <2>2, Tuples
<1>5. CASE View[new] = Dir /\ Throw
  <2>1. Sure(s, f, r) => Shows(f, r)[s.new] = Absent
    <3>1. s.do = "renameSync"
      BY <1>2
    <3> QED
      BY ONLY <3>1, RenameSure
  <2>2. Shows(f, r)[s.new] = Dir
    BY <1>1, <1>5
  <2> QED
    BY <1>5, <2>1, <2>2, NodesDiffer DEF Faithful
<1>6. CASE View[new] # Dir /\ Goto(<<a, b>>)
  <2>1. Fulfils(s, <<a, b>>, f, r)
    BY <1>1, <1>2, <1>6, RenameFileFulfils
  <2> QED
    BY <1>4, <1>6, <2>1 DEF Faithful
<1> QED
  BY <1>2, <1>5, <1>6

LEMMA RenameNothingFaithful ==
  ASSUME NEW s, NEW f, NEW r, Taken(s, f, r), RenameNothing
  PROVE  Faithful(s, f, r)
<1>1. View = Shows(f, r) /\ s = step
  BY TakenIs
<1>2. s.do = "renameSync" /\ View[s.p] = Absent /\ Throw
  BY <1>1 DEF RenameNothing
<1>3. Sure(s, f, r) => IsFileAt(Shows(f, r), s.p) \/ Shows(f, r)[s.p] = Dir
  <2>1. s.do = "renameSync"
    BY <1>2
  <2> QED
    BY ONLY <2>1, RenameSure
<1>4. Shows(f, r)[s.p] = Absent
  BY <1>1, <1>2
<1>5. ~ IsFileAt(Shows(f, r), s.p) /\ Shows(f, r)[s.p] # Dir
  BY <1>4, NodesDiffer DEF IsFileAt
<1> QED
  BY <1>2, <1>3, <1>5 DEF Faithful

LEMMA RenameSameFulfils ==
  ASSUME NEW r, NEW f \in Layers(r), NEW s \in Steps, s.do = "renameSync", s.p = s.new,
         Shows(f, r)[s.p] = Dir
  PROVE  Fulfils(s, <<>>, f, r)
<1>1. Shows(f, r)[s.p] # Absent /\ ~ IsFileAt(Shows(f, r), s.p)
  BY NodesDiffer DEF IsFileAt
<1>2. Post(s, f, f, r)
  BY <1>1, RenameIs
<1> QED
  BY <1>2, NothingToDo

LEMMA RenameDirFaithful ==
  ASSUME NEW s, NEW f, NEW r, Taken(s, f, r), RenameDirSync
  PROVE  Faithful(s, f, r)
<1> PICK p, new : p = s.p /\ new = s.new
  OBVIOUS
<1>1. /\ f \in Layers(r) /\ View = Shows(f, r) /\ s \in Steps /\ p \in Paths /\ new \in Paths
      /\ s = step /\ Needs(s, f, r) /\ OverlayTyped /\ f.w = writable
  BY TakenIs DEF Taken
<1> PICK free : free = (View[new] = Absent \/ (IsDirAt(View, new) /\ Listing(new) = {}))
  OBVIOUS
<1> PICK t : t = CASE writable[p] # Absent -> <<StepTo("_writable.renameSync", p, new)>>
                   [] ~ (writable[p] # Absent) /\ ~ (writable[new] # Absent) -> <<Step("_writable.mkdirSync", new)>>
                   [] OTHER -> <<>>
  OBVIOUS
<1> PICK b : b = <<StepTo("renameChildren", p, new), StepTo("unlinkOld", p, new)>>
  OBVIOUS
<1>2. /\ s.do = "renameSync" /\ View[p] = Dir
      /\ \/ p = new /\ Goto(<<>>)
         \/ p # new /\ ~ free /\ Throw
         \/ p # new /\ free /\ Goto(t \o b)
  BY <1>1 DEF RenameDirSync, IsDirAt, InWritable
<1>3. Shows(f, r)[s.p] = Dir
  BY <1>1, <1>2
<1>4. CASE p = new /\ Goto(<<>>)
  <2>1. Fulfils(s, <<>>, f, r)
    BY <1>1, <1>2, <1>3, <1>4, RenameSameFulfils
  <2>2. <<>> \in Seq(Steps)
    BY <1>1, Tuples
  <2> QED
    BY <1>4, <2>1, <2>2 DEF Faithful
<1>5. CASE ~ free /\ Throw
  <2>1. Sure(s, f, r) => Shows(f, r)[s.new] = Absent
    <3>1. s.do = "renameSync"
      BY <1>2
    <3> QED
      BY ONLY <3>1, RenameSure
  <2>2. Shows(f, r)[s.new] # Absent
    BY <1>1, <1>5
  <2> QED
    BY <1>5, <2>1, <2>2 DEF Faithful
<1>6. CASE p # new /\ free /\ Goto(t \o b)
  <2>1. Vacant(Shows(f, r), s.new)
    <3>1. View[new] = Absent \/ (View[new] = Dir /\ Listing(new) = {})
      BY <1>6 DEF IsDirAt
    <3>2. Listing(new) = {} => Children(View, new) = {}
      BY <1>1, NothingListed
    <3> QED
      BY <1>1, <3>1, <3>2 DEF Vacant
  <2>2. \/ f.w[s.p] # Absent /\ t = <<StepTo("_writable.renameSync", s.p, s.new)>>
        \/ /\ f.w[s.p] = Absent /\ f.w[s.new] = Absent
           /\ t = <<Step("_writable.mkdirSync", s.new)>>
        \/ f.w[s.p] = Absent /\ f.w[s.new] # Absent /\ t = <<>>
    BY <1>1
  <2>3. s.p # s.new
    BY <1>6
  <2>4. Fulfils(s, t \o <<StepTo("renameChildren", s.p, s.new), StepTo("unlinkOld", s.p, s.new)>>, f, r)
    BY ONLY <1>1, <1>2, <1>3, <2>1, <2>2, <2>3, RenameDirFulfils
  <2>5. t \in Seq(Steps)
    BY ONLY <1>1, <1>2, <1>3, <2>1, <2>2, <2>3, FirstMoves
  <2>6. b \in Seq(Steps)
    <3>1. "renameChildren" \in Checking \union OnWritable \union {"renameChildren", "deletePath"}
          /\ "unlinkOld" \in Checking \union OnWritable \union {"renameChildren", "deletePath"}
      BY DEF Checking
    <3>2. StepTo("renameChildren", p, new) \in Steps /\ StepTo("unlinkOld", p, new) \in Steps
      BY <1>1, <3>1, StepOf
    <3> QED
      BY ONLY <3>2, Tuples, b = <<StepTo("renameChildren", p, new), StepTo("unlinkOld", p, new)>>
  <2>7. t \o b \in Seq(Steps)
    BY ONLY <2>5, <2>6, ConcatProperties
  <2>8. Fulfils(s, t \o b, f, r)
    BY <2>4
  <2> QED
    BY <1>6, <2>7, <2>8 DEF Faithful
<1> QED
  BY <1>2, <1>4, <1>5, <1>6

LEMMA RenameChildrenFaithful ==
  ASSUME NEW s, NEW f, NEW r \in Readables, Taken(s, f, r), Reaches(r, s.p, s.new), RenameChildren
  PROVE  Faithful(s, f, r)
<1> PICK p, new : p = s.p /\ new = s.new
  OBVIOUS
<1>1. /\ f \in Layers(r) /\ s \in Steps /\ p \in Paths /\ new \in Paths /\ r = readable
      /\ s = step /\ Needs(s, f, r)
  BY TakenIs
<1>2. /\ s.do = "renameChildren"
      /\ \/ r[p] = Absent /\ Goto(<<>>)
         \/ IsFileAt(r, p) /\ Throw
         \/ IsDirAt(r, p) /\ \E names \in SetToSeqs(Children(r, p)) :
              Goto([i \in DOMAIN names |-> StepTo("renameSync", names[i], Append(new, Last(names[i])))])
  BY <1>1 DEF RenameChildren, InReadable
<1>3. CASE r[p] = Absent /\ Goto(<<>>)
  <2>1. Fulfils(s, <<>>, f, r)
    BY <1>1, <1>2, <1>3, RenameNothingFulfils
  <2>2. <<>> \in Seq(Steps)
    BY <1>1, Tuples
  <2> QED
    BY <1>3, <2>1, <2>2 DEF Faithful
<1>4. ~ IsFileAt(r, p)
  <2>1. ~ IsFileAt(r, s.p)
    BY <1>1, <1>2, RenameChildrenIs
  <2> QED
    BY <2>1
<1>5. ASSUME IsDirAt(r, p), NEW names \in SetToSeqs(Children(r, p)), NEW t,
             t = [i \in DOMAIN names |-> StepTo("renameSync", names[i], Append(new, Last(names[i])))]
      PROVE  t \in Seq(Steps) /\ Fulfils(s, t, f, r)
  <2>1. /\ IsDirAt(r, s.p) /\ names \in SetToSeqs(Children(r, s.p))
        /\ t = [i \in DOMAIN names |-> StepTo("renameSync", names[i], Append(s.new, Last(names[i])))]
    BY <1>5
  <2>2. Fulfils(s, t, f, r)
    BY <1>1, <1>2, <2>1, ChildrenFulfil
  <2>3. t \in Seq(Doable(r))
    <3>1. Reaches(r, p, new)
      OBVIOUS
    <3> QED
      BY ONLY <1>1, <1>5, <3>1, r \in Readables, RenamesAre
  <2>4. t \in Seq(Steps)
    <3>1. Doable(r) \subseteq Steps
      BY DEF Doable
    <3> QED
      BY <2>3, <3>1, ElementOfSeq, SeqDef
  <2> QED
    BY <2>2, <2>4
<1>6. CASE IsDirAt(r, p) /\ \E names \in SetToSeqs(Children(r, p)) :
             Goto([i \in DOMAIN names |-> StepTo("renameSync", names[i], Append(new, Last(names[i])))])
  <2>1. PICK names \in SetToSeqs(Children(r, p)) :
           Goto([i \in DOMAIN names |-> StepTo("renameSync", names[i], Append(new, Last(names[i])))])
    BY <1>6
  <2> PICK t : t = [i \in DOMAIN names |-> StepTo("renameSync", names[i], Append(new, Last(names[i])))]
    OBVIOUS
  <2>2. Goto(t)
    BY <2>1
  <2>3. t \in Seq(Steps) /\ Fulfils(s, t, f, r)
    BY <1>5, <1>6
  <2> QED
    BY <2>2, <2>3 DEF Faithful
<1> QED
  BY <1>2, <1>3, <1>4, <1>6

----------------------------------------------------------------------------
(* Between any two steps of a call that OverlayFS does not get wrong, what   *)
(* is left of it leads to what it promises, or throws where nothing changed. *)
PromiseInv ==
  /\ OverlayInv
  /\ Running => answer = "none"
  /\ careful => KeptOf(Layer, readable, todo, call, answer)

(* A method that the next step takes *)
Method ==
  \/ CreateParentDirectory \/ MkdirSync \/ WriteFileSync \/ TruncateSync
  \/ OperateOnWritable \/ UnlinkSync \/ DeleteIfExists \/ RmdirSync \/ DeleteIfEmpty
  \/ RenameFileSync \/ RenameDirSync \/ RenameChildren \/ RenameNothing \/ UnlinkOld

LEMMA NextStep ==
  ASSUME PromiseInv, careful, Running, NEW s, s = step, NEW f, f = Layer, NEW r, r = readable
  PROVE  /\ Taken(s, f, r) /\ s = todo[1] /\ todo \in Seq(Steps) /\ todo # <<>>
         /\ r \in Readables /\ s \in Doable(r)
<1> PICK t : t = todo
  OBVIOUS
<1>1. /\ OverlayTyped /\ r \in Readables /\ s \in Doable(r) /\ s \in Steps /\ s = t[1]
      /\ t \in Seq(Doable(r)) /\ t # <<>>
  BY StepFound DEF PromiseInv, OverlayInv, OverlayTyped, Running
<1>2. t \in Seq(Steps)
  <2>1. Doable(r) \subseteq Steps
    BY DEF Doable
  <2> QED
    BY <1>1, <2>1, ElementOfSeq, SeqDef
<1>3. KeptOf(f, r, t, call, answer)
  BY DEF PromiseInv
<1>4. f \in Layers(r) /\ Needs(t[1], f, r)
  BY <1>1, <1>2, <1>3, NeedsKept
<1> QED
  BY <1>1, <1>2, <1>4 DEF Taken

LEMMA MethodFaithful ==
  ASSUME PromiseInv, careful, Running, Method
  PROVE  Faithful(step, Layer, readable)
<1> PICK s, f, r : s = step /\ f = Layer /\ r = readable
  OBVIOUS
<1>1. Taken(s, f, r) /\ r \in Readables /\ s \in Doable(r)
  BY NextStep
<1>2. s.do = "renameChildren" => Reaches(r, s.p, s.new)
  BY <1>1 DEF Doable
<1>3. RenameChildren => s.do = "renameChildren"
  BY DEF RenameChildren
<1>4. Faithful(s, f, r)
  BY <1>1, <1>2, <1>3, CreateParentFaithful, MkdirFaithful, WriteFaithful, TruncateFaithful, ChmodFaithful,
     UnlinkFaithful, DeleteIfExistsFaithful, RmdirFaithful, DeleteIfEmptyFaithful, RenameFileFaithful,
     RenameDirFaithful, RenameChildrenFaithful, RenameNothingFaithful, UnlinkOldFaithful DEF Method
<1> QED
  BY <1>4

LEMMA ContinueAnswers ==
  ASSUME PromiseInv, Running, NEW steps, Continue(steps), NEW u, u = steps \o Tail(todo)
  PROVE  todo' = u /\ answer' = IF u = <<>> THEN "returned" ELSE "none"
BY DEF Continue, PromiseInv

LEMMA MethodKept ==
  ASSUME PromiseInv, Running, Method, OverlayInv'
  PROVE  PromiseInv'
<1> PICK s, f, r, t, c, a : s = step /\ f = Layer /\ r = readable /\ t = todo /\ c = call /\ a = answer
  OBVIOUS
<1>1. careful => KeptOf(f, r, t, c, a) /\ t \in Seq(Steps) /\ t # <<>> /\ s = t[1]
  BY NextStep DEF PromiseInv
<1>2. Throw \/ \E steps : Goto(steps)
  BY DEF Method, CreateParentDirectory, MkdirSync, WriteFileSync, TruncateSync,
     OperateOnWritable, UnlinkSync, DeleteIfExists, RmdirSync, DeleteIfEmpty,
     RenameFileSync, RenameDirSync, RenameChildren, RenameNothing, UnlinkOld
<1>3. careful => Faithful(s, f, r)
  BY MethodFaithful
<1>4. (Throw \/ \E steps : Goto(steps)) =>
        /\ UNCHANGED <<readable, call, careful, writable, logVars>>
  BY DEF Throw, Leave, Goto, Continue
<1>5. Layer' = f /\ readable' = r /\ call' = c /\ careful' = careful
  BY <1>2, <1>4 DEF Layer, DeletedFiles, logVars
<1>6. CASE careful /\ Throw /\ ~ Sure(s, f, r)
  <2>1. KeptOf(f, r, <<>>, c, "threw")
    BY <1>1, <1>6, ThrowKept
  <2>2. todo' = <<>> /\ answer' = "threw"
    BY <1>6 DEF Throw, Leave
  <2>3. ~ Running'
    BY <2>2 DEF Running
  <2> QED
    BY <1>5, <2>1, <2>2, <2>3 DEF PromiseInv
<1>7. CASE careful /\ \E steps \in Seq(Steps) : Goto(steps) /\ Fulfils(s, steps, f, r)
  <2>1. PICK steps \in Seq(Steps) : Goto(steps) /\ Fulfils(s, steps, f, r)
    BY <1>7
  <2> PICK u : u = steps \o Tail(t)
    OBVIOUS
  <2>2. todo' = u /\ answer' = IF u = <<>> THEN "returned" ELSE "none"
    BY <2>1, ContinueAnswers DEF Goto
  <2>3. KeptOf(f, r, u, c, IF u = <<>> THEN "returned" ELSE "none")
    BY <1>1, <1>7, <2>1, GotoKept
  <2>4. Running' => answer' = "none"
    BY <2>2 DEF Running
  <2> QED
    BY <1>5, <2>2, <2>3, <2>4 DEF PromiseInv
<1>8. CASE ~ careful
  <2>1. Running' => answer' = "none"
    BY <1>2, ContinueAnswers DEF Throw, Leave, Goto, Running
  <2> QED
    BY <1>5, <1>8, <2>1 DEF PromiseInv
<1> QED
  BY <1>3, <1>6, <1>7, <1>8 DEF Faithful

LEMMA DoWritableKept ==
  ASSUME PromiseInv, Running, DoWritable, OverlayInv'
  PROVE  PromiseInv'
<1> PICK s, f, r, t, c, a : s = step /\ f = Layer /\ r = readable /\ t = todo /\ c = call /\ a = answer
  OBVIOUS
<1>1. careful => /\ KeptOf(f, r, t, c, a) /\ t \in Seq(Steps) /\ t # <<>> /\ s = t[1]
                 /\ Taken(s, f, r)
  BY NextStep DEF PromiseInv
<1>2. s.do \in OnWritable
  BY DEF DoWritable
<1>3. CASE CanDo(s)
  <2> PICK w2 : w2 = Done(s)
    OBVIOUS
  <2>1. writable' = w2 /\ Continue(<<>>) /\ UNCHANGED logVars
    BY <1>3 DEF DoWritable
  <2> PICK u : u = <<>> \o Tail(t)
    OBVIOUS
  <2>2. todo' = u /\ answer' = IF u = <<>> THEN "returned" ELSE "none"
    BY <2>1, ContinueAnswers
  <2> PICK g : g = [w |-> w2, D |-> f.D]
    OBVIOUS
  <2>3. readable' = r /\ call' = c /\ careful' = careful /\ Layer' = g
    BY <2>1 DEF Continue, Layer, DeletedFiles, logVars
  <2>4. CASE careful
    <3>1. f \in Layers(r) /\ s \in Steps /\ Needs(s, f, r) /\ f.w = writable
      BY <1>1, <2>4, TakenIs
    <3>2. CanDoIn(s, f.w)
      BY <1>3, <3>1 DEF CanDo, CanDoIn
    <3>3. DoneIn(s, f.w, w2)
      BY <3>1 DEF Done, DoneIn
    <3>4. Post(s, f, g, r)
      BY <1>2, <3>1, <3>2, <3>3, WritablePost
    <3>5. KeptOf(g, r, u, c, IF u = <<>> THEN "returned" ELSE "none")
      BY <1>1, <2>4, <3>4, PostKept
    <3>6. Running' => answer' = "none"
      BY <2>2 DEF Running
    <3> QED
      BY <2>2, <2>3, <3>5, <3>6 DEF PromiseInv
  <2>5. CASE ~ careful
    <3>1. Running' => answer' = "none"
      BY <2>2 DEF Running
    <3> QED
      BY <2>3, <2>5, <3>1 DEF PromiseInv
  <2> QED
    BY <2>4, <2>5
<1>4. CASE ~ CanDo(s)
  <2>1. Throw
    BY <1>4 DEF DoWritable
  <2>2. /\ todo' = <<>> /\ answer' = "threw" /\ readable' = r /\ call' = c
        /\ careful' = careful /\ Layer' = f
    BY <2>1 DEF Throw, Leave, Layer, DeletedFiles, logVars
  <2>3. ~ Running'
    BY <2>2 DEF Running
  <2>4. CASE careful
    <3>1. f.w = writable
      BY <1>1, <2>4, TakenIs
    <3>2. ~ CanDoIn(s, f.w)
      BY <1>4, <3>1 DEF CanDo, CanDoIn
    <3>3. ~ Sure(s, f, r)
      BY <1>2, <3>2 DEF Sure, OnWritable
    <3>4. KeptOf(f, r, <<>>, c, "threw")
      BY <1>1, <2>4, <3>3, ThrowKept
    <3> QED
      BY <2>2, <2>3, <3>4 DEF PromiseInv
  <2> QED
    BY <2>2, <2>3, <2>4 DEF PromiseInv
<1> QED
  BY <1>3, <1>4

LEMMA DeleteKept ==
  ASSUME PromiseInv, Running, Delete, OverlayInv'
  PROVE  PromiseInv'
<1> PICK s, f, r, t, c, a : s = step /\ f = Layer /\ r = readable /\ t = todo /\ c = call /\ a = answer
  OBVIOUS
<1>1. careful => /\ KeptOf(f, r, t, c, a) /\ t \in Seq(Steps) /\ t # <<>> /\ s = t[1]
                 /\ Taken(s, f, r)
  BY NextStep DEF PromiseInv
<1>2. s.p \in Paths /\ deleteLog \in Seq(Paths)
  BY StepFound DEF PromiseInv, OverlayInv, OverlayTyped, LogTypeOK
<1>3. s.do = "deletePath" /\ deleteLog' = Append(deleteLog, s.p) /\ Continue(<<>>) /\ writable' = writable
  BY DEF Delete, DeletePath, UpdateLog
<1>4. DeletedFiles' = DeletedFiles \union {s.p}
  BY <1>2, <1>3, Logged DEF DeletedFiles
<1> PICK u : u = <<>> \o Tail(t)
  OBVIOUS
<1>5. todo' = u /\ answer' = IF u = <<>> THEN "returned" ELSE "none"
  BY <1>3, ContinueAnswers
<1> PICK g : g = [w |-> f.w, D |-> f.D \union {s.p}]
  OBVIOUS
<1>6. readable' = r /\ call' = c /\ careful' = careful /\ Layer' = g
  BY <1>3, <1>4 DEF Continue, Layer
<1>7. Running' => answer' = "none"
  BY <1>5 DEF Running
<1>8. CASE careful
  <2>1. f \in Layers(r) /\ s \in Steps /\ Needs(s, f, r)
    BY <1>1, <1>8, TakenIs
  <2>2. Post(s, f, g, r)
    BY <1>3, <2>1, DeletePost
  <2>3. KeptOf(g, r, u, c, IF u = <<>> THEN "returned" ELSE "none")
    BY <1>1, <1>8, <2>2, PostKept
  <2> QED
    BY <1>5, <1>6, <1>7, <2>3 DEF PromiseInv
<1>9. CASE ~ careful
  BY <1>6, <1>7, <1>9 DEF PromiseInv
<1> QED
  BY <1>8, <1>9

(* What ends without an answer leaves the layers as they are. *)
LEMMA EndKept ==
  ASSUME PromiseInv, OverlayInv', todo' = <<>>, answer' \in {"none", "failed"},
         UNCHANGED <<readable, writable>>, careful' => careful /\ DeletedFiles' = DeletedFiles
  PROVE  PromiseInv'
<1> PICK f, r : f = Layer /\ r = readable
  OBVIOUS
<1>1. ~ Running'
  BY DEF Running
<1>2. careful' => f \in Layers(r) /\ Layer' = f /\ readable' = r
  BY DEF PromiseInv, KeptOf, Layer
<1> QED
  BY <1>1, <1>2 DEF PromiseInv, KeptOf

(* A call that OverlayFS does not get wrong needs what is so. *)
LEMMA CallNeeds ==
  ASSUME OverlayTyped, NEW s \in Doable(readable), s.do \in Methods, s.do # "renameSync" => s.new = s.p,
         Careful(s), NEW f, f = Layer, NEW r, r = readable, f \in Layers(r)
  PROVE  /\ Needs(s, f, r)
         /\ s.do = "unlinkSync" => ~ (f.w[s.p] = Absent /\ Shows(f, r)[s.p] = Dir)
<1> PICK p, new, v : p = s.p /\ new = s.new /\ v = Shows(f, r)
  OBVIOUS
<1>1. /\ p \in Paths /\ new \in Paths /\ f.w = writable /\ f.D = DeletedFiles /\ v = View
      /\ v \in Trees
  BY StepsAre, ViewIs DEF Layer, Shows
<1>2. s.do \in {"unlinkSync", "writeFileSync"} => f.w[p] # Absent \/ v[p] # Dir
  BY <1>1, NodesDiffer DEF Careful, OnlyReadable, InWritable, IsDirAt
<1>3. s.do \in {"mkdirSync", "writeFileSync", "renameSync"} => ClearAbove(new, f, r)
  <2> SUFFICES ASSUME s.do \in {"mkdirSync", "writeFileSync", "renameSync"},
                      NEW q \in Paths, IsPrefix(q, new), q # new, f.w[q] = Absent
               PROVE  v[q] \in {Absent, Dir}
    BY DEF ClearAbove
  <2>1. IsStrictPrefix(q, s.new)
    <3>1. new \in Below(q)
      BY <1>1, BelowIs
    <3> QED
      BY <3>1 DEF Below
  <2>2. v[q] = Absent \/ ~ IsFileAt(v, q)
    BY <1>1, <2>1 DEF Careful, OnlyReadable, InWritable
  <2>3. v[q] \in Nodes
    BY <1>1 DEF Trees
  <2> QED
    BY <2>2, <2>3 DEF Nodes, IsFileAt, File
<1>4. ASSUME s.do = "renameSync", v[p] = Dir
      PROVE  /\ Unmixed(p, f, r) /\ ~ IsFileAt(r, p)
             /\ \A z \in ReadBelow(p, r) : HasTwin(p, new, z)
  <2>1. ~ Mixed(p) /\ ~ IsFileAt(r, p)
    BY <1>1, <1>4 DEF Careful, IsDirAt
  <2>2. Unmixed(p, f, r)
    BY <1>1, <2>1 DEF Unmixed, Mixed, ReadBelow, InReadable, InWritable
  <2>3. Reaches(r, p, new)
    BY <1>4 DEF Doable
  <2>4. ASSUME NEW z \in ReadBelow(p, r) PROVE HasTwin(p, new, z)
    <3>1. z \in Below(p) /\ r[z] # Absent
      BY DEF ReadBelow
    <3>2. z \in Paths /\ IsPrefix(p, z)
      BY <1>1, <3>1, BelowIs
    <3> PICK q : q = Computed(p, new, z)
      OBVIOUS
    <3>3. q \in Paths
      BY <2>3, <3>1 DEF Reaches, Computed
    <3>4. Twins(p, new, z, q)
      BY <1>1, <3>2, <3>3, TwinIs
    <3> QED
      BY <3>3, <3>4 DEF HasTwin
  <2> QED
    BY <2>1, <2>2, <2>4
<1>5. CASE s.do = "renameSync"
  <2>1. ClearAbove(s.new, f, r)
    BY <1>3, <1>5
  <2>2. Shows(f, r)[s.p] = Dir =>
          /\ Unmixed(s.p, f, r) /\ ~ IsFileAt(r, s.p)
          /\ \A z \in ReadBelow(s.p, r) : HasTwin(s.p, s.new, z)
    BY <1>4, <1>5
  <2> QED
    BY ONLY <1>5, <2>1, <2>2, RenameIs
<1>6. CASE s.do = "unlinkSync"
  <2>1. ~ (f.w[s.p] = Absent /\ Shows(f, r)[s.p] = Dir)
    BY <1>2, <1>6
  <2> QED
    BY ONLY <1>6, <2>1, UnlinkIs
<1>7. CASE s.do = "writeFileSync"
  <2>1. ClearAbove(s.p, f, r) /\ (Shows(f, r)[s.p] # Dir \/ f.w[s.p] # Absent)
    BY <1>2, <1>3, <1>7
  <2> QED
    BY ONLY <1>7, <2>1, WriteFileIs
<1>8. CASE s.do = "mkdirSync"
  <2>1. ClearAbove(s.p, f, r)
    BY <1>3, <1>8
  <2> QED
    BY ONLY <1>8, <2>1, MkdirIs
<1>9. CASE s.do \in {"truncateSync", "rmdirSync", "chmodSync"}
  BY <1>9, TruncateIs, RmdirIs, ChmodIs
<1> QED
  BY <1>5, <1>6, <1>7, <1>8, <1>9 DEF Methods

LEMMA CallKept ==
  ASSUME PromiseInv, NEW s \in Doable(readable), s.do \in Methods,
         s.do # "renameSync" => s.new = s.p, Call(s), OverlayInv'
  PROVE  PromiseInv'
<1> PICK f, r, v : f = Layer /\ r = readable /\ v = View
  OBVIOUS
<1> PICK c : c = [step |-> s, before |-> v, after |-> Promised(s, v)]
  OBVIOUS
<1>1. /\ todo' = <<s>> /\ call' = c /\ answer' = "none" /\ careful' = (careful /\ Careful(s))
      /\ UNCHANGED <<readable, writable, logVars>>
  BY DEF Call
<1>2. readable' = r /\ Layer' = f
  BY <1>1 DEF Layer, DeletedFiles, logVars
<1>3. CASE careful'
  <2>1. careful /\ Careful(s)
    BY <1>1, <1>3
  <2>2. f \in Layers(r) /\ OverlayTyped /\ s \in Steps
    BY <2>1 DEF PromiseInv, KeptOf, OverlayInv, Doable
  <2>3. /\ Needs(s, f, r)
        /\ s.do = "unlinkSync" => ~ (f.w[s.p] = Absent /\ Shows(f, r)[s.p] = Dir)
    BY <2>1, <2>2, CallNeeds
  <2>4. Leads({f}, <<s>>, Showing(Promised(s, Shows(f, r)), r), Showing(Shows(f, r), r), r)
    BY <2>2, <2>3, CallLeads
  <2>5. v = Shows(f, r)
    BY <2>2, ViewIs DEF Layer, Shows
  <2>6. c.before = v /\ c.after = Promised(s, v)
    OBVIOUS
  <2>7. KeptOf(f, r, <<s>>, c, "none")
    BY <2>2, <2>4, <2>5, <2>6 DEF KeptOf
  <2> QED
    BY <1>1, <1>2, <2>7 DEF PromiseInv
<1>4. CASE ~ careful'
  BY <1>1, <1>4 DEF PromiseInv
<1> QED
  BY <1>3, <1>4

LEMMA LoggedPaths ==
  ASSUME NEW l \in Seq(Paths)
  PROVE  ToSet(l) \subseteq Paths
BY DEF ToSet

LEMMA CallsKept ==
  ASSUME PromiseInv, Calls, OverlayInv'
  PROVE  PromiseInv'
<1>1. PICK s \in Doable(readable) : /\ s.do \in Methods /\ (s.do # "renameSync" => s.new = s.p) /\ Call(s)
  BY CalledStep DEF PromiseInv
<1> QED
  BY <1>1, CallKept

LEMMA RunKept ==
  ASSUME PromiseInv, Run, OverlayInv'
  PROVE  PromiseInv'
<1>1. Running
  BY DEF Run
<1>2. CASE CheckInitialized
  BY <1>2, EndKept DEF CheckInitialized, Leave, ReportLogError, DeletedFiles
<1>3. CASE DoWritable
  BY <1>1, <1>3, DoWritableKept
<1>4. CASE Delete
  BY <1>1, <1>4, DeleteKept
<1>5. CASE Method
  BY <1>1, <1>5, MethodKept
<1> QED
  BY <1>2, <1>3, <1>4, <1>5 DEF Run, Method

LEMMA InitKept == Init => PromiseInv
<1> SUFFICES ASSUME Init PROVE PromiseInv
  OBVIOUS
<1> PICK r : r = readable
  OBVIOUS
<1>1. OverlayInv
  BY OverlayInitInv
<1>2. careful = TRUE /\ todo = <<>> /\ answer = "none" /\ writable = EmptyTree /\ r \in Readables
  BY DEF Init
<1>3. Layered(writable, r, DeletedFiles) /\ DeletedFiles \subseteq Paths
  BY <1>1, <1>2, LoggedPaths DEF OverlayInv, Going, OverlayTyped, LogTypeOK, DeletedFiles
<1>4. DirsCover(writable, r, DeletedFiles)
  <2>1. ASSUME NEW p \in Paths, writable[p] = Dir, IsFileAt(r, p) PROVE FALSE
    <3>1. p = <<>>
      BY <1>2, <2>1, NodesDiffer DEF EmptyTree
    <3>2. r[<<>>] = Dir
      BY <1>2, ReadablesAssumption DEF IsDirAt
    <3> QED
      BY <2>1, <3>1, <3>2, NodesDiffer DEF IsFileAt
  <2> QED
    BY <2>1 DEF DirsCover
<1>5. Layer \in Layers(r)
  BY <1>3, <1>4, LayerOf DEF Layer
<1> QED
  BY <1>1, <1>2, <1>5 DEF PromiseInv, KeptOf, Running

LEMMA NextKept == PromiseInv /\ [Next]_vars => PromiseInv'
<1> SUFFICES ASSUME PromiseInv, [Next]_vars PROVE PromiseInv'
  OBVIOUS
<1>1. OverlayInv'
  BY OverlayNextInv DEF PromiseInv
<1>2. CASE Calls
  BY <1>1, <1>2, CallsKept
<1>3. CASE Run
  BY <1>1, <1>3, RunKept
<1>4. CASE Return
  BY <1>1, <1>4, EndKept DEF Return, Running, logVars, DeletedFiles
<1>5. CASE Fail
  BY <1>1, <1>5, EndKept DEF Fail, Leave, logVars, DeletedFiles
<1>6. CASE Restart
  BY <1>1, <1>6, EndKept DEF Restart, ReadLogFile, DeletedFiles
<1>7. CASE LogWrite \/ UNCHANGED vars
  <2>1. UNCHANGED <<readable, writable, todo, call, answer, careful>> /\ deleteLog' = deleteLog
    BY <1>7 DEF LogWrite, LogWrites, EmptyLogFile, WriteLogFile, FailLogFile, vars, ovVars, logVars
  <2>2. Layer' = Layer
    BY <2>1 DEF Layer, DeletedFiles
  <2> QED
    BY <1>1, <2>1, <2>2 DEF PromiseInv, Running
<1> QED
  BY <1>2, <1>3, <1>4, <1>5, <1>6, <1>7 DEF Next

(* A call that returns did what it promises, and one that throws changed   *)
(* nothing that is shown, though each is made of many steps and calls       *)
(* others, for any two file systems and any paths: as long as no call was   *)
(* made that OverlayFS gets wrong, and no deletion was lost.                *)
THEOREM AllOrNothingAlways == Spec => []AllOrNothing
<1>1. PromiseInv => AllOrNothing
  <2> SUFFICES ASSUME PromiseInv, careful
               PROVE  /\ answer = "returned" => View = call.after
                      /\ answer = "threw" => View = call.before
    BY DEF AllOrNothing
  <2>1. View = Shows(Layer, readable)
    BY ViewIs DEF PromiseInv, OverlayInv, Layer, Shows
  <2> QED
    BY <2>1 DEF PromiseInv, KeptOf
<1> QED
  BY <1>1, InitKept, NextKept, PTL DEF Spec
=============================================================================
