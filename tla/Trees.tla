------------------------------- MODULE Trees -------------------------------
(***************************************************************************)
(* Trees of directories and files, and what the operations of a BrowserFS  *)
(* file system do to one (src/src/core/file_system.ts).  Only operators:   *)
(* FileTree makes a specification of them, AsyncMirror keeps two trees.    *)
(***************************************************************************)
EXTENDS Integers, SequencesExt

CONSTANTS
  Paths,     \* the sequences of names that are paths, <<>> the root, closed under Front
  Contents,  \* what a file can hold
  Empty      \* what a new file holds

ASSUME TreesAssumption ==
  /\ <<>> \in Paths /\ Paths \subseteq Seq(UNION {ToSet(p) : p \in Paths})
  /\ \A p \in Paths \ {<<>>} : Front(p) \in Paths
  /\ Empty \in Contents

Absent == [type |-> "absent"]
Dir == [type |-> "dir"]
File(c) == [type |-> "file", bytes |-> c]
Nodes == {Absent, Dir} \union {File(c) : c \in Contents}
Trees == [Paths -> Nodes]

EmptyTree == [p \in Paths |-> IF p = <<>> THEN Dir ELSE Absent]

Parent(p) == IF p = <<>> THEN <<>> ELSE Front(p)
IsDirAt(t, p) == t[p] = Dir
IsFileAt(t, p) == t[p].type = "file"
Below(p) == {q \in Paths : IsStrictPrefix(p, q)}

With(t, p, node) == [t EXCEPT ![p] = node]

(* mkdir, or open of a new file *)
CanCreate(t, p) == p # <<>> /\ IsDirAt(t, Parent(p)) /\ t[p] = Absent
CanUnlink(t, p) == IsFileAt(t, p)
CanRmdir(t, p) == p # <<>> /\ IsDirAt(t, p) /\ \A q \in Below(p) : t[q] = Absent

(* rename: a subtree moves, over nothing or over a file, never into itself *)
CanRename(t, old, new) ==
  /\ old # <<>> /\ new # <<>> /\ old # new
  /\ t[old] # Absent
  /\ IsDirAt(t, Parent(new)) /\ ~ IsPrefix(old, Parent(new))
  /\ t[new] = Absent \/ IsFileAt(t, new)
Renamed(t, old, new) ==
  [q \in Paths |->
     IF IsPrefix(new, q)
     THEN LET from == old \o SubSeq(q, Len(new) + 1, Len(q))
          IN IF from \in Paths THEN t[from] ELSE Absent
     ELSE IF IsPrefix(old, q) THEN Absent ELSE t[q]]
=============================================================================
