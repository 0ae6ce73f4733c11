------------------------------ MODULE FileTree ------------------------------
(***************************************************************************)
(* What a BrowserFS file system promises its clients: a tree of            *)
(* directories and files, and operations that change it in one step.       *)
(* KeyValueFS and its key-value layout implement it.                       *)
(***************************************************************************)
EXTENDS Trees

VARIABLE tree

Init == tree = EmptyTree

Clear == tree' = EmptyTree

Create(p, node) == CanCreate(tree, p) /\ tree' = With(tree, p, node)

(* A file's bytes change.  The path is all a handle knows: a directory that *)
(* took the file's place becomes the file, and what was in it is gone.      *)
Write(p, c) ==
  /\ p # <<>>
  /\ tree[p] # Absent
  /\ tree' = [q \in Paths |->
       IF q = p THEN File(c) ELSE IF q \in Below(p) THEN Absent ELSE tree[q]]

Unlink(p) == CanUnlink(tree, p) /\ tree' = With(tree, p, Absent)

Rmdir(p) == CanRmdir(tree, p) /\ tree' = With(tree, p, Absent)

Rename(old, new) == CanRename(tree, old, new) /\ tree' = Renamed(tree, old, new)

Next ==
  \/ Clear
  \/ \E p \in Paths :
       \/ \E node \in {Dir, File(Empty)} : Create(p, node)
       \/ \E c \in Contents : Write(p, c)
       \/ Unlink(p) \/ Rmdir(p)
       \/ \E new \in Paths : Rename(p, new)

Spec == Init /\ [][Next]_tree
=============================================================================
