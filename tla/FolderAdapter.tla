---------------------------- MODULE FolderAdapter ----------------------------
(***************************************************************************)
(* File systems and what they keep their files in: a store has a tree of   *)
(* its own, a FolderAdapter (src/src/backend/FolderAdapter.ts) is a folder  *)
(* of a store.  Two adapters, or an adapter and its store, may show the     *)
(* same file under two paths.                                              *)
(***************************************************************************)
EXTENDS Trees, FiniteSets

CONSTANTS
  Stores,    \* the file systems with a tree
  Adapters,  \* the FolderAdapters
  Wrapped,   \* the store of each
  Folder     \* and the folder

ASSUME AdapterAssumption ==
  /\ Wrapped \in [Adapters -> Stores] /\ Folder \in [Adapters -> Paths]
  /\ Stores \cap Adapters = {} /\ "none" \notin Stores

FileSystems == Stores \union Adapters

VARIABLES
  trees,  \* the tree of each store
  made    \* the file systems there are

fsVars == <<trees, made>>

(* A path that a file system is asked for.  It should begin with a "/".  A
   store looks for the parents of one that does not until the stack
   overflows; path.join makes no difference. *)
Asked(rest, absolute) == [rest |-> rest, absolute |-> absolute]

(* Where file system f has it: a path of a store, or nowhere. *)
Nowhere == [store |-> "none", path |-> <<>>]
Joined(f, rest) == [store |-> Wrapped[f], path |-> Folder[f] \o rest]
Place(f, asked) ==
  LET place == IF f \in Adapters THEN Joined(f, asked.rest) ELSE [store |-> f, path |-> asked.rest]
  IN IF place.path \in Paths /\ (asked.absolute \/ f \in Adapters) THEN place ELSE Nowhere

NodeAt(place) == IF place = Nowhere THEN Absent ELSE trees[place.store][place.path]
ChildrenAt(place) ==
  IF place # Nowhere /\ IsDirAt(trees[place.store], place.path)
  THEN {Last(q) : q \in {r \in Paths : r # <<>> /\ Parent(r) = place.path
                                        /\ trees[place.store][r] # Absent}}
  ELSE {}

(* _initialize: the folder is made if it is not there, but not its parents. *)
Adapt(f) ==
  /\ f \in Adapters \ made
  /\ LET t == trees[Wrapped[f]]
     IN IF t[Folder[f]] # Absent THEN UNCHANGED trees
        ELSE /\ CanCreate(t, Folder[f])
             /\ trees' = [trees EXCEPT ![Wrapped[f]] = With(t, Folder[f], Dir)]
  /\ made' = made \union {f}

FSInit == trees = [s \in Stores |-> EmptyTree] /\ made = Stores
=============================================================================
