----------------------------- MODULE KeyValueFS -----------------------------
(***************************************************************************)
(* SyncKeyValueFileSystem over a store whose calls do not fail: InMemory.  *)
(* JavaScript runs a synchronous operation to its end, so each one is a    *)
(* single step of the store; LocalStorageFS has the steps in between.      *)
(* A handle is a SyncKeyValueFile open for writing: it remembers the path, *)
(* not the inode, and writes back to whatever that path names when it is   *)
(* synced or closed.                                                       *)
(***************************************************************************)
EXTENDS KeyValueStore, FiniteSets

CONSTANTS
  GuidsUnique,  \* GenerateRandomID never returns a key in use
  DataGuids,    \* bound: the GUIDs drawn for data (two pools: fewer symmetric states)
  NodeGuids,    \* bound: the GUIDs drawn for inodes
  RenameTo,     \* the paths a client passes as rename's second argument
  MaxHandles    \* bound: files open for writing at a time

ASSUME ClientAssumption ==
  /\ GuidsUnique \in BOOLEAN
  /\ DataGuids \subseteq Ids \ {Root} /\ NodeGuids \subseteq Ids \ {Root}
  /\ RenameTo \subseteq Paths
  /\ MaxHandles \in Nat

VARIABLES
  store,      \* the key-value store
  handles,    \* paths of the files open for writing
  clobbered   \* history: a directory with entries became a file

vars == <<store, handles, clobbered>>

(* commitNewFile with the keys GenerateRandomID returns *)
CreatesIn(s, p, t) ==
  /\ CanCreate(s, p)
  /\ \E dataId \in DataGuids, nodeId \in NodeGuids :
       /\ GuidsUnique => dataId # nodeId /\ s[dataId] = Undefined /\ s[nodeId] = Undefined
       /\ store' = Created(s, p, t, dataId, nodeId)

Init ==
  /\ \E k \in DataGuids : store = EmptyStore(k)
  /\ handles = {}
  /\ clobbered = FALSE

(* empty() *)
Clear ==
  /\ \E k \in DataGuids : store' = EmptyStore(k)
  /\ clobbered' = FALSE
  /\ UNCHANGED handles

Mkdir(p) ==
  /\ CreatesIn(store, p, "dir")
  /\ UNCHANGED <<handles, clobbered>>

(* openSync with a creating flag, the path new *)
OpenNew(p) ==
  /\ Cardinality(handles \union {p}) <= MaxHandles
  /\ CreatesIn(store, p, "file")
  /\ handles' = handles \union {p}
  /\ UNCHANGED clobbered

(* openSync with 'w' or 'w+', the file there: unlinkSync, then createFileSync *)
OpenTruncate(p) ==
  /\ Cardinality(handles \union {p}) <= MaxHandles
  /\ CanOpen(store, p)
  /\ CreatesIn(Removed(store, p), p, "file")
  /\ handles' = handles \union {p}
  /\ UNCHANGED clobbered

(* openSync with 'r+' or 'a', the file there *)
OpenExisting(p) ==
  /\ Cardinality(handles \union {p}) <= MaxHandles
  /\ CanOpen(store, p)
  /\ handles' = handles \union {p}
  /\ UNCHANGED <<store, clobbered>>

(* syncSync of a dirty file; the path may name something else by now *)
Sync(p, c) ==
  /\ p \in handles
  /\ CanSync(store, p)
  /\ store' = Synced(store, p, c)
  /\ clobbered' = (clobbered \/ (IsDir(store, NodeId(store, p)) /\ ~ IsEmptyDir(store, p)))

Fsync(p, c) == Sync(p, c) /\ UNCHANGED handles

(* closeSync: synced when dirty; a sync that throws leaves the file open *)
Close(p) ==
  /\ p \in handles
  /\ handles' = handles \ {p}
  /\ \/ \E c \in Contents : Sync(p, c)
     \/ UNCHANGED <<store, clobbered>>

Unlink(p) ==
  /\ CanRemove(store, p, "file")
  /\ store' = Removed(store, p)
  /\ UNCHANGED <<handles, clobbered>>

Rmdir(p) ==
  /\ IsEmptyDir(store, p)
  /\ CanRemove(store, p, "dir")
  /\ store' = Removed(store, p)
  /\ UNCHANGED <<handles, clobbered>>

Rename(old, new) ==
  /\ CanRename(store, old, new)
  /\ store' = Renamed(store, old, new)
  /\ UNCHANGED <<handles, clobbered>>

Next ==
  \/ Clear
  \/ \E p \in Paths :
       \/ Mkdir(p) \/ OpenNew(p) \/ OpenTruncate(p) \/ OpenExisting(p)
       \/ \E c \in Contents : Fsync(p, c)
       \/ Close(p) \/ Unlink(p) \/ Rmdir(p)
       \/ \E new \in RenameTo : Rename(p, new)

Spec == Init /\ [][Next]_vars

----------------------------------------------------------------------------
TypeOK ==
  /\ store \in Stores
  /\ handles \subseteq Paths
  /\ clobbered \in BOOLEAN

(* The store is a file system after every operation: a root directory,     *)
(* entries and inodes that lead to data of their type, nothing shared.     *)
StoreWellFormed == WellFormed(store)

(* No operation leaves a key behind that nothing leads to ("Remove all     *)
(* traces of the given path", removeEntry), unless a stale handle was      *)
(* synced over a directory that had entries.                               *)
NoOrphans == ~ clobbered => OrphanFree(store)

(* Every inode can be reached from the root: rename never cuts a directory *)
(* off by moving it under itself ("Can't move a folder inside itself").    *)
AllReachable ==
  ~ clobbered => {i \in Ids : IsInode(store, i)} \subseteq Reachable(store)

Abstract == INSTANCE FileTree WITH tree <- TreeOf(store)

(* To its clients the file system is the tree: every operation on the      *)
(* keys is one operation of the tree, or changes nothing.                  *)
ImplementsFileTree == Abstract!Spec

----------------------------------------------------------------------------
(* What the comments say and the code does not do: TLC finds each of these  *)
(* violated; the README tells how.                                          *)

(* A directory that has entries keeps being one: the code asks "Check      *)
(* first if directory is empty" before it removes one, and openSync checks *)
(* "that the path exists, and is a file" before it hands out a handle.     *)
DirectoriesKeptAction ==
  \A i \in Ids :
    HasListing(store, i) /\ (\E n \in FileNames : Ls(store, i)[n] # NoId)
      => IsDir(store', i)
DirectoriesKept == [][Clear \/ DirectoriesKeptAction]_vars

(* No entry is nameless: "If we don't check this [...] we will create a    *)
(* file with name '' in root" (commitNewFile).                             *)
NoNamelessEntry == \A d \in Ids : Entry(store, d, NoName) = NoId

(* Every node has keys of its own, the random GUIDs colliding or not:      *)
(* addNewNode "Retries 5 times before giving up in the exceedingly         *)
(* unlikely chance that we try to reuse a random GUID".                    *)
NodesHaveOwnKeys == NoSharedData(store) /\ NoDanglingEntry(store)
=============================================================================
