--------------------------- MODULE LocalStorageFS ---------------------------
(***************************************************************************)
(* SyncKeyValueFileSystem over LocalStorageStore, key by key.  Every put   *)
(* is on disk when it returns, so a crash of the tab may strike between    *)
(* any two; a put throws when localStorage is full; and del removes the    *)
(* key `partition + NaN + key` (`this.partition +  + ":" + key`), that is, *)
(* nothing.  What each operation writes is what KeyValueStore says; here   *)
(* is the order in which it gets there, and what happens if it does not.   *)
(***************************************************************************)
EXTENDS KeyValueStore

CONSTANTS
  DataGuids,   \* bound: the GUIDs drawn for data
  NodeGuids,   \* bound: the GUIDs drawn for inodes
  MaxRerolls   \* bound: how often addNewNode is watched to reroll

ASSUME LocalStorageAssumption ==
  /\ DataGuids \subseteq Ids \ {Root} /\ NodeGuids \subseteq Ids \ {Root}
  /\ MaxRerolls \in Nat

VARIABLES
  store,    \* localStorage, which survives a crash
  op,       \* the running operation: its name and paths
  before,   \* the store when it began; the undo log's content, see SyncTransaction
  target,   \* the store it is to leave
  todo,     \* the keys it has yet to put or delete, in order
  rerolls,  \* throws addNewNode has swallowed in this operation
  torn      \* history: the inodes whose bytes a crash parted from them

vars == <<store, op, before, target, todo, rerolls, torn>>

None == [name |-> "none", paths |-> <<>>]
Running == op # None
Free(k) == store[k] = Undefined

(* An operation begins its transaction *)
Start(name, paths, wanted, keys) ==
  /\ ~ Running
  /\ op' = [name |-> name, paths |-> paths]
  /\ before' = store /\ target' = wanted /\ todo' = keys
  /\ rerolls' = 0
  /\ UNCHANGED <<store, torn>>

Init ==
  /\ store = [k \in Ids |-> Undefined]
  /\ op = None
  /\ before = store /\ target = store /\ todo = <<>>
  /\ rerolls = 0
  /\ torn = {}

(* makeRootDirectory, in the constructor: data first, so that a root inode has its data *)
MakeRoot ==
  /\ store[Root] = Undefined
  /\ \E k \in DataGuids : Free(k) /\ Start("makeRoot", << <<>> >>, RootMade(store, k), <<k, Root>>)

(* Mutants: the parent's listing first; a listing begun anew. *)
CreateListingFirst(p, t) ==
  /\ CanCreate(store, p)
  /\ \E dataId \in DataGuids, nodeId \in NodeGuids :
       /\ dataId # nodeId /\ Free(dataId) /\ Free(nodeId)
       /\ Start("create", <<p>>, Created(store, p, t, dataId, nodeId),
                <<store[ParentId(store, p)].data, dataId, nodeId>>)
CreateAlone(p, t) ==
  /\ CanCreate(store, p)
  /\ \E dataId \in DataGuids, nodeId \in NodeGuids :
       LET list == store[ParentId(store, p)].data
           wanted == Put(Created(store, p, t, dataId, nodeId), list,
                         Listing([EmptyDirNode.ls EXCEPT ![Basename(p)] = nodeId]))
       IN /\ dataId # nodeId /\ Free(dataId) /\ Free(nodeId)
          /\ Start("create", <<p>>, wanted, <<dataId, nodeId, list>>)
Create(p, t) ==
  /\ CanCreate(store, p)
  /\ \E dataId \in DataGuids, nodeId \in NodeGuids :
       /\ dataId # nodeId /\ Free(dataId) /\ Free(nodeId)
       /\ Start("create", <<p>>, Created(store, p, t, dataId, nodeId),
                <<dataId, nodeId, store[ParentId(store, p)].data>>)

RemoveKeys(p) ==
  LET node == Target(store, p)
  IN <<store[node].data, node, store[ParentId(store, p)].data>>
Unlink(p) ==
  /\ CanRemove(store, p, "file")
  /\ Start("remove", <<p>>, Removed(store, p), RemoveKeys(p))
Rmdir(p) ==
  /\ IsEmptyDir(store, p) /\ CanRemove(store, p, "dir")
  /\ Start("remove", <<p>>, Removed(store, p), RemoveKeys(p))

Rename(old, new) ==
  /\ CanRename(store, old, new)
  /\ LET victim == Victim(store, old, new)
         dels == IF victim = NoId THEN <<>> ELSE <<store[victim].data, victim>>
         lists == <<store[ParentId(store, old)].data, store[ParentId(store, new)].data>>
     IN Start("rename", <<old, new>>, Renamed(store, old, new), dels \o lists)

(* _syncSync writes over whatever the path names by now, a directory too.  A
   handle remembers its path only, so that any path but the root's may have one:
   opened when it named a file, which has been unlinked or renamed since. *)
Sync(p, c) ==
  /\ p # <<>> /\ CanSync(store, p)
  /\ Start("sync", <<p>>, Synced(store, p, c),
           <<store[NodeId(store, p)].data, NodeId(store, p)>>)

----------------------------------------------------------------------------
(* The next key is a put, or a del that removes nothing. *)
IsPut == target[Head(todo)] # Undefined

(* The inode _syncSync has yet to put, its bytes already there *)
Half == IF op.name = "sync" /\ Len(todo) = 1 THEN {Head(todo)} ELSE {}

WriteKey ==
  /\ todo # <<>>
  /\ store' = IF IsPut THEN Put(store, Head(todo), target[Head(todo)]) ELSE store
  /\ todo' = Tail(todo)
  /\ torn' = torn \ Half
  /\ UNCHANGED <<op, before, target, rerolls>>

Finish ==
  /\ op' = None
  /\ before' = store' /\ target' = store' /\ todo' = <<>> /\ rerolls' = 0

Commit ==
  /\ Running /\ todo = <<>>
  /\ UNCHANGED <<store, torn>>
  /\ Finish

(* The put is one of addNewNode's two *)
InAddNewNode == op.name = "create" /\ Len(todo) > 1

(* "Ignore and reroll": nothing counts the retries *)
Reroll ==
  /\ todo # <<>> /\ IsPut
  /\ InAddNewNode
  /\ rerolls' = rerolls + 1 /\ rerolls < MaxRerolls
  /\ UNCHANGED <<store, op, before, target, todo, torn>>

(* Mutant: no rollback. *)
RolledBackNothing == store

(* abort: the keys written get their old value back; those that had none are
   deleted, to no effect.  makeRootDirectory has no abort. *)
RolledBack ==
  [k \in Ids |-> IF before[k] = Undefined THEN store[k] ELSE before[k]]
Abort ==
  /\ todo # <<>> /\ IsPut
  /\ ~ InAddNewNode
  /\ store' = IF op.name = "makeRoot" THEN store ELSE RolledBack
  /\ UNCHANGED torn
  /\ Finish

(* The tab goes away.  The file system is made anew over the same store. *)
Crash ==
  /\ UNCHANGED store
  /\ torn' = torn \union Half
  /\ Finish

Next ==
  \/ MakeRoot
  \/ \E p \in Paths :
       \/ \E t \in {"dir", "file"} : Create(p, t)
       \/ Unlink(p) \/ Rmdir(p)
       \/ \E new \in Paths \ {<<>>} : Rename(p, new)
       \/ \E c \in Contents : Sync(p, c)
  \/ WriteKey \/ Commit \/ Reroll \/ Abort \/ Crash

Spec == Init /\ [][Next]_vars

----------------------------------------------------------------------------
(* What every put keeps: a directory may have lost its listing, no more.    *)
DataIsThere(s) ==
  \A i \in Ids : IsInode(s, i) =>
    \/ s[s[i].data].kind = "blob"
    \/ s[i].type = "dir" /\ s[s[i].data].kind = "listing"
Intact(s) ==
  /\ RootIsDirectory(s) /\ DataIsThere(s) /\ NoSharedData(s)
  /\ NoDanglingEntry(s) /\ NoDoubleEntry(s)

(* An inode and its data agree: a listing, or as many bytes as it says.     *)
Agrees(s, i) ==
  /\ IsDir(s, i) => HasListing(s, i)
  /\ IsFile(s, i) => s[s[i].data] = Blob(s[i].size)

(* Between any two puts, and so after a crash or a rollback anywhere, no    *)
(* entry leads to a node not yet or no longer there, a node in transit is   *)
(* never under two names, and every inode agrees with its data.  _syncSync  *)
(* alone parts the two, between its puts, and after a crash there until the *)
(* path is synced again.  A directory that a stale handle was half synced   *)
(* over has the bytes of a file for its listing.                            *)
SoundAtEveryPut ==
  /\ store[Root] # Undefined => Intact(store)
  /\ \A i \in Ids \ (torn \union Half) : Agrees(store, i)

(* While an operation runs, and if it never gets to its end, every path    *)
(* but its own is as it was.                                               *)
Touched(p) == \E i \in DOMAIN op.paths : IsPrefix(op.paths[i], p)
OthersUntouched ==
  Running => \A p \in Paths : Touched(p) \/ NodeAt(store, p) = NodeAt(before, p)

(* An operation that fails for want of room changes nothing a client sees. *)
RollbackKeepsTree == [][Abort => TreeOf(store') = TreeOf(before)]_vars

----------------------------------------------------------------------------
(* What the comments say and the code does not do: TLC finds each of these  *)
(* violated; the README tells how.                                          *)

(* "Remove all traces of the given path from the file system." (removeEntry) *)
RemoveLeavesNoTrace ==
  [][Commit /\ op.name = "remove" => store = target]_vars

(* "Aborts and rolls back the transaction." (SyncKeyValueRWTransaction)     *)
AbortRollsBack == [][Abort /\ op.name # "makeRoot" => store' = before]_vars

(* "Retries 5 times before giving up" (addNewNode)                          *)
RetriesBounded == rerolls <= 5
=============================================================================
