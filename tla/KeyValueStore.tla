--------------------------- MODULE KeyValueStore ---------------------------
(***************************************************************************)
(* How BrowserFS lays a file system out in a key-value store, and what     *)
(* each synchronous operation of SyncKeyValueFileSystem does to it         *)
(* (src/src/generic/key_value_filesystem.ts).  Only operators, no state:   *)
(* KeyValueFS runs every operation as one step, LocalStorageFS key by key. *)
(*                                                                         *)
(* A file or directory is two keys: an inode, and the data the inode names *)
(* (a listing from file names to inode ids, or the bytes of a file).       *)
(***************************************************************************)
EXTENDS Integers, SequencesExt

CONSTANTS
  Names,      \* what a path is made of
  NoName,     \* the empty file name: path.basename('/') = ''
  MaxDepth,   \* bound: the longest path a client passes
  Ids,        \* bound: the keys GenerateRandomID can return, and Root
  Root,       \* ROOT_NODE_ID
  NoId,       \* no such entry, or a lookup that threw
  Contents,   \* the buffers clients write
  Empty       \* emptyBuffer()

ASSUME ConstantsAssumption ==
  /\ MaxDepth \in Nat
  /\ NoName \notin Names
  /\ Root \in Ids /\ NoId \notin Ids
  /\ Empty \in Contents

FileNames == Names \union {NoName}
Paths == SeqOf(Names, MaxDepth)

Dirname(p) == IF p = <<>> THEN <<>> ELSE Front(p)
Basename(p) == IF p = <<>> THEN NoName ELSE Last(p)

----------------------------------------------------------------------------
(* The values of the store.  `size` is the buffer whose length the inode records. *)

Inodes   == [kind : {"inode"}, type : {"dir", "file"}, data : Ids, size : Contents]
Listings == [kind : {"listing"}, ls : [FileNames -> Ids \union {NoId}]]
Blobs    == [kind : {"blob"}, bytes : Contents]
Undefined == [kind |-> "none"]
Stores   == [Ids -> Inodes \union Listings \union Blobs \union {Undefined}]

Inode(t, k, c) == [kind |-> "inode", type |-> t, data |-> k, size |-> c]
Listing(l)     == [kind |-> "listing", ls |-> l]
Blob(c)        == [kind |-> "blob", bytes |-> c]
EmptyDirNode   == Listing([n \in FileNames |-> NoId])

Put(s, k, v) == [s EXCEPT ![k] = v]
Del(s, k)    == Put(s, k, Undefined)
(* put(key, data, false): an existing key is left alone. *)
PutNew(s, k, v) == IF s[k] = Undefined THEN Put(s, k, v) ELSE s

----------------------------------------------------------------------------
(* Lookups.  Every throw of the code is NoId or a false guard here. *)

IsInode(s, i) == i \in Ids /\ s[i].kind = "inode"
IsDir(s, i)   == IsInode(s, i) /\ s[i].type = "dir"
IsFile(s, i)  == IsInode(s, i) /\ s[i].type = "file"

(* getDirListing(getINode(i)) returns, and what it returns. *)
HasListing(s, i) == IsDir(s, i) /\ s[s[i].data].kind = "listing"
Ls(s, i) == s[s[i].data].ls
Entry(s, i, n) == IF HasListing(s, i) THEN Ls(s, i)[n] ELSE NoId

(* _findINode: the id of the inode of each path, walking down from the root. *)
NodeIds(s) ==
  LET id[p \in Paths] ==
        IF p = <<>> THEN Root ELSE Entry(s, id[Front(p)], Last(p))
  IN id
NodeId(s, p) == NodeIds(s)[p]
ParentId(s, p) == NodeId(s, Dirname(p))
(* parentListing[basename(p)] *)
Target(s, p) == Entry(s, ParentId(s, p), Basename(p))

----------------------------------------------------------------------------
(* makeRootDirectory: an empty listing, then the inode of the root *)
RootMade(s, rootData) ==
  Put(PutNew(s, rootData, EmptyDirNode), Root, Inode("dir", rootData, Empty))
EmptyStore(rootData) == RootMade([k \in Ids |-> Undefined], rootData)

(* The operations, on the inode of the parent and a file name: what remains once
   the lookups are done.  The synchronous and the asynchronous file system share
   them; the one looks the parent up in the store, the other in a cache first. *)

(* commitNewFile: the file's data, its inode, then the parent's listing. *)
CanCreateIn(s, parent, n) == HasListing(s, parent) /\ Entry(s, parent, n) = NoId
CreatedIn(s, parent, n, t, dataId, nodeId) ==
  LET s1 == PutNew(s, dataId, IF t = "dir" THEN EmptyDirNode ELSE Blob(Empty))
      s2 == PutNew(s1, nodeId, Inode(t, dataId, Empty))
  IN Put(s2, s[parent].data, Listing([Ls(s, parent) EXCEPT ![n] = nodeId]))

(* removeEntry: the data, the inode, then the parent's listing. *)
CanRemoveFrom(s, parent, n, t) ==
  /\ HasListing(s, parent)
  /\ LET node == Entry(s, parent, n)
     IN node # NoId /\ IsInode(s, node) /\ s[node].type = t
(* Mutant: the data stays. *)
RemovedInodeOnly(s, parent, n) ==
  Put(Del(s, Entry(s, parent, n)), s[parent].data,
      Listing([Ls(s, parent) EXCEPT ![n] = NoId]))
RemovedFrom(s, parent, n) ==
  LET node == Entry(s, parent, n)
      s1 == Del(Del(s, s[node].data), node)
  IN Put(s1, s[parent].data, Listing([Ls(s, parent) EXCEPT ![n] = NoId]))

(* rmdir reads the directory first *)
IsEmptyDirAt(s, node) ==
  HasListing(s, node) /\ \A n \in FileNames : Ls(s, node)[n] = NoId

(* What rename finds under the new name m, the old name n already deleted from
   the listing, which is the same one if the parents are (`same`). *)
VictimIn(s, n, newDir, m, same) ==
  IF same /\ n = m THEN NoId ELSE Entry(s, newDir, m)
CanRenameIn(s, oldDir, n, newDir, m, same) ==
  LET victim == VictimIn(s, n, newDir, m, same)
  IN /\ HasListing(s, oldDir) /\ Entry(s, oldDir, n) # NoId
     /\ HasListing(s, newDir)
     /\ victim = NoId \/ IsFile(s, victim)
(* Mutant: the listing is read again although the directory is the same. *)
RenamedRegrabbing(s, oldDir, n, newDir, m, same) ==
  LET victim == VictimIn(s, n, newDir, m, same)
      without == [Ls(s, oldDir) EXCEPT ![n] = NoId]
      newList == [Ls(s, newDir) EXCEPT ![m] = Entry(s, oldDir, n)]
      s1 == IF victim = NoId THEN s ELSE Del(Del(s, s[victim].data), victim)
  IN Put(Put(s1, s[oldDir].data, Listing(without)), s[newDir].data, Listing(newList))
RenamedIn(s, oldDir, n, newDir, m, same) ==
  LET victim == VictimIn(s, n, newDir, m, same)
      without == [Ls(s, oldDir) EXCEPT ![n] = NoId]
      newList == [(IF same THEN without ELSE Ls(s, newDir)) EXCEPT ![m] = Entry(s, oldDir, n)]
      oldList == IF same THEN newList ELSE without
      s1 == IF victim = NoId THEN s ELSE Del(Del(s, s[victim].data), victim)
  IN Put(Put(s1, s[oldDir].data, Listing(oldList)), s[newDir].data, Listing(newList))

(* _sync of an open file: the bytes, then the inode, whose size and mode
   (the type bits too) Inode.update takes from the file's stats. *)
SyncedAt(s, node, c) ==
  LET data == s[node].data
  IN Put(Put(s, data, Blob(c)), node, Inode("file", data, c))

----------------------------------------------------------------------------
(* The operations of SyncKeyValueFileSystem, which finds every inode from the root. *)

CanCreate(s, p) == p # <<>> /\ CanCreateIn(s, ParentId(s, p), Basename(p))
Created(s, p, t, dataId, nodeId) ==
  CreatedIn(s, ParentId(s, p), Basename(p), t, dataId, nodeId)

CanRemove(s, p, t) == CanRemoveFrom(s, ParentId(s, p), Basename(p), t)
Removed(s, p) == RemovedFrom(s, ParentId(s, p), Basename(p))
IsEmptyDir(s, p) == IsEmptyDirAt(s, NodeId(s, p))

(* (newParent + '/').indexOf(oldPath + '/') === 0 *)
MovesInsideItself(old, newParent) ==
  IF old = <<>> THEN newParent = <<>> ELSE IsPrefix(old, newParent)
SameParent(old, new) == Dirname(old) = Dirname(new)
Victim(s, old, new) ==
  VictimIn(s, Basename(old), ParentId(s, new), Basename(new), SameParent(old, new))

(* Mutants: no EBUSY check; a directory renamed over like a file. *)
CanRenameAnywhere(s, old, new) ==
  CanRenameIn(s, ParentId(s, old), Basename(old), ParentId(s, new), Basename(new),
              SameParent(old, new))
CanRenameOverAnything(s, old, new) ==
  /\ ~ MovesInsideItself(old, Dirname(new))
  /\ Target(s, old) # NoId
  /\ HasListing(s, ParentId(s, new))
CanRename(s, old, new) ==
  /\ ~ MovesInsideItself(old, Dirname(new))
  /\ CanRenameIn(s, ParentId(s, old), Basename(old), ParentId(s, new), Basename(new),
                 SameParent(old, new))
Renamed(s, old, new) ==
  RenamedIn(s, ParentId(s, old), Basename(old), ParentId(s, new), Basename(new),
            SameParent(old, new))

CanSync(s, p) == IsInode(s, NodeId(s, p))
Synced(s, p, c) == SyncedAt(s, NodeId(s, p), c)

(* openFileSync finds the inode and its data *)
CanOpen(s, p) == IsFile(s, NodeId(s, p)) /\ s[s[NodeId(s, p)].data] # Undefined

----------------------------------------------------------------------------
(* What a sound store is. *)

(* "INVARIANT: Ensure that the root exists" *)
RootIsDirectory(s) == HasListing(s, Root)

(* The key an inode names holds data of the inode's type. *)
DataMatchesType(s) ==
  \A i \in Ids : IsInode(s, i) =>
    s[s[i].data].kind = IF s[i].type = "dir" THEN "listing" ELSE "blob"

(* No two inodes name the same data: there are no hard links here. *)
NoSharedData(s) ==
  \A i, j \in Ids : IsInode(s, i) /\ IsInode(s, j) /\ s[i].data = s[j].data => i = j

(* Every entry of every listing names an inode, and never the root's. *)
NoDanglingEntry(s) ==
  \A d \in Ids, n \in FileNames : Entry(s, d, n) # NoId =>
    IsInode(s, Entry(s, d, n)) /\ Entry(s, d, n) # Root

(* An inode is under one name only. *)
NoDoubleEntry(s) ==
  \A d, e \in Ids, n, m \in FileNames :
    Entry(s, d, n) # NoId /\ Entry(s, d, n) = Entry(s, e, m) => d = e /\ n = m

WellFormed(s) ==
  /\ RootIsDirectory(s)
  /\ DataMatchesType(s)
  /\ NoSharedData(s)
  /\ NoDanglingEntry(s)
  /\ NoDoubleEntry(s)

(* A key nothing leads to: an inode no listing names, data no inode names. *)
Orphan(s, k) ==
  /\ k # Root
  /\ s[k] # Undefined
  /\ IF IsInode(s, k)
     THEN \A d \in Ids, n \in FileNames : Entry(s, d, n) # k
     ELSE \A i \in Ids : IsInode(s, i) => s[i].data # k

OrphanFree(s) == \A k \in Ids : ~ Orphan(s, k)

(* The tree a store holds: what stat and readFile of each path find. *)
NodeAt(s, p) ==
  LET i == NodeId(s, p)
  IN IF IsFile(s, i) THEN [type |-> "file", bytes |-> s[s[i].data].bytes]
     ELSE IF IsDir(s, i) THEN [type |-> "dir"] ELSE [type |-> "absent"]
TreeOf(s) == [p \in Paths |-> NodeAt(s, p)]

(* Inodes some path leads to. *)
Reachable(s) == {NodeId(s, p) : p \in Paths} \ {NoId}
=============================================================================
