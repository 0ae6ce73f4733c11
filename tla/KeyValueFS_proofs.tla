-------------------------- MODULE KeyValueFS_proofs --------------------------
(***************************************************************************)
(* KeyValueFS keeps its store well formed and leaves no orphan keys, for   *)
(* every set of names, keys and contents, and every bound; the transaction *)
(* below it restores the store when it aborts.                             *)
(***************************************************************************)
EXTENDS KeyValueFS, SyncTransaction, KeyValueStore_proofs

----------------------------------------------------------------------------
(* The transaction *)

(* UndoLogSufficient is inductive on its own, given the types. *)
TxInv == TxTypeOK /\ UndoLogSufficient

LEMMA TxInitInv == TxInit => TxInv
BY DEF TxInit, TxInv, TxTypeOK, UndoLogSufficient, Maybe

(* Stashing never changes a value stashed before, and marking a key        *)
(* stashes the value it has.                                               *)
LEMMA MarkModifiedStashes ==
  ASSUME TxInv, phase = "open", NEW k \in Keys, MarkModified(k)
  PROVE  /\ modifiedKeys' = modifiedKeys \union {k} /\ modifiedKeys' \subseteq Keys
         /\ originalData' \in [Keys -> Maybe \union {Unstashed}]
         /\ \A j \in Keys : originalData'[j] # Unstashed => originalData'[j] = snapshot[j]
         /\ \A j \in modifiedKeys' : originalData'[j] # Unstashed
<1> USE DEF TxInv, TxTypeOK, UndoLogSufficient, MarkModified, Stashed
<1>1. syncStore[k] \in Maybe /\ syncStore[k] # Unstashed
  BY ValuesAssumption DEF Maybe
<1>2. CASE k \in modifiedKeys
  BY <1>2
<1>3. CASE k \notin modifiedKeys
  BY <1>1, <1>3
<1> QED
  BY <1>2, <1>3

LEMMA TxNextInv ==
  ASSUME TxInv, [TxNext]_txVars
  PROVE  TxInv'
<1> USE DEF TxInv, TxTypeOK, UndoLogSufficient
<1>1. CASE Begin
  BY <1>1 DEF Begin
<1>2. CASE Commit
  BY <1>2 DEF Commit
<1>3. CASE Abort
  <2>1. \A k \in modifiedKeys : originalData[k] \in Maybe
    BY <1>3 DEF Abort
  <2> QED
    BY <1>3, <2>1 DEF Abort, RolledBack
<1>4. ASSUME NEW k \in Keys, Get(k) PROVE TxInv'
  <2>1. syncStore[k] \in Maybe /\ syncStore[k] # Unstashed
    BY ValuesAssumption DEF Maybe
  <2>2. originalData[k] = Unstashed => syncStore[k] = snapshot[k]
    BY <1>4 DEF Get
  <2> QED
    BY <1>4, <2>1, <2>2 DEF Get, Stashed
<1>5. ASSUME NEW k \in Keys, DelKey(k) PROVE TxInv'
  <2>1. MarkModified(k) /\ phase = "open"
    BY <1>5 DEF DelKey
  <2> QED
    BY <1>5, <2>1, MarkModifiedStashes DEF DelKey, Maybe
<1>6. ASSUME NEW k \in Keys, NEW v \in Values, NEW overwrite \in BOOLEAN,
             PutKey(k, v, overwrite)
      PROVE  TxInv'
  <2>1. MarkModified(k) /\ phase = "open"
    BY <1>6 DEF PutKey
  <2> QED
    BY <1>6, <2>1, MarkModifiedStashes DEF PutKey, Maybe
<1>7. CASE UNCHANGED txVars
  BY <1>7 DEF txVars
<1> QED
  BY <1>1, <1>2, <1>3, <1>4, <1>5, <1>6, <1>7 DEF TxNext

(* At every moment of a transaction the undo log can restore the store.    *)
THEOREM UndoLogAlwaysSufficient == TxSpec => []UndoLogSufficient
<1>1. TxInv => UndoLogSufficient
  BY DEF TxInv
<1> QED
  BY <1>1, TxInitInv, TxNextInv, PTL DEF TxSpec

(* An abort takes the store back to what it was when the transaction       *)
(* began, over every store whose put may throw and whose del deletes.      *)
THEOREM AbortAlwaysRestores == TxSpec => AbortRestores
<1>1. ASSUME TxInv, Abort
      PROVE  syncStore' = snapshot
  BY <1>1 DEF TxInv, TxTypeOK, UndoLogSufficient, Abort, RolledBack
<1>2. TxInv => [Abort => syncStore' = snapshot]_txVars
  BY <1>1
<1> QED
  BY <1>2, TxInitInv, TxNextInv, PTL DEF TxSpec, AbortRestores

----------------------------------------------------------------------------
(* The inductive invariant.  NoOrphans alone is not inductive: it takes    *)
(* well-formedness to know that removing a node frees its keys and no      *)
(* other's; and both need that no handle is open on the root, which a sync *)
(* would turn into a file.                                                 *)
Inv ==
  /\ TypeOK
  /\ StoreWellFormed
  /\ NoOrphans
  /\ <<>> \notin handles

(* A new node in a sound store leaves it sound. *)
LEMMA CreatesInSound ==
  ASSUME GuidsUnique, NEW s \in Stores, WellFormed(s),
         NEW p \in Paths, NEW t \in {"dir", "file"}, CreatesIn(s, p, t)
  PROVE  /\ store' \in Stores /\ WellFormed(store')
         /\ OrphanFree(s) => OrphanFree(store')
BY CreatedSound, ClientAssumption DEF CreatesIn

(* What openSync unlinks to truncate it is a file, and not the root. *)
LEMMA OpenTruncateRemoves ==
  ASSUME NEW p \in Paths, OpenTruncate(p)
  PROVE  p # <<>> /\ CanRemove(store, p, "file")
<1>1. p # <<>>
  BY DEF OpenTruncate, CreatesIn, CanCreate
<1>2. NodeId(store, p) = Target(store, p)
  BY <1>1, NodeIdDef, PathFacts DEF Target, ParentId
<1>3. IsFile(store, Target(store, p))
  BY <1>2 DEF OpenTruncate, CanOpen
<1>4. Target(store, p) # NoId
  BY <1>3, ConstantsAssumption DEF IsFile, IsInode
<1>5. HasListing(store, ParentId(store, p))
  BY <1>4 DEF Target, Entry
<1> QED
  BY <1>1, <1>3, <1>4, <1>5 DEF CanRemove, CanRemoveFrom, Target, IsFile

LEMMA InitInv == Init => Inv
BY EmptyStoreSound, ClientAssumption DEF Init, Inv, TypeOK, StoreWellFormed, NoOrphans

(* Every operation keeps the invariant. *)
LEMMA NextInv ==
  ASSUME GuidsUnique, Inv, [Next]_vars
  PROVE  Inv'
<1> USE DEF Inv, TypeOK, StoreWellFormed, NoOrphans
<1>1. CASE Clear
  BY <1>1, EmptyStoreSound, ClientAssumption DEF Clear
<1>2. ASSUME NEW p \in Paths, Mkdir(p) PROVE Inv'
  BY <1>2, CreatesInSound DEF Mkdir
<1>3. ASSUME NEW p \in Paths, OpenNew(p) PROVE Inv'
  <2>1. p # <<>>
    BY <1>3 DEF OpenNew, CreatesIn, CanCreate, CanCreateIn
  <2> QED
    BY <1>3, <2>1, CreatesInSound DEF OpenNew
<1>4. ASSUME NEW p \in Paths, OpenTruncate(p) PROVE Inv'
  <2> DEFINE s == Removed(store, p)
  <2>1. p # <<>> /\ CreatesIn(s, p, "file")
    BY <1>4 DEF OpenTruncate, CreatesIn, CanCreate, CanCreateIn
  <2>2. CanRemove(store, p, "file")
    BY <1>4, OpenTruncateRemoves
  <2>3. s \in Stores /\ WellFormed(s) /\ (OrphanFree(store) => OrphanFree(s))
    BY <2>2, RemovedSound
  <2> HIDE DEF s
  <2>4. store' \in Stores /\ WellFormed(store') /\ (OrphanFree(s) => OrphanFree(store'))
    BY <2>1, <2>3, CreatesInSound
  <2> QED
    BY <1>4, <2>1, <2>3, <2>4 DEF OpenTruncate
<1>5. ASSUME NEW p \in Paths, OpenExisting(p) PROVE Inv'
  <2>1. p # <<>>
    BY <1>5, NodeIdDef, PathFacts
    DEF OpenExisting, CanOpen, IsFile, WellFormed, RootIsDirectory, HasListing, IsDir
  <2> QED
    BY <1>5, <2>1 DEF OpenExisting
<1>6. ASSUME NEW p \in Paths, NEW c \in Contents, Sync(p, c)
      PROVE  /\ store' \in Stores /\ WellFormed(store')
             /\ clobbered' \in BOOLEAN
             /\ ~ clobbered' => OrphanFree(store')
  <2>1. p # <<>> /\ CanSync(store, p) /\ store' = Synced(store, p, c)
    BY <1>6 DEF Sync
  <2>2. store' \in Stores /\ WellFormed(store')
        /\ (OrphanFree(store) /\ (IsDir(store, NodeId(store, p)) => IsEmptyDir(store, p))
              => OrphanFree(store'))
    BY <2>1, SyncedSound
  <2> QED
    BY <1>6, <2>2 DEF Sync
<1>7. ASSUME NEW p \in Paths, NEW c \in Contents, Fsync(p, c) PROVE Inv'
  BY <1>6, <1>7 DEF Fsync
<1>8. ASSUME NEW p \in Paths, Close(p) PROVE Inv'
  BY <1>6, <1>8 DEF Close
<1>9. ASSUME NEW p \in Paths, Unlink(p) PROVE Inv'
  BY <1>9, RemovedSound DEF Unlink
<1>10. ASSUME NEW p \in Paths, Rmdir(p) PROVE Inv'
  BY <1>10, RemovedSound DEF Rmdir
<1>11. ASSUME NEW p \in Paths, NEW new \in RenameTo, Rename(p, new) PROVE Inv'
  BY <1>11, RenamedSound, ClientAssumption DEF Rename
<1>12. CASE UNCHANGED vars
  BY <1>12 DEF vars
<1> QED
  BY <1>1, <1>2, <1>3, <1>4, <1>5, <1>7, <1>8, <1>9, <1>10, <1>11, <1>12 DEF Next

(* As long as GUIDs do not collide, every reachable store is of its type   *)
(* and a file system: whatever the clients create, remove, rename and sync *)
(* through stale handles, no entry dangles and no two names share a node.  *)
THEOREM WellFormedAlways ==
  ASSUME GuidsUnique
  PROVE  Spec => [](TypeOK /\ StoreWellFormed)
<1>1. Inv => TypeOK /\ StoreWellFormed
  BY DEF Inv
<1> QED
  BY <1>1, InitInv, NextInv, PTL DEF Spec

(* And no key is ever lost, unless a handle was synced over a directory.   *)
THEOREM NoOrphansAlways ==
  ASSUME GuidsUnique
  PROVE  Spec => []NoOrphans
<1>1. Inv => NoOrphans
  BY DEF Inv
<1> QED
  BY <1>1, InitInv, NextInv, PTL DEF Spec

----------------------------------------------------------------------------
(* The tree.  Two more hypotheses: no client renames to '/', which would    *)
(* make an entry without a name, and paths may be as long as there are      *)
(* nodes, so that a rename never moves one where no path reaches.           *)
DepthSuffices == IsFiniteSet(NodeGuids) /\ Cardinality(NodeGuids) <= MaxDepth

NodesFromGuids == \A i \in Ids : IsInode(store, i) => i \in NodeGuids \union {Root}

(* AllReachable is inductive with these: a nameless entry is under no path, *)
(* and the nodes must be few for every one of them to have one.             *)
TreeInv ==
  /\ Inv
  /\ NodesFromGuids
  /\ NoNamelessEntry
  /\ AllReachable

(* The nodes the path of a node can name are nodes, and the root is found.  *)
LEMMA ReachableFacts ==
  ASSUME NEW s \in Stores, WellFormed(s)
  PROVE  /\ Root \in Reachable(s)
         /\ \A i \in Reachable(s) : \E q \in Paths : NodeId(s, q) = i /\ i # NoId
         /\ \A q \in Paths : NodeId(s, q) # NoId => NodeId(s, q) \in Reachable(s)
BY LookupStep, PathFacts, ConstantsAssumption DEF Reachable

(* A step that takes no path from a node, and a node to every new path,     *)
(* leaves everything reachable.                                             *)
LEMMA ReachableKept ==
  ASSUME NEW s \in Stores, WellFormed(s), NEW u \in Stores, WellFormed(u), NEW gone, NEW new,
         {i \in Ids : IsInode(s, i)} \subseteq Reachable(s),
         \A i \in Ids : IsInode(u, i) => (IsInode(s, i) /\ i # gone) \/ i = new,
         \A q \in Paths : NodeId(s, q) # gone => NodeId(u, q) = NodeId(s, q) \/ NodeId(s, q) = NoId,
         IsInode(u, new) => new \in Reachable(u)
  PROVE  {i \in Ids : IsInode(u, i)} \subseteq Reachable(u)
<1> SUFFICES ASSUME NEW i \in Ids, IsInode(u, i), i # new
             PROVE  i \in Reachable(u)
  OBVIOUS
<1>1. IsInode(s, i) /\ i # gone
  OBVIOUS
<1>2. PICK q \in Paths : NodeId(s, q) = i /\ i # NoId
  BY <1>1, ReachableFacts
<1>3. NodeId(u, q) = i
  BY <1>1, <1>2
<1> QED
  BY <1>2, <1>3, ReachableFacts

(* Rename: what was found through the old name is found through the new one. *)
LEMMA RenamedReachable ==
  ASSUME NEW s \in Stores, WellFormed(s), AllHavePaths(s),
         NEW u \in Stores, WellFormed(u), AllHavePaths(u),
         NEW old \in Paths \ {<<>>}, NEW new \in Paths \ {<<>>}, old # new,
         CanRename(s, old, new), u = Renamed(s, old, new),
         {i \in Ids : IsInode(s, i)} \subseteq Reachable(s)
  PROVE  {i \in Ids : IsInode(u, i)} \subseteq Reachable(u)
<1> DEFINE there == NodeId(s, new)
           Good == {n \in Nat : \A q \in Paths :
                      Len(q) = n /\ NodeId(s, q) # NoId /\ NodeId(s, q) # there
                        => NodeId(s, q) \in Reachable(u)}
<1>1. /\ NodeId(u, new) = NodeId(s, old)
      /\ NodeAt(s, new) = [type |-> "absent"] \/ NodeAt(s, new).type = "file"
      /\ \A d \in Ids, n \in FileNames :
           Entry(u, d, n) = IF d = NodeId(s, Front(new)) /\ n = Last(new) THEN NodeId(s, old)
                            ELSE IF d = NodeId(s, Front(old)) /\ n = Last(old) THEN NoId
                            ELSE Entry(s, d, n)
      /\ \A i \in Ids : IsInode(u, i) <=> IsInode(s, i) /\ i # there
  BY RenamedTree
<1>2. ~ IsDir(s, there)
  BY <1>1 DEF NodeAt, IsFile, IsDir
<1>3. 0 \in Good
  <2>1. \A q \in Paths : Len(q) = 0 => NodeId(s, q) = Root
    BY PathFacts, LookupStep
  <2> QED
    BY <2>1, ReachableFacts
<1>4. ASSUME NEW n \in Good
      PROVE  n + 1 \in Good
  <2> SUFFICES ASSUME NEW q \in Paths, Len(q) = n + 1, NodeId(s, q) # NoId, NodeId(s, q) # there
               PROVE  NodeId(s, q) \in Reachable(u)
    OBVIOUS
  <2> DEFINE d == NodeId(s, Front(q))
  <2>1. /\ q # <<>> /\ Len(Front(q)) = n /\ Front(q) \in Paths
        /\ Last(q) \in Names /\ Last(q) \in FileNames
    BY PathFacts, <1>4 DEF FileNames
  <2>2. NodeId(s, q) = Entry(s, d, Last(q)) /\ d \in Ids /\ d # NoId /\ d # there
    BY <2>1, <1>2, LookupStep, NoEntries, ConstantsAssumption
  <2>3. CASE q = old
    BY <2>3, <1>1, ReachableFacts
  <2>4. CASE q # old
    <3>1. /\ ~ (d = NodeId(s, Front(new)) /\ Last(q) = Last(new))
          /\ ~ (d = NodeId(s, Front(old)) /\ Last(q) = Last(old))
      BY <2>1, <2>2, <2>4, LookupStep
    <3>2. Entry(u, d, Last(q)) = NodeId(s, q)
      BY <2>1, <2>2, <3>1, <1>1
    <3>3. d \in Reachable(u)
      BY <2>1, <2>2, <1>4
    <3>4. PICK r \in Paths : NodeId(u, r) = d
      BY <3>3, ReachableFacts
    <3>5. Len(r) # MaxDepth
      BY <2>1, <3>2, <3>4 DEF AllHavePaths
    <3>6. PICK a \in Paths \ {<<>>} : Front(a) = r /\ Last(a) = Last(q)
      BY <2>1, <3>5, PathExtends
    <3>7. NodeId(u, a) = NodeId(s, q)
      BY <3>2, <3>4, <3>6, LookupStep
    <3> QED
      BY <3>7, ReachableFacts
  <2> QED
    BY <2>3, <2>4
<1>5. Good = Nat
  <2>1. Good \subseteq Nat
    OBVIOUS
  <2> HIDE DEF Good
  <2> QED
    BY <1>3, <1>4, <2>1, SetInduction
<1>6. SUFFICES ASSUME NEW i \in Ids, IsInode(u, i)
               PROVE  i \in Reachable(u)
  OBVIOUS
<1>7. IsInode(s, i) /\ i # there
  BY <1>1, <1>6
<1>8. PICK q \in Paths : NodeId(s, q) = i /\ i # NoId
  BY <1>7, ReachableFacts
<1>9. Len(q) \in Good
  BY <1>5, PathFacts
<1> QED
  BY <1>7, <1>8, <1>9

LEMMA TreeInitInv == Init => TreeInv
<1> SUFFICES ASSUME Init PROVE TreeInv
  OBVIOUS
<1>1. PICK k \in DataGuids : store = EmptyStore(k)
  BY DEF Init
<1>2. /\ WellFormed(store) /\ store \in Stores
      /\ \A i \in Ids : IsInode(store, i) <=> i = Root
      /\ \A d \in Ids, n \in FileNames : Entry(store, d, n) = NoId
  BY <1>1, EmptyStoreSound, ClientAssumption
<1> QED
  BY <1>2, InitInv, ReachableFacts DEF TreeInv, NodesFromGuids, NoNamelessEntry, AllReachable, FileNames

(* What the next store is, after an operation that makes a new node.        *)
LEMMA CreatesInTree ==
  ASSUME GuidsUnique, NEW s \in Stores, WellFormed(s),
         NEW p \in Paths, NEW t \in {"dir", "file"}, CreatesIn(s, p, t)
  PROVE  /\ p # <<>> /\ store' \in Stores /\ WellFormed(store')
         /\ NodeAt(s, p) = [type |-> "absent"] /\ NodeAt(s, Front(p)) = [type |-> "dir"]
         /\ \A q \in Paths : NodeAt(store', q) =
              IF q # p THEN NodeAt(s, q)
              ELSE IF t = "dir" THEN [type |-> "dir"] ELSE [type |-> "file", bytes |-> Empty]
         /\ \E nodeId \in NodeGuids :
              /\ \A i \in Ids : IsInode(store', i) <=> IsInode(s, i) \/ i = nodeId
              /\ {i \in Ids : IsInode(s, i)} \subseteq Reachable(s)
                   => {i \in Ids : IsInode(store', i)} \subseteq Reachable(store')
         /\ \A d \in Ids : Entry(store', d, NoName) = Entry(s, d, NoName)
<1>1. PICK dataId \in DataGuids, nodeId \in NodeGuids :
        /\ dataId # nodeId /\ s[dataId] = Undefined /\ s[nodeId] = Undefined
        /\ store' = Created(s, p, t, dataId, nodeId)
  BY DEF CreatesIn
<1>2. CanCreate(s, p) /\ dataId \in Ids \ {Root} /\ nodeId \in Ids \ {Root}
  BY ClientAssumption DEF CreatesIn
<1>3. /\ p # <<>>
      /\ NodeAt(s, p) = [type |-> "absent"] /\ NodeAt(s, Front(p)) = [type |-> "dir"]
      /\ \A q \in Paths : NodeAt(store', q) =
           IF q # p THEN NodeAt(s, q)
           ELSE IF t = "dir" THEN [type |-> "dir"] ELSE [type |-> "file", bytes |-> Empty]
      /\ \A q \in Paths : NodeId(store', q) = IF q = p THEN nodeId ELSE NodeId(s, q)
      /\ NodeId(s, p) = NoId
      /\ \A i \in Ids : IsInode(store', i) <=> IsInode(s, i) \/ i = nodeId
      /\ \A d \in Ids : Entry(store', d, NoName) = Entry(s, d, NoName)
  BY <1>1, <1>2, CreatedTree
<1>4. store' \in Stores /\ WellFormed(store')
  BY CreatesInSound
<1>5. ASSUME {i \in Ids : IsInode(s, i)} \subseteq Reachable(s)
      PROVE  {i \in Ids : IsInode(store', i)} \subseteq Reachable(store')
  <2>1. nodeId \in Reachable(store')
    BY <1>2, <1>3, <1>4, ReachableFacts, ConstantsAssumption
  <2>2. \A i \in Ids : IsInode(store', i) => (IsInode(s, i) /\ i # NoId) \/ i = nodeId
    BY <1>3, ConstantsAssumption
  <2>3. \A q \in Paths : NodeId(store', q) = NodeId(s, q) \/ NodeId(s, q) = NoId
    BY <1>3
  <2> QED
    BY <1>4, <1>5, <2>1, <2>2, <2>3, ReachableKept
<1> QED
  BY <1>1, <1>3, <1>4, <1>5

(* The abstract specification's words for paths mean the same.              *)
LEMMA SamePaths ==
  /\ \A p, q : Abstract!IsPrefix(p, q) <=> IsPrefix(p, q)
  /\ \A p : Abstract!Front(p) = Front(p)
  /\ \A p, q \in Paths : q \in Abstract!Below(p) <=> Under(p, q)
<1>1. \A p, q : Abstract!IsPrefix(p, q) <=> IsPrefix(p, q)
  BY DEF Abstract!IsPrefix, IsPrefix
<1>2. \A p : Abstract!Front(p) = Front(p)
  BY DEF Abstract!Front, Front
<1>3. \A p, q \in Paths : q \in Abstract!Below(p) <=> Under(p, q)
  BY <1>1 DEF Abstract!Below, Abstract!IsStrictPrefix, Under
<1> QED
  BY <1>1, <1>2, <1>3

(* The steps of the tree, read from what stat and readFile show before and  *)
(* after.                                                                   *)
LEMMA CreateStep ==
  ASSUME NEW p \in Paths \ {<<>>}, NEW node \in {Abstract!Dir, Abstract!File(Empty)},
         NodeAt(store, p) = [type |-> "absent"], NodeAt(store, Front(p)) = [type |-> "dir"],
         \A q \in Paths : NodeAt(store', q) = IF q # p THEN NodeAt(store, q) ELSE node
  PROVE  Abstract!Next
<1>1. Front(p) \in Paths
  BY PathFacts
<1>2. Abstract!Create(p, node)
  BY <1>1, SamePaths DEF TreeOf, Abstract!Create, Abstract!CanCreate, Abstract!With, Abstract!IsDirAt,
     Abstract!Parent, Abstract!Dir, Abstract!Absent
<1> QED
  BY <1>2 DEF Abstract!Next

LEMMA WriteStep ==
  ASSUME NEW p \in Paths \ {<<>>}, NEW c \in Contents,
         NodeAt(store, p) # [type |-> "absent"],
         \A q \in Paths : NodeAt(store', q) =
           IF q = p THEN [type |-> "file", bytes |-> c]
           ELSE IF Under(p, q) THEN [type |-> "absent"] ELSE NodeAt(store, q)
  PROVE  Abstract!Next
<1>1. Abstract!Write(p, c)
  BY SamePaths DEF TreeOf, Abstract!Write, Abstract!File, Abstract!Absent
<1> QED
  BY <1>1 DEF Abstract!Next

LEMMA RemoveStep ==
  ASSUME NEW p \in Paths \ {<<>>}, NEW t \in {"dir", "file"},
         NodeAt(store, p).type = t, t = "dir" => NodeAt(store, p) = [type |-> "dir"],
         \A q \in Paths : Under(p, q) => NodeAt(store, q) = [type |-> "absent"],
         \A q \in Paths :
           NodeAt(store', q) = IF q = p THEN [type |-> "absent"] ELSE NodeAt(store, q)
  PROVE  Abstract!Next
<1>1. \A q \in Abstract!Below(p) : q \in Paths /\ Under(p, q)
  BY SamePaths DEF Abstract!Below
<1>2. TreeOf(store)' = Abstract!With(TreeOf(store), p, Abstract!Absent)
  BY DEF TreeOf, Abstract!With, Abstract!Absent
<1>3. CASE t = "file"
  <2>1. Abstract!Unlink(p)
    BY <1>2, <1>3 DEF TreeOf, Abstract!Unlink, Abstract!CanUnlink, Abstract!IsFileAt
  <2> QED
    BY <2>1 DEF Abstract!Next
<1>4. CASE t = "dir"
  <2>1. Abstract!Rmdir(p)
    BY <1>1, <1>2, <1>4
    DEF TreeOf, Abstract!Rmdir, Abstract!CanRmdir, Abstract!IsDirAt, Abstract!Dir, Abstract!Absent
  <2> QED
    BY <2>1 DEF Abstract!Next
<1> QED
  BY <1>3, <1>4

LEMMA RenameStep ==
  ASSUME NEW old \in Paths \ {<<>>}, NEW new \in Paths \ {<<>>}, old # new,
         NodeAt(store, old) # [type |-> "absent"],
         NodeAt(store, Front(new)) = [type |-> "dir"], ~ IsPrefix(old, Front(new)),
         NodeAt(store, new) = [type |-> "absent"] \/ NodeAt(store, new).type = "file",
         \A q \in Paths :
           NodeAt(store', q) = IF IsPrefix(new, q)
                               THEN IF Moved(old, new, q) \in Paths
                                    THEN NodeAt(store, Moved(old, new, q)) ELSE [type |-> "absent"]
                               ELSE IF IsPrefix(old, q) THEN [type |-> "absent"]
                               ELSE NodeAt(store, q)
  PROVE  Abstract!Next
<1>1. Front(new) \in Paths
  BY PathFacts
<1>2. Abstract!CanRename(TreeOf(store), old, new)
  BY <1>1, SamePaths DEF TreeOf, Abstract!CanRename, Abstract!IsDirAt, Abstract!IsFileAt,
     Abstract!Parent, Abstract!Dir, Abstract!Absent
<1>3. TreeOf(store)' = Abstract!Renamed(TreeOf(store), old, new)
  BY SamePaths DEF TreeOf, Abstract!Renamed, Abstract!Absent, Moved
<1>4. Abstract!Rename(old, new)
  BY <1>2, <1>3 DEF Abstract!Rename
<1> QED
  BY <1>4 DEF Abstract!Next

(* A store of one directory is the empty tree.                              *)
LEMMA EmptyStoreTree ==
  ASSUME NEW k \in DataGuids
  PROVE  TreeOf(EmptyStore(k)) = Abstract!EmptyTree
<1> DEFINE u == EmptyStore(k)
<1>1. /\ u \in Stores /\ WellFormed(u)
      /\ \A d \in Ids, n \in FileNames : Entry(u, d, n) = NoId
  BY EmptyStoreSound, ClientAssumption
<1> HIDE DEF u
<1>2. NodeId(u, <<>>) = Root
  BY <1>1, LookupStep
<1>3. ASSUME NEW q \in Paths \ {<<>>}
      PROVE  NodeId(u, q) = NoId
  BY <1>1, LookupStep, NoEntries
<1>4. \A q \in Paths : NodeAt(u, q) = IF q = <<>> THEN [type |-> "dir"] ELSE [type |-> "absent"]
  BY <1>1, <1>2, <1>3, ConstantsAssumption
  DEF NodeAt, IsFile, IsDir, IsInode, WellFormed, RootIsDirectory, HasListing
<1>5. TreeOf(u) = Abstract!EmptyTree
  BY <1>4 DEF TreeOf, Abstract!EmptyTree, Abstract!Dir, Abstract!Absent
<1> QED
  BY <1>5 DEF u

(* Every step keeps the tree's invariant, and is a step of the tree or      *)
(* leaves it alone.                                                         *)
TreeStep ==
  /\ NodesFromGuids' /\ NoNamelessEntry' /\ AllReachable'
  /\ Abstract!Next \/ TreeOf(store') = TreeOf(store)

LEMMA RemoveTreeStep ==
  ASSUME GuidsUnique, TreeInv, NEW p \in Paths, NEW t \in {"dir", "file"},
         CanRemove(store, p, t), t = "dir" => IsEmptyDir(store, p),
         store' = Removed(store, p), UNCHANGED clobbered
  PROVE  TreeStep
<1> USE DEF TreeInv, Inv, TypeOK, StoreWellFormed
<1>1. p # <<>>
  BY LookupStep, ConstantsAssumption
  DEF NoNamelessEntry, CanRemove, CanRemoveFrom, ParentId, Dirname, Basename
<1>2. /\ NodeAt(store, p).type = t /\ (t = "dir" => NodeAt(store, p) = [type |-> "dir"])
      /\ \A q \in Paths : Under(p, q) => NodeAt(store, q) = [type |-> "absent"]
      /\ \A q \in Paths :
           NodeAt(store', q) = IF q = p THEN [type |-> "absent"] ELSE NodeAt(store, q)
      /\ \A q \in Paths : NodeId(store', q) = IF q = p THEN NoId ELSE NodeId(store, q)
      /\ \A i \in Ids : IsInode(store', i) <=> IsInode(store, i) /\ i # NodeId(store, p)
      /\ \A d \in Ids : Entry(store', d, NoName) \in {NoId, Entry(store, d, NoName)}
  BY <1>1, RemovedTree
<1>3. store' \in Stores /\ WellFormed(store')
  BY RemovedSound
<1>4. Abstract!Next
  BY <1>1, <1>2, RemoveStep
<1>5. AllReachable'
  <2> SUFFICES ASSUME ~ clobbered, {i \in Ids : IsInode(store, i)} \subseteq Reachable(store)
               PROVE  {i \in Ids : IsInode(store', i)} \subseteq Reachable(store')
    BY DEF AllReachable
  <2>1. ~ IsInode(store', NoId)
    BY ConstantsAssumption DEF IsInode
  <2>2. \A q \in Paths : NodeId(store, q) # NodeId(store, p) => NodeId(store', q) = NodeId(store, q)
    BY <1>2
  <2>3. \A i \in Ids : IsInode(store', i) => IsInode(store, i) /\ i # NodeId(store, p)
    BY <1>2
  <2> QED
    BY <1>3, <2>1, <2>2, <2>3, ReachableKept
<1> QED
  BY <1>2, <1>4, <1>5 DEF TreeStep, NodesFromGuids, NoNamelessEntry

LEMMA CreateTreeStep ==
  ASSUME GuidsUnique, TreeInv, NEW p \in Paths, NEW t \in {"dir", "file"},
         CreatesIn(store, p, t), UNCHANGED clobbered
  PROVE  TreeStep
<1> USE DEF TreeInv, Inv, TypeOK, StoreWellFormed
<1> DEFINE node == IF t = "dir" THEN [type |-> "dir"] ELSE [type |-> "file", bytes |-> Empty]
<1>1. /\ p # <<>>
      /\ NodeAt(store, p) = [type |-> "absent"] /\ NodeAt(store, Front(p)) = [type |-> "dir"]
      /\ \A q \in Paths : NodeAt(store', q) = IF q # p THEN NodeAt(store, q) ELSE node
      /\ \E nodeId \in NodeGuids :
           /\ \A i \in Ids : IsInode(store', i) <=> IsInode(store, i) \/ i = nodeId
           /\ {i \in Ids : IsInode(store, i)} \subseteq Reachable(store)
                => {i \in Ids : IsInode(store', i)} \subseteq Reachable(store')
      /\ \A d \in Ids : Entry(store', d, NoName) = Entry(store, d, NoName)
  BY CreatesInTree
<1>2. node \in {Abstract!Dir, Abstract!File(Empty)}
  BY DEF Abstract!Dir, Abstract!File
<1> HIDE DEF node
<1>3. Abstract!Next
  BY <1>1, <1>2, CreateStep
<1> QED
  BY <1>1, <1>3 DEF TreeStep, NodesFromGuids, NoNamelessEntry, AllReachable

LEMMA TruncateTreeStep ==
  ASSUME GuidsUnique, TreeInv, NEW p \in Paths, OpenTruncate(p)
  PROVE  TreeStep
<1> USE DEF TreeInv, Inv, TypeOK, StoreWellFormed
<1>1. PICK s : s = Removed(store, p)
  OBVIOUS
<1>2. p # <<>> /\ CreatesIn(s, p, "file") /\ UNCHANGED clobbered /\ CanRemove(store, p, "file")
  BY <1>1, OpenTruncateRemoves DEF OpenTruncate
<1>3. /\ NodeAt(store, p).type = "file"
      /\ \A q \in Paths : Under(p, q) => NodeAt(store, q) = [type |-> "absent"]
      /\ \A q \in Paths : NodeAt(s, q) = IF q = p THEN [type |-> "absent"] ELSE NodeAt(store, q)
      /\ \A q \in Paths : NodeId(s, q) = IF q = p THEN NoId ELSE NodeId(store, q)
      /\ \A i \in Ids : IsInode(s, i) <=> IsInode(store, i) /\ i # NodeId(store, p)
      /\ \A d \in Ids : Entry(s, d, NoName) \in {NoId, Entry(store, d, NoName)}
  BY <1>1, <1>2, RemovedTree
<1>4. s \in Stores /\ WellFormed(s)
  BY <1>1, <1>2, RemovedSound
<1>5. /\ \A q \in Paths : NodeAt(store', q) =
           IF q # p THEN NodeAt(s, q) ELSE [type |-> "file", bytes |-> Empty]
      /\ \E nodeId \in NodeGuids :
           /\ \A i \in Ids : IsInode(store', i) <=> IsInode(s, i) \/ i = nodeId
           /\ {i \in Ids : IsInode(s, i)} \subseteq Reachable(s)
                => {i \in Ids : IsInode(store', i)} \subseteq Reachable(store')
      /\ \A d \in Ids : Entry(store', d, NoName) = Entry(s, d, NoName)
  BY <1>2, <1>4, CreatesInTree
<1>6. Abstract!Next
  <2>1. NodeAt(store, p) # [type |-> "absent"]
    BY <1>3
  <2>2. \A q \in Paths : NodeAt(store', q) =
          IF q = p THEN [type |-> "file", bytes |-> Empty]
          ELSE IF Under(p, q) THEN [type |-> "absent"] ELSE NodeAt(store, q)
    BY <1>3, <1>5
  <2> QED
    BY <1>2, <2>1, <2>2, WriteStep, ConstantsAssumption
<1>7. AllReachable'
  <2> SUFFICES ASSUME ~ clobbered, {i \in Ids : IsInode(store, i)} \subseteq Reachable(store)
               PROVE  {i \in Ids : IsInode(s, i)} \subseteq Reachable(s)
    BY <1>2, <1>5 DEF AllReachable
  <2>1. ~ IsInode(s, NoId)
    BY ConstantsAssumption DEF IsInode
  <2>2. \A q \in Paths : NodeId(store, q) # NodeId(store, p) => NodeId(s, q) = NodeId(store, q)
    BY <1>3
  <2> QED
    BY <1>3, <1>4, <2>1, <2>2, ReachableKept
<1> QED
  BY <1>3, <1>5, <1>6, <1>7 DEF TreeStep, NodesFromGuids, NoNamelessEntry

LEMMA SyncTreeStep ==
  ASSUME GuidsUnique, TreeInv, NEW p \in Paths, NEW c \in Contents, Sync(p, c)
  PROVE  TreeStep
<1> USE DEF TreeInv, Inv, TypeOK, StoreWellFormed
<1>1. /\ p \in Paths \ {<<>>} /\ CanSync(store, p) /\ store' = Synced(store, p, c)
      /\ clobbered' = (clobbered \/ (IsDir(store, NodeId(store, p)) /\ ~ IsEmptyDir(store, p)))
  BY DEF Sync
<1>2. /\ NodeAt(store, p) # [type |-> "absent"]
      /\ \A q \in Paths : NodeAt(store', q) =
           IF q = p THEN [type |-> "file", bytes |-> c]
           ELSE IF Under(p, q) THEN [type |-> "absent"] ELSE NodeAt(store, q)
      /\ (IsDir(store, NodeId(store, p)) => IsEmptyDir(store, p)) =>
           \A q \in Paths : NodeId(store', q) = NodeId(store, q)
      /\ \A i \in Ids : IsInode(store', i) <=> IsInode(store, i)
      /\ \A d \in Ids : Entry(store', d, NoName) \in {NoId, Entry(store, d, NoName)}
  BY <1>1, SyncedTree
<1>3. store' \in Stores /\ WellFormed(store')
  BY <1>1, SyncedSound
<1>4. Abstract!Next
  BY <1>1, <1>2, WriteStep
<1>5. AllReachable'
  <2> SUFFICES ASSUME ~ clobbered', {i \in Ids : IsInode(store, i)} \subseteq Reachable(store)
               PROVE  {i \in Ids : IsInode(store', i)} \subseteq Reachable(store')
    BY <1>1 DEF AllReachable
  <2>1. \A q \in Paths : NodeId(store', q) = NodeId(store, q)
    BY <1>1, <1>2
  <2>2. \A i \in Ids : IsInode(store', i) => IsInode(store, i) /\ i # NoId
    BY <1>2, ConstantsAssumption
  <2>3. ~ IsInode(store', NoId)
    BY ConstantsAssumption DEF IsInode
  <2> QED
    BY <1>3, <2>1, <2>2, <2>3, ReachableKept
<1> QED
  BY <1>2, <1>4, <1>5 DEF TreeStep, NodesFromGuids, NoNamelessEntry

LEMMA RenameTreeStep ==
  ASSUME GuidsUnique, DepthSuffices, TreeInv,
         NEW old \in Paths, NEW new \in Paths \ {<<>>}, Rename(old, new)
  PROVE  TreeStep
<1> USE DEF TreeInv, Inv, TypeOK, StoreWellFormed
<1>1. CanRename(store, old, new) /\ store' = Renamed(store, old, new) /\ UNCHANGED clobbered
  BY DEF Rename
<1>2. old # <<>>
  BY <1>1, LookupStep, ConstantsAssumption
  DEF NoNamelessEntry, CanRename, CanRenameIn, ParentId, Dirname, Basename
<1>3. AllHavePaths(store)
  BY FewNodesHavePaths DEF NodesFromGuids, DepthSuffices
<1>4. store' \in Stores /\ WellFormed(store')
  BY <1>1, RenamedSound
<1>5. CASE old = new
  <2>1. /\ \A q \in Paths : NodeId(store', q) = NodeId(store, q) /\ NodeAt(store', q) = NodeAt(store, q)
        /\ \A i \in Ids : IsInode(store', i) <=> IsInode(store, i)
        /\ \A d \in Ids, n \in FileNames : Entry(store', d, n) = Entry(store, d, n)
    BY <1>1, <1>2, <1>5, RenamedSame
  <2>2. TreeOf(store') = TreeOf(store)
    BY <2>1 DEF TreeOf
  <2>3. Reachable(store') = Reachable(store)
    BY <2>1 DEF Reachable
  <2> QED
    BY <1>1, <2>1, <2>2, <2>3 DEF TreeStep, NodesFromGuids, NoNamelessEntry, AllReachable, FileNames
<1>6. CASE old # new
  <2>1. /\ NodeAt(store, old) # [type |-> "absent"]
        /\ NodeAt(store, Front(new)) = [type |-> "dir"] /\ ~ IsPrefix(old, Front(new))
        /\ NodeAt(store, new) = [type |-> "absent"] \/ NodeAt(store, new).type = "file"
        /\ \A q \in Paths :
             NodeAt(store', q) = IF IsPrefix(new, q)
                                 THEN IF Moved(old, new, q) \in Paths
                                      THEN NodeAt(store, Moved(old, new, q)) ELSE [type |-> "absent"]
                                 ELSE IF IsPrefix(old, q) THEN [type |-> "absent"]
                                 ELSE NodeAt(store, q)
        /\ \A d \in Ids, n \in FileNames :
             Entry(store', d, n) = IF d = NodeId(store, Front(new)) /\ n = Last(new) THEN NodeId(store, old)
                                   ELSE IF d = NodeId(store, Front(old)) /\ n = Last(old) THEN NoId
                                   ELSE Entry(store, d, n)
        /\ \A i \in Ids : IsInode(store', i) <=> IsInode(store, i) /\ i # NodeId(store, new)
    BY <1>1, <1>2, <1>3, <1>6, RenamedTree
  <2>2. Abstract!Next
    BY <1>2, <1>6, <2>1, RenameStep
  <2>3. NodesFromGuids'
    BY <2>1 DEF NodesFromGuids
  <2>4. NoNamelessEntry'
    <3>1. Last(new) # NoName
      BY PathFacts, ConstantsAssumption
    <3> QED
      BY <2>1, <3>1 DEF NoNamelessEntry, FileNames
  <2>5. AllHavePaths(store')
    BY <1>4, <2>3, FewNodesHavePaths DEF NodesFromGuids, DepthSuffices
  <2>6. AllReachable'
    BY <1>1, <1>2, <1>3, <1>4, <1>6, <2>5, RenamedReachable DEF AllReachable
  <2> QED
    BY <2>2, <2>3, <2>4, <2>6 DEF TreeStep
<1> QED
  BY <1>5, <1>6

LEMMA TreeNext ==
  ASSUME GuidsUnique, <<>> \notin RenameTo, DepthSuffices, TreeInv, [Next]_vars
  PROVE  TreeInv' /\ TreeStep
<1>1. Inv'
  BY NextInv DEF TreeInv
<1> SUFFICES TreeStep
  BY <1>1 DEF TreeInv, TreeStep
<1>2. CASE Clear
  <2>1. PICK k \in DataGuids : store' = EmptyStore(k)
    BY <1>2 DEF Clear
  <2>2. TreeOf(store') = Abstract!EmptyTree
    BY <2>1, EmptyStoreTree
  <2>3. Abstract!Next
    BY <2>2 DEF Abstract!Next, Abstract!Clear, TreeOf
  <2>4. /\ store' \in Stores /\ WellFormed(store')
        /\ \A i \in Ids : IsInode(store', i) <=> i = Root
        /\ \A d \in Ids, n \in FileNames : Entry(store', d, n) = NoId
    BY <2>1, EmptyStoreSound, ClientAssumption
  <2> QED
    BY <2>3, <2>4, ReachableFacts
    DEF TreeStep, NodesFromGuids, NoNamelessEntry, AllReachable, FileNames
<1>3. ASSUME NEW p \in Paths, Mkdir(p) PROVE TreeStep
  BY <1>3, CreateTreeStep DEF Mkdir
<1>4. ASSUME NEW p \in Paths, OpenNew(p) PROVE TreeStep
  BY <1>4, CreateTreeStep DEF OpenNew
<1>5. ASSUME NEW p \in Paths, OpenTruncate(p) PROVE TreeStep
  BY <1>5, TruncateTreeStep
<1>6. ASSUME UNCHANGED <<store, clobbered>> PROVE TreeStep
  BY <1>6 DEF TreeStep, TreeInv, NodesFromGuids, NoNamelessEntry, AllReachable
<1>7. ASSUME NEW p \in Paths, OpenExisting(p) PROVE TreeStep
  BY <1>6, <1>7 DEF OpenExisting
<1>8. ASSUME NEW p \in Paths, NEW c \in Contents, Fsync(p, c) PROVE TreeStep
  BY <1>8, SyncTreeStep DEF Fsync
<1>9. ASSUME NEW p \in Paths, Close(p) PROVE TreeStep
  BY <1>6, <1>9, SyncTreeStep DEF Close
<1>10. ASSUME NEW p \in Paths, Unlink(p) PROVE TreeStep
  BY <1>10, RemoveTreeStep DEF Unlink
<1>11. ASSUME NEW p \in Paths, Rmdir(p) PROVE TreeStep
  BY <1>11, RemoveTreeStep DEF Rmdir
<1>12. ASSUME NEW p \in Paths, NEW new \in RenameTo, Rename(p, new) PROVE TreeStep
  BY <1>12, RenameTreeStep, ClientAssumption
<1>13. CASE UNCHANGED vars
  BY <1>6, <1>13 DEF vars
<1> QED
  BY <1>2, <1>3, <1>4, <1>5, <1>7, <1>8, <1>9, <1>10, <1>11, <1>12, <1>13 DEF Next

(* Every inode is under some path, unless a handle was synced over a        *)
(* directory with entries: rename never cuts a subtree off, for every       *)
(* number of names and nodes.                                               *)
THEOREM AllReachableAlways ==
  ASSUME GuidsUnique, <<>> \notin RenameTo, DepthSuffices
  PROVE  Spec => []AllReachable
<1>1. TreeInv => AllReachable
  BY DEF TreeInv
<1> QED
  BY <1>1, TreeInitInv, TreeNext, PTL DEF Spec

(* The keys implement the tree: the store starts as the empty tree, and     *)
(* every operation of the file system is one operation of FileTree on what  *)
(* its clients see, or nothing.                                             *)
THEOREM StoreImplementsTree ==
  ASSUME GuidsUnique, <<>> \notin RenameTo, DepthSuffices
  PROVE  Spec => ImplementsFileTree
<1>1. Init => Abstract!Init
  BY EmptyStoreTree DEF Init, Abstract!Init
<1>2. TreeInv /\ [Next]_vars => [Abstract!Next]_(TreeOf(store))
  BY TreeNext DEF TreeStep, TreeOf
<1> QED
  BY <1>1, <1>2, TreeInitInv, TreeNext, PTL DEF Spec, ImplementsFileTree, Abstract!Spec
=============================================================================
