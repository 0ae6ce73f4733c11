----------------------- MODULE AsyncKeyValueFS_proofs -----------------------
(***************************************************************************)
(* However calls overlap and whatever the cache says, the store of         *)
(* AsyncKeyValueFS is a file system, for all clients, names, keys and      *)
(* contents.                                                               *)
(***************************************************************************)
EXTENDS AsyncKeyValueHistory, LRUCache, KeyValueStore_proofs, FiniteSetTheorems

----------------------------------------------------------------------------
(* The inductive invariant.  A stale id does no harm of itself: every step *)
(* on the store checks what it finds there.  What a cache must never say   *)
(* is that a path below the root is the root, which a sync would turn into *)
(* a file.                                                                 *)
Blank == [k \in Ids |-> Undefined]
Sound(s) == s \in Stores /\ (WellFormed(s) \/ s = Blank)

Caches == {c \in [Paths -> Ids \union {NoId}] : \A q \in Paths \ {<<>>} : c[q] # Root}
Vias == {via \in [at : Paths, id : Ids] : via.at # <<>> => via.id # Root}

Kinds == {"lookup", "create", "remove", "isEmpty", "rename", "sync", "clear", "makeRoot"}
Ops == [kind : Kinds, p : Paths, new : Paths, type : {"dir", "file"}, bytes : Contents]
Txs == {tx \in [client : Clients, op : Ops, via : Vias, restores : BOOLEAN] :
          tx.op.kind = "sync" => tx.op.p # <<>>}

Inv ==
  /\ Sound(store)
  /\ cache \in Caches /\ caching \in BOOLEAN
  /\ txs \in Seq(Txs) /\ timeouts \in Seq(Txs)

----------------------------------------------------------------------------
(* Where a walk begins is a path with its id, or the root. *)
LEMMA ViaSound ==
  ASSUME NEW c \in Caches, NEW r \in Paths
  PROVE  /\ Via(c, r) \in Vias
         /\ IsPrefix(Via(c, r).at, r)
         /\ Via(c, r).at # <<>> => c[Via(c, r).at] = Via(c, r).id
         /\ Via(c, r).at = <<>> => Via(c, r).id = Root
<1> DEFINE hits == {q \in Paths \ {<<>>} : IsPrefix(q, r) /\ c[q] # NoId}
           Longest(q) == \A x \in hits : Len(x) <= Len(q)
<1>1. CASE hits = {}
  BY <1>1, PathFacts, PrefixOfFront, ConstantsAssumption DEF Via, Vias
<1>2. CASE hits # {}
  <2> DEFINE Short == {MaxDepth - Len(q) : q \in hits}
  <2>1. Short \subseteq Nat /\ Short # {}
    BY <1>2, PathFacts, ConstantsAssumption
  <2>2. PICK x \in Short : \A y \in Short : x <= y
    BY <2>1, LeastElement
  <2>3. PICK q \in hits : x = MaxDepth - Len(q)
    BY <2>2
  <2>4. Longest(q)
    <3> SUFFICES ASSUME NEW z \in hits PROVE Len(z) <= Len(q)
      OBVIOUS
    <3>1. x <= MaxDepth - Len(z)
      BY <2>2
    <3> QED
      BY <2>3, <3>1, PathFacts, ConstantsAssumption
  <2> DEFINE best == CHOOSE b \in hits : Longest(b)
  <2>5. best \in hits
    BY <2>3, <2>4
  <2>6. Via(c, r) = [at |-> best, id |-> c[best]]
    BY <1>2 DEF Via
  <2> HIDE DEF best
  <2>7. best \in Paths \ {<<>>} /\ IsPrefix(best, r) /\ c[best] \in Ids \ {Root}
    BY <2>5 DEF Caches
  <2> QED
    BY <2>6, <2>7 DEF Vias
<1> QED
  BY <1>1, <1>2

(* The walk down from there, in the store as it is now. *)
LEMMA IdsViaDef ==
  ASSUME NEW via \in Vias
  PROVE  \A p \in Paths :
           IdsVia(via)[p] = IF p = via.at THEN via.id
                            ELSE IF p = <<>> THEN NoId
                            ELSE Entry(store, IdsVia(via)[Front(p)], Last(p))
<1> DEFINE Step(g) == [p \in Paths |->
                        IF p = via.at THEN via.id
                        ELSE IF p = <<>> THEN NoId ELSE Entry(store, g[Front(p)], Last(p))]
           known == [p \in {via.at} |-> via.id]
<1>1. \A g : Step(g) = Walked(store, known, g)
  BY DEF Walked
<1>2. \E f : f = Step(f)
  <2>1. PICK f : f = Walked(store, known, f)
    BY WalkExists
  <2> HIDE DEF Step
  <2>2. f = Step(f)
    BY <1>1, <2>1
  <2> QED
    BY <2>2
<1>3. IdsVia(via) = CHOOSE f : f = Step(f)
  BY DEF IdsVia
<1>4. IdsVia(via) = Step(IdsVia(via))
  <2> HIDE DEF Step
  <2> QED
    BY <1>2, <1>3
<1> QED
  BY <1>4

(* What it finds below the root is not the root. *)
LEMMA WalkSound ==
  ASSUME Inv, NEW via \in Vias, NEW p \in Paths
  PROVE  /\ IdsVia(via)[p] \in Ids \union {NoId}
         /\ p # <<>> => IdsVia(via)[p] # Root
<1> DEFINE from == IdsVia(via)[Front(p)]
<1>1. CASE p = via.at
  BY <1>1, IdsViaDef DEF Vias
<1>2. CASE p # via.at /\ p = <<>>
  BY <1>2, IdsViaDef
<1>3. CASE p # via.at /\ p # <<>>
  <2>1. IdsVia(via)[p] = Entry(store, from, Last(p)) /\ Last(p) \in FileNames
    BY <1>3, IdsViaDef, PathFacts DEF FileNames
  <2>2. CASE Entry(store, from, Last(p)) = NoId
    BY <2>1, <2>2, ConstantsAssumption
  <2>3. CASE Entry(store, from, Last(p)) # NoId
    <3>1. from \in Ids /\ store[from] # Undefined
      BY <2>3 DEF Entry, HasListing, IsDir, IsInode, Undefined
    <3>2. store \in Stores /\ WellFormed(store)
      BY <3>1 DEF Inv, Sound, Blank
    <3> QED
      BY <2>1, <2>3, <3>1, <3>2, EntryFacts
  <2> QED
    BY <2>2, <2>3
<1> QED
  BY <1>1, <1>2, <1>3

LEMMA RememberedSound ==
  ASSUME Inv, NEW via \in Vias, NEW rs
  PROVE  Remembered(via, rs) \in Caches
<1>1. \A q \in Paths : /\ Remembered(via, rs)[q] \in {IdsVia(via)[q], cache[q]}
                       /\ cache[q] \in Ids \union {NoId}
                       /\ q # <<>> => cache[q] # Root
  BY DEF Remembered, Inv, Caches
<1>2. \A q \in Paths : /\ Remembered(via, rs)[q] \in Ids \union {NoId}
                       /\ q # <<>> => Remembered(via, rs)[q] # Root
  BY <1>1, WalkSound
<1>3. Remembered(via, rs) = [q \in Paths |-> Remembered(via, rs)[q]]
  BY DEF Remembered
<1> QED
  BY <1>2, <1>3 DEF Caches

LEMMA ForgetSound ==
  ASSUME NEW c \in Caches, NEW p \in Paths
  PROVE  [c EXCEPT ![p] = NoId] \in Caches /\ EmptyCache \in Caches
BY ConstantsAssumption DEF Caches, EmptyCache

----------------------------------------------------------------------------
(* What a call adds to the transactions, and what a step takes away. *)
LEMMA TransactionSound ==
  ASSUME NEW c \in Clients, NEW op \in Ops, op.kind = "sync" => op.p # <<>>, NEW via \in Vias
  PROVE  Transaction(c, op, via) \in Txs
BY DEF Transaction, Txs

LEMMA BeginSound ==
  ASSUME Inv, NEW c \in Clients, NEW op \in Ops, op.kind = "sync" => op.p # <<>>,
         NEW r \in Paths, Begin(c, op, r)
  PROVE  txs' \in Seq(Txs)
<1>1. Via(cache, r) \in Vias
  BY ViaSound DEF Inv
<1>2. Transaction(c, op, Via(cache, r)) \in Txs
  BY <1>1, TransactionSound
<1> QED
  BY <1>2, AppendProperties DEF Begin, Inv

LEMMA OpSound ==
  ASSUME NEW kind \in Kinds, NEW p \in Paths
  PROVE  Op(kind, p) \in Ops /\ Op(kind, p).kind = kind /\ Op(kind, p).p = p
BY PathFacts, ConstantsAssumption DEF Op, Ops

LEMMA RemovedAtSound ==
  ASSUME NEW T, NEW s \in Seq(T), NEW i \in DOMAIN s
  PROVE  RemoveAt(s, i) \in Seq(T) /\ s[i] \in T /\ Tail(s) \in Seq(T) /\ Head(s) \in T
<1>1. i \in 1 .. Len(s) /\ s # <<>>
  OBVIOUS
<1>2. SubSeq(s, 1, i - 1) \in Seq(T) /\ SubSeq(s, i + 1, Len(s)) \in Seq(T)
  BY <1>1, SubSeqProperties
<1> QED
  BY <1>1, <1>2, ConcatProperties DEF RemoveAt

(* A transaction that commits leaves what it made of the store. *)
LEMMA CommitsSound ==
  ASSUME Inv, txs # <<>>, NEW s, Sound(s), Commits(txs[1], s)
  PROVE  Inv'
<1>1. txs[1] \in Txs /\ Tail(txs) \in Seq(Txs)
  BY RemovedAtSound DEF Inv
<1>2. cache' \in Caches
  BY <1>1, RememberedSound DEF Commits, Txs
<1> QED
  BY <1>1, <1>2, AppendProperties DEF Commits, Inv

----------------------------------------------------------------------------
LEMMA InitInv == Init => Inv
BY EmptyStoreSound, ClientAssumption, ConstantsAssumption
DEF Init, Inv, Sound, Caches, EmptyCache

LEMMA CommitInv ==
  ASSUME Inv, Commit
  PROVE  Inv'
<1> DEFINE tx == txs[1]
           ids == IdsVia(tx.via)
           name == Basename(tx.op.p)
<1>1. txs # <<>> /\ tx \in Txs
  BY RemovedAtSound DEF Commit, Runnable, Inv
<1>2. /\ tx.op \in Ops /\ tx.op.p \in Paths /\ tx.op.new \in Paths /\ tx.via \in Vias
      /\ tx.op.type \in {"dir", "file"} /\ tx.op.bytes \in Contents
      /\ name \in FileNames
  BY <1>1, PathFacts DEF Txs, Ops
<1>3. store \in Stores /\ (WellFormed(store) \/ store = Blank)
  BY DEF Inv, Sound
<1>4. store = Blank => \A i : ~ IsInode(store, i) /\ ~ HasListing(store, i)
  BY DEF Blank, IsInode, HasListing, IsDir, Undefined
<1>5. CASE CommitCreate(tx)
  <2> DEFINE parent == ids[Dirname(tx.op.p)]
  <2>1. PICK d \in DataGuids, i \in NodeGuids :
          /\ Fresh(d) /\ Fresh(i)
          /\ Commits(tx, CreatedIn(store, parent, name, tx.op.type, d, i))
    BY <1>5 DEF CommitCreate
  <2>2. CanCreateIn(store, parent, name)
    BY <1>5 DEF CommitCreate
  <2>3. WellFormed(store)
    BY <2>2, <1>3, <1>4 DEF CanCreateIn
  <2>4. d \in Ids \ {Root} /\ i \in Ids \ {Root} /\ d # i
        /\ store[d] = Undefined /\ store[i] = Undefined
    BY <2>1, ClientAssumption DEF Fresh
  <2> HIDE DEF parent, name, tx
  <2>5. Sound(CreatedIn(store, parent, name, tx.op.type, d, i))
    BY <2>2, <2>3, <2>4, <1>2, <1>3, CreatedInSound DEF Sound
  <2> QED
    BY <2>1, <2>5, <1>1, CommitsSound DEF tx
<1>6. CASE CommitRemove(tx)
  <2> DEFINE parent == ids[Dirname(tx.op.p)]
  <2>1. /\ CanRemoveFrom(store, parent, name, tx.op.type)
        /\ Commits(tx, RemovedFrom(store, parent, name))
    BY <1>6 DEF CommitRemove
  <2>2. WellFormed(store)
    BY <2>1, <1>3, <1>4 DEF CanRemoveFrom
  <2> HIDE DEF parent, name, tx
  <2>3. Sound(RemovedFrom(store, parent, name))
    BY <2>1, <2>2, <1>2, <1>3, RemovedFromSound DEF Sound
  <2> QED
    BY <2>1, <2>3, <1>1, CommitsSound DEF tx
<1>7. CASE CommitRename(tx)
  <2>1. CanRename(store, tx.op.p, tx.op.new) /\ Commits(tx, Renamed(store, tx.op.p, tx.op.new))
    BY <1>7 DEF CommitRename
  <2>2. WellFormed(store)
    BY <2>1, <1>3, <1>4 DEF CanRename, CanRenameIn
  <2> HIDE DEF tx
  <2>3. Sound(Renamed(store, tx.op.p, tx.op.new))
    BY <2>1, <2>2, <1>2, <1>3, RenamedSound DEF Sound
  <2> QED
    BY <2>1, <2>3, <1>1, CommitsSound DEF tx
<1>8. CASE CommitSync(tx)
  <2> DEFINE node == ids[tx.op.p]
  <2>1. IsInode(store, node) /\ Commits(tx, SyncedAt(store, node, tx.op.bytes))
    BY <1>8 DEF CommitSync
  <2>2. tx.op.p # <<>>
    BY <1>1, <1>8 DEF CommitSync, Txs
  <2>3. node # Root
    BY <2>2, <1>2, WalkSound
  <2>4. WellFormed(store)
    BY <2>1, <1>3, <1>4
  <2> HIDE DEF node, tx
  <2>5. Sound(SyncedAt(store, node, tx.op.bytes))
    BY <2>1, <2>3, <2>4, <1>2, <1>3, SyncedAtSound DEF Sound
  <2> QED
    BY <2>1, <2>5, <1>1, CommitsSound DEF tx
<1>9. CASE CommitClear(tx)
  <2>1. Sound(Blank) /\ Commits(tx, Blank)
    BY <1>9 DEF CommitClear, Blank, Sound, Stores
  <2> QED
    BY <2>1, <1>1, CommitsSound
<1>10. CASE CommitRoot(tx)
  <2>1. PICK k \in DataGuids :
          Commits(tx, IF store[Root] = Undefined THEN RootMade(store, k) ELSE store)
    BY <1>10 DEF CommitRoot
  <2>2. CASE store[Root] = Undefined
    <3>1. store = Blank
      BY <2>2, <1>3 DEF WellFormed, RootIsDirectory, HasListing, IsDir, IsInode, Undefined
    <3>2. RootMade(store, k) = EmptyStore(k)
      BY <3>1 DEF Blank, EmptyStore
    <3>3. Sound(RootMade(store, k))
      BY <3>2, EmptyStoreSound, ClientAssumption DEF Sound
    <3> QED
      BY <2>1, <2>2, <3>3, <1>1, CommitsSound
  <2>3. CASE store[Root] # Undefined
    <3>1. Sound(store)
      BY DEF Inv
    <3> QED
      BY <2>1, <2>3, <3>1, <1>1, CommitsSound
  <2> QED
    BY <2>2, <2>3
<1> QED
  BY <1>5, <1>6, <1>7, <1>8, <1>9, <1>10 DEF Commit

(* Every call, every step of a transaction and every callback keeps it. *)
LEMMA NextInv ==
  ASSUME Inv, [Next]_vars
  PROVE  Inv'
<1> USE DEF Kinds
<1>1. ASSUME NEW c \in Clients, Clear(c) PROVE Inv'
  <2>1. txs' \in Seq(Txs)
    BY <1>1, OpSound, BeginSound, PathFacts DEF Clear
  <2> QED
    BY <1>1, <2>1, ForgetSound, PathFacts DEF Clear, Inv
<1>2. ASSUME NEW c \in Clients, NEW p \in Paths, Lookup(c, p) PROVE Inv'
  <2>1. txs' \in Seq(Txs)
    BY <1>2, OpSound, BeginSound DEF Lookup
  <2> QED
    BY <1>2, <2>1 DEF Lookup, Inv
<1>3. ASSUME NEW c \in Clients, NEW p \in Paths, NEW t \in {"dir", "file"}, Create(c, p, t)
      PROVE  Inv'
  <2> DEFINE op == [Op("create", p) EXCEPT !.type = t]
  <2>1. op \in Ops /\ op.kind = "create"
    BY OpSound DEF Ops
  <2>2. txs' \in Seq(Txs)
    BY <1>3, <2>1, BeginSound, PathFacts DEF Create
  <2> QED
    BY <1>3, <2>2 DEF Create, Inv
<1>4. ASSUME NEW c \in Clients, NEW p \in Paths, Unlink(c, p) PROVE Inv'
  <2>1. txs' \in Seq(Txs)
    BY <1>4, OpSound, BeginSound, PathFacts DEF Unlink
  <2> QED
    BY <1>4, <2>1, ForgetSound DEF Unlink, Forget, Inv
<1>5. ASSUME NEW c \in Clients, NEW p \in Paths, Rmdir(c, p) PROVE Inv'
  <2>1. txs' \in Seq(Txs)
    BY <1>5, OpSound, BeginSound DEF Rmdir
  <2> QED
    BY <1>5, <2>1 DEF Rmdir, Inv
<1>6. ASSUME NEW c \in Clients, NEW p \in Paths, NEW new \in Paths, Rename(c, p, new)
      PROVE  Inv'
  <2> DEFINE op == [Op("rename", p) EXCEPT !.new = new]
             via == Via(EmptyCache, p)
             tx == [client |-> c, op |-> op, via |-> via, restores |-> caching]
  <2>1. op \in Ops /\ op.kind = "rename"
    BY OpSound DEF Ops
  <2>2. EmptyCache \in Caches
    BY ForgetSound, PathFacts DEF Inv
  <2>3. via \in Vias
    BY <2>2, ViaSound
  <2> HIDE DEF op, via
  <2>4. tx \in Txs
    BY <2>1, <2>3 DEF Txs, Inv
  <2>5. /\ cache' = EmptyCache /\ UNCHANGED <<store, timeouts>>
        /\ \/ UNCHANGED <<txs, caching>>
           \/ caching' = FALSE /\ txs' = Append(txs, tx)
    BY <1>6 DEF Rename, op, via
  <2> QED
    BY <2>2, <2>4, <2>5, AppendProperties DEF Inv
<1>7. ASSUME NEW c \in Clients, NEW p \in Paths \ {<<>>}, NEW bytes \in Contents,
             Sync(c, p, bytes)
      PROVE  Inv'
  <2> DEFINE op == [Op("sync", p) EXCEPT !.bytes = bytes]
  <2>1. op \in Ops /\ op.p # <<>>
    BY OpSound DEF Ops
  <2>2. txs' \in Seq(Txs)
    BY <1>7, <2>1, BeginSound DEF Sync
  <2> QED
    BY <1>7, <2>2 DEF Sync, Inv
<1>8. ASSUME NEW i \in DOMAIN txs, Look(i) PROVE Inv'
  <2>1. txs[i] \in Txs /\ RemoveAt(txs, i) \in Seq(Txs)
    BY RemovedAtSound DEF Inv
  <2>2. cache' \in Caches
    BY <1>8, <2>1, RememberedSound DEF Look, Txs
  <2> QED
    BY <1>8, <2>1, <2>2 DEF Look, Inv
<1>9. ASSUME NEW i \in DOMAIN txs, CheckEmpty(i) PROVE Inv'
  <2> DEFINE p == txs[i].op.p
             seen == Remembered(txs[i].via, {p})
             forgotten == [seen EXCEPT ![p] = NoId]
             remove == [Op("remove", p) EXCEPT !.type = "dir"]
             next == Transaction(txs[i].client, remove, Via(forgotten, Dirname(p)))
  <2>1. txs[i] \in Txs /\ RemoveAt(txs, i) \in Seq(Txs)
    BY RemovedAtSound DEF Inv
  <2>2. p \in Paths /\ txs[i].via \in Vias /\ txs[i].client \in Clients
    BY <2>1 DEF Txs, Ops
  <2>3. seen \in Caches /\ forgotten \in Caches
    BY <2>2, RememberedSound, ForgetSound
  <2>4. remove \in Ops /\ remove.kind = "remove"
    BY <2>2, OpSound DEF Ops
  <2>5. /\ UNCHANGED <<store, caching, timeouts>>
        /\ \/ cache' = forgotten /\ txs' = Append(RemoveAt(txs, i), next)
           \/ cache' = seen /\ txs' = RemoveAt(txs, i)
    BY <1>9 DEF CheckEmpty
  <2> HIDE DEF seen, forgotten, remove
  <2>6. Via(forgotten, Dirname(p)) \in Vias
    BY <2>2, <2>3, ViaSound, PathFacts
  <2>7. next \in Txs
    BY <2>2, <2>4, <2>6, TransactionSound
  <2> HIDE DEF next
  <2>8. Append(RemoveAt(txs, i), next) \in Seq(Txs)
    BY <2>1, <2>7, AppendProperties
  <2>9. cache' \in Caches /\ txs' \in Seq(Txs)
    BY <2>1, <2>3, <2>5, <2>8
  <2> QED
    BY <2>5, <2>9 DEF Inv
<1>10. CASE Commit
  BY <1>10, CommitInv
<1>11. CASE Fail
  <2>1. txs[1] \in Txs /\ Tail(txs) \in Seq(Txs)
    BY <1>11, RemovedAtSound DEF Fail, Runnable, Inv
  <2>2. cache' \in Caches
    BY <1>11, <2>1, RememberedSound DEF Fail, Txs, Inv
  <2>3. caching' \in BOOLEAN
    BY <1>11, <2>1 DEF Fail, Txs, Inv
  <2> QED
    BY <1>11, <2>1, <2>2, <2>3 DEF Fail, Inv
<1>12. CASE Return
  <2> DEFINE tx == Head(timeouts)
             root == Transaction(tx.client, Op("makeRoot", <<>>), tx.via)
  <2>1. tx \in Txs /\ Tail(timeouts) \in Seq(Txs)
    BY <1>12 DEF Return, Inv
  <2>2. tx.client \in Clients /\ tx.via \in Vias /\ tx.restores \in BOOLEAN
    BY <2>1 DEF Txs
  <2>3. root \in Txs
    BY <2>2, TransactionSound, OpSound, PathFacts
  <2>4. /\ timeouts' = Tail(timeouts) /\ UNCHANGED <<store, cache>>
        /\ caching' = (caching \/ tx.restores)
        /\ txs' = txs \/ txs' = Append(txs, root)
    BY <1>12 DEF Return
  <2> HIDE DEF tx, root
  <2>5. caching' \in BOOLEAN
    BY <2>2, <2>4 DEF Inv
  <2> QED
    BY <2>1, <2>3, <2>4, <2>5, AppendProperties DEF Inv
<1>13. CASE UNCHANGED vars
  BY <1>13 DEF vars, Inv
<1> QED
  BY <1>1, <1>2, <1>3, <1>4, <1>5, <1>6, <1>7, <1>8, <1>9, <1>10, <1>11, <1>12, <1>13 DEF Next

(* Whatever overlaps, fails and is stale, and whenever the root is there,  *)
(* no entry of the store dangles, no two names share an inode and no two   *)
(* inodes their data.                                                      *)
THEOREM StoreWellFormedAlways == Spec => []StoreWellFormed
<1>1. Inv => StoreWellFormed
  BY ConstantsAssumption DEF Inv, Sound, Blank, StoreWellFormed
<1> QED
  BY <1>1, InitInv, NextInv, PTL DEF Spec

----------------------------------------------------------------------------
(* Clients that wait for one another: one transaction or one callback is   *)
(* under way, what it began with is right still, and so is the cache.      *)
RightVia(tx, r) == IsPrefix(tx.via.at, r) /\ NodeId(store, tx.via.at) = tx.via.id
RightTx(tx) ==
  /\ tx.op.kind \in {"lookup", "isEmpty", "sync"} => RightVia(tx, tx.op.p)
  /\ tx.op.kind \in {"create", "remove"} => RightVia(tx, Dirname(tx.op.p))
  /\ tx.op.kind = "isEmpty" => tx.op.p # <<>>
  /\ tx.op.kind = "remove" =>
       /\ tx.op.p # <<>> /\ cache[tx.op.p] = NoId
       /\ tx.op.type = "dir" => IsEmptyDir(store, tx.op.p)
  /\ tx.op.kind = "rename" => ~ caching
  /\ tx.op.kind \in {"rename", "clear", "makeRoot"} => cache = EmptyCache
InTurn ==
  /\ CacheCoherent /\ NoOrphans
  /\ Len(txs) + Len(timeouts) <= 1
  /\ txs # <<>> => RightTx(txs[1])
  /\ timeouts # <<>> => (timeouts[1].op.kind = "clear" => cache = EmptyCache)

Coherent(c, s) == \A p \in Paths : c[p] \in {NoId, NodeId(s, p)}

LEMMA EmptyCoherent == \A s : Coherent(EmptyCache, s)
BY DEF Coherent, EmptyCache

(* A walk from the right place finds what a walk from the root finds. *)
LEMMA WalkRight ==
  ASSUME NEW via \in Vias, NodeId(store, via.at) = via.id
  PROVE  \A q \in Paths : IsPrefix(via.at, q) => IdsVia(via)[q] = NodeId(store, q)
<1> DEFINE Good == {n \in Nat : \A q \in Paths :
                      Len(q) = n /\ IsPrefix(via.at, q) => IdsVia(via)[q] = NodeId(store, q)}
<1>1. \A q \in Paths : q = via.at => IdsVia(via)[q] = NodeId(store, q)
  BY IdsViaDef
<1>2. via.at \in Paths
  BY DEF Vias
<1>3. ASSUME NEW q \in Paths, IsPrefix(via.at, q), q = <<>>
      PROVE  q = via.at
  BY <1>2, <1>3, PathFacts DEF IsPrefix
<1>4. 0 \in Good
  BY <1>1, <1>3, PathFacts
<1>5. ASSUME NEW n \in Good
      PROVE  n + 1 \in Good
  <2> SUFFICES ASSUME NEW q \in Paths, Len(q) = n + 1, IsPrefix(via.at, q)
               PROVE  IdsVia(via)[q] = NodeId(store, q)
    OBVIOUS
  <2>1. CASE q = via.at
    BY <1>1, <2>1
  <2>2. CASE q # via.at
    <3>1. q # <<>> /\ Front(q) \in Paths /\ Len(Front(q)) = n
      BY <1>5, PathFacts
    <3>2. IsPrefix(via.at, Front(q))
      BY <1>2, <2>2, <3>1, PrefixOfFront
    <3>3. IdsVia(via)[Front(q)] = NodeId(store, Front(q))
      BY <3>1, <3>2
    <3> QED
      BY <2>2, <3>1, <3>3, IdsViaDef, NodeIdDef
  <2> QED
    BY <2>1, <2>2
<1>6. Good = Nat
  <2>1. Good \subseteq Nat
    OBVIOUS
  <2> HIDE DEF Good
  <2> QED
    BY <1>4, <1>5, <2>1, SetInduction
<1>7. \A q \in Paths : Len(q) \in Good
  BY <1>6, PathFacts, ConstantsAssumption
<1> QED
  BY <1>7

(* ... and the cache remembers only what is so. *)
LEMMA RememberedRight ==
  ASSUME NEW via \in Vias, NodeId(store, via.at) = via.id, CacheCoherent, NEW rs
  PROVE  Coherent(Remembered(via, rs), store)
<1> SUFFICES ASSUME NEW q \in Paths
             PROVE  Remembered(via, rs)[q] \in {NoId, NodeId(store, q)}
  BY DEF Coherent
<1>1. \/ Remembered(via, rs)[q] = cache[q]
      \/ IsStrictPrefix(via.at, q) /\ Remembered(via, rs)[q] = IdsVia(via)[q]
  BY DEF Remembered
<1>2. IsStrictPrefix(via.at, q) => IdsVia(via)[q] = NodeId(store, q)
  BY WalkRight DEF IsStrictPrefix
<1> QED
  BY <1>1, <1>2 DEF CacheCoherent

LEMMA ViaRight ==
  ASSUME NEW c \in Caches, Coherent(c, store), NEW r \in Paths
  PROVE  /\ IsPrefix(Via(c, r).at, r)
         /\ NodeId(store, Via(c, r).at) = Via(c, r).id
<1>1. Via(c, r) \in Vias /\ IsPrefix(Via(c, r).at, r)
  BY ViaSound
<1>2. CASE Via(c, r).at = <<>>
  BY <1>1, <1>2, ViaSound, NodeIdDef, PathFacts
<1>3. CASE Via(c, r).at # <<>>
  BY <1>1, <1>3, ViaSound, ConstantsAssumption DEF Vias, Coherent
<1> QED
  BY <1>1, <1>2, <1>3

(* A client that calls while another's call is under way is seen to. *)
LEMMA OneCaller ==
  ASSUME Inv, Len(txs) + Len(timeouts) <= 1,
         NEW tx \in Txs, ~ Busy(tx.client),
         txs' = Append(txs, tx), timeouts' = timeouts, Cardinality(AtWork') <= 1
  PROVE  txs = <<>> /\ timeouts = <<>>
<1> SUFFICES ASSUME ~ (txs = <<>> /\ timeouts = <<>>) PROVE FALSE
  OBVIOUS
<1>1. /\ txs \in Seq(Txs) /\ timeouts \in Seq(Txs)
      /\ Len(txs) \in Nat /\ Len(timeouts) \in Nat
      /\ DOMAIN txs = 1 .. Len(txs) /\ DOMAIN timeouts = 1 .. Len(timeouts)
  BY DEF Inv
<1>2. PICK t \in Txs : InFlight = {t}
  <2>1. CASE txs # <<>>
    <3>1. Len(txs) = 1 /\ Len(timeouts) = 0
      BY <1>1, <2>1
    <3>2. InFlight = {txs[1]} /\ txs[1] \in Txs
      BY <1>1, <3>1 DEF InFlight, ToSet
    <3> QED
      BY <3>2
  <2>2. CASE timeouts # <<>>
    <3>1. Len(txs) = 0 /\ Len(timeouts) = 1
      BY <1>1, <2>2
    <3>2. InFlight = {timeouts[1]} /\ timeouts[1] \in Txs
      BY <1>1, <3>1 DEF InFlight, ToSet
    <3> QED
      BY <3>2
  <2> QED
    BY <2>1, <2>2
<1>3. InFlight' = {t, tx}
  <2>1. ToSet(Append(txs, tx)) = ToSet(txs) \union {tx}
    <3>1. /\ DOMAIN Append(txs, tx) = 1 .. Len(txs) + 1
          /\ \A i \in 1 .. Len(txs) : Append(txs, tx)[i] = txs[i]
          /\ Append(txs, tx)[Len(txs) + 1] = tx
      BY <1>1, AppendProperties
    <3> QED
      BY <1>1, <3>1 DEF ToSet
  <2>2. InFlight' = InFlight \union {tx}
    BY <2>1 DEF InFlight
  <2> QED
    BY <1>2, <2>2
<1>4. t.client \in Clients /\ tx.client \in Clients /\ t.client # tx.client
  BY <1>2 DEF Busy, Txs
<1>5. AtWork' = {t.client, tx.client}
  BY <1>3, <1>4 DEF AtWork, Busy
<1>6. Cardinality({t.client, tx.client}) = 2
  <2>1. IsFiniteSet({t.client}) /\ Cardinality({t.client}) = 1
    BY FS_Singleton
  <2>2. Cardinality({t.client} \union {tx.client}) = Cardinality({t.client}) + 1
    <3>1. tx.client \notin {t.client}
      BY <1>4
    <3> QED
      BY <2>1, <3>1, FS_AddElement
  <2>3. {t.client, tx.client} = {t.client} \union {tx.client}
    OBVIOUS
  <2> QED
    BY <2>1, <2>2, <2>3
<1> QED
  BY <1>5, <1>6

LEMMA KeptCoherent ==
  ASSUME NEW s, NEW u, NEW X, NEW c, Coherent(c, s), \A p \in Paths : p \in X => c[p] = NoId,
         \A q \in Paths \ {<<>>} :
           q \notin X /\ NodeId(s, q) # NoId /\ NodeId(s, Front(q)) \in Ids =>
             /\ Front(q) \notin X
             /\ Entry(u, NodeId(s, Front(q)), Last(q)) = Entry(s, NodeId(s, Front(q)), Last(q))
  PROVE  Coherent(c, u)
<1>1. \A q \in Paths : q \notin X /\ NodeId(s, q) # NoId => NodeId(u, q) = NodeId(s, q)
  BY LookupsKept
<1> QED
  BY <1>1 DEF Coherent

(* Nothing is remembered while the cache is off, or of no path. *)
LEMMA NothingRemembered ==
  ASSUME Inv, NEW via, NEW rs, ~ caching \/ rs = {}
  PROVE  Remembered(via, rs) = cache
<1>1. Remembered(via, rs) = [q \in Paths |-> cache[q]]
  BY DEF Remembered
<1> QED
  BY <1>1 DEF Inv, Caches

LEMMA CallInTurn ==
  ASSUME Inv, InTurn, NEW tx \in Txs, ~ Busy(tx.client),
         txs' = Append(txs, tx), UNCHANGED <<store, timeouts>>, Cardinality(AtWork') <= 1,
         Coherent(cache', store), RightTx(tx)'
  PROVE  InTurn'
<1>1. txs = <<>> /\ timeouts = <<>>
  BY OneCaller DEF InTurn
<1>2. txs' = <<tx>> /\ timeouts' = <<>>
  BY <1>1
<1> QED
  BY <1>2 DEF InTurn, Coherent, CacheCoherent, NoOrphans

LEMMA TheOne ==
  ASSUME Inv, InTurn, NEW i \in DOMAIN txs
  PROVE  /\ i = 1 /\ txs # <<>> /\ timeouts = <<>> /\ RightTx(txs[i])
         /\ RemoveAt(txs, i) = <<>> /\ Tail(txs) = <<>>
<1>1. txs \in Seq(Txs) /\ timeouts \in Seq(Txs)
  BY DEF Inv
<1>2. i = 1 /\ Len(txs) = 1 /\ Len(timeouts) = 0
  <2>1. Len(txs) \in Nat /\ Len(timeouts) \in Nat /\ i \in 1 .. Len(txs)
    BY <1>1
  <2>2. Len(txs) + Len(timeouts) <= 1
    BY DEF InTurn
  <2> QED
    BY <2>1, <2>2
<1>3. SubSeq(txs, 1, 0) = <<>> /\ SubSeq(txs, 2, 1) = <<>>
  BY <1>1, SubSeqEmpty
<1>4. RemoveAt(txs, i) = <<>>
  BY <1>2, <1>3 DEF RemoveAt
<1>5. txs # <<>> /\ timeouts = <<>> /\ Tail(txs) = <<>>
  <2>1. txs # <<>> /\ timeouts = <<>>
    <3>1. \A s \in Seq(Txs) : s = <<>> <=> Len(s) = 0
      BY EmptySeq
    <3> QED
      BY <1>1, <1>2, <3>1
  <2>2. Tail(txs) \in Seq(Txs) /\ Len(Tail(txs)) = 0
    BY <1>1, <1>2, <2>1
  <2> QED
    BY <2>1, <2>2, EmptySeq
<1> QED
  BY <1>2, <1>4, <1>5 DEF InTurn

LEMMA CommitsInTurn ==
  ASSUME Inv, InTurn, txs # <<>>, NEW s, Commits(txs[1], s),
         Coherent(cache', s), s[Root] # Undefined => OrphanFree(s),
         txs[1].op.kind = "clear" => cache' = EmptyCache
  PROVE  InTurn'
<1>1. 1 \in DOMAIN txs
  BY DEF Inv
<1>2. timeouts = <<>> /\ Tail(txs) = <<>>
  BY <1>1, TheOne
<1>3. txs' = <<>> /\ timeouts' = <<txs[1]>> /\ store' = s
  BY <1>2 DEF Commits
<1> QED
  BY <1>3 DEF InTurn, Coherent, CacheCoherent, NoOrphans

LEMMA CommitInTurn ==
  ASSUME Inv, InTurn, Commit, ~ Overwritten
  PROVE  InTurn'
<1> DEFINE tx == txs[1]
           ids == IdsVia(tx.via)
           name == Basename(tx.op.p)
<1>1. txs # <<>> /\ tx \in Txs /\ 1 \in DOMAIN txs
  BY RemovedAtSound DEF Commit, Runnable, Inv
<1>2. /\ tx.op.p \in Paths /\ tx.op.new \in Paths /\ tx.via \in Vias
      /\ tx.op.type \in {"dir", "file"} /\ tx.op.bytes \in Contents
      /\ name \in FileNames
  BY <1>1, PathFacts DEF Txs, Ops
<1>3. RightTx(tx)
  BY <1>1, TheOne
<1>4. /\ store \in Stores
      /\ \A i : IsInode(store, i) \/ HasListing(store, i) => WellFormed(store) /\ OrphanFree(store)
  <2>1. store \in Stores /\ (WellFormed(store) \/ store = Blank)
    BY DEF Inv, Sound
  <2>2. store = Blank => \A i : ~ IsInode(store, i) /\ ~ HasListing(store, i)
    BY DEF Blank, IsInode, HasListing, IsDir, Undefined
  <2>3. WellFormed(store) => OrphanFree(store)
    BY DEF WellFormed, RootIsDirectory, HasListing, IsDir, IsInode, Undefined, InTurn, NoOrphans
  <2> QED
    BY <2>1, <2>2, <2>3
<1>5. \A rs : NodeId(store, tx.via.at) = tx.via.id => Coherent(Remembered(tx.via, rs), store)
  BY <1>2, RememberedRight DEF InTurn
<1>6. ASSUME NEW rs, NEW s, ~ caching \/ rs = {}, cache = EmptyCache
      PROVE  /\ Remembered(tx.via, rs) = EmptyCache
             /\ Coherent(Remembered(tx.via, rs), s)
  BY <1>6, NothingRemembered, EmptyCoherent
<1>7. CASE CommitCreate(tx)
  <2> DEFINE parent == ids[Dirname(tx.op.p)]
  <2>1. PICK d \in DataGuids, i \in NodeGuids :
          /\ Fresh(d) /\ Fresh(i)
          /\ Commits(tx, CreatedIn(store, parent, name, tx.op.type, d, i))
    BY <1>7 DEF CommitCreate
  <2> DEFINE u == CreatedIn(store, parent, name, tx.op.type, d, i)
  <2>2. CanCreateIn(store, parent, name) /\ tx.op.kind = "create"
    BY <1>7 DEF CommitCreate
  <2>3. WellFormed(store) /\ OrphanFree(store)
    BY <2>2, <1>4 DEF CanCreateIn
  <2>4. d \in Ids \ {Root} /\ i \in Ids \ {Root} /\ d # i
        /\ store[d] = Undefined /\ store[i] = Undefined
    BY <2>1, ClientAssumption DEF Fresh
  <2> HIDE DEF parent, name
  <2>5. /\ OrphanFree(u)
        /\ \A e \in Ids, n \in FileNames :
             Entry(store, e, n) # NoId => Entry(u, e, n) = Entry(store, e, n)
    BY <2>2, <2>3, <2>4, <1>2, <1>4, CreatedInSound
  <2>6. Commits(tx, u)
    BY <2>1
  <2> HIDE DEF u
  <2>7. Coherent(cache', store)
    BY <2>2, <2>6, <1>3, <1>5 DEF RightTx, RightVia, Commits
  <2>8. \A q \in Paths \ {<<>>} : NodeId(store, q) # NoId /\ NodeId(store, Front(q)) \in Ids =>
          Entry(u, NodeId(store, Front(q)), Last(q)) = Entry(store, NodeId(store, Front(q)), Last(q))
    BY <2>5, NodeIdDef, PathFacts DEF FileNames
  <2>9. Coherent(cache', u)
    BY <2>7, <2>8, KeptCoherent
  <2> HIDE DEF tx
  <2> QED
    BY <2>2, <2>5, <2>6, <2>9, <1>1, CommitsInTurn DEF tx
<1>8. CASE CommitRemove(tx)
  <2> DEFINE parent == ids[Dirname(tx.op.p)]
             node == Entry(store, parent, name)
             u == RemovedFrom(store, parent, name)
  <2>1. /\ CanRemoveFrom(store, parent, name, tx.op.type) /\ tx.op.kind = "remove"
        /\ Commits(tx, u)
    BY <1>8 DEF CommitRemove
  <2>2. WellFormed(store) /\ OrphanFree(store)
    BY <2>1, <1>4 DEF CanRemoveFrom
  <2>3. /\ RightVia(tx, Dirname(tx.op.p)) /\ tx.op.p # <<>> /\ cache[tx.op.p] = NoId
        /\ tx.op.type = "dir" => IsEmptyDir(store, tx.op.p)
    BY <2>1, <1>3 DEF RightTx
  <2>4. /\ Dirname(tx.op.p) = Front(tx.op.p) /\ name = Last(tx.op.p)
        /\ Front(tx.op.p) \in Paths
    BY <2>3, <1>2, PathFacts
  <2>5. parent = NodeId(store, Front(tx.op.p))
    BY <2>3, <2>4, <1>2, WalkRight DEF RightVia
  <2>6. node = NodeId(store, tx.op.p) /\ node # NoId
    BY <2>1, <2>3, <2>4, <2>5, <1>2, NodeIdDef DEF CanRemoveFrom
  <2>7. \A n \in FileNames : Entry(store, node, n) = NoId
    <3>1. CASE tx.op.type = "dir"
      BY <3>1, <2>3, <2>6 DEF IsEmptyDir, IsEmptyDirAt, Entry
    <3>2. CASE tx.op.type = "file"
      BY <3>2, <2>1 DEF CanRemoveFrom, Entry, HasListing, IsDir
    <3> QED
      BY <3>1, <3>2, <1>2
  <2>8. tx.op.type = "dir" => IsEmptyDirAt(store, node)
    BY <2>3, <2>6 DEF IsEmptyDir
  <2> HIDE DEF parent, name
  <2>9. /\ OrphanFree(u)
        /\ \A d \in Ids, n \in FileNames :
             Entry(u, d, n) = IF d = node \/ (d = parent /\ n = name) THEN NoId
                              ELSE Entry(store, d, n)
    BY <2>1, <2>2, <2>8, <1>2, <1>4, RemovedFromSound
  <2> HIDE DEF u, node
  <2>10. Coherent(cache', store)
    BY <2>1, <2>3, <1>5 DEF RightVia, Commits
  <2>11. cache'[tx.op.p] = NoId
    <3>1. ~ IsPrefix(tx.op.p, Dirname(tx.op.p))
      <4>1. Len(Front(tx.op.p)) = Len(tx.op.p) - 1 /\ Len(tx.op.p) \in Nat
        BY <2>3, <1>2, PathFacts, ConstantsAssumption
      <4> QED
        BY <4>1, <2>4 DEF IsPrefix
    <3>2. cache' = Remembered(tx.via, {Dirname(tx.op.p)})
      BY <2>1 DEF Commits, Sought
    <3> QED
      BY <3>1, <3>2, <2>3, <1>2 DEF Remembered
  <2>12. ASSUME NEW q \in Paths \ {<<>>}, q # tx.op.p,
                NodeId(store, q) # NoId, NodeId(store, Front(q)) \in Ids
         PROVE  /\ Front(q) # tx.op.p
                /\ Entry(u, NodeId(store, Front(q)), Last(q))
                     = Entry(store, NodeId(store, Front(q)), Last(q))
    <3>1. /\ NodeId(store, q) = Entry(store, NodeId(store, Front(q)), Last(q))
          /\ Last(q) \in FileNames /\ Front(q) \in Paths
      BY NodeIdDef, PathFacts DEF FileNames
    <3>2. Front(q) # tx.op.p
      BY <3>1, <2>6, <2>7, <2>12
    <3>3. NodeId(store, Front(q)) # node
      BY <3>1, <3>2, <2>2, <2>6, <1>2, LookupInjective
    <3>4. ~ (NodeId(store, Front(q)) = parent /\ Last(q) = name)
      <4>1. CASE NodeId(store, Front(q)) = parent
        <5>1. Front(q) = Front(tx.op.p)
          BY <4>1, <3>1, <2>2, <2>4, <2>5, <2>12, LookupInjective, ConstantsAssumption
        <5> QED
          BY <5>1, <2>3, <2>4, <2>12, <1>2, PathFacts
      <4> QED
        BY <4>1
    <3> QED
      BY <3>1, <3>2, <3>3, <3>4, <2>9, <2>12
  <2>13. Coherent(cache', u)
    <3> DEFINE X == {tx.op.p}
    <3>1. \A p \in Paths : p \in X => cache'[p] = NoId
      BY <2>11
    <3>2. \A q \in Paths \ {<<>>} :
            q \notin X /\ NodeId(store, q) # NoId /\ NodeId(store, Front(q)) \in Ids =>
              /\ Front(q) \notin X
              /\ Entry(u, NodeId(store, Front(q)), Last(q))
                   = Entry(store, NodeId(store, Front(q)), Last(q))
      BY <2>12
    <3> HIDE DEF X
    <3> QED
      BY <3>1, <3>2, <2>10, KeptCoherent
  <2> HIDE DEF tx
  <2> QED
    BY <2>1, <2>9, <2>13, <1>1, CommitsInTurn DEF tx
<1>9. CASE CommitRename(tx)
  <2> DEFINE u == Renamed(store, tx.op.p, tx.op.new)
  <2>1. CanRename(store, tx.op.p, tx.op.new) /\ tx.op.kind = "rename" /\ Commits(tx, u)
    BY <1>9 DEF CommitRename
  <2>2. WellFormed(store) /\ OrphanFree(store)
    BY <2>1, <1>4 DEF CanRename, CanRenameIn
  <2>3. OrphanFree(u)
    BY <2>1, <2>2, <1>2, <1>4, RenamedSound
  <2> HIDE DEF u
  <2>4. Coherent(cache', u)
    BY <2>1, <1>3, <1>6 DEF RightTx, Commits
  <2> HIDE DEF tx
  <2> QED
    BY <2>1, <2>3, <2>4, <1>1, CommitsInTurn DEF tx
<1>10. CASE CommitSync(tx)
  <2> DEFINE node == ids[tx.op.p]
             u == SyncedAt(store, node, tx.op.bytes)
  <2>1. IsInode(store, node) /\ tx.op.kind = "sync" /\ Commits(tx, u)
    BY <1>10 DEF CommitSync
  <2>2. tx.op.p # <<>> /\ RightVia(tx, tx.op.p)
    BY <2>1, <1>1, <1>3 DEF RightTx, Txs
  <2>3. node \in Ids /\ node # Root
    BY <2>1, <2>2, <1>2, WalkSound DEF IsInode
  <2>4. WellFormed(store) /\ OrphanFree(store)
    BY <2>1, <1>4
  <2>5. store' = u
    BY <2>1 DEF Commits
  <2> HIDE DEF node
  <2>6. /\ (IsDir(store, node) => IsEmptyDirAt(store, node)) => OrphanFree(u)
        /\ \A d \in Ids, n \in FileNames :
             Entry(u, d, n) = IF d = node THEN NoId ELSE Entry(store, d, n)
        /\ NodeOf(u, node) = [type |-> "file", bytes |-> tx.op.bytes]
    BY <2>1, <2>3, <2>4, <1>2, <1>4, SyncedAtSound
  <2> HIDE DEF u
  <2>7. IsFile(u, node)
    BY <2>6 DEF NodeOf
  <2>8. IsDir(store, node) => IsEmptyDirAt(store, node)
    BY <2>3, <2>5, <2>7 DEF Overwritten
  <2>9. \A d \in Ids, n \in FileNames : Entry(u, d, n) = Entry(store, d, n)
    BY <2>6, <2>8 DEF Entry, HasListing, IsEmptyDirAt
  <2>10. Coherent(cache', store)
    BY <2>1, <2>2, <1>5 DEF RightVia, Commits
  <2>11. \A q \in Paths \ {<<>>} : NodeId(store, q) # NoId /\ NodeId(store, Front(q)) \in Ids =>
          Entry(u, NodeId(store, Front(q)), Last(q)) = Entry(store, NodeId(store, Front(q)), Last(q))
    BY <2>9, PathFacts DEF FileNames
  <2>12. Coherent(cache', u)
    BY <2>10, <2>11, KeptCoherent, SMTT(30), ZenonT(30)
  <2> HIDE DEF tx
  <2> QED
    BY <2>1, <2>6, <2>8, <2>12, <1>1, CommitsInTurn DEF tx
<1>11. CASE CommitClear(tx)
  <2>1. Commits(tx, Blank) /\ tx.op.kind = "clear" /\ Blank[Root] = Undefined
    BY <1>11, ConstantsAssumption DEF CommitClear, Blank
  <2>2. cache' = EmptyCache /\ Coherent(cache', Blank)
    BY <2>1, <1>3, <1>6 DEF RightTx, Commits, Sought
  <2> HIDE DEF tx
  <2> QED
    BY <2>1, <2>2, <1>1, CommitsInTurn DEF tx
<1>12. CASE CommitRoot(tx)
  <2>1. PICK k \in DataGuids :
          Commits(tx, IF store[Root] = Undefined THEN RootMade(store, k) ELSE store)
    BY <1>12 DEF CommitRoot
  <2> DEFINE u == IF store[Root] = Undefined THEN RootMade(store, k) ELSE store
  <2>2. u[Root] # Undefined => OrphanFree(u)
    <3>1. CASE store[Root] = Undefined
      <4>1. store = Blank
        BY <3>1 DEF Inv, Sound, WellFormed, RootIsDirectory, HasListing, IsDir, IsInode, Undefined
      <4>2. RootMade(store, k) = EmptyStore(k)
        BY <4>1 DEF Blank, EmptyStore
      <4> QED
        BY <3>1, <4>2, EmptyStoreSound, ClientAssumption
    <3>2. CASE store[Root] # Undefined
      BY <3>2 DEF InTurn, NoOrphans
    <3> QED
      BY <3>1, <3>2
  <2> HIDE DEF u
  <2>3. Commits(tx, u) /\ tx.op.kind = "makeRoot"
    BY <2>1, <1>12 DEF u, CommitRoot
  <2>4. Coherent(cache', u)
    BY <2>3, <1>3, <1>6 DEF RightTx, Commits, Sought
  <2> HIDE DEF tx
  <2> QED
    BY <2>2, <2>3, <2>4, <1>1, CommitsInTurn DEF tx
<1> QED
  BY <1>7, <1>8, <1>9, <1>10, <1>11, <1>12 DEF Commit

(* A call that begins with the cache as it is, or with one entry less. *)
LEMMA BeginInTurn ==
  ASSUME Inv, InTurn, NEW c \in Clients, NEW op \in Ops, op.kind = "sync" => op.p # <<>>,
         NEW r \in Paths, Begin(c, op, r), UNCHANGED <<store, timeouts>>,
         cache' \in Caches, Coherent(cache', store), Cardinality(AtWork') <= 1,
         op.kind \in {"lookup", "isEmpty", "sync"} => r = op.p,
         op.kind \in {"create", "remove"} => r = Dirname(op.p),
         op.kind = "isEmpty" => op.p # <<>>,
         op.kind = "remove" => op.p # <<>> /\ op.type = "file" /\ cache'[op.p] = NoId,
         op.kind # "rename", op.kind \in {"clear", "makeRoot"} => cache' = EmptyCache
  PROVE  InTurn'
<1> DEFINE via == Via(cache, r)
           tx == Transaction(c, op, via)
<1>1. cache \in Caches /\ Coherent(cache, store)
  BY DEF Inv, InTurn, CacheCoherent, Coherent
<1>2. via \in Vias /\ IsPrefix(via.at, r) /\ NodeId(store, via.at) = via.id
  BY <1>1, ViaSound, ViaRight
<1>3. txs' = Append(txs, tx) /\ ~ Busy(c)
  BY DEF Begin
<1> HIDE DEF via
<1>4. tx \in Txs
  BY <1>2, TransactionSound
<1>5. tx.client = c /\ tx.op = op /\ tx.via = via
  BY DEF Transaction
<1> HIDE DEF tx
<1>6. PICK t \in Txs : t = tx
  BY <1>4
<1>7. RightTx(t)'
  BY <1>2, <1>5, <1>6 DEF RightTx, RightVia
<1>8. txs' = Append(txs, t) /\ ~ Busy(t.client)
  BY <1>3, <1>5, <1>6
<1> QED
  BY <1>7, <1>8, CallInTurn

(* Every step keeps what holds while clients wait for one another, except  *)
(* the sync that makes a file of a directory with entries.                 *)
LEMMA NextInTurn ==
  ASSUME Inv, InTurn, Next, Cardinality(AtWork') <= 1, ~ Overwritten
  PROVE  InTurn'
<1> USE DEF Kinds
<1>1. cache \in Caches /\ Coherent(cache, store)
  BY DEF Inv, InTurn, CacheCoherent, Coherent
<1>2. EmptyCache \in Caches /\ Coherent(EmptyCache, store)
  BY ForgetSound, EmptyCoherent, PathFacts DEF Inv
<1>3. ASSUME NEW c \in Clients, Clear(c) PROVE InTurn'
  <2> DEFINE op == Op("clear", <<>>)
  <2>1. op \in Ops /\ op.kind = "clear"
    BY OpSound, PathFacts
  <2>2. /\ Begin(c, op, <<>>) /\ UNCHANGED <<store, timeouts>>
        /\ cache' \in Caches /\ Coherent(cache', store) /\ cache' = EmptyCache
    BY <1>2, <1>3 DEF Clear
  <2> HIDE DEF op
  <2> QED
    BY <2>1, <2>2, BeginInTurn, PathFacts
<1>4. ASSUME NEW c \in Clients, NEW p \in Paths, Lookup(c, p) PROVE InTurn'
  <2> DEFINE op == Op("lookup", p)
  <2>1. op \in Ops /\ op.kind = "lookup" /\ op.p = p
    BY OpSound
  <2>2. /\ Begin(c, op, p) /\ UNCHANGED <<store, timeouts>>
        /\ cache' \in Caches /\ Coherent(cache', store)
    BY <1>1, <1>4 DEF Lookup
  <2> HIDE DEF op
  <2> QED
    BY <2>1, <2>2, BeginInTurn
<1>5. ASSUME NEW c \in Clients, NEW p \in Paths, NEW t \in {"dir", "file"}, Create(c, p, t)
      PROVE  InTurn'
  <2> DEFINE op == [Op("create", p) EXCEPT !.type = t]
  <2>1. op \in Ops /\ op.kind = "create" /\ op.p = p
    BY OpSound DEF Ops
  <2>2. /\ Begin(c, op, Dirname(p)) /\ UNCHANGED <<store, timeouts>>
        /\ cache' \in Caches /\ Coherent(cache', store)
    BY <1>1, <1>5 DEF Create
  <2> HIDE DEF op
  <2> QED
    BY <2>1, <2>2, BeginInTurn, PathFacts
<1>6. ASSUME NEW c \in Clients, NEW p \in Paths \ {<<>>}, Unlink(c, p) PROVE InTurn'
  <2> DEFINE op == Op("remove", p)
  <2>1. op \in Ops /\ op.kind = "remove" /\ op.p = p /\ op.type = "file"
    BY OpSound DEF Op
  <2>2. cache' = [cache EXCEPT ![p] = NoId]
    BY <1>6 DEF Unlink, Forget
  <2>3. cache' \in Caches /\ Coherent(cache', store) /\ cache'[p] = NoId
    BY <2>2, <1>1, ForgetSound DEF Coherent, Caches
  <2>4. Begin(c, op, Dirname(p)) /\ UNCHANGED <<store, timeouts>>
    BY <1>6 DEF Unlink
  <2> HIDE DEF op
  <2> QED
    BY <2>1, <2>3, <2>4, BeginInTurn, PathFacts
<1>7. ASSUME NEW c \in Clients, NEW p \in Paths \ {<<>>}, Rmdir(c, p) PROVE InTurn'
  <2> DEFINE op == Op("isEmpty", p)
  <2>1. op \in Ops /\ op.kind = "isEmpty" /\ op.p = p
    BY OpSound
  <2>2. /\ Begin(c, op, p) /\ UNCHANGED <<store, timeouts>>
        /\ cache' \in Caches /\ Coherent(cache', store)
    BY <1>1, <1>7 DEF Rmdir
  <2> HIDE DEF op
  <2> QED
    BY <2>1, <2>2, BeginInTurn
<1>8. ASSUME NEW c \in Clients, NEW p \in Paths, NEW new \in Paths, Rename(c, p, new)
      PROVE  InTurn'
  <2>1. CASE MovesInsideItself(p, Dirname(new))
    <3>1. cache' = EmptyCache /\ UNCHANGED <<store, caching, txs, timeouts>>
      BY <1>8, <2>1 DEF Rename
    <3>2. Coherent(cache', store')
      BY <3>1, <1>2
    <3>3. txs # <<>> => RightTx(txs[1])'
      <4> DEFINE tx == txs[1]
      <4>1. txs # <<>> => RightTx(tx) /\ tx.op.p \in Paths
        BY RemovedAtSound DEF InTurn, Inv, Txs, Ops
      <4>2. \A q \in Paths : EmptyCache[q] = NoId
        BY DEF EmptyCache
      <4> HIDE DEF tx
      <4>3. PICK t : t = tx
        OBVIOUS
      <4>4. txs # <<>> => RightTx(t)'
        BY <4>1, <4>2, <4>3, <3>1 DEF RightTx, RightVia
      <4> QED
        BY <4>3, <4>4, <3>1 DEF tx
    <3> QED
      BY <3>1, <3>2, <3>3 DEF InTurn, CacheCoherent, Coherent, NoOrphans
  <2>2. CASE ~ MovesInsideItself(p, Dirname(new))
    <3> DEFINE op == [Op("rename", p) EXCEPT !.new = new]
               via == Via(EmptyCache, p)
               tx == [client |-> c, op |-> op, via |-> via, restores |-> caching]
    <3>1. op \in Ops /\ op.kind = "rename"
      BY OpSound DEF Ops
    <3>2. via \in Vias
      BY <1>2, ViaSound
    <3>3. /\ ~ Busy(c) /\ cache' = EmptyCache /\ caching' = FALSE
          /\ txs' = Append(txs, tx) /\ UNCHANGED <<store, timeouts>>
      BY <1>8, <2>2 DEF Rename
    <3> HIDE DEF op, via
    <3>4. tx \in Txs /\ tx.client = c /\ tx.op.kind = "rename"
      BY <3>1, <3>2 DEF Txs, Inv
    <3> HIDE DEF tx
    <3>5. PICK t \in Txs : t = tx
      BY <3>4
    <3>6. RightTx(t)'
      BY <3>3, <3>4, <3>5 DEF RightTx
    <3>7. txs' = Append(txs, t) /\ ~ Busy(t.client)
      BY <3>3, <3>4, <3>5
    <3> QED
      BY <3>3, <3>6, <3>7, <1>2, CallInTurn
  <2> QED
    BY <2>1, <2>2
<1>9. ASSUME NEW c \in Clients, NEW p \in Paths \ {<<>>}, NEW bytes \in Contents,
             Sync(c, p, bytes)
      PROVE  InTurn'
  <2> DEFINE op == [Op("sync", p) EXCEPT !.bytes = bytes]
  <2>1. op \in Ops /\ op.kind = "sync" /\ op.p = p
    BY OpSound DEF Ops
  <2>2. /\ Begin(c, op, p) /\ UNCHANGED <<store, timeouts>>
        /\ cache' \in Caches /\ Coherent(cache', store)
    BY <1>1, <1>9 DEF Sync
  <2> HIDE DEF op
  <2> QED
    BY <2>1, <2>2, BeginInTurn
<1>10. ASSUME NEW i \in DOMAIN txs, Look(i) PROVE InTurn'
  <2> DEFINE tx == txs[i]
  <2>1. /\ tx \in Txs /\ RightTx(tx) /\ tx.op.kind = "lookup"
        /\ RemoveAt(txs, i) = <<>> /\ timeouts = <<>>
    BY <1>10, RemovedAtSound, TheOne DEF Inv, Look
  <2>2. Coherent(cache', store)
    BY <1>10, <2>1, RememberedRight DEF Look, RightTx, RightVia, Txs, InTurn
  <2>3. txs' = <<>> /\ timeouts' = <<>> /\ store' = store
    BY <1>10, <2>1 DEF Look
  <2> QED
    BY <2>2, <2>3 DEF InTurn, CacheCoherent, Coherent, NoOrphans
<1>11. ASSUME NEW i \in DOMAIN txs, CheckEmpty(i) PROVE InTurn'
  <2> DEFINE tx == txs[i]
             p == tx.op.p
             seen == Remembered(tx.via, {p})
             forgotten == [seen EXCEPT ![p] = NoId]
             remove == [Op("remove", p) EXCEPT !.type = "dir"]
             via == Via(forgotten, Dirname(p))
             next == Transaction(tx.client, remove, via)
  <2>1. /\ tx \in Txs /\ RightTx(tx) /\ tx.op.kind = "isEmpty"
        /\ RemoveAt(txs, i) = <<>> /\ timeouts = <<>>
    BY <1>11, RemovedAtSound, TheOne DEF Inv, CheckEmpty
  <2>2. p \in Paths \ {<<>>} /\ tx.via \in Vias /\ RightVia(tx, p)
    BY <2>1 DEF RightTx, Txs, Ops
  <2>3. seen \in Caches /\ Coherent(seen, store)
    BY <2>2, RememberedSound, RememberedRight DEF RightVia, InTurn
  <2>4. remove.kind = "remove" /\ remove.type = "dir" /\ remove.p = p
    BY <2>2, OpSound DEF Ops
  <2>5. /\ UNCHANGED <<store, caching, timeouts>>
        /\ \/ /\ IsEmptyDirAt(store, IdsVia(tx.via)[p])
              /\ cache' = forgotten /\ txs' = Append(RemoveAt(txs, i), next)
           \/ cache' = seen /\ txs' = RemoveAt(txs, i)
    BY <1>11 DEF CheckEmpty
  <2>6. IdsVia(tx.via)[p] = NodeId(store, p)
    BY <2>2, WalkRight DEF RightVia
  <2> HIDE DEF tx, p, seen, remove
  <2>7. forgotten \in Caches /\ Coherent(forgotten, store) /\ forgotten[p] = NoId
    BY <2>2, <2>3, ForgetSound DEF Coherent, Caches
  <2> HIDE DEF forgotten
  <2>8. CASE cache' = seen /\ txs' = RemoveAt(txs, i)
    BY <2>1, <2>3, <2>5, <2>8 DEF InTurn, CacheCoherent, Coherent, NoOrphans
  <2>9. CASE /\ IsEmptyDirAt(store, IdsVia(tx.via)[p])
             /\ cache' = forgotten /\ txs' = Append(RemoveAt(txs, i), next)
    <3>1. IsPrefix(via.at, Dirname(p)) /\ NodeId(store, via.at) = via.id
      BY <2>2, <2>7, ViaRight, PathFacts
    <3> HIDE DEF via
    <3>2. next.op = remove /\ next.via = via
      BY DEF Transaction
    <3> HIDE DEF next
    <3>3. PICK t : t = next
      OBVIOUS
    <3>4. RightTx(t)'
      <4>1. /\ t.op.kind = "remove" /\ t.op.type = "dir" /\ t.op.p = p
            /\ t.via = via /\ p \in Paths \ {<<>>}
        BY <3>2, <3>3, <2>2, <2>4
      <4>2. /\ cache' = forgotten /\ store' = store
            /\ IsEmptyDirAt(store, NodeId(store, p))
        BY <2>5, <2>6, <2>9
      <4>3. PICK q \in Paths : q = p
        BY <2>2
      <4> QED
        BY <3>1, <4>1, <4>2, <4>3, <2>7 DEF RightTx, RightVia, IsEmptyDir
    <3>5. /\ Len(txs') = 1 /\ txs'[1] = t
          /\ Len(timeouts') = 0 /\ timeouts' = <<>>
      <4>1. txs' = <<t>> /\ timeouts' = <<>>
        BY <2>1, <2>5, <2>9, <3>3
      <4> QED
        BY <4>1
    <3>6. CacheCoherent' /\ NoOrphans'
      BY <2>5, <2>7, <2>9 DEF InTurn, CacheCoherent, Coherent, NoOrphans
    <3> QED
      BY <3>4, <3>5, <3>6 DEF InTurn
  <2> QED
    BY <2>5, <2>8, <2>9
<1>12. CASE Commit
  BY <1>12, CommitInTurn
<1>13. CASE Fail
  <2> DEFINE tx == txs[1]
  <2>1. /\ tx \in Txs /\ RightTx(tx) /\ Tail(txs) = <<>> /\ timeouts = <<>>
        /\ tx.op.kind \in {"create", "remove", "rename", "sync"}
    <3>1. 1 \in DOMAIN txs
      BY <1>13 DEF Fail, Runnable
    <3> QED
      BY <1>13, <3>1, RemovedAtSound, TheOne DEF Inv, Fail
  <2>2. tx.via \in Vias /\ cache' \in {cache, Remembered(tx.via, Sought(tx.op))}
    BY <1>13, <2>1 DEF Fail, Txs
  <2>3. CASE tx.op.kind = "rename"
    <3>1. cache' = cache
      BY <2>1, <2>2, <2>3, NothingRemembered DEF RightTx
    <3> QED
      BY <3>1, <1>13, <2>1 DEF Fail, InTurn, CacheCoherent, NoOrphans
  <2>4. CASE tx.op.kind # "rename"
    <3>1. NodeId(store, tx.via.at) = tx.via.id
      BY <2>1, <2>4 DEF RightTx, RightVia
    <3> HIDE DEF tx
    <3>2. Coherent(cache', store)
      BY <3>1, <2>2, <1>1, RememberedRight DEF InTurn
    <3> QED
      BY <3>2, <1>13, <2>1 DEF Fail, InTurn, CacheCoherent, Coherent, NoOrphans
  <2> QED
    BY <2>3, <2>4
<1>14. CASE Return
  <2> DEFINE tx == Head(timeouts)
             root == Transaction(tx.client, Op("makeRoot", <<>>), tx.via)
  <2>1. /\ timeouts # <<>> /\ tx = timeouts[1]
        /\ timeouts' = Tail(timeouts) /\ UNCHANGED <<store, cache>>
        /\ txs' = IF tx.op.kind = "clear" THEN Append(txs, root) ELSE txs
    BY <1>14 DEF Return, Inv
  <2>2. txs = <<>> /\ Tail(timeouts) = <<>>
    <3>1. /\ txs \in Seq(Txs) /\ timeouts \in Seq(Txs)
          /\ Len(txs) \in Nat /\ Len(timeouts) \in Nat \ {0}
      BY <2>1, EmptySeq DEF Inv
    <3>2. Len(txs) = 0 /\ Len(timeouts) = 1
      <4>1. Len(txs) + Len(timeouts) <= 1
        BY DEF InTurn
      <4> HIDE DEF tx, root
      <4>2. \A m, n \in Nat : n # 0 /\ m + n <= 1 => m = 0 /\ n = 1
        OBVIOUS
      <4> QED
        BY <3>1, <4>1, <4>2
    <3>3. Tail(timeouts) \in Seq(Txs) /\ Len(Tail(timeouts)) = 0
      BY <2>1, <3>1, <3>2
    <3>4. \A s \in Seq(Txs) : Len(s) = 0 => s = <<>>
      BY EmptySeq
    <3> QED
      BY <3>1, <3>2, <3>3, <3>4
  <2>3. root.op.kind = "makeRoot"
    BY OpSound, PathFacts DEF Transaction
  <2>4. tx.op.kind = "clear" => cache = EmptyCache
    BY <2>1 DEF InTurn
  <2> HIDE DEF tx, root
  <2>5. CASE tx.op.kind = "clear"
    <3> PICK t : t = root
      OBVIOUS
    <3>1. txs' = <<t>> /\ timeouts' = <<>>
      BY <2>1, <2>2, <2>5
    <3>2. Len(txs') = 1 /\ txs'[1] = t /\ Len(timeouts') = 0
      BY <3>1
    <3>3. RightTx(t)'
      BY <2>1, <2>3, <2>4, <2>5 DEF RightTx
    <3>4. CacheCoherent' /\ NoOrphans'
      BY <2>1 DEF InTurn, CacheCoherent, NoOrphans
    <3> QED
      BY <3>1, <3>2, <3>3, <3>4 DEF InTurn
  <2>6. CASE tx.op.kind # "clear"
    BY <2>1, <2>2, <2>6 DEF InTurn, CacheCoherent, NoOrphans
  <2> QED
    BY <2>5, <2>6
<1> QED
  BY <1>3, <1>4, <1>5, <1>6, <1>7, <1>8, <1>9, <1>10, <1>11, <1>12, <1>13, <1>14 DEF Next

----------------------------------------------------------------------------
HistoryInv == Inv /\ (alone /\ ~ clobbered => InTurn)

LEMMA HistoryInvAlways == HistorySpec => []HistoryInv
<1>1. HistoryInit => HistoryInv
  <2> SUFFICES ASSUME HistoryInit PROVE HistoryInv
    OBVIOUS
  <2>1. PICK k \in DataGuids : store = EmptyStore(k)
    BY DEF HistoryInit, Init
  <2>2. OrphanFree(store)
    BY <2>1, EmptyStoreSound, ClientAssumption
  <2>3. InTurn
    BY <2>2, EmptyCoherent DEF HistoryInit, Init, InTurn, CacheCoherent, Coherent, NoOrphans
  <2> QED
    BY <2>3, InitInv DEF HistoryInit, HistoryInv
<1>2. ASSUME HistoryInv, [HistoryNext]_<<vars, alone, clobbered>>
      PROVE  HistoryInv'
  <2>1. CASE HistoryNext
    <3>1. Inv'
      BY <1>2, <2>1, NextInv DEF HistoryInv, HistoryNext
    <3>2. alone' /\ ~ clobbered' => InTurn'
      BY <1>2, <2>1, NextInTurn DEF HistoryInv, HistoryNext
    <3> QED
      BY <3>1, <3>2 DEF HistoryInv
  <2>2. CASE UNCHANGED <<vars, alone, clobbered>>
    <3>1. Inv'
      BY <1>2, <2>2, NextInv DEF HistoryInv
    <3>2. InTurn => InTurn'
      BY <2>2 DEF vars, InTurn, CacheCoherent, NoOrphans, RightTx, RightVia
    <3> QED
      BY <1>2, <2>2, <3>1, <3>2 DEF HistoryInv
  <2> QED
    BY <1>2, <2>1, <2>2
<1> QED
  BY <1>1, <1>2, PTL DEF HistorySpec

LEMMA InvTypeOK == Inv => TypeOK
<1> SUFFICES ASSUME Inv, NEW tx \in InFlight
             PROVE  tx \in Txs
  BY DEF Inv, Sound, Caches, TypeOK, Txs, Ops, Vias
<1> QED
  BY DEF Inv, InFlight, ToSet

(* The cache tells a client that waits for its callbacks nothing stale: at *)
(* every moment what it says of a path is what the store says, until a     *)
(* handle is synced over a directory with entries.                         *)
THEOREM CoherentAloneAlways == HistorySpec => []CoherentAlone
<1>1. HistoryInv => CoherentAlone
  BY InvTypeOK DEF HistoryInv, InTurn, CoherentAlone
<1> QED
  BY <1>1, HistoryInvAlways, PTL

(* ... and until then no call of such a client leaves a key that nothing   *)
(* leads to, the sync of a handle over an empty directory or after its     *)
(* file was removed and made anew included.                                *)
THEOREM NoOrphansAloneAlways == HistorySpec => []NoOrphansAlone
<1>1. HistoryInv => NoOrphansAlone
  BY DEF HistoryInv, InTurn, NoOrphansAlone
<1> QED
  BY <1>1, HistoryInvAlways, PTL

----------------------------------------------------------------------------
(***************************************************************************)
(* The cache of inodes by itself, LRUCache, for all keys, values and        *)
(* limits.  Its invariant is that some sequence of keys is the list, read   *)
(* from the head by next and from the tail by prev, and holds each key of   *)
(* the map once.                                                            *)
(***************************************************************************)

Once(s) == \A i, j \in 1 .. Len(s) : s[i] = s[j] => i = j

LRUType(l) ==
  l \in [map : [Keys -> Values \union {Null}],
         prev : [Keys -> Keys \union {Null}], next : [Keys -> Keys \union {Null}],
         head : Keys \union {Null}, tail : Keys \union {Null}, size : Nat]

(* The nodes of l, from the head to the tail, are s. *)
Chain(l, s) ==
  /\ s \in Seq(Keys) /\ Once(s)
  /\ \A k \in Keys : l.map[k] # Null <=> \E i \in 1 .. Len(s) : s[i] = k
  /\ l.head = (IF Len(s) = 0 THEN Null ELSE s[1])
  /\ l.tail = (IF Len(s) = 0 THEN Null ELSE s[Len(s)])
  /\ \A i \in 1 .. Len(s) : l.next[s[i]] = IF i = Len(s) THEN Null ELSE s[i + 1]
  /\ \A i \in 1 .. Len(s) : l.prev[s[i]] = IF i = 1 THEN Null ELSE s[i - 1]
  /\ l.size = Len(s)

(* s without its j-th element, and s after x *)
Without(s, j) == [i \in 1 .. Len(s) - 1 |-> IF i < j THEN s[i] ELSE s[i + 1]]
Pushed(x, s) == [i \in 1 .. Len(s) + 1 |-> IF i = 1 THEN x ELSE s[i - 1]]

LEMMA WithoutProperties ==
  ASSUME NEW S, NEW s \in Seq(S), NEW j \in 1 .. Len(s)
  PROVE  /\ Without(s, j) \in Seq(S) /\ Len(Without(s, j)) = Len(s) - 1
         /\ \A i \in 1 .. Len(s) - 1 : Without(s, j)[i] = IF i < j THEN s[i] ELSE s[i + 1]
         /\ RemoveAt(s, j) = Without(s, j)
<1>1. Len(s) \in Nat /\ Len(s) - 1 \in Nat /\ j \in Nat
  BY LenProperties
<1>2. \A i \in 1 .. Len(s) - 1 : (IF i < j THEN s[i] ELSE s[i + 1]) \in S
  BY <1>1, ElementOfSeq
<1>3. Without(s, j) \in Seq(S) /\ Len(Without(s, j)) = Len(s) - 1
  BY <1>1, <1>2, IsASeq DEF Without
<1>4. \A i \in 1 .. Len(s) - 1 : Without(s, j)[i] = IF i < j THEN s[i] ELSE s[i + 1]
  BY DEF Without
<1> DEFINE a == SubSeq(s, 1, j - 1)
           b == SubSeq(s, j + 1, Len(s))
<1>5. /\ a \in Seq(S) /\ Len(a) = j - 1
      /\ \A i \in 1 .. j - 1 : a[i] = s[i]
  BY <1>1
<1>6. /\ b \in Seq(S) /\ Len(b) = Len(s) - j
      /\ \A i \in 1 .. Len(s) - j : b[i] = s[j + i]
  BY <1>1
<1> HIDE DEF a, b
<1>7. /\ a \o b \in Seq(S) /\ Len(a \o b) = Len(s) - 1
      /\ \A i \in 1 .. Len(a) + Len(b) : (a \o b)[i] = IF i <= Len(a) THEN a[i] ELSE b[i - Len(a)]
  BY <1>1, <1>5, <1>6, ConcatProperties
<1>8. \A i \in 1 .. Len(s) - 1 : (a \o b)[i] = Without(s, j)[i]
  <2> SUFFICES ASSUME NEW i \in 1 .. Len(s) - 1 PROVE (a \o b)[i] = Without(s, j)[i]
    OBVIOUS
  <2>1. CASE i < j
    BY <2>1, <1>1, <1>4, <1>5, <1>6, <1>7
  <2>2. CASE ~ (i < j)
    <3>1. i - (j - 1) \in 1 .. Len(s) - j /\ j + (i - (j - 1)) = i + 1
      BY <2>2, <1>1
    <3>2. (a \o b)[i] = b[i - (j - 1)]
      BY <2>2, <1>1, <1>5, <1>6, <1>7
    <3>3. b[i - (j - 1)] = s[i + 1]
      BY <3>1, <1>6
    <3> QED BY <2>2, <3>2, <3>3, <1>4
  <2> QED BY <2>1, <2>2
<1>9. a \o b = Without(s, j)
  BY <1>3, <1>7, <1>8, SeqEqual
<1> QED BY <1>3, <1>4, <1>9 DEF RemoveAt, a, b

LEMMA PushedProperties ==
  ASSUME NEW S, NEW s \in Seq(S), NEW x \in S
  PROVE  /\ Pushed(x, s) \in Seq(S) /\ Len(Pushed(x, s)) = Len(s) + 1
         /\ \A i \in 1 .. Len(s) + 1 : Pushed(x, s)[i] = IF i = 1 THEN x ELSE s[i - 1]
         /\ <<x>> \o s = Pushed(x, s)
<1>1. Len(s) \in Nat /\ Len(s) + 1 \in Nat
  BY LenProperties
<1>2. \A i \in 1 .. Len(s) + 1 : (IF i = 1 THEN x ELSE s[i - 1]) \in S
  BY <1>1, ElementOfSeq
<1>3. Pushed(x, s) \in Seq(S) /\ Len(Pushed(x, s)) = Len(s) + 1
  BY <1>1, <1>2, IsASeq DEF Pushed
<1>4. \A i \in 1 .. Len(s) + 1 : Pushed(x, s)[i] = IF i = 1 THEN x ELSE s[i - 1]
  BY DEF Pushed
<1>5. <<x>> \in Seq(S) /\ Len(<<x>>) = 1 /\ <<x>>[1] = x
  OBVIOUS
<1>6. /\ <<x>> \o s \in Seq(S) /\ Len(<<x>> \o s) = Len(s) + 1
      /\ \A i \in 1 .. 1 + Len(s) : (<<x>> \o s)[i] = IF i <= 1 THEN <<x>>[i] ELSE s[i - 1]
  BY <1>1, <1>5, ConcatProperties
<1>7. \A i \in 1 .. Len(s) + 1 : (<<x>> \o s)[i] = Pushed(x, s)[i]
  BY <1>1, <1>4, <1>5, <1>6
<1>8. <<x>> \o s = Pushed(x, s)
  BY <1>3, <1>6, <1>7, SeqEqual
<1> QED BY <1>3, <1>4, <1>8

LEMMA FrontIsWithout ==
  ASSUME NEW S, NEW s \in Seq(S), Len(s) # 0
  PROVE  Front(s) = Without(s, Len(s))
<1>1. Len(s) \in Nat /\ Len(s) \in 1 .. Len(s)
  BY LenProperties
<1>2. /\ Front(s) \in [1 .. Len(s) - 1 -> S]
      /\ \A i \in 1 .. Len(s) - 1 : Front(s)[i] = s[i]
  BY <1>1, FrontLast, EmptySeq
<1>3. \A i \in 1 .. Len(s) - 1 : i < Len(s)
  BY <1>1
<1> QED BY <1>2, <1>3 DEF Without

----------------------------------------------------------------------------
(* remove, setHead and the eviction of set, on the chain *)

LEMMA UnlinkedFields ==
  ASSUME NEW l, LRUType(l), NEW k \in Keys, l.size # 0
  PROVE  LET u == Unlinked(l, k)
             p == l.prev[k]
             n == l.next[k]
         IN /\ LRUType(u)
            /\ u.map = [l.map EXCEPT ![k] = Null] /\ u.size = l.size - 1
            /\ u.next = IF p # Null THEN [l.next EXCEPT ![p] = n] ELSE l.next
            /\ u.head = IF p # Null THEN l.head ELSE n
            /\ u.prev = IF n # Null THEN [l.prev EXCEPT ![n] = p] ELSE l.prev
            /\ u.tail = IF n # Null THEN l.tail ELSE p
<1> DEFINE p == l.prev[k]
           n == l.next[k]
           a == IF p # Null THEN [l EXCEPT !.next[p] = n] ELSE [l EXCEPT !.head = n]
           b == IF n # Null THEN [a EXCEPT !.prev[n] = p] ELSE [a EXCEPT !.tail = p]
           u == [b EXCEPT !.map[k] = Null, !.size = @ - 1]
<1>1. Unlinked(l, k) = u
  BY DEF Unlinked
<1>2. p \in Keys \union {Null} /\ n \in Keys \union {Null}
  BY DEF LRUType
<1> HIDE DEF p, n
<1>3. /\ LRUType(a) /\ a.map = l.map /\ a.size = l.size /\ a.prev = l.prev /\ a.tail = l.tail
      /\ a.next = (IF p # Null THEN [l.next EXCEPT ![p] = n] ELSE l.next)
      /\ a.head = (IF p # Null THEN l.head ELSE n)
  BY <1>2 DEF LRUType
<1> HIDE DEF a
<1>4. /\ LRUType(b) /\ b.map = l.map /\ b.size = l.size /\ b.next = a.next /\ b.head = a.head
      /\ b.prev = (IF n # Null THEN [l.prev EXCEPT ![n] = p] ELSE l.prev)
      /\ b.tail = (IF n # Null THEN l.tail ELSE p)
  BY <1>2, <1>3 DEF LRUType
<1> HIDE DEF b
<1> DEFINE c == [b EXCEPT !.map[k] = Null]
<1>5. /\ LRUType(c) /\ c.map = [l.map EXCEPT ![k] = Null] /\ c.size = l.size
      /\ c.next = b.next /\ c.head = b.head /\ c.prev = b.prev /\ c.tail = b.tail
  BY <1>4 DEF LRUType
<1>6. u = [c EXCEPT !.size = c.size - 1]
  BY <1>4 DEF LRUType
<1> HIDE DEF c, u
<1>7. l.size - 1 \in Nat
  BY DEF LRUType
<1>8. /\ LRUType(u) /\ u.map = c.map /\ u.size = l.size - 1
      /\ u.next = c.next /\ u.head = c.head /\ u.prev = c.prev /\ u.tail = c.tail
  BY <1>5, <1>6, <1>7 DEF LRUType
<1> QED BY <1>1, <1>3, <1>4, <1>5, <1>8 DEF p, n

LEMMA UnlinkedChain ==
  ASSUME NEW l, LRUType(l), NEW s, Chain(l, s), NEW j \in 1 .. Len(s)
  PROVE  /\ LRUType(Unlinked(l, s[j])) /\ Chain(Unlinked(l, s[j]), Without(s, j))
         /\ Unlinked(l, s[j]).map = [l.map EXCEPT ![s[j]] = Null]
<1> DEFINE k == s[j]
           p == l.prev[k]
           n == l.next[k]
           N == Len(s)
           t == Without(s, j)
<1>1. s \in Seq(Keys) /\ N \in Nat /\ j \in Nat /\ 1 <= j /\ j <= N /\ k \in Keys
  BY LenProperties, ElementOfSeq DEF Chain
<1>2. p = (IF j = 1 THEN Null ELSE s[j - 1]) /\ n = (IF j = N THEN Null ELSE s[j + 1])
  BY DEF Chain
<1>3. \A i \in 1 .. N : s[i] \in Keys /\ s[i] # Null
  BY <1>1, ElementOfSeq, LimitAssumption
<1>4. \A i, m \in 1 .. N : s[i] = s[m] => i = m
  BY DEF Chain, Once
<1>5. /\ t \in Seq(Keys) /\ Len(t) = N - 1
      /\ \A i \in 1 .. N - 1 : t[i] = IF i < j THEN s[i] ELSE s[i + 1]
  BY <1>1, WithoutProperties
<1>6. l.size = N /\ l.size # 0
  BY <1>1 DEF Chain
<1>7. PICK u : u = Unlinked(l, k)
  OBVIOUS
<1>8. /\ LRUType(u)
      /\ u.map = [l.map EXCEPT ![k] = Null] /\ u.size = N - 1
      /\ u.next = IF p # Null THEN [l.next EXCEPT ![p] = n] ELSE l.next
      /\ u.head = IF p # Null THEN l.head ELSE n
      /\ u.prev = IF n # Null THEN [l.prev EXCEPT ![n] = p] ELSE l.prev
      /\ u.tail = IF n # Null THEN l.tail ELSE p
  <2> HIDE DEF k
  <2>1. /\ LRUType(u)
        /\ u.map = [l.map EXCEPT ![k] = Null] /\ u.size = l.size - 1
        /\ u.next = IF p # Null THEN [l.next EXCEPT ![p] = n] ELSE l.next
        /\ u.head = IF p # Null THEN l.head ELSE n
        /\ u.prev = IF n # Null THEN [l.prev EXCEPT ![n] = p] ELSE l.prev
        /\ u.tail = IF n # Null THEN l.tail ELSE p
    BY <1>1, <1>6, <1>7, UnlinkedFields, ZenonT(40)
  <2> QED BY <1>6, <2>1
<1>9. /\ l.head = s[1] /\ l.tail = s[N]
      /\ \A i \in 1 .. N : l.next[s[i]] = IF i = N THEN Null ELSE s[i + 1]
      /\ \A i \in 1 .. N : l.prev[s[i]] = IF i = 1 THEN Null ELSE s[i - 1]
      /\ \A q \in Keys : l.map[q] # Null <=> \E i \in 1 .. N : s[i] = q
  BY <1>1 DEF Chain
<1>10. /\ l.next \in [Keys -> Keys \union {Null}] /\ l.prev \in [Keys -> Keys \union {Null}]
       /\ l.map \in [Keys -> Values \union {Null}]
  BY DEF LRUType
<1> HIDE DEF k, p, n, t, N
<1>11. Once(t)
  <2> SUFFICES ASSUME NEW i \in 1 .. N - 1, NEW m \in 1 .. N - 1, t[i] = t[m] PROVE i = m
    BY <1>5 DEF Once
  <2>1. t[i] = s[IF i < j THEN i ELSE i + 1] /\ t[m] = s[IF m < j THEN m ELSE m + 1]
    BY <1>5
  <2>2. (IF i < j THEN i ELSE i + 1) \in 1 .. N /\ (IF m < j THEN m ELSE m + 1) \in 1 .. N
    BY <1>1
  <2>3. (IF i < j THEN i ELSE i + 1) = (IF m < j THEN m ELSE m + 1)
    BY <1>4, <2>1, <2>2
  <2> QED BY <1>1, <2>3
<1>12. \A q \in Keys : u.map[q] # Null <=> \E i \in 1 .. N - 1 : t[i] = q
  <2> SUFFICES ASSUME NEW q \in Keys PROVE u.map[q] # Null <=> \E i \in 1 .. N - 1 : t[i] = q
    OBVIOUS
  <2>1. u.map[q] # Null <=> q # k /\ \E i \in 1 .. N : s[i] = q
    BY <1>8, <1>9, <1>10
  <2>2. ASSUME NEW i \in 1 .. N, s[i] = q, q # k PROVE \E m \in 1 .. N - 1 : t[m] = q
    <3>1. CASE i < j
      <4>1. i \in 1 .. N - 1
        BY <1>1, <3>1
      <4> QED BY <1>5, <2>2, <3>1, <4>1
    <3>2. CASE ~ (i < j)
      <4>1. i # j
        BY <2>2 DEF k
      <4>2. i - 1 \in 1 .. N - 1 /\ ~ (i - 1 < j) /\ (i - 1) + 1 = i
        BY <1>1, <3>2, <4>1
      <4>3. t[i - 1] = s[i]
        BY <1>5, <4>2
      <4> QED BY <2>2, <4>2, <4>3
    <3> QED BY <3>1, <3>2
  <2>3. ASSUME NEW i \in 1 .. N - 1, t[i] = q PROVE q # k /\ \E m \in 1 .. N : s[m] = q
    <3>1. PICK m \in 1 .. N : m = (IF i < j THEN i ELSE i + 1)
      BY <1>1
    <3>2. t[i] = s[m] /\ m # j
      BY <1>1, <1>5, <3>1
    <3>3. s[m] # s[j]
      BY <1>1, <1>4, <3>2
    <3> QED BY <2>3, <3>2, <3>3 DEF k
  <2> QED BY <2>1, <2>2, <2>3
<1>13. u.head = (IF N - 1 = 0 THEN Null ELSE t[1])
  <2>1. CASE j = 1
    <3>1. u.head = n /\ n = (IF N = 1 THEN Null ELSE s[2])
      BY <1>1, <1>2, <1>8, <2>1
    <3>2. N # 1 => 1 \in 1 .. N - 1 /\ ~ (1 < j)
      BY <1>1, <2>1
    <3>3. N # 1 => t[1] = s[2]
      BY <1>5, <3>2
    <3> QED BY <1>1, <3>1, <3>3
  <2>2. CASE j # 1
    <3>1. j - 1 \in 1 .. N /\ 1 \in 1 .. N - 1 /\ 1 < j /\ N - 1 # 0
      BY <1>1, <2>2
    <3>2. p # Null
      BY <1>2, <1>3, <2>2, <3>1
    <3> QED BY <1>5, <1>8, <1>9, <3>1, <3>2
  <2> QED BY <2>1, <2>2
<1>14. u.tail = (IF N - 1 = 0 THEN Null ELSE t[N - 1])
  <2>1. CASE j = N
    <3>1. CASE N = 1
      BY <1>2, <1>8, <2>1, <3>1
    <3>2. CASE N # 1
      <4>1. N - 1 \in 1 .. N - 1 /\ N - 1 < j
        BY <1>1, <2>1, <3>2
      <4> QED BY <1>1, <1>2, <1>5, <1>8, <2>1, <3>2, <4>1
    <3> QED BY <3>1, <3>2
  <2>2. CASE j # N
    <3>1. j + 1 \in 1 .. N /\ N - 1 \in 1 .. N - 1 /\ ~ (N - 1 < j) /\ N - 1 # 0 /\ (N - 1) + 1 = N
      BY <1>1, <2>2
    <3>2. n # Null
      BY <1>2, <1>3, <2>2, <3>1
    <3>3. t[N - 1] = s[N]
      BY <1>5, <3>1
    <3> QED BY <1>8, <1>9, <3>1, <3>2, <3>3
  <2> QED BY <2>1, <2>2
<1>15. \A i \in 1 .. N - 1 : u.next[t[i]] = IF i = N - 1 THEN Null ELSE t[i + 1]
  <2> SUFFICES ASSUME NEW i \in 1 .. N - 1
               PROVE u.next[t[i]] = IF i = N - 1 THEN Null ELSE t[i + 1]
    OBVIOUS
  <2>0. i \in 1 .. N /\ i + 1 \in 1 .. N /\ i \in Nat
    BY <1>1
  <2>1. CASE i >= j
    <3>1. t[i] = s[i + 1] /\ i + 1 # j - 1
      BY <1>1, <1>5, <2>0, <2>1
    <3>2. u.next[t[i]] = l.next[s[i + 1]]
      <4>1. CASE p = Null
        BY <1>8, <3>1, <4>1
      <4>2. CASE p # Null
        <5>1. p = s[j - 1] /\ j # 1
          BY <1>2, <4>2
        <5>2. j - 1 \in 1 .. N
          BY <1>1, <5>1
        <5>3. s[i + 1] # p
          BY <1>4, <2>0, <3>1, <5>1, <5>2
        <5>4. u.next = [l.next EXCEPT ![p] = n]
          BY <1>8, <4>2
        <5> QED BY <1>3, <1>10, <2>0, <3>1, <5>3, <5>4
      <4> QED BY <4>1, <4>2
    <3>3. l.next[s[i + 1]] = IF i + 1 = N THEN Null ELSE s[i + 2]
      BY <1>9, <2>0
    <3>4. CASE i = N - 1
      BY <1>1, <3>2, <3>3, <3>4
    <3>5. CASE i # N - 1
      <4>1. i + 1 \in 1 .. N - 1 /\ ~ (i + 1 < j) /\ i + 1 # N /\ (i + 1) + 1 = i + 2
        BY <1>1, <2>0, <2>1, <3>5
      <4>2. t[i + 1] = s[i + 2]
        BY <1>5, <4>1
      <4> QED BY <3>2, <3>3, <3>5, <4>1, <4>2
    <3> QED BY <3>4, <3>5
  <2>2. CASE i = j - 1
    <3>1. t[i] = s[j - 1] /\ j # 1 /\ j - 1 \in 1 .. N
      BY <1>1, <1>5, <2>0, <2>2
    <3>2. p = s[j - 1] /\ p # Null /\ p \in Keys
      BY <1>2, <1>3, <3>1
    <3>3. u.next[t[i]] = n
      BY <1>8, <1>10, <3>1, <3>2
    <3>4. CASE i = N - 1
      <4>1. j = N
        BY <1>1, <2>2, <3>4
      <4> QED BY <1>2, <3>3, <3>4, <4>1
    <3>5. CASE i # N - 1
      <4>1. j # N /\ i + 1 \in 1 .. N - 1 /\ ~ (i + 1 < j) /\ (i + 1) + 1 = j + 1
        BY <1>1, <2>0, <2>2, <3>5
      <4>2. t[i + 1] = s[j + 1]
        BY <1>5, <4>1
      <4> QED BY <1>2, <3>3, <3>5, <4>1, <4>2
    <3> QED BY <3>4, <3>5
  <2>3. CASE i < j - 1
    <3>1. t[i] = s[i] /\ i # j - 1 /\ i < j /\ i + 1 < j /\ i + 1 \in 1 .. N - 1 /\ i # N - 1 /\ i # N
      BY <1>1, <1>5, <2>0, <2>3
    <3>2. u.next[t[i]] = l.next[s[i]]
      <4>1. CASE p = Null
        BY <1>8, <3>1, <4>1
      <4>2. CASE p # Null
        <5>1. p = s[j - 1] /\ j # 1
          BY <1>2, <4>2
        <5>2. j - 1 \in 1 .. N
          BY <1>1, <5>1
        <5>3. s[i] # p
          BY <1>4, <2>0, <3>1, <5>1, <5>2
        <5>4. u.next = [l.next EXCEPT ![p] = n]
          BY <1>8, <4>2
        <5> QED BY <1>3, <1>10, <2>0, <3>1, <5>3, <5>4
      <4> QED BY <4>1, <4>2
    <3>3. t[i + 1] = s[i + 1]
      BY <1>5, <3>1
    <3> QED BY <1>9, <2>0, <3>1, <3>2, <3>3
  <2> QED BY <1>1, <2>0, <2>1, <2>2, <2>3
<1>16. \A i \in 1 .. N - 1 : u.prev[t[i]] = IF i = 1 THEN Null ELSE t[i - 1]
  <2> SUFFICES ASSUME NEW i \in 1 .. N - 1
               PROVE u.prev[t[i]] = IF i = 1 THEN Null ELSE t[i - 1]
    OBVIOUS
  <2>0. i \in 1 .. N /\ i + 1 \in 1 .. N /\ i \in Nat
    BY <1>1
  <2>1. ASSUME NEW m \in 1 .. N, m # j + 1 PROVE u.prev[s[m]] = l.prev[s[m]]
    <3>1. CASE n = Null
      BY <1>8, <3>1
    <3>2. CASE n # Null
      <4>1. n = s[j + 1] /\ j # N
        BY <1>2, <3>2
      <4>2. j + 1 \in 1 .. N
        BY <1>1, <4>1
      <4>3. s[m] # n
        BY <1>4, <2>1, <4>1, <4>2
      <4>4. u.prev = [l.prev EXCEPT ![n] = p]
        BY <1>8, <3>2
      <4> QED BY <1>3, <1>10, <4>3, <4>4
    <3> QED BY <3>1, <3>2
  <2>2. CASE i < j
    <3>1. t[i] = s[i] /\ u.prev[s[i]] = l.prev[s[i]]
      BY <1>1, <1>5, <2>0, <2>1, <2>2
    <3>2. i # 1 => i - 1 \in 1 .. N - 1 /\ i - 1 < j
      BY <1>1, <2>0, <2>2
    <3>3. i # 1 => t[i - 1] = s[i - 1]
      BY <1>5, <3>2
    <3> QED BY <1>9, <2>0, <3>1, <3>3
  <2>3. CASE i = j
    <3>1. t[i] = s[j + 1] /\ j # N /\ j + 1 \in 1 .. N
      BY <1>1, <1>5, <2>0, <2>3
    <3>2. n = s[j + 1] /\ n # Null /\ n \in Keys
      BY <1>2, <1>3, <3>1
    <3>3. u.prev[t[i]] = p
      BY <1>8, <1>10, <3>1, <3>2
    <3>4. i # 1 => i - 1 \in 1 .. N - 1 /\ i - 1 < j
      BY <1>1, <2>0, <2>3
    <3>5. i # 1 => t[i - 1] = s[j - 1]
      BY <1>5, <2>3, <3>4
    <3> QED BY <1>2, <2>3, <3>3, <3>5
  <2>4. CASE i > j
    <3>1. t[i] = s[i + 1] /\ i + 1 # j + 1 /\ i # 1 /\ i + 1 # 1 /\ (i + 1) - 1 = i
      BY <1>1, <1>5, <2>0, <2>4
    <3>2. u.prev[t[i]] = l.prev[s[i + 1]]
      BY <2>0, <2>1, <3>1
    <3>3. i - 1 \in 1 .. N - 1 /\ ~ (i - 1 < j) /\ (i - 1) + 1 = i
      BY <1>1, <2>0, <2>4
    <3>4. t[i - 1] = s[i]
      BY <1>5, <3>3
    <3>5. l.prev[s[i + 1]] = s[i]
      BY <1>9, <2>0, <3>1
    <3> QED BY <3>1, <3>2, <3>4, <3>5
  <2> QED BY <1>1, <2>0, <2>2, <2>3, <2>4
<1>17. Chain(u, t)
  BY <1>5, <1>8, <1>11, <1>12, <1>13, <1>14, <1>15, <1>16 DEF Chain
<1> QED BY <1>7, <1>8, <1>17 DEF k, t

LEMMA AtHeadFields ==
  ASSUME NEW l, LRUType(l), NEW k \in Keys, NEW v \in Values, NEW g, g = AtHead(l, k, v)
  PROVE  /\ LRUType(g)
         /\ g.map = [l.map EXCEPT ![k] = v] /\ g.size = l.size + 1 /\ g.head = k
         /\ g.tail = IF l.tail = Null THEN k ELSE l.tail
         /\ g.next = [l.next EXCEPT ![k] = l.head]
         /\ \A q \in Keys : g.prev[q] = IF l.head # Null /\ q = l.head THEN k
                                        ELSE IF q = k THEN Null ELSE l.prev[q]
<1> DEFINE a == [l EXCEPT !.next[k] = l.head, !.prev[k] = Null]
           b == IF l.head # Null THEN [a EXCEPT !.prev[l.head] = k] ELSE a
           c == [b EXCEPT !.head = k, !.tail = IF l.tail = Null THEN k ELSE @]
           d == [c EXCEPT !.size = @ + 1]
           h == [d EXCEPT !.map[k] = v]
<1>0. l.head \in Keys \union {Null} /\ l.tail \in Keys \union {Null}
  BY DEF LRUType
<1>1. g = h
  BY DEF AtHead, LRUType
<1>2. /\ LRUType(a) /\ a.map = l.map /\ a.size = l.size /\ a.head = l.head /\ a.tail = l.tail
      /\ a.next = [l.next EXCEPT ![k] = l.head]
      /\ a.prev = [l.prev EXCEPT ![k] = Null]
  BY <1>0 DEF LRUType
<1> HIDE DEF a
<1>3. /\ LRUType(b) /\ b.map = a.map /\ b.size = a.size /\ b.head = a.head /\ b.tail = a.tail
      /\ b.next = a.next
      /\ b.prev = (IF l.head # Null THEN [a.prev EXCEPT ![l.head] = k] ELSE a.prev)
  BY <1>0, <1>2 DEF LRUType
<1> HIDE DEF b
<1>4. /\ LRUType(c) /\ c.map = b.map /\ c.size = b.size /\ c.next = b.next /\ c.prev = b.prev
      /\ c.head = k /\ c.tail = (IF l.tail = Null THEN k ELSE l.tail)
  BY <1>0, <1>2, <1>3 DEF LRUType
<1> HIDE DEF c
<1>5. /\ LRUType(d) /\ d.map = c.map /\ d.size = l.size + 1 /\ d.next = c.next /\ d.prev = c.prev
      /\ d.head = c.head /\ d.tail = c.tail
  BY <1>2, <1>3, <1>4 DEF LRUType
<1> HIDE DEF d
<1>6. /\ LRUType(h) /\ h.map = [d.map EXCEPT ![k] = v] /\ h.size = d.size /\ h.next = d.next
      /\ h.prev = d.prev /\ h.head = d.head /\ h.tail = d.tail
  BY <1>5 DEF LRUType
<1> HIDE DEF h
<1>7. \A q \in Keys : h.prev[q] = IF l.head # Null /\ q = l.head THEN k
                                   ELSE IF q = k THEN Null ELSE l.prev[q]
  <2>1. h.prev = b.prev /\ l.prev \in [Keys -> Keys \union {Null}]
    BY <1>4, <1>5, <1>6 DEF LRUType
  <2> QED BY <1>0, <1>2, <1>3, <2>1
<1>8. h.map = [l.map EXCEPT ![k] = v] /\ h.next = [l.next EXCEPT ![k] = l.head]
  BY <1>2, <1>3, <1>4, <1>5, <1>6
<1> QED BY <1>1, <1>4, <1>5, <1>6, <1>7, <1>8

LEMMA AtHeadChain ==
  ASSUME NEW l, LRUType(l), NEW s, Chain(l, s),
         NEW k \in Keys, l.map[k] = Null, NEW v \in Values
  PROVE  /\ LRUType(AtHead(l, k, v)) /\ Chain(AtHead(l, k, v), Pushed(k, s))
         /\ AtHead(l, k, v).map = [l.map EXCEPT ![k] = v]
<1> DEFINE N == Len(s)
           t == Pushed(k, s)
<1>1. PICK h : h = AtHead(l, k, v)
  OBVIOUS
<1>2. /\ LRUType(h)
      /\ h.map = [l.map EXCEPT ![k] = v] /\ h.size = l.size + 1 /\ h.head = k
      /\ h.tail = IF l.tail = Null THEN k ELSE l.tail
      /\ h.next = [l.next EXCEPT ![k] = l.head]
      /\ \A q \in Keys : h.prev[q] = IF l.head # Null /\ q = l.head THEN k
                                      ELSE IF q = k THEN Null ELSE l.prev[q]
  BY <1>1, AtHeadFields
<1>3. s \in Seq(Keys) /\ N \in Nat /\ l.size = N
  BY LenProperties DEF Chain
<1>4. \A i \in 1 .. N : s[i] \in Keys /\ s[i] # Null
  BY <1>3, ElementOfSeq, LimitAssumption
<1>5. \A i, m \in 1 .. N : s[i] = s[m] => i = m
  BY DEF Chain, Once
<1>6. /\ l.head = (IF N = 0 THEN Null ELSE s[1]) /\ l.tail = (IF N = 0 THEN Null ELSE s[N])
      /\ \A i \in 1 .. N : l.next[s[i]] = IF i = N THEN Null ELSE s[i + 1]
      /\ \A i \in 1 .. N : l.prev[s[i]] = IF i = 1 THEN Null ELSE s[i - 1]
      /\ \A q \in Keys : l.map[q] # Null <=> \E i \in 1 .. N : s[i] = q
  BY DEF Chain
<1>7. \A i \in 1 .. N : s[i] # k
  BY <1>6
<1>8. /\ t \in Seq(Keys) /\ Len(t) = N + 1
      /\ \A i \in 1 .. N + 1 : t[i] = IF i = 1 THEN k ELSE s[i - 1]
  <2>1. t \in Seq(Keys) /\ Len(t) = N + 1
    BY <1>3, PushedProperties, SMTT(30), ZenonT(30)
  <2>2. \A i \in 1 .. N + 1 : t[i] = IF i = 1 THEN k ELSE s[i - 1]
    BY DEF Pushed
  <2> QED BY <2>1, <2>2
<1>9. /\ l.next \in [Keys -> Keys \union {Null}] /\ l.map \in [Keys -> Values \union {Null}]
      /\ v # Null /\ k # Null
  BY LimitAssumption DEF LRUType
<1> HIDE DEF N, t
<1>10. Once(t)
  <2> SUFFICES ASSUME NEW i \in 1 .. N + 1, NEW m \in 1 .. N + 1, t[i] = t[m] PROVE i = m
    BY <1>8 DEF Once
  <2>1. i # 1 => i - 1 \in 1 .. N /\ t[i] = s[i - 1]
    BY <1>3, <1>8
  <2>2. m # 1 => m - 1 \in 1 .. N /\ t[m] = s[m - 1]
    BY <1>3, <1>8
  <2>3. (i = 1 => t[i] = k) /\ (m = 1 => t[m] = k)
    BY <1>8
  <2>4. i # 1 /\ m # 1 => i - 1 = m - 1
    BY <1>5, <2>1, <2>2
  <2> QED BY <1>3, <1>7, <2>1, <2>2, <2>3, <2>4
<1>11. \A q \in Keys : h.map[q] # Null <=> \E i \in 1 .. N + 1 : t[i] = q
  <2> SUFFICES ASSUME NEW q \in Keys PROVE h.map[q] # Null <=> \E i \in 1 .. N + 1 : t[i] = q
    OBVIOUS
  <2>1. h.map[q] # Null <=> q = k \/ \E i \in 1 .. N : s[i] = q
    BY <1>2, <1>6, <1>9
  <2>2. 1 \in 1 .. N + 1 /\ t[1] = k
    BY <1>3, <1>8
  <2>3. ASSUME NEW i \in 1 .. N, s[i] = q PROVE \E m \in 1 .. N + 1 : t[m] = q
    <3>1. i + 1 \in 1 .. N + 1 /\ i + 1 # 1 /\ (i + 1) - 1 = i
      BY <1>3
    <3>2. t[i + 1] = s[i]
      BY <1>8, <3>1
    <3> QED BY <2>3, <3>1, <3>2
  <2>4. ASSUME NEW i \in 1 .. N + 1, t[i] = q PROVE q = k \/ \E m \in 1 .. N : s[m] = q
    <3>1. i # 1 => i - 1 \in 1 .. N /\ t[i] = s[i - 1]
      BY <1>3, <1>8
    <3> QED BY <2>2, <2>4, <3>1
  <2> QED BY <2>1, <2>2, <2>3, <2>4
<1>12. h.head = t[1] /\ N + 1 # 0 /\ h.size = N + 1
  BY <1>2, <1>3, <1>8
<1>13. h.tail = t[N + 1]
  <2>1. CASE N = 0
    BY <1>2, <1>3, <1>6, <1>8, <2>1
  <2>2. CASE N # 0
    <3>1. N \in 1 .. N /\ N + 1 \in 1 .. N + 1 /\ N + 1 # 1 /\ (N + 1) - 1 = N
      BY <1>3, <2>2
    <3> QED BY <1>2, <1>4, <1>6, <1>8, <2>2, <3>1
  <2> QED BY <2>1, <2>2
<1>14. \A i \in 1 .. N + 1 : h.next[t[i]] = IF i = N + 1 THEN Null ELSE t[i + 1]
  <2> SUFFICES ASSUME NEW i \in 1 .. N + 1
               PROVE  h.next[t[i]] = IF i = N + 1 THEN Null ELSE t[i + 1]
    OBVIOUS
  <2>1. CASE i = 1
    <3>1. h.next[t[i]] = l.head
      BY <1>2, <1>3, <1>8, <1>9, <2>1
    <3>2. N # 0 => 2 \in 1 .. N + 1
      BY <1>3
    <3>3. N # 0 => t[2] = s[1]
      BY <1>8, <3>2
    <3> QED BY <1>3, <1>6, <2>1, <3>1, <3>3
  <2>2. CASE i # 1
    <3>1. i - 1 \in 1 .. N /\ t[i] = s[i - 1] /\ (i - 1) + 1 = i
      BY <1>3, <1>8, <2>2
    <3>2. h.next[t[i]] = l.next[s[i - 1]]
      BY <1>2, <1>4, <1>7, <1>9, <3>1
    <3>3. l.next[s[i - 1]] = IF i - 1 = N THEN Null ELSE s[i]
      BY <1>6, <3>1
    <3>4. i # N + 1 => i + 1 \in 1 .. N + 1 /\ i + 1 # 1 /\ (i + 1) - 1 = i
      BY <1>3
    <3>5. i # N + 1 => t[i + 1] = s[i]
      BY <1>8, <3>4
    <3> QED BY <1>3, <3>1, <3>2, <3>3, <3>5
  <2> QED BY <2>1, <2>2
<1>15. \A i \in 1 .. N + 1 : h.prev[t[i]] = IF i = 1 THEN Null ELSE t[i - 1]
  <2> SUFFICES ASSUME NEW i \in 1 .. N + 1
               PROVE  h.prev[t[i]] = IF i = 1 THEN Null ELSE t[i - 1]
    OBVIOUS
  <2>1. CASE i = 1
    <3>1. t[i] = k
      BY <1>8, <2>1
    <3>2. l.head # k
      BY <1>3, <1>6, <1>7, <1>9
    <3> QED BY <1>2, <2>1, <3>1, <3>2
  <2>2. CASE i = 2
    <3>1. t[i] = s[1] /\ N # 0 /\ 1 \in 1 .. N /\ t[i - 1] = k
      BY <1>3, <1>8, <2>2
    <3>2. l.head = s[1] /\ l.head # Null
      BY <1>4, <1>6, <3>1
    <3> QED BY <1>2, <1>4, <2>2, <3>1, <3>2
  <2>3. CASE i # 1 /\ i # 2
    <3>1. /\ i - 1 \in 1 .. N /\ i - 1 # 1 /\ 1 \in 1 .. N /\ t[i] = s[i - 1]
          /\ i - 1 \in 1 .. N + 1 /\ (i - 1) - 1 = i - 2
      BY <1>3, <1>8, <2>3
    <3>2. t[i - 1] = s[i - 2]
      BY <1>8, <3>1
    <3>3. s[i - 1] # s[1] /\ s[i - 1] # k /\ s[i - 1] \in Keys
      BY <1>4, <1>5, <1>7, <3>1
    <3>4. h.prev[s[i - 1]] = l.prev[s[i - 1]]
      BY <1>2, <1>6, <3>1, <3>3
    <3>5. l.prev[s[i - 1]] = s[i - 2]
      BY <1>6, <3>1
    <3> QED BY <2>3, <3>1, <3>2, <3>4, <3>5
  <2> QED BY <2>1, <2>2, <2>3
<1>16. Chain(h, t)
  BY <1>8, <1>10, <1>11, <1>12, <1>13, <1>14, <1>15 DEF Chain
<1> QED BY <1>1, <1>2, <1>16 DEF t

LEMMA EvictedChain ==
  ASSUME LRUType(lru), NEW s, Chain(lru, s), Len(s) # 0, NewTail # Null
  PROVE  /\ LRUType(Evicted) /\ Chain(Evicted, Without(s, Len(s)))
         /\ Evicted.map = [lru.map EXCEPT ![s[Len(s)]] = Null]
<1> DEFINE N == Len(s)
           t == Without(s, N)
<1>1. s \in Seq(Keys) /\ N \in Nat /\ N \in 1 .. N /\ lru.size = N
  BY LenProperties DEF Chain
<1>2. \A i \in 1 .. N : s[i] \in Keys /\ s[i] # Null
  BY <1>1, ElementOfSeq, LimitAssumption
<1>3. \A i, m \in 1 .. N : s[i] = s[m] => i = m
  BY DEF Chain, Once
<1>4. /\ lru.head = s[1] /\ lru.tail = s[N]
      /\ \A i \in 1 .. N : lru.next[s[i]] = IF i = N THEN Null ELSE s[i + 1]
      /\ \A i \in 1 .. N : lru.prev[s[i]] = IF i = 1 THEN Null ELSE s[i - 1]
      /\ \A q \in Keys : lru.map[q] # Null <=> \E i \in 1 .. N : s[i] = q
  BY <1>1 DEF Chain
<1>5. N # 1 /\ NewTail = s[N - 1] /\ N - 1 \in 1 .. N /\ 1 \in 1 .. N - 1 /\ N - 1 \in 1 .. N - 1
  <2>1. NewTail = IF N = 1 THEN Null ELSE s[N - 1]
    BY <1>1, <1>4 DEF NewTail
  <2>2. N # 1
    BY <2>1
  <2> HIDE DEF N
  <2> QED BY <1>1, <2>1, <2>2
<1>6. /\ t \in Seq(Keys) /\ Len(t) = N - 1
      /\ \A i \in 1 .. N - 1 : t[i] = s[i]
  <2>1. \A i \in 1 .. N - 1 : t[i] = IF i < N THEN s[i] ELSE s[i + 1]
    BY <1>1, WithoutProperties
  <2> QED BY <1>1, <2>1, WithoutProperties
<1> HIDE DEF N, t
<1> DEFINE a == [lru EXCEPT !.map[s[N]] = Null]
           b == [a EXCEPT !.size = @ - 1]
           c == [b EXCEPT !.tail = s[N - 1]]
           d == [c EXCEPT !.next[s[N - 1]] = Null]
<1>7. Evicted = d
  BY <1>4, <1>5 DEF Evicted, LRUType
<1>8. /\ LRUType(a) /\ a.map = [lru.map EXCEPT ![s[N]] = Null] /\ a.size = N /\ a.prev = lru.prev
      /\ a.next = lru.next /\ a.head = lru.head
  BY <1>1, <1>2 DEF LRUType
<1> HIDE DEF a
<1>9. /\ LRUType(b) /\ b.map = a.map /\ b.size = N - 1 /\ b.prev = a.prev
      /\ b.next = a.next /\ b.head = a.head
  <2>1. b = [a EXCEPT !.size = N - 1] /\ N - 1 \in Nat
    BY <1>1, <1>8
  <2> HIDE DEF b
  <2> QED BY <1>8, <2>1 DEF LRUType
<1> HIDE DEF b
<1>10. /\ LRUType(c) /\ c.map = b.map /\ c.size = b.size /\ c.prev = b.prev
       /\ c.next = b.next /\ c.head = b.head /\ c.tail = s[N - 1]
  BY <1>2, <1>5, <1>9 DEF LRUType
<1> HIDE DEF c
<1>11. /\ LRUType(d) /\ d.map = c.map /\ d.size = c.size /\ d.prev = c.prev
       /\ d.next = [c.next EXCEPT ![s[N - 1]] = Null] /\ d.head = c.head /\ d.tail = c.tail
  BY <1>2, <1>5, <1>10 DEF LRUType
<1> HIDE DEF d
<1>12. /\ d.map = [lru.map EXCEPT ![s[N]] = Null] /\ d.size = N - 1 /\ d.prev = lru.prev
       /\ d.next = [lru.next EXCEPT ![s[N - 1]] = Null] /\ d.head = s[1] /\ d.tail = s[N - 1]
  BY <1>4, <1>8, <1>9, <1>10, <1>11
<1>13. Once(t)
  BY <1>1, <1>3, <1>6 DEF Once
<1>14. \A q \in Keys : d.map[q] # Null <=> \E i \in 1 .. N - 1 : t[i] = q
  <2> SUFFICES ASSUME NEW q \in Keys PROVE d.map[q] # Null <=> \E i \in 1 .. N - 1 : t[i] = q
    OBVIOUS
  <2>1. d.map[q] # Null <=> q # s[N] /\ \E i \in 1 .. N : s[i] = q
    BY <1>4, <1>12 DEF LRUType
  <2>2. ASSUME NEW i \in 1 .. N, s[i] = q, q # s[N] PROVE \E m \in 1 .. N - 1 : t[m] = q
    <3>1. i \in 1 .. N - 1
      BY <1>1, <2>2
    <3> QED BY <1>6, <2>2, <3>1
  <2>3. ASSUME NEW i \in 1 .. N - 1, t[i] = q PROVE q # s[N] /\ \E m \in 1 .. N : s[m] = q
    <3>1. i \in 1 .. N /\ i # N
      BY <1>1
    <3> QED BY <1>1, <1>3, <1>6, <2>3, <3>1
  <2> QED BY <2>1, <2>2, <2>3
<1>15. N - 1 # 0 /\ d.head = t[1] /\ d.tail = t[N - 1]
  BY <1>1, <1>5, <1>6, <1>12
<1>16. \A i \in 1 .. N - 1 : d.next[t[i]] = IF i = N - 1 THEN Null ELSE t[i + 1]
  <2> SUFFICES ASSUME NEW i \in 1 .. N - 1 PROVE d.next[t[i]] = IF i = N - 1 THEN Null ELSE t[i + 1]
    OBVIOUS
  <2>1. t[i] = s[i] /\ i \in 1 .. N /\ i # N /\ s[i] \in Keys /\ lru.next \in [Keys -> Keys \union {Null}]
    BY <1>1, <1>2, <1>6 DEF LRUType
  <2>2. CASE i = N - 1
    BY <1>12, <2>1, <2>2
  <2>3. CASE i # N - 1
    <3>1. s[i] # s[N - 1] /\ i + 1 \in 1 .. N - 1
      BY <1>1, <1>3, <1>5, <2>1, <2>3
    <3>2. t[i + 1] = s[i + 1]
      BY <1>6, <3>1
    <3> QED BY <1>4, <1>12, <2>1, <2>3, <3>1, <3>2
  <2> QED BY <2>2, <2>3
<1>17. \A i \in 1 .. N - 1 : d.prev[t[i]] = IF i = 1 THEN Null ELSE t[i - 1]
  <2> SUFFICES ASSUME NEW i \in 1 .. N - 1 PROVE d.prev[t[i]] = IF i = 1 THEN Null ELSE t[i - 1]
    OBVIOUS
  <2>1. t[i] = s[i] /\ i \in 1 .. N
    BY <1>1, <1>6
  <2>2. i # 1 => i - 1 \in 1 .. N - 1
    BY <1>1
  <2> QED BY <1>4, <1>6, <1>12, <2>1, <2>2
<1>18. Chain(d, t)
  BY <1>6, <1>12, <1>13, <1>14, <1>15, <1>16, <1>17 DEF Chain
<1> QED BY <1>7, <1>11, <1>12, <1>18 DEF N, t

----------------------------------------------------------------------------
(* The list is the map. *)

LEMMA ChainIsOrder ==
  ASSUME NEW s, Chain(lru, s)
  PROVE  /\ s \in SetToSeqs(CachedKeys) /\ IsForward(s) /\ IsBackward(s)
         /\ Cardinality(CachedKeys) = Len(s)
<1> DEFINE N == Len(s)
<1>1. s \in Seq(Keys) /\ N \in Nat
  BY LenProperties DEF Chain
<1>2. CachedKeys = {s[i] : i \in 1 .. N}
  <2>1. \A k \in Keys : lru.map[k] # Null <=> \E i \in 1 .. N : s[i] = k
    BY DEF Chain
  <2>2. \A i \in 1 .. N : s[i] \in Keys
    BY <1>1, ElementOfSeq
  <2> HIDE DEF N
  <2> QED BY <2>1, <2>2 DEF CachedKeys, Cached
<1>3. s \in [1 .. N -> CachedKeys]
  <2>1. s = [i \in 1 .. N |-> s[i]]
    BY <1>1
  <2> HIDE DEF N
  <2> QED BY <1>2, <2>1
<1>4. \A i, j \in 1 .. N : s[i] = s[j] => i = j
  BY DEF Chain, Once
<1>5. IsFiniteSet(1 .. N) /\ Cardinality(1 .. N) = N
  BY <1>1, FS_Interval, SMTT(30), ZenonT(30)
<1>6. ExistsBijection(1 .. N, CachedKeys)
  <2>1. s \in Injection(1 .. N, CachedKeys)
    BY <1>3, <1>4 DEF Injection, IsInjective
  <2>2. s \in Surjection(1 .. N, CachedKeys)
    BY <1>2, <1>3 DEF Surjection
  <2> QED BY <2>1, <2>2 DEF ExistsBijection, Bijection
<1>7. Cardinality(CachedKeys) = N
  BY <1>5, <1>6, FS_Bijection
<1>8. s \in SetToSeqs(CachedKeys)
  BY <1>3, <1>4, <1>7 DEF SetToSeqs
<1>9. (s = <<>> <=> N = 0) /\ (N # 0 => Head(s) = s[1] /\ Last(s) = s[N]) /\ DOMAIN s = 1 .. N
  BY <1>1, EmptySeq DEF Last
<1>10. IsForward(s)
  BY <1>9 DEF Chain, IsForward
<1>11. IsBackward(s)
  BY <1>9 DEF Chain, IsBackward
<1> QED BY <1>7, <1>8, <1>10, <1>11

(* s is the only way from the head. *)
LEMMA OneOrder ==
  ASSUME NEW s, Chain(lru, s), NEW t \in SetToSeqs(CachedKeys), IsForward(t)
  PROVE  t = s
<1> DEFINE N == Len(s)
<1>1. s \in Seq(Keys) /\ N \in Nat /\ Cardinality(CachedKeys) = N
  BY ChainIsOrder, LenProperties DEF Chain
<1>2. t \in [1 .. N -> CachedKeys]
  BY <1>1 DEF SetToSeqs
<1>3. t \in Seq(CachedKeys) /\ Len(t) = N /\ DOMAIN t = 1 .. N
  BY <1>1, <1>2
<1>4. /\ lru.head = (IF N = 0 THEN Null ELSE s[1])
      /\ \A i \in 1 .. N : lru.next[s[i]] = IF i = N THEN Null ELSE s[i + 1]
  BY DEF Chain
<1>5. N # 0 => t[1] = s[1]
  BY <1>1, <1>3, <1>4, EmptySeq DEF IsForward
<1>6. \A i \in 1 .. N : lru.next[t[i]] = IF i = N THEN Null ELSE t[i + 1]
  BY <1>3 DEF IsForward
<1> HIDE DEF N
<1>7. ASSUME NEW y \in 1 .. N, t[y] # s[y] PROVE FALSE
  <2> DEFINE bad == {i \in 1 .. N : t[i] # s[i]}
  <2>1. bad \subseteq Nat /\ bad # {}
    BY <1>1, <1>7
  <2>2. PICK x \in bad : \A z \in bad : x <= z
    BY <2>1, LeastElement
  <2>3. x # 1 /\ x \in 1 .. N
    BY <1>5, <2>2
  <2>4. x - 1 \in 1 .. N /\ x - 1 # N /\ (x - 1) + 1 = x /\ ~ (x <= x - 1)
    BY <1>1, <2>3
  <2>5. t[x - 1] = s[x - 1]
    BY <2>2, <2>4
  <2>6. lru.next[t[x - 1]] = t[x] /\ lru.next[s[x - 1]] = s[x]
    BY <1>4, <1>6, <2>4
  <2> QED BY <2>2, <2>5, <2>6
<1>8. \A i \in 1 .. N : t[i] = s[i]
  BY <1>7
<1> QED BY <1>1, <1>2, <1>8 DEF N

Pairs(l, s) == [i \in 1 .. Len(s) |-> <<s[i], l.map[s[i]]>>]

LEMMA EntriesOfChain == \A s : Chain(lru, s) => Entries = Pairs(lru, s)
<1> SUFFICES ASSUME NEW s, Chain(lru, s) PROVE Entries = Pairs(lru, s)
  OBVIOUS
<1> DEFINE t == CHOOSE t \in SetToSeqs(CachedKeys) : IsForward(t)
<1>1. t \in SetToSeqs(CachedKeys) /\ IsForward(t)
  BY ChainIsOrder
<1>2. t = s
  BY <1>1, OneOrder
<1>3. DOMAIN s = 1 .. Len(s)
  BY DEF Chain
<1>4. Entries = [i \in DOMAIN t |-> <<t[i], lru.map[t[i]]>>]
  BY Zenon DEF Entries
<1> HIDE DEF t
<1> QED BY <1>2, <1>3, <1>4 DEF Pairs

----------------------------------------------------------------------------
(* The steps of the cache, on the pairs *)

LEMMA PairsProperties ==
  ASSUME NEW l, LRUType(l), NEW s, s \in Seq(Keys)
  PROVE  /\ Pairs(l, s) \in Seq(Keys \X (Values \union {Null}))
         /\ Len(Pairs(l, s)) = Len(s) /\ DOMAIN Pairs(l, s) = 1 .. Len(s)
         /\ \A i \in 1 .. Len(s) : Pairs(l, s)[i] = <<s[i], l.map[s[i]]>>
<1>1. Len(s) \in Nat
  BY LenProperties
<1>2. \A i \in 1 .. Len(s) : <<s[i], l.map[s[i]]>> \in Keys \X (Values \union {Null})
  BY ElementOfSeq DEF LRUType
<1>3. Pairs(l, s) \in Seq(Keys \X (Values \union {Null}))
  BY <1>1, <1>2, IsASeq DEF Pairs
<1> QED BY <1>1, <1>3 DEF Pairs

HasIn(e, k) == \E i \in DOMAIN e : e[i][1] = k
PlaceIn(e, k) == CHOOSE i \in DOMAIN e : e[i][1] = k
OthersIn(e, k) == RemoveAt(e, PlaceIn(e, k))

LEMMA PairsPlace ==
  ASSUME NEW l, LRUType(l), NEW s, Chain(l, s), NEW j \in 1 .. Len(s)
  PROVE  HasIn(Pairs(l, s), s[j]) /\ PlaceIn(Pairs(l, s), s[j]) = j
<1>1. s \in Seq(Keys) /\ \A i \in 1 .. Len(s) : s[i] = s[j] => i = j
  BY DEF Chain, Once
<1>2. DOMAIN Pairs(l, s) = 1 .. Len(s) /\ \A i \in 1 .. Len(s) : Pairs(l, s)[i][1] = s[i]
  BY <1>1, PairsProperties
<1> QED BY <1>1, <1>2 DEF HasIn, PlaceIn

LEMMA PairsMissing ==
  ASSUME NEW l, LRUType(l), NEW s, Chain(l, s), NEW k \in Keys, l.map[k] = Null
  PROVE  ~ HasIn(Pairs(l, s), k)
<1>1. s \in Seq(Keys) /\ \A i \in 1 .. Len(s) : s[i] # k
  BY DEF Chain
<1>2. DOMAIN Pairs(l, s) = 1 .. Len(s) /\ \A i \in 1 .. Len(s) : Pairs(l, s)[i][1] = s[i]
  BY <1>1, PairsProperties
<1> QED BY <1>1, <1>2 DEF HasIn, PlaceIn

LEMMA PairsWithout ==
  ASSUME NEW l, LRUType(l), NEW s, Chain(l, s), NEW j \in 1 .. Len(s),
         NEW m, LRUType(m), m.map = [l.map EXCEPT ![s[j]] = Null]
  PROVE  Without(Pairs(l, s), j) = Pairs(m, Without(s, j))
<1> DEFINE N == Len(s)
           t == Without(s, j)
           e == Pairs(l, s)
<1>1. s \in Seq(Keys) /\ N \in Nat
  BY LenProperties DEF Chain
<1>2. \A i, h \in 1 .. N : s[i] = s[h] => i = h
  BY DEF Chain, Once
<1>3. t \in Seq(Keys) /\ Len(t) = N - 1
  BY <1>1, WithoutProperties
<1>4. \A i \in 1 .. N - 1 : t[i] = s[IF i < j THEN i ELSE i + 1]
  BY DEF Without
<1>5. Len(e) = N /\ \A i \in 1 .. N : e[i] = <<s[i], l.map[s[i]]>>
  BY <1>1, PairsProperties
<1>6. \A i \in 1 .. N : s[i] \in Keys
  BY <1>1, ElementOfSeq
<1>7. l.map \in [Keys -> Values \union {Null}]
  BY DEF LRUType
<1> HIDE DEF N, t, e
<1>8. \A i \in 1 .. N - 1 : (IF i < j THEN e[i] ELSE e[i + 1]) = <<t[i], m.map[t[i]]>>
  <2> SUFFICES ASSUME NEW i \in 1 .. N - 1
               PROVE  (IF i < j THEN e[i] ELSE e[i + 1]) = <<t[i], m.map[t[i]]>>
    OBVIOUS
  <2>1. PICK h \in 1 .. N : h = (IF i < j THEN i ELSE i + 1) /\ h # j
    BY <1>1
  <2>2. t[i] = s[h] /\ (IF i < j THEN e[i] ELSE e[i + 1]) = e[h]
    BY <1>4, <2>1
  <2>3. s[h] # s[j]
    BY <1>2, <2>1 DEF N
  <2>4. m.map[s[h]] = l.map[s[h]]
    BY <1>6, <1>7, <2>3
  <2> QED BY <1>5, <2>1, <2>2, <2>4
<1>9. Without(e, j) = [i \in 1 .. N - 1 |-> IF i < j THEN e[i] ELSE e[i + 1]]
  BY <1>5 DEF Without
<1>10. Pairs(m, t) = [i \in 1 .. N - 1 |-> <<t[i], m.map[t[i]]>>]
  BY <1>3 DEF Pairs
<1> QED BY <1>8, <1>9, <1>10 DEF e, t

LEMMA PairsPushed ==
  ASSUME NEW l, LRUType(l), NEW s, Chain(l, s), NEW k \in Keys, l.map[k] = Null,
         NEW m, NEW v \in Values, m.map = [l.map EXCEPT ![k] = v]
  PROVE  << <<k, v>> >> \o Pairs(l, s) = Pairs(m, Pushed(k, s))
<1> DEFINE N == Len(s)
           t == Pushed(k, s)
           e == Pairs(l, s)
<1>1. s \in Seq(Keys) /\ N \in Nat
  BY LenProperties DEF Chain
<1>2. t \in Seq(Keys) /\ Len(t) = N + 1
  BY <1>1, PushedProperties
<1>3. \A i \in 1 .. N + 1 : t[i] = IF i = 1 THEN k ELSE s[i - 1]
  BY DEF Pushed
<1>4. /\ e \in Seq(Keys \X (Values \union {Null})) /\ Len(e) = N
      /\ \A i \in 1 .. N : e[i] = <<s[i], l.map[s[i]]>>
  BY <1>1, PairsProperties
<1>5. \A i \in 1 .. N : s[i] \in Keys /\ s[i] # k
  BY <1>1, ElementOfSeq DEF Chain
<1>6. l.map \in [Keys -> Values \union {Null}]
  BY DEF LRUType
<1> HIDE DEF N, t, e
<1>7. << <<k, v>> >> \o e = Pushed(<<k, v>>, e)
  <2> DEFINE S == Keys \X (Values \union {Null})
  <2>1. PICK p : p = <<k, v>>
    OBVIOUS
  <2>2. p \in S /\ e \in Seq(S)
    BY <1>4, <2>1
  <2>3. <<p>> \o e = Pushed(p, e)
    <3> HIDE DEF S
    <3> QED BY <2>2, PushedProperties
  <2> QED BY <2>1, <2>3
<1>8. Pushed(<<k, v>>, e) = [i \in 1 .. N + 1 |-> IF i = 1 THEN <<k, v>> ELSE e[i - 1]]
  BY <1>4 DEF Pushed
<1>9. Pairs(m, t) = [i \in 1 .. N + 1 |-> <<t[i], m.map[t[i]]>>]
  BY <1>2 DEF Pairs
<1>10. \A i \in 1 .. N + 1 : (IF i = 1 THEN <<k, v>> ELSE e[i - 1]) = <<t[i], m.map[t[i]]>>
  <2> SUFFICES ASSUME NEW i \in 1 .. N + 1
               PROVE  (IF i = 1 THEN <<k, v>> ELSE e[i - 1]) = <<t[i], m.map[t[i]]>>
    OBVIOUS
  <2>1. CASE i = 1
    BY <1>3, <1>6, <2>1
  <2>2. CASE i # 1
    <3>1. i - 1 \in 1 .. N
      BY <1>1, <2>2
    <3>2. t[i] = s[i - 1] /\ e[i - 1] = <<s[i - 1], l.map[s[i - 1]]>>
      BY <1>3, <1>4, <2>2, <3>1
    <3>3. m.map[s[i - 1]] = l.map[s[i - 1]]
      BY <1>5, <1>6, <3>1
    <3> QED BY <2>2, <3>2, <3>3
  <2> QED BY <2>1, <2>2
<1> QED BY <1>7, <1>8, <1>9, <1>10 DEF e, t

(* A step of RecencyCache, from the entries e to f *)
Remembers(e, f) ==
  \/ f = e \/ f = <<>>
  \/ \E k \in Keys :
       \/ HasIn(e, k) /\ f = <<e[PlaceIn(e, k)]>> \o OthersIn(e, k)
       \/ HasIn(e, k) /\ f = OthersIn(e, k)
       \/ \E v \in Values :
            f = << <<k, v>> >> \o
                  (IF HasIn(e, k) THEN OthersIn(e, k)
                   ELSE IF Len(e) >= Limit THEN Front(e) ELSE e)

(* l, with the nodes t, is a cache that came of lru, with the nodes s.      *)
Follows(s, l, t) ==
  /\ LRUType(l) /\ Chain(l, t) /\ l.size <= Limit
  /\ Remembers(Pairs(lru, s), Pairs(l, t))

LEMMA CachedNode ==
  ASSUME NEW s, Chain(lru, s), NEW k \in Keys, Cached(k)
  PROVE  \E j \in 1 .. Len(s) : s[j] = k
BY DEF Chain, Cached

(* A node taken off: the list without it, and the pairs *)
LEMMA TakenOff ==
  ASSUME LRUType(lru), lru.size <= Limit, NEW s, Chain(lru, s), NEW j \in 1 .. Len(s),
         NEW u, u = Unlinked(lru, s[j])
  PROVE  /\ LRUType(u) /\ Chain(u, Without(s, j)) /\ u.map = [lru.map EXCEPT ![s[j]] = Null]
         /\ u.size + 1 <= Limit
         /\ s[j] \in Keys /\ u.map[s[j]] = Null
         /\ HasIn(Pairs(lru, s), s[j]) /\ PlaceIn(Pairs(lru, s), s[j]) = j
         /\ OthersIn(Pairs(lru, s), s[j]) = Pairs(u, Without(s, j))
<1> DEFINE e == Pairs(lru, s)
           S == Keys \X (Values \union {Null})
<1>1. /\ LRUType(u) /\ Chain(u, Without(s, j)) /\ u.map = [lru.map EXCEPT ![s[j]] = Null]
  BY UnlinkedChain
<1>2. s \in Seq(Keys) /\ Len(s) \in Nat /\ s[j] \in Keys /\ lru.size = Len(s)
  BY LenProperties, ElementOfSeq DEF Chain
<1>3. u.map[s[j]] = Null
  BY <1>1, <1>2 DEF LRUType
<1>4. u.size + 1 <= Limit
  <2>1. u.size = Len(Without(s, j)) /\ Len(Without(s, j)) = Len(s) - 1
    BY <1>1, <1>2, WithoutProperties DEF Chain
  <2> QED BY <1>2, <2>1
<1>5. HasIn(e, s[j]) /\ PlaceIn(e, s[j]) = j
  BY PairsPlace
<1>6. e \in Seq(S) /\ Len(e) = Len(s)
  BY <1>2, PairsProperties
<1>7. Without(e, j) = Pairs(u, Without(s, j))
  BY <1>1, PairsWithout
<1>8. RemoveAt(e, j) = Without(e, j)
  <2> HIDE DEF e, S
  <2> QED BY <1>6, WithoutProperties
<1> QED BY <1>1, <1>2, <1>3, <1>4, <1>5, <1>7, <1>8 DEF OthersIn

LEMMA DeleteFollows ==
  ASSUME LRUType(lru), lru.size <= Limit, NEW s, Chain(lru, s), NEW k \in Keys, Cached(k),
         NEW l, l = Unlinked(lru, k)
  PROVE  \E t : Follows(s, l, t)
<1>1. PICK j \in 1 .. Len(s) : s[j] = k
  BY CachedNode
<1> DEFINE t == Without(s, j)
<1>2. /\ LRUType(l) /\ Chain(l, t) /\ l.size + 1 <= Limit
      /\ HasIn(Pairs(lru, s), k) /\ OthersIn(Pairs(lru, s), k) = Pairs(l, t)
  BY <1>1, TakenOff
<1>3. l.size <= Limit
  BY <1>2, LimitAssumption DEF LRUType
<1> HIDE DEF t
<1> QED BY <1>2, <1>3 DEF Follows, Remembers

LEMMA GetFollows ==
  ASSUME LRUType(lru), lru.size <= Limit, NEW s, Chain(lru, s), NEW k \in Keys, Cached(k),
         NEW l, l = AtHead(Unlinked(lru, k), k, lru.map[k])
  PROVE  \E t : Follows(s, l, t)
<1>1. PICK j \in 1 .. Len(s) : s[j] = k
  BY CachedNode
<1>2. PICK u : u = Unlinked(lru, k)
  OBVIOUS
<1>3. PICK v : v = lru.map[k]
  OBVIOUS
<1>4. v \in Values
  BY <1>3 DEF Cached, LRUType
<1> DEFINE r == Without(s, j)
           e == Pairs(lru, s)
<1>5. /\ LRUType(u) /\ Chain(u, r) /\ u.size + 1 <= Limit /\ u.map[k] = Null
      /\ HasIn(e, k) /\ PlaceIn(e, k) = j /\ OthersIn(e, k) = Pairs(u, r)
  BY <1>1, <1>2, TakenOff, SMTT(30), ZenonT(30)
<1>6. e[j] = <<k, v>>
  BY <1>1, <1>3, PairsProperties DEF Chain
<1> HIDE DEF r, e
<1> DEFINE t == Pushed(k, r)
<1>7. /\ LRUType(l) /\ Chain(l, t) /\ l.map = [u.map EXCEPT ![k] = v]
  BY <1>2, <1>3, <1>4, <1>5, AtHeadChain
<1>8. << <<k, v>> >> \o Pairs(u, r) = Pairs(l, t)
  BY <1>4, <1>5, <1>7, PairsPushed
<1>9. l.size <= Limit
  <2>1. r \in Seq(Keys) /\ u.size = Len(r) /\ l.size = Len(t)
    BY <1>5, <1>7 DEF Chain
  <2>2. Len(t) = Len(r) + 1
    BY <2>1, PushedProperties, SMTT(30), ZenonT(30)
  <2> QED BY <1>5, <2>1, <2>2
<1> HIDE DEF t
<1>10. Remembers(e, Pairs(l, t))
  BY <1>5, <1>6, <1>8 DEF Remembers
<1> QED BY <1>7, <1>9, <1>10 DEF Follows, e

LEMMA SetFollows ==
  ASSUME LRUType(lru), lru.size <= Limit, NEW s, Chain(lru, s), NEW k \in Keys, NEW v \in Values,
         Evicting(k) => NewTail # Null,
         NEW l, l = AtHead(IF Cached(k) THEN Unlinked(lru, k)
                           ELSE IF Evicting(k) THEN Evicted ELSE lru, k, v)
  PROVE  \E t : Follows(s, l, t)
<1> DEFINE e == Pairs(lru, s)
           rest == IF HasIn(e, k) THEN OthersIn(e, k)
                   ELSE IF Len(e) >= Limit THEN Front(e) ELSE e
           S == Keys \X (Values \union {Null})
<1>0. /\ s \in Seq(Keys) /\ Len(s) \in Nat /\ lru.size = Len(s)
      /\ e \in Seq(S) /\ Len(e) = Len(s)
  BY LenProperties, PairsProperties DEF Chain
<1>1. PICK u : u = IF Cached(k) THEN Unlinked(lru, k) ELSE IF Evicting(k) THEN Evicted ELSE lru
  OBVIOUS
<1> HIDE DEF e, S
<1>2. \E r : /\ LRUType(u) /\ Chain(u, r) /\ u.size + 1 <= Limit /\ u.map[k] = Null
             /\ rest = Pairs(u, r)
  <2>1. CASE Cached(k)
    <3>1. PICK j \in 1 .. Len(s) : s[j] = k
      BY <2>1, CachedNode
    <3>2. u = Unlinked(lru, s[j])
      BY <1>1, <2>1, <3>1
    <3>3. /\ LRUType(u) /\ Chain(u, Without(s, j)) /\ u.size + 1 <= Limit /\ u.map[k] = Null
          /\ HasIn(e, k) /\ OthersIn(e, k) = Pairs(u, Without(s, j))
      BY <3>1, <3>2, TakenOff, SMTT(30), ZenonT(30) DEF e
    <3> QED BY <3>3
  <2>2. CASE ~ Cached(k)
    <3>1. lru.map[k] = Null /\ ~ HasIn(e, k)
      BY <2>2, PairsMissing DEF Cached, e
    <3>2. CASE lru.size >= Limit
      <4>1. u = Evicted /\ NewTail # Null /\ Len(s) # 0
        BY <1>0, <1>1, <2>2, <3>2, LimitAssumption DEF Evicting
      <4> DEFINE N == Len(s)
                 r == Without(s, N)
      <4>2. /\ LRUType(u) /\ Chain(u, r) /\ u.map = [lru.map EXCEPT ![s[N]] = Null]
        BY <4>1, EvictedChain
      <4>3. N \in 1 .. N
        BY <1>0, <4>1
      <4>4. u.map[k] = Null
        BY <3>1, <4>2 DEF LRUType
      <4>5. u.size + 1 <= Limit
        <5>1. u.size = Len(r) /\ Len(r) = N - 1
          BY <1>0, <4>2, <4>3, WithoutProperties DEF Chain
        <5> QED BY <1>0, <5>1
      <4>6. Without(e, N) = Pairs(u, r)
        BY <4>2, <4>3, PairsWithout DEF e
      <4>7. Front(e) = Without(e, N)
        BY <1>0, <4>1, FrontIsWithout
      <4>8. rest = Front(e)
        BY <1>0, <3>1, <3>2
      <4> QED BY <4>2, <4>4, <4>5, <4>6, <4>7, <4>8
    <3>3. CASE ~ (lru.size >= Limit)
      <4>1. u = lru
        BY <1>1, <2>2, <3>3 DEF Evicting
      <4>2. u.size + 1 <= Limit
        BY <1>0, <3>3, <4>1, LimitAssumption
      <4>3. rest = e
        BY <1>0, <3>1, <3>3
      <4> QED BY <3>1, <4>1, <4>2, <4>3 DEF e
    <3> QED BY <3>2, <3>3
  <2> QED BY <2>1, <2>2
<1>3. PICK r : /\ LRUType(u) /\ Chain(u, r) /\ u.size + 1 <= Limit /\ u.map[k] = Null
               /\ rest = Pairs(u, r)
  BY <1>2
<1> DEFINE t == Pushed(k, r)
<1>4. l = AtHead(u, k, v)
  BY <1>1
<1> HIDE DEF rest
<1>5. /\ LRUType(l) /\ Chain(l, t) /\ l.map = [u.map EXCEPT ![k] = v]
  BY <1>3, <1>4, AtHeadChain
<1>6. << <<k, v>> >> \o Pairs(u, r) = Pairs(l, t)
  BY <1>3, <1>5, PairsPushed
<1>7. l.size <= Limit
  <2>1. r \in Seq(Keys) /\ u.size = Len(r) /\ l.size = Len(t)
    BY <1>3, <1>5 DEF Chain
  <2>2. Len(t) = Len(r) + 1
    BY <2>1, PushedProperties, SMTT(30), ZenonT(30)
  <2> QED BY <1>3, <2>1, <2>2
<1> HIDE DEF t
<1>8. Remembers(e, Pairs(l, t))
  BY <1>3, <1>6 DEF Remembers, rest
<1> QED BY <1>5, <1>7, <1>8 DEF Follows, e

LEMMA EmptyFollows ==
  /\ LRUType(EmptyLRU) /\ Chain(EmptyLRU, <<>>) /\ EmptyLRU.size <= Limit
  /\ Pairs(EmptyLRU, <<>>) = <<>>
<1>1. LRUType(EmptyLRU) /\ EmptyLRU.size <= Limit
  BY LimitAssumption DEF LRUType, EmptyLRU
<1>2. <<>> \in Seq(Keys) /\ Len(<<>>) = 0 /\ 1 .. 0 = {}
  OBVIOUS
<1>3. Chain(EmptyLRU, <<>>)
  BY <1>2 DEF Chain, Once, EmptyLRU
<1>4. Pairs(EmptyLRU, <<>>) = <<>>
  <2>1. Pairs(EmptyLRU, <<>>) \in Seq(Keys \X (Values \union {Null})) /\ Len(Pairs(EmptyLRU, <<>>)) = 0
    BY <1>1, <1>2, PairsProperties
  <2> QED BY <2>1, EmptySeq
<1> QED BY <1>1, <1>3, <1>4

LRUInv == LRUType(lru) /\ lru.size <= Limit /\ \E s : Chain(lru, s)

LEMMA NextFollows ==
  ASSUME LRUType(lru), lru.size <= Limit, NEW s, Chain(lru, s), [LRUNext]_lruVars
  PROVE  \E t : Follows(s, lru', t)
<1>1. PICK l : l = lru'
  OBVIOUS
<1> SUFFICES \E t : Follows(s, l, t)
  BY <1>1
<1>2. CASE UNCHANGED lru
  BY <1>1, <1>2 DEF Follows, Remembers
<1>3. CASE RemoveAll
  <2>1. l = EmptyLRU
    BY <1>1, <1>3 DEF RemoveAll
  <2> QED BY <2>1, EmptyFollows DEF Follows, Remembers
<1>4. ASSUME NEW k \in Keys, Get(k) PROVE \E t : Follows(s, l, t)
  BY <1>1, <1>4, GetFollows DEF Get
<1>5. ASSUME NEW k \in Keys, Delete(k) PROVE \E t : Follows(s, l, t)
  BY <1>1, <1>5, DeleteFollows DEF Delete
<1>6. ASSUME NEW k \in Keys, NEW v \in Values, Set(k, v) PROVE \E t : Follows(s, l, t)
  <2>1. CASE UNCHANGED lru
    BY <1>2, <2>1
  <2>2. CASE /\ Evicting(k) => NewTail # Null
             /\ l = AtHead(IF Cached(k) THEN Unlinked(lru, k)
                           ELSE IF Evicting(k) THEN Evicted ELSE lru, k, v)
    BY <2>2, SetFollows
  <2> QED BY <1>1, <1>6, <2>1, <2>2 DEF Set
<1> QED BY <1>2, <1>3, <1>4, <1>5, <1>6 DEF LRUNext, lruVars

LEMMA LRUInitInv == LRUInit => LRUInv
BY EmptyFollows DEF LRUInit, LRUInv

LEMMA LRUNextInv == LRUInv /\ [LRUNext]_lruVars => LRUInv'
BY NextFollows DEF LRUInv, Follows

(* The doubly linked list and the map of the cache of inodes are the same   *)
(* cache, however set, get, remove and removeAll follow each other.          *)
THEOREM ListMatchesMapAlways == LRUSpec => []ListMatchesMap
<1>1. LRUInv => ListMatchesMap
  <2> SUFFICES ASSUME LRUInv PROVE ListMatchesMap
    OBVIOUS
  <2>1. PICK s : Chain(lru, s)
    BY DEF LRUInv
  <2> QED BY <2>1, ChainIsOrder DEF LRUInv, ListMatchesMap, Chain
<1> QED BY <1>1, LRUInitInv, LRUNextInv, PTL DEF LRUSpec

(* The cache of inodes forgets the entry used longest ago and no other, and *)
(* answers with the latest value.                                           *)
THEOREM LRUImplementsRecency == LRUSpec => ImplementsRecency
<1>1. LRUInit => Recency!Init
  <2> SUFFICES ASSUME LRUInit PROVE Entries = <<>>
    BY DEF Recency!Init
  <2>1. Chain(lru, <<>>) /\ Pairs(lru, <<>>) = <<>>
    BY EmptyFollows DEF LRUInit
  <2> QED BY <2>1, EntriesOfChain
<1> DEFINE Read == \A s : Chain(lru, s) => Entries = Pairs(lru, s)
<1>2. Read
  BY EntriesOfChain
<1>3. LRUInv /\ Read /\ Read' /\ [LRUNext]_lruVars => [Recency!Next]_Entries
  <2> SUFFICES ASSUME LRUInv, Read, Read', [LRUNext]_lruVars PROVE [Recency!Next]_Entries
    OBVIOUS
  <2>1. PICK s : Chain(lru, s)
    BY DEF LRUInv
  <2>2. PICK t : Follows(s, lru', t)
    BY <2>1, NextFollows DEF LRUInv
  <2>3. Entries = Pairs(lru, s) /\ Entries' = Pairs(lru', t)
    BY <2>1, <2>2 DEF Follows
  <2>4. Remembers(Entries, Entries')
    BY <2>2, <2>3 DEF Follows
  <2> QED BY <2>4, Zenon
          DEF Remembers, HasIn, PlaceIn, OthersIn, Recency!Next, Recency!Set, Recency!Get,
              Recency!Delete, Recency!RemoveAll, Recency!Has, Recency!Place, Recency!Others,
              RemoveAt, Recency!RemoveAt, Front, Recency!Front
<1> QED BY <1>1, <1>2, <1>3, LRUInitInv, LRUNextInv, PTL DEF LRUSpec, ImplementsRecency, Recency!Spec
=============================================================================
