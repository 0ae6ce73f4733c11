--------------------------- MODULE AsyncKeyValueFS ---------------------------
(***************************************************************************)
(* AsyncKeyValueFileSystem over IndexedDB, with its cache of inode ids     *)
(* (src/src/generic/key_value_filesystem.ts, src/src/backend/IndexedDB.ts).*)
(* IndexedDB is external: a readwrite transaction runs alone and in the    *)
(* order of creation, so that what one does to the store is one step here. *)
(* What interleaves is everything outside it: the cache is consulted when  *)
(* the call is made, filled while a transaction reads, emptied by calls    *)
(* and restored by callbacks; and rmdir is two transactions.               *)
(***************************************************************************)
EXTENDS KeyValueStore

CONSTANTS
  Clients,    \* bound: callers, each with one call at a time
  DataGuids,  \* bound: the GUIDs drawn for data
  NodeGuids   \* bound: the GUIDs drawn for inodes

ASSUME ClientAssumption ==
  /\ DataGuids \subseteq Ids \ {Root} /\ NodeGuids \subseteq Ids \ {Root}
  /\ DataGuids \intersect NodeGuids = {}

VARIABLES
  store,     \* the object store
  cache,     \* the LRUCache: path to inode id, larger than the paths there are
  caching,   \* _cache # null
  txs,       \* transactions under way, in the order they were created
  timeouts   \* calls whose transaction committed: setTimeout(cb, 0)

vars == <<store, cache, caching, txs, timeouts>>

EmptyCache == [p \in Paths |-> NoId]
Forget(p) == [cache EXCEPT ![p] = NoId]

Op(kind, p) == [kind |-> kind, p |-> p, new |-> <<>>, type |-> "file", bytes |-> Empty]
Writes(tx) == tx.op.kind \notin {"lookup", "isEmpty"}

InFlight == ToSet(txs) \union ToSet(timeouts)
Busy(c) == \E tx \in InFlight : tx.client = c

(* A GUID is never seen twice, though the small pools here draw it again. *)
Fresh(k) ==
  /\ store[k] = Undefined
  /\ \A p \in Paths : cache[p] # k
  /\ \A tx \in InFlight : tx.via.id # k

----------------------------------------------------------------------------
(* _findINode.  The walk up to the deepest path in the cache is made by the
   call; the walk down from there, in the transaction. *)
Via(c, r) ==
  LET hits == {q \in Paths \ {<<>>} : IsPrefix(q, r) /\ c[q] # NoId}
  IN IF hits = {} THEN [at |-> <<>>, id |-> Root]
     ELSE LET q == CHOOSE q \in hits : \A x \in hits : Len(x) <= Len(q)
          IN [at |-> q, id |-> c[q]]

IdsVia(via) ==
  LET id[p \in Paths] ==
        IF p = via.at THEN via.id
        ELSE IF p = <<>> THEN NoId ELSE Entry(store, id[Front(p)], Last(p))
  IN id

(* The cache once the walks down to the paths of rs are done *)
Remembered(via, rs) ==
  [q \in Paths |->
     IF /\ caching /\ IsStrictPrefix(via.at, q)
        /\ (\E r \in rs : IsPrefix(q, r)) /\ IdsVia(via)[q] # NoId
     THEN IdsVia(via)[q] ELSE cache[q]]

Transaction(c, op, via) == [client |-> c, op |-> op, via |-> via, restores |-> FALSE]

Begin(c, op, r) ==
  /\ ~ Busy(c)
  /\ txs' = Append(txs, Transaction(c, op, Via(cache, r)))

Init ==
  /\ \E k \in DataGuids : store = EmptyStore(k)
  /\ cache = EmptyCache /\ caching = TRUE
  /\ txs = <<>> /\ timeouts = <<>>

----------------------------------------------------------------------------
(* Calls. *)

(* stat, openFile and readdir *)
Lookup(c, p) ==
  /\ Begin(c, Op("lookup", p), p)
  /\ UNCHANGED <<store, cache, caching, timeouts>>

Create(c, p, t) ==
  /\ p # <<>>
  /\ Begin(c, [Op("create", p) EXCEPT !.type = t], Dirname(p))
  /\ UNCHANGED <<store, cache, caching, timeouts>>

(* Mutant: the cache is not told of the removal. *)
UnlinkCached(c, p) ==
  /\ Begin(c, Op("remove", p), Dirname(p))
  /\ UNCHANGED <<store, cache, caching, timeouts>>
(* removeEntry: "Eagerly delete from cache" *)
Unlink(c, p) ==
  /\ Begin(c, Op("remove", p), Dirname(p))
  /\ cache' = Forget(p)
  /\ UNCHANGED <<store, caching, timeouts>>

Rmdir(c, p) ==
  /\ Begin(c, Op("isEmpty", p), p)
  /\ UNCHANGED <<store, cache, caching, timeouts>>

(* "Clear and disable cache during renaming process."  A rename that finds the
   cache disabled does not restore it; one that fails at once already has. *)
Rename(c, old, new) ==
  /\ ~ Busy(c)
  /\ cache' = EmptyCache
  /\ IF MovesInsideItself(old, Dirname(new)) THEN UNCHANGED <<txs, caching>>
     ELSE /\ caching' = FALSE
          /\ txs' = Append(txs, [client |-> c, op |-> [Op("rename", old) EXCEPT !.new = new],
                                 via |-> Via(EmptyCache, old), restores |-> caching])
  /\ UNCHANGED <<store, timeouts>>

(* sync or close of a dirty file.  The handle has kept no more than a path, and
   _sync writes over whatever that path names by now, a directory too. *)
Sync(c, p, bytes) ==
  /\ Begin(c, [Op("sync", p) EXCEPT !.bytes = bytes], p)
  /\ UNCHANGED <<store, cache, caching, timeouts>>

(* empty() *)
Clear(c) ==
  /\ Begin(c, Op("clear", <<>>), <<>>)
  /\ cache' = EmptyCache
  /\ UNCHANGED <<store, caching, timeouts>>

----------------------------------------------------------------------------
(* Transactions. *)

(* A transaction waits for the earlier ones, unless both only read. *)
Runnable(i) ==
  /\ i \in DOMAIN txs
  /\ \A j \in 1 .. i - 1 : ~ Writes(txs[j]) /\ ~ Writes(txs[i])

Look(i) ==
  /\ Runnable(i) /\ txs[i].op.kind = "lookup"
  /\ cache' = Remembered(txs[i].via, {txs[i].op.p})
  /\ txs' = RemoveAt(txs, i)
  /\ UNCHANGED <<store, caching, timeouts>>

(* rmdir: "Check first if directory is empty", then removeEntry *)
CheckEmpty(i) ==
  /\ Runnable(i) /\ txs[i].op.kind = "isEmpty"
  /\ LET p == txs[i].op.p
         seen == Remembered(txs[i].via, {p})
         forgotten == [seen EXCEPT ![p] = NoId]
         remove == [Op("remove", p) EXCEPT !.type = "dir"]
     IN IF IsEmptyDirAt(store, IdsVia(txs[i].via)[p])
        THEN /\ cache' = forgotten
             /\ txs' = Append(RemoveAt(txs, i),
                              Transaction(txs[i].client, remove, Via(forgotten, Dirname(p))))
        ELSE cache' = seen /\ txs' = RemoveAt(txs, i)
  /\ UNCHANGED <<store, caching, timeouts>>

(* The paths a readwrite transaction looks up *)
Sought(op) ==
  CASE op.kind \in {"create", "remove"} -> {Dirname(op.p)}
    [] op.kind = "rename" -> {Dirname(op.p), Dirname(op.new)}
    [] op.kind = "sync" -> {op.p}
    [] OTHER -> {}

Commits(tx, s) ==
  /\ store' = s
  /\ cache' = Remembered(tx.via, Sought(tx.op))
  /\ txs' = Tail(txs)
  /\ timeouts' = Append(timeouts, tx)
  /\ UNCHANGED caching

CommitCreate(tx) ==
  LET parent == IdsVia(tx.via)[Dirname(tx.op.p)]
  IN /\ tx.op.kind = "create"
     /\ CanCreateIn(store, parent, Basename(tx.op.p))
     /\ \E d \in {k \in DataGuids : Fresh(k)}, i \in {k \in NodeGuids : Fresh(k)} :
          Commits(tx, CreatedIn(store, parent, Basename(tx.op.p), tx.op.type, d, i))

CommitRemove(tx) ==
  LET parent == IdsVia(tx.via)[Dirname(tx.op.p)]
  IN /\ tx.op.kind = "remove"
     /\ CanRemoveFrom(store, parent, Basename(tx.op.p), tx.op.type)
     /\ Commits(tx, RemovedFrom(store, parent, Basename(tx.op.p)))

CommitRename(tx) ==
  /\ tx.op.kind = "rename"
  /\ CanRename(store, tx.op.p, tx.op.new)
  /\ Commits(tx, Renamed(store, tx.op.p, tx.op.new))

CommitSync(tx) ==
  LET node == IdsVia(tx.via)[tx.op.p]
  IN /\ tx.op.kind = "sync"
     /\ IsInode(store, node)
     /\ Commits(tx, SyncedAt(store, node, tx.op.bytes))

CommitClear(tx) ==
  /\ tx.op.kind = "clear"
  /\ Commits(tx, [k \in Ids |-> Undefined])

CommitRoot(tx) ==
  /\ tx.op.kind = "makeRoot"
  /\ \E k \in {d \in DataGuids : Fresh(d)} :
       Commits(tx, IF store[Root] = Undefined THEN RootMade(store, k) ELSE store)

Commit ==
  /\ Runnable(1)
  /\ LET tx == txs[1]
     IN \/ CommitCreate(tx) \/ CommitRemove(tx) \/ CommitRename(tx)
        \/ CommitSync(tx) \/ CommitClear(tx) \/ CommitRoot(tx)

(* Mutant: a failed rename leaves the cache disabled. *)
FailDisabled ==
  /\ Runnable(1) /\ txs[1].op.kind \in {"create", "remove", "rename", "sync"}
  /\ txs' = Tail(txs)
  /\ cache' \in {cache, Remembered(txs[1].via, Sought(txs[1].op))}
  /\ UNCHANGED <<store, caching, timeouts>>
(* Mutant: it is tried again instead of answered. *)
FailRetrying ==
  /\ Runnable(1) /\ txs[1].op.kind \in {"create", "remove", "rename", "sync"}
  /\ txs' = Append(Tail(txs), txs[1])
  /\ UNCHANGED <<store, cache, caching, timeouts>>
(* A lookup finds nothing, or something else, or a put fails: abort, and the
   callback with the error.  (A store just cleared has room for the root.) *)
Fail ==
  /\ Runnable(1) /\ txs[1].op.kind \in {"create", "remove", "rename", "sync"}
  /\ txs' = Tail(txs)
  /\ cache' \in {cache, Remembered(txs[1].via, Sought(txs[1].op))}
  /\ caching' = (caching \/ txs[1].restores)
  /\ UNCHANGED <<store, timeouts>>

(* The callback: rename's restores the cache, empty's makes the root again. *)
Return ==
  /\ timeouts # <<>>
  /\ timeouts' = Tail(timeouts)
  /\ LET tx == Head(timeouts)
     IN /\ caching' = (caching \/ tx.restores)
        /\ txs' = IF tx.op.kind = "clear"
                  THEN Append(txs, Transaction(tx.client, Op("makeRoot", <<>>), tx.via))
                  ELSE txs
  /\ UNCHANGED <<store, cache>>

Next ==
  \/ \E c \in Clients :
       \/ Clear(c)
       \/ \E p \in Paths \ {<<>>} :
            \/ Lookup(c, p) \/ Unlink(c, p) \/ Rmdir(c, p)
            \/ \E t \in {"dir", "file"} : Create(c, p, t)
            \/ \E new \in Paths \ {<<>>} : Rename(c, p, new)
            \/ \E bytes \in Contents : Sync(c, p, bytes)
  \/ \E i \in DOMAIN txs : Look(i) \/ CheckEmpty(i)
  \/ Commit \/ Fail \/ Return

Spec == Init /\ [][Next]_vars

(* IndexedDB runs every transaction it was given, and timers fire. *)
RunsTransactionOf(c) ==
  \/ \E i \in DOMAIN txs : txs[i].client = c /\ (Look(i) \/ CheckEmpty(i))
  \/ txs # <<>> /\ txs[1].client = c /\ (Commit \/ Fail)
FairSpec ==
  Spec /\ WF_vars(Return) /\ \A c \in Clients : WF_vars(RunsTransactionOf(c))

----------------------------------------------------------------------------
TypeOK ==
  /\ store \in Stores
  /\ cache \in [Paths -> Ids \union {NoId}]
  /\ caching \in BOOLEAN
  /\ \A tx \in InFlight :
       /\ tx.client \in Clients
       /\ tx.op.p \in Paths /\ tx.op.new \in Paths
       /\ tx.via.at \in Paths /\ tx.via.id \in Ids

(* However calls overlap and whatever the cache says, the store is a file  *)
(* system whenever it has a root, which it lacks only inside empty().      *)
StoreWellFormed == store[Root] # Undefined => WellFormed(store)

(* A client that waits for its callbacks never sees a stale id: what the   *)
(* cache says of a path is what the store says.                            *)
CacheCoherent == \A p \in Paths : cache[p] \in {NoId, NodeId(store, p)}

(* ... and leaves nothing behind.                                          *)
NoOrphans == store[Root] # Undefined => OrphanFree(store)

(* A rename disables the cache for a while, not for good, whether it       *)
(* succeeds or fails and whatever overlaps it.                             *)
CacheComesBack == ~ caching ~> caching

(* Every call is answered: transactions and timers are served in turn.     *)
EveryCallReturns == \A c \in Clients : Busy(c) ~> ~ Busy(c)

----------------------------------------------------------------------------
(* What the comments say and the code does not do: TLC finds each of these  *)
(* violated; the README tells how.                                          *)

(* "Clear and disable cache during renaming process." (rename)             *)
RenameWithoutCache ==
  (\E tx \in ToSet(txs) : tx.op.kind = "rename") => ~ caching /\ cache = EmptyCache

(* "Eagerly delete from cache" (removeEntry): what was removed is not in   *)
(* the cache when the removal is done.                                     *)
RemovedIsForgotten ==
  [][Commit /\ txs[1].op.kind = "remove" => cache'[txs[1].op.p] = NoId]_vars

(* "Check first if directory is empty." (rmdir)                            *)
OnlyEmptyRemoved ==
  [][Commit /\ txs[1].op.kind = "remove" /\ txs[1].op.type = "dir"
       => IsEmptyDir(store, txs[1].op.p)]_vars
=============================================================================
