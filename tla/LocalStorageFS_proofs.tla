------------------------ MODULE LocalStorageFS_proofs ------------------------
(***************************************************************************)
(* The file system over localStorage, for all names, keys, contents and    *)
(* depths: whichever of its puts an operation gets to, what is on disk is  *)
(* a file system in which the other paths are as they were.                *)
(***************************************************************************)
EXTENDS LocalStorageFS, KeyValueStore_proofs

(* A store without a root has no inode at all. *)
NoInodes(s) == s[Root] = Undefined /\ \A i \in Ids : ~ IsInode(s, i)
Fine(s) == s \in Stores /\ (NoInodes(s) \/ Intact(s))

LEMMA IntactLinked ==
  ASSUME NEW s, Intact(s)
  PROVE  Linked(s)
BY DEF Intact, Linked

(* The inodes that agreed with their data still do, but those of X *)
AgreeStill(s, u, X) == \A i \in Ids \ X : Agrees(s, i) => Agrees(u, i)

(* The same entries everywhere, and what is at every inode but those of X *)
SameEntries(s, u) == \A d \in Ids, n \in FileNames : Entry(u, d, n) = Entry(s, d, n)
SameNodes(s, u, X) == \A i \in Ids \ X : NodeOf(u, i) = NodeOf(s, i)

----------------------------------------------------------------------------
(* What single puts do to a store                                          *)

(* Data under a key that was free is not seen. *)
LEMMA PutUnused ==
  ASSUME NEW s \in Stores, Intact(s), NEW k \in Ids, s[k] = Undefined,
         NEW v \in Listings \union Blobs
  PROVE  LET u == Put(s, k, v)
         IN /\ u \in Stores /\ Intact(u) /\ AgreeStill(s, u, {})
            /\ SameEntries(s, u) /\ SameNodes(s, u, {})
            /\ \A i \in Ids : IsInode(u, i) => IsInode(s, i) /\ u[i] = s[i] /\ u[i].data # k
<1> DEFINE u == Put(s, k, v)
<1>1. u \in Stores /\ u[k] = v /\ \A i \in Ids \ {k} : u[i] = s[i]
  BY DEF Put, Stores
<1>2. v.kind \in {"listing", "blob"} /\ s[k].kind = "none"
  BY DEF Listings, Blobs, Undefined
<1> HIDE DEF u
<1>3. \A i \in Ids : IsInode(u, i) <=> IsInode(s, i) /\ i # k
  BY <1>1, <1>2 DEF IsInode
<1>4. \A i \in Ids : IsInode(s, i) =>
         i # k /\ u[i] = s[i] /\ s[i].data \in Ids /\ s[i].data # k /\ u[s[i].data] = s[s[i].data]
  BY <1>1, <1>2, StoreFacts DEF IsInode, Intact, DataIsThere
<1>5. \A i \in Ids : IsDir(u, i) = IsDir(s, i) /\ IsFile(u, i) = IsFile(s, i)
  BY <1>3, <1>4 DEF IsDir, IsFile
<1>6. \A i \in Ids : HasListing(u, i) = HasListing(s, i)
  BY <1>4, <1>5 DEF HasListing, IsDir
<1>7. SameEntries(s, u)
  <2> SUFFICES ASSUME NEW d \in Ids, NEW n \in FileNames
               PROVE  Entry(u, d, n) = Entry(s, d, n)
    BY DEF SameEntries
  <2>1. HasListing(s, d) => Ls(u, d) = Ls(s, d)
    BY <1>4 DEF HasListing, IsDir, Ls
  <2> QED
    BY <2>1, <1>6 DEF Entry
<1>8. SameNodes(s, u, {})
  BY <1>4, <1>5 DEF SameNodes, NodeOf, IsFile
<1>9. Intact(u)
  <2>1. RootIsDirectory(u)
    BY <1>6, ConstantsAssumption DEF Intact, RootIsDirectory
  <2>2. DataIsThere(u) /\ NoSharedData(u)
    BY <1>3, <1>4 DEF Intact, DataIsThere, NoSharedData
  <2>3. NoDanglingEntry(u) /\ NoDoubleEntry(u)
    BY <1>3, <1>4, <1>7 DEF Intact, NoDanglingEntry, NoDoubleEntry, SameEntries, IsInode
  <2> QED
    BY <2>1, <2>2, <2>3 DEF Intact
<1>10. AgreeStill(s, u, {})
  BY <1>4, <1>5, <1>6 DEF AgreeStill, Agrees, IsFile
<1> QED
  BY <1>1, <1>3, <1>4, <1>7, <1>8, <1>9, <1>10 DEF u

(* Nor is an inode no entry leads to, over data of its own. *)
AddsUnseen(s, u, node) ==
  /\ u \in Stores /\ Intact(u) /\ AgreeStill(s, u, {})
  /\ SameEntries(s, u) /\ SameNodes(s, u, {node})
  /\ IsInode(u, node) /\ \A i \in Ids : IsInode(s, i) => u[i] = s[i]
  /\ \A i \in Ids : HasListing(s, i) => HasListing(u, i) /\ Ls(u, i) = Ls(s, i)
LEMMA PutInode ==
  ASSUME NEW s \in Stores, Intact(s), NEW node \in Ids \ {Root}, s[node] = Undefined,
         NEW dataId \in Ids, NEW t \in {"dir", "file"},
         s[dataId] = (IF t = "dir" THEN EmptyDirNode ELSE Blob(Empty)),
         \A i \in Ids : IsInode(s, i) => s[i].data # dataId
  PROVE  AddsUnseen(s, Put(s, node, Inode(t, dataId, Empty)), node)
<1> DEFINE u == Put(s, node, Inode(t, dataId, Empty))
<1>1. /\ u \in Stores /\ u[node].kind = "inode" /\ u[node].type = t /\ u[node].data = dataId
      /\ u[node].size = Empty /\ \A i \in Ids \ {node} : u[i] = s[i]
  BY ConstantsAssumption DEF Put, Stores, Inode, Inodes
<1>2. s[node].kind = "none" /\ dataId # node /\ u[dataId] = s[dataId]
  BY <1>1 DEF Undefined, EmptyDirNode, Listing, Blob
<1>3. /\ t = "dir" => s[dataId].kind = "listing" /\ s[dataId].ls = [n \in FileNames |-> NoId]
      /\ t = "file" => s[dataId].kind = "blob" /\ s[dataId] = Blob(Empty)
  BY DEF EmptyDirNode, Listing, Blob
<1> HIDE DEF u
<1>4. \A i \in Ids : IsInode(u, i) <=> IsInode(s, i) \/ i = node
  BY <1>1, <1>2 DEF IsInode
<1>5. \A i \in Ids : IsInode(s, i) =>
         i # node /\ u[i] = s[i] /\ s[i].data \in Ids /\ s[i].data # node
         /\ u[s[i].data] = s[s[i].data]
  BY <1>1, <1>2, StoreFacts DEF IsInode, Intact, DataIsThere
<1>6. \A i \in Ids \ {node} : IsDir(u, i) = IsDir(s, i) /\ IsFile(u, i) = IsFile(s, i)
  BY <1>4, <1>5 DEF IsDir, IsFile
<1>7. \A i \in Ids \ {node} : HasListing(u, i) = HasListing(s, i)
  BY <1>5, <1>6 DEF HasListing, IsDir
<1>8. ~ HasListing(s, node)
  BY <1>2 DEF HasListing, IsDir, IsInode
<1>9. \A i \in Ids : HasListing(s, i) => HasListing(u, i) /\ Ls(u, i) = Ls(s, i)
  BY <1>5, <1>7, <1>8 DEF HasListing, IsDir, Ls
<1>10. SameEntries(s, u)
  <2> SUFFICES ASSUME NEW d \in Ids, NEW n \in FileNames
               PROVE  Entry(u, d, n) = Entry(s, d, n)
    BY DEF SameEntries
  <2>1. CASE d # node
    BY <2>1, <1>7, <1>9 DEF Entry
  <2>2. CASE d = node
    BY <2>2, <1>1, <1>2, <1>3, <1>8 DEF Entry, HasListing, IsDir, Ls
  <2> QED
    BY <2>1, <2>2
<1>11. SameNodes(s, u, {node})
  BY <1>5, <1>6 DEF SameNodes, NodeOf, IsFile
<1>12. Intact(u)
  <2>1. RootIsDirectory(u)
    BY <1>7, ConstantsAssumption DEF Intact, RootIsDirectory
  <2>2. DataIsThere(u)
    <3> SUFFICES ASSUME NEW i \in Ids, IsInode(u, i)
                 PROVE  \/ u[u[i].data].kind = "blob"
                        \/ u[i].type = "dir" /\ u[u[i].data].kind = "listing"
      BY DEF DataIsThere
    <3>1. CASE i = node
      BY <3>1, <1>1, <1>2, <1>3
    <3>2. CASE i # node
      BY <3>2, <1>4, <1>5 DEF Intact, DataIsThere
    <3> QED
      BY <3>1, <3>2
  <2>3. NoSharedData(u)
    BY <1>1, <1>4, <1>5 DEF Intact, NoSharedData
  <2>4. NoDanglingEntry(u) /\ NoDoubleEntry(u)
    BY <1>4, <1>5, <1>10 DEF Intact, NoDanglingEntry, NoDoubleEntry, SameEntries, IsInode
  <2> QED
    BY <2>1, <2>2, <2>3, <2>4 DEF Intact
<1>13. AgreeStill(s, u, {})
  <2> SUFFICES ASSUME NEW i \in Ids, Agrees(s, i)
               PROVE  Agrees(u, i)
    BY DEF AgreeStill
  <2>1. CASE i = node
    BY <2>1, <1>1, <1>2, <1>3 DEF Agrees, IsFile, IsDir, HasListing
  <2>2. CASE i # node
    BY <2>2, <1>5, <1>6, <1>7 DEF Agrees, IsFile
  <2> QED
    BY <2>1, <2>2
<1> QED
  BY <1>1, <1>4, <1>5, <1>9, <1>10, <1>11, <1>12, <1>13 DEF u, AddsUnseen

(* One entry of a directory changes: it is taken out, or leads to an inode *)
(* that was under no name.                                                 *)
ChangesEntry(s, u, dir, n, x) ==
  /\ u \in Stores /\ Intact(u) /\ AgreeStill(s, u, {})
  /\ \A d \in Ids, m \in FileNames :
       Entry(u, d, m) = IF d = dir /\ m = n THEN x ELSE Entry(s, d, m)
  /\ SameNodes(s, u, {})
  /\ \A i \in Ids : IsInode(s, i) <=> IsInode(u, i)
  /\ \A i \in Ids : IsInode(s, i) => u[i] = s[i]
  /\ \A i \in Ids : HasListing(s, i) =>
       HasListing(u, i) /\ (i # dir => Ls(u, i) = Ls(s, i))
  /\ Ls(u, dir) = [Ls(s, dir) EXCEPT ![n] = x]
LEMMA PutEntry ==
  ASSUME NEW s \in Stores, Intact(s), NEW dir, HasListing(s, dir), NEW n \in FileNames,
         NEW x, x = NoId \/ (IsInode(s, x) /\ x # Root),
         \A d \in Ids, m \in FileNames : x # NoId /\ Entry(s, d, m) = x => d = dir /\ m = n
  PROVE  ChangesEntry(s, Put(s, s[dir].data, Listing([Ls(s, dir) EXCEPT ![n] = x])), dir, n, x)
<1> DEFINE u == Put(s, s[dir].data, Listing([Ls(s, dir) EXCEPT ![n] = x]))
           list == s[dir].data
<1>1. /\ dir \in Ids /\ IsDir(s, dir) /\ IsInode(s, dir) /\ list \in Ids
      /\ s[list].kind = "listing" /\ Ls(s, dir) \in [FileNames -> Ids \union {NoId}]
      /\ x \in Ids \union {NoId}
  BY StoreFacts DEF HasListing, IsDir, IsInode
<1>2. /\ u \in Stores /\ u[list].kind = "listing" /\ u[list].ls = [Ls(s, dir) EXCEPT ![n] = x]
      /\ \A k \in Ids \ {list} : u[k] = s[k]
  BY <1>1 DEF Put, Stores, Listing, Listings
<1> HIDE DEF u
<1>3. \A i \in Ids : (IsInode(u, i) <=> IsInode(s, i)) /\ (IsInode(s, i) => i # list /\ u[i] = s[i])
  BY <1>1, <1>2 DEF IsInode
<1>4. \A i \in Ids : IsInode(s, i) /\ i # dir =>
         s[i].data \in Ids /\ s[i].data # list /\ u[s[i].data] = s[s[i].data]
  BY <1>1, <1>2, StoreFacts DEF Intact, NoSharedData
<1>5. \A i \in Ids : IsDir(u, i) = IsDir(s, i) /\ IsFile(u, i) = IsFile(s, i)
  BY <1>3 DEF IsDir, IsFile
<1>6. \A i \in Ids \ {dir} : HasListing(u, i) = HasListing(s, i)
  BY <1>3, <1>4, <1>5 DEF HasListing, IsDir
<1>7. HasListing(u, dir) /\ Ls(u, dir) = [Ls(s, dir) EXCEPT ![n] = x]
  BY <1>1, <1>2, <1>3, <1>5 DEF HasListing, Ls
<1>8. \A i \in Ids : HasListing(s, i) => HasListing(u, i) /\ (i # dir => Ls(u, i) = Ls(s, i))
  BY <1>3, <1>4, <1>6, <1>7 DEF HasListing, IsDir, Ls
<1>9. \A d \in Ids, m \in FileNames :
        Entry(u, d, m) = IF d = dir /\ m = n THEN x ELSE Entry(s, d, m)
  BY <1>1, <1>6, <1>7, <1>8 DEF Entry
<1>10. SameNodes(s, u, {})
  BY <1>1, <1>3, <1>4, <1>5 DEF SameNodes, NodeOf, IsFile, IsDir
<1>11. Intact(u)
  <2>1. RootIsDirectory(u)
    BY <1>8, ConstantsAssumption DEF Intact, RootIsDirectory
  <2>2. DataIsThere(u)
    BY <1>1, <1>2, <1>3, <1>4 DEF Intact, DataIsThere, IsDir
  <2>3. NoSharedData(u)
    BY <1>3 DEF Intact, NoSharedData
  <2>4. NoDanglingEntry(u)
    BY <1>3, <1>9 DEF Intact, NoDanglingEntry, IsInode
  <2>5. NoDoubleEntry(u)
    BY <1>9 DEF Intact, NoDoubleEntry
  <2> QED
    BY <2>1, <2>2, <2>3, <2>4, <2>5 DEF Intact
<1>12. AgreeStill(s, u, {})
  BY <1>1, <1>3, <1>4, <1>5, <1>6, <1>7 DEF AgreeStill, Agrees, IsFile, IsDir
<1> QED
  BY <1>2, <1>3, <1>7, <1>8, <1>9, <1>10, <1>11, <1>12 DEF u, ChangesEntry

(* A file's bytes are put, or a directory's listing is lost to them: no     *)
(* other inode is touched, and this one has no entries any more.            *)
LosesEntries(s, u, node) ==
  /\ u \in Stores /\ Intact(u) /\ AgreeStill(s, u, {node}) /\ SameNodes(s, u, {node})
  /\ \A i \in Ids : IsInode(u, i) <=> IsInode(s, i)
  /\ \A d \in Ids, n \in FileNames :
       Entry(u, d, n) = IF d = node THEN NoId ELSE Entry(s, d, n)
LEMMA PutBytes ==
  ASSUME NEW s \in Stores, Intact(s), NEW node \in Ids \ {Root}, IsInode(s, node),
         NEW c \in Contents
  PROVE  LosesEntries(s, Put(s, s[node].data, Blob(c)), node)
<1> DEFINE u == Put(s, s[node].data, Blob(c))
           data == s[node].data
<1>1. data \in Ids /\ s[data].kind \in {"blob", "listing"}
  BY StoreFacts DEF Intact, DataIsThere
<1>2. u \in Stores /\ u[data].kind = "blob" /\ \A k \in Ids \ {data} : u[k] = s[k]
  BY <1>1 DEF Put, Stores, Blob, Blobs
<1> HIDE DEF u
<1>3. \A i \in Ids : (IsInode(u, i) <=> IsInode(s, i)) /\ (IsInode(s, i) => u[i] = s[i])
  BY <1>1, <1>2 DEF IsInode
<1>4. \A i \in Ids : IsInode(s, i) /\ i # node =>
         s[i].data \in Ids /\ s[i].data # data /\ u[s[i].data] = s[s[i].data]
  BY <1>1, <1>2, StoreFacts DEF Intact, NoSharedData
<1>5. \A i \in Ids : IsDir(u, i) = IsDir(s, i) /\ IsFile(u, i) = IsFile(s, i)
  BY <1>3 DEF IsDir, IsFile
<1>6. ~ HasListing(u, node)
  BY <1>2, <1>3 DEF HasListing
<1>7. \A i \in Ids \ {node} : /\ HasListing(u, i) = HasListing(s, i)
                              /\ HasListing(s, i) => Ls(u, i) = Ls(s, i)
  BY <1>3, <1>4, <1>5 DEF HasListing, IsDir, Ls
<1>8. \A d \in Ids, n \in FileNames :
        Entry(u, d, n) = IF d = node THEN NoId ELSE Entry(s, d, n)
  BY <1>6, <1>7 DEF Entry
<1>9. SameNodes(s, u, {node})
  BY <1>3, <1>4, <1>5 DEF SameNodes, NodeOf, IsFile
<1>10. Intact(u)
  <2>1. RootIsDirectory(u)
    BY <1>7, ConstantsAssumption DEF Intact, RootIsDirectory
  <2>2. DataIsThere(u)
    BY <1>1, <1>2, <1>3, <1>4 DEF Intact, DataIsThere
  <2>3. NoSharedData(u)
    BY <1>3 DEF Intact, NoSharedData
  <2>4. NoDanglingEntry(u)
    BY <1>3, <1>8 DEF Intact, NoDanglingEntry, IsInode
  <2>5. NoDoubleEntry(u)
    BY <1>8 DEF Intact, NoDoubleEntry
  <2> QED
    BY <2>1, <2>2, <2>3, <2>4, <2>5 DEF Intact
<1>11. AgreeStill(s, u, {node})
  BY <1>3, <1>4, <1>5, <1>7 DEF AgreeStill, Agrees, IsFile
<1> QED
  BY <1>2, <1>3, <1>8, <1>9, <1>10, <1>11 DEF u, LosesEntries

(* Then the inode: it says what its bytes are. *)
LEMMA PutFile ==
  ASSUME NEW s \in Stores, Intact(s), NEW node \in Ids \ {Root}, IsInode(s, node),
         NEW c \in Contents, s[s[node].data] = Blob(c)
  PROVE  LET u == Put(s, node, Inode("file", s[node].data, c))
         IN LosesEntries(s, u, node) /\ Agrees(u, node)
<1> DEFINE u == Put(s, node, Inode("file", s[node].data, c))
           data == s[node].data
<1>1. data \in Ids /\ s[data].kind = "blob" /\ data # node
  BY StoreFacts DEF Blob, IsInode
<1>2. /\ u \in Stores /\ u[node].kind = "inode" /\ u[node].type = "file"
      /\ u[node].data = data /\ u[node].size = c
      /\ \A k \in Ids \ {node} : u[k] = s[k]
  BY <1>1 DEF Put, Stores, Inode, Inodes
<1> HIDE DEF u
<1>3. \A i \in Ids : (IsInode(u, i) <=> IsInode(s, i)) /\ (IsInode(s, i) => u[i].data = s[i].data)
  BY <1>1, <1>2 DEF IsInode
<1>4. \A i \in Ids : IsInode(s, i) =>
         s[i].data \in Ids /\ s[i].data # node /\ u[s[i].data] = s[s[i].data]
  BY <1>1, <1>2, StoreFacts DEF Intact, DataIsThere, IsInode
<1>5. \A i \in Ids \ {node} : IsDir(u, i) = IsDir(s, i) /\ IsFile(u, i) = IsFile(s, i)
  BY <1>2, <1>3 DEF IsDir, IsFile
<1>6. ~ HasListing(u, node) /\ ~ IsDir(u, node)
  BY <1>2 DEF HasListing, IsDir
<1>7. \A i \in Ids \ {node} : /\ HasListing(u, i) = HasListing(s, i)
                              /\ HasListing(s, i) => Ls(u, i) = Ls(s, i)
  BY <1>2, <1>4, <1>5 DEF HasListing, IsDir, Ls
<1>8. \A d \in Ids, n \in FileNames :
        Entry(u, d, n) = IF d = node THEN NoId ELSE Entry(s, d, n)
  BY <1>6, <1>7 DEF Entry
<1>9. SameNodes(s, u, {node})
  BY <1>2, <1>4, <1>5 DEF SameNodes, NodeOf, IsFile
<1>10. Intact(u)
  <2>1. RootIsDirectory(u)
    BY <1>7, ConstantsAssumption DEF Intact, RootIsDirectory
  <2>2. DataIsThere(u)
    BY <1>1, <1>2, <1>3, <1>4 DEF Intact, DataIsThere
  <2>3. NoSharedData(u)
    BY <1>3 DEF Intact, NoSharedData
  <2>4. NoDanglingEntry(u)
    BY <1>3, <1>8 DEF Intact, NoDanglingEntry, IsInode
  <2>5. NoDoubleEntry(u)
    BY <1>8 DEF Intact, NoDoubleEntry
  <2> QED
    BY <2>1, <2>2, <2>3, <2>4, <2>5 DEF Intact
<1>11. AgreeStill(s, u, {node})
  BY <1>2, <1>4, <1>5, <1>7 DEF AgreeStill, Agrees, IsFile
<1>12. Agrees(u, node)
  BY <1>1, <1>2, <1>6 DEF Agrees
<1> QED
  BY <1>2, <1>3, <1>8, <1>9, <1>10, <1>11, <1>12 DEF u, LosesEntries

----------------------------------------------------------------------------
(* What they do to the tree                                                *)

(* The same entries, and the same at every inode but those of X: the same  *)
(* tree, but at the paths that name one of X.                              *)
LEMMA SameTree ==
  ASSUME NEW s \in Stores, Intact(s), NEW u, NEW X, SameEntries(s, u), SameNodes(s, u, X)
  PROVE  \A q \in Paths : /\ NodeId(u, q) = NodeId(s, q)
                          /\ NodeId(s, q) \notin X => NodeAt(u, q) = NodeAt(s, q)
<1> DEFINE g == [q \in Paths |-> NodeId(s, q)]
<1>1. g[<<>>] = Root
  BY IntactLinked, LinkedStep, PathFacts
<1>2. \A q \in Paths \ {<<>>} : g[q] = Entry(u, g[Front(q)], Last(q))
  <2> TAKE q \in Paths \ {<<>>}
  <2>1. /\ g[q] = Entry(s, g[Front(q)], Last(q)) /\ Last(q) \in FileNames
        /\ g[Front(q)] \in Ids \union {NoId}
    BY IntactLinked, LinkedStep
  <2>2. CASE g[Front(q)] \in Ids
    BY <2>1, <2>2 DEF SameEntries
  <2>3. CASE g[Front(q)] \notin Ids
    BY <2>1, <2>3, NoEntries
  <2> QED
    BY <2>2, <2>3
<1>3. \A q \in Paths : NodeId(u, q) = NodeId(s, q)
  <2> HIDE DEF g
  <2>1. \A q \in Paths : NodeId(u, q) = g[q]
    BY <1>1, <1>2, LookupsAre
  <2> QED
    BY <2>1 DEF g
<1>4. ASSUME NEW q \in Paths, NodeId(s, q) \notin X
      PROVE  NodeAt(u, q) = NodeAt(s, q)
  <2>1. NodeAt(u, q) = NodeOf(u, NodeId(s, q)) /\ NodeAt(s, q) = NodeOf(s, NodeId(s, q))
    BY <1>3 DEF NodeAt, NodeOf
  <2>2. CASE NodeId(s, q) \in Ids
    BY <1>4, <2>1, <2>2 DEF SameNodes
  <2>3. CASE NodeId(s, q) \notin Ids
    BY <2>1, <2>3 DEF NodeOf, IsFile, IsDir, IsInode
  <2> QED
    BY <2>2, <2>3
<1> QED
  BY <1>3, <1>4

(* One other entry: the same tree, but at and below its path. *)
LEMMA SameElsewhere ==
  ASSUME NEW s \in Stores, Intact(s), NEW u, NEW p \in Paths \ {<<>>}, SameNodes(s, u, {}),
         NodeId(s, Front(p)) \in Ids,
         \A d \in Ids, n \in FileNames :
           (d = NodeId(s, Front(p)) /\ n = Last(p)) \/ Entry(u, d, n) = Entry(s, d, n)
  PROVE  \A q \in Paths : ~ IsPrefix(p, q) =>
           NodeId(u, q) = NodeId(s, q) /\ NodeAt(u, q) = NodeAt(s, q)
<1> DEFINE Good == {n \in Nat : \A q \in Paths :
                      Len(q) = n /\ ~ IsPrefix(p, q) => NodeId(u, q) = NodeId(s, q)}
<1>1. 0 \in Good
  <2> SUFFICES ASSUME NEW q \in Paths, Len(q) = 0
               PROVE  NodeId(u, q) = NodeId(s, q)
    OBVIOUS
  <2>1. q = <<>>
    BY PathFacts
  <2> QED
    BY <2>1, NodeIdDef
<1>2. ASSUME NEW n \in Good
      PROVE  n + 1 \in Good
  <2> SUFFICES ASSUME NEW q \in Paths, Len(q) = n + 1, ~ IsPrefix(p, q)
               PROVE  NodeId(u, q) = NodeId(s, q)
    OBVIOUS
  <2>1. q # <<>> /\ Front(q) \in Paths /\ Len(Front(q)) = n
    BY PathFacts, <1>2
  <2>2. q # p /\ ~ IsPrefix(p, Front(q))
    BY <2>1, PrefixOfFront, PrefixThroughFront
  <2>3. NodeId(u, Front(q)) = NodeId(s, Front(q))
    BY <2>1, <2>2, <1>2
  <2>4. /\ NodeId(s, q) = Entry(s, NodeId(s, Front(q)), Last(q)) /\ Last(q) \in FileNames
        /\ NodeId(u, q) = Entry(u, NodeId(s, Front(q)), Last(q))
        /\ NodeId(s, Front(q)) \in Ids \union {NoId}
    BY <2>1, <2>3, IntactLinked, LinkedStep, NodeIdDef
  <2>5. CASE NodeId(s, Front(q)) \in Ids
    <3>1. ~ (NodeId(s, Front(q)) = NodeId(s, Front(p)) /\ Last(q) = Last(p))
      BY <2>1, <2>2, <2>5, IntactLinked, LinkedStep, ConstantsAssumption
    <3> QED
      BY <2>4, <2>5, <3>1
  <2>6. CASE NodeId(s, Front(q)) \notin Ids
    BY <2>4, <2>6, NoEntries
  <2> QED
    BY <2>4, <2>5, <2>6
<1>3. Good = Nat
  <2>1. Good \subseteq Nat
    OBVIOUS
  <2> HIDE DEF Good
  <2> QED
    BY <1>1, <1>2, <2>1, SetInduction
<1>4. ASSUME NEW q \in Paths, ~ IsPrefix(p, q)
      PROVE  NodeId(u, q) = NodeId(s, q) /\ NodeAt(u, q) = NodeAt(s, q)
  <2>1. NodeId(u, q) = NodeId(s, q)
    <3>1. Len(q) \in Good
      BY <1>3, PathFacts
    <3> QED
      BY <3>1, <1>4
  <2>2. NodeAt(u, q) = NodeOf(u, NodeId(s, q)) /\ NodeAt(s, q) = NodeOf(s, NodeId(s, q))
    BY <2>1 DEF NodeAt, NodeOf
  <2>3. CASE NodeId(s, q) \in Ids
    BY <2>1, <2>2, <2>3 DEF SameNodes
  <2>4. CASE NodeId(s, q) \notin Ids
    BY <2>1, <2>2, <2>4 DEF NodeOf, IsFile, IsDir, IsInode
  <2> QED
    BY <2>1, <2>3, <2>4
<1> QED
  BY <1>4

(* A node without its entries: the same tree, but at and below its path. *)
LEMMA LostElsewhere ==
  ASSUME NEW s \in Stores, Intact(s), NEW u, NEW p \in Paths \ {<<>>},
         NodeId(s, p) \in Ids, LosesEntries(s, u, NodeId(s, p))
  PROVE  /\ NodeId(u, p) = NodeId(s, p)
         /\ \A q \in Paths : ~ IsPrefix(p, q) => NodeAt(u, q) = NodeAt(s, q)
<1>1. \A q \in Paths : NodeId(u, q) = IF Under(p, q) THEN NoId ELSE NodeId(s, q)
  BY IntactLinked, LinkedSynced DEF LosesEntries
<1>2. ASSUME NEW q \in Paths, ~ IsPrefix(p, q)
      PROVE  NodeAt(u, q) = NodeAt(s, q)
  <2>1. NodeId(u, q) = NodeId(s, q)
    BY <1>1, <1>2 DEF Under
  <2>2. NodeId(s, q) # NodeId(s, p)
    BY <1>2, IntactLinked, LinkedStep, PrefixOfFront, ConstantsAssumption
  <2>3. NodeAt(u, q) = NodeOf(u, NodeId(s, q)) /\ NodeAt(s, q) = NodeOf(s, NodeId(s, q))
    BY <2>1 DEF NodeAt, NodeOf
  <2>4. CASE NodeId(s, q) \in Ids
    BY <2>2, <2>3, <2>4 DEF LosesEntries, SameNodes
  <2>5. CASE NodeId(s, q) \notin Ids
    BY <2>3, <2>5 DEF NodeOf, IsFile, IsDir, IsInode
  <2> QED
    BY <2>4, <2>5
<1>3. NodeId(u, p) = NodeId(s, p)
  BY <1>1 DEF Under
<1> QED
  BY <1>2, <1>3

----------------------------------------------------------------------------
(* An operation as the list of keys it writes.  Written is the store after *)
(* the first i of them, Restored what an abort makes of it.  An operation  *)
(* is Planned if it leaves a file system wherever it stops, with the other *)
(* paths as they were, and with its own too if a put throws.               *)
Written(b, t, keys, i) ==
  [k \in Ids |-> IF t[k] # Undefined /\ \E j \in 1 .. i : keys[j] = k THEN t[k] ELSE b[k]]
Restored(b, s, name) ==
  IF name = "makeRoot" THEN s ELSE [k \in Ids |-> IF b[k] = Undefined THEN s[k] ELSE b[k]]

Below(paths, q) == \E i \in DOMAIN paths : IsPrefix(paths[i], q)
ThrowsAt(name, t, keys, i) ==
  /\ i < Len(keys) /\ t[keys[i + 1]] # Undefined
  /\ ~ (name = "create" /\ Len(keys) - i > 1)

(* The inode whose bytes are put and which is not *)
HalfAt(name, keys, i) == IF name = "sync" /\ i + 1 = Len(keys) THEN {keys[i + 1]} ELSE {}

Kept(b, s) == Fine(s) /\ AgreeStill(b, s, {}) /\ TreeOf(s) = TreeOf(b)
Sound(paths, b, s, half) ==
  /\ Fine(s) /\ AgreeStill(b, s, half)
  /\ \A q \in Paths : Below(paths, q) \/ NodeAt(s, q) = NodeAt(b, q)
Planned(name, paths, b, t, keys) ==
  /\ \A i \in 0 .. Len(keys) :
       /\ Sound(paths, b, Written(b, t, keys, i), HalfAt(name, keys, i))
       /\ ThrowsAt(name, t, keys, i) => Kept(b, Restored(b, Written(b, t, keys, i), name))
  /\ name = "sync" => Agrees(Written(b, t, keys, Len(keys)), keys[Len(keys)])

LEMMA WrittenStep ==
  ASSUME NEW b \in Stores, NEW t, NEW keys \in Seq(Ids)
  PROVE  /\ Written(b, t, keys, 0) = b
         /\ \A i \in 0 .. Len(keys) - 1 :
              Written(b, t, keys, i + 1) =
                IF t[keys[i + 1]] # Undefined
                THEN Put(Written(b, t, keys, i), keys[i + 1], t[keys[i + 1]])
                ELSE Written(b, t, keys, i)
<1>1. Written(b, t, keys, 0) = b
  BY DEF Written, Stores
<1>2. ASSUME NEW i \in 0 .. Len(keys) - 1
      PROVE  Written(b, t, keys, i + 1) =
                IF t[keys[i + 1]] # Undefined
                THEN Put(Written(b, t, keys, i), keys[i + 1], t[keys[i + 1]])
                ELSE Written(b, t, keys, i)
  <2>1. keys[i + 1] \in Ids
    BY ElementOfSeq
  <2>2. \A k : (\E j \in 1 .. i + 1 : keys[j] = k) <=> k = keys[i + 1] \/ \E j \in 1 .. i : keys[j] = k
    <3>1. \A j : j \in 1 .. i + 1 <=> j \in 1 .. i \/ j = i + 1
      OBVIOUS
    <3> QED
      BY <3>1
  <2> QED
    BY <2>1, <2>2 DEF Written, Put
<1> QED
  BY <1>1, <1>2

(* Nothing new was written where there was nothing: an abort restores all. *)
LEMMA RestoresAll ==
  ASSUME NEW b \in Stores, Intact(b), NEW s, NEW name, name # "makeRoot",
         \A k \in Ids : b[k] = Undefined => s[k] = Undefined
  PROVE  Kept(b, Restored(b, s, name))
<1>1. Restored(b, s, name) = b
  BY DEF Restored, Stores
<1> QED
  BY <1>1 DEF Kept, Fine, AgreeStill

LEMMA SoundBefore ==
  ASSUME NEW b \in Stores, Intact(b), NEW paths, NEW half
  PROVE  Sound(paths, b, b, half)
BY DEF Sound, Fine, AgreeStill

(* Creating: the data, the inode, the entry. *)
LEMMA CreatePlanned ==
  ASSUME NEW s \in Stores, Intact(s), NEW p \in Paths, NEW t \in {"dir", "file"},
         CanCreate(s, p), NEW dataId \in Ids \ {Root}, NEW nodeId \in Ids \ {Root},
         dataId # nodeId, s[dataId] = Undefined, s[nodeId] = Undefined
  PROVE  LET keys == <<dataId, nodeId, s[ParentId(s, p)].data>>
         IN /\ keys \in Seq(Ids)
            /\ Planned("create", <<p>>, s, Created(s, p, t, dataId, nodeId), keys)
<1> DEFINE parent == ParentId(s, p)
           n == Basename(p)
           list == s[parent].data
           keys == <<dataId, nodeId, list>>
           wanted == Created(s, p, t, dataId, nodeId)
           v == IF t = "dir" THEN EmptyDirNode ELSE Blob(Empty)
           u1 == Put(s, dataId, v)
           u2 == Put(u1, nodeId, Inode(t, dataId, Empty))
           u3 == Put(u2, list, Listing([Ls(s, parent) EXCEPT ![n] = nodeId]))
<1>1. /\ p # <<>> /\ HasListing(s, parent) /\ Entry(s, parent, n) = NoId
      /\ Dirname(p) = Front(p) /\ n = Last(p) /\ n \in FileNames /\ parent = NodeId(s, Front(p))
      /\ Front(p) \in Paths
  BY PathFacts DEF CanCreate, CanCreateIn, ParentId
<1>2. /\ parent \in Ids /\ IsInode(s, parent) /\ list \in Ids /\ s[list].kind = "listing"
      /\ list # dataId /\ list # nodeId /\ parent # dataId /\ parent # nodeId
  BY <1>1, StoreFacts DEF HasListing, IsDir, IsInode, Undefined
<1>3. v \in Listings \union Blobs /\ v # Undefined /\ Inode(t, dataId, Empty) # Undefined
  BY ConstantsAssumption DEF EmptyDirNode, Listing, Listings, Blob, Blobs, Inode, Undefined
<1> HIDE DEF v
<1>4. /\ u1 \in Stores /\ Intact(u1) /\ AgreeStill(s, u1, {})
      /\ SameEntries(s, u1) /\ SameNodes(s, u1, {})
      /\ \A i \in Ids : IsInode(u1, i) => IsInode(s, i) /\ u1[i] = s[i] /\ u1[i].data # dataId
  BY <1>3, PutUnused
<1>5. u1[nodeId] = Undefined /\ u1[dataId] = v
  BY DEF Put, Stores
<1>6. AddsUnseen(u1, u2, nodeId)
  <2>1. /\ u1 \in Stores /\ Intact(u1) /\ u1[nodeId] = Undefined
        /\ u1[dataId] = (IF t = "dir" THEN EmptyDirNode ELSE Blob(Empty))
        /\ \A i \in Ids : IsInode(u1, i) => u1[i].data # dataId
    BY <1>4, <1>5 DEF v
  <2>2. u2 = Put(u1, nodeId, Inode(t, dataId, Empty))
    OBVIOUS
  <2> HIDE DEF u1, u2
  <2> QED
    BY <2>1, <2>2, PutInode
<1>7. HasListing(u2, parent) /\ Ls(u2, parent) = Ls(s, parent) /\ u2[parent].data = list
  <2>1. HasListing(u1, parent) /\ Ls(u1, parent) = Ls(s, parent) /\ u1[parent].data = list
    BY <1>1, <1>2 DEF Put, Stores, HasListing, IsDir, IsInode, Ls
  <2>2. u2[parent] = u1[parent]
    BY <1>2, <2>1, <1>6 DEF AddsUnseen, HasListing, IsDir, IsInode
  <2> QED
    BY <1>2, <2>1, <2>2, <1>6 DEF AddsUnseen
<1>8. \A d \in Ids, m \in FileNames : Entry(u2, d, m) = Entry(s, d, m)
  BY <1>4, <1>6 DEF SameEntries, AddsUnseen
<1>9. \A d \in Ids, m \in FileNames : Entry(s, d, m) # nodeId
  BY IntactLinked, LinkedEntry, ConstantsAssumption DEF IsInode, Undefined
<1>10. ChangesEntry(u2, u3, parent, n, nodeId)
  <2>1. /\ u2 \in Stores /\ Intact(u2) /\ HasListing(u2, parent) /\ n \in FileNames
        /\ IsInode(u2, nodeId) /\ nodeId # Root
        /\ \A d \in Ids, m \in FileNames : nodeId # NoId /\ Entry(u2, d, m) = nodeId => d = parent /\ m = n
    BY <1>1, <1>6, <1>7, <1>8, <1>9 DEF AddsUnseen
  <2>2. u3 = Put(u2, u2[parent].data, Listing([Ls(u2, parent) EXCEPT ![n] = nodeId]))
    BY <1>7
  <2> HIDE DEF u2, u3, parent, n
  <2> QED
    BY <2>1, <2>2, PutEntry
<1>11. /\ Written(s, wanted, keys, 0) = s /\ Written(s, wanted, keys, 1) = u1
       /\ Written(s, wanted, keys, 2) = u2 /\ Written(s, wanted, keys, 3) = u3
       /\ keys \in Seq(Ids)
  <2>1. wanted = u3
    BY <1>2, <1>3 DEF Created, CreatedIn, PutNew, Put, v
  <2>2. /\ wanted[dataId] = v /\ wanted[nodeId] = Inode(t, dataId, Empty)
        /\ wanted[list] = Listing([Ls(s, parent) EXCEPT ![n] = nodeId])
        /\ Listing([Ls(s, parent) EXCEPT ![n] = nodeId]) # Undefined
    BY <1>2, <2>1 DEF Put, Stores, Listing, Undefined
  <2>3. keys \in Seq(Ids)
    BY <1>2
  <2> HIDE DEF wanted, keys, v
  <2>4. /\ Written(s, wanted, keys, 0) = s
        /\ \A i \in 0 .. Len(keys) - 1 :
             Written(s, wanted, keys, i + 1) =
               IF wanted[keys[i + 1]] # Undefined
               THEN Put(Written(s, wanted, keys, i), keys[i + 1], wanted[keys[i + 1]])
               ELSE Written(s, wanted, keys, i)
    BY <2>3, WrittenStep
  <2>5. Len(keys) = 3 /\ keys[1] = dataId /\ keys[2] = nodeId /\ keys[3] = list
    BY DEF keys
  <2>6. Written(s, wanted, keys, 1) = u1
    BY <2>2, <2>4, <2>5, <1>3
  <2>7. Written(s, wanted, keys, 2) = u2
    BY <2>2, <2>4, <2>5, <2>6, <1>3
  <2>8. Written(s, wanted, keys, 3) = u3
    BY <2>2, <2>4, <2>5, <2>7
  <2> QED
    BY <2>3, <2>4, <2>6, <2>7, <2>8
<1>12. \A q \in Paths : NodeId(s, q) # nodeId
  BY <1>9, IntactLinked, LinkedStep, NoEntries, ConstantsAssumption
<1>13. \A q \in Paths : NodeId(u1, q) = NodeId(s, q) /\ NodeAt(u1, q) = NodeAt(s, q)
  BY <1>4, SameTree
<1>14. \A q \in Paths : NodeId(u2, q) = NodeId(s, q) /\ NodeAt(u2, q) = NodeAt(s, q)
  BY <1>4, <1>6, <1>12, <1>13, SameTree DEF AddsUnseen
<1>15. \A q \in Paths : ~ IsPrefix(p, q) => NodeAt(u3, q) = NodeAt(s, q)
  <2> HIDE DEF u2, u3
  <2>1. NodeId(u2, Front(p)) = parent
    BY <1>1, <1>14
  <2> QED
    BY <1>1, <1>2, <1>6, <1>10, <1>14, <2>1, SameElsewhere DEF AddsUnseen, ChangesEntry
<1>16. Restored(s, u2, "create") = u2
  BY <1>3 DEF Restored, Put, Stores
<1>17. Kept(s, u2)
  BY <1>4, <1>6, <1>14 DEF Kept, Fine, TreeOf, AddsUnseen, AgreeStill
<1> HIDE DEF u1, u2, u3, keys, wanted
<1>18. /\ Sound(<<p>>, s, s, {}) /\ Sound(<<p>>, s, u1, {})
       /\ Sound(<<p>>, s, u2, {}) /\ Sound(<<p>>, s, u3, {})
  <2>1. \A q \in Paths : IsPrefix(p, q) => Below(<<p>>, q)
    BY DEF Below
  <2> QED
    BY <2>1, <1>4, <1>6, <1>10, <1>13, <1>14, <1>15
    DEF Sound, Fine, AddsUnseen, ChangesEntry, AgreeStill
<1>19. Planned("create", <<p>>, s, wanted, keys)
  <2>1. Len(keys) = 3 /\ keys[1] = dataId /\ keys[2] = nodeId /\ keys[3] = list
    BY DEF keys
  <2> SUFFICES ASSUME NEW i \in 0 .. 3
               PROVE  /\ Sound(<<p>>, s, Written(s, wanted, keys, i), {})
                      /\ ThrowsAt("create", wanted, keys, i) =>
                           Kept(s, Restored(s, Written(s, wanted, keys, i), "create"))
    BY <2>1 DEF Planned, HalfAt
  <2>2. i = 0 \/ i = 1 \/ i = 2 \/ i = 3
    OBVIOUS
  <2>3. ThrowsAt("create", wanted, keys, i) => i = 2
    BY <2>1 DEF ThrowsAt
  <2> QED
    BY <2>2, <2>3, <1>11, <1>16, <1>17, <1>18
<1> QED
  BY <1>11, <1>19 DEF keys, wanted

(* The data and the inode stay, as nothing is ever deleted; the entry goes. *)
LEMMA RemovePlanned ==
  ASSUME NEW s \in Stores, Intact(s), NEW p \in Paths, NEW t, CanRemove(s, p, t)
  PROVE  LET node == Target(s, p)
             keys == <<s[node].data, node, s[ParentId(s, p)].data>>
         IN keys \in Seq(Ids) /\ Planned("remove", <<p>>, s, Removed(s, p), keys)
<1> DEFINE parent == ParentId(s, p)
           n == Basename(p)
           node == Target(s, p)
           data == s[node].data
           list == s[parent].data
           keys == <<data, node, list>>
           wanted == Removed(s, p)
           u == Put(s, list, Listing([Ls(s, parent) EXCEPT ![n] = NoId]))
<1>1. /\ HasListing(s, parent) /\ node = Entry(s, parent, n) /\ node # NoId /\ n \in FileNames
      /\ parent = NodeId(s, Dirname(p)) /\ Dirname(p) \in Paths
      /\ p # <<>> => Dirname(p) = Front(p) /\ n = Last(p)
  BY PathFacts DEF CanRemove, CanRemoveFrom, ParentId, Target
<1>2. /\ parent \in Ids /\ IsInode(s, parent) /\ list \in Ids /\ s[list].kind = "listing"
      /\ node \in Ids \ {Root} /\ IsInode(s, node) /\ data \in Ids /\ s[data].kind \in {"listing", "blob"}
  BY <1>1, StoreFacts, IntactLinked, LinkedEntry DEF HasListing, IsDir, IsInode, Intact, DataIsThere
<1>3. node # parent
  <2>1. CASE p = <<>>
    BY <2>1, <1>1, <1>2, IntactLinked, LinkedStep DEF Dirname
  <2>2. CASE p # <<>>
    BY <2>2, <1>1, <1>2, IntactLinked, LinkedStep
  <2> QED
    BY <2>1, <2>2
<1>4. list # data /\ list # node /\ data # node
  BY <1>2, <1>3 DEF IsInode, Intact, NoSharedData
<1> HIDE DEF parent, n, node
<1>5. ChangesEntry(s, u, parent, n, NoId)
  BY <1>1, PutEntry
<1>6. /\ wanted[data] = Undefined /\ wanted[node] = Undefined
      /\ wanted[list] = Listing([Ls(s, parent) EXCEPT ![n] = NoId])
      /\ Listing([Ls(s, parent) EXCEPT ![n] = NoId]) # Undefined
  <2>1. wanted = Put(Del(Del(s, data), node), list, Listing([Ls(s, parent) EXCEPT ![n] = NoId]))
    BY <1>1 DEF Removed, RemovedFrom, parent, n
  <2> QED
    BY <1>2, <1>4, <2>1 DEF Put, Del, Stores, Listing, Undefined
<1>7. keys \in Seq(Ids)
  BY <1>2
<1>8. /\ Written(s, wanted, keys, 0) = s /\ Written(s, wanted, keys, 1) = s
      /\ Written(s, wanted, keys, 2) = s /\ Written(s, wanted, keys, 3) = u
  <2> HIDE DEF wanted, keys, list, data
  <2>1. Len(keys) = 3 /\ keys[1] = data /\ keys[2] = node /\ keys[3] = list
    BY DEF keys
  <2>2. /\ Written(s, wanted, keys, 0) = s
        /\ \A i \in 0 .. Len(keys) - 1 :
             Written(s, wanted, keys, i + 1) =
               IF wanted[keys[i + 1]] # Undefined
               THEN Put(Written(s, wanted, keys, i), keys[i + 1], wanted[keys[i + 1]])
               ELSE Written(s, wanted, keys, i)
    BY <1>7, WrittenStep, SMTT(30), ZenonT(30)
  <2>3. Written(s, wanted, keys, 1) = s
    BY <1>6, <2>1, <2>2
  <2>4. Written(s, wanted, keys, 2) = s
    BY <1>6, <2>1, <2>2, <2>3
  <2>5. Written(s, wanted, keys, 3) = Put(s, list, wanted[list])
    BY <1>6, <2>1, <2>2, <2>4
  <2> QED
    BY <1>6, <2>2, <2>3, <2>4, <2>5
<1> HIDE DEF u, keys, wanted
<1>9. Sound(<<p>>, s, u, {})
  <2>1. \A q \in Paths : IsPrefix(p, q) => Below(<<p>>, q)
    BY DEF Below
  <2>2. \A q \in Paths : ~ IsPrefix(p, q) => NodeAt(u, q) = NodeAt(s, q)
    <3>1. CASE p = <<>>
      BY <3>1, PrefixOfFront
    <3>2. CASE p # <<>>
      BY <3>2, <1>1, <1>2, <1>5, SameElsewhere DEF ChangesEntry
    <3> QED
      BY <3>1, <3>2
  <2> QED
    BY <1>5, <2>1, <2>2 DEF Sound, Fine, ChangesEntry, AgreeStill
<1>10. Planned("remove", <<p>>, s, wanted, keys)
  <2>1. Len(keys) = 3 /\ keys[3] = list
    BY DEF keys
  <2> SUFFICES ASSUME NEW i \in 0 .. 3
               PROVE  /\ Sound(<<p>>, s, Written(s, wanted, keys, i), {})
                      /\ ThrowsAt("remove", wanted, keys, i) =>
                           Kept(s, Restored(s, Written(s, wanted, keys, i), "remove"))
    BY <2>1 DEF Planned, HalfAt
  <2>2. Kept(s, Restored(s, s, "remove"))
    BY RestoresAll
  <2>3. i < 3 => Written(s, wanted, keys, i) = s
    BY <1>8
  <2>4. ThrowsAt("remove", wanted, keys, i) => i < 3
    BY <2>1 DEF ThrowsAt
  <2>5. CASE i < 3
    BY <2>2, <2>3, <2>5, SoundBefore
  <2>6. CASE i = 3
    BY <2>4, <2>6, <1>8, <1>9
  <2> QED
    BY <2>5, <2>6
<1> QED
  BY <1>7, <1>10 DEF keys, wanted, node, parent

(* The bytes, then the inode: between them, and for good if a crash is      *)
(* there, the one does not agree with the other.                            *)
LEMMA SyncPlanned ==
  ASSUME NEW s \in Stores, Intact(s), NEW p \in Paths \ {<<>>}, NEW c \in Contents,
         IsInode(s, NodeId(s, p))
  PROVE  LET keys == <<s[NodeId(s, p)].data, NodeId(s, p)>>
         IN keys \in Seq(Ids) /\ Planned("sync", <<p>>, s, Synced(s, p, c), keys)
<1> DEFINE node == NodeId(s, p)
           data == s[node].data
           keys == <<data, node>>
           wanted == Synced(s, p, c)
           u1 == Put(s, data, Blob(c))
           u2 == Put(u1, node, Inode("file", data, c))
<1>1. /\ node \in Ids \ {Root} /\ IsInode(s, node)
      /\ data \in Ids /\ s[data].kind \in {"blob", "listing"}
  BY StoreFacts, IntactLinked, LinkedStep DEF IsInode, Intact, DataIsThere
<1>2. wanted = u2
  BY DEF Synced, SyncedAt
<1>3. node # data
  BY <1>1 DEF IsInode
<1>4. /\ Blob(c) # Undefined /\ Inode("file", data, c) # Undefined
      /\ s[node] # Undefined /\ s[data] # Undefined
  BY <1>1 DEF Blob, Inode, Undefined, IsInode
<1>5. wanted[data] = Blob(c) /\ wanted[node] = Inode("file", data, c)
  BY <1>1, <1>2, <1>3 DEF Put, Stores
<1>6. keys \in Seq(Ids)
  BY <1>1
<1>7. u1[node] = s[node] /\ u1[data] = Blob(c)
  BY <1>1, <1>3 DEF Put, Stores
<1>8. LosesEntries(s, u1, node)
  <2> HIDE DEF node
  <2> QED
    BY <1>1, PutBytes
<1>9. LosesEntries(u1, u2, node) /\ Agrees(u2, node)
  <2>1. u1 \in Stores /\ Intact(u1) /\ IsInode(u1, node)
    BY <1>1, <1>8 DEF LosesEntries
  <2> HIDE DEF u1, node
  <2> QED
    BY <1>1, <1>7, <2>1, PutFile
<1>10. \A k \in Ids : s[k] = Undefined => u1[k] = Undefined
  BY <1>4 DEF Put, Stores
<1> HIDE DEF u1, u2, wanted, keys
<1>11. /\ Written(s, wanted, keys, 0) = s /\ Written(s, wanted, keys, 1) = u1
       /\ Written(s, wanted, keys, 2) = u2
  <2>1. Len(keys) = 2 /\ keys[1] = data /\ keys[2] = node
    BY DEF keys
  <2>2. /\ Written(s, wanted, keys, 0) = s
        /\ \A i \in 0 .. Len(keys) - 1 :
             Written(s, wanted, keys, i + 1) =
               IF wanted[keys[i + 1]] # Undefined
               THEN Put(Written(s, wanted, keys, i), keys[i + 1], wanted[keys[i + 1]])
               ELSE Written(s, wanted, keys, i)
    BY <1>6, WrittenStep, SMTT(30), ZenonT(30)
  <2>3. Written(s, wanted, keys, 1) = u1
    BY <1>4, <1>5, <2>1, <2>2 DEF u1
  <2>4. Written(s, wanted, keys, 2) = u2
    BY <1>4, <1>5, <2>1, <2>2, <2>3 DEF u2
  <2> QED
    BY <2>2, <2>3, <2>4
<1>12. LosesEntries(s, u2, node)
  BY <1>8, <1>9 DEF LosesEntries, SameNodes, AgreeStill
<1>13. Sound(<<p>>, s, u1, {node}) /\ Sound(<<p>>, s, u2, {})
  <2>1. \A q \in Paths : IsPrefix(p, q) => Below(<<p>>, q)
    BY DEF Below
  <2>2. \A q \in Paths : ~ IsPrefix(p, q) => NodeAt(u1, q) = NodeAt(s, q)
    BY <1>1, <1>8, LostElsewhere
  <2>3. \A q \in Paths : ~ IsPrefix(p, q) => NodeAt(u2, q) = NodeAt(s, q)
    BY <1>1, <1>12, LostElsewhere
  <2>4. AgreeStill(s, u2, {})
    BY <1>9, <1>12 DEF LosesEntries, AgreeStill
  <2> HIDE DEF node
  <2>5. Sound(<<p>>, s, u1, {node})
    BY <2>1, <2>2, <1>8 DEF Sound, Fine, LosesEntries
  <2>6. Sound(<<p>>, s, u2, {})
    BY <2>1, <2>3, <2>4, <1>12 DEF Sound, Fine, LosesEntries
  <2> QED
    BY <2>5, <2>6
<1>14. Planned("sync", <<p>>, s, wanted, keys)
  <2>1. Len(keys) = 2 /\ keys[2] = node
    BY DEF keys
  <2> HIDE DEF node
  <2>2. ASSUME NEW i \in 0 .. 2
        PROVE  /\ Sound(<<p>>, s, Written(s, wanted, keys, i), HalfAt("sync", keys, i))
               /\ ThrowsAt("sync", wanted, keys, i) =>
                    Kept(s, Restored(s, Written(s, wanted, keys, i), "sync"))
    <3>1. ThrowsAt("sync", wanted, keys, i) => i < 2
      BY <2>1 DEF ThrowsAt
    <3>2. CASE i = 0
      BY <3>2, <1>11, SoundBefore, RestoresAll
    <3>3. CASE i = 1
      <4>1. HalfAt("sync", keys, 1) = {node}
        BY <2>1 DEF HalfAt
      <4> QED
        BY <3>3, <4>1, <1>10, <1>11, <1>13, RestoresAll
    <3>4. CASE i = 2
      <4>1. HalfAt("sync", keys, 2) = {}
        BY <2>1 DEF HalfAt
      <4>2. ~ ThrowsAt("sync", wanted, keys, i)
        BY <3>1, <3>4
      <4>3. Sound(<<p>>, s, Written(s, wanted, keys, 2), {})
        BY <1>11, <1>13
      <4> QED
        BY <3>4, <4>1, <4>2, <4>3
    <3> QED
      BY <3>2, <3>3, <3>4
  <2>3. Agrees(Written(s, wanted, keys, Len(keys)), keys[Len(keys)])
    BY <2>1, <1>9, <1>11
  <2> QED
    BY <2>1, <2>2, <2>3 DEF Planned
<1> QED
  BY <1>6, <1>14 DEF keys, wanted

(* The old name goes, then the new one comes: the same list, or two.  The   *)
(* node is under no name in between, and one that is replaced is not        *)
(* deleted.                                                                 *)
LEMMA RenamePlanned ==
  ASSUME NEW s \in Stores, Intact(s), NEW old \in Paths, NEW new \in Paths \ {<<>>},
         CanRename(s, old, new)
  PROVE  LET victim == Victim(s, old, new)
             dels == IF victim = NoId THEN <<>> ELSE <<s[victim].data, victim>>
             lists == <<s[ParentId(s, old)].data, s[ParentId(s, new)].data>>
         IN /\ dels \o lists \in Seq(Ids)
            /\ Planned("rename", <<old, new>>, s, Renamed(s, old, new), dels \o lists)
<1> DEFINE victim == Victim(s, old, new)
           oldDir == ParentId(s, old)
           newDir == ParentId(s, new)
           n == Basename(old)
           m == Basename(new)
           node == Entry(s, oldDir, n)
           same == SameParent(old, new)
           oldList == s[oldDir].data
           newList == s[newDir].data
           dels == IF victim = NoId THEN <<>> ELSE <<s[victim].data, victim>>
           keys == dels \o <<oldList, newList>>
           wanted == Renamed(s, old, new)
           without == [Ls(s, oldDir) EXCEPT ![n] = NoId]
           with == [(IF same THEN without ELSE Ls(s, newDir)) EXCEPT ![m] = node]
           u1 == Put(s, oldList, Listing(without))
           u2 == Put(u1, newList, Listing(with))
<1>1. /\ HasListing(s, oldDir) /\ HasListing(s, newDir) /\ node # NoId
      /\ victim = NoId \/ IsFile(s, victim)
      /\ ~ MovesInsideItself(old, Dirname(new)) /\ n \in FileNames /\ m \in FileNames
      /\ oldDir = NodeId(s, Dirname(old)) /\ newDir = NodeId(s, Dirname(new))
      /\ Dirname(old) \in Paths /\ Dirname(new) \in Paths
      /\ old # <<>> => Dirname(old) = Front(old) /\ n = Last(old)
      /\ Dirname(new) = Front(new) /\ m = Last(new)
  BY PathFacts DEF CanRename, CanRenameIn, Victim, ParentId
<1>2. /\ oldDir \in Ids /\ IsInode(s, oldDir) /\ oldList \in Ids /\ s[oldList].kind = "listing"
      /\ newDir \in Ids /\ IsInode(s, newDir) /\ newList \in Ids /\ s[newList].kind = "listing"
      /\ node \in Ids \ {Root} /\ IsInode(s, node)
  BY <1>1, StoreFacts, IntactLinked, LinkedEntry DEF HasListing, IsDir, IsInode
<1>3. (same <=> oldDir = newDir) /\ (same <=> oldList = newList)
  BY <1>1, <1>2, IntactLinked, LinkedStep, ConstantsAssumption DEF SameParent, Intact, NoSharedData
<1>4. victim # NoId => /\ victim \in Ids /\ s[victim].data \in Ids /\ s[victim].data # victim
                       /\ victim # oldList /\ victim # newList
                       /\ s[victim].data # oldList /\ s[victim].data # newList
  BY <1>1, <1>2, StoreFacts DEF IsFile, IsInode, Intact, DataIsThere
<1>5. /\ victim # NoId => wanted[victim] = Undefined /\ wanted[s[victim].data] = Undefined
      /\ wanted[oldList] = Listing(IF same THEN with ELSE without) /\ wanted[newList] = Listing(with)
      /\ \A l : Listing(l) # Undefined
  <2> DEFINE s1 == IF victim = NoId THEN s ELSE Del(Del(s, s[victim].data), victim)
  <2>1. wanted = Put(Put(s1, oldList, Listing(IF same THEN with ELSE without)), newList, Listing(with))
    BY DEF Renamed, RenamedIn, Victim
  <2>2. /\ DOMAIN s1 = Ids /\ victim # NoId => s1[victim] = Undefined /\ s1[s[victim].data] = Undefined
    BY <1>4 DEF Put, Del, Stores
  <2>3. \A l : Listing(l) # Undefined
    BY DEF Listing, Undefined
  <2> HIDE DEF s1, victim, with, without, same, oldList, newList
  <2>4. DOMAIN s1 = Ids
    BY DEF s1, Put, Del, Stores
  <2> QED
    BY <1>2, <1>3, <1>4, <2>1, <2>2, <2>3, <2>4 DEF Put
<1> HIDE DEF victim, oldDir, newDir, n, m, node, same, wanted
<1>6. ChangesEntry(s, u1, oldDir, n, NoId)
  BY <1>1, PutEntry
<1>7. HasListing(u1, newDir) /\ u1[newDir].data = newList
      /\ Ls(u1, newDir) = (IF same THEN without ELSE Ls(s, newDir))
  BY <1>1, <1>2, <1>3, <1>6 DEF ChangesEntry
<1>8. ChangesEntry(u1, u2, newDir, m, node)
  <2>1. u1 \in Stores /\ Intact(u1) /\ HasListing(u1, newDir) /\ m \in FileNames
        /\ IsInode(u1, node) /\ node # Root
    BY <1>1, <1>2, <1>6, <1>7 DEF ChangesEntry
  <2>2. \A d \in Ids, k \in FileNames : Entry(u1, d, k) # node
    <3>1. \A d \in Ids, k \in FileNames : Entry(s, d, k) = node => d = oldDir /\ k = n
      BY <1>1, <1>2 DEF node, Intact, NoDoubleEntry
    <3> QED
      BY <3>1, <1>1, <1>6, SMTT(30), ZenonT(30) DEF ChangesEntry
  <2>3. u2 = Put(u1, u1[newDir].data, Listing([Ls(u1, newDir) EXCEPT ![m] = node]))
    BY <1>7
  <2> HIDE DEF u1, u2
  <2> QED
    BY <2>1, <2>2, <2>3, PutEntry
<1>9. \A k \in Ids : s[k] = Undefined => u1[k] = Undefined /\ u2[k] = Undefined
  BY <1>2 DEF Put, Stores, Undefined
<1>10. same => Put(s, oldList, Listing(with)) = u2 /\ Put(u2, newList, Listing(with)) = u2
  BY <1>2, <1>3 DEF Put, Stores
(* What is written is seen with the second list, or with both.               *)
<1> DEFINE w1 == IF same THEN u2 ELSE u1
<1>11. \E z \in {0, 2} :
         /\ keys \in Seq(Ids) /\ Len(keys) = z + 2
         /\ \A i \in 0 .. z : Written(s, wanted, keys, i) = s
         /\ Written(s, wanted, keys, z + 1) = w1 /\ Written(s, wanted, keys, z + 2) = u2
  <2>1. CASE victim = NoId
    <3>1. keys = <<oldList, newList>>
      BY <2>1
    <3> HIDE DEF keys, oldList, newList, u1, u2, with, without
    <3>2. keys \in Seq(Ids) /\ Len(keys) = 2 /\ keys[1] = oldList /\ keys[2] = newList
      BY <3>1, <1>2
    <3>3. /\ Written(s, wanted, keys, 0) = s
          /\ \A i \in 0 .. Len(keys) - 1 :
               Written(s, wanted, keys, i + 1) =
                 IF wanted[keys[i + 1]] # Undefined
                 THEN Put(Written(s, wanted, keys, i), keys[i + 1], wanted[keys[i + 1]])
                 ELSE Written(s, wanted, keys, i)
      BY <3>2, WrittenStep, SMTT(30), ZenonT(30)
    <3>4. Written(s, wanted, keys, 1) = w1
      BY <1>5, <1>10, <3>2, <3>3 DEF u1
    <3>5. Written(s, wanted, keys, 2) = u2
      BY <1>5, <1>10, <3>2, <3>3, <3>4 DEF u2
    <3>6. \A i \in 0 .. 0 : Written(s, wanted, keys, i) = s
      BY <3>3
    <3> QED
      BY <3>2, <3>4, <3>5, <3>6
  <2>2. CASE victim # NoId
    <3> DEFINE data == s[victim].data
    <3>1. keys = <<data, victim>> \o <<oldList, newList>>
      BY <2>2
    <3>2. /\ keys \in Seq(Ids) /\ Len(keys) = 4 /\ keys[1] = data /\ keys[2] = victim
          /\ keys[3] = oldList /\ keys[4] = newList
      <4> HIDE DEF keys, data, oldList, newList
      <4>1. <<data, victim>> \in Seq(Ids) /\ <<oldList, newList>> \in Seq(Ids)
        BY <1>2, <1>4, <2>2 DEF data
      <4> QED
        BY <3>1, <4>1, ConcatProperties
    <3>3. wanted[data] = Undefined /\ wanted[victim] = Undefined
      BY <1>5, <2>2
    <3> HIDE DEF keys, data, oldList, newList, u1, u2, with, without
    <3>4. /\ Written(s, wanted, keys, 0) = s
          /\ \A i \in 0 .. Len(keys) - 1 :
               Written(s, wanted, keys, i + 1) =
                 IF wanted[keys[i + 1]] # Undefined
                 THEN Put(Written(s, wanted, keys, i), keys[i + 1], wanted[keys[i + 1]])
                 ELSE Written(s, wanted, keys, i)
      BY <3>2, WrittenStep, SMTT(30), ZenonT(30)
    <3>5. Written(s, wanted, keys, 1) = s
      BY <3>2, <3>3, <3>4
    <3>6. Written(s, wanted, keys, 2) = s
      BY <3>2, <3>3, <3>4, <3>5
    <3>7. Written(s, wanted, keys, 3) = w1
      BY <1>5, <1>10, <3>2, <3>4, <3>6 DEF u1
    <3>8. Written(s, wanted, keys, 4) = u2
      BY <1>5, <1>10, <3>2, <3>4, <3>7 DEF u2
    <3>9. \A i \in 0 .. 2 : Written(s, wanted, keys, i) = s
      BY <3>4, <3>5, <3>6
    <3> QED
      BY <3>2, <3>7, <3>8, <3>9
  <2> QED
    BY <2>1, <2>2
<1> HIDE DEF u1, u2, keys
<1>12. /\ \A half : Sound(<<old, new>>, s, u1, half)
       /\ \A half : Sound(<<old, new>>, s, u2, half)
  <2>1. \A q \in Paths : IsPrefix(old, q) \/ IsPrefix(new, q) => Below(<<old, new>>, q)
    BY DEF Below
  <2>2. CASE old = <<>>
    <3>1. \A q \in Paths : Below(<<old, new>>, q)
      BY <2>1, <2>2, PrefixOfFront
    <3> QED
      BY <3>1, <1>6, <1>8 DEF Sound, Fine, ChangesEntry, AgreeStill
  <2>3. CASE old # <<>>
    <3>1. \A q \in Paths : ~ IsPrefix(old, q) => NodeId(u1, q) = NodeId(s, q) /\ NodeAt(u1, q) = NodeAt(s, q)
      BY <2>3, <1>1, <1>2, <1>6, SameElsewhere DEF ChangesEntry
    <3>2. ~ IsPrefix(old, Front(new))
      BY <1>1, <2>3 DEF MovesInsideItself
    <3>3. NodeId(u1, Front(new)) = newDir
      BY <3>1, <3>2, <1>1
    <3>4. \A q \in Paths : ~ IsPrefix(new, q) => NodeAt(u2, q) = NodeAt(u1, q)
      BY <3>3, <1>1, <1>2, <1>6, <1>8, SameElsewhere DEF ChangesEntry
    <3> QED
      BY <2>1, <3>1, <3>4, <1>6, <1>8 DEF Sound, Fine, ChangesEntry, AgreeStill
  <2> QED
    BY <2>2, <2>3
<1>13. Planned("rename", <<old, new>>, s, wanted, keys)
  <2>1. PICK z \in {0, 2} :
          /\ Len(keys) = z + 2
          /\ \A i \in 0 .. z : Written(s, wanted, keys, i) = s
          /\ Written(s, wanted, keys, z + 1) = w1 /\ Written(s, wanted, keys, z + 2) = u2
    BY <1>11
  <2> SUFFICES ASSUME NEW i \in 0 .. z + 2
               PROVE  /\ Sound(<<old, new>>, s, Written(s, wanted, keys, i), {})
                      /\ Kept(s, Restored(s, Written(s, wanted, keys, i), "rename"))
    BY <2>1 DEF Planned, HalfAt
  <2>2. CASE i <= z
    BY <2>1, <2>2, SoundBefore, RestoresAll
  <2>3. CASE i = z + 1
    BY <2>1, <2>3, <1>9, <1>12, RestoresAll
  <2>4. CASE i = z + 2
    BY <2>1, <2>4, <1>9, <1>12, RestoresAll
  <2> QED
    BY <2>2, <2>3, <2>4
<1> QED
  BY <1>11, <1>13 DEF keys, wanted, victim, oldDir, newDir

(* The root comes last. *)
LEMMA NothingThere ==
  ASSUME NEW s, NoInodes(s)
  PROVE  \A q \in Paths : NodeAt(s, q) = [type |-> "absent"]
BY DEF NodeAt, NoInodes, IsFile, IsDir, IsInode

LEMMA RootPlanned ==
  ASSUME NEW s, Fine(s), s[Root] = Undefined, NEW k \in Ids \ {Root}, s[k] = Undefined
  PROVE  LET keys == <<k, Root>>
         IN keys \in Seq(Ids) /\ Planned("makeRoot", << <<>> >>, s, RootMade(s, k), keys)
<1> DEFINE keys == <<k, Root>>
           wanted == RootMade(s, k)
           u1 == Put(s, k, EmptyDirNode)
           u2 == Put(u1, Root, Inode("dir", k, Empty))
<1>1. s \in Stores /\ NoInodes(s)
  BY ConstantsAssumption
  DEF Fine, Intact, RootIsDirectory, HasListing, IsDir, IsInode, Undefined
<1>2. /\ EmptyDirNode # Undefined /\ Inode("dir", k, Empty) # Undefined
      /\ EmptyDirNode.kind = "listing" /\ EmptyDirNode.ls = [n \in FileNames |-> NoId]
      /\ EmptyDirNode \in Listings /\ Inode("dir", k, Empty) \in Inodes
  BY ConstantsAssumption DEF EmptyDirNode, Listing, Listings, Inode, Inodes, Undefined
<1>3. /\ wanted = u2 /\ wanted[k] = EmptyDirNode /\ wanted[Root] = Inode("dir", k, Empty)
  BY <1>1, ConstantsAssumption DEF RootMade, PutNew, Put, Stores
<1>4. /\ u1 \in Stores /\ u2 \in Stores /\ u2[k] = EmptyDirNode /\ u1[k] = EmptyDirNode
      /\ u2[Root].kind = "inode" /\ u2[Root].type = "dir" /\ u2[Root].data = k
      /\ \A i \in Ids \ {k, Root} : u1[i] = s[i] /\ u2[i] = s[i]
      /\ u1[Root] = s[Root]
  BY <1>1, <1>2, ConstantsAssumption DEF Put, Stores, Inode
<1>5. keys \in Seq(Ids)
  BY ConstantsAssumption
<1> HIDE DEF u1, u2, wanted, keys
<1>6. NoInodes(u1)
  BY <1>1, <1>2, <1>4 DEF NoInodes, IsInode
<1>7. \A i \in Ids : IsInode(u2, i) <=> i = Root
  BY <1>1, <1>2, <1>4, ConstantsAssumption DEF NoInodes, IsInode
<1>8. \A d \in Ids, n \in FileNames : Entry(u2, d, n) = NoId
  BY <1>2, <1>4, <1>7 DEF Entry, HasListing, IsDir, Ls
<1>9. Intact(u2)
  BY <1>2, <1>4, <1>7, <1>8, ConstantsAssumption
  DEF Intact, RootIsDirectory, DataIsThere, NoSharedData, NoDanglingEntry,
      NoDoubleEntry, HasListing, IsDir
<1>10. AgreeStill(s, s, {}) /\ AgreeStill(s, u1, {}) /\ AgreeStill(s, u2, {})
  BY <1>1, <1>2, <1>4, <1>6, <1>7 DEF AgreeStill, Agrees, NoInodes, IsFile, IsDir, HasListing
<1>11. /\ Written(s, wanted, keys, 0) = s /\ Written(s, wanted, keys, 1) = u1
       /\ Written(s, wanted, keys, 2) = u2
  <2>1. Len(keys) = 2 /\ keys[1] = k /\ keys[2] = Root
    BY DEF keys
  <2>2. /\ Written(s, wanted, keys, 0) = s
        /\ \A i \in 0 .. Len(keys) - 1 :
             Written(s, wanted, keys, i + 1) =
               IF wanted[keys[i + 1]] # Undefined
               THEN Put(Written(s, wanted, keys, i), keys[i + 1], wanted[keys[i + 1]])
               ELSE Written(s, wanted, keys, i)
    BY <1>1, <1>5, WrittenStep, SMTT(30), ZenonT(30)
  <2>3. Written(s, wanted, keys, 1) = u1
    BY <1>2, <1>3, <2>1, <2>2 DEF u1
  <2>4. Written(s, wanted, keys, 2) = u2
    BY <1>2, <1>3, <2>1, <2>2, <2>3 DEF u2
  <2> QED
    BY <2>2, <2>3, <2>4
<1>12. Below(<< <<>> >>, <<>>) /\ \A q \in Paths : Below(<< <<>> >>, q)
  BY PrefixOfFront, PathFacts DEF Below
<1>13. Kept(s, s) /\ Kept(s, u1)
  BY <1>1, <1>4, <1>6, <1>10, NothingThere DEF Kept, Fine, TreeOf
<1>14. \A half : /\ Sound(<< <<>> >>, s, s, half)
                 /\ Sound(<< <<>> >>, s, u1, half)
                 /\ Sound(<< <<>> >>, s, u2, half)
  BY <1>1, <1>4, <1>6, <1>9, <1>10, <1>12 DEF Sound, Fine, AgreeStill
<1>15. Planned("makeRoot", << <<>> >>, s, wanted, keys)
  <2>1. Len(keys) = 2
    BY DEF keys
  <2> SUFFICES ASSUME NEW i \in 0 .. 2
               PROVE  /\ Sound(<< <<>> >>, s, Written(s, wanted, keys, i), {})
                      /\ i < 2 => Kept(s, Restored(s, Written(s, wanted, keys, i), "makeRoot"))
    BY <2>1 DEF Planned, ThrowsAt, HalfAt
  <2> QED
    BY <1>11, <1>13, <1>14 DEF Restored
<1> QED
  BY <1>5, <1>15 DEF keys, wanted

----------------------------------------------------------------------------
(* The operation under way is Planned, and has written a part of its keys.  *)
Rest(keys, i) == SubSeq(keys, i + 1, Len(keys))
UnderWay(keys, i) ==
  /\ Planned(op.name, op.paths, before, target, keys)
  /\ store = Written(before, target, keys, i)
  /\ todo = Rest(keys, i)
Inv ==
  /\ Fine(before)
  /\ \A i \in Ids \ torn : Agrees(IF Running /\ todo = <<>> THEN store ELSE before, i)
  /\ \/ ~ Running /\ store = before /\ todo = <<>>
     \/ Running /\ \E keys \in Seq(Ids) : \E i \in 0 .. Len(keys) : UnderWay(keys, i)

LEMMA RestFacts ==
  ASSUME NEW keys \in Seq(Ids), NEW i \in 0 .. Len(keys)
  PROVE  /\ Rest(keys, i) \in Seq(Ids) /\ Len(Rest(keys, i)) = Len(keys) - i
         /\ Rest(keys, i) = <<>> <=> i = Len(keys)
         /\ i < Len(keys) => /\ Head(Rest(keys, i)) = keys[i + 1]
                             /\ Tail(Rest(keys, i)) = Rest(keys, i + 1)
<1>1. Len(keys) \in Nat /\ \A j \in 1 .. Len(keys) : keys[j] \in Ids
  BY LenProperties, ElementOfSeq
<1>2. Rest(keys, i) \in Seq(Ids) /\ Len(Rest(keys, i)) = Len(keys) - i
  <2>1. /\ i + 1 \in Int /\ Len(keys) \in Int
        /\ \A j \in i + 1 .. Len(keys) : keys[j] \in Ids
        /\ (IF i + 1 <= Len(keys) THEN Len(keys) - (i + 1) + 1 ELSE 0) = Len(keys) - i
    BY <1>1
  <2> QED
    BY <2>1, SubSeqProperties DEF Rest
<1>3. Rest(keys, i) = <<>> <=> i = Len(keys)
  BY <1>1, <1>2, EmptySeq
<1>4. ASSUME i < Len(keys)
      PROVE  /\ Head(Rest(keys, i)) = keys[i + 1]
             /\ Tail(Rest(keys, i)) = Rest(keys, i + 1)
  <2>1. i + 1 \in 1 .. Len(keys) /\ Len(keys) \in i + 1 .. Len(keys)
    BY <1>1, <1>4
  <2> QED
    BY <2>1, HeadTailOfSubSeq DEF Rest
<1> QED
  BY <1>2, <1>3, <1>4

(* An operation begins with nothing written. *)
LEMMA StartInv ==
  ASSUME Inv, NEW name, NEW paths, NEW wanted, NEW keys \in Seq(Ids),
         name # "none", Start(name, paths, wanted, keys),
         Planned(name, paths, store, wanted, keys)
  PROVE  Inv'
<1>1. /\ ~ Running /\ op' = [name |-> name, paths |-> paths] /\ before' = store /\ target' = wanted
      /\ todo' = keys /\ store' = store /\ torn' = torn /\ store = before
  BY DEF Start, Inv
<1>2. Running' /\ op'.name = name /\ op'.paths = paths
  BY <1>1 DEF Running, None
<1>3. store \in Stores
  BY <1>1 DEF Inv, Fine
<1>4. Written(store, wanted, keys, 0) = store
  BY <1>3, WrittenStep
<1>5. Rest(keys, 0) = keys
  BY SubSeqFull DEF Rest
<1>6. UnderWay(keys, 0)'
  BY <1>1, <1>2, <1>4, <1>5 DEF UnderWay
<1>7. 0 \in 0 .. Len(keys)
  BY LenProperties
<1>8. \A i \in Ids \ torn : Agrees(store, i)
  BY <1>1 DEF Inv
<1> QED
  BY <1>1, <1>2, <1>6, <1>7, <1>8 DEF Inv

LEMMA OperationInv ==
  ASSUME Inv,
         \/ MakeRoot
         \/ \E p \in Paths :
              \/ \E t \in {"dir", "file"} : Create(p, t)
              \/ Unlink(p) \/ Rmdir(p)
              \/ \E new \in Paths \ {<<>>} : Rename(p, new)
              \/ \E c \in Contents : Sync(p, c)
  PROVE  Inv'
<1>0. PICK s : s = store
  OBVIOUS
<1>1. ~ Running => Fine(s)
  BY <1>0 DEF Inv
<1>2. ASSUME ~ Running, NEW i, IsInode(s, i)
      PROVE  s \in Stores /\ Intact(s)
  BY <1>1, <1>2 DEF Fine, NoInodes, IsInode
<1>3. CASE MakeRoot
  <2>1. PICK k \in DataGuids :
          s[k] = Undefined /\ Start("makeRoot", << <<>> >>, RootMade(s, k), <<k, Root>>)
    BY <1>0, <1>3 DEF MakeRoot, Free
  <2>2. ~ Running /\ s[Root] = Undefined /\ k \in Ids \ {Root}
    BY <1>0, <1>3, <2>1, LocalStorageAssumption DEF MakeRoot, Start
  <2>3. <<k, Root>> \in Seq(Ids) /\ Planned("makeRoot", << <<>> >>, s, RootMade(s, k), <<k, Root>>)
    BY <1>1, <2>1, <2>2, RootPlanned
  <2> QED
    BY <1>0, <2>1, <2>3, StartInv
<1>4. ASSUME NEW p \in Paths, NEW t \in {"dir", "file"}, Create(p, t)
      PROVE  Inv'
  <2>1. PICK d \in DataGuids, n \in NodeGuids :
          /\ d # n /\ s[d] = Undefined /\ s[n] = Undefined
          /\ Start("create", <<p>>, Created(s, p, t, d, n), <<d, n, s[ParentId(s, p)].data>>)
    BY <1>0, <1>4 DEF Create, Free
  <2>2. ~ Running /\ CanCreate(s, p) /\ d \in Ids \ {Root} /\ n \in Ids \ {Root}
    BY <1>0, <1>4, <2>1, LocalStorageAssumption DEF Create, Start
  <2>3. s \in Stores /\ Intact(s)
    BY <1>2, <2>2 DEF CanCreate, CanCreateIn, HasListing, IsDir
  <2> DEFINE keys == <<d, n, s[ParentId(s, p)].data>>
  <2>4. keys \in Seq(Ids) /\ Planned("create", <<p>>, s, Created(s, p, t, d, n), keys)
    BY <2>1, <2>2, <2>3, CreatePlanned
  <2> HIDE DEF keys
  <2>5. Start("create", <<p>>, Created(s, p, t, d, n), keys)
    BY <2>1 DEF keys
  <2> QED
    BY <1>0, <2>4, <2>5, StartInv
<1>5. ASSUME NEW p \in Paths, Unlink(p) \/ Rmdir(p)
      PROVE  Inv'
  <2> DEFINE keys == <<s[Target(s, p)].data, Target(s, p), s[ParentId(s, p)].data>>
  <2>1. /\ Start("remove", <<p>>, Removed(s, p), keys) /\ ~ Running
        /\ \E t \in {"dir", "file"} : CanRemove(s, p, t)
    BY <1>0, <1>5 DEF Unlink, Rmdir, Start, RemoveKeys
  <2>2. PICK t : CanRemove(s, p, t)
    BY <2>1
  <2>3. s \in Stores /\ Intact(s)
    BY <1>2, <2>1, <2>2 DEF CanRemove, CanRemoveFrom, HasListing, IsDir
  <2>4. keys \in Seq(Ids) /\ Planned("remove", <<p>>, s, Removed(s, p), keys)
    BY <2>2, <2>3, RemovePlanned
  <2> HIDE DEF keys
  <2> QED
    BY <1>0, <2>1, <2>4, StartInv
<1>6. ASSUME NEW old \in Paths, NEW new \in Paths \ {<<>>}, Rename(old, new)
      PROVE  Inv'
  <2> DEFINE victim == Victim(s, old, new)
             dels == IF victim = NoId THEN <<>> ELSE <<s[victim].data, victim>>
             keys == dels \o <<s[ParentId(s, old)].data, s[ParentId(s, new)].data>>
  <2>1. /\ Start("rename", <<old, new>>, Renamed(s, old, new), keys) /\ ~ Running
        /\ CanRename(s, old, new)
    BY <1>0, <1>6 DEF Rename, Start
  <2>2. s \in Stores /\ Intact(s)
    BY <1>2, <2>1 DEF CanRename, CanRenameIn, HasListing, IsDir
  <2>3. keys \in Seq(Ids) /\ Planned("rename", <<old, new>>, s, Renamed(s, old, new), keys)
    BY <2>1, <2>2, RenamePlanned
  <2> HIDE DEF keys
  <2> QED
    BY <1>0, <2>1, <2>3, StartInv
<1>7. ASSUME NEW p \in Paths, NEW c \in Contents, Sync(p, c)
      PROVE  Inv'
  <2> DEFINE keys == <<s[NodeId(s, p)].data, NodeId(s, p)>>
  <2>1. /\ Start("sync", <<p>>, Synced(s, p, c), keys) /\ ~ Running
        /\ IsInode(s, NodeId(s, p)) /\ p # <<>>
    BY <1>0, <1>7 DEF Sync, CanSync, Start
  <2>2. s \in Stores /\ Intact(s)
    BY <1>2, <2>1
  <2>3. keys \in Seq(Ids) /\ Planned("sync", <<p>>, s, Synced(s, p, c), keys)
    BY <2>1, <2>2, SyncPlanned
  <2> HIDE DEF keys
  <2> QED
    BY <1>0, <2>1, <2>3, StartInv
<1> QED
  BY <1>3, <1>4, <1>5, <1>6, <1>7

LEMMA WriteKeyInv ==
  ASSUME Inv, WriteKey
  PROVE  Inv'
<1>0. PICK keys \in Seq(Ids) : \E i \in 0 .. Len(keys) : UnderWay(keys, i)
  BY DEF Inv, WriteKey
<1>1. PICK i \in 0 .. Len(keys) : UnderWay(keys, i)
  BY <1>0
<1>2. Running
  BY DEF Inv, WriteKey
<1>3. Len(keys) \in Nat /\ i < Len(keys) /\ Head(todo) = keys[i + 1] /\ Tail(todo) = Rest(keys, i + 1)
  BY <1>1, RestFacts, LenProperties, SMTT(30), ZenonT(30) DEF WriteKey, UnderWay
<1>4. before \in Stores
  BY DEF Inv, Fine
<1>5. Written(before, target, keys, i + 1) =
        IF target[keys[i + 1]] # Undefined
        THEN Put(Written(before, target, keys, i), keys[i + 1], target[keys[i + 1]])
        ELSE Written(before, target, keys, i)
  <2> PICK b : b = before
    OBVIOUS
  <2> PICK t : t = target
    OBVIOUS
  <2>1. i \in 0 .. Len(keys) - 1
    BY <1>3
  <2>2. b \in Stores
    BY <1>4
  <2>3. /\ Written(b, t, keys, 0) = b
        /\ \A j \in 0 .. Len(keys) - 1 :
             Written(b, t, keys, j + 1) =
               IF t[keys[j + 1]] # Undefined
               THEN Put(Written(b, t, keys, j), keys[j + 1], t[keys[j + 1]])
               ELSE Written(b, t, keys, j)
    BY <2>2, WrittenStep
  <2> QED
    BY <2>1, <2>3
<1>6. store' = Written(before, target, keys, i + 1)
  BY <1>1, <1>3, <1>5 DEF WriteKey, IsPut, UnderWay
<1>7. UnderWay(keys, i + 1)'
  BY <1>1, <1>3, <1>6 DEF WriteKey, UnderWay
<1>8. i + 1 \in 0 .. Len(keys) /\ Running'
  BY <1>2, <1>3 DEF WriteKey, Running
<1>9. /\ todo # <<>> /\ before' = before /\ torn' = torn \ Half
      /\ todo' = <<>> <=> i + 1 = Len(keys)
      /\ Half = HalfAt(op.name, keys, i)
  <2>1. Len(todo) = Len(keys) - i
    BY <1>1, RestFacts DEF UnderWay
  <2>2. todo' = Rest(keys, i + 1)
    BY <1>3 DEF WriteKey
  <2>3. todo' = <<>> <=> i + 1 = Len(keys)
    BY <2>2, <1>8, RestFacts
  <2>4. Len(todo) = 1 <=> i + 1 = Len(keys)
    BY <2>1, <1>3
  <2>5. Half = HalfAt(op.name, keys, i)
    BY <2>4, <1>3 DEF Half, HalfAt
  <2> QED
    BY <2>3, <2>5 DEF WriteKey
<1>10. \A j \in Ids \ torn : Agrees(before, j)
  BY <1>9 DEF Inv
<1>11. \A j \in Ids \ torn' : Agrees(IF todo' = <<>> THEN store' ELSE before', j)
  <2>1. CASE i + 1 # Len(keys)
    <3>1. Half = {}
      BY <2>1, <1>9 DEF HalfAt
    <3> QED
      BY <2>1, <3>1, <1>9, <1>10
  <2>2. CASE i + 1 = Len(keys)
    <3>1. /\ Sound(op.paths, before, store', HalfAt(op.name, keys, i + 1))
          /\ op.name = "sync" => Agrees(store', keys[i + 1])
      BY <2>2, <1>1, <1>6, <1>8 DEF UnderWay, Planned
    <3>2. HalfAt(op.name, keys, i + 1) = {}
      BY <2>2, <1>3 DEF HalfAt
    <3>3. \A j \in Ids : Agrees(before, j) => Agrees(store', j)
      BY <3>1, <3>2 DEF Sound, AgreeStill
    <3>4. \A j \in Half : Agrees(store', j)
      BY <2>2, <3>1, <1>9 DEF HalfAt
    <3> QED
      BY <2>2, <3>3, <3>4, <1>9, <1>10
  <2> QED
    BY <2>1, <2>2
<1>12. Fine(before') /\ \A j \in Ids \ torn' : Agrees(IF Running' /\ todo' = <<>> THEN store' ELSE before', j)
  BY <1>8, <1>9, <1>11 DEF Inv
<1> QED
  BY <1>7, <1>8, <1>12 DEF Inv

(* What is known of the store at every moment *)
LEMMA InvSound ==
  ASSUME Inv
  PROVE  /\ store \in Stores /\ Fine(store)
         /\ ~ Running => store = before /\ todo = <<>>
         /\ Running => \A q \in Paths : Below(op.paths, q) \/ NodeAt(store, q) = NodeAt(before, q)
         /\ Running /\ todo # <<>> /\ IsPut /\ ~ InAddNewNode =>
              Kept(before, Restored(before, store, op.name))
         /\ \A i \in Ids \ (torn \union Half) : Agrees(store, i)
<1>1. CASE ~ Running
  BY <1>1 DEF Inv, Fine
<1>2. CASE Running
  <2>0. PICK keys \in Seq(Ids) : \E i \in 0 .. Len(keys) : UnderWay(keys, i)
    BY <1>2 DEF Inv
  <2>1. PICK i \in 0 .. Len(keys) : UnderWay(keys, i)
    BY <2>0
  <2>2. /\ Len(todo) = Len(keys) - i /\ Len(keys) \in Nat
        /\ (todo # <<>> => i < Len(keys) /\ Head(todo) = keys[i + 1])
        /\ (todo = <<>> => i = Len(keys))
    BY <2>1, RestFacts, LenProperties DEF UnderWay
  <2>3. /\ Sound(op.paths, before, store, HalfAt(op.name, keys, i))
        /\ ThrowsAt(op.name, target, keys, i) => Kept(before, Restored(before, store, op.name))
    BY <2>1, <2>2 DEF UnderWay, Planned
  <2>4. todo # <<>> /\ IsPut /\ ~ InAddNewNode => ThrowsAt(op.name, target, keys, i)
    BY <2>2 DEF IsPut, InAddNewNode, ThrowsAt
  <2>5. HalfAt(op.name, keys, i) \subseteq Half
    BY <2>2 DEF Half, HalfAt
  <2>6. \A k \in Ids \ (torn \union Half) : Agrees(store, k)
    BY <1>2, <2>3, <2>5 DEF Inv, Sound, AgreeStill
  <2> QED
    BY <1>2, <2>3, <2>4, <2>6 DEF Sound, Fine
<1> QED
  BY <1>1, <1>2

LEMMA FinishInv ==
  ASSUME Inv, Finish, Fine(store'), \A i \in Ids \ torn' : Agrees(store', i)
  PROVE  Inv'
BY DEF Inv, Finish, Running, None

LEMMA AbortKeeps ==
  ASSUME Inv, Abort
  PROVE  Kept(before, store')
<1>1. store' = Restored(before, store, op.name)
  BY DEF Abort, Restored, RolledBack
<1>2. Running
  BY DEF Abort, Inv
<1> QED
  BY <1>1, <1>2, InvSound DEF Abort

LEMMA NextInv ==
  ASSUME Inv, [Next]_vars
  PROVE  Inv'
<1>1. CASE WriteKey
  BY <1>1, WriteKeyInv
<1>2. CASE Commit
  <2>1. Finish /\ store' = store /\ torn' = torn /\ Running /\ todo = <<>>
    BY <1>2 DEF Commit
  <2>2. Fine(store) /\ \A i \in Ids \ torn : Agrees(store, i)
    BY <2>1, InvSound DEF Inv
  <2> QED
    BY <2>1, <2>2, FinishInv
<1>3. CASE Reroll
  BY <1>3 DEF Reroll, Inv, UnderWay, Running
<1>4. CASE Abort
  <2>1. Finish /\ torn' = torn /\ todo # <<>>
    BY <1>4 DEF Abort
  <2>2. Fine(store') /\ \A i \in Ids : Agrees(before, i) => Agrees(store', i)
    BY <1>4, AbortKeeps DEF Kept, AgreeStill
  <2>3. \A i \in Ids \ torn : Agrees(before, i)
    BY <2>1 DEF Inv
  <2> QED
    BY <2>1, <2>2, <2>3, FinishInv
<1>5. CASE Crash
  <2>1. Finish /\ store' = store /\ torn' = torn \union Half
    BY <1>5 DEF Crash
  <2> QED
    BY <2>1, InvSound, FinishInv
<1>6. CASE UNCHANGED vars
  BY <1>6 DEF vars, Inv, UnderWay, Running
<1> QED
  BY <1>1, <1>2, <1>3, <1>4, <1>5, <1>6, OperationInv DEF Next

LEMMA InitInv == Init => Inv
BY ConstantsAssumption
DEF Init, Inv, Running, Fine, NoInodes, IsInode, Agrees, IsFile, IsDir, Stores, Undefined

----------------------------------------------------------------------------
(* Between any two puts, and so after a crash or a rollback anywhere, the  *)
(* entries lead where they should, and every inode agrees with its data,   *)
(* but the one _syncSync is about to put, or was when a crash struck.      *)
THEOREM SoundAtEveryPutAlways == Spec => []SoundAtEveryPut
<1>1. Inv => SoundAtEveryPut
  BY InvSound DEF Fine, NoInodes, SoundAtEveryPut
<1> QED
  BY <1>1, InitInv, NextInv, PTL DEF Spec

(* While an operation runs, and if it never gets to its end, every path    *)
(* but its own is as it was.                                               *)
THEOREM OthersUntouchedAlways == Spec => []OthersUntouched
<1>1. Inv => OthersUntouched
  BY InvSound DEF OthersUntouched, Below, Touched
<1> QED
  BY <1>1, InitInv, NextInv, PTL DEF Spec

(* An operation that fails for want of room changes nothing a client sees, *)
(* though it cannot delete what it wrote.                                  *)
THEOREM RollbackAlwaysKeepsTree == Spec => RollbackKeepsTree
<1>1. Inv /\ [Next]_vars => [Abort => TreeOf(store') = TreeOf(before)]_vars
  BY AbortKeeps DEF Kept
<1> QED
  BY <1>1, InitInv, NextInv, PTL DEF Spec, RollbackKeepsTree
=============================================================================
