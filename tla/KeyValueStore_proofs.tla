------------------------- MODULE KeyValueStore_proofs -------------------------
(***************************************************************************)
(* What the operations of KeyValueStore do to a store that is a file       *)
(* system: every one leaves a file system, for all names, keys, contents   *)
(* and depths.  The synchronous and the asynchronous file system rest on   *)
(* these lemmas.  Induction is stated for sets of naturals, which every    *)
(* prover can instantiate.                                                 *)
(***************************************************************************)
EXTENDS KeyValueStore, FiniteSetTheorems, WellFoundedInduction, SequenceTheorems, TLAPS

----------------------------------------------------------------------------
(* Naturals and sequences *)

(* A nonempty set of naturals has a least element. *)
LEMMA LeastElement ==
  ASSUME NEW T, T \subseteq Nat, T # {}
  PROVE  \E x \in T : \A y \in T : x <= y
<1>1. PICK x \in T : \A y \in T : ~ (<<y, x>> \in OpToRel(<, Nat))
  BY NatLessThanWellFounded, WFMin
<1>2. \A y \in T : ~ (y < x)
  BY <1>1 DEF OpToRel
<1> QED
  BY <1>2

(* A set of naturals that holds 0 and every successor holds them all. *)
LEMMA SetInduction ==
  ASSUME NEW T, T \subseteq Nat, 0 \in T, \A n \in T : n + 1 \in T
  PROVE  T = Nat
<1>1. SUFFICES ASSUME Nat \ T # {} PROVE FALSE
  OBVIOUS
<1>2. PICK x \in Nat \ T : \A y \in Nat \ T : x <= y
  BY <1>1, LeastElement
<1>3. x - 1 \in T
  BY <1>2
<1> QED
  BY <1>3, <1>2

(* A nonempty sequence is its front followed by its last element. *)
LEMMA FrontLast ==
  ASSUME NEW S, NEW p \in Seq(S), p # <<>>
  PROVE  /\ Len(p) \in Nat \ {0}
         /\ Front(p) \in [1 .. Len(p) - 1 -> S]
         /\ Len(Front(p)) = Len(p) - 1
         /\ \A i \in 1 .. Len(p) - 1 : Front(p)[i] = p[i]
         /\ Last(p) = p[Len(p)]
         /\ Last(p) \in S
<1>1. PICK s \in Seq(S), e \in S : p = Append(s, e)
  BY SequenceEmptyOrAppend
<1>2. Len(p) = Len(s) + 1 /\ Len(s) \in Nat /\ p[Len(p)] = e
  BY <1>1, AppendProperties, LenProperties
<1>3. \A i \in 1 .. Len(s) : p[i] = s[i]
  BY <1>1, AppendProperties
<1>4. s \in [1 .. Len(s) -> S]
  BY LenProperties
<1>5. Front(p) = s
  BY <1>1, <1>2, SMTT(20) DEF Front
<1>6. Last(p) = e
  BY <1>2 DEF Last
<1> QED
  BY <1>2, <1>3, <1>4, <1>5, <1>6

(* A prefix is found element by element. *)
LEMMA PrefixElements ==
  ASSUME NEW S, NEW p \in Seq(S), NEW q \in Seq(S)
  PROVE  IsPrefix(p, q) <=> Len(p) <= Len(q) /\ \A i \in 1 .. Len(p) : p[i] = q[i]
<1>1. Len(p) \in Nat /\ Len(q) \in Nat
  OBVIOUS
<1>2. CASE Len(p) <= Len(q)
  <2>1. /\ SubSeq(p, 1, Len(p)) \in Seq(S) /\ Len(SubSeq(p, 1, Len(p))) = Len(p)
        /\ \A i \in 1 .. Len(p) : SubSeq(p, 1, Len(p))[i] = p[i]
    BY <1>1, SubSeqProperties
  <2>2. /\ SubSeq(q, 1, Len(p)) \in Seq(S) /\ Len(SubSeq(q, 1, Len(p))) = Len(p)
        /\ \A i \in 1 .. Len(p) : SubSeq(q, 1, Len(p))[i] = q[i]
    BY <1>1, <1>2, SubSeqProperties
  <2> QED
    BY <1>1, <1>2, <2>1, <2>2 DEF IsPrefix
<1>3. CASE ~ Len(p) <= Len(q)
  BY <1>3 DEF IsPrefix
<1> QED
  BY <1>2, <1>3

----------------------------------------------------------------------------
(* Paths and lookups *)

(* dirname shortens a path by its basename, and the two determine it. *)
LEMMA PathFacts ==
  /\ <<>> \in Paths
  /\ \A p \in Paths : /\ Len(p) \in 0 .. MaxDepth
                      /\ Dirname(p) \in Paths
                      /\ Basename(p) \in FileNames
  /\ \A p \in Paths \ {<<>>} : /\ Len(p) > 0
                               /\ Front(p) \in Paths
                               /\ Len(Front(p)) = Len(p) - 1
                               /\ Last(p) \in Names
                               /\ Dirname(p) = Front(p) /\ Basename(p) = Last(p)
  /\ \A p, q \in Paths \ {<<>>} : Front(p) = Front(q) /\ Last(p) = Last(q) => p = q
<1> USE ConstantsAssumption
<1>1. <<>> \in Paths
  <2>1. <<>> \in [1..0 -> Names]
    OBVIOUS
  <2> QED
    BY <2>1 DEF Paths, SeqOf
<1>2. \A p \in Paths : /\ Len(p) \in 0 .. MaxDepth
                       /\ p \in [1 .. Len(p) -> Names]
                       /\ p \in Seq(Names)
  BY DEF Paths, SeqOf
<1>3. \A p \in Paths \ {<<>>} : Len(p) > 0
  BY <1>2
<1>4. ASSUME NEW p \in Paths \ {<<>>}
      PROVE  /\ Front(p) \in [1 .. Len(p) - 1 -> Names]
             /\ Len(Front(p)) = Len(p) - 1
             /\ Last(p) \in Names
             /\ \A i \in 1 .. Len(p) - 1 : Front(p)[i] = p[i]
             /\ Last(p) = p[Len(p)]
  BY <1>2, FrontLast
<1>5. ASSUME NEW p \in Paths \ {<<>>}
      PROVE  Front(p) \in Paths
  <2>1. Len(p) - 1 \in 0 .. MaxDepth
    BY <1>2, <1>3
  <2> QED
    BY <1>4, <2>1 DEF Paths, SeqOf
<1>6. ASSUME NEW p \in Paths \ {<<>>}, NEW q \in Paths \ {<<>>},
             Front(p) = Front(q), Last(p) = Last(q)
      PROVE  p = q
  <2>1. Len(p) = Len(q)
    BY <1>2, <1>4, <1>6
  <2>2. \A i \in 1 .. Len(p) : p[i] = q[i]
    <3> TAKE i \in 1 .. Len(p)
    <3>1. CASE i = Len(p)
      BY <1>2, <1>4, <1>6, <2>1, <3>1
    <3>2. CASE i # Len(p)
      BY <1>2, <1>4, <1>6, <2>1, <3>2
    <3> QED
      BY <3>1, <3>2
  <2> QED
    BY <1>2, <2>1, <2>2
<1>7. ASSUME NEW p \in Paths
      PROVE  /\ Dirname(p) \in Paths
             /\ Basename(p) \in FileNames
             /\ p # <<>> => Dirname(p) = Front(p) /\ Basename(p) = Last(p)
  BY <1>1, <1>4, <1>5 DEF Dirname, Basename, FileNames
<1> QED
  BY <1>1, <1>2, <1>3, <1>4, <1>5, <1>6, <1>7

(* What leads to a path leads to its parent, or is the path. *)
LEMMA PrefixOfFront ==
  /\ \A q \in Paths : IsPrefix(<<>>, q) /\ IsPrefix(q, q)
  /\ \A p \in Paths, q \in Paths \ {<<>>} :
       IsPrefix(p, q) /\ p # q => IsPrefix(p, Front(q))
<1>1. \A q \in Paths : q \in Seq(Names) /\ Len(q) \in Nat
  BY PathFacts, ConstantsAssumption DEF Paths, SeqOf
<1>2. \A q \in Paths : IsPrefix(<<>>, q) /\ IsPrefix(q, q)
  <2> TAKE q \in Paths
  <2>1. IsPrefix(q, q)
    BY <1>1, PrefixElements
  <2>2. IsPrefix(<<>>, q)
    BY <1>1, PathFacts, PrefixElements
  <2> QED
    BY <2>1, <2>2
<1>3. ASSUME NEW p \in Paths, NEW q \in Paths \ {<<>>}, IsPrefix(p, q), p # q
      PROVE  IsPrefix(p, Front(q))
  <2>1. Len(p) <= Len(q) /\ \A i \in 1 .. Len(p) : p[i] = q[i]
    BY <1>1, <1>3, PrefixElements
  <2>2. Len(p) # Len(q)
    BY <1>1, <1>3, <2>1
  <2>3. /\ Len(Front(q)) = Len(q) - 1 /\ Front(q) \in Paths
        /\ \A i \in 1 .. Len(q) - 1 : Front(q)[i] = q[i]
    BY <1>1, FrontLast, PathFacts
  <2>4. Len(p) <= Len(Front(q)) /\ \A i \in 1 .. Len(p) : p[i] = Front(q)[i]
    BY <1>1, <2>1, <2>2, <2>3
  <2> QED
    BY <1>1, <2>3, <2>4, PrefixElements
<1> QED
  BY <1>2, <1>3

(* A path is below another when its parent is, or is the other. *)
LEMMA PrefixThroughFront ==
  /\ \A p \in Paths \ {<<>>} : ~ IsPrefix(p, <<>>) /\ ~ IsPrefix(p, Front(p))
  /\ \A p \in Paths, q \in Paths \ {<<>>} :
       IsPrefix(p, Front(q)) => IsPrefix(p, q) /\ p # q
  /\ \A p \in Paths, q \in Paths \ {<<>>} :
       p # q => (IsPrefix(p, q) <=> IsPrefix(p, Front(q)))
<1>1. \A q \in Paths : q \in Seq(Names) /\ Len(q) \in Nat
  BY PathFacts, ConstantsAssumption DEF Paths, SeqOf
<1>2. ASSUME NEW p \in Paths \ {<<>>}
      PROVE  ~ IsPrefix(p, <<>>) /\ ~ IsPrefix(p, Front(p))
  <2>1. Len(p) > 0 /\ Len(Front(p)) < Len(p) /\ Len(<<>>) = 0 /\ Front(p) \in Paths
    BY PathFacts, <1>1
  <2> QED
    BY <1>1, <2>1, PathFacts, PrefixElements
<1>3. ASSUME NEW p \in Paths, NEW q \in Paths \ {<<>>}, IsPrefix(p, Front(q))
      PROVE  IsPrefix(p, q) /\ p # q
  <2>1. /\ Front(q) \in Paths /\ Len(Front(q)) = Len(q) - 1 /\ Len(q) > 0
        /\ \A i \in 1 .. Len(q) - 1 : Front(q)[i] = q[i]
    BY <1>1, FrontLast, PathFacts
  <2>2. Len(p) <= Len(Front(q)) /\ \A i \in 1 .. Len(p) : p[i] = Front(q)[i]
    BY <1>1, <1>3, <2>1, PrefixElements
  <2>3. Len(p) < Len(q) /\ \A i \in 1 .. Len(p) : p[i] = q[i]
    BY <1>1, <2>1, <2>2
  <2> QED
    BY <1>1, <2>3, PrefixElements
<1> QED
  BY <1>2, <1>3, PrefixOfFront

(* A path that is not the longest goes on with every name. *)
LEMMA PathExtends ==
  ASSUME NEW r \in Paths, Len(r) # MaxDepth, NEW n \in Names
  PROVE  \E a \in Paths \ {<<>>} : Front(a) = r /\ Last(a) = n
<1> DEFINE a == Append(r, n)
<1>1. r \in Seq(Names) /\ Len(r) \in 0 .. MaxDepth
  BY PathFacts, ConstantsAssumption DEF Paths, SeqOf
<1>2. /\ a \in Seq(Names) /\ Len(a) = Len(r) + 1 /\ a[Len(a)] = n
      /\ \A i \in 1 .. Len(r) : a[i] = r[i]
  BY <1>1, AppendProperties
<1> HIDE DEF a
<1>3. a # <<>> /\ Len(a) \in 0 .. MaxDepth /\ a \in [1 .. Len(a) -> Names]
  BY <1>1, <1>2, LenProperties, ConstantsAssumption
<1>4. a \in Paths \ {<<>>}
  BY <1>3 DEF Paths, SeqOf
<1>5. /\ Front(a) \in [1 .. Len(a) - 1 -> Names]
      /\ \A i \in 1 .. Len(a) - 1 : Front(a)[i] = a[i]
      /\ Last(a) = a[Len(a)]
  BY <1>2, <1>3, FrontLast
<1>6. Front(a) = r
  BY <1>1, <1>2, <1>5, LenProperties
<1> QED
  BY <1>2, <1>4, <1>5, <1>6

(* _findINode walks down from where it knows the ids (the root, or what a  *)
(* cache has): the recursion is well founded, and each path further down   *)
(* is looked up in the listing of its parent.                              *)
Walked(s, known, f) ==
  [p \in Paths |-> IF p \in DOMAIN known THEN known[p]
                   ELSE IF p = <<>> THEN NoId ELSE Entry(s, f[Front(p)], Last(p))]
LEMMA WalkExists ==
  ASSUME NEW s, NEW known
  PROVE  \E f : f = Walked(s, known, f)
<1> DEFINE Step(g) == Walked(s, known, g)
           Upto == {n \in Nat : \E g : \A p \in Paths : Len(p) <= n => g[p] = Step(g)[p]}
<1>1. 0 \in Upto
  <2> DEFINE g == [p \in Paths |-> IF p \in DOMAIN known THEN known[p] ELSE NoId]
  <2>1. \A p \in Paths : Len(p) <= 0 => p = <<>>
    BY PathFacts
  <2>2. \A p \in Paths : Len(p) <= 0 => g[p] = Step(g)[p]
    BY <2>1 DEF Walked
  <2> QED
    BY <2>2
<1>2. ASSUME NEW n \in Upto
      PROVE  n + 1 \in Upto
  <2>1. PICK g : \A p \in Paths : Len(p) <= n => g[p] = Step(g)[p]
    OBVIOUS
  <2> DEFINE h == Step(g)
  <2>2. ASSUME NEW p \in Paths, Len(p) <= n + 1
        PROVE  h[p] = Step(h)[p]
    <3>1. CASE p = <<>> \/ p \in DOMAIN known
      BY <3>1 DEF Walked
    <3>2. CASE p # <<>> /\ p \notin DOMAIN known
      <4>1. Front(p) \in Paths /\ Len(Front(p)) <= n
        BY <2>2, <3>2, PathFacts, n \in Nat
      <4>2. h[Front(p)] = g[Front(p)]
        BY <4>1, <2>1
      <4> HIDE DEF h
      <4>3. Step(h)[p] = Entry(s, h[Front(p)], Last(p))
        BY <3>2 DEF Walked
      <4>4. h[p] = Entry(s, g[Front(p)], Last(p))
        BY <3>2 DEF h, Walked
      <4> QED
        BY <4>2, <4>3, <4>4
    <3> QED
      BY <3>1, <3>2
  <2> HIDE DEF h
  <2> QED
    BY <2>2
<1>3. MaxDepth \in Upto
  <2> HIDE DEF Upto
  <2>1. Upto = Nat
    <3>1. Upto \subseteq Nat
      BY DEF Upto
    <3> QED
      BY <1>1, <1>2, <3>1, SetInduction
  <2> QED
    BY <2>1, ConstantsAssumption
<1>4. PICK g : \A p \in Paths : g[p] = Step(g)[p]
  <2>1. PICK g : \A p \in Paths : Len(p) <= MaxDepth => g[p] = Step(g)[p]
    BY <1>3
  <2> QED
    BY <2>1, PathFacts
<1> DEFINE f == [p \in Paths |-> g[p]]
<1>5. \A p \in Paths : f[p] = Step(f)[p]
  <2> TAKE p \in Paths
  <2>1. f[p] = Step(g)[p]
    BY <1>4
  <2>2. p # <<>> => f[Front(p)] = g[Front(p)]
    BY PathFacts
  <2> HIDE DEF f
  <2> QED
    BY <2>1, <2>2 DEF Walked
<1> HIDE DEF f
<1>6. f = [p \in Paths |-> f[p]]
  BY DEF f
<1>7. f = Step(f)
  BY <1>5, <1>6 DEF Walked
<1> QED
  BY <1>7

LEMMA NodeIdDef ==
  ASSUME NEW s
  PROVE  \A p \in Paths :
           NodeId(s, p) = IF p = <<>> THEN Root ELSE Entry(s, NodeId(s, Front(p)), Last(p))
<1> DEFINE Step(g) == [p \in Paths |->
                        IF p = <<>> THEN Root ELSE Entry(s, g[Front(p)], Last(p))]
           known == [p \in {<<>>} |-> Root]
<1>1. \A g : Step(g) = Walked(s, known, g)
  BY DEF Walked
<1>2. \E f : f = Step(f)
  <2>1. PICK f : f = Walked(s, known, f)
    BY WalkExists
  <2> HIDE DEF Step
  <2>2. f = Step(f)
    BY <1>1, <2>1
  <2> QED
    BY <2>2
<1>3. NodeIds(s) = CHOOSE f : f = Step(f)
  BY DEF NodeIds
<1>4. NodeIds(s) = Step(NodeIds(s))
  <2> HIDE DEF Step
  <2> QED
    BY <1>2, <1>3
<1> QED
  BY <1>4, PathFacts DEF NodeId

(* All that lookups rest on: entries lead to inodes, each under one name. *)
Linked(s) == NoDanglingEntry(s) /\ NoDoubleEntry(s)

(* A path is the only path to its inode. *)
LEMMA LinkedInjective ==
  ASSUME NEW s, Linked(s)
  PROVE  \A p, q \in Paths :
           NodeId(s, p) = NodeId(s, q) /\ NodeId(s, p) # NoId => p = q
<1> DEFINE Same(p, q) == NodeId(s, p) = NodeId(s, q) /\ NodeId(s, p) # NoId
           Good == {n \in Nat : \A p, q \in Paths : Len(p) = n /\ Same(p, q) => p = q}
<1>1. NodeId(s, <<>>) = Root
  BY NodeIdDef, PathFacts
<1>2. ASSUME NEW p \in Paths \ {<<>>}, NodeId(s, p) # NoId
      PROVE  /\ NodeId(s, p) = Entry(s, NodeId(s, Front(p)), Last(p))
             /\ NodeId(s, Front(p)) \in Ids
             /\ NodeId(s, p) # Root
  <2>1. NodeId(s, p) = Entry(s, NodeId(s, Front(p)), Last(p))
    BY NodeIdDef
  <2>2. NodeId(s, Front(p)) \in Ids
    BY <1>2, <2>1 DEF Entry, HasListing, IsDir, IsInode
  <2> QED
    BY <1>2, <2>1, <2>2, PathFacts DEF Linked, NoDanglingEntry, FileNames
<1>3. 0 \in Good
  <2> SUFFICES ASSUME NEW p \in Paths, NEW q \in Paths, Len(p) = 0, Same(p, q)
               PROVE  p = q
    OBVIOUS
  <2>1. p = <<>>
    BY PathFacts
  <2> QED
    BY <2>1, <1>1, <1>2
<1>4. ASSUME NEW n \in Good
      PROVE  n + 1 \in Good
  <2> SUFFICES ASSUME NEW p \in Paths, NEW q \in Paths, Len(p) = n + 1, Same(p, q)
               PROVE  p = q
    OBVIOUS
  <2>1. p # <<>> /\ Len(Front(p)) = n /\ Front(p) \in Paths
    BY PathFacts, <1>4
  <2>2. q # <<>>
    BY <2>1, <1>1, <1>2
  <2>3. NodeId(s, Front(p)) = NodeId(s, Front(q)) /\ Last(p) = Last(q)
    BY <2>1, <2>2, <1>2, PathFacts DEF Linked, NoDoubleEntry, FileNames
  <2>4. Front(p) = Front(q)
    BY <2>1, <2>2, <2>3, <1>2, PathFacts, ConstantsAssumption
  <2> QED
    BY <2>1, <2>2, <2>3, <2>4, PathFacts
<1>5. Good = Nat
  <2>1. Good \subseteq Nat
    OBVIOUS
  <2> HIDE DEF Good
  <2> QED
    BY <1>3, <1>4, <2>1, SetInduction
<1> QED
  BY <1>5, PathFacts
LEMMA LookupInjective ==
  ASSUME NEW s, WellFormed(s)
  PROVE  \A p, q \in Paths :
           NodeId(s, p) = NodeId(s, q) /\ NodeId(s, p) # NoId => p = q
BY LinkedInjective DEF WellFormed, Linked

(* A step that keeps the entries on the way to every path that is there,   *)
(* but for some with nothing below, keeps what those paths name.           *)
LEMMA LookupsKept ==
  ASSUME NEW s, NEW u, NEW X,
         \A q \in Paths \ {<<>>} :
           q \notin X /\ NodeId(s, q) # NoId /\ NodeId(s, Front(q)) \in Ids =>
             /\ Front(q) \notin X
             /\ Entry(u, NodeId(s, Front(q)), Last(q)) = Entry(s, NodeId(s, Front(q)), Last(q))
  PROVE  \A q \in Paths : q \notin X /\ NodeId(s, q) # NoId => NodeId(u, q) = NodeId(s, q)
<1> DEFINE Good == {n \in Nat : \A q \in Paths :
                      Len(q) = n /\ q \notin X /\ NodeId(s, q) # NoId => NodeId(u, q) = NodeId(s, q)}
<1>1. 0 \in Good
  <2> SUFFICES ASSUME NEW q \in Paths, Len(q) = 0
               PROVE  NodeId(u, q) = NodeId(s, q)
    OBVIOUS
  <2>1. q = <<>>
    BY PathFacts
  <2> QED
    BY <2>1, NodeIdDef
<1>2. ASSUME NEW n \in Good
      PROVE  n + 1 \in Good
  <2> SUFFICES ASSUME NEW q \in Paths, Len(q) = n + 1, q \notin X, NodeId(s, q) # NoId
               PROVE  NodeId(u, q) = NodeId(s, q)
    OBVIOUS
  <2>1. q # <<>> /\ Len(Front(q)) = n /\ Front(q) \in Paths
    BY PathFacts, <1>2
  <2>2. /\ NodeId(s, q) = Entry(s, NodeId(s, Front(q)), Last(q))
        /\ NodeId(u, q) = Entry(u, NodeId(u, Front(q)), Last(q))
    BY <2>1, NodeIdDef
  <2>3. NodeId(s, Front(q)) \in Ids /\ NodeId(s, Front(q)) # NoId
    BY <2>2, ConstantsAssumption DEF Entry, HasListing, IsDir, IsInode
  <2>4. NodeId(u, Front(q)) = NodeId(s, Front(q))
    BY <2>1, <2>3
  <2> QED
    BY <2>1, <2>2, <2>3, <2>4
<1>3. Good = Nat
  <2>1. Good \subseteq Nat
    OBVIOUS
  <2> HIDE DEF Good
  <2> QED
    BY <1>1, <1>2, <2>1, SetInduction
<1> QED
  BY <1>3, PathFacts

----------------------------------------------------------------------------
(* What a store of the right type holds, and what it holds when it is well *)
(* formed, key by key.                                                     *)
LEMMA StoreFacts ==
  ASSUME NEW s \in Stores
  PROVE  /\ \A i \in Ids : IsInode(s, i) => s[i].type \in {"dir", "file"} /\ s[i].data \in Ids
         /\ \A i \in Ids : HasListing(s, i) => Ls(s, i) \in [FileNames -> Ids \union {NoId}]
         /\ \A k \in Ids : s[k] # Undefined <=> s[k].kind # "none"
         /\ \A d \in Ids, n \in FileNames : Entry(s, d, n) \in Ids \union {NoId}
<1>1. \A k \in Ids : s[k] \in Inodes \union Listings \union Blobs \union {Undefined}
  BY DEF Stores
<1>2. \A i \in Ids : IsInode(s, i) => s[i].type \in {"dir", "file"} /\ s[i].data \in Ids
  BY <1>1 DEF IsInode, Inodes, Listings, Blobs, Undefined
<1>3. \A i \in Ids : HasListing(s, i) => Ls(s, i) \in [FileNames -> Ids \union {NoId}]
  BY <1>1, <1>2 DEF HasListing, IsDir, Ls, Inodes, Listings, Blobs, Undefined
<1>4. \A k \in Ids : s[k] # Undefined <=> s[k].kind # "none"
  BY <1>1 DEF Inodes, Listings, Blobs, Undefined
<1> QED
  BY <1>2, <1>3, <1>4 DEF Entry

(* An entry is found only in the listing of a directory inode. *)
LEMMA LinkedEntry ==
  ASSUME NEW s \in Stores, Linked(s), NEW d \in Ids, NEW n \in FileNames,
         Entry(s, d, n) # NoId
  PROVE  /\ HasListing(s, d) /\ IsDir(s, d)
         /\ Entry(s, d, n) = Ls(s, d)[n]
         /\ IsInode(s, Entry(s, d, n)) /\ Entry(s, d, n) \in Ids \ {Root}
BY DEF Entry, HasListing, Linked, NoDanglingEntry, IsInode
LEMMA EntryFacts ==
  ASSUME NEW s \in Stores, WellFormed(s), NEW d \in Ids, NEW n \in FileNames,
         Entry(s, d, n) # NoId
  PROVE  /\ HasListing(s, d) /\ IsDir(s, d)
         /\ Entry(s, d, n) = Ls(s, d)[n]
         /\ IsInode(s, Entry(s, d, n)) /\ Entry(s, d, n) \in Ids \ {Root}
BY LinkedEntry DEF WellFormed, Linked

(* What stat and readFile find at an inode: NodeAt of a path that names it. *)
NodeOf(s, i) ==
  IF IsFile(s, i) THEN [type |-> "file", bytes |-> s[s[i].data].bytes]
  ELSE IF IsDir(s, i) THEN [type |-> "dir"] ELSE [type |-> "absent"]

(* In a well-formed store every directory has its listing. *)
LEMMA DirsHaveListings ==
  ASSUME NEW s \in Stores, WellFormed(s), NEW d \in Ids
  PROVE  HasListing(s, d) <=> IsDir(s, d)
BY DEF WellFormed, DataMatchesType, HasListing, IsDir

----------------------------------------------------------------------------
(* commitNewFile, with GUIDs nobody uses: the new node is the one change.   *)
LEMMA CreatedInSound ==
  ASSUME NEW s \in Stores, WellFormed(s),
         NEW parent, NEW name \in FileNames, CanCreateIn(s, parent, name), NEW t \in {"dir", "file"},
         NEW dataId \in Ids \ {Root}, NEW nodeId \in Ids \ {Root},
         dataId # nodeId, s[dataId] = Undefined, s[nodeId] = Undefined
  PROVE  LET u == CreatedIn(s, parent, name, t, dataId, nodeId)
         IN /\ u \in Stores /\ WellFormed(u) /\ (OrphanFree(s) => OrphanFree(u))
            /\ \A d \in Ids, n \in FileNames :
                 Entry(s, d, n) # NoId => Entry(u, d, n) = Entry(s, d, n)
            /\ \A d \in Ids, n \in FileNames :
                 Entry(u, d, n) = IF d = parent /\ n = name THEN nodeId ELSE Entry(s, d, n)
            /\ \A i \in Ids : IsInode(u, i) <=> IsInode(s, i) \/ i = nodeId
            /\ \A i \in Ids \ {nodeId} : NodeOf(u, i) = NodeOf(s, i)
            /\ NodeOf(u, nodeId) = IF t = "dir" THEN [type |-> "dir"]
                                   ELSE [type |-> "file", bytes |-> Empty]
<1> DEFINE u == CreatedIn(s, parent, name, t, dataId, nodeId)
           dir == s[parent].data
           data == IF t = "dir" THEN EmptyDirNode ELSE Blob(Empty)
           list == Listing([Ls(s, parent) EXCEPT ![name] = nodeId])
<1>1. /\ parent \in Ids /\ IsDir(s, parent) /\ HasListing(s, parent)
      /\ Entry(s, parent, name) = NoId
  BY DEF CanCreateIn, HasListing, IsDir, IsInode
<1>2. /\ dir \in Ids /\ s[dir].kind = "listing"
      /\ dir # dataId /\ dir # nodeId /\ parent # dataId /\ parent # nodeId /\ parent # dir
  BY <1>1, StoreFacts DEF HasListing, IsDir, IsInode, Undefined
<1>3. u = [k \in Ids |-> CASE k = dir -> list [] k = nodeId -> Inode(t, dataId, Empty)
                           [] k = dataId -> data [] OTHER -> s[k]]
  BY <1>2 DEF CreatedIn, Put, PutNew, Stores
<1>4. list \in Listings /\ Inode(t, dataId, Empty) \in Inodes /\ data \in Listings \union Blobs
  BY <1>1, StoreFacts, ConstantsAssumption
  DEF Listing, Listings, Inode, Inodes, Blob, Blobs, EmptyDirNode
<1>5. u \in Stores
  BY <1>3, <1>4 DEF Stores
<1>6. /\ u[nodeId].kind = "inode" /\ u[nodeId].type = t /\ u[nodeId].data = dataId
      /\ u[dataId].kind = IF t = "dir" THEN "listing" ELSE "blob"
      /\ IF t = "dir" THEN u[dataId].ls = [n \in FileNames |-> NoId]
         ELSE u[dataId].bytes = Empty
      /\ u[dir].kind = "listing" /\ u[dir].ls = [Ls(s, parent) EXCEPT ![name] = nodeId]
      /\ \A k \in Ids \ {dir, nodeId, dataId} : u[k] = s[k]
  BY <1>2, <1>3 DEF Inode, Listing, EmptyDirNode, Blob
<1> HIDE DEF u, list, data
<1>7. \A i \in Ids : IsInode(u, i) <=> IsInode(s, i) \/ i = nodeId
  BY <1>2, <1>6 DEF IsInode, Undefined
<1>8. \A i \in Ids \ {nodeId} : IsInode(s, i) =>
        /\ u[i] = s[i] /\ s[i].data \in Ids
        /\ s[i].data \notin {dataId, nodeId}
        /\ u[s[i].data].kind = s[s[i].data].kind
        /\ s[i].data = dir => i = parent
  BY <1>1, <1>2, <1>6, StoreFacts DEF IsInode, IsDir, WellFormed, DataMatchesType, NoSharedData, Undefined
<1>9. \A d \in Ids, n \in FileNames :
        Entry(u, d, n) = IF d = parent /\ n = name THEN nodeId ELSE Entry(s, d, n)
  <2> TAKE d \in Ids, n \in FileNames
  <2>1. CASE d = nodeId
    BY <2>1, <1>2, <1>6 DEF Entry, HasListing, IsDir, IsInode, Ls, Undefined
  <2>2. CASE d = parent
    BY <2>2, <1>1, <1>2, <1>6, <1>8, StoreFacts, SMTT(30), ZenonT(30) DEF Entry, HasListing, IsDir, IsInode, Ls
  <2>3. CASE d \notin {nodeId, parent} /\ IsInode(s, d)
    BY <2>3, <1>6, <1>7, <1>8 DEF Entry, HasListing, IsDir, Ls
  <2>4. CASE d # nodeId /\ ~ IsInode(s, d)
    BY <2>4, <1>1, <1>7 DEF Entry, HasListing, IsDir
  <2> QED
    BY <2>1, <2>2, <2>3, <2>4
<1>10. WellFormed(u)
  <2>1. RootIsDirectory(u)
    BY <1>2, <1>6, <1>7, <1>8, ConstantsAssumption
    DEF WellFormed, RootIsDirectory, HasListing, IsDir
  <2>2. DataMatchesType(u)
    BY <1>6, <1>7, <1>8 DEF WellFormed, DataMatchesType
  <2>3. NoSharedData(u)
    BY <1>6, <1>7, <1>8 DEF WellFormed, NoSharedData
  <2>4. NoDanglingEntry(u)
    BY <1>7, <1>9, EntryFacts DEF NoDanglingEntry
  <2>5. NoDoubleEntry(u)
    <3>1. \A d \in Ids, n \in FileNames : Entry(s, d, n) # nodeId
      BY ConstantsAssumption DEF WellFormed, NoDanglingEntry, IsInode, Undefined
    <3> QED
      BY <3>1, <1>9 DEF WellFormed, NoDoubleEntry
  <2> QED
    BY <2>1, <2>2, <2>3, <2>4, <2>5 DEF WellFormed
<1>11. OrphanFree(s) => OrphanFree(u)
  <2> SUFFICES ASSUME OrphanFree(s), NEW k \in Ids PROVE ~ Orphan(u, k)
    BY DEF OrphanFree
  <2>1. CASE k = nodeId
    BY <2>1, <1>1, <1>7, <1>9 DEF Orphan
  <2>2. CASE k \in {dataId, dir}
    <3>1. ~ IsInode(u, k)
      BY <2>2, <1>6 DEF IsInode
    <3>2. IsInode(u, nodeId) /\ u[nodeId].data = dataId
      BY <1>6, <1>7
    <3>3. IsInode(u, parent) /\ u[parent].data = dir
      BY <1>1, <1>2, <1>7, <1>8 DEF IsDir
    <3> QED
      BY <2>2, <3>1, <3>2, <3>3, <1>1 DEF Orphan
  <2>3. CASE k \notin {nodeId, dataId, dir} /\ IsInode(s, k)
    BY <2>3, <1>1, <1>6, <1>7, <1>9, StoreFacts, ConstantsAssumption DEF Orphan, OrphanFree, IsInode, Undefined
  <2>4. CASE k \notin {nodeId, dataId, dir} /\ ~ IsInode(s, k)
    BY <2>4, <1>6, <1>7, <1>8 DEF Orphan, OrphanFree, IsInode, Undefined
  <2> QED
    BY <2>1, <2>2, <2>3, <2>4
<1>12. \A i \in Ids \ {nodeId} : NodeOf(u, i) = NodeOf(s, i)
  <2> TAKE i \in Ids \ {nodeId}
  <2>1. CASE IsFile(s, i)
    <3>1. IsInode(s, i) /\ s[i].data # dir
      BY <2>1, <1>1, <1>8 DEF IsFile, IsDir
    <3>2. u[i] = s[i] /\ u[s[i].data] = s[s[i].data]
      BY <3>1, <1>6, <1>8
    <3> QED
      BY <2>1, <3>1, <3>2, <1>7 DEF NodeOf, IsFile
  <2>2. CASE ~ IsFile(s, i)
    BY <2>2, <1>7, <1>8 DEF NodeOf, IsFile, IsDir
  <2> QED
    BY <2>1, <2>2
<1>13. NodeOf(u, nodeId) = IF t = "dir" THEN [type |-> "dir"]
                           ELSE [type |-> "file", bytes |-> Empty]
  BY <1>6, <1>7 DEF NodeOf, IsFile, IsDir
<1> QED
  BY <1>1, <1>5, <1>7, <1>9, <1>10, <1>11, <1>12, <1>13 DEF u

(* commitNewFile of a path *)
LEMMA CreatedSound ==
  ASSUME NEW s \in Stores, WellFormed(s),
         NEW p \in Paths, CanCreate(s, p), NEW t \in {"dir", "file"},
         NEW dataId \in Ids \ {Root}, NEW nodeId \in Ids \ {Root},
         dataId # nodeId, s[dataId] = Undefined, s[nodeId] = Undefined
  PROVE  LET u == Created(s, p, t, dataId, nodeId)
         IN u \in Stores /\ WellFormed(u) /\ (OrphanFree(s) => OrphanFree(u))
<1>1. Basename(p) \in FileNames /\ CanCreateIn(s, ParentId(s, p), Basename(p))
  BY PathFacts DEF CanCreate
<1> QED
  BY <1>1, CreatedInSound DEF Created

----------------------------------------------------------------------------
(* removeEntry: the node, its data and its entry go, nothing else changes.  *)
LEMMA RemovedFromSound ==
  ASSUME NEW s \in Stores, WellFormed(s),
         NEW parent, NEW name \in FileNames, NEW t \in {"dir", "file"},
         CanRemoveFrom(s, parent, name, t)
  PROVE  LET u == RemovedFrom(s, parent, name)
         IN /\ u \in Stores /\ WellFormed(u)
            /\ OrphanFree(s) /\ (t = "dir" => IsEmptyDirAt(s, Entry(s, parent, name)))
                 => OrphanFree(u)
            /\ \A d \in Ids, n \in FileNames :
                 Entry(u, d, n) = IF d = Entry(s, parent, name) \/ (d = parent /\ n = name)
                                  THEN NoId ELSE Entry(s, d, n)
            /\ \A i \in Ids : IsInode(u, i) <=> IsInode(s, i) /\ i # Entry(s, parent, name)
            /\ \A i \in Ids \ {Entry(s, parent, name)} : NodeOf(u, i) = NodeOf(s, i)
            /\ NodeOf(u, Entry(s, parent, name)) = [type |-> "absent"]
<1> DEFINE u == RemovedFrom(s, parent, name)
           node == Entry(s, parent, name)
           dir == s[parent].data
           data == s[node].data
           list == Listing([Ls(s, parent) EXCEPT ![name] = NoId])
<1>1. /\ parent \in Ids /\ IsDir(s, parent) /\ HasListing(s, parent)
      /\ node \in Ids \ {Root} /\ IsInode(s, node) /\ s[node].type = t
  BY EntryFacts DEF CanRemoveFrom, HasListing, IsDir, IsInode
<1>2. /\ dir \in Ids /\ s[dir].kind = "listing"
      /\ data \in Ids /\ s[data].kind = IF t = "dir" THEN "listing" ELSE "blob"
      /\ dir # node /\ data # node /\ parent # data /\ parent # dir
      /\ node # parent => dir # data
  BY <1>1, StoreFacts
  DEF HasListing, IsDir, IsInode, WellFormed, DataMatchesType, NoSharedData
<1>3. u = [k \in Ids |-> IF k = dir THEN list ELSE IF k \in {node, data} THEN Undefined ELSE s[k]]
  BY <1>1, <1>2 DEF RemovedFrom, Del, Put, Stores
<1>4. u \in Stores
  BY <1>1, <1>3, StoreFacts DEF Listing, Listings, Stores
<1>5. /\ u[node].kind = "none" /\ u[data].kind \in {"none", "listing"}
      /\ u[dir].kind = "listing" /\ u[dir].ls = [Ls(s, parent) EXCEPT ![name] = NoId]
      /\ \A k \in Ids \ {dir, node, data} : u[k] = s[k]
  BY <1>1, <1>2, <1>3 DEF Listing, Undefined
<1> HIDE DEF u, list
<1>6. \A i \in Ids : IsInode(u, i) <=> IsInode(s, i) /\ i # node
  BY <1>2, <1>5 DEF IsInode
<1>7. \A i \in Ids \ {node} : IsInode(s, i) =>
        /\ u[i] = s[i] /\ s[i].data \in Ids
        /\ s[i].data \notin {data, node}
        /\ u[s[i].data].kind = s[s[i].data].kind
        /\ s[i].data = dir => i = parent
  BY <1>1, <1>2, <1>5, StoreFacts DEF IsInode, IsDir, WellFormed, DataMatchesType, NoSharedData
<1>8. \A d \in Ids, n \in FileNames :
        Entry(u, d, n) = IF d = node \/ (d = parent /\ n = name) THEN NoId ELSE Entry(s, d, n)
  <2> TAKE d \in Ids, n \in FileNames
  <2>1. CASE d = node \/ ~ IsInode(s, d)
    BY <2>1, <1>1, <1>6 DEF Entry, HasListing, IsDir
  <2>2. CASE d = parent /\ d # node
    <3>1. HasListing(u, parent) /\ Ls(u, parent) = [Ls(s, parent) EXCEPT ![name] = NoId]
      BY <2>2, <1>1, <1>2, <1>5, <1>6, <1>7 DEF HasListing, IsDir, Ls
    <3>2. Ls(s, parent) \in [FileNames -> Ids \union {NoId}]
      BY <1>1, StoreFacts
    <3> QED
      BY <2>2, <3>1, <3>2, <1>1 DEF Entry
  <2>3. CASE d \notin {node, parent} /\ IsInode(s, d)
    <3>1. u[d] = s[d] /\ u[s[d].data] = s[s[d].data] /\ IsInode(u, d)
      BY <2>3, <1>5, <1>6, <1>7
    <3> QED
      BY <2>3, <3>1 DEF Entry, HasListing, IsDir, Ls
  <2> QED
    BY <2>1, <2>2, <2>3
<1>9. \A d \in Ids, n \in FileNames : Entry(s, d, n) = node => d = parent /\ n = name
  BY <1>1, ConstantsAssumption DEF WellFormed, NoDoubleEntry
<1>10. WellFormed(u)
  <2>1. RootIsDirectory(u)
    BY <1>1, <1>6, <1>7, ConstantsAssumption
    DEF WellFormed, RootIsDirectory, HasListing, IsDir
  <2>2. DataMatchesType(u)
    BY <1>6, <1>7 DEF WellFormed, DataMatchesType
  <2>3. NoSharedData(u)
    BY <1>6, <1>7 DEF WellFormed, NoSharedData
  <2>4. NoDanglingEntry(u)
    BY <1>6, <1>8, <1>9, EntryFacts DEF NoDanglingEntry
  <2>5. NoDoubleEntry(u)
    BY <1>8 DEF WellFormed, NoDoubleEntry
  <2> QED
    BY <2>1, <2>2, <2>3, <2>4, <2>5 DEF WellFormed
<1>11. ASSUME OrphanFree(s), t = "dir" => IsEmptyDirAt(s, node)
       PROVE  OrphanFree(u)
  <2>1. \A n \in FileNames : Entry(s, node, n) = NoId
    BY <1>1, <1>11 DEF IsEmptyDirAt, Entry, HasListing, IsDir
  <2>2. node # parent /\ dir # data
    BY <2>1, <1>1, <1>2, ConstantsAssumption
  <2> SUFFICES ASSUME NEW k \in Ids PROVE ~ Orphan(u, k)
    BY DEF OrphanFree
  <2>3. CASE k \in {node, data}
    BY <2>2, <2>3, <1>1, <1>2, <1>3 DEF Orphan
  <2>4. CASE k = dir
    <3>1. ~ IsInode(u, k) /\ IsInode(u, parent) /\ u[parent].data = dir
      BY <2>2, <2>4, <1>1, <1>2, <1>5, <1>6, <1>7 DEF IsInode, IsDir
    <3> QED
      BY <2>4, <3>1, <1>1 DEF Orphan
  <2>5. CASE k \notin {node, data, dir} /\ IsInode(s, k)
    <3>1. s[k] # Undefined
      BY <2>5 DEF IsInode, Undefined
    <3>2. k # Root => \E d \in Ids, n \in FileNames : Entry(s, d, n) = k
      BY <2>5, <3>1, <1>11 DEF OrphanFree, Orphan
    <3>3. k # Root => \E d \in Ids, n \in FileNames : Entry(u, d, n) = k
      BY <2>1, <2>5, <3>2, <1>1, <1>8, ConstantsAssumption
    <3> QED
      BY <2>5, <3>3, <1>6 DEF Orphan
  <2>6. CASE k \notin {node, data, dir} /\ ~ IsInode(s, k)
    BY <2>6, <1>5, <1>6, <1>7, <1>11 DEF Orphan, OrphanFree
  <2> QED
    BY <2>3, <2>4, <2>5, <2>6
<1>12. \A i \in Ids \ {node} : NodeOf(u, i) = NodeOf(s, i)
  <2> TAKE i \in Ids \ {node}
  <2>1. CASE IsFile(s, i)
    <3>1. IsInode(s, i) /\ s[i].data # dir
      BY <2>1, <1>1, <1>7 DEF IsFile, IsDir
    <3>2. u[i] = s[i] /\ u[s[i].data] = s[s[i].data]
      BY <3>1, <1>5, <1>7
    <3> QED
      BY <2>1, <3>1, <3>2, <1>6 DEF NodeOf, IsFile
  <2>2. CASE ~ IsFile(s, i)
    BY <2>2, <1>6, <1>7 DEF NodeOf, IsFile, IsDir
  <2> QED
    BY <2>1, <2>2
<1>13. NodeOf(u, node) = [type |-> "absent"]
  BY <1>1, <1>6 DEF NodeOf, IsFile, IsDir
<1> QED
  BY <1>4, <1>6, <1>8, <1>10, <1>11, <1>12, <1>13 DEF u

(* removeEntry of a path *)
LEMMA RemovedSound ==
  ASSUME NEW s \in Stores, WellFormed(s),
         NEW p \in Paths, NEW t \in {"dir", "file"}, CanRemove(s, p, t)
  PROVE  LET u == Removed(s, p)
         IN /\ u \in Stores /\ WellFormed(u)
            /\ OrphanFree(s) /\ (t = "dir" => IsEmptyDir(s, p)) => OrphanFree(u)
<1> DEFINE parent == ParentId(s, p)
           name == Basename(p)
<1>1. name \in FileNames /\ CanRemoveFrom(s, parent, name, t)
  BY PathFacts DEF CanRemove
<1>2. ASSUME IsEmptyDir(s, p)
      PROVE  IsEmptyDirAt(s, Entry(s, parent, name))
  <2>1. p # <<>>
    BY <1>1, <1>2, NodeIdDef, PathFacts
    DEF CanRemoveFrom, IsEmptyDir, IsEmptyDirAt, Entry, ParentId, Dirname
  <2>2. NodeId(s, p) = Entry(s, parent, name)
    BY <2>1, PathFacts, NodeIdDef DEF ParentId
  <2> QED
    BY <2>2, <1>2 DEF IsEmptyDir
<1> QED
  BY <1>1, <1>2, RemovedFromSound DEF Removed

----------------------------------------------------------------------------
(* _syncSync: what the path names becomes a file with the handle's bytes.   *)
LEMMA SyncedAtSound ==
  ASSUME NEW s \in Stores, WellFormed(s),
         NEW node, IsInode(s, node), node # Root, NEW c \in Contents
  PROVE  LET u == SyncedAt(s, node, c)
         IN /\ u \in Stores /\ WellFormed(u)
            /\ OrphanFree(s) /\ (IsDir(s, node) => IsEmptyDirAt(s, node)) => OrphanFree(u)
            /\ \A d \in Ids, n \in FileNames :
                 Entry(u, d, n) = IF d = node THEN NoId ELSE Entry(s, d, n)
            /\ \A i \in Ids : IsInode(u, i) <=> IsInode(s, i)
            /\ \A i \in Ids \ {node} : NodeOf(u, i) = NodeOf(s, i)
            /\ NodeOf(u, node) = [type |-> "file", bytes |-> c]
<1> DEFINE u == SyncedAt(s, node, c)
           data == s[node].data
<1>1. node \in Ids \ {Root} /\ IsInode(s, node)
  BY DEF IsInode
<1>2. data \in Ids /\ s[data].kind \in {"listing", "blob"} /\ data # node
  BY <1>1, StoreFacts DEF IsInode, WellFormed, DataMatchesType
<1>3. u = [k \in Ids |-> IF k = node THEN Inode("file", data, c)
                          ELSE IF k = data THEN Blob(c) ELSE s[k]]
  BY <1>1, <1>2 DEF SyncedAt, Put, Stores
<1>4. u \in Stores
  BY <1>2, <1>3 DEF Inode, Inodes, Blob, Blobs, Stores
<1>5. /\ u[node].kind = "inode" /\ u[node].type = "file" /\ u[node].data = data
      /\ u[data].kind = "blob" /\ u[data].bytes = c
      /\ \A k \in Ids \ {node, data} : u[k] = s[k]
  BY <1>1, <1>2, <1>3 DEF Inode, Blob
<1> HIDE DEF u
<1>6. \A i \in Ids : IsInode(u, i) <=> IsInode(s, i)
  BY <1>1, <1>2, <1>5 DEF IsInode
<1>7. \A i \in Ids : IsInode(s, i) => u[i].data = s[i].data
  BY <1>1, <1>2, <1>5 DEF IsInode
<1>8. \A i \in Ids \ {node} : IsInode(s, i) =>
        /\ u[i] = s[i] /\ s[i].data \in Ids
        /\ s[i].data \notin {data, node}
        /\ u[s[i].data] = s[s[i].data]
  BY <1>1, <1>2, <1>5, StoreFacts DEF IsInode, WellFormed, DataMatchesType, NoSharedData
<1>9. \A d \in Ids, n \in FileNames :
         Entry(u, d, n) = IF d = node THEN NoId ELSE Entry(s, d, n)
  BY <1>5, <1>6, <1>8 DEF Entry, HasListing, IsDir, Ls
<1>10. WellFormed(u)
  <2>1. RootIsDirectory(u)
    BY <1>1, <1>6, <1>8, ConstantsAssumption
    DEF WellFormed, RootIsDirectory, HasListing, IsDir
  <2>2. DataMatchesType(u)
    BY <1>5, <1>6, <1>8 DEF WellFormed, DataMatchesType
  <2>3. NoSharedData(u)
    BY <1>6, <1>7 DEF WellFormed, NoSharedData
  <2>4. NoDanglingEntry(u)
    BY <1>6, <1>9, EntryFacts DEF NoDanglingEntry
  <2>5. NoDoubleEntry(u)
    BY <1>9 DEF WellFormed, NoDoubleEntry
  <2> QED
    BY <2>1, <2>2, <2>3, <2>4, <2>5 DEF WellFormed
<1>11. ASSUME OrphanFree(s), IsDir(s, node) => IsEmptyDirAt(s, node)
       PROVE  OrphanFree(u)
  <2>1. \A n \in FileNames : Entry(s, node, n) = NoId
    BY <1>11 DEF IsEmptyDirAt, Entry, HasListing
  <2> SUFFICES ASSUME NEW k \in Ids PROVE ~ Orphan(u, k)
    BY DEF OrphanFree
  <2>2. CASE IsInode(s, k)
    <3>1. k # Root => \E d \in Ids, n \in FileNames : Entry(s, d, n) = k
      BY <2>2, <1>11 DEF OrphanFree, Orphan, IsInode, Undefined
    <3>2. k # Root => \E d \in Ids, n \in FileNames : Entry(u, d, n) = k
      BY <2>1, <3>1, <1>9, ConstantsAssumption
    <3> QED
      BY <2>2, <3>2, <1>6 DEF Orphan
  <2>3. CASE ~ IsInode(s, k) /\ k # data
    <3>1. s[k] = Undefined <=> u[k] = Undefined
      BY <2>3, <1>1, <1>5
    <3> QED
      BY <2>3, <3>1, <1>6, <1>7, <1>11 DEF OrphanFree, Orphan
  <2>4. CASE k = data
    BY <2>4, <1>1, <1>2, <1>5, <1>6, <1>7 DEF Orphan, IsInode
  <2> QED
    BY <2>2, <2>3, <2>4
<1>12. \A i \in Ids \ {node} : NodeOf(u, i) = NodeOf(s, i)
  BY <1>6, <1>8 DEF NodeOf, IsFile, IsDir
<1>13. NodeOf(u, node) = [type |-> "file", bytes |-> c]
  BY <1>1, <1>5, <1>6 DEF NodeOf, IsFile
<1> QED
  BY <1>4, <1>6, <1>9, <1>10, <1>11, <1>12, <1>13 DEF u

(* _syncSync of a path *)
LEMMA SyncedSound ==
  ASSUME NEW s \in Stores, WellFormed(s),
         NEW p \in Paths \ {<<>>}, NEW c \in Contents, CanSync(s, p)
  PROVE  LET u == Synced(s, p, c)
         IN /\ u \in Stores /\ WellFormed(u)
            /\ OrphanFree(s) /\ (IsDir(s, NodeId(s, p)) => IsEmptyDir(s, p)) => OrphanFree(u)
<1>1. NodeId(s, p) # Root
  BY NodeIdDef, LookupInjective, PathFacts, ConstantsAssumption
<1> QED
  BY <1>1, SyncedAtSound DEF CanSync, Synced, IsEmptyDir

----------------------------------------------------------------------------
(* renameSync: one node moves to a new name, the file it replaces goes.     *)
LEMMA RenamedSound ==
  ASSUME NEW s \in Stores, WellFormed(s),
         NEW old \in Paths, NEW new \in Paths, CanRename(s, old, new)
  PROVE  LET u == Renamed(s, old, new)
         IN /\ u \in Stores /\ WellFormed(u)
            /\ OrphanFree(s) => OrphanFree(u)
            /\ \A d \in Ids, n \in FileNames :
                 Entry(u, d, n) = IF d = ParentId(s, new) /\ n = Basename(new) THEN Target(s, old)
                                  ELSE IF d = ParentId(s, old) /\ n = Basename(old) THEN NoId
                                  ELSE Entry(s, d, n)
            /\ \A i \in Ids : IsInode(u, i) <=> IsInode(s, i) /\ i # Victim(s, old, new)
            /\ \A i \in Ids \ {Victim(s, old, new)} : NodeOf(u, i) = NodeOf(s, i)
<1> DEFINE u == Renamed(s, old, new)
           oldDir == ParentId(s, old)
           newDir == ParentId(s, new)
           on == Basename(old)
           nn == Basename(new)
           node == Target(s, old)
           victim == Victim(s, old, new)
           bytes == s[victim].data
           oldKey == s[oldDir].data
           newKey == s[newDir].data
           gone == IF victim = NoId THEN {} ELSE {victim, bytes}
           without == [Ls(s, oldDir) EXCEPT ![on] = NoId]
           newList == [(IF oldDir = newDir THEN without ELSE Ls(s, newDir)) EXCEPT ![nn] = node]
           oldList == IF oldDir = newDir THEN newList ELSE without
<1>1. /\ oldDir \in Ids /\ IsDir(s, oldDir) /\ HasListing(s, oldDir)
      /\ newDir \in Ids /\ IsDir(s, newDir) /\ HasListing(s, newDir)
      /\ on \in FileNames /\ nn \in FileNames
      /\ node = Entry(s, oldDir, on)
      /\ node \in Ids \ {Root} /\ IsInode(s, node)
  BY PathFacts, EntryFacts DEF CanRename, CanRenameIn, HasListing, IsDir, IsInode, Target
<1>2. SameParent(old, new) <=> oldDir = newDir
  BY <1>1, PathFacts, LookupInjective, ConstantsAssumption DEF SameParent, ParentId
<1>3. /\ victim = IF oldDir = newDir /\ on = nn THEN NoId ELSE Entry(s, newDir, nn)
      /\ victim # NoId => IsFile(s, victim)
  BY <1>2 DEF Victim, VictimIn, Target, CanRename, CanRenameIn
<1>4. victim # NoId =>
        /\ victim \in Ids \ {Root, oldDir, newDir, node}
        /\ IsInode(s, victim) /\ ~ IsDir(s, victim)
        /\ bytes \in Ids /\ s[bytes].kind = "blob"
        /\ \A d \in Ids, n \in FileNames : Entry(s, d, n) = victim => d = newDir /\ n = nn
  <2> SUFFICES ASSUME victim # NoId
               PROVE  /\ victim \in Ids \ {Root, oldDir, newDir, node}
                      /\ IsInode(s, victim) /\ ~ IsDir(s, victim)
                      /\ bytes \in Ids /\ s[bytes].kind = "blob"
                      /\ \A d \in Ids, n \in FileNames :
                           Entry(s, d, n) = victim => d = newDir /\ n = nn
    OBVIOUS
  <2>1. victim = Entry(s, newDir, nn) /\ ~ (oldDir = newDir /\ on = nn)
    BY <1>3
  <2>2. IsInode(s, victim) /\ s[victim].type = "file" /\ victim \in Ids \ {Root}
    BY <1>1, <1>3, <2>1, EntryFacts DEF IsFile
  <2>3. \A d \in Ids, n \in FileNames : Entry(s, d, n) = victim => d = newDir /\ n = nn
    BY <1>1, <2>1 DEF WellFormed, NoDoubleEntry
  <2>4. victim # node
    BY <1>1, <2>1, <2>3
  <2>5. bytes \in Ids /\ s[bytes].kind = "blob"
    BY <2>2, StoreFacts DEF WellFormed, DataMatchesType
  <2> QED
    BY <1>1, <2>2, <2>3, <2>4, <2>5 DEF IsDir
<1>5. /\ oldKey \in Ids /\ s[oldKey].kind = "listing" /\ oldKey \notin gone
      /\ newKey \in Ids /\ s[newKey].kind = "listing" /\ newKey \notin gone
      /\ oldKey = newKey <=> oldDir = newDir
      /\ gone \subseteq Ids
  BY <1>1, <1>4, StoreFacts DEF HasListing, IsDir, IsInode, WellFormed, NoSharedData
<1>6. u = [k \in Ids |-> IF k = newKey THEN Listing(newList)
                          ELSE IF k = oldKey THEN Listing(oldList)
                          ELSE IF k \in gone THEN Undefined ELSE s[k]]
  <2>1. CASE victim = NoId
    BY <2>1, <1>2, <1>4, <1>5 DEF Renamed, RenamedIn, Target, Victim, Del, Put, Stores
  <2>2. CASE victim # NoId
    BY <2>2, <1>2, <1>4, <1>5 DEF Renamed, RenamedIn, Target, Victim, Del, Put, Stores
  <2> QED
    BY <2>1, <2>2
<1>7. /\ without \in [FileNames -> Ids \union {NoId}]
      /\ newList \in [FileNames -> Ids \union {NoId}]
      /\ oldList \in [FileNames -> Ids \union {NoId}]
      /\ Ls(s, oldDir) \in [FileNames -> Ids \union {NoId}]
      /\ Ls(s, newDir) \in [FileNames -> Ids \union {NoId}]
  BY <1>1, StoreFacts
<1>8. u \in Stores
  BY <1>6, <1>7 DEF Listing, Listings, Stores
<1>9. /\ u[newKey].kind = "listing" /\ u[newKey].ls = newList
      /\ u[oldKey].kind = "listing" /\ u[oldKey].ls = oldList
      /\ \A k \in gone : u[k].kind = "none"
      /\ \A k \in Ids \ (gone \union {newKey, oldKey}) : u[k] = s[k]
  BY <1>5, <1>6 DEF Listing, Undefined
<1>10. /\ \A n \in FileNames : newList[n] = IF n = nn THEN node
                                            ELSE IF oldDir = newDir /\ n = on THEN NoId
                                            ELSE Ls(s, newDir)[n]
       /\ oldDir # newDir => \A n \in FileNames : oldList[n] = IF n = on THEN NoId ELSE Ls(s, oldDir)[n]
  BY <1>1, <1>7
<1> HIDE DEF u, newList, oldList, without
<1>11. \A i \in Ids : IsInode(u, i) <=> IsInode(s, i) /\ i # victim
  BY <1>4, <1>5, <1>9, ConstantsAssumption DEF IsInode
<1>12. \A i \in Ids \ {victim} : IsInode(s, i) =>
         /\ u[i] = s[i] /\ s[i].data \in Ids
         /\ s[i].data \notin gone
         /\ u[s[i].data].kind = s[s[i].data].kind
         /\ s[i].data = newKey => i = newDir
         /\ s[i].data = oldKey => i = oldDir
  BY <1>1, <1>4, <1>5, <1>9, StoreFacts DEF IsInode, IsDir, WellFormed, DataMatchesType, NoSharedData
<1>13. \A d \in Ids, n \in FileNames :
         Entry(u, d, n) = IF d = newDir /\ n = nn THEN node
                          ELSE IF d = oldDir /\ n = on THEN NoId ELSE Entry(s, d, n)
  <2> TAKE d \in Ids, n \in FileNames
  <2>1. CASE d = newDir
    <3>1. HasListing(u, d) /\ Ls(u, d) = newList
      BY <2>1, <1>1, <1>4, <1>9, <1>11, <1>12, ConstantsAssumption
      DEF HasListing, IsDir, Ls
    <3> QED
      BY <2>1, <3>1, <1>1, <1>10 DEF Entry
  <2>2. CASE d = oldDir /\ d # newDir
    <3>1. HasListing(u, d) /\ Ls(u, d) = oldList
      BY <2>2, <1>1, <1>4, <1>9, <1>11, <1>12, ConstantsAssumption
      DEF HasListing, IsDir, Ls
    <3> QED
      BY <2>2, <3>1, <1>1, <1>10 DEF Entry
  <2>3. CASE d \notin {newDir, oldDir} /\ IsDir(s, d)
    <3>1. d # victim /\ IsInode(s, d)
      BY <2>3, <1>4, ConstantsAssumption DEF IsDir
    <3>2. u[d] = s[d] /\ u[s[d].data] = s[s[d].data]
      BY <2>3, <3>1, <1>9, <1>12
    <3> QED
      BY <2>3, <3>1, <3>2, <1>11 DEF Entry, HasListing, IsDir, Ls
  <2>4. CASE d \notin {newDir, oldDir} /\ ~ IsDir(s, d)
    BY <2>4, <1>11, <1>12 DEF Entry, HasListing, IsDir
  <2> QED
    BY <2>1, <2>2, <2>3, <2>4
<1>14. \A d \in Ids, n \in FileNames : Entry(s, d, n) = node => d = oldDir /\ n = on
  BY <1>1, ConstantsAssumption DEF WellFormed, NoDoubleEntry
<1>15. \A d \in Ids, n \in FileNames : Entry(u, d, n) # NoId => Entry(u, d, n) # victim
  BY <1>1, <1>4, <1>13, ConstantsAssumption
<1>16. WellFormed(u)
  <2>1. RootIsDirectory(u)
    BY <1>4, <1>11, <1>12, ConstantsAssumption
    DEF WellFormed, RootIsDirectory, HasListing, IsDir
  <2>2. DataMatchesType(u)
    BY <1>11, <1>12 DEF WellFormed, DataMatchesType
  <2>3. NoSharedData(u)
    BY <1>11, <1>12 DEF WellFormed, NoSharedData
  <2>4. NoDanglingEntry(u)
    BY <1>1, <1>11, <1>13, <1>15, EntryFacts DEF NoDanglingEntry
  <2>5. NoDoubleEntry(u)
    BY <1>1, <1>13, <1>14 DEF WellFormed, NoDoubleEntry
  <2> QED
    BY <2>1, <2>2, <2>3, <2>4, <2>5 DEF WellFormed
<1>17. ASSUME OrphanFree(s)
       PROVE  OrphanFree(u)
  <2> SUFFICES ASSUME NEW k \in Ids PROVE ~ Orphan(u, k)
    BY DEF OrphanFree
  <2>1. CASE k \in gone
    BY <2>1, <1>5, <1>6 DEF Orphan
  <2>2. CASE k \in {newKey, oldKey}
    <3>1. ~ IsInode(u, k)
      BY <2>2, <1>9 DEF IsInode
    <3>2. /\ IsInode(u, newDir) /\ u[newDir].data = newKey
          /\ IsInode(u, oldDir) /\ u[oldDir].data = oldKey
      BY <1>1, <1>4, <1>11, <1>12, ConstantsAssumption DEF IsDir
    <3> QED
      BY <2>2, <3>1, <3>2, <1>1 DEF Orphan
  <2>3. CASE k \notin gone \union {newKey, oldKey} /\ IsInode(s, k)
    <3>1. k # Root => \E d \in Ids, n \in FileNames : Entry(s, d, n) = k
      BY <2>3, <1>17 DEF OrphanFree, Orphan, IsInode, Undefined
    <3>2. k # Root => \E d \in Ids, n \in FileNames : Entry(u, d, n) = k
      <4>1. CASE k = node
        BY <4>1, <1>1, <1>13
      <4>2. CASE k # node /\ k # Root
        <5>1. PICK d \in Ids, n \in FileNames : Entry(s, d, n) = k
          BY <4>2, <3>1
        <5>2. ~ (d = oldDir /\ n = on)
          BY <4>2, <5>1, <1>1
        <5>3. ~ (d = newDir /\ n = nn)
          BY <2>3, <4>2, <5>1, <5>2, <1>3, ConstantsAssumption
        <5> QED
          BY <5>1, <5>2, <5>3, <1>13
      <4> QED
        BY <4>1, <4>2
    <3>3. IsInode(u, k)
      BY <2>3, <1>11, ConstantsAssumption
    <3> QED
      BY <2>3, <3>2, <3>3 DEF Orphan
  <2>4. CASE k \notin gone \union {newKey, oldKey} /\ ~ IsInode(s, k)
    <3>1. u[k] = s[k] /\ ~ IsInode(u, k)
      BY <2>4, <1>9, <1>11
    <3>2. s[k] # Undefined /\ k # Root => \E i \in Ids : IsInode(s, i) /\ s[i].data = k
      BY <2>4, <1>17 DEF OrphanFree, Orphan
    <3>3. s[k] # Undefined /\ k # Root => \E i \in Ids : IsInode(u, i) /\ u[i].data = k
      <4> SUFFICES ASSUME NEW i \in Ids, IsInode(s, i), s[i].data = k
                   PROVE  IsInode(u, i) /\ u[i].data = k
        BY <3>2
      <4>1. i # victim
        BY <2>4, ConstantsAssumption
      <4> QED
        BY <4>1, <1>11, <1>12
    <3> QED
      BY <3>1, <3>3 DEF Orphan
  <2> QED
    BY <2>1, <2>2, <2>3, <2>4
<1>18. \A i \in Ids \ {victim} : NodeOf(u, i) = NodeOf(s, i)
  <2> TAKE i \in Ids \ {victim}
  <2>1. CASE IsFile(s, i)
    <3>1. IsInode(s, i) /\ s[i].data \notin {newKey, oldKey}
      BY <2>1, <1>1, <1>12 DEF IsFile, IsDir
    <3>2. u[i] = s[i] /\ u[s[i].data] = s[s[i].data]
      BY <3>1, <1>9, <1>12
    <3> QED
      BY <2>1, <3>1, <3>2, <1>11 DEF NodeOf, IsFile
  <2>2. CASE ~ IsFile(s, i)
    BY <2>2, <1>11, <1>12 DEF NodeOf, IsFile, IsDir
  <2> QED
    BY <2>1, <2>2
<1> QED
  BY <1>8, <1>11, <1>13, <1>16, <1>17, <1>18 DEF u

----------------------------------------------------------------------------
(* makeRootDirectory: the store of an empty file system.                    *)
LEMMA EmptyStoreSound ==
  ASSUME NEW r \in Ids \ {Root}
  PROVE  /\ EmptyStore(r) \in Stores /\ WellFormed(EmptyStore(r)) /\ OrphanFree(EmptyStore(r))
         /\ \A i \in Ids : IsInode(EmptyStore(r), i) <=> i = Root
         /\ \A d \in Ids, n \in FileNames : Entry(EmptyStore(r), d, n) = NoId
<1> DEFINE u == EmptyStore(r)
<1>1. /\ Inode("dir", r, Empty) \in Inodes /\ EmptyDirNode \in Listings
  BY ConstantsAssumption DEF Inode, Inodes, EmptyDirNode, Listing, Listings
<1>2. u \in Stores
  BY <1>1, ConstantsAssumption DEF EmptyStore, RootMade, PutNew, Put, Stores
<1>3. /\ u[Root].kind = "inode" /\ u[Root].type = "dir" /\ u[Root].data = r
      /\ u[r].kind = "listing" /\ u[r].ls = [n \in FileNames |-> NoId]
      /\ \A k \in Ids \ {Root, r} : u[k] = Undefined
  BY ConstantsAssumption DEF EmptyStore, RootMade, PutNew, Put, Inode, EmptyDirNode, Listing
<1> HIDE DEF u
<1>4. \A i \in Ids : IsInode(u, i) <=> i = Root
  BY <1>3, ConstantsAssumption DEF IsInode, Undefined
<1>5. \A d \in Ids, n \in FileNames : Entry(u, d, n) = NoId
  BY <1>3, <1>4 DEF Entry, HasListing, IsDir, Ls
<1>6. WellFormed(u)
  BY <1>3, <1>4, <1>5, ConstantsAssumption
  DEF WellFormed, RootIsDirectory, DataMatchesType, NoSharedData, NoDanglingEntry,
      NoDoubleEntry, HasListing, IsDir
<1>7. OrphanFree(u)
  BY <1>3, <1>4, ConstantsAssumption DEF OrphanFree, Orphan
<1> QED
  BY <1>2, <1>4, <1>5, <1>6, <1>7 DEF u

----------------------------------------------------------------------------
(* What the operations do to every lookup.                                  *)

(* The lookups are the one function that is the root's id at the root and,  *)
(* below, the entry in what the parent's path names.                        *)
LEMMA LookupsAre ==
  ASSUME NEW s, NEW g, g[<<>>] = Root,
         \A q \in Paths \ {<<>>} : g[q] = Entry(s, g[Front(q)], Last(q))
  PROVE  \A q \in Paths : NodeId(s, q) = g[q]
<1> DEFINE Good == {n \in Nat : \A q \in Paths : Len(q) = n => NodeId(s, q) = g[q]}
<1>1. 0 \in Good
  BY NodeIdDef, PathFacts
<1>2. ASSUME NEW n \in Good
      PROVE  n + 1 \in Good
  <2> SUFFICES ASSUME NEW q \in Paths, Len(q) = n + 1
               PROVE  NodeId(s, q) = g[q]
    OBVIOUS
  <2>1. q # <<>> /\ Front(q) \in Paths /\ Len(Front(q)) = n
    BY PathFacts, <1>2
  <2>2. NodeId(s, Front(q)) = g[Front(q)]
    BY <2>1, <1>2
  <2> QED
    BY <2>1, <2>2, NodeIdDef
<1>3. Good = Nat
  <2>1. Good \subseteq Nat
    OBVIOUS
  <2> HIDE DEF Good
  <2> QED
    BY <1>1, <1>2, <2>1, SetInduction
<1> QED
  BY <1>3, PathFacts

(* One step up: the parent of a path that is there has an id, and the entry *)
(* it was found under belongs to no other path.                             *)
LEMMA LinkedStep ==
  ASSUME NEW s \in Stores, Linked(s)
  PROVE  /\ NodeId(s, <<>>) = Root
         /\ \A q \in Paths : NodeId(s, q) \in Ids \union {NoId}
         /\ \A q \in Paths \ {<<>>} :
              /\ Front(q) \in Paths /\ Front(q) # q /\ Last(q) \in FileNames
              /\ NodeId(s, q) = Entry(s, NodeId(s, Front(q)), Last(q))
              /\ NodeId(s, q) # Root
         /\ \A p, q \in Paths : NodeId(s, p) = NodeId(s, q) /\ NodeId(s, p) # NoId => p = q
         /\ \A x, y \in Paths \ {<<>>} :
              /\ NodeId(s, Front(x)) = NodeId(s, Front(y)) /\ NodeId(s, Front(x)) # NoId
              /\ Last(x) = Last(y)
              => x = y
<1>1. NodeId(s, <<>>) = Root
  BY NodeIdDef, PathFacts
<1>2. \A p, q \in Paths : NodeId(s, p) = NodeId(s, q) /\ NodeId(s, p) # NoId => p = q
  BY LinkedInjective
<1>3. \A q \in Paths \ {<<>>} :
        /\ Front(q) \in Paths /\ Front(q) # q /\ Last(q) \in FileNames
        /\ NodeId(s, q) = Entry(s, NodeId(s, Front(q)), Last(q))
  <2> TAKE q \in Paths \ {<<>>}
  <2>1. Front(q) \in Paths /\ Len(Front(q)) = Len(q) - 1 /\ Len(q) \in Nat /\ Last(q) \in FileNames
    BY PathFacts, ConstantsAssumption DEF FileNames
  <2>2. Front(q) # q
    BY <2>1
  <2> QED
    BY <2>1, <2>2, NodeIdDef
<1>4. \A q \in Paths \ {<<>>} : NodeId(s, q) # Root
  BY <1>1, <1>2, PathFacts, ConstantsAssumption
<1>5. \A q \in Paths : NodeId(s, q) \in Ids \union {NoId}
  <2> TAKE q \in Paths
  <2>1. CASE q = <<>>
    BY <2>1, <1>1, ConstantsAssumption
  <2>2. CASE q # <<>>
    <3>1. NodeId(s, q) = Entry(s, NodeId(s, Front(q)), Last(q)) /\ Last(q) \in FileNames
      BY <2>2, <1>3
    <3>2. CASE NodeId(s, Front(q)) \in Ids
      BY <3>1, <3>2, StoreFacts
    <3>3. CASE NodeId(s, Front(q)) \notin Ids
      BY <3>1, <3>3 DEF Entry, HasListing, IsDir, IsInode
    <3> QED
      BY <3>2, <3>3
  <2> QED
    BY <2>1, <2>2
<1>6. ASSUME NEW x \in Paths \ {<<>>}, NEW y \in Paths \ {<<>>},
             NodeId(s, Front(x)) = NodeId(s, Front(y)), NodeId(s, Front(x)) # NoId,
             Last(x) = Last(y)
      PROVE  x = y
  <2>1. Front(x) = Front(y)
    BY <1>2, <1>3, <1>6
  <2> QED
    BY <2>1, <1>6, PathFacts
<1> QED
  BY <1>1, <1>2, <1>3, <1>4, <1>5, <1>6
LEMMA LookupStep ==
  ASSUME NEW s \in Stores, WellFormed(s)
  PROVE  /\ NodeId(s, <<>>) = Root
         /\ \A q \in Paths : NodeId(s, q) \in Ids \union {NoId}
         /\ \A q \in Paths \ {<<>>} :
              /\ Front(q) \in Paths /\ Front(q) # q /\ Last(q) \in FileNames
              /\ NodeId(s, q) = Entry(s, NodeId(s, Front(q)), Last(q))
              /\ NodeId(s, q) # Root
         /\ \A p, q \in Paths : NodeId(s, p) = NodeId(s, q) /\ NodeId(s, p) # NoId => p = q
         /\ \A x, y \in Paths \ {<<>>} :
              /\ NodeId(s, Front(x)) = NodeId(s, Front(y)) /\ NodeId(s, Front(x)) # NoId
              /\ Last(x) = Last(y)
              => x = y
BY LinkedStep DEF WellFormed, Linked

(* What is not a directory has no entries. *)
LEMMA NoEntries ==
  ASSUME NEW s, NEW d, NEW n, d \notin Ids \/ ~ IsDir(s, d)
  PROVE  Entry(s, d, n) = NoId
BY DEF Entry, HasListing, IsDir, IsInode

(* A new node is found at its path; every other path finds what it found.   *)
LEMMA CreatedLookups ==
  ASSUME NEW s \in Stores, WellFormed(s), NEW u,
         NEW p \in Paths \ {<<>>}, NodeId(s, Front(p)) # NoId, NodeId(s, p) = NoId,
         NEW node \in Ids, s[node] = Undefined,
         \A d \in Ids, n \in FileNames :
           Entry(u, d, n) = IF d = NodeId(s, Front(p)) /\ n = Last(p) THEN node
                            ELSE Entry(s, d, n)
  PROVE  \A q \in Paths : NodeId(u, q) = IF q = p THEN node ELSE NodeId(s, q)
<1> DEFINE g == [q \in Paths |-> IF q = p THEN node ELSE NodeId(s, q)]
<1>1. g[<<>>] = Root
  BY LookupStep, PathFacts
<1>2. ASSUME NEW q \in Paths \ {<<>>}
      PROVE  g[q] = Entry(u, g[Front(q)], Last(q))
  <2>1. CASE q = p
    <3>1. g[q] = node /\ g[Front(q)] = NodeId(s, Front(p))
      BY <2>1, LookupStep
    <3>2. NodeId(s, Front(p)) \in Ids /\ Last(q) \in FileNames
      BY <2>1, LookupStep
    <3> QED
      BY <2>1, <3>1, <3>2
  <2>2. CASE q # p /\ Front(q) = p
    <3>1. g[Front(q)] = node /\ g[q] = Entry(s, NoId, Last(q)) /\ Last(q) \in FileNames
      BY <2>2, LookupStep
    <3>2. g[q] = NoId
      BY <3>1, NoEntries, ConstantsAssumption
    <3>3. node # NodeId(s, Front(p))
      <4>1. SUFFICES ASSUME node = NodeId(s, Front(p)) PROVE FALSE
        OBVIOUS
      <4>2. Front(p) # <<>>
        BY <4>1, LookupStep, ConstantsAssumption
        DEF WellFormed, RootIsDirectory, HasListing, IsDir, IsInode, Undefined
      <4>3. /\ node = Entry(s, NodeId(s, Front(Front(p))), Last(Front(p))) /\ node # NoId
            /\ Front(p) \in Paths /\ Last(Front(p)) \in FileNames
        BY <4>1, <4>2, LookupStep, ConstantsAssumption
      <4>4. NodeId(s, Front(Front(p))) \in Ids
        BY <4>3, NoEntries
      <4> QED
        BY <4>3, <4>4, EntryFacts DEF IsInode, Undefined
    <3>4. Entry(u, node, Last(q)) = Entry(s, node, Last(q))
      BY <3>1, <3>3
    <3>5. ~ IsDir(s, node)
      BY DEF IsDir, IsInode, Undefined
    <3> QED
      BY <3>1, <3>2, <3>4, <3>5, NoEntries
  <2>3. CASE q # p /\ Front(q) # p
    <3>1. /\ g[q] = NodeId(s, q) /\ g[Front(q)] = NodeId(s, Front(q)) /\ Last(q) \in FileNames
          /\ NodeId(s, q) = Entry(s, NodeId(s, Front(q)), Last(q))
      BY <2>3, LookupStep
    <3>2. ~ (NodeId(s, Front(q)) = NodeId(s, Front(p)) /\ Last(q) = Last(p))
      BY <2>3, LookupStep
    <3>3. CASE NodeId(s, Front(q)) \in Ids
      BY <3>1, <3>2, <3>3
    <3>4. CASE NodeId(s, Front(q)) \notin Ids
      BY <3>1, <3>4, NoEntries
    <3> QED
      BY <3>3, <3>4
  <2> QED
    BY <2>1, <2>2, <2>3
<1> HIDE DEF g
<1>3. \A q \in Paths : NodeId(u, q) = g[q]
  BY <1>1, <1>2, LookupsAre
<1> QED
  BY <1>3 DEF g

(* A node with nothing below is gone from its path, and from no other.      *)
LEMMA RemovedLookups ==
  ASSUME NEW s \in Stores, WellFormed(s), NEW u,
         NEW p \in Paths \ {<<>>}, NodeId(s, p) # NoId,
         \A n \in FileNames : Entry(s, NodeId(s, p), n) = NoId,
         \A d \in Ids, n \in FileNames :
           Entry(u, d, n) = IF d = NodeId(s, p) \/ (d = NodeId(s, Front(p)) /\ n = Last(p))
                            THEN NoId ELSE Entry(s, d, n)
  PROVE  \A q \in Paths : NodeId(u, q) = IF q = p THEN NoId ELSE NodeId(s, q)
<1> DEFINE g == [q \in Paths |-> IF q = p THEN NoId ELSE NodeId(s, q)]
<1>1. g[<<>>] = Root
  BY LookupStep, PathFacts
<1>2. ASSUME NEW q \in Paths \ {<<>>}
      PROVE  g[q] = Entry(u, g[Front(q)], Last(q))
  <2>1. CASE q = p
    <3>1. g[q] = NoId /\ g[Front(q)] = NodeId(s, Front(p)) /\ Last(q) \in FileNames
      BY <2>1, LookupStep
    <3>2. NodeId(s, Front(p)) \in Ids
      BY LookupStep, NoEntries
    <3> QED
      BY <2>1, <3>1, <3>2
  <2>2. CASE q # p /\ Front(q) = p
    <3>1. g[Front(q)] = NoId /\ g[q] = Entry(s, NodeId(s, p), Last(q)) /\ Last(q) \in FileNames
      BY <2>2, LookupStep
    <3> QED
      BY <3>1, NoEntries, ConstantsAssumption
  <2>3. CASE q # p /\ Front(q) # p
    <3>1. /\ g[q] = NodeId(s, q) /\ g[Front(q)] = NodeId(s, Front(q)) /\ Last(q) \in FileNames
          /\ NodeId(s, q) = Entry(s, NodeId(s, Front(q)), Last(q))
      BY <2>3, LookupStep
    <3>2. CASE NodeId(s, Front(q)) \in Ids
      <4>1. ~ (NodeId(s, Front(q)) = NodeId(s, Front(p)) /\ Last(q) = Last(p))
        BY <2>3, <3>2, LookupStep, ConstantsAssumption
      <4>2. NodeId(s, Front(q)) # NodeId(s, p)
        BY <2>3, LookupStep
      <4> QED
        BY <3>1, <3>2, <4>1, <4>2
    <3>3. CASE NodeId(s, Front(q)) \notin Ids
      BY <3>1, <3>3, NoEntries
    <3> QED
      BY <3>2, <3>3
  <2> QED
    BY <2>1, <2>2, <2>3
<1> HIDE DEF g
<1>3. \A q \in Paths : NodeId(u, q) = g[q]
  BY <1>1, <1>2, LookupsAre
<1> QED
  BY <1>3 DEF g

(* Strictly below p *)
Under(p, q) == q # p /\ IsPrefix(p, q)

(* A node that stops being a directory: nothing is found below it any more. *)
LEMMA LinkedSynced ==
  ASSUME NEW s \in Stores, Linked(s), NEW u,
         NEW p \in Paths \ {<<>>},
         \A d \in Ids, n \in FileNames :
           Entry(u, d, n) = IF d = NodeId(s, p) THEN NoId ELSE Entry(s, d, n)
  PROVE  \A q \in Paths : NodeId(u, q) = IF Under(p, q) THEN NoId ELSE NodeId(s, q)
<1> DEFINE g == [q \in Paths |-> IF Under(p, q) THEN NoId ELSE NodeId(s, q)]
<1>1. \A q \in Paths \ {<<>>} :
        IF Under(p, Front(q)) \/ Front(q) = p THEN Under(p, q) ELSE ~ Under(p, q)
  <2> TAKE q \in Paths \ {<<>>}
  <2>1. IsPrefix(p, p) /\ Front(q) \in Paths /\ Front(q) # q
    BY PrefixOfFront, LinkedStep
  <2>2. Under(p, Front(q)) \/ Front(q) = p <=> IsPrefix(p, Front(q))
    BY <2>1 DEF Under
  <2>3. IsPrefix(p, Front(q)) <=> Under(p, q)
    BY PrefixThroughFront DEF Under
  <2> QED
    BY <2>2, <2>3
<1>2. g[<<>>] = Root
  <2>1. ~ Under(p, <<>>)
    BY PrefixThroughFront DEF Under
  <2> QED
    BY <2>1, LinkedStep, PathFacts
<1>3. ASSUME NEW q \in Paths \ {<<>>}
      PROVE  g[q] = Entry(u, g[Front(q)], Last(q))
  <2>1. CASE Under(p, Front(q))
    <3>1. g[Front(q)] = NoId /\ g[q] = NoId
      BY <2>1, <1>1, LinkedStep
    <3> QED
      BY <3>1, NoEntries, ConstantsAssumption
  <2>2. CASE Front(q) = p
    <3>1. ~ Under(p, p) /\ Under(p, q)
      BY <2>2, <1>1 DEF Under
    <3>2. g[Front(q)] = NodeId(s, p) /\ g[q] = NoId /\ Last(q) \in FileNames
      BY <2>2, <3>1, LinkedStep
    <3>3. NodeId(s, p) \in Ids => Entry(u, NodeId(s, p), Last(q)) = NoId
      BY <3>2
    <3> QED
      BY <3>2, <3>3, NoEntries
  <2>3. CASE ~ Under(p, Front(q)) /\ Front(q) # p
    <3>1. /\ g[q] = NodeId(s, q) /\ g[Front(q)] = NodeId(s, Front(q)) /\ Last(q) \in FileNames
          /\ NodeId(s, q) = Entry(s, NodeId(s, Front(q)), Last(q))
      BY <2>3, <1>1, LinkedStep
    <3>2. CASE NodeId(s, Front(q)) \in Ids
      <4>1. NodeId(s, Front(q)) # NodeId(s, p)
        BY <2>3, <3>2, LinkedStep, ConstantsAssumption
      <4> QED
        BY <3>1, <3>2, <4>1
    <3>3. CASE NodeId(s, Front(q)) \notin Ids
      BY <3>1, <3>3, NoEntries
    <3> QED
      BY <3>2, <3>3
  <2> QED
    BY <2>1, <2>2, <2>3
<1> HIDE DEF g
<1>4. \A q \in Paths : NodeId(u, q) = g[q]
  BY <1>2, <1>3, LookupsAre
<1> QED
  BY <1>4 DEF g
LEMMA SyncedLookups ==
  ASSUME NEW s \in Stores, WellFormed(s), NEW u,
         NEW p \in Paths \ {<<>>},
         \A d \in Ids, n \in FileNames :
           Entry(u, d, n) = IF d = NodeId(s, p) THEN NoId ELSE Entry(s, d, n)
  PROVE  \A q \in Paths : NodeId(u, q) = IF Under(p, q) THEN NoId ELSE NodeId(s, q)
BY LinkedSynced DEF WellFormed, Linked

(* The path at which a node below `new` was found, when `new` was `old`.    *)
Moved(old, new, q) == old \o SubSeq(q, Len(new) + 1, Len(q))

LEMMA MovedFacts ==
  ASSUME NEW old \in Paths, NEW new \in Paths
  PROVE  /\ IsPrefix(new, new) /\ Moved(old, new, new) = old
         /\ \A q \in Paths : IsPrefix(new, q) =>
              /\ Len(Moved(old, new, q)) = Len(old) + Len(q) - Len(new)
              /\ Len(new) <= Len(q)
              /\ Moved(old, new, q) \in Paths <=> Len(old) + Len(q) - Len(new) <= MaxDepth
              /\ Moved(old, new, q) \in Paths => IsPrefix(old, Moved(old, new, q))
         /\ \A q \in Paths \ {<<>>} : IsPrefix(new, q) /\ q # new =>
              /\ IsPrefix(new, Front(q))
              /\ Moved(old, new, q) # <<>> /\ Moved(old, new, q) # old
              /\ Front(Moved(old, new, q)) = Moved(old, new, Front(q))
              /\ Last(Moved(old, new, q)) = Last(q)
<1>1. \A q \in Paths : q \in Seq(Names) /\ Len(q) \in 0 .. MaxDepth
  BY PathFacts, ConstantsAssumption DEF Paths, SeqOf
<1>2. ASSUME NEW q \in Paths, IsPrefix(new, q)
      PROVE  /\ Moved(old, new, q) \in Seq(Names)
             /\ Len(Moved(old, new, q)) = Len(old) + Len(q) - Len(new)
             /\ Len(new) <= Len(q)
             /\ \A i \in 1 .. Len(old) : Moved(old, new, q)[i] = old[i]
             /\ \A i \in Len(old) + 1 .. Len(old) + Len(q) - Len(new) :
                  Moved(old, new, q)[i] = q[i - Len(old) + Len(new)]
  <2> DEFINE t == SubSeq(q, Len(new) + 1, Len(q))
  <2>1. Len(new) <= Len(q)
    BY <1>1, <1>2, PrefixElements
  <2>2. /\ t \in Seq(Names) /\ Len(t) = Len(q) - Len(new)
        /\ \A i \in 1 .. Len(t) : t[i] = q[Len(new) + i]
    <3>1. CASE Len(new) < Len(q)
      BY <1>1, <2>1, <3>1, SubSeqProperties
    <3>2. CASE Len(new) = Len(q)
      BY <1>1, <3>2, SubSeqProperties
    <3> QED
      BY <1>1, <2>1, <3>1, <3>2
  <2> HIDE DEF t
  <2>3. /\ old \o t \in Seq(Names) /\ Len(old \o t) = Len(old) + Len(t)
        /\ \A i \in 1 .. Len(old) + Len(t) :
             (old \o t)[i] = IF i <= Len(old) THEN old[i] ELSE t[i - Len(old)]
    BY <1>1, <2>2, ConcatProperties
  <2>4. Moved(old, new, q) = old \o t
    BY DEF Moved, t
  <2>5. \A i \in 1 .. Len(old) : Moved(old, new, q)[i] = old[i]
    BY <1>1, <2>1, <2>2, <2>3, <2>4
  <2>6. ASSUME NEW i \in Len(old) + 1 .. Len(old) + Len(q) - Len(new)
        PROVE  Moved(old, new, q)[i] = q[i - Len(old) + Len(new)]
    <3>1. i - Len(old) \in 1 .. Len(t) /\ i \in 1 .. Len(old) + Len(t) /\ ~ i <= Len(old)
      BY <1>1, <2>1, <2>2
    <3>2. Len(new) + (i - Len(old)) = i - Len(old) + Len(new)
      BY <1>1
    <3> QED
      BY <2>2, <2>3, <2>4, <3>1, <3>2
  <2> QED
    BY <1>1, <2>1, <2>2, <2>3, <2>4, <2>5, <2>6
<1>3. IsPrefix(new, new)
  BY <1>1, PrefixElements
<1>4. Moved(old, new, new) = old
  <2>1. /\ Moved(old, new, new) \in Seq(Names)
        /\ Len(Moved(old, new, new)) = Len(old)
        /\ \A i \in 1 .. Len(old) : Moved(old, new, new)[i] = old[i]
    BY <1>1, <1>2, <1>3
  <2> QED
    BY <1>1, <2>1
<1>5. ASSUME NEW q \in Paths, IsPrefix(new, q)
      PROVE  /\ Moved(old, new, q) \in Paths <=> Len(old) + Len(q) - Len(new) <= MaxDepth
             /\ Moved(old, new, q) \in Paths => IsPrefix(old, Moved(old, new, q))
  <2>1. /\ Moved(old, new, q) \in Seq(Names)
        /\ Len(Moved(old, new, q)) = Len(old) + Len(q) - Len(new)
        /\ Len(new) <= Len(q)
        /\ \A i \in 1 .. Len(old) : Moved(old, new, q)[i] = old[i]
    BY <1>2, <1>5
  <2>2. Moved(old, new, q) \in Paths <=> Len(old) + Len(q) - Len(new) <= MaxDepth
    <3>1. ASSUME Len(old) + Len(q) - Len(new) <= MaxDepth
          PROVE  Moved(old, new, q) \in Paths
      <4>1. Len(Moved(old, new, q)) \in 0 .. MaxDepth
        BY <1>1, <2>1, <3>1
      <4>2. Moved(old, new, q) \in [1 .. Len(Moved(old, new, q)) -> Names]
        BY <2>1, LenProperties
      <4> QED
        BY <4>1, <4>2 DEF Paths, SeqOf
    <3>2. ASSUME Moved(old, new, q) \in Paths
          PROVE  Len(old) + Len(q) - Len(new) <= MaxDepth
      <4>1. Len(Moved(old, new, q)) \in 0 .. MaxDepth
        BY <1>1, <3>2
      <4> QED
        BY <2>1, <4>1, ConstantsAssumption
    <3> QED
      BY <3>1, <3>2
  <2>3. IsPrefix(old, Moved(old, new, q))
    BY <1>1, <2>1, PrefixElements
  <2> QED
    BY <2>2, <2>3
<1>6. ASSUME NEW q \in Paths \ {<<>>}, IsPrefix(new, q), q # new
      PROVE  /\ IsPrefix(new, Front(q))
             /\ Moved(old, new, q) # <<>> /\ Moved(old, new, q) # old
             /\ Front(Moved(old, new, q)) = Moved(old, new, Front(q))
             /\ Last(Moved(old, new, q)) = Last(q)
  <2> DEFINE m == Moved(old, new, q)
             f == Moved(old, new, Front(q))
  <2>1. IsPrefix(new, Front(q)) /\ Front(q) \in Paths
    BY <1>6, PrefixOfFront, PathFacts
  <2>2. /\ Len(Front(q)) = Len(q) - 1 /\ Len(q) > 0 /\ Last(q) = q[Len(q)]
        /\ \A i \in 1 .. Len(q) - 1 : Front(q)[i] = q[i]
    BY <1>1, FrontLast, PathFacts
  <2>3. /\ f \in Seq(Names) /\ Len(f) = Len(old) + Len(Front(q)) - Len(new)
        /\ Len(new) <= Len(Front(q))
        /\ \A i \in 1 .. Len(old) : f[i] = old[i]
        /\ \A i \in Len(old) + 1 .. Len(old) + Len(Front(q)) - Len(new) :
             f[i] = Front(q)[i - Len(old) + Len(new)]
    BY <1>2, <2>1
  <2>4. /\ m \in Seq(Names) /\ Len(m) = Len(old) + Len(q) - Len(new)
        /\ \A i \in 1 .. Len(old) : m[i] = old[i]
        /\ \A i \in Len(old) + 1 .. Len(old) + Len(q) - Len(new) :
             m[i] = q[i - Len(old) + Len(new)]
    BY <1>2, <1>6
  <2> HIDE DEF m, f
  <2>5. Len(m) > Len(old) /\ Len(m) > 0 /\ Len(f) = Len(m) - 1
    BY <1>1, <2>1, <2>2, <2>3, <2>4
  <2>6. m # <<>> /\ m # old
    BY <1>1, <2>5
  <2>7. /\ Front(m) \in [1 .. Len(m) - 1 -> Names] /\ Len(Front(m)) = Len(m) - 1
        /\ \A i \in 1 .. Len(m) - 1 : Front(m)[i] = m[i]
        /\ Last(m) = m[Len(m)]
    BY <2>4, <2>6, FrontLast
  <2>8. ASSUME NEW i \in 1 .. Len(m) - 1
        PROVE  f[i] = m[i]
    <3>1. CASE i <= Len(old)
      BY <1>1, <2>3, <2>4, <3>1
    <3>2. CASE i > Len(old)
      <4>1. /\ i \in Len(old) + 1 .. Len(old) + Len(Front(q)) - Len(new)
            /\ i \in Len(old) + 1 .. Len(old) + Len(q) - Len(new)
            /\ i - Len(old) + Len(new) \in 1 .. Len(q) - 1
        BY <1>1, <2>1, <2>2, <2>4, <3>2
      <4> QED
        BY <2>2, <2>3, <2>4, <4>1
    <3> QED
      BY <1>1, <3>1, <3>2
  <2>9. f \in [1 .. Len(m) - 1 -> Names]
    BY <2>3, <2>5, LenProperties
  <2>10. Front(m) = f
    BY <2>7, <2>8, <2>9
  <2>11. Last(m) = Last(q)
    <3>1. /\ Len(m) \in Len(old) + 1 .. Len(old) + Len(q) - Len(new)
          /\ Len(m) - Len(old) + Len(new) = Len(q)
      BY <1>1, <2>1, <2>2, <2>3, <2>4, <2>5
    <3> QED
      BY <2>2, <2>4, <2>7, <3>1
  <2> QED
    BY <2>1, <2>6, <2>10, <2>11 DEF m, f
<1> QED
  BY <1>2, <1>3, <1>4, <1>5, <1>6

(* No node at the longest path has entries: all of the tree has paths.      *)
AllHavePaths(s) ==
  \A p \in Paths : Len(p) = MaxDepth => \A n \in FileNames : Entry(s, NodeId(s, p), n) = NoId

(* A node moved to another name: what was found below the old one is found  *)
(* below the new one, nothing below the old one, and all else where it was. *)
LEMMA RenamedLookups ==
  ASSUME NEW s \in Stores, WellFormed(s), AllHavePaths(s), NEW u,
         NEW old \in Paths \ {<<>>}, NEW new \in Paths \ {<<>>}, old # new,
         NodeId(s, old) # NoId, NodeId(s, Front(new)) # NoId,
         ~ IsPrefix(old, Front(new)), ~ IsPrefix(new, Front(old)),
         \A d \in Ids, n \in FileNames :
           Entry(u, d, n) = IF d = NodeId(s, Front(new)) /\ n = Last(new) THEN NodeId(s, old)
                            ELSE IF d = NodeId(s, Front(old)) /\ n = Last(old) THEN NoId
                            ELSE Entry(s, d, n)
  PROVE  \A q \in Paths :
           NodeId(u, q) = IF IsPrefix(new, q)
                          THEN IF Moved(old, new, q) \in Paths
                               THEN NodeId(s, Moved(old, new, q)) ELSE NoId
                          ELSE IF IsPrefix(old, q) THEN NoId ELSE NodeId(s, q)
<1> DEFINE m(q) == Moved(old, new, q)
           g == [q \in Paths |->
                   IF IsPrefix(new, q) THEN IF m(q) \in Paths THEN NodeId(s, m(q)) ELSE NoId
                   ELSE IF IsPrefix(old, q) THEN NoId ELSE NodeId(s, q)]
<1>1. ~ IsPrefix(new, Front(new)) /\ ~ IsPrefix(old, Front(old))
  BY PrefixThroughFront
<1>2. g[<<>>] = Root
  BY LookupStep, PathFacts, PrefixThroughFront
<1>3. ASSUME NEW q \in Paths \ {<<>>}
      PROVE  g[q] = Entry(u, g[Front(q)], Last(q))
  <2>1. CASE q = new
    <3>1. m(q) = old /\ IsPrefix(new, q)
      BY <2>1, MovedFacts
    <3>2. g[q] = NodeId(s, old) /\ g[Front(q)] = NodeId(s, Front(new))
      BY <2>1, <3>1, <1>1, LookupStep
    <3>3. NodeId(s, Front(new)) \in Ids /\ Last(new) \in FileNames
      BY LookupStep
    <3> QED
      BY <2>1, <3>2, <3>3
  <2>2. CASE q # new /\ IsPrefix(new, q)
    <3> DEFINE f == m(Front(q))
    <3>1. /\ IsPrefix(new, Front(q)) /\ Front(q) \in Paths
          /\ m(q) # <<>> /\ m(q) # old /\ Front(m(q)) = f /\ Last(m(q)) = Last(q)
          /\ Len(m(q)) = Len(old) + Len(q) - Len(new)
          /\ m(q) \in Paths <=> Len(old) + Len(q) - Len(new) <= MaxDepth
          /\ Len(f) = Len(old) + Len(Front(q)) - Len(new)
          /\ f \in Paths <=> Len(old) + Len(Front(q)) - Len(new) <= MaxDepth
          /\ f \in Paths => IsPrefix(old, f)
          /\ Last(q) \in FileNames
      BY <2>2, MovedFacts, LookupStep
    <3>2. /\ g[q] = IF m(q) \in Paths THEN NodeId(s, m(q)) ELSE NoId
          /\ g[Front(q)] = IF f \in Paths THEN NodeId(s, f) ELSE NoId
      BY <2>2, <3>1
    <3>3. CASE f \in Paths /\ NodeId(s, f) \in Ids
      <4> DEFINE x == NodeId(s, f)
      <4>1. ~ (x = NodeId(s, Front(new)))
        <5>1. f # Front(new)
          BY <3>1, <3>3
        <5> QED
          BY <3>3, <5>1, LookupStep, ConstantsAssumption
      <4>2. ~ (x = NodeId(s, Front(old)))
        <5>1. f # Front(old)
          BY <3>1, <3>3, <1>1
        <5> QED
          BY <3>3, <5>1, LookupStep, ConstantsAssumption
      <4>3. Entry(u, x, Last(q)) = Entry(s, x, Last(q))
        BY <3>1, <3>3, <4>1, <4>2
      <4>4. CASE m(q) \in Paths
        <5>1. NodeId(s, m(q)) = Entry(s, x, Last(q))
          BY <3>1, <4>4, LookupStep
        <5> QED
          BY <3>2, <3>3, <4>3, <4>4, <5>1
      <4>5. CASE m(q) \notin Paths
        <5>1. Len(f) = MaxDepth
          <6>1. Len(Front(q)) = Len(q) - 1 /\ Len(q) \in Nat /\ Len(old) \in Nat /\ Len(new) \in Nat
            BY PathFacts
          <6> QED
            BY <3>1, <3>3, <4>5, <6>1, ConstantsAssumption
        <5>2. Entry(s, x, Last(q)) = NoId
          BY <3>1, <3>3, <5>1 DEF AllHavePaths
        <5> QED
          BY <3>2, <3>3, <4>3, <4>5, <5>2
      <4> QED
        BY <4>4, <4>5
    <3>4. CASE ~ (f \in Paths /\ NodeId(s, f) \in Ids)
      <4>1. g[Front(q)] = NoId
        BY <3>2, <3>4, LookupStep
      <4>2. m(q) \in Paths => f \in Paths
        BY <3>1, PathFacts
      <4>3. m(q) \in Paths => NodeId(s, m(q)) = Entry(s, NodeId(s, f), Last(q))
        BY <3>1, LookupStep
      <4>4. g[q] = NoId
        BY <3>2, <3>4, <4>2, <4>3, NoEntries
      <4> QED
        BY <4>1, <4>4, NoEntries, ConstantsAssumption
    <3> QED
      BY <3>3, <3>4
  <2>3. CASE ~ IsPrefix(new, q) /\ q = old
    <3>1. g[q] = NoId
      BY <2>3, MovedFacts
    <3>2. g[Front(q)] = NodeId(s, Front(old)) /\ Last(q) \in FileNames
      BY <2>3, <1>1, LookupStep
    <3>3. NodeId(s, Front(old)) \in Ids
      BY LookupStep, NoEntries
    <3>4. ~ (NodeId(s, Front(old)) = NodeId(s, Front(new)) /\ Last(old) = Last(new))
      BY <3>3, LookupStep, ConstantsAssumption
    <3> QED
      BY <2>3, <3>1, <3>2, <3>3, <3>4
  <2>4. CASE ~ IsPrefix(new, q) /\ q # old /\ IsPrefix(old, q)
    <3>1. IsPrefix(old, Front(q)) /\ ~ IsPrefix(new, Front(q)) /\ Front(q) \in Paths
      BY <2>4, PrefixThroughFront, LookupStep
    <3>2. g[q] = NoId /\ g[Front(q)] = NoId
      BY <2>4, <3>1
    <3> QED
      BY <3>2, NoEntries, ConstantsAssumption
  <2>5. CASE ~ IsPrefix(new, q) /\ ~ IsPrefix(old, q)
    <3>1. ~ IsPrefix(new, Front(q)) /\ ~ IsPrefix(old, Front(q)) /\ Front(q) \in Paths
      BY <2>5, PrefixThroughFront, LookupStep
    <3>2. q # new /\ q # old
      BY <2>5, MovedFacts, SMTT(30), ZenonT(30)
    <3>3. /\ g[q] = NodeId(s, q) /\ g[Front(q)] = NodeId(s, Front(q)) /\ Last(q) \in FileNames
          /\ NodeId(s, q) = Entry(s, NodeId(s, Front(q)), Last(q))
      BY <2>5, <3>1, LookupStep
    <3>4. CASE NodeId(s, Front(q)) \in Ids
      <4>1. /\ ~ (NodeId(s, Front(q)) = NodeId(s, Front(new)) /\ Last(q) = Last(new))
            /\ ~ (NodeId(s, Front(q)) = NodeId(s, Front(old)) /\ Last(q) = Last(old))
        BY <3>2, <3>4, LookupStep, ConstantsAssumption
      <4> QED
        BY <3>3, <3>4, <4>1
    <3>5. CASE NodeId(s, Front(q)) \notin Ids
      BY <3>3, <3>5, NoEntries
    <3> QED
      BY <3>4, <3>5
  <2> QED
    BY <2>1, <2>2, <2>3, <2>4, <2>5
<1> HIDE DEF g
<1>4. \A q \in Paths : NodeId(u, q) = g[q]
  BY <1>2, <1>3, LookupsAre
<1> QED
  BY <1>4 DEF g

(* As many paths deep as there are nodes, no node is too deep for a path.   *)
LEMMA FewNodesHavePaths ==
  ASSUME NEW s \in Stores, WellFormed(s),
         NEW N, IsFiniteSet(N), Cardinality(N) <= MaxDepth,
         \A i \in Ids : IsInode(s, i) => i \in N \union {Root}
  PROVE  AllHavePaths(s)
<1> DEFINE Above(A, n) == /\ IsFiniteSet(A) /\ A \subseteq N /\ Cardinality(A) = n
                          /\ \A a \in A : \E q \in Paths \ {<<>>} : Len(q) <= n /\ NodeId(s, q) = a
           Good == {n \in Nat : \A p \in Paths :
                      Len(p) = n /\ NodeId(s, p) # NoId => \E A : Above(A, n)}
<1>1. 0 \in Good
  <2>1. Above({}, 0)
    BY FS_EmptySet
  <2> QED
    BY <2>1
<1>2. \A p \in Paths, n \in FileNames :
        Entry(s, NodeId(s, p), n) # NoId => Entry(s, NodeId(s, p), n) \in N
  BY NoEntries, EntryFacts
<1>3. ASSUME NEW n \in Good
      PROVE  n + 1 \in Good
  <2> SUFFICES ASSUME NEW p \in Paths, Len(p) = n + 1, NodeId(s, p) # NoId
               PROVE  \E A : Above(A, n + 1)
    OBVIOUS
  <2>1. p # <<>> /\ Front(p) \in Paths /\ Len(Front(p)) = n /\ n \in Nat
    BY PathFacts, <1>3
  <2>2. NodeId(s, p) = Entry(s, NodeId(s, Front(p)), Last(p)) /\ Last(p) \in FileNames
    BY <2>1, LookupStep
  <2>3. NodeId(s, Front(p)) # NoId
    BY <2>2, NoEntries, ConstantsAssumption
  <2>4. PICK A : Above(A, n)
    BY <2>1, <2>3, <1>3
  <2>5. NodeId(s, p) \notin A
    <3>1. \A q \in Paths : NodeId(s, q) = NodeId(s, p) => Len(q) = n + 1
      BY LookupInjective
    <3> QED
      BY <2>1, <2>4, <3>1
  <2>6. NodeId(s, p) \in N
    BY <2>1, <2>2, <1>2
  <2>7. Above(A \union {NodeId(s, p)}, n + 1)
    <3>1. IsFiniteSet(A \union {NodeId(s, p)}) /\ Cardinality(A \union {NodeId(s, p)}) = n + 1
      BY <2>4, <2>5, FS_AddElement
    <3>2. \A q \in Paths : Len(q) <= n => Len(q) <= n + 1
      BY <2>1, PathFacts
    <3>3. ASSUME NEW a \in A \union {NodeId(s, p)}
          PROVE  \E q \in Paths \ {<<>>} : Len(q) <= n + 1 /\ NodeId(s, q) = a
      BY <2>1, <2>4, <3>2
    <3> QED
      BY <2>4, <2>6, <3>1, <3>3
  <2> QED
    BY <2>7
<1>4. Good = Nat
  <2>1. Good \subseteq Nat
    OBVIOUS
  <2> HIDE DEF Good
  <2> QED
    BY <1>1, <1>3, <2>1, SetInduction
<1>5. SUFFICES ASSUME NEW p \in Paths, Len(p) = MaxDepth, NEW n \in FileNames,
                      Entry(s, NodeId(s, p), n) # NoId
               PROVE  FALSE
  BY DEF AllHavePaths
<1> DEFINE e == Entry(s, NodeId(s, p), n)
<1>6. NodeId(s, p) # NoId /\ NodeId(s, p) \in Ids /\ e \in N
  BY <1>2, <1>5, NoEntries, LookupStep, ConstantsAssumption
<1>7. PICK A : Above(A, MaxDepth)
  BY <1>4, <1>5, <1>6, ConstantsAssumption
<1>8. e \notin A
  <2>1. ASSUME NEW q \in Paths \ {<<>>}, Len(q) <= MaxDepth, NodeId(s, q) = e
        PROVE  FALSE
    <3>1. /\ e = Entry(s, NodeId(s, Front(q)), Last(q)) /\ Last(q) \in FileNames
          /\ Front(q) \in Paths
      BY <2>1, LookupStep
    <3>2. NodeId(s, Front(q)) \in Ids
      BY <1>5, <3>1, NoEntries
    <3>3. NodeId(s, Front(q)) = NodeId(s, p)
      BY <1>5, <1>6, <3>1, <3>2 DEF WellFormed, NoDoubleEntry
    <3>4. Front(q) = p
      BY <1>6, <3>1, <3>3, LookupInjective
    <3> QED
      BY <1>5, <2>1, <3>4, PathFacts, ConstantsAssumption
  <2> QED
    BY <1>7, <2>1
<1>9. Cardinality(A \union {e}) = MaxDepth + 1 /\ A \union {e} \subseteq N
  BY <1>6, <1>7, <1>8, FS_AddElement
<1>10. Cardinality(A \union {e}) <= Cardinality(N)
  BY <1>9, FS_Subset
<1> QED
  BY <1>9, <1>10, FS_CardinalityType, ConstantsAssumption

----------------------------------------------------------------------------
(* What the operations do to the tree that stat and readFile show.          *)

(* Under what has no entries, a file or nothing, there is nothing.          *)
LEMMA NothingUnder ==
  ASSUME NEW s \in Stores, WellFormed(s), NEW p \in Paths \ {<<>>},
         \A n \in FileNames : Entry(s, NodeId(s, p), n) = NoId
  PROVE  \A q \in Paths : Under(p, q) => NodeId(s, q) = NoId
<1>1. \A d \in Ids, n \in FileNames :
        Entry(s, d, n) = IF d = NodeId(s, p) THEN NoId ELSE Entry(s, d, n)
  OBVIOUS
<1> QED
  BY <1>1, SyncedLookups

(* A path that can be created is not there, its parent is a directory, and  *)
(* afterwards the one thing that changed in the tree is that path.          *)
LEMMA CreatedTree ==
  ASSUME NEW s \in Stores, WellFormed(s),
         NEW p \in Paths, CanCreate(s, p), NEW t \in {"dir", "file"},
         NEW dataId \in Ids \ {Root}, NEW nodeId \in Ids \ {Root},
         dataId # nodeId, s[dataId] = Undefined, s[nodeId] = Undefined
  PROVE  LET u == Created(s, p, t, dataId, nodeId)
         IN /\ p # <<>>
            /\ NodeAt(s, p) = [type |-> "absent"] /\ NodeAt(s, Front(p)) = [type |-> "dir"]
            /\ \A q \in Paths : NodeAt(u, q) =
                 IF q # p THEN NodeAt(s, q)
                 ELSE IF t = "dir" THEN [type |-> "dir"] ELSE [type |-> "file", bytes |-> Empty]
            /\ \A q \in Paths : NodeId(u, q) = IF q = p THEN nodeId ELSE NodeId(s, q)
            /\ NodeId(s, p) = NoId
            /\ \A i \in Ids : IsInode(u, i) <=> IsInode(s, i) \/ i = nodeId
            /\ \A d \in Ids : Entry(u, d, NoName) = Entry(s, d, NoName)
<1> DEFINE u == Created(s, p, t, dataId, nodeId)
           parent == NodeId(s, Front(p))
<1>1. /\ p # <<>> /\ Last(p) \in FileNames /\ Last(p) # NoName
      /\ CanCreateIn(s, parent, Last(p)) /\ u = CreatedIn(s, parent, Last(p), t, dataId, nodeId)
  BY PathFacts, ConstantsAssumption DEF CanCreate, Created, ParentId, FileNames
<1>2. /\ NodeId(s, p) = NoId /\ IsDir(s, parent) /\ parent \in Ids
  BY <1>1, LookupStep DEF CanCreateIn, HasListing, IsDir, IsInode
<1> HIDE DEF u
<1>3. /\ \A d \in Ids, n \in FileNames :
           Entry(u, d, n) = IF d = parent /\ n = Last(p) THEN nodeId ELSE Entry(s, d, n)
      /\ \A i \in Ids : IsInode(u, i) <=> IsInode(s, i) \/ i = nodeId
      /\ \A i \in Ids \ {nodeId} : NodeOf(u, i) = NodeOf(s, i)
      /\ NodeOf(u, nodeId) = IF t = "dir" THEN [type |-> "dir"]
                             ELSE [type |-> "file", bytes |-> Empty]
  BY <1>1, CreatedInSound
<1>4. \A q \in Paths : NodeId(u, q) = IF q = p THEN nodeId ELSE NodeId(s, q)
  BY <1>1, <1>2, <1>3, CreatedLookups, ConstantsAssumption
<1>5. NodeOf(u, NoId) = NodeOf(s, NoId)
  BY ConstantsAssumption DEF NodeOf, IsFile, IsDir, IsInode
<1>6. \A q \in Paths : NodeAt(u, q) = NodeOf(u, NodeId(u, q)) /\ NodeAt(s, q) = NodeOf(s, NodeId(s, q))
  BY DEF NodeAt, NodeOf
<1>7. \A q \in Paths : NodeId(s, q) # nodeId
  <2> TAKE q \in Paths
  <2>1. CASE q = <<>>
    BY <2>1, LookupStep
  <2>2. CASE q # <<>>
    <3>1. NodeId(s, q) = Entry(s, NodeId(s, Front(q)), Last(q)) /\ Last(q) \in FileNames
      BY <2>2, LookupStep
    <3>2. NodeId(s, q) # NoId => IsInode(s, NodeId(s, q))
      BY <3>1, NoEntries, EntryFacts
    <3> QED
      BY <3>2, ConstantsAssumption DEF IsInode, Undefined
  <2> QED
    BY <2>1, <2>2
<1>8. \A q \in Paths : NodeAt(u, q) =
        IF q # p THEN NodeAt(s, q)
        ELSE IF t = "dir" THEN [type |-> "dir"] ELSE [type |-> "file", bytes |-> Empty]
  <2> TAKE q \in Paths
  <2>1. NodeId(s, q) \in Ids \union {NoId}
    BY LookupStep
  <2> QED
    BY <2>1, <1>3, <1>4, <1>5, <1>6, <1>7
<1>9. NodeAt(s, p) = [type |-> "absent"] /\ NodeAt(s, Front(p)) = [type |-> "dir"]
  BY <1>2, ConstantsAssumption DEF NodeAt, IsFile, IsDir, IsInode
<1>10. \A d \in Ids : Entry(u, d, NoName) = Entry(s, d, NoName)
  BY <1>1, <1>3 DEF FileNames
<1> QED
  BY <1>1, <1>2, <1>3, <1>4, <1>8, <1>9, <1>10 DEF u

(* A file, or a directory that was read and found empty, has nothing under  *)
(* it; removing it takes its path from the tree.                            *)
LEMMA RemovedTree ==
  ASSUME NEW s \in Stores, WellFormed(s),
         NEW p \in Paths \ {<<>>}, NEW t \in {"dir", "file"}, CanRemove(s, p, t),
         t = "dir" => IsEmptyDir(s, p)
  PROVE  LET u == Removed(s, p)
         IN /\ NodeAt(s, p).type = t /\ (t = "dir" => NodeAt(s, p) = [type |-> "dir"])
            /\ \A q \in Paths : Under(p, q) => NodeAt(s, q) = [type |-> "absent"]
            /\ \A q \in Paths :
                 NodeAt(u, q) = IF q = p THEN [type |-> "absent"] ELSE NodeAt(s, q)
            /\ \A q \in Paths : NodeId(u, q) = IF q = p THEN NoId ELSE NodeId(s, q)
            /\ \A i \in Ids : IsInode(u, i) <=> IsInode(s, i) /\ i # NodeId(s, p)
            /\ \A d \in Ids : Entry(u, d, NoName) \in {NoId, Entry(s, d, NoName)}
<1> DEFINE u == Removed(s, p)
           parent == NodeId(s, Front(p))
           node == NodeId(s, p)
<1>1. /\ Last(p) \in FileNames /\ CanRemoveFrom(s, parent, Last(p), t)
      /\ u = RemovedFrom(s, parent, Last(p)) /\ node = Entry(s, parent, Last(p))
  BY PathFacts, LookupStep DEF CanRemove, Removed, ParentId
<1>2. node # NoId /\ IsInode(s, node) /\ s[node].type = t /\ node \in Ids
  BY <1>1 DEF CanRemoveFrom, IsInode
<1>3. \A n \in FileNames : Entry(s, node, n) = NoId
  <2>1. CASE t = "dir"
    BY <2>1 DEF IsEmptyDir, IsEmptyDirAt, Entry
  <2>2. CASE t = "file"
    BY <2>2, <1>2, NoEntries DEF IsDir
  <2> QED
    BY <2>1, <2>2
<1> HIDE DEF u
<1>4. /\ \A d \in Ids, n \in FileNames :
           Entry(u, d, n) = IF d = node \/ (d = parent /\ n = Last(p)) THEN NoId ELSE Entry(s, d, n)
      /\ \A i \in Ids : IsInode(u, i) <=> IsInode(s, i) /\ i # node
      /\ \A i \in Ids \ {node} : NodeOf(u, i) = NodeOf(s, i)
      /\ NodeOf(u, node) = [type |-> "absent"]
  BY <1>1, RemovedFromSound
<1>5. \A q \in Paths : NodeId(u, q) = IF q = p THEN NoId ELSE NodeId(s, q)
  <2>1. NodeId(s, p) # NoId /\ \A n \in FileNames : Entry(s, NodeId(s, p), n) = NoId
    BY <1>2, <1>3
  <2>2. \A d \in Ids, n \in FileNames :
          Entry(u, d, n) = IF d = NodeId(s, p) \/ (d = NodeId(s, Front(p)) /\ n = Last(p))
                           THEN NoId ELSE Entry(s, d, n)
    BY <1>4
  <2> QED
    BY <2>1, <2>2, RemovedLookups
<1>6. NodeOf(u, NoId) = [type |-> "absent"] /\ NodeOf(s, NoId) = [type |-> "absent"]
  BY ConstantsAssumption DEF NodeOf, IsFile, IsDir, IsInode
<1>7. \A q \in Paths : NodeAt(u, q) = NodeOf(u, NodeId(u, q)) /\ NodeAt(s, q) = NodeOf(s, NodeId(s, q))
  BY DEF NodeAt, NodeOf
<1>8. \A q \in Paths : NodeAt(u, q) = IF q = p THEN [type |-> "absent"] ELSE NodeAt(s, q)
  <2> TAKE q \in Paths
  <2>1. NodeId(s, q) \in Ids \union {NoId} /\ (q # p => NodeId(s, q) # node)
    BY <1>2, LookupStep
  <2> QED
    BY <2>1, <1>4, <1>5, <1>6, <1>7
<1>9. NodeAt(s, p).type = t /\ (t = "dir" => NodeAt(s, p) = [type |-> "dir"])
  BY <1>2 DEF NodeAt, IsFile, IsDir
<1>10. \A q \in Paths : Under(p, q) => NodeAt(s, q) = [type |-> "absent"]
  BY <1>3, <1>6, <1>7, NothingUnder
<1>11. \A d \in Ids : Entry(u, d, NoName) \in {NoId, Entry(s, d, NoName)}
  BY <1>4 DEF FileNames
<1> QED
  BY <1>4, <1>5, <1>8, <1>9, <1>10, <1>11 DEF u

(* What a handle writes to becomes a file; whatever was under it is gone.   *)
LEMMA SyncedTree ==
  ASSUME NEW s \in Stores, WellFormed(s),
         NEW p \in Paths \ {<<>>}, NEW c \in Contents, CanSync(s, p)
  PROVE  LET u == Synced(s, p, c)
         IN /\ NodeAt(s, p) # [type |-> "absent"]
            /\ \A q \in Paths : NodeAt(u, q) =
                 IF q = p THEN [type |-> "file", bytes |-> c]
                 ELSE IF Under(p, q) THEN [type |-> "absent"] ELSE NodeAt(s, q)
            /\ (IsDir(s, NodeId(s, p)) => IsEmptyDir(s, p)) =>
                 \A q \in Paths : NodeId(u, q) = NodeId(s, q)
            /\ \A i \in Ids : IsInode(u, i) <=> IsInode(s, i)
            /\ \A d \in Ids : Entry(u, d, NoName) \in {NoId, Entry(s, d, NoName)}
<1> DEFINE u == Synced(s, p, c)
           node == NodeId(s, p)
<1>1. IsInode(s, node) /\ node \in Ids \ {Root} /\ node # NoId /\ u = SyncedAt(s, node, c)
  BY LookupStep, ConstantsAssumption DEF CanSync, Synced, IsInode
<1> HIDE DEF u
<1>2. /\ \A d \in Ids, n \in FileNames :
           Entry(u, d, n) = IF d = node THEN NoId ELSE Entry(s, d, n)
      /\ \A i \in Ids : IsInode(u, i) <=> IsInode(s, i)
      /\ \A i \in Ids \ {node} : NodeOf(u, i) = NodeOf(s, i)
      /\ NodeOf(u, node) = [type |-> "file", bytes |-> c]
  BY <1>1, SyncedAtSound
<1>3. \A q \in Paths : NodeId(u, q) = IF Under(p, q) THEN NoId ELSE NodeId(s, q)
  BY <1>1, <1>2, SyncedLookups
<1>4. NodeOf(u, NoId) = [type |-> "absent"] /\ NodeOf(s, NoId) = [type |-> "absent"]
  BY ConstantsAssumption DEF NodeOf, IsFile, IsDir, IsInode
<1>5. \A q \in Paths : NodeAt(u, q) = NodeOf(u, NodeId(u, q)) /\ NodeAt(s, q) = NodeOf(s, NodeId(s, q))
  BY DEF NodeAt, NodeOf
<1>6. \A q \in Paths : NodeAt(u, q) =
        IF q = p THEN [type |-> "file", bytes |-> c]
        ELSE IF Under(p, q) THEN [type |-> "absent"] ELSE NodeAt(s, q)
  <2> TAKE q \in Paths
  <2>1. NodeId(s, q) \in Ids \union {NoId} /\ (q # p => NodeId(s, q) # node) /\ ~ Under(p, p)
    BY <1>1, LookupStep DEF Under
  <2> QED
    BY <2>1, <1>2, <1>3, <1>4, <1>5
<1>7. NodeAt(s, p) # [type |-> "absent"]
  <2>1. s[node].type \in {"dir", "file"}
    BY <1>1, StoreFacts
  <2>2. NodeAt(s, p).type \in {"dir", "file"}
    BY <1>1, <2>1 DEF NodeAt, IsFile, IsDir
  <2> QED
    BY <2>2
<1>8. ASSUME IsDir(s, node) => IsEmptyDir(s, p)
      PROVE  \A q \in Paths : NodeId(u, q) = NodeId(s, q)
  <2>1. \A n \in FileNames : Entry(s, node, n) = NoId
    BY <1>8 DEF IsEmptyDir, IsEmptyDirAt, Entry, HasListing
  <2>2. \A q \in Paths : Under(p, q) => NodeId(s, q) = NoId
    BY <2>1, NothingUnder
  <2> QED
    BY <1>3, <2>2
<1>9. \A d \in Ids : Entry(u, d, NoName) \in {NoId, Entry(s, d, NoName)}
  BY <1>2 DEF FileNames
<1> QED
  BY <1>2, <1>6, <1>7, <1>8, <1>9 DEF u

(* A rename moves what is at a path and under it, over a file or nothing,   *)
(* into a directory that is not itself part of it.                          *)
LEMMA RenamedTree ==
  ASSUME NEW s \in Stores, WellFormed(s), AllHavePaths(s),
         NEW old \in Paths \ {<<>>}, NEW new \in Paths \ {<<>>}, old # new,
         CanRename(s, old, new)
  PROVE  LET u == Renamed(s, old, new)
         IN /\ NodeAt(s, old) # [type |-> "absent"]
            /\ NodeAt(s, Front(new)) = [type |-> "dir"] /\ ~ IsPrefix(old, Front(new))
            /\ NodeAt(s, new) = [type |-> "absent"] \/ NodeAt(s, new).type = "file"
            /\ \A q \in Paths :
                 NodeAt(u, q) = IF IsPrefix(new, q)
                                THEN IF Moved(old, new, q) \in Paths
                                     THEN NodeAt(s, Moved(old, new, q)) ELSE [type |-> "absent"]
                                ELSE IF IsPrefix(old, q) THEN [type |-> "absent"] ELSE NodeAt(s, q)
            /\ NodeId(u, new) = NodeId(s, old)
            /\ \A d \in Ids, n \in FileNames :
                 Entry(u, d, n) = IF d = NodeId(s, Front(new)) /\ n = Last(new) THEN NodeId(s, old)
                                  ELSE IF d = NodeId(s, Front(old)) /\ n = Last(old) THEN NoId
                                  ELSE Entry(s, d, n)
            /\ \A i \in Ids : IsInode(u, i) <=> IsInode(s, i) /\ i # NodeId(s, new)
<1> DEFINE u == Renamed(s, old, new)
           oldDir == NodeId(s, Front(old))
           newDir == NodeId(s, Front(new))
           victim == NodeId(s, new)
<1>1. /\ ParentId(s, old) = oldDir /\ Basename(old) = Last(old) /\ Last(old) \in FileNames
      /\ ParentId(s, new) = newDir /\ Basename(new) = Last(new) /\ Last(new) \in FileNames
      /\ Dirname(new) = Front(new) /\ Dirname(old) = Front(old)
      /\ NodeId(s, old) = Entry(s, oldDir, Last(old)) /\ victim = Entry(s, newDir, Last(new))
  BY PathFacts, LookupStep DEF ParentId
<1>2. Target(s, old) = NodeId(s, old) /\ Victim(s, old, new) = victim
  <2>1. ~ (SameParent(old, new) /\ Last(old) = Last(new))
    BY <1>1, PathFacts DEF SameParent
  <2> QED
    BY <1>1, <2>1 DEF Target, Victim, VictimIn
<1>3. /\ ~ IsPrefix(old, Front(new))
      /\ NodeId(s, old) # NoId /\ HasListing(s, oldDir) /\ HasListing(s, newDir)
      /\ victim = NoId \/ IsFile(s, victim)
  BY <1>1, <1>2 DEF CanRename, CanRenameIn, MovesInsideItself, Victim
<1>4. newDir \in Ids /\ IsDir(s, newDir) /\ newDir # NoId /\ IsInode(s, NodeId(s, old))
  BY <1>1, <1>3, EntryFacts, ConstantsAssumption DEF HasListing, IsDir, IsInode
<1>5. ~ IsPrefix(new, Front(old))
  <2>1. \A n \in FileNames : Entry(s, victim, n) = NoId
    BY <1>3, NoEntries, ConstantsAssumption DEF IsFile, IsDir
  <2>2. ~ Under(new, old)
    BY <1>3, <2>1, NothingUnder
  <2> QED
    BY <2>2, PrefixThroughFront DEF Under
<1> HIDE DEF u
<1>6. /\ \A d \in Ids, n \in FileNames :
           Entry(u, d, n) = IF d = newDir /\ n = Last(new) THEN NodeId(s, old)
                            ELSE IF d = oldDir /\ n = Last(old) THEN NoId
                            ELSE Entry(s, d, n)
      /\ \A i \in Ids : IsInode(u, i) <=> IsInode(s, i) /\ i # victim
      /\ \A i \in Ids \ {victim} : NodeOf(u, i) = NodeOf(s, i)
  BY <1>1, <1>2, RenamedSound DEF u
<1>7. \A q \in Paths :
        NodeId(u, q) = IF IsPrefix(new, q)
                       THEN IF Moved(old, new, q) \in Paths
                            THEN NodeId(s, Moved(old, new, q)) ELSE NoId
                       ELSE IF IsPrefix(old, q) THEN NoId ELSE NodeId(s, q)
  BY <1>3, <1>4, <1>5, <1>6, RenamedLookups, SMTT(30), ZenonT(30)
<1>8. NodeOf(u, NoId) = [type |-> "absent"] /\ NodeOf(s, NoId) = [type |-> "absent"]
  BY ConstantsAssumption DEF NodeOf, IsFile, IsDir, IsInode
<1>9. \A q \in Paths : NodeAt(u, q) = NodeOf(u, NodeId(u, q)) /\ NodeAt(s, q) = NodeOf(s, NodeId(s, q))
  BY DEF NodeAt, NodeOf
<1>10. \A q \in Paths \ {new} : NodeOf(u, NodeId(s, q)) = NodeOf(s, NodeId(s, q))
  <2> TAKE q \in Paths \ {new}
  <2>1. NodeId(s, q) \in Ids \union {NoId} /\ (NodeId(s, q) = victim => NodeId(s, q) = NoId)
    BY LookupStep
  <2> QED
    BY <2>1, <1>6, <1>8
<1>11. ASSUME NEW q \in Paths
       PROVE  NodeAt(u, q) = IF IsPrefix(new, q)
                             THEN IF Moved(old, new, q) \in Paths
                                  THEN NodeAt(s, Moved(old, new, q)) ELSE [type |-> "absent"]
                             ELSE IF IsPrefix(old, q) THEN [type |-> "absent"] ELSE NodeAt(s, q)
  <2>1. CASE IsPrefix(new, q) /\ Moved(old, new, q) \in Paths
    <3>1. IsPrefix(old, Moved(old, new, q))
      BY <2>1, MovedFacts
    <3>2. Moved(old, new, q) # new
      BY <1>3, <3>1, PrefixThroughFront
    <3> QED
      BY <2>1, <3>2, <1>7, <1>9, <1>10
  <2>2. CASE IsPrefix(new, q) /\ Moved(old, new, q) \notin Paths
    BY <2>2, <1>7, <1>8, <1>9
  <2>3. CASE ~ IsPrefix(new, q) /\ IsPrefix(old, q)
    BY <2>3, <1>7, <1>8, <1>9
  <2>4. CASE ~ IsPrefix(new, q) /\ ~ IsPrefix(old, q)
    <3>1. q # new
      BY <2>4, MovedFacts
    <3> QED
      BY <2>4, <3>1, <1>7, <1>9, <1>10
  <2> QED
    BY <2>1, <2>2, <2>3, <2>4
<1>12. NodeAt(s, old) # [type |-> "absent"]
  <2>1. s[NodeId(s, old)].type \in {"dir", "file"}
    BY <1>4, StoreFacts DEF IsInode
  <2>2. NodeAt(s, old).type \in {"dir", "file"}
    BY <1>4, <2>1 DEF NodeAt, IsFile, IsDir
  <2> QED
    BY <2>2
<1>13. NodeAt(s, Front(new)) = [type |-> "dir"]
  BY <1>4 DEF NodeAt, IsFile, IsDir
<1>14. NodeAt(s, new) = [type |-> "absent"] \/ NodeAt(s, new).type = "file"
  BY <1>3, ConstantsAssumption DEF NodeAt, IsFile, IsDir, IsInode
<1>15. NodeId(u, new) = NodeId(s, old)
  BY <1>7, MovedFacts
<1> QED
  BY <1>3, <1>6, <1>11, <1>12, <1>13, <1>14, <1>15 DEF u

(* A rename of a path to itself changes nothing.                            *)
LEMMA RenamedSame ==
  ASSUME NEW s \in Stores, WellFormed(s), NEW p \in Paths \ {<<>>}, CanRename(s, p, p)
  PROVE  LET u == Renamed(s, p, p)
         IN /\ \A q \in Paths : NodeId(u, q) = NodeId(s, q) /\ NodeAt(u, q) = NodeAt(s, q)
            /\ \A i \in Ids : IsInode(u, i) <=> IsInode(s, i)
            /\ \A d \in Ids, n \in FileNames : Entry(u, d, n) = Entry(s, d, n)
<1> DEFINE u == Renamed(s, p, p)
           g == [q \in Paths |-> NodeId(s, q)]
<1>1. Victim(s, p, p) = NoId
  BY DEF Victim, VictimIn, SameParent
<1>2. /\ \A d \in Ids, n \in FileNames : Entry(u, d, n) = Entry(s, d, n)
      /\ \A i \in Ids : (IsInode(u, i) <=> IsInode(s, i)) /\ NodeOf(u, i) = NodeOf(s, i)
  BY <1>1, RenamedSound, ConstantsAssumption DEF Target
<1> HIDE DEF u
<1>3. g[<<>>] = Root
  BY LookupStep, PathFacts
<1>4. ASSUME NEW q \in Paths \ {<<>>}
      PROVE  g[q] = Entry(u, g[Front(q)], Last(q))
  <2>1. /\ g[q] = Entry(s, NodeId(s, Front(q)), Last(q)) /\ Last(q) \in FileNames
        /\ g[Front(q)] = NodeId(s, Front(q))
    BY LookupStep
  <2>2. CASE NodeId(s, Front(q)) \in Ids
    BY <2>1, <2>2, <1>2
  <2>3. CASE NodeId(s, Front(q)) \notin Ids
    BY <2>1, <2>3, NoEntries
  <2> QED
    BY <2>2, <2>3
<1> HIDE DEF g
<1>5. \A q \in Paths : NodeId(u, q) = g[q]
  BY <1>3, <1>4, LookupsAre
<1>6. \A q \in Paths : NodeId(u, q) = NodeId(s, q)
  BY <1>5 DEF g
<1>7. NodeOf(u, NoId) = NodeOf(s, NoId)
  BY ConstantsAssumption DEF NodeOf, IsFile, IsDir, IsInode
<1>8. \A q \in Paths : NodeAt(u, q) = NodeOf(u, NodeId(u, q)) /\ NodeAt(s, q) = NodeOf(s, NodeId(s, q))
  BY DEF NodeAt, NodeOf
<1>9. \A q \in Paths : NodeAt(u, q) = NodeAt(s, q)
  BY <1>2, <1>6, <1>7, <1>8, LookupStep
<1> QED
  BY <1>2, <1>6, <1>9 DEF u
=============================================================================
