------------------------------ MODULE LRUCache ------------------------------
(***************************************************************************)
(* The inode cache of AsyncKeyValueFileSystem, pointer by pointer          *)
(* (src/src/generic/key_value_filesystem.ts).  A node is named by its key: *)
(* a key has one node at a time, because set takes the old one off the     *)
(* list before it makes a new one.                                         *)
(***************************************************************************)
EXTENDS Integers, SequencesExt

CONSTANTS
  Keys,    \* bound: the paths cached
  Values,  \* bound: the inode ids
  Limit,   \* cacheSize
  Null     \* null, and undefined

ASSUME LimitAssumption == Limit \in Nat \ {0} /\ Null \notin Keys \union Values

VARIABLES
  lru,    \* the LRUCache object; prev and next hold the fields of the nodes
  threw   \* a call threw a TypeError; what follows one is not modelled

lruVars == <<lru, threw>>

Cached(k) == lru.map[k] # Null

(* remove, of a key that is there *)
Unlinked(l, k) ==
  LET p == l.prev[k]
      n == l.next[k]
      a == IF p # Null THEN [l EXCEPT !.next[p] = n] ELSE [l EXCEPT !.head = n]
      b == IF n # Null THEN [a EXCEPT !.prev[n] = p] ELSE [a EXCEPT !.tail = p]
  IN [b EXCEPT !.map[k] = Null, !.size = @ - 1]

(* Mutant of setHead: the old head's prev is not set. *)
AtHeadOneWay(l, k, v) ==
  [l EXCEPT !.next[k] = l.head, !.prev[k] = Null, !.head = k,
            !.tail = IF l.tail = Null THEN k ELSE @, !.size = @ + 1, !.map[k] = v]
(* setHead *)
AtHead(l, k, v) ==
  LET a == [l EXCEPT !.next[k] = l.head, !.prev[k] = Null]
      b == IF l.head # Null THEN [a EXCEPT !.prev[l.head] = k] ELSE a
  IN [b EXCEPT !.head = k, !.tail = IF l.tail = Null THEN k ELSE @,
               !.size = @ + 1, !.map[k] = v]

(* set, when the cache is full: the tail goes.  `this.tail!.next = null` throws
   when the tail was the only node. *)
Evicting(k) == ~ Cached(k) /\ lru.size >= Limit
NewTail == lru.prev[lru.tail]
Evicted ==
  [lru EXCEPT !.map[lru.tail] = Null, !.size = @ - 1, !.tail = NewTail, !.next[NewTail] = Null]

EmptyLRU ==
  [map |-> [k \in Keys |-> Null], prev |-> [k \in Keys |-> Null],
   next |-> [k \in Keys |-> Null], head |-> Null, tail |-> Null, size |-> 0]

LRUInit == lru = EmptyLRU /\ threw = FALSE

(* Mutant: a key that is there gets its value and keeps its place. *)
SetInPlace(k, v) ==
  /\ Evicting(k) => NewTail # Null
  /\ lru' = IF Cached(k) THEN [lru EXCEPT !.map[k] = v]
            ELSE AtHead(IF Evicting(k) THEN Evicted ELSE lru, k, v)
  /\ UNCHANGED threw
Set(k, v) ==
  \/ Evicting(k) /\ NewTail = Null /\ threw' = TRUE /\ UNCHANGED lru
  \/ /\ Evicting(k) => NewTail # Null
     /\ lru' = AtHead(IF Cached(k) THEN Unlinked(lru, k)
                      ELSE IF Evicting(k) THEN Evicted ELSE lru, k, v)
     /\ UNCHANGED threw

Get(k) ==
  /\ Cached(k)
  /\ lru' = AtHead(Unlinked(lru, k), k, lru.map[k])
  /\ UNCHANGED threw

Delete(k) ==
  /\ Cached(k)
  /\ lru' = Unlinked(lru, k)
  /\ UNCHANGED threw

(* removeAll: the nodes' own fields no longer matter *)
RemoveAll == lru' = EmptyLRU /\ UNCHANGED threw

LRUNext ==
  /\ ~ threw
  /\ \/ RemoveAll
     \/ \E k \in Keys : Get(k) \/ Delete(k) \/ \E v \in Values : Set(k, v)

LRUSpec == LRUInit /\ [][LRUNext]_lruVars

----------------------------------------------------------------------------
CachedKeys == {k \in Keys : Cached(k)}

(* The nodes, from the head by next and from the tail by prev, are s. *)
IsForward(s) ==
  /\ lru.head = (IF s = <<>> THEN Null ELSE Head(s))
  /\ \A i \in DOMAIN s : lru.next[s[i]] = IF i = Len(s) THEN Null ELSE s[i + 1]
IsBackward(s) ==
  /\ lru.tail = (IF s = <<>> THEN Null ELSE Last(s))
  /\ \A i \in DOMAIN s : lru.prev[s[i]] = IF i = 1 THEN Null ELSE s[i - 1]

(* The list and the map are the same cache: the list holds each cached key *)
(* once and nothing else, reads the same from either end, and is no longer *)
(* than the limit.                                                         *)
ListMatchesMap ==
  /\ \E s \in SetToSeqs(CachedKeys) : IsForward(s) /\ IsBackward(s)
  /\ lru.size = Cardinality(CachedKeys) /\ lru.size <= Limit

Entries ==
  LET s == CHOOSE s \in SetToSeqs(CachedKeys) : IsForward(s)
  IN [i \in DOMAIN s |-> <<s[i], lru.map[s[i]]>>]
Recency == INSTANCE RecencyCache WITH entries <- Entries

(* The pointers implement a cache that keeps the Limit entries used last,  *)
(* with their latest values.                                               *)
ImplementsRecency == Recency!Spec

(* Any cacheSize above 0 is a cache: "A size of 0 or below disables        *)
(* caching." (IndexedDB's options)                                         *)
NeverThrows == ~ threw
=============================================================================
