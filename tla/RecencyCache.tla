---------------------------- MODULE RecencyCache ----------------------------
(***************************************************************************)
(* What a cache that forgets the least recently used entry promises.       *)
(* LRUCache, a map with a doubly linked list, implements it.               *)
(***************************************************************************)
EXTENDS Integers, SequencesExt

CONSTANTS Keys, Values, Limit

VARIABLE entries   \* <<key, value>> pairs, the most recently used first

Has(k) == \E i \in DOMAIN entries : entries[i][1] = k
Place(k) == CHOOSE i \in DOMAIN entries : entries[i][1] = k
Others(k) == RemoveAt(entries, Place(k))

Init == entries = <<>>

Set(k, v) ==
  entries' = << <<k, v>> >> \o
    (IF Has(k) THEN Others(k)
     ELSE IF Len(entries) >= Limit THEN Front(entries) ELSE entries)

Get(k) == Has(k) /\ entries' = <<entries[Place(k)]>> \o Others(k)

Delete(k) == Has(k) /\ entries' = Others(k)

RemoveAll == entries' = <<>>

Next ==
  \/ RemoveAll
  \/ \E k \in Keys : Get(k) \/ Delete(k) \/ \E v \in Values : Set(k, v)

Spec == Init /\ [][Next]_entries
=============================================================================
