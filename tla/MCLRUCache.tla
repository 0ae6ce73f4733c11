----------------------------- MODULE MCLRUCache -----------------------------
(* LRUCache for TLC. *)
EXTENDS LRUCache

Interchangeable == Permutations(Keys) \union Permutations(Values)
=============================================================================
