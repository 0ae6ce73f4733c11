-------------------------- MODULE MCLocalStorageFS --------------------------
(* LocalStorageFS for TLC. *)
EXTENDS LocalStorageFS

Interchangeable ==
  Permutations(DataGuids) \union Permutations(NodeGuids) \union Permutations(Names)
=============================================================================
