-------------------------- MODULE MCAsyncKeyValueFS --------------------------
(* AsyncKeyValueFS for TLC. *)
EXTENDS AsyncKeyValueHistory

Interchangeable ==
  Permutations(DataGuids) \union Permutations(NodeGuids) \union Permutations(Names)
    \union Permutations(Clients)
=============================================================================
