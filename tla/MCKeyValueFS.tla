---------------------------- MODULE MCKeyValueFS ----------------------------
(* KeyValueFS for TLC: a few names and keys, clients that never rename to '/'. *)
EXTENDS KeyValueFS

(* Every path but the root's *)
NonRootPaths == Paths \ {<<>>}
AllPaths == Paths
(* Clients and keys know no order on names or GUIDs. *)
Interchangeable ==
  Permutations(DataGuids) \union Permutations(NodeGuids) \union Permutations(Names)
=============================================================================
