---------------------------- MODULE MCMountableFS ----------------------------
(* MountableFS for TLC: the names a, b and ab, a store and a folder of it. *)
EXTENDS MountableFS

CONSTANTS a, b, ab, Tree, Adapter
MCPaths == {<<>>, <<a>>, <<b>>, <<ab>>, <<a, b>>}
MCMountPoints == {<<>>, <<a>>, <<a, b>>}
MCWrapped == [f \in {Adapter} |-> Tree]
MCFolder == [f \in {Adapter} |-> <<a>>]
MCSuffix == {<<a, ab, b>>}
Letters(n) == IF n = ab THEN 2 ELSE 1
MCSize == [p \in MCPaths |-> FoldSeq(LAMBDA n, k : k + 1 + Letters(n), 0, p) + (IF p = <<>> THEN 1 ELSE 0)]
=============================================================================
