---------------------------- MODULE MCOverlayFS ----------------------------
(* OverlayFS for TLC: two directories or files a and b, and x in each. *)
EXTENDS OverlayFS

CONSTANTS a, b, x
MCPaths == {<<>>, <<a>>, <<b>>, <<a, x>>, <<b, x>>}
MCReadables ==
  {[EmptyTree EXCEPT ![<<a>>] = Dir, ![<<a, x>>] = File(Empty), ![<<b>>] = File(Empty)],
   [EmptyTree EXCEPT ![<<a>>] = Dir, ![<<a, x>>] = Dir, ![<<b>>] = Dir]}
============================================================================
