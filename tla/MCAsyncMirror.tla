--------------------------- MODULE MCAsyncMirror ---------------------------
(* AsyncMirror for TLC: paths of a few names, files of a few bytes. *)
EXTENDS AsyncMirror

CONSTANTS Names, MaxDepth
MCPaths == SeqOf(Names, MaxDepth)
MCKeptOpen == {<<CHOOSE n \in Names : TRUE>>}
=============================================================================
