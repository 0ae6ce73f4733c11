--------------------------- MODULE MCDescriptorFS ---------------------------
(* DescriptorFS for TLC: one byte is written at a time. *)
EXTENDS DescriptorFS, TLC

Interchangeable == Permutations(Clients)
MCChunks == {<<1>>}
=============================================================================
