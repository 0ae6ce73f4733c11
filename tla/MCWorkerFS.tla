----------------------------- MODULE MCWorkerFS -----------------------------
(* WorkerFS for TLC: one byte is written at a time. *)
EXTENDS WorkerFS

MCChunks == {<<1>>}
=============================================================================
