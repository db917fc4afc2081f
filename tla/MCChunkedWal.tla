---------------------------- MODULE MCChunkedWal ----------------------------
(* ChunkedWal for TLC: the bounds are in the configurations.               *)
EXTENDS ChunkedWal
=============================================================================
