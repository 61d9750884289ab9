------------------------------ MODULE MCChunkOps ------------------------------
(* ChunkOps for TLC: servers are interchangeable. *)
EXTENDS ChunkOps, TLC

Symmetry == Permutations(Clients)
================================================================================
