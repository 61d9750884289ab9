----------------------------- MODULE MCChunkCatalog -----------------------------
(* ChunkCatalog on a small instance: the constants are set in the .cfg files. *)
EXTENDS ChunkCatalog, FiniteSets, TLC

Symmetry == Permutations(Shards)
=============================================================================
