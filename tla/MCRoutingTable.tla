----------------------------- MODULE MCRoutingTable -----------------------------
(* Model checking of RoutingTable: shards are interchangeable. *)
EXTENDS RoutingTable, TLC

Symmetry == Permutations(Shards)
=============================================================================
