-------------------------- MODULE MCMigrationManager --------------------------
(* Instances of MigrationManager for TLC. *)
EXTENDS MigrationManager, TLC

CONSTANTS coll, k1, k2, autoReq, manualReq

MCCollectionOf == [k \in Chunks |-> coll]
MCWants == (autoReq :> {<<k1, 1>>}) @@ (manualReq :> {<<k1, 2>>, <<k2, 1>>})
Symmetry == Permutations(Nodes)
================================================================================
