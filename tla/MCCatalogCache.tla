---------------------------- MODULE MCCatalogCache ----------------------------
EXTENDS CatalogCache, TLC

Symmetry == Permutations(Threads) \cup Permutations(DbIds) \cup Permutations(TaskIds)
=============================================================================
