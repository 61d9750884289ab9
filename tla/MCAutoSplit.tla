------------------------------ MODULE MCAutoSplit ------------------------------
EXTENDS AutoSplit

Symmetry == Permutations(Threads)
=============================================================================
