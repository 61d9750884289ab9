-------------------------- MODULE MCMetadataManager --------------------------
EXTENDS MetadataManager, TLC

Symmetry == Permutations(Queries)
FirstKey == {{1}}
Nothing == {{}}
TwoRanges == {[min |-> 1, max |-> 2], [min |-> 2, max |-> 3]}
NestedRanges == {[min |-> 1, max |-> 2], [min |-> 1, max |-> 3]}
==============================================================================
