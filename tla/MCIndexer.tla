----------------------------- MODULE MCIndexer -----------------------------
EXTENDS IndexerProperties, TLC

InstanceSymmetry == Permutations(Instances)
=============================================================================
