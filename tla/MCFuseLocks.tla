---------------------------- MODULE MCFuseLocks ----------------------------
EXTENDS FuseLocks, TLC

Symmetry == Permutations(Threads) \cup Permutations(Files)
=============================================================================
