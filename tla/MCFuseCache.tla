---------------------------- MODULE MCFuseCache ----------------------------
EXTENDS FuseCache, TLC

Symmetry == Permutations(Threads) \cup Permutations(Names)

=============================================================================
