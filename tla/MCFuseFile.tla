----------------------------- MODULE MCFuseFile -----------------------------
EXTENDS FuseFile, TLC

Symmetry == Permutations(Users)
=============================================================================
