----------------------------- MODULE MCFuseNode -----------------------------
EXTENDS FuseNode, TLC

\* a directory, a file, the file recreated, no type
MCAttrs == {[type |-> "VDIR", gen |-> 0], [type |-> "VREG", gen |-> 0],
            [type |-> "VREG", gen |-> 1], [type |-> "VNON", gen |-> 0]}

Symmetry == Permutations(Threads) \cup Permutations(Vnodes \ {Rootvp}) \cup Permutations(Nodes)
=============================================================================
