---------------------------- MODULE MCSharedPages ----------------------------
EXTENDS SharedPages, TLC

CONSTANTS init, p1, p2, p3, g1, g2, g3, g4

Symmetry == Permutations(Page) \union Permutations(Proc \ {initproc})
=============================================================================
