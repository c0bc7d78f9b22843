---------------------------- MODULE MCIdAllocator ----------------------------
EXTENDS IdAllocator, TLC
CONSTANTS p1, p2, p3
Symm == Permutations(Proc)
==============================================================================
