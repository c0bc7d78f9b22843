----------------------------- MODULE MCController -----------------------------
EXTENDS Controller, TLC
CONSTANTS p1, p2
Symm == Permutations(Proc)
==============================================================================
