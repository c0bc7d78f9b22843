------------------------------ MODULE MCArtifacts ------------------------------
EXTENDS Artifacts, TLC
CONSTANTS p1, p2, i1, i2
Symm == Permutations(Proc) \cup Permutations(Item)
==============================================================================
