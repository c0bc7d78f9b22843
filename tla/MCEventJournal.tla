---------------------------- MODULE MCEventJournal ----------------------------
EXTENDS EventJournal, TLC
CONSTANTS r1, r2
Symm == Permutations(Reader)
==============================================================================
