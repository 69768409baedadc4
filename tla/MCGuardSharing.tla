--------------------------- MODULE MCGuardSharing ---------------------------
EXTENDS GuardSharing, TLC
Symmetry == Permutations(Sessions) \cup Permutations(Orphans)
=============================================================================
