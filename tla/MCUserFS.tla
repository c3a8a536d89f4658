------------------------------ MODULE MCUserFS ------------------------------
EXTENDS UserFS, TLC
Symmetry == Permutations(Files) \cup Permutations(Names)
=============================================================================
