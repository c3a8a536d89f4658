---------------------------- MODULE MCTaskQueue -----------------------------
EXTENDS TaskQueue, TLC
Symmetry == Permutations(Tasks) \cup Permutations(Pushers) \cup Permutations(Poppers)
=============================================================================
