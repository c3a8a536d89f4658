------------------------------ MODULE MCHeapHelp ------------------------------
EXTENDS HeapHelp, TLC
CONSTANTS b1, b2, t1, t2, s1
MCSymmetry == Permutations(Blocks)
===============================================================================
