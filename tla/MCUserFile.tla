----------------------------- MODULE MCUserFile -----------------------------
EXTENDS UserFile, TLC
CONSTANT a
MCBuffers == {<<a>>, <<a, Zero, a>>}
Symmetry == Permutations(Descriptors)
=============================================================================
