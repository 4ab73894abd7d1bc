------------------------------ MODULE MCOpening ------------------------------
EXTENDS Opening, TLC

Symmetric == Permutations(Processes)
=============================================================================
