--------------------------- MODULE MCInstanceIds ----------------------------
EXTENDS InstanceIds, TLC

Symmetry == Permutations(MapThread)
=============================================================================
