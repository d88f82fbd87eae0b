---------------------------- MODULE MCWearables ----------------------------
EXTENDS Wearables, TLC
CONSTANTS c1, c2
Two == {c1, c2}
Symmetry == Permutations(Conns)
=============================================================================
