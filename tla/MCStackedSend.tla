---------------------------- MODULE MCStackedSend ----------------------------
EXTENDS StackedSend
CONSTANTS a, b
Both == {a, b}
Symmetry == Permutations(Both)
=============================================================================
