------------------------- MODULE MCMessageSequencer -------------------------
EXTENDS MessageSequencer, TLC
CONSTANTS c1, c2, c3
OneClient == {c1}
ThreeClients == {c1, c2, c3}
Nobody == {}
PingsAndStates == {<<"client", "Ping">>, <<"server", "Ping">>, <<"server", "State">>}
OnlyC3 == {c3}
Symmetry == Permutations({c1, c2})
=============================================================================
