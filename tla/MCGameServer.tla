---------------------------- MODULE MCGameServer ----------------------------
EXTENDS GameServer
CONSTANTS c1, c2, c3
Two == {c1, c2}
Three == {c1, c2, c3}
Nobody == {}
OnlyC1 == {c1}
OneHost == [c \in {c1, c2, c3} |-> "host"]
Short == <<TRUE>>
WarmAndPlain == <<TRUE, FALSE>>
Symmetry == Permutations({c1, c2, c3})
=============================================================================
