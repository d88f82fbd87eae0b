CONSTANTS
    c1 = c1
    c2 = c2
    Conns <- Two
    Kinds = {"CTF", "CTC"}
    HoldScores = FALSE
    LateJoin = FALSE
    DropTime = 2
    MaxLogins = 3
    MaxTournaments = 2
SPECIFICATION Spec
INVARIANTS
    CarriedOnce
    CarriersPlay
SYMMETRY Symmetry
CHECK_DEADLOCK FALSE
