CONSTANTS
    c1 = c1
    c2 = c2
    c3 = c3
    Conns <- Three
    Host <- OneHost
    Names = {"gruff", "billy"}
    Paks = {"base"}
    CheckedPaks = {"base"}
    Maps <- Short
    Admins <- Nobody
    MaxPlayers = 3
    HoldScores = FALSE
    RefuseJoin = FALSE
    QuitDelay = 1
    MaxLogins = 5
    MaxTournaments = 0
SPECIFICATION SafeSpec
INVARIANTS
    PlayersAgree
SYMMETRY Symmetry
CHECK_DEADLOCK FALSE
