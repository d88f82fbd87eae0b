CONSTANTS
    c1 = c1
    c2 = c2
    c3 = c3
    Conns <- Two
    Host <- OneHost
    Names = {"gruff"}
    Paks = {"base", "extra"}
    CheckedPaks = {"base"}
    Maps <- Short
    Admins <- Nobody
    MaxPlayers = 2
    HoldScores = TRUE
    RefuseJoin = TRUE
    QuitDelay = 2
    MaxLogins = 3
    MaxTournaments = 2
SPECIFICATION Spec
INVARIANTS
    SyncedHavePaks
    NoDoubleScore
PROPERTY QuitClientGoes
CHECK_DEADLOCK FALSE
