CONSTANTS
    c1 = c1
    c2 = c2
    c3 = c3
    Conns <- Two
    Host <- OneHost
    Names = {"gruff"}
    Paks = {}
    CheckedPaks = {}
    Maps <- Short
    Admins <- OnlyC1
    MaxPlayers = 2
    HoldScores = FALSE
    RefuseJoin = FALSE
    QuitDelay = 1
    MaxLogins = 2
    MaxTournaments = 2
SPECIFICATION SafeSpec
INVARIANTS
    TournamentShared
PROPERTIES
    LobbyLeftTogether
    WarmupThenGame
CHECK_DEADLOCK FALSE
