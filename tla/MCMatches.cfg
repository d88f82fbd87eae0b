CONSTANTS
    p1 = p1
    p2 = p2
    Persons <- Two
    MaxHealth = 1
    MaxCarried = 1
    ArmorPack = 0
    MaxArmor = 0
    Damage = 1
    Duration = 1
    Games <- TestGames
    PlayerIds = {1, 2}
    Tournaments = {"DM", "TDM", "GOH", "SR"}
    HillCounterMax = 2
    LapTimes = {1, 2}
    MaxDeaths = 2
    MaxLaps = 2
    MaxOutbox = 0
SPECIFICATION MatchesSpec
SYMMETRY PersonSymmetry
INVARIANTS
    ReplicasAgree
    FragsToShooter
    HillHolderPlays
    BoardAgrees
PROPERTIES
    DeadTakeNothing
    ScoresEarned
CHECK_DEADLOCK FALSE
