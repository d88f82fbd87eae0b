CONSTANTS
    NoHeap = NoHeap
    c1 = c1
    c2 = c2
    c3 = c3
    Clients <- ThreeClients
    BadLogin <- OnlyC3
    MaxHeaps = 1
    MaxResends = 1
    MaxPings = 1
    Unsolicited <- States
    MaxPush = 1
    MaxUnrel = 1
    MaxSessions = 1
    MaxQueue = 1
    a = a
    b = b
    Peers <- Both
    PacketMaxSize = 4
    Sizes = {1, 2, 3}
    Config = FALSE
    Gaps = TRUE
    MaxHandlers = 3
    MaxStack = 3
    Terrains <- RoomAndPit
    Tile = 4
    Box <- GoatBox
    Picture <- Bomb
    Gravity = 1
    XAccel = 1
    XDecel = 1
    XMax = 1
    YMax = 2
    JumpImpulse = 4
    JumpDecel = 2
    JumpDecelHeld = 1
    Friction = 1
    FallenBelow = 2
    Screen <- Window
    SpawnPoints <- Entrance
    Thrown <- Bombs
    Recoils <- Pushes
SPECIFICATION MessagesSpec
INVARIANTS
    OnePlayerPerHeap
    PacketsWhole
PROPERTIES
    MovesTrue
SYMMETRY Symmetry
CHECK_DEADLOCK FALSE
