CONSTANTS
    a = a
    b = b
    Peers <- Both
    PacketMaxSize = 4
    Sizes = {1, 2}
    Config = TRUE
    Gaps = TRUE
    MaxHandlers = 3
    MaxStack = 1
SPECIFICATION StackSpec
INVARIANT
    GameplayStateSent
CHECK_DEADLOCK FALSE
