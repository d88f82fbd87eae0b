CONSTANTS
    NoHeap = NoHeap
    c1 = c1
    c2 = c2
    c3 = c3
    Clients <- OneClient
    BadLogin <- Nobody
    MaxHeaps = 1
    MaxResends = 1
    MaxPings = 1
    Unsolicited <- PingsAndStates
    MaxPush = 3
    MaxUnrel = 2
    MaxSessions = 2
    MaxQueue = 2
SPECIFICATION Spec
INVARIANTS
    TypeOK
    ClientStreamInOrder
    ServerStreamSound
    AckedByServerIsDelivered
    InQueueDrained
PROPERTIES
    ImplementsChannel
CHECK_DEADLOCK FALSE
