CONSTANTS
    Keys = {"jump"}
    MaxTours = 2
    MaxPending = 1
    MaxAsks = 1
SPECIFICATION PlaySpec
INVARIANTS
    KeysHeld
    JoinWindowLive
    RequestsSettled
CHECK_DEADLOCK FALSE
