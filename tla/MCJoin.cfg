CONSTANTS
    Keys = {"jump"}
    MaxTours = 2
    MaxPending = 1
    MaxAsks = 1
SPECIFICATION PlaySpec
INVARIANT
    JoinAnswered
CHECK_DEADLOCK FALSE
