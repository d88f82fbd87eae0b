CONSTANTS
    Rows = 1
    Servers <- TwoServers
    Columns = {0, 4}
    Pings = {1}
    MaxRecords = 2
    MaxInfos = 2
    MaxSilence = 0
    MaxOpened = 4
SPECIFICATION MenusSpec
INVARIANTS
    ConnectReadsLive
    ListAgrees
    PointersLive
    WindowsMatch
PROPERTIES
    NoStaleAnswer
CHECK_DEADLOCK FALSE
