CONSTANTS
    Answers <- Everything
    PingInterval = 3
    PingTimeout = 6
    ShapingEnd = 1
    MaxResends = 3
    MaxThrottle = 3
    StartResendIn = 1
    MaxPush = 2
    MaxHistory = 12
    Paks <- TwoPaks
    MaxQueue = 3
    Layers = {"map"}
    Kinds = {"object", "light"}
    MapNames = {"a"}
    MapSizes <- TwoSizes
    TileCount = 2
    ButtonsOnPage = 1
    Looks = {0, 1}
    PasteAt <- PasteHere
    Unknown = {9}
    Found <- MapsFound
    MaxEdits = 3
SPECIFICATION SessionSpec
INVARIANTS
    NeverPingedOutEarly
    NothingStale
    EditorSound
PROPERTIES
    PaksWhole
    LightmapTrue
    EveryMessageSettled
    DoomedHeapGoes
    LoginAndSessionEnd
CHECK_DEADLOCK FALSE
