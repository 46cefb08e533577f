SPECIFICATION PartsSpec
CONSTANTS
    Chats = {"a", "b"}
    Tool = "tool"
    None = None
    NMessages = 4
    History = 2
    Home = "a"
    Prefix = "b"
    PageSize = 2
    AroundSize = 1
    MaxCached = 1
    MaxPendingAcks = 1
    MaxSeen = 3
    MaxAck = 1
    MaxWire = 1
    MaxFree = 1
    MaxCuts = 1
    MaxMoves = 3
    Worlds <- MCWorlds
    NavigationMoves = 3
    NavigationHistory = 6
    UnreadPosts = 2
    UnreadMoves = 3
    ScrollTotal = 13
    ScrollMoves = 3
    RowMessages = 3
    RowClicks = 2
    RowsClicked = {1, 2}
    ResendTicks = 3
    ResendTolerance = 1
    ResendDelay = 1
    ResendNow = 6
    ResendRenders = 2
INVARIANTS
    PartsTypeOK
    ShownTrue
    CarriedThrough
PROPERTIES
    ReaderKept
CHECK_DEADLOCK FALSE
