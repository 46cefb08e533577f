SPECIFICATION PartsSpec
CONSTANTS
    Keys = {a, b, c}
    TestKey = test
    Empty = empty
    NoKey = none
    Capacity = 2
    MeshTests = FALSE
    Toggles = FALSE
    RestoreReplies = {"ok", "rejected"}
    m1 = m1
    m2 = m2
    k1 = k1
    Msgs <- MCMsgs
    Peers <- MCPeers
    From <- MCFrom
    Observers = {o1, o2}
    Adds = {a1, a2}
    Nobody = nobody
    Overlap = FALSE
    DraftEdits = 3
    FanoutJobs = 2
    FanoutTyped = 2
    FormTyped = 2
    FormChains = 2
    FormPolls = 1
    WifiRadios = {"r1", "r2"}
    WifiGen = 2
    WifiFaults = 1
    WifiWire = 2
    WifiClicks = 2
    PanelMoves = 4
    TcpClicks = 2
    TcpOther = 1
    AppJobs = 3
    AppTyped = 2
    PreferenceEdits = 2
    DeviceEndpoints = 2
    DeviceClicks = 5
    NotifyWire = 2
    NotifyClicks = 4
    DestinationEdits = 4
    AlertNodes = {"n1", "n2"}
    AlertFailures = 1
    AlertEdits = 3
    SheetVisits = 2
    SheetFetches = 2
    UpdateReloads = 1
    UpdateClicks = 2
    FeedPackets = 2
    FeedObservations = 2
    FeedWindow = 2
    FeedCaps = {1, 2}
    FeedHeard = 3
    FeedNow = 3
    HistoryPeriods = {1, 9}
    HistoryLimit = 1
    HistoryClicks = 4
    JournalPackets = 3
    JournalTurns = 2
    RestoreJobs = 2
    RestoreFailures = 2
    RestorePolls = 2
    RestoreSwaps = 2
    RestoreClicks = 5
    TraceHops = 3
    TraceRecent = 2
    TraceNodes = 2
    TraceRuns = 3
    TraceClicks = 7
    LaserTime = 3
    LaserConcurrent = 2
    LaserPending = 1
    LaserPauses = 1
    RoutePackets = 4
    RouteWindow = 2
    RouteIndexed = 1
SYMMETRY Symmetry
INVARIANTS
    PartsTypeOK
    EvictionNamed
    CacheAgrees
    SendsUnderOwnKey
    MapsInverse
    OneRowPerDm
    
    OneConversation
    HistoryDecrypted
PROPERTIES
    
    CarriedThrough
    
CHECK_DEADLOCK FALSE
