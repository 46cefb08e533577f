SPECIFICATION PartsSpec
CONSTANTS
    MaxAttempt = 1
    Kinds = {"contacts"}
    Keys = {"p", "q"}
    Versions = {1}
    None = None
    MaxChanges = 2
    MaxWire = 1
    MaxCloses = 2
    MaxLoads = 1
    Worlds <- SyncWorlds
    FinderLength = 3
    FinderTimers = 2
    FinderClicks = 4
    PaneRetries = 2
    PaneAnswers = 2
    PaneClicks = 4
    LoginClicks = 6
    ConsoleCap = 2
    ConsoleConfirm = 2
    ConsoleSent = 3
    ConsoleKeys = 6
    SessionTurns = 5
    SessionBeats = 2
    CanvasChoices = 4
    GraphArrivals = 3
    GraphWindow = 2
    GraphProcessed = 2
    GraphTime = 2
    GraphTurns = 1
    PendingHeard = 4
    PendingWindow = 2
    PendingEntries = 1
    PendingResets = 2
    NamesTurns = 6
    FocusTurns = 4
    FocusHeard = 2
    SceneChanges = 3
    SceneClicks = 2
    SceneParticles = 1
    ComposerTurns = 2
    ComposerLetters = 2
    ReplaceLetters = 3
    ReplaceTurns = 2
    SearchPage = 2
    SearchMessages = 5
    SearchTurns = 4
    ReachTurns = 2
    TestRuns = 2
    TestTurns = 2
    LocateTurns = 3
    CommunityChanges = 1
    CommunityTurns = 3
INVARIANTS
    PartsTypeOK
    OneAttemptAtATime
    Mirrored
    ShownTrue
    CarriedThrough
PROPERTIES
    ImplementsLink
    ReaderKept
    WaitsEnd
CHECK_DEADLOCK FALSE
