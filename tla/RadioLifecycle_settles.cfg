CONSTANTS
    Radios = {ra}
    None = none
    Legacy = legacy
    Requesters = {q1}
    Requests = {"disconnect", "reconnect"}
    MaxEvents = 2
    LinkDrops = TRUE
    LibrarySwaps = FALSE
    SetupTrouble = TRUE
    ClockReboots = TRUE
    AppstartFails = FALSE
    SlowHandlers = FALSE
    ReconcileRuns = FALSE
SPECIFICATION FairSpec
PROPERTIES
    Settles
    PauseHonoured
