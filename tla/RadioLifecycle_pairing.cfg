CONSTANTS
    Radios = {ra}
    None = none
    Legacy = legacy
    Requesters = {q1}
    Requests = {"ble_pair"}
    MaxEvents = 1
    LinkDrops = FALSE
    LibrarySwaps = FALSE
    SetupTrouble = FALSE
    ClockReboots = FALSE
    AppstartFails = FALSE
    SlowHandlers = FALSE
    ReconcileRuns = FALSE
SPECIFICATION FairSpec
PROPERTIES
    Settles
