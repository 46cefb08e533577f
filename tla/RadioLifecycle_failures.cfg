CONSTANTS
    Radios = {ra}
    None = none
    Legacy = legacy
    Requesters = {q1}
    Requests = {"disconnect", "revert"}
    MaxEvents = 2
    LinkDrops = TRUE
    LibrarySwaps = FALSE
    SetupTrouble = TRUE
    ClockReboots = TRUE
    AppstartFails = FALSE
    SlowHandlers = TRUE
    ReconcileRuns = TRUE
SPECIFICATION Spec
INVARIANTS
    TypeOK
    LocksGuard
    OpensOnNothing
