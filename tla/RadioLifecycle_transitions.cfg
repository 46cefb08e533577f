CONSTANTS
    Radios = {ra, rb}
    None = none
    Legacy = legacy
    Requesters = {q1, q2}
    Requests = {"put_transport", "private_key"}
    MaxEvents = 2
    LinkDrops = FALSE
    LibrarySwaps = FALSE
    SetupTrouble = FALSE
    ClockReboots = FALSE
    AppstartFails = FALSE
    SlowHandlers = FALSE
    ReconcileRuns = FALSE
SPECIFICATION FairSpec
INVARIANTS
    LockOrder
PROPERTIES
    TransitionsEnd
