CONSTANTS
    Radios = {ra, rb}
    None = none
    Legacy = legacy
    Requesters = {q1}
    Requests = {"put_transport", "ble_pair", "adopt", "reject"}
    MaxEvents = 3
    LinkDrops = TRUE
    LibrarySwaps = FALSE
    SetupTrouble = FALSE
    ClockReboots = FALSE
    AppstartFails = TRUE
    SlowHandlers = FALSE
    ReconcileRuns = FALSE
SPECIFICATION Spec
SYMMETRY Symmetry
INVARIANTS
    HistoryOfBound
    GateShutsIngest
PROPERTIES
    UnboundOnlyLegacy
