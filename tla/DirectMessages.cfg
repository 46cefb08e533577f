CONSTANTS
    Sends = {s1, s2}
    Armed = {s1}
    Echoes = {e1}
    Free = free
    DM_SEND_MAX_ATTEMPTS = 2
    MaxClock = 1
    MaxHears = 2
SPECIFICATION FairSpec
CHECK_DEADLOCK FALSE
INVARIANTS
    TypeOK
    OwnRow
    OneRowPerTimestamp
    AckNotLost
    AckPerCode
PROPERTIES
    SendsEnd
