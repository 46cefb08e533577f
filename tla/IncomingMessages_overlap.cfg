CONSTANTS
    m1 = m1
    m2 = m2
    k1 = k1
    Msgs <- MCMsgs
    Peers <- MCPeers
    From <- MCFrom
    Observers = {o1, o2}
    Adds = {a1, a2}
    Nobody = nobody
    Overlap = TRUE
SPECIFICATION IncomingSpec
CHECK_DEADLOCK FALSE
SYMMETRY Symmetry
INVARIANT OneRowPerDm
