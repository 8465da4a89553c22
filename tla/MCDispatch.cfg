SPECIFICATION Spec
CONSTANTS
    r1 = r1
    r2 = r2
    r3 = r3
    k1 = k1
    c1 = c1
    c2 = c2
    NoKey = NoKey
    Requests <- MCRequests
    Keys = {k1}
    KeysOf <- MCKeysOf
    MaxConcurrent = 1
    MaxQueue = 2
    QueueTimeout = TRUE
    Timed <- MCTimed
    Abortable <- MCAbortable
    MayDisconnect <- MCMayDisconnect
    OutlivesGrace <- Raced
    Calls <- MCCalls
SYMMETRY CallsSymmetry
CHECK_DEADLOCK FALSE
INVARIANTS
    DispatchTypeOK
    SlotsAccounted
    NoIdleSlot
    WorkWithinLimit
    CloseAfterHandlers
PROPERTIES
    LeaseEnds
