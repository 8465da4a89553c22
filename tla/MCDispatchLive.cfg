SPECIFICATION FairSpec
CONSTANTS
    r1 = r1
    r2 = r2
    r3 = r3
    k1 = k1
    c1 = c1
    c2 = c2
    NoKey = NoKey
    Requests <- MCRequests
    Keys = {k1}
    KeysOf <- OneKeyOf
    MaxConcurrent = 1
    MaxQueue = 2
    QueueTimeout = FALSE
    Timed <- MCTimed
    Abortable = {}
    MayDisconnect = {}
    OutlivesGrace = {"queued", "work"}
    Calls = {}
CHECK_DEADLOCK FALSE
PROPERTIES
    EveryRequestAnswered
    SlotComesBack
