SPECIFICATION Spec
CONSTANTS
    r1 = r1
    r2 = r2
    r3 = r3
    i1 = i1
    i2 = i2
    Requests = {r1, r2, r3}
    Instances = {i1}
    Does <- Routes
    InstanceOf <- OneInstance
    Levels = {"anonymous", "user"}
    Cleared = "anonymous"
    StoreKinds = {"legacy"}
    MaxEntries = 2
    MaxTombstones = 1
    Ttl = 1
    Rolling = TRUE
    SaveUninitialized = FALSE
    MaxSid = 3
    MaxNow = 1
    MaxFaults = 0
CHECK_DEADLOCK FALSE
INVARIANT
    RevocationComplete
