SPECIFICATION FairSpec
CONSTANTS
    r1 = r1
    r2 = r2
    r3 = r3
    k1 = k1
    k2 = k2
    p1 = p1
    p2 = p2
    Requests = {r1, r2, r3}
    Keys = {k1, k2}
    Prints = {p1, p2}
    InputsOf <- MCInputsOf
    MaxEntries = 1
    Ttl = 1
    MaxNow = 1
    Timed = {r1, r2}
    OutlivesGrace <- Raced
    Ahead = {r1}
    Torn = {r3}
CHECK_DEADLOCK FALSE
INVARIANTS
    IdempotencyTypeOK
    OneExecution
PROPERTIES
    ReservationAttended
    RecordStands
    KeyUnblocked
