SPECIFICATION FairSpec
CONSTANTS
    d1 = d1
    d2 = d2
    f1 = f1
    Deliveries = {d1, d2}
    Fetches = {f1}
    MaxAttempts = 2
    Retries = 1
    Retryable = {d2, f1}
    FailureThreshold = 1
    ResetTimeout = 1
    HalfOpenMaxAttempts = 1
    SuccessThreshold = 2
    SinkCapacity = 1
    MaxNow = 2
CHECK_DEADLOCK FALSE
INVARIANTS
    DeliveryTypeOK
    ProbesAccounted
PROPERTY
    DeliverySettles
