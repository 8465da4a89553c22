SPECIFICATION Spec
CONSTANTS
    w1 = w1
    w2 = w2
    q1 = q1
    q2 = q2
    NoKey = NoKey
    NoOpts = NoOpts
    Nobody = Nobody
    MaxJobs = 1
    Workers <- MCWorkers
    Queues <- MCQueues
    Keys = {}
    Time <- MCTime
    EnqueueOpts <- TwoAttempts
    Capacity = 2
    RetentionMs = 9
    DeadRetentionMs = 9
    MaxReapedBuffer = 2
    QueuesOf <- MCQueuesOf
    Concurrency <- MCConcurrency
    BackoffMs <- MCBackoff
    MaxHeartbeatFailures = 2
    MayStop = {}
    MayCrash <- MCStop
    MaxTime = 3
    MaxFaults = 2
    MaxBeats = 1
    MaxCancels = 1
INVARIANTS
    WorkerTypeOK
    OneOutcomeReported
    LoopWithinConcurrency
PROPERTIES
    LeaseRespected
    OwnerDecides
