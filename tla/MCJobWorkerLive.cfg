SPECIFICATION FairSpec
CONSTANTS
    w1 = w1
    w2 = w2
    q1 = q1
    q2 = q2
    NoKey = NoKey
    NoOpts = NoOpts
    Nobody = Nobody
    MaxJobs = 1
    Workers <- MCWorkers
    Queues <- MCQueues
    Keys = {}
    Time <- MCTime
    EnqueueOpts <- TwoAttempts
    Capacity = 2
    RetentionMs = 9
    DeadRetentionMs = 9
    MaxReapedBuffer = 2
    QueuesOf <- OneQueueOf
    Concurrency <- OneConcurrency
    BackoffMs <- MCBackoff
    MaxHeartbeatFailures = 2
    MayStop <- MCStop
    MayCrash <- MCStop
    MaxTime = 9
    MaxFaults = 1
    MaxBeats = 0
    MaxCancels = 0
PROPERTIES
    EveryJobSettles
    OutboxDrained
    StopResolves
