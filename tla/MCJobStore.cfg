SPECIFICATION StoreSpec
CONSTANTS
    w1 = w1
    q1 = q1
    q2 = q2
    k1 = k1
    NoKey = NoKey
    NoOpts = NoOpts
    Nobody = Nobody
    MaxJobs = 3
    Workers <- MCWorkers
    Queues <- MCQueues
    Keys <- MCKeys
    Time <- MCTime
    EnqueueOpts <- MCEnqueueOpts
    Capacity = 2
    RetentionMs = 0
    DeadRetentionMs = 1
    MaxReapedBuffer = 1
INVARIANTS
    TypeOK
    BudgetKept
    IndexExact
    OutboxOfTheDead
PROPERTIES
    AttemptsFence
    ReapedOnce
    ImplementsLifecycle
