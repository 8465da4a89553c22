SPECIFICATION FairSpec
CONSTANTS
    often = often
    rarely = rarely
    never = never
    Tasks <- MCTasks
    IntervalMs <- MCInterval
    CronAt <- MCCronAt
    Day = 3
    OnStart <- MCOnStart
    TimeoutMs <- MCTimeout
    Manual <- MCManual
    GraceMs = 1
    TimerLimit = 3
    MaxRuns = 2
INVARIANTS
    SchedulerTypeOK
    SingleFlight
    OneTimerPending
    StopIsFinal
PROPERTIES
    StopReturnsEventually
    TicksForever
