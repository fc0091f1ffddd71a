SPECIFICATION FairSpec
CONSTANTS
    s1 = s1
    a1 = a1
    a2 = a2
    w1 = w1
    w2 = w2
    NoJob = NoJob
    Workers <- MCWorkers
    QueueDepth = 1
    Jobs <- MCJobs
    SyncJobs <- MCSyncJobs
    HookAwaits = TRUE
INVARIANTS
    Accounting
    NoCallerForgotten
    PollableUntilTtl
PROPERTIES
    ImplementsService
    AcceptedJobsSettle
    SettledJobsAreFinalized
    StopTerminates
