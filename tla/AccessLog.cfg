SPECIFICATION FairSpec
CONSTANTS
    p1 = p1
    p2 = p2
    Workers = {p1, p2}
    Logs = {1, 2, 3}
    Settlements = {4}
    MaxRetries = 2
    ReadCount = 2
    Workloads <- MCWorkloads
    BatchSize <- MixedBatches
INVARIANTS DuplicatesBounded PendingInHand
PROPERTIES KeepsPromise EventuallyDone ShutdownCompletes
CHECK_DEADLOCK FALSE
