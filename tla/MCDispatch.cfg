SPECIFICATION FairSpec
CONSTANTS
    Runs = {r1, r2, u1}
    Supported = {r1, r2}
    MaxConcurrency = 2
    Waiters = {w1}
    MaxEnding = 1
    MaxOrphans = 0
INVARIANTS
    TypeOK
    ConcurrencyIsBounded
    QuietMeansDone
    IdleMeansIdle
PROPERTIES
    DueRunIsClaimed
    StartWorkerReturns
    WaitForIdleReturns
