SPECIFICATION FairSpec
CONSTANTS
    Claims = {t1, t2}
    LeaseTTL = 3
    HeartbeatEvery = 2
    Latency = 0
INVARIANTS
    TypeOK
    ConfirmedDeadlineIsSafe
    LatenessIsBounded
PROPERTY
    LostClaimIsCancelled
