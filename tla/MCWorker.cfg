SPECIFICATION FairSpec
CONSTANTS
    Null = Null
    r1 = r1
    r2 = r2
    k1 = k1
    Runs = {r1}
    Keys = {k1}
    Tokens = {t1, t2}
    Claimers = {c1, c2}
    Results = {a, b}
    Payloads = {p}
    MaxOps = 2
    Ops <- OpsOne
    MaxAttempts <- TwoAttempts
INVARIANTS
    OwnerReplaysStoredValues
    FailureBudgets
PROPERTIES
    EveryRunEnds
    CheckpointsAreFinal
    ProgressIsFenced
