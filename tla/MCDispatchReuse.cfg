SPECIFICATION Spec
CONSTANTS
    Runs = {r1}
    Supported = {r1}
    MaxConcurrency = 1
    Waiters = {w1}
    MaxEnding = 1
    MaxOrphans = 1
INVARIANT
    NoClaimAddedDuringWait
