SPECIFICATION HealthySpec
CONSTANTS
    Claims = {t1, t2}
    LeaseTTL = 5
    HeartbeatEvery = 2
    Latency = 1
INVARIANT
    HealthyWorkerKeepsItsLeases
