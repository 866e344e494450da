SPECIFICATION Spec
CONSTANTS
    Workers = {w1, w2}
    LeasedRuns = {l1, l2}
    WaitingRuns = {t1}
    LoggedEvents = {e1}
    BatchSize = 1
    MaxBatches = 2
INVARIANTS TypeOK BatchOwnsItsRows
PROPERTY EveryOverdueRowIsHandled
