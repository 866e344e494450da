SPECIFICATION FairSpec
CONSTANTS
    Nobody = Nobody
    c1 = c1
    c2 = c2
    c3 = c3
    Callers = {c1, c2, c3}
    Supports <- MixedLibraries
    Isolation <- MixedLevels
INVARIANTS
    HistoryIsTrue
    ConcurrentCallsAreSafe
PROPERTIES
    SuccessIsExact
    EveryCallReturns
