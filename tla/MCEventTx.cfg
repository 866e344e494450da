SPECIFICATION FairSpec
CHECK_DEADLOCK FALSE
CONSTANTS
    Nobody = Nobody
    Emitters = {e1, e2}
    Waiters = {w1, w2}
    EventTTL = 1
    Timeout = 1
    LastBegin = 1
INVARIANTS
    NoEventMissed
    MostRecentEvent
PROPERTIES
    OutcomeIsFinal
    EveryWaitEnds
