SPECIFICATION Spec
CONSTANTS
    Null = Null
    r1 = r1
    r2 = r2
    k1 = k1
    Runs = {r1, r2}
    Keys = {k1}
    Tokens = {t1, t2}
    Claimers = {c1, c2}
    Results = {a}
    Payloads = {p}
    MaxOps = 2
    Ops <- OpsShared
    MaxAttempts <- OneAttempt
SYMMETRY Symmetry
INVARIANTS
    OwnerReplaysStoredValues
    CursorMatchesCheckpoints
    CompletedRunHasItsOutput
    NoMissedEvent
PROPERTIES
    ImplementsLifecycle
    TerminalIsFinal
