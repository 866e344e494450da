SPECIFICATION Spec
CONSTANTS
    Null = Null
    Ids = {i1, i2}
    Names = {n1, n2}
    Versions = {1, 2}
    Keys = {k}
    Calls = {c1, c2}
SYMMETRY Symmetry
INVARIANTS
    SameKeySameRun
    CancelIsTruthful
PROPERTY
    RunIsPinned
