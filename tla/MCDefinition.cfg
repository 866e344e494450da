SPECIFICATION DefSpec
CONSTANTS
    Names = {"a", "b", "c"}
    MaxOps = 4
    Texts = {"x", "null"}
    Null = Null
CHECK_DEADLOCK FALSE
INVARIANTS ContextTellsWhatHappened OutputIsTheLastValue
