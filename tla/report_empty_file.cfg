SPECIFICATION Spec
CONSTANTS
    Items = {"short", "empty"}
    Size <- MCSizes
    Threads = {"t1"}
    Attempts = 1
INVARIANT
    FinishDrains
CHECK_DEADLOCK FALSE
