SPECIFICATION Spec
CONSTANTS
    Parts = 3
    Threads = 2
    Attempts = 3
    Restarts = 0
    Faults = {"fetch"}
INVARIANT FinalIsWhole
