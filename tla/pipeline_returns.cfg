SPECIFICATION FairSpec
CONSTANTS
    a = a
    b = b
    c = c
    Items = {a, b}
    Size <- MixedSize
    Budget = 2
    Limit = 2
    Uploads = 2
    MaxFailures = 2
    Attempts = 3
    Confirm = TRUE
    Faults = {"transfer", "upload", "late", "full", "remove", "refresh", "gone", "unsafe", "open", "walk", "cancel"}
INVARIANTS
    FailedForAReason
    FailuresCounted
PROPERTY Terminates
