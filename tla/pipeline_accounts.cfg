SPECIFICATION Spec
CONSTANTS
    a = a
    b = b
    c = c
    Items = {a, b, c}
    Size <- MixedSize
    Budget = 2
    Limit = 2
    Uploads = 2
    MaxFailures = 2
    Attempts = 2
    Confirm = FALSE
    Faults = {"transfer", "upload", "short", "full", "remove", "gone", "refresh", "unsafe", "open", "walk", "cancel"}
INVARIANTS
    TypeOK
    BudgetBalanced
    CapHonoured
    StagingEmptied
    InFlightBalanced
    FetchedOnce
    SourceErrorIsCurrent
    FetchedIsArchived
    CleanMeansArchived
PROPERTIES
    ReservesStaging
    NoPullAfterTrip
