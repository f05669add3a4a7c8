SPECIFICATION FairSpec
CONSTANTS
    UploadAttempts = 3
    Faults = {"halfway", "short", "pending", "unmoved", "lookup", "delete", "unstage", "cancel"}
INVARIANTS
    TypeOK
    OkIsArchived
    RetryIsClean
    OneUploadLands
PROPERTIES
    WholeKept
    Ends
