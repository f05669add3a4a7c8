SPECIFICATION Spec
CONSTANTS
    a = a
    b = b
    c = c
    Items = {a, b, c}
    Size <- UnitSize
    Budget = 0
    Limit = 1
    Uploads = 1
    MaxFailures = 3
    Attempts = 3
    Confirm = TRUE
    Faults = {"transfer", "gone"}
SYMMETRY Symmetry
PROPERTY FailedIsRetried
