SPECIFICATION FairSpec
CONSTANTS
    Items = {"a", "b", "c"}
    Unsafe = {"c"}
    Large = {"b"}
    Hollow = {"a"}
    Nested = {"b"}
    Renamed = {"a"}
    LimitItems = 1
    Commands = {"sync", "clean"}
    Faults = {"upload", "late", "trip", "network", "short walk", "swallow", "delete", "signal", "kill"}
    MaxFaults = 2
INVARIANTS
    TypeOK
    OkIsComplete
    StalledIsFinal
    OneHasACause
PROPERTY DriverStops
