SPECIFICATION FairSpec
CONSTANTS
    Items = {"a", "b"}
    Unsafe = {}
    Large = {}
    Hollow = {}
    Nested = {"a"}
    Renamed = {}
    LimitItems = 0
    Commands = {"sync"}
    Faults = {}
    MaxFaults = 0
PROPERTY RerunRepairs
