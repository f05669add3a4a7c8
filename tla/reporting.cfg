SPECIFICATION FairSpec
CONSTANTS
    Items = {"long", "short"}
    Size <- MCSizes
    Threads = {"t1", "t2"}
    Attempts = 2
INVARIANTS
    TypeOK
    HonestTotals
PROPERTY
    SummaryComes
