\* Three requests of editors, of any kind, and one reader; one fault.
SPECIFICATION FairSpec
CONSTANTS
    o1 = o1
    o2 = o2
    o3 = o3
    Op = {o1, o2, o3}
    Workload <- Sorted
    Reader = {r1}
    Nobody = nobody
    MaxFaults = 1
INVARIANTS
    TypeOK
    FeedAddsUp
    SummaryFits
    NothingInvented
    CacheStaleNeedsRace
PROPERTY
    Converges
CHECK_DEADLOCK FALSE
