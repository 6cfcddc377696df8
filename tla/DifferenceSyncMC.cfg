CONSTANTS
    None = None
    c1 = c1
    c2 = c2
    Clients = {c1}
    MaxPts = 3
    CacheSize = 2
    Limits = {2}
    QueueCap = 1
    MaxFaults = 1
SPECIFICATION FairSpec
INVARIANTS CacheBehindLog DifferenceIsTrue
PROPERTY CatchesUp
