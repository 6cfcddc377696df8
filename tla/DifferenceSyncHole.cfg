CONSTANTS
    None = None
    c1 = c1
    c2 = c2
    Clients = {c1}
    MaxPts = 4
    CacheSize = 3
    Limits = {2}
    QueueCap = 1
    MaxFaults = 0
SPECIFICATION Spec
INVARIANT DifferenceHasNoHole
