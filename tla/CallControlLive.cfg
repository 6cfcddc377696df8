CONSTANTS
    None = None
    c1 = c1  c2 = c2  d1 = d1  d2 = d2  w1 = w1
    Calls = {c1}
    Users = {1, 2}
    Devices = {d1, d2}
    Invitations <- OfTwo
    Workers = {w1}
    Limit = 3
    MaxVersion = 2
    MaxRemovals = 1
    MaxCrashes = 1
SPECIFICATION FairSpec
INVARIANTS EffectsSettle
PROPERTIES ImplementsBook EveryCallEnds
CHECK_DEADLOCK FALSE
