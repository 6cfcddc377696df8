CONSTANTS
    a1 = a1  a2 = a2  b1 = b1  b2 = b2
    Ids = {a1, a2}
    MaxRevision = 2
    MaxSeq = 3
    Capacity = 2
    n1 = n1  n2 = n2  u1 = u1  u2 = u2  u3 = u3  s1 = s1
    NoDevice = NoDevice
    Scenarios = {"messages"}
SPECIFICATION ServicesSpec
INVARIANT SkippedWasPushed
CHECK_DEADLOCK FALSE
