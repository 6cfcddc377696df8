CONSTANTS
    Sessions = {s1, s2}
    Keys = {k1}
    NoClobber = FALSE
    MaxFaults = 0
SPECIFICATION Spec
INVARIANT ReferencedObjectExists
CHECK_DEADLOCK FALSE
