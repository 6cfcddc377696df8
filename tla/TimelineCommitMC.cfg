CONSTANTS
    None = None
    r1 = r1  r2 = r2  r3 = r3  r4 = r4  r5 = r5
    q1 = q1  q2 = q2  q3 = q3  q4 = q4
    c1 = c1  c2 = c2
    k1 = k1  k2 = k2
    f1 = f1
    Reqs = {r1, r2, r3, r4, r5, q1, q2, q3, q4}
    Channels = {c1, c2}
    Keys = {k1, k2}
    Files = {f1}
    PathOf <- MCPath
    ChanOf <- MCChan
    KeyOf <- MCKey
    FileOf <- MCFile
    Foreign = {q4}
    PermanentKeys = {k2}
SPECIFICATION GroupSpec
INVARIANTS Gapless ExactlyOnce AnswersAgree HeadIsLatestMessage FileHasOneOwner
PROPERTIES ImplementsLog EveryRequestEnds
CHECK_DEADLOCK FALSE
