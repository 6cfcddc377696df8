CONSTANTS
    None = None
    c1 = c1  c2 = c2  d1 = d1  d2 = d2  w1 = w1
    Calls = {c1, c2}
    Users = {1, 2, 3}
    Devices = {d1}
    Invitations <- Competing
    Workers = {}
    Limit = 3
    MaxVersion = 3
    MaxRemovals = 0
    MaxCrashes = 0
    p1 = p1  p2 = p2  p3 = p3  x1 = x1  x2 = x2  x3 = x3  x4 = x4  r1 = r1  r2 = r2
    Scenarios = {"calls", "takeover", "again", "home", "two"}
SPECIFICATION RoutesSpec
INVARIANTS OneCallPerUser OfflineIsTrue InvitesGoOn
PROPERTIES ImplementsBook
CHECK_DEADLOCK FALSE
SYMMETRY SymmetricCalls
