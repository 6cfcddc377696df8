CONSTANTS
    e1 = e1  u1 = u1  u2 = u2  n1 = n1
    loop1 = loop1  slot1 = slot1  s1 = s1  s2 = s2
    Events = {e1}
    Users = {u1}
    Nodes = {n1}
    LoopTasks = {loop1}
    SlotTasks = {slot1}
    NodeOf <- OneNode
    SenderOf <- FromU1
    DirectEvents = {}
    MaxAttempts = 2
    ChunkSize = 2
    Sessions = {s1}
    NoReceipt = NoReceipt
SPECIFICATION Spec
INVARIANT ExpiredLeaseIsReclaimable
