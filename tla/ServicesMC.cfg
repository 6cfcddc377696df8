CONSTANTS
    a1 = a1  a2 = a2  b1 = b1  b2 = b2
    Ids = {a1, a2}
    MaxRevision = 2
    MaxSeq = 3
    Capacity = 2
    n1 = n1  n2 = n2  u1 = u1  u2 = u2  u3 = u3  s1 = s1
    NoDevice = NoDevice
    Scenarios = {"peer", "messages", "retry", "request", "readGroup", "readDirect", "unread", "revokes", "revokeFails", "qr", "qrAgain",
                 "kicks", "leaves", "group", "approval", "uploads", "friends",
                 "entities", "channels", "groups", "cursors", "whole", "claims", "parts", "room", "fullRoom"}
SPECIFICATION ServicesSpec
INVARIANTS NothingSilentlyDropped OneOfferOneAnswer
           AcceptedOnce CalledOffStops CancelledWasReached
           ReadsAreAnnounced CountsAddUp SignInIsTheScanners
           RoutesFollowConnections KickReaches
           OwnersAreTheOwner DecidedOnce
           ReferencedObjectExists BucketIsAccountedFor
           BarredCannotSend OneFilePerToken
           NothingElseIsMissed
SYMMETRY Interchangeable
CHECK_DEADLOCK FALSE
