SPECIFICATION FairSpec
CONSTANTS
    checkoutCompleted = checkoutCompleted
    unknownType = unknownType
    w1 = w1
    w2 = w2
    Events <- MCEvents
    HandledEvents <- MCHandled
    Swallowing <- MCHandled
    Requests <- MCRequests
    NoEvent = NoEvent
    MaxFaults = 2
INVARIANTS
    TypeOK
    StatusIsHonest
PROPERTIES
    ClosedStaysClosed
    ImplementsAtMostOnce
    RetriesEnd
