SPECIFICATION Spec
CONSTANTS
    checkoutCompleted = checkoutCompleted
    unknownType = unknownType
    w1 = w1
    w2 = w2
    Events <- MCEvents
    HandledEvents <- MCHandled
    Swallowing = {}
    Requests <- MCRequests
    NoEvent = NoEvent
    MaxFaults = 0
PROPERTY DismissedWasProcessed
