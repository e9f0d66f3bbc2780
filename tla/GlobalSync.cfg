SPECIFICATION Spec
CONSTANTS
    MaxMessages = 3
    MaxChannels = 2
    MaxFaults = 1
    MaxErrors = 0
INVARIANTS
    TypeOK
    NothingLost
    HandledIsKnown
    SequentialReplica
CHECK_DEADLOCK FALSE
