SPECIFICATION FairSpec
CONSTANTS
    MaxMessages = 2
    MaxChannels = 2
    MaxFaults = 1
    MaxErrors = 1
PROPERTIES
    Drained
CHECK_DEADLOCK FALSE
