SPECIFICATION FairSpec
CONSTANTS
    Buffer = 2
    MaxMessage = 2
    MaxFaults = 1
PROPERTY RejectionsAreRaised
CHECK_DEADLOCK FALSE
