CONSTANTS
    R = 2048
    M = 20
    Looks <- MCFewLooks
    Runs = 1
    Requests = 1
SPECIFICATION FairSpec
CHECK_DEADLOCK FALSE
PROPERTIES
    CompleteMeansOff
