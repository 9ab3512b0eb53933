CONSTANTS
    c1 = c1
    c2 = c2
    Clients <- TwoClients
    Scripts <- MCScripts
    Length = 3
    Limit = 2
SPECIFICATION DFairSpec
INVARIANTS
    OkPerLine
    OneLateAtMost
PROPERTIES
    DiesOfClientsOnly
    FullMeansDeath
CHECK_DEADLOCK FALSE
