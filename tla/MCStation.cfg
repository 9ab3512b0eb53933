CONSTANTS
    R = 2048
    M = 1
    mic = mic
    Clients <- MCClients
    Looks <- MCFewLooks
    Runs = 1
    MicRuns = 1
    Requests = 1
SPECIFICATION FairSpec
CHECK_DEADLOCK FALSE
INVARIANTS
    StopsHaveCause
    OverstatedByClientsOnly
PROPERTIES
    StandingRequestStopsAll
    CroffwEnds
