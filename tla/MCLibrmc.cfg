CONSTANTS
    N = 3
    Ring = 2
    Limit = 15
    Times <- MCTwoTimes
    Delays <- MCDelays
    MaxAge = 200
SPECIFICATION FairSpec
INVARIANTS
    PastTheLeaseMeansReaped
    LoopIsClosedForm
    NeverOverdueEarly
    OnlyTheHourEdgeIsMissed
PROPERTIES
    ReleaseHasCause
    LostReaperReleasesNothing
    LastEntryNeverFreed
    PoolSpec
    LostReaperExhaustsTheTable
