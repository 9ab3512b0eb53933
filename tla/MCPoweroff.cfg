CONSTANTS
    R = 2048
    M = 20
    Looks <- MCLooks
    Runs = 2
    Requests = 2
SPECIFICATION Spec
CHECK_DEADLOCK FALSE
INVARIANTS
    OffMeansAllFreed
    TeardownWasAsked
    ReportNeverAhead
PROPERTIES
    ShutdownSpec
