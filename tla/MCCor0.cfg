CONSTANTS
    R = 4
    Codes = {c1, c2}
SPECIFICATION Spec
INVARIANTS
    RequestIsQueued
    MirrorOfTheLatest
    CrashInsideOnly
PROPERTIES
    MirrorStaysRemoved
CHECK_DEADLOCK FALSE
