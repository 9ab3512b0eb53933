CONSTANTS
    M = 2
    Order <- MCOrder
    Thi = 2
    Bcdx = 1
    Update <- MCNone
    Answer <- MCNone
    Writers = {1}
SPECIFICATION FairSpec
INVARIANTS
    ReaperCaughtInItsPassOnly
    WalkerCaughtLate
PROPERTIES
    TeardownEnds
CHECK_DEADLOCK FALSE
