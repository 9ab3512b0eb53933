CONSTANTS
    Files = {f1, f2, f3}
    Names = {na, nb}
    Rounds = 30
SPECIFICATION StackSpec
INVARIANTS
    InstancesEnd
    UnreachableHasCause
    ToldUpToTheFirstDeaf
SYMMETRY MCSymmetry
CHECK_DEADLOCK FALSE
