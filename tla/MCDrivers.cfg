CONSTANTS
    ctl10 = ctl10
    ice10 = ice10
    qtl10 = qtl10
    Modules <- MCModules
SPECIFICATION Spec
INVARIANTS
    NodeHasItsDriver
SYMMETRY MCSymmetry
CHECK_DEADLOCK FALSE
