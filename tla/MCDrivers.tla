------------------------------ MODULE MCDrivers ------------------------------
EXTENDS Drivers, TLC

CONSTANTS ctl10, ice10, qtl10

MCModules  == {ctl10, ice10, qtl10}
MCSymmetry == Permutations(MCModules)
=============================================================================
