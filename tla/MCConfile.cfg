CONSTANTS
    Codes = {"5555", "whitequeen"}
    Long = {"whitequeen"}
    Behind = {"environment", "option"}
    Runs = 6
SPECIFICATION Spec
INVARIANTS
    Survives
    
CHECK_DEADLOCK FALSE
