CONSTANTS
    Worker = {"w1"}
    Client = {"cli"}
    Slow = FALSE
    Leaves = TRUE
    Faults = FALSE
SPECIFICATION FairSpec
PROPERTIES
    ShutdownCompletes
