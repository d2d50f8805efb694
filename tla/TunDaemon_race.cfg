CONSTANTS
    Worker = {"w1", "w2"}
    Client = {"cli"}
    Slow = TRUE
    Leaves = TRUE
    Faults = TRUE
SPECIFICATION FairSpec
INVARIANTS
    LockGuardsFiles
    OnePlane
    BindClear
PROPERTY
    CommandsComplete
