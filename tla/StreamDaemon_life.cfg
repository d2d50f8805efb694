CONSTANTS
    Worker = {"w1", "w2"}
    Client = {"cli"}
    Faults = TRUE
    None = "none"
SPECIFICATION FairSpec
INVARIANTS
    FilesSound
PROPERTIES
    OneDaemon
    CommandsComplete
CHECK_DEADLOCK FALSE
