CONSTANTS
    Peer = {"con", "str"}
    Contact = {"con"}
    Higher = {"con", "str"}
    Allowed = {"con", "str"}
    Vip4 = {"c4", "s4", "own4"}
    Vip6 = {"c6", "s6", "own6"}
    Bad = {"own4", "own6"}
    Announce <- Addresses
    MaxCall = 2
    RouteFaults = {4}
    DeleteFaults = {6}
SPECIFICATION FairSpec
INVARIANTS
    CallsTidy
PROPERTIES
    ActiveLeases
    RingsAndCallsEnd
CHECK_DEADLOCK FALSE
