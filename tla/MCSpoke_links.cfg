CONSTANTS
    Peer = {"ann", "bob"}
    Allowed = {"ann", "bob"}
    Dials = {"bob"}
    Addr = {"ann", "bob", "hub", "own"}
    InMesh = {"ann", "bob", "hub", "own"}
    Announce <- Announced
    MaxConn = 2
    MaxLink = 2
    MaxMove = 1
ACTION_CONSTRAINT OneAtATime
SPECIFICATION FairSpec
INVARIANTS
    TableSound
    RosterComplete
PROPERTIES
    DeadLinkCleared
CHECK_DEADLOCK FALSE
