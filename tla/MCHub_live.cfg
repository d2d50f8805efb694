CONSTANTS
    Peer <- Four
    Allowed = {"ann", "bob", "cyd"}
    HiddenPeer = {"cyd"}
    Vip4 <- V4
    Vip6 <- V6
    OwnV4 = "h4"
    OwnV6 = "h6"
    OffMesh = {}
    Announce <- Steady
    MaxSession = 2
    FanCap = 3
    Redial = "after"
    RouteFaults = FALSE
    HelloLost = FALSE
    Daemon = TRUE
SPECIFICATION FairSpec
INVARIANTS
    RoutesAgree
    RostersAgree
    JoinsNeverWait
PROPERTY
    ChurnCompletes
CHECK_DEADLOCK FALSE
