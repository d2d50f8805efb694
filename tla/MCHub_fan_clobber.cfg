CONSTANTS
    Peer <- Two
    Allowed = {"ann", "bob"}
    HiddenPeer = {}
    Vip4 <- V4
    Vip6 <- V6
    OwnV4 = "h4"
    OwnV6 = "h6"
    OffMesh = {}
    Announce <- Steady
    MaxSession = 2
    FanCap = 4
    Redial = "established"
    RouteFaults = FALSE
    HelloLost = FALSE
    Daemon = FALSE
SPECIFICATION Spec
INVARIANTS
    FanKept
CHECK_DEADLOCK FALSE
