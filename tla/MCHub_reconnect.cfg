CONSTANTS
    Peer <- Two
    Allowed = {"ann", "bob"}
    HiddenPeer = {"ann", "bob"}
    Vip4 <- V4
    Vip6 <- V6
    OwnV4 = "h4"
    OwnV6 = "h6"
    OffMesh = {}
    Announce <- Contended
    MaxSession = 3
    FanCap = 1
    Redial = "established"
    RouteFaults = TRUE
    HelloLost = FALSE
    Daemon = FALSE
SPECIFICATION Spec
INVARIANTS
    IndexSound
    SlotKept
    HiddenUnseen
PROPERTIES
    IndexLeases
    SuccessorSpared
CHECK_DEADLOCK FALSE
