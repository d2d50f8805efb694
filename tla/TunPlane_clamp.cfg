SPECIFICATION PlaneSpec
CONSTANTS
    Peer = {"ann", "bob"}
    Flow = {"ann"}
    V6 = {}
    Ceiling = {1162, 1280}
    UserMtu = 1162
    Floor = 1280
    Queue = 1
    IcmpRate = 1
    Recheck = 1
    Holdoff = 1
    MaxAge = 0
    Budget = 1
INVARIANT MtuBoundKept
