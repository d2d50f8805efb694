SPECIFICATION PlaneSpec
CONSTANTS
    Peer = {"ann"}
    Flow = {}
    V6 = {}
    Ceiling = {1162, 1280}
    UserMtu = 1280
    Floor = 0
    Queue = 1
    IcmpRate = 1
    Recheck = 2
    Holdoff = 1
    MaxAge = 5
    Budget = 4
INVARIANT RecheckedInTime
