SPECIFICATION PlaneFairSpec
CONSTANTS
    Peer = {"ann", "bob"}
    Flow = {"ann"}
    V6 = {}
    Ceiling = {1162, 1400}
    UserMtu = 1280
    Floor = 0
    Queue = 1
    IcmpRate = 1
    Recheck = 1
    Holdoff = 1
    MaxAge = 0
    Budget = 1
INVARIANTS PlaneTypeOK MtuBoundKept
PROPERTIES WritersServed FlowsSettle MtuRecovers
