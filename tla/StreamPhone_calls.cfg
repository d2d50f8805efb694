CONSTANTS
    Peer = {"ann", "eve"}
    Contact = {"ann"}
    MaxConn = 2
    MaxCmd = 2
    QueueCap = 1
SPECIFICATION PhoneFairSpec
INVARIANTS
    PhoneSound
PROPERTY
    RingsAndCallsEnd
CHECK_DEADLOCK FALSE
