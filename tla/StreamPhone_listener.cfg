CONSTANTS
    Peer = {"ann", "eve"}
    Contact = {"ann"}
    MaxConn = 2
    MaxCmd = 2
    QueueCap = 1
SPECIFICATION PhoneSpec
INVARIANTS
    ListenerServesCall
CHECK_DEADLOCK FALSE
