CONSTANTS
    Conn = {"c1", "c2", "c3"}
    Stream = {"s1", "s3"}
    ConnOf <- OneEach
    Denied = {"c3"}
    MaxConns = 1
    Mode = "proxy"
SPECIFICATION FairSpec
INVARIANTS
    PermitsSound
    PipesFaithful
PROPERTY
    StreamsEnd
CHECK_DEADLOCK FALSE
