CONSTANTS
    Forwarder = {"f1", "f2"}
    Conn = {"c1", "c2", "c3", "c4"}
    MaxConns = 2
    Base = 1
    Cap = 3
    Prompt = TRUE
SPECIFICATION FairSpec
INVARIANTS
    EmptyMeansDown
    NoSpin
PROPERTIES
    ClientsServed
