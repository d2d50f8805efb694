CONSTANTS
    Forwarder = {"f1"}
    Conn = {"c1", "c2", "c3"}
    MaxConns = 1
    Base = 1
    Cap = 3
    Prompt = TRUE
SPECIFICATION Spec
PROPERTIES
    SwappedOnSuccess
