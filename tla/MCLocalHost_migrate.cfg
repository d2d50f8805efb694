CONSTANTS
    Parts = {"identity"}
    Cmd = {"c1", "c2", "c3"}
    Phrased = {"c2"}
    MaxFaults = 2
    Edit = {"a", "b", "c", "d"}
    EditOp <- MCEditOp
    Fold <- MCFold
    Writer = {"r1", "r2", "r3"}
    Chunks <- MCChunks
    MaxLines = 1
    MaxOverlap = 2
    MaxCrash = 1
    RelayOnly = FALSE
    Rates <- MCRates
    Me = "bob"
    StatsEvery = 2
    SlowDelay = 6
    Client = {"root", "ann", "mute"}
    Ops <- MCOps
    Trusted = {"root"}
    Other = {}
    SystemMode = TRUE
    PhoneMode = TRUE
    CallQueue = 1
    MaxPolls = 1
    Proc = {"adhoc", "system"}
    Platforms = {"linux", "macos", "windows"}
    Derived <- MCDerived
    Manual = {"system"}
    Prefix = {"v3", "mesh"}
    IdBytes = 3
    SampleByte <- MCSample
SPECIFICATION FreeSpec
INVARIANT StableOrRefused
CHECK_DEADLOCK FALSE
