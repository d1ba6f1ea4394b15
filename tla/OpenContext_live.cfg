SPECIFICATION FairSpec
CONSTANTS
    Modes <- AsyncOnly
    NumTimers = 2
    MaxConn = 7
    MaxQueue = 4
    MaxFaults = 3
    ConnectOutcomes <- PendingOnly
    InitReplies <- OkOnly
    Callbacks <- ReturnsOnly
    Prompt = TRUE
INVARIANTS
    NoStrayConnection
    Attended
PROPERTIES
    Reconnects
    CloseCompletes
    KeepsSession
CHECK_DEADLOCK FALSE
