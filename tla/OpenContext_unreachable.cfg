SPECIFICATION FairSpec
CONSTANTS
    Modes <- AsyncOnly
    NumTimers = 2
    MaxConn = 4
    MaxQueue = 4
    MaxFaults = 2
    ConnectOutcomes <- PendingOrError
    InitReplies <- OkOnly
    Callbacks <- ReturnsOnly
    Prompt = TRUE
PROPERTIES
    Reconnects
CHECK_DEADLOCK FALSE
