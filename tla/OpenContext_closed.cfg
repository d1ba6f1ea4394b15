SPECIFICATION Spec
CONSTANTS
    Modes <- AsyncOnly
    NumTimers = 2
    MaxConn = 4
    MaxQueue = 4
    MaxFaults = 2
    ConnectOutcomes <- PendingOnly
    InitReplies <- OkOnly
    Callbacks <- ReturnsOnly
    Prompt = TRUE
PROPERTIES
    ClosedIsFinal
CHECK_DEADLOCK FALSE
