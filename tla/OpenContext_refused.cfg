SPECIFICATION Spec
CONSTANTS
    Modes <- AsyncOnly
    NumTimers = 2
    MaxConn = 4
    MaxQueue = 4
    MaxFaults = 2
    ConnectOutcomes <- PendingOnly
    InitReplies <- OkOrRefused
    Callbacks <- ReturnsOnly
    Prompt = TRUE
INVARIANTS
    Attended
CHECK_DEADLOCK FALSE
