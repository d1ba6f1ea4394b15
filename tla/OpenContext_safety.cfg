SPECIFICATION Spec
CONSTANTS
    Modes <- AllModes
    NumTimers = 2
    MaxConn = 3
    MaxQueue = 3
    MaxFaults = 2
    ConnectOutcomes <- AllOutcomes
    InitReplies <- AllReplies
    Callbacks <- AllCallbacks
    Prompt = FALSE
INVARIANTS
    TypeOK
    OneTimer
    WaitHasTimer
    NoLostWakeup
    ClosedForGood
PROPERTIES
    NoConnectAfterClose
CHECK_DEADLOCK FALSE
