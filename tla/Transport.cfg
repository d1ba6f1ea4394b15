SPECIFICATION Spec
CONSTANTS
    Conns = {1, 2}
    Callers = {1, 2}
    PacketLens = {2}
    MaxBytes = 4
    MaxCloses = 1
    HeadLen = 2
    BodyLens = {1}
    Garbage = {3}
    MaxSessions = 2
    MaxPackets = 3
    MaxExecutors = 3
INVARIANTS
    TypeOK
    WorkAnnounced
    RestWatched
    ShownInOrder
    StreamIntact
    OwnSession
    OneLate
PROPERTIES
    KeepsOrder
    AllSent
    ThreadsKeepUp
CHECK_DEADLOCK FALSE
