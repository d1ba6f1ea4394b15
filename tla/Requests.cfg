SPECIFICATION FairSpec
CONSTANTS
    q1 = q1
    q2 = q2
    ping = ping
    Queries <- MCQueries
    Pings <- MCPings
    Links = {1, 2}
    NoLink = 0
    MayDie = TRUE
INVARIANTS
    TypeOK
    EntriesCurrent
    WaiterReachable
    WokenWithReply
PROPERTIES
    KeepsPromise
    CallsReturn
    EntriesExpire
CHECK_DEADLOCK FALSE
