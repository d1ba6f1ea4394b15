SPECIFICATION FairSpec
CONSTANTS
    q1 = q1
    q2 = q2
    ping = ping
    Queries <- MCQueries
    Pings <- MCPings
    Links = {1, 2}
    NoLink = 0
    MayDie = TRUE
PROPERTIES
    DeadPeerDropped
CHECK_DEADLOCK FALSE
