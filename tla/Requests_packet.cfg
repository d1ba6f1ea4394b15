SPECIFICATION Spec
CONSTANTS
    q1 = q1
    q2 = q2
    ping = ping
    Queries <- MCQueries
    Pings <- MCPings
    Links = {1, 2}
    NoLink = 0
    MayDie = FALSE
INVARIANTS
    PacketNamesConnection
CHECK_DEADLOCK FALSE
