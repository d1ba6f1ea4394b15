SPECIFICATION Spec
CONSTANTS
    Users = {u1, u2}
    Setups <- MCSetups
    Wanted <- MCWanted
    MaxSessions = 2
    MaxThreads = 3
    MaxCalls = 2
    Syncs = {s1, s2, s3}
    Readers = {r1, r2}
    Parts = 2
    Orders = {1, 2}
    Qtys = {0, 1, 3}
    Prices = {1, 2}
    Fees = {0, 1}
    MaxDeals = 3
INVARIANTS
    TypeOK
    OwnAccounts
    RightAccount
    OrderReported
    Restored
    CacheWhole
    ReaderWhole
    Balanced
SYMMETRY Symmetry
CHECK_DEADLOCK FALSE
