SPECIFICATION Spec
CONSTANTS
    a = a
    b = b
    k1 = k1
    k2 = k2
    o = o
    plain = plain
    detail = detail
    u1 = u1
    u2 = u2
    Codes <- MCCodes
    KTypes <- MCKTypes
    OTypes <- MCOTypes
    Flavours <- MCFlavours
    Quota = 2
    Users <- MCUsers
    Calls <- MCCalls
    MaxCalls = 2
    MaxSession = 2
    MaxFaults = 1
INVARIANTS
    TypeOK
    OneFlavour
    PlanCoversRecord
    InSync
SYMMETRY MCSymmetry
CHECK_DEADLOCK FALSE
