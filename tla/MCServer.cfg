SPECIFICATION MCSpec
CONSTANTS
    r1 = r1
    r2 = r2
    i2 = i2
    Requests = {r1, r2}
    First = First
    Ids = {i1, i2}
    MaxAsks = 1
    MaxCost = 1
    None = None
INVARIANTS
    Reachable
    ChargedOnce
PROPERTY
    RequestsEnd
CHECK_DEADLOCK FALSE
