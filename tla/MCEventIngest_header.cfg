SPECIFICATION Spec
CONSTANTS
    p1 = p1
    p2 = p2
    u1 = u1
    k1 = k1
    k2 = k2
    Procs = {p1, p2}
    Users = {u1}
    Keys = {k1, k2}
    NoKey = NoKey
    Blank = Blank
    LongKey = LongKey
    BadEvent = BadEvent
    MaxBatch = 2
    MaxRequests = 2
    MaxFaults = 1
INVARIANT HeaderWins
CHECK_DEADLOCK FALSE
