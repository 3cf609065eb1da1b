SPECIFICATION FairSpec
CONSTANTS
    p1 = p1
    p2 = p2
    u1 = u1
    u2 = u2
    k1 = k1
    k2 = k2
    Procs = {p1, p2}
    Users = {u1, u2}
    Keys = {k1, k2}
    NoKey = NoKey
    Blank = Blank
    LongKey = LongKey
    BadEvent = BadEvent
    MaxBatch = 2
    MaxRequests = 2
    MaxFaults = 1
INVARIANTS TypeOK OneRowPerKey AnswersHold PublishedOnce AllOrNothing
PROPERTY RequestsEnd
CHECK_DEADLOCK FALSE
