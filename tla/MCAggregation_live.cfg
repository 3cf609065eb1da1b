SPECIFICATION FairSpec
CONSTANTS
    w1 = w1
    w2 = w2
    u1 = u1
    Workers = {w1, w2}
    Admins = {}
    Users = {u1}
    Absent = Absent
    Marks = {1}
    Day = 4
    StatsWindow = 3
    MaxRange = 4
    Size = 1
    Backfill = 2
    Skew = 1
    Horizon = 4
    Instants = {0, 1, 2}
    MaxEvents = 1
    MaxFaults = 1
INVARIANT OnTimeCounted
PROPERTIES OnTimeEventuallyCounted CatchesUp
