SPECIFICATION FairSpec
CONSTANTS
    w1 = w1
    a1 = a1
    u1 = u1
    Workers = {w1}
    Admins = {a1}
    Users = {u1}
    Absent = Absent
    Marks = {1}
    Day = 4
    StatsWindow = 3
    MaxRange = 4
    Size = 1
    Backfill = 6
    Skew = 0
    Horizon = 3
    Instants = {1, 2}
    MaxEvents = 1
    MaxFaults = 0
PROPERTY OnTimeEventuallyCounted
