SPECIFICATION Spec
CONSTANTS
    w1 = w1
    a1 = a1
    u1 = u1
    Workers = {w1}
    Admins = {a1}
    Users = {u1}
    Absent = Absent
    Marks = {1}
    Day = 4
    StatsWindow = 3
    MaxRange = 4
    Size = 2
    Backfill = 2
    Skew = 1
    Horizon = 4
    Instants = {1, 2}
    MaxEvents = 2
    MaxFaults = 1
INVARIANTS TypeOK RowsSound CountedOnce SucceededRunsCounted StatsAgree
PROPERTY RowsNeverShrink
