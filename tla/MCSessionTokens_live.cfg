SPECIFICATION FairSpec
CONSTANTS
    p1 = p1
    p2 = p2
    p3 = p3
    t1 = t1
    t2 = t2
    u1 = u1
    g1 = g1
    Procs = {p1, p2, p3}
    Tokens = {t1, t2}
    Users = {u1}
    Subs = {g1}
    NoToken = NoToken
    NoUser = NoUser
    NoSub = NoSub
    MaxFaults = 0
PROPERTIES RequestsEnd ReuseRevokes
