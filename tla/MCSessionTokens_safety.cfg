SPECIFICATION Spec
CONSTANTS
    p1 = p1
    p2 = p2
    p3 = p3
    t1 = t1
    t2 = t2
    t3 = t3
    u1 = u1
    u2 = u2
    g1 = g1
    Procs = {p1, p2, p3}
    Tokens = {t1, t2, t3}
    Users = {u1, u2}
    Subs = {g1}
    NoToken = NoToken
    NoUser = NoUser
    NoSub = NoSub
    MaxFaults = 1
SYMMETRY Symmetry
INVARIANTS TypeOK OneLivePerFamily DeadStaysDead
PROPERTY ImplementsFamilies
