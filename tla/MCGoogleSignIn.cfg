SPECIFICATION Spec
CONSTANTS
    p1 = p1
    p2 = p2
    p3 = p3
    e1 = e1
    e2 = e2
    g1 = g1
    g2 = g2
    w1 = w1
    Procs = {p1, p2, p3}
    Emails = {e1, e2}
    BadEmail = BadEmail
    Passwords = {w1}
    BadPassword = BadPassword
    Subs = {g1, g2}
    None = None
    MaxFlows = 2
    MaxLogins = 1
    MaxFaults = 1
SYMMETRY Symmetry
INVARIANTS TypeOK TakenOnce RightAccount OwnersGetIn
CHECK_DEADLOCK FALSE
