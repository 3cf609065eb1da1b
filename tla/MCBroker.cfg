SPECIFICATION Spec
CONSTANTS
    b1 = b1
    b2 = b2
    s1 = s1
    s2 = s2
    u1 = u1
    u2 = u2
    None = None
    Pubs = {b1, b2}
    Streams = {s1, s2}
    Users = {u1, u2}
    Buffer = 1
    MaxEvents = 2
SYMMETRY Symmetry
INVARIANTS TypeOK NoSendOnClosed FeedSound Accounted
CHECK_DEADLOCK FALSE
