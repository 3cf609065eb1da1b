SPECIFICATION ServerSpec
CONSTANTS
    b1 = b1
    s1 = s1
    s2 = s2
    u1 = u1
    None = None
    Pubs = {b1}
    Streams = {s1, s2}
    Users = {u1}
    Buffer = 1
    MaxEvents = 2
    Retries = 2
INVARIANT GracefulCutsNobody
PROPERTIES RequestsEnd ShutdownEnds
CHECK_DEADLOCK FALSE
