SPECIFICATION Spec
CONSTANTS
    c1 = c1
    f1 = f1
    u1 = u1
    u2 = u2
    t1 = t1
    Readers = {c1}
    Feeds = {f1}
    Users = {u1, u2}
    Admins = {u2}
    Types = {t1}
    Times = {1, 2}
    Marks = {2}
    None = None
    Malformed = Malformed
    PageDefault = 1
    PageMax = 2
    Limits = {0, 9}
    MaxRows = 3
    FeedPage = 2
    FeedLimit = 2
CONSTRAINT Apart
INVARIANTS TypeOK PagesRight FeedFaithful
CHECK_DEADLOCK FALSE
