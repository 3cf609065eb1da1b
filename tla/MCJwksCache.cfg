SPECIFICATION FairSpec
CONSTANTS
    p1 = p1
    p2 = p2
    k1 = k1
    k2 = k2
    Procs = {p1, p2}
    Kids = {k1, k2}
    Nobody = Nobody
    MinTTL = 2
    MaxTTL = 3
    FallbackTTL = 2
    MinRefetch = 2
    MaxAges = {0, 1, 9}
    Horizon = 4
    MaxTokens = 3
INVARIANTS TypeOK FetchesSpaced WithdrawnRefused
PROPERTIES StaleOnlyInOutage RequestsEnd
CHECK_DEADLOCK FALSE
