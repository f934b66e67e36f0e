CONSTANTS
    Conns = {c1, c2, c3}
    Peers = {p1, p2, p3}
    NoPeer = NoPeer
    Limit = 2
    CacheSize = 2
    CacheSeconds = 1
    MaxRead = 1
    MaxTime = 3
SYMMETRY Symmetry
SPECIFICATION Spec
INVARIANTS TypeOK SlotsExact CacheBounded
PROPERTY AdmittedAreFresh
CHECK_DEADLOCK FALSE
