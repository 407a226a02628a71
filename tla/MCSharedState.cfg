SPECIFICATION SharedSpec
CONSTANTS
    Threads = {t1, t2, t3}
    RING_SIZE = 1
    MaxCalls = 4
    Workers = {w1, w2}
    Objects = {o1, o2, o3}
    Ids = {a1, a2}
    CACHE_SIZE = 2
INVARIANTS
    SingleFlight
    RingKeepsTheLatest
    OwnCopy
    CacheIsSound
PROPERTIES
    CallsAnswered
CHECK_DEADLOCK FALSE
