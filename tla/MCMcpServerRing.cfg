SPECIFICATION Spec
CONSTANTS
    Threads = {t1, t2, t3}
    RING_SIZE = 2
    MaxCalls = 4
SYMMETRY Symmetry
INVARIANTS
    KeepsLastReports
CHECK_DEADLOCK FALSE
