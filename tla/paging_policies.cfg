SPECIFICATION Spec
CONSTANTS
    Page = {p1, p2, p3, p4}
    NoPage = NoPage
    memsize = 3
    swapsize = 4
    AccessType = {"L"}
    MaxRefs = 11
    DiskMayFail = TRUE
    Algorithms = {"rand", "fifo", "clock", "lru"}
SYMMETRY PageSymmetry
INVARIANTS
    PolicyTypeOK
    FifoIsAQueue
    ClockEvictsTheIdle
    LruCountsEveryReference
CHECK_DEADLOCK FALSE
