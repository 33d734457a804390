SPECIFICATION Spec
CONSTANTS
    Page = {p1, p2, p3}
    NoPage = NoPage
    memsize = 2
    swapsize = 3
    AccessType = {"L"}
    MaxRefs = 6
    DiskMayFail = FALSE
    Algorithms = {"lru"}
INVARIANTS
    LruIsAccurate
CHECK_DEADLOCK FALSE
