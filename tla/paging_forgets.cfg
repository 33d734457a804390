SPECIFICATION MemorySpec
CONSTANTS
    Page = {p1, p2}
    NoPage = NoPage
    memsize = 1
    swapsize = 2
    AccessType = {"L", "S"}
    MaxRefs = 6
    DiskMayFail = FALSE
INVARIANTS
    NoWriteIsForgotten
CHECK_DEADLOCK FALSE
