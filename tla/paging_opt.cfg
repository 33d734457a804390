SPECIFICATION Spec
CONSTANTS
    Page = {p1, p2, p3, p4}
    NoPage = NoPage
    Header = Header
    memsize = 2
    swapsize = 4
    AccessType = {"L"}
    MaxRefs = 7
    DiskMayFail = TRUE
SYMMETRY PageSymmetry
INVARIANTS
    OptIsOptimal
    ListOutlastsTrace
CHECK_DEADLOCK FALSE
