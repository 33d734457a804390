SPECIFICATION MemorySpec
CONSTANTS
    Page = {p1, p2, p3}
    NoPage = NoPage
    memsize = 2
    swapsize = 2
    AccessType = {"L", "S"}
    MaxRefs = 8
    DiskMayFail = TRUE
SYMMETRY PageSymmetry
INVARIANTS
    TypeOK
    CoremapMatchesPageTable
    SlotsBelongToOnePage
    PageHoldsItsAddress
    CleanPageIsOnSwap
    CountersAgree
    NoSilentAssertion
PROPERTIES
    ImplementsStore
CHECK_DEADLOCK FALSE
