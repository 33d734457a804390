SPECIFICATION Spec
CONSTANTS
    Names = {"a", "abcd"}
    LostFound = "lost+found"
    Prefixes <- MCPrefixes
    Aligned = {"abcd"}
    Longest = {"abcd"}
    NumBlocks = 9
    NumInodes = 7
    WordBits = 7
    MetaBlocks = 1
    LostBlocks = 2
    Direct = 2
    Capacity = 4
    Padded = 2
    Requests <- MCRequests
    FileSizes = {0, 1, 9}
    PathSizes = {2, 3}
    BlockBytes = 4
    PointerBytes = 3
    MaxRuns = 5
INVARIANTS
    TypeOK
    FreeCounts
    BlocksOwned
    EntriesAgree
    LinksCounted
    ChainsWhole
    NamesUnique
    UnnamedAreLost
    MetadataKept
    HangsExplained
PROPERTIES
    OneEntryChanges
    ToolsEnd
CHECK_DEADLOCK FALSE
