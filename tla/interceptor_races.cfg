SPECIFICATION ServiceSpec
CONSTANTS
    a1 = a1  a2 = a2
    Loader = Loader  NoOne = NoOne  BadPid = BadPid  AllPids = AllPids  NoPid = NoPid
    Proc = {a1, a2}
    CPUs = 1
    Uids <- Either
    PidArgs = {a1, AllPids}
    NR = 3
    ExitGroup = 2
    SyscArgs = {1}
    Node = {n1, n2}
SYMMETRY NodeSymmetry
INVARIANTS
    TypeOK
    LockDiscipline
    CountMatchesList
    NodesAccounted
    ExitCleansLists
    SavedBeforeReplaced
PROPERTIES
    Authorised
CHECK_DEADLOCK FALSE
