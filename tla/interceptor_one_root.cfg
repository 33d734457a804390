SPECIFICATION FairSpec
CONSTANTS
    a1 = a1  a2 = a2
    Loader = Loader  NoOne = NoOne  BadPid = BadPid  AllPids = AllPids  NoPid = NoPid
    Proc = {a1, a2}
    CPUs = 1
    Uids <- OneRoot
    PidArgs = {a2, AllPids, BadPid}
    NR = 3
    ExitGroup = 2
    SyscArgs = {1}
    Node = {n1}
INVARIANTS
    OriginalReachable
    FlagsTellRouting
PROPERTIES
    ImplementsService
    EveryCallEnds
CHECK_DEADLOCK FALSE
