SPECIFICATION Spec
CONSTANTS
    a1 = a1  a2 = a2
    Loader = Loader  NoOne = NoOne  BadPid = BadPid  AllPids = AllPids  NoPid = NoPid
    Proc = {a1, a2}
    CPUs = 1
    Uids <- OneRoot
    PidArgs = {a2, AllPids}
    NR = 2
    ExitGroup = 1
    SyscArgs = {1, 2}
    Node = {n1}
INVARIANTS
    LockDiscipline
    TableProtection
    CountMatchesList
CHECK_DEADLOCK FALSE
