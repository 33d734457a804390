------------------------- MODULE InterceptorProofs -------------------------
(* Theorems about Interceptor, for any processes, system calls and nodes: every
   variable keeps its type, the two spinlocks exclude, and the page of
   sys_call_table is writable exactly while its lock is held.  Then the pid
   lists under concurrent START, STOP, exit and rmmod: no node leaks or is freed
   twice, and listcount is exact; no system call loses its handler; a process
   that exits is left in no list. *)
EXTENDS InterceptorProperties, FiniteSetTheorems, TLAPS

USE ConstantsAssumption DEF Custom

-----------------------------------------------------------------------------
(* The building blocks of the actions keep the types. *)

LEMMA UpdateType ==
    ASSUME NEW A, NEW B, NEW g \in [A -> B], NEW x, NEW v, x \in A => v \in B
    PROVE  [g EXCEPT ![x] = v] \in [A -> B]
OBVIOUS

(* What happens to the counter and the flag of list s. *)
LEMMA CountType ==
    ASSUME TypeOK, NEW s
    PROVE  /\ [listcount EXCEPT ![s] = @ + 1] \in [Sysc -> Int]
           /\ [listcount EXCEPT ![s] = @ - 1] \in [Sysc -> Int]
           /\ [listcount EXCEPT ![s] = 0] \in [Sysc -> Int]
           /\ [monitored EXCEPT ![s] = 0] \in [Sysc -> 0 .. 2]
           /\ \A c : [monitored EXCEPT ![s] = MonitoredWith(s, c)] \in [Sysc -> 0 .. 2]
<1>1. /\ listcount \in [Sysc -> Int]
      /\ monitored \in [Sysc -> 0 .. 2]
  BY DEF TypeOK, TableTypeOK
<1>2. s \in Sysc => listcount[s] \in Int
  BY <1>1
<1>3. s \in Sysc => listcount[s] + 1 \in Int /\ listcount[s] - 1 \in Int
  BY <1>2
<1>4. s \in Sysc => \A c : MonitoredWith(s, c) \in 0 .. 2
  BY <1>1 DEF MonitoredWith
<1>5. 0 \in Int /\ 0 \in 0 .. 2
  OBVIOUS
<1>6. [listcount EXCEPT ![s] = listcount[s] + 1] \in [Sysc -> Int]
  BY ONLY <1>1, <1>3, UpdateType
<1>7. [listcount EXCEPT ![s] = listcount[s] - 1] \in [Sysc -> Int]
  BY ONLY <1>1, <1>3, UpdateType
<1>8. [listcount EXCEPT ![s] = 0] \in [Sysc -> Int]
  BY ONLY <1>1, <1>5, UpdateType
<1>9. [monitored EXCEPT ![s] = 0] \in [Sysc -> 0 .. 2]
  BY ONLY <1>1, <1>5, UpdateType
<1>10. ASSUME NEW c PROVE [monitored EXCEPT ![s] = MonitoredWith(s, c)] \in [Sysc -> 0 .. 2]
  BY ONLY <1>1, <1>4, UpdateType
<1> QED
  BY <1>6, <1>7, <1>8, <1>9, <1>10

LEMMA PcStep ==
    ASSUME PcTypeOK, NEW p \in Proc, NEW l, NEW m \in ProcLabels, Go(p, l, m)
    PROVE  PcTypeOK'
BY DEF PcTypeOK, Go, Actor

LEMMA JumpType ==
    ASSUME TypeOK, NEW p \in Proc, NEW l, NEW m \in ProcLabels, Jump(p, l, m)
    PROVE  TypeOK'
<1>1. PcTypeOK'
  BY PcStep DEF Jump, TypeOK
<1> QED
  BY <1>1 DEF Jump, TypeOK, KernelTypeOK, TableTypeOK, LockTypeOK, CallTypeOK,
              kernelVars, tableVars, lockVars, callVars

LEMMA JumpWithType ==
    ASSUME TypeOK, NEW p \in Proc, NEW l, NEW m \in ProcLabels, NEW c \in Codes,
           JumpWith(p, l, m, c)
    PROVE  TypeOK'
<1>1. PcTypeOK'
  BY PcStep DEF JumpWith, TypeOK
<1> QED
  BY <1>1 DEF JumpWith, TypeOK, KernelTypeOK, TableTypeOK, LockTypeOK, CallTypeOK,
              kernelVars, tableVars, lockVars

LEMMA BeginType ==
    ASSUME TypeOK, NEW p \in Proc, NEW l, NEW m \in ProcLabels,
           NEW c \in [cmd : Cmds \cup {"none", "syscall"}, sysc : Int,
                      pid : Proc \cup {AllPids, BadPid}],
           Begin(p, l, m, c)
    PROVE  TypeOK'
<1>1. PcTypeOK'
  BY PcStep DEF Begin, TypeOK
<1> QED
  BY <1>1 DEF Begin, TypeOK, KernelTypeOK, TableTypeOK, LockTypeOK, CallTypeOK,
              kernelVars, tableVars, lockVars, Codes

(* Steps that take or drop a lock, by a process or by the loader. *)
LEMMA LockType ==
    ASSUME TypeOK, NEW a \in Actor, NEW l, NEW m,
           a = Loader => m \in LoaderLabels, a \in Proc => m \in ProcLabels,
           \/ LockSys(a, l, m) \/ UnlockSys(a, l, m) \/ LockMy(a, l, m) \/ UnlockMy(a, l, m)
    PROVE  TypeOK'
<1>1. Go(a, l, m)
  BY DEF LockSys, UnlockSys, LockMy, UnlockMy
<1>2. PcTypeOK'
  BY <1>1 DEF TypeOK, PcTypeOK, Go, Actor
<1> QED
  BY <1>2 DEF TypeOK, KernelTypeOK, TableTypeOK, LockTypeOK, CallTypeOK,
              LockSys, UnlockSys, LockMy, UnlockMy, kernelVars, tableVars, lockVars, callVars

LEMMA ScanType ==
    ASSUME TypeOK, NEW p \in Proc, NEW l, NEW m1 \in ProcLabels, NEW m2 \in ProcLabels,
           NEW c \in Codes, Scan(p, l, m1, m2, c)
    PROVE  TypeOK'
<1>1. CASE Fault(p, l)
  BY <1>1, JumpType DEF Fault, ProcLabels
<1>2. CASE ~Fault(p, l)
  <2>1. PICK found : Go(p, l, IF found THEN m1 ELSE m2) /\ ret' = [ret EXCEPT ![p] = IF found THEN c ELSE "OK"]
    BY <1>2 DEF Scan
  <2>2. PcTypeOK'
    BY <2>1, PcStep DEF TypeOK
  <2>3. "OK" \in Codes
    BY DEF Codes
  <2> QED
    BY <1>2, <2>1, <2>2, <2>3 DEF Scan, TypeOK, KernelTypeOK, TableTypeOK, LockTypeOK, CallTypeOK,
              kernelVars, tableVars, lockVars
<1> QED
  BY <1>1, <1>2

(* The list operations keep the types of the variables they set. *)
LEMMA UnlinkType ==
    ASSUME TypeOK, NEW N, NEW L, Unlink(N, L)
    PROVE  /\ my_list' \in [Sysc -> SUBSET Node]
           /\ pidOf' \in [Node -> Proc \cup {AllPids, BadPid, NoPid}]
           /\ torn' \in [Proc -> BOOLEAN]
<1>1. torn' \in [Proc -> BOOLEAN]
  BY Zenon DEF TypeOK, CallTypeOK, Unlink
<1> QED
  BY <1>1 DEF TypeOK, TableTypeOK, Unlink

LEMMA MonitoredWithType ==
    ASSUME TypeOK, NEW s \in Sysc, NEW c
    PROVE  MonitoredWith(s, c) \in 0 .. 2
BY DEF TypeOK, TableTypeOK, MonitoredWith

-----------------------------------------------------------------------------
(* Every action keeps the types. *)

LEMMA EntryType ==
    ASSUME TypeOK, NEW p \in Proc,
           \/ EntryInvalid(p) \/ EntryRoot(p) \/ EntryUser(p) \/ CheckPid(p)
           \/ CheckOwner(p) \/ CommandDone(p) \/ StartRead(p) \/ StopRead(p)
           \/ InterceptorCall(p) \/ Leave(p, "return", "user")
    PROVE  TypeOK'
<1>1. NoCall \in [cmd : Cmds \cup {"none", "syscall"}, sysc : Int, pid : Proc \cup {AllPids, BadPid}]
  BY DEF NoCall
<1>2. ASSUME NEW l, NEW m \in ProcLabels, Leave(p, l, m)
      PROVE  TypeOK'
  BY <1>1, <1>2, BeginType DEF Leave
<1>3. ASSUME NEW l, NEW c \in Codes, Return(p, l, c)
      PROVE  TypeOK'
  BY <1>3, JumpWithType DEF Return, ProcLabels
<1>4. ASSUME NEW l, Fault(p, l)
      PROVE  TypeOK'
  BY <1>4, JumpType DEF Fault, ProcLabels
<1>5. CASE EntryInvalid(p) \/ EntryRoot(p) \/ EntryUser(p)
  BY <1>5, <1>3, JumpType DEF EntryInvalid, EntryRoot, EntryUser, ProcLabels, Codes
<1>10. ASSUME PassOwner(p)
       PROVE  TypeOK'
  <2>1. PcTypeOK'
    BY <1>10, PcStep DEF PassOwner, TypeOK, ProcLabels
  <2>2. reused' \in [Proc -> BOOLEAN]
    BY <1>10 DEF PassOwner, TypeOK, CallTypeOK
  <2> QED
    BY <1>10, <2>1, <2>2 DEF PassOwner, TypeOK, KernelTypeOK, TableTypeOK, LockTypeOK, CallTypeOK,
              kernelVars, tableVars, lockVars
<1>6. CASE CheckPid(p) \/ CheckOwner(p) \/ CommandDone(p)
  BY <1>6, <1>3, <1>4, <1>10, JumpType DEF CheckPid, CheckOwner, CommandDone, ProcLabels, Codes
<1>7. CASE StartRead(p)
  BY <1>7, <1>3, JumpType DEF StartRead, ProcLabels, Codes
<1>8. CASE StopRead(p)
  BY <1>8, <1>3, JumpType DEF StopRead, ProcLabels, Codes
<1>9. CASE InterceptorCall(p) \/ Leave(p, "return", "user")
  BY <1>9, <1>2, <1>4, JumpType DEF InterceptorCall, ProcLabels
<1> QED
  BY <1>5, <1>6, <1>7, <1>8, <1>9

LEMMA TableCommandType ==
    ASSUME TypeOK, NEW p \in Proc, InterceptCommand(p) \/ ReleaseCommand(p)
    PROVE  TypeOK'
<1> p \in Actor /\ p # Loader
  BY DEF Actor
<1>1. ASSUME NEW l, NEW m \in ProcLabels, LockSys(p, l, m) \/ UnlockSys(p, l, m)
      PROVE  TypeOK'
  BY <1>1, LockType
<1>2. CASE SaveOriginal(p)
  <2>1. PcTypeOK'
    BY <1>2, PcStep DEF SaveOriginal, TypeOK, ProcLabels
  <2> QED
    BY <1>2, <2>1 DEF SaveOriginal, TypeOK, KernelTypeOK, TableTypeOK, LockTypeOK, CallTypeOK, kernelVars, tableVars, listVars, lockVars, callVars
<1>3. ASSUME NEW l, NEW m \in ProcLabels, NEW h, SetHandler(p, l, m, h),
             S(p) \in Sysc => h \in Handler \cup {"none"}
      PROVE  TypeOK'
  <2>1. PcTypeOK'
    BY <1>3, PcStep DEF SetHandler, TypeOK
  <2> QED
    BY <1>3, <2>1 DEF SetHandler, TypeOK, KernelTypeOK, TableTypeOK, LockTypeOK, CallTypeOK, kernelVars, tableVars, listVars, lockVars, callVars
<1>4. ASSUME NEW l, NEW b \in BOOLEAN, SetFlag(p, l, b)
      PROVE  TypeOK'
  <2>1. PcTypeOK'
    BY <1>4, PcStep DEF SetFlag, TypeOK, ProcLabels
  <2> QED
    BY <1>4, <2>1 DEF SetFlag, TypeOK, KernelTypeOK, TableTypeOK, LockTypeOK, CallTypeOK, kernelVars, tableVars, listVars, lockVars, callVars
<1>5. S(p) \in Sysc => f[S(p)] \in Handler \cup {"none"}
  BY DEF TypeOK, TableTypeOK
<1> QED
  BY <1>1, <1>2, <1>3, <1>4, <1>5 DEF InterceptCommand, ReleaseCommand, ProcLabels, Handler

LEMMA MonitorCommandType ==
    ASSUME TypeOK, NEW p \in Proc, StartCommand(p) \/ StopCommand(p)
    PROVE  TypeOK'
<1> p \in Actor /\ p # Loader
  BY DEF Actor
<1>1. ASSUME NEW l, NEW m \in ProcLabels, LockMy(p, l, m)
      PROVE  TypeOK'
  BY <1>1, LockType
<1>2. ASSUME NEW l, NEW m \in ProcLabels, NEW v \in 0 .. 2, SetMonitored(p, l, m, v)
      PROVE  TypeOK'
  <2>1. PcTypeOK'
    BY <1>2, PcStep DEF SetMonitored, TypeOK
  <2> QED
    BY <1>2, <2>1 DEF SetMonitored, TypeOK, KernelTypeOK, TableTypeOK, LockTypeOK, CallTypeOK, kernelVars, tableVars, listVars, lockVars, callVars
<1>3. CASE StartRead(p) \/ StopRead(p)
  BY <1>3, EntryType
<1>4. CASE Scan(p, "scan", "return", "add_lock", "EBUSY")
  <2>1. "return" \in ProcLabels /\ "add_lock" \in ProcLabels /\ "EBUSY" \in Codes
    BY DEF ProcLabels, Codes
  <2> QED
    BY <1>4, <2>1, ScanType
<1>5. ASSUME NEW l \in {"add", "asleep"}, Adds(p, l)
      PROVE  TypeOK'
  <2>1. CASE JumpWith(p, l, "unlock", "ENOMEM") \/ Fault(p, l)
    BY <2>1, JumpWithType, JumpType DEF Fault, ProcLabels, Codes
  <2>2. CASE ~(JumpWith(p, l, "unlock", "ENOMEM") \/ Fault(p, l))
    <3>1. PICK n \in Node : AddPidSysc(n, call[p].pid, S(p))
      BY <1>5, <2>2 DEF Adds
    <3>2. PcTypeOK'
      BY <1>5, <2>2, PcStep DEF Adds, TypeOK, ProcLabels
    <3>0. call[p].pid \in Proc \cup {AllPids, BadPid}
      BY DEF TypeOK, CallTypeOK
    <3>3. pidOf' \in [Node -> Proc \cup {AllPids, BadPid, NoPid}]
      BY <3>0, <3>1 DEF AddPidSysc, TypeOK, TableTypeOK
    <3>5. my_list' \in [Sysc -> SUBSET Node]
      BY <3>1 DEF AddPidSysc, TypeOK, TableTypeOK
    <3>6. listcount' \in [Sysc -> Int]
      BY <3>1, CountType DEF AddPidSysc
    <3>4. UNCHANGED <<kernelVars, f, intercepted, monitored, ready, lockVars, callVars>>
      BY <1>5, <2>2 DEF Adds
    <3> QED
      BY <3>2, <3>3, <3>4, <3>5, <3>6 DEF TypeOK, KernelTypeOK, TableTypeOK, LockTypeOK, CallTypeOK, kernelVars, tableVars, listVars, lockVars, callVars
  <2> QED
    BY <2>1, <2>2
<1>8. CASE StartAdd(p)
  BY <1>5, <1>8, JumpType DEF StartAdd, ProcLabels
<1>6. CASE StopDelete(p)
  <2>1. CASE JumpWith(p, "del", "unlock", "ENOMEM") \/ Fault(p, "del")
    BY <2>1, JumpWithType, JumpType DEF Fault, ProcLabels, Codes
  <2>2. CASE ~(JumpWith(p, "del", "unlock", "ENOMEM") \/ Fault(p, "del"))
    <3>1. PICK n : DelPidSysc(n, S(p))
      BY <1>6, <2>2 DEF StopDelete
    <3>2. PcTypeOK'
      BY <1>6, <2>2, PcStep DEF StopDelete, TypeOK, ProcLabels
    <3>6. listcount' \in [Sysc -> Int]
      BY <3>1, CountType DEF DelPidSysc
    <3>3. monitored' \in [Sysc -> 0 .. 2]
      BY <3>1, CountType DEF DelPidSysc
    <3>4. /\ my_list' \in [Sysc -> SUBSET Node]
          /\ pidOf' \in [Node -> Proc \cup {AllPids, BadPid, NoPid}]
          /\ torn' \in [Proc -> BOOLEAN]
      BY <3>1, UnlinkType DEF DelPidSysc
    <3>5. UNCHANGED <<kernelVars, f, intercepted, ready, lockVars, call, ret, idx, uid, reused>>
      BY <1>6, <2>2 DEF StopDelete
    <3> QED
      BY <3>2, <3>3, <3>4, <3>5, <3>6 DEF TypeOK, KernelTypeOK, TableTypeOK, LockTypeOK, CallTypeOK, kernelVars, tableVars, listVars, lockVars, callVars
  <2> QED
    BY <2>1, <2>2
<1>7. CASE StopDestroy(p)
  <2>1. CASE Fault(p, "destroy")
    BY <2>1, JumpType DEF Fault, ProcLabels
  <2>2. CASE ~Fault(p, "destroy")
    <3>1. DestroyList(S(p))
      BY <1>7, <2>2 DEF StopDestroy
    <3>2. PcTypeOK'
      BY <1>7, <2>2, PcStep DEF StopDestroy, TypeOK, ProcLabels
    <3>3. /\ my_list' \in [Sysc -> SUBSET Node]
          /\ pidOf' \in [Node -> Proc \cup {AllPids, BadPid, NoPid}]
          /\ torn' \in [Proc -> BOOLEAN]
      BY <3>1, UnlinkType DEF DestroyList
    <3>4. listcount' \in [Sysc -> Int]
      BY <3>1, CountType DEF DestroyList
    <3>6. monitored' \in [Sysc -> 0 .. 2]
      BY <3>1, CountType DEF DestroyList
    <3>5. UNCHANGED <<kernelVars, f, intercepted, ready, lockVars, call, ret, idx, uid, reused>>
      BY <1>7, <2>2 DEF StopDestroy
    <3> QED
      BY <3>2, <3>3, <3>4, <3>5, <3>6 DEF TypeOK, KernelTypeOK, TableTypeOK, LockTypeOK, CallTypeOK, kernelVars, tableVars, listVars, lockVars, callVars
  <2> QED
    BY <2>1, <2>2
<1> QED
  BY <1>1, <1>2, <1>3, <1>4, <1>8, <1>6, <1>7 DEF StartCommand, StopCommand, ProcLabels

LEMMA DelPidType ==
    ASSUME TypeOK, NEW pid, DelPid(pid)
    PROVE  /\ my_list' \in [Sysc -> SUBSET Node]
           /\ pidOf' \in [Node -> Proc \cup {AllPids, BadPid, NoPid}]
           /\ torn' \in [Proc -> BOOLEAN]
           /\ listcount' \in [Sysc -> Int]
           /\ monitored' \in [Sysc -> 0 .. 2]
<1> DEFINE hit     == {s \in 1 .. NR - 1 : NodesOf(pid, s) # {}}
           left(s) == listcount[s] - Cardinality(NodesOf(pid, s))
<1>1. ASSUME NEW s \in Sysc
      PROVE  Cardinality(NodesOf(pid, s)) \in Nat
  <2>1. IsFiniteSet(NodesOf(pid, s))
    BY FS_Subset DEF TypeOK, TableTypeOK, NodesOf
  <2> QED
    BY <2>1, FS_CardinalityType
<1>2. listcount' \in [Sysc -> Int]
  BY <1>1 DEF DelPid, TypeOK, TableTypeOK
<1>3. monitored' \in [Sysc -> 0 .. 2]
  BY MonitoredWithType DEF DelPid, TypeOK, TableTypeOK
<1>4. Unlink(UNION {NodesOf(pid, s) : s \in hit}, hit)
  BY DEF DelPid
<1> QED
  BY <1>2, <1>3, <1>4, UnlinkType

LEMMA OtherCallsType ==
    ASSUME TypeOK, NEW p \in Proc, Enter(p) \/ InterceptorRun(p) \/ MyExitGroup(p)
    PROVE  TypeOK'
<1> p \in Actor /\ p # Loader
  BY DEF Actor
<1>1. ASSUME NEW l, NEW m \in ProcLabels, Jump(p, l, m)
      PROVE  TypeOK'
  BY <1>1, JumpType
<1>2. CASE \E c \in Cmds, s \in SyscArgs, pid \in PidArgs : CallMySyscall(p, c, s, pid)
  BY <1>2, BeginType DEF CallMySyscall, ProcLabels
<1>3. CASE \E s \in SyscArgs \cap Sysc : CallIntercepted(p, s)
  BY <1>3, BeginType DEF CallIntercepted, ProcLabels, Sysc
<1>4. CASE \/ \E s \in SyscArgs \cap Sysc : CallFreedText(p, s)
           \/ CallExitGroup(p)
           \/ ReusePid(p)
  <2>1. CASE \E s \in SyscArgs \cap Sysc : CallFreedText(p, s)
    BY <2>1, <1>1 DEF CallFreedText, Fault, ProcLabels
  <2>2. CASE CallExitGroup(p)
    BY <2>2, <1>1 DEF CallExitGroup, ProcLabels
  <2>3. CASE ReusePid(p)
    <3>1. PcTypeOK'
      BY <2>3, PcStep DEF ReusePid, TypeOK, ProcLabels
    <3>2. PICK u \in Uids[p] : uid' = [uid EXCEPT ![p] = u]
      BY <2>3 DEF ReusePid
    <3>3. uid' \in [Proc -> Nat]
      BY <3>2 DEF TypeOK, CallTypeOK
    <3>4. reused' \in [Proc -> BOOLEAN]
      BY <2>3 DEF ReusePid, TypeOK, CallTypeOK
    <3> QED
      BY <2>3, <3>1, <3>3, <3>4 DEF ReusePid, TypeOK, KernelTypeOK, TableTypeOK, LockTypeOK, CallTypeOK,
              kernelVars, tableVars, lockVars
  <2> QED
    BY <1>4, <2>1, <2>2, <2>3
<1>5. CASE InterceptorRun(p)
  <2>1. CASE Scan(p, "icp", "icp_call", "icp_call", "OK")
    <3>1. "icp_call" \in ProcLabels /\ "OK" \in Codes
      BY DEF ProcLabels, Codes
    <3> QED
      BY <2>1, <3>1, ScanType
  <2>2. CASE InterceptorCall(p)
    BY <2>2, EntryType
  <2> QED
    BY <1>5, <2>1, <2>2 DEF InterceptorRun
<1>6. CASE ExitDelPid(p)
  <2>1. CASE Fault(p, "exit_del")
    BY <2>1, <1>1 DEF Fault, ProcLabels
  <2>2. CASE ~Fault(p, "exit_del")
    <3>1. DelPid(p)
      BY <1>6, <2>2 DEF ExitDelPid
    <3>2. PcTypeOK'
      BY <1>6, <2>2, PcStep DEF ExitDelPid, TypeOK, ProcLabels
    <3>3. UNCHANGED <<kernelVars, f, intercepted, ready, lockVars, call, ret, idx, uid, reused>>
      BY <1>6, <2>2 DEF ExitDelPid
    <3> QED
      BY <3>1, <3>2, <3>3, DelPidType DEF TypeOK, KernelTypeOK, TableTypeOK, LockTypeOK, CallTypeOK, kernelVars, tableVars, listVars, lockVars, callVars
  <2> QED
    BY <2>1, <2>2
<1>7. CASE MyExitGroup(p) /\ ~ExitDelPid(p)
  BY <1>7, <1>1, LockType DEF MyExitGroup, ProcLabels
<1> QED
  BY <1>2, <1>3, <1>4, <1>5, <1>6, <1>7 DEF Enter

LEMMA LoaderType ==
    ASSUME TypeOK, InitFunction \/ ExitFunction
    PROVE  TypeOK'
<1> Loader \in Actor /\ Loader \notin Proc
  BY DEF Actor
<1>1. ASSUME NEW l, NEW m \in LoaderLabels, LockSys(Loader, l, m) \/ UnlockSys(Loader, l, m)
      PROVE  TypeOK'
  BY <1>1, LockType
<1>2. ASSUME NEW l, NEW m \in LoaderLabels, NEW s \in {Custom, ExitGroup}, NEW h \in Handler,
             Hijack(l, m, s, h) \/ Restore(l, m, s)
      PROVE  TypeOK'
  <2>1. PcTypeOK'
    BY <1>2 DEF Hijack, Restore, Go, TypeOK, PcTypeOK, Actor
  <2>2. s \in Sysc
    BY DEF Sysc
  <2> QED
    BY <1>2, <2>1, <2>2 DEF Hijack, Restore, TypeOK, KernelTypeOK, TableTypeOK, LockTypeOK, CallTypeOK, kernelVars, tableVars, listVars, lockVars, callVars
<1>3. ASSUME NEW l, NEW m \in LoaderLabels, NextEntry(l, m)
      PROVE  PcTypeOK' /\ idx' \in Sysc
  <2>1. idx' \in Sysc
    BY <1>3 DEF NextEntry, Sysc, TypeOK, CallTypeOK
  <2>2. PcTypeOK'
    BY <1>3 DEF NextEntry, TypeOK, PcTypeOK, Actor, ProcLabels
  <2> QED
    BY <2>1, <2>2
<1>4. CASE InitEntry
  <2>1. PcTypeOK' /\ idx' \in Sysc
    BY <1>4, <1>3 DEF InitEntry, LoaderLabels
  <2>2. UNCHANGED <<kernelVars, f, lockVars, call, ret, pidOf, torn, uid, reused>>
    BY <1>4 DEF InitEntry, NextEntry
  <2> QED
    BY <1>4, <2>1, <2>2 DEF InitEntry, TypeOK, KernelTypeOK, TableTypeOK, LockTypeOK, CallTypeOK, kernelVars, tableVars, listVars, lockVars, callVars
<1>5. CASE DestroyEntry
  <2>1. PcTypeOK' /\ idx' \in Sysc
    BY <1>5, <1>3 DEF DestroyEntry, LoaderLabels
  <2>2. UNCHANGED <<kernelVars, f, lockVars, call, ret, intercepted, ready, uid, reused>>
    BY <1>5 DEF DestroyEntry, NextEntry
  <2>3. DestroyList(idx)
    BY <1>5 DEF DestroyEntry
  <2>4. /\ my_list' \in [Sysc -> SUBSET Node]
        /\ pidOf' \in [Node -> Proc \cup {AllPids, BadPid, NoPid}]
        /\ torn' \in [Proc -> BOOLEAN]
    BY <2>3, UnlinkType DEF DestroyList
  <2>5. listcount' \in [Sysc -> Int]
    BY <2>3, CountType DEF DestroyList
  <2>6. monitored' \in [Sysc -> 0 .. 2]
    BY <2>3, CountType DEF DestroyList
  <2> QED
    BY <2>1, <2>2, <2>4, <2>5, <2>6 DEF TypeOK, KernelTypeOK, TableTypeOK, LockTypeOK, CallTypeOK, kernelVars, tableVars, listVars, lockVars, callVars
<1> QED
  BY <1>1, <1>2, <1>4, <1>5 DEF InitFunction, ExitFunction, LoaderLabels, Handler

LEMMA NextType == TypeOK /\ [Next]_vars => TypeOK'
<1> SUFFICES ASSUME TypeOK, [Next]_vars PROVE TypeOK'
  OBVIOUS
<1>1. CASE UNCHANGED vars
  BY <1>1 DEF vars, TypeOK, KernelTypeOK, TableTypeOK, LockTypeOK, CallTypeOK, PcTypeOK, kernelVars, tableVars, listVars, lockVars, callVars
<1>2. ASSUME NEW p \in Proc, UnlockMy(p, "unlock", "return")
      PROVE  TypeOK'
  BY <1>2, LockType DEF Actor, ProcLabels
<1>3. ASSUME NEW p \in Proc, ProcNext(p)
      PROVE  TypeOK'
  BY <1>2, <1>3, EntryType, TableCommandType, MonitorCommandType, OtherCallsType
     DEF ProcNext, Run, MySyscall
<1> QED
  BY <1>1, <1>3, LoaderType DEF Next

LEMMA InitType == Init \/ LoadedInit => TypeOK
<1>1. ASSUME StaticData, Idle
      PROVE  /\ writable \in BOOLEAN /\ CallTypeOK /\ LockTypeOK
             /\ ready \in [Sysc -> BOOLEAN] => TableTypeOK
  <2>1. NoCall \in [cmd : Cmds \cup {"none", "syscall"}, sysc : Int, pid : Proc \cup {AllPids, BadPid}]
    BY DEF NoCall
  <2>4. uid \in [Proc -> Nat]
    <3>1. \A p \in Proc : uid[p] \in Uids[p] /\ Uids[p] \subseteq Nat
      BY <1>1 DEF Idle
    <3>2. \E A : uid \in [Proc -> A]
      BY <1>1 DEF Idle
    <3> QED
      BY <3>1, <3>2
  <2>2. CallTypeOK
    BY <1>1, <2>1, <2>4 DEF Idle, CallTypeOK, Codes, Sysc
  <2>3. ready \in [Sysc -> BOOLEAN] => TableTypeOK
    BY <1>1 DEF StaticData, TableTypeOK
  <2> QED
    BY <1>1, <2>2, <2>3 DEF StaticData, Idle, LockTypeOK
<1>2. ASSUME Init
      PROVE  TypeOK
  <2>1. sys_call_table \in [Sysc -> Handler \cup {"none"}]
    BY <1>2 DEF Init, Handler
  <2>2. orig \in [{Custom, ExitGroup} -> Handler \cup {"none"}]
    BY <1>2 DEF Init
  <2>3. ready \in [Sysc -> BOOLEAN] /\ PcTypeOK
    BY <1>2 DEF Init, PcTypeOK, Actor, ProcLabels, LoaderLabels
  <2> QED
    BY <1>1, <1>2, <2>1, <2>2, <2>3 DEF Init, TypeOK, KernelTypeOK
<1>3. ASSUME LoadedInit
      PROVE  TypeOK
  <2>1. sys_call_table \in [Sysc -> Handler \cup {"none"}]
    BY <1>3 DEF LoadedInit, Handler
  <2>2. orig \in [{Custom, ExitGroup} -> Handler \cup {"none"}]
    BY <1>3 DEF LoadedInit, Handler
  <2>3. ready \in [Sysc -> BOOLEAN] /\ PcTypeOK
    BY <1>3 DEF LoadedInit, PcTypeOK, Actor, ProcLabels, LoaderLabels
  <2> QED
    BY <1>1, <1>3, <2>1, <2>2, <2>3 DEF LoadedInit, TypeOK, KernelTypeOK
<1> QED
  BY <1>2, <1>3

(* A step of the loaded module is a step of the whole system. *)
LEMMA ServiceStep == [ServiceNext]_vars => [Next]_vars
<1>1. ServiceNext => Next
  BY DEF ServiceNext, Next
<1> QED
  BY <1>1

(* Every variable of the module stays in its domain: from insmod to rmmod. *)
THEOREM TypeCorrect == Spec => []TypeOK
<1>1. Init => TypeOK
  BY InitType
<1> QED
  BY <1>1, NextType, PTL DEF Spec

(* And while the module is loaded. *)
THEOREM ServiceTypeCorrect == ServiceSpec => []TypeOK
<1>1. LoadedInit => TypeOK
  BY InitType
<1>2. TypeOK /\ [ServiceNext]_vars => TypeOK'
  BY NextType, ServiceStep
<1> QED
  BY <1>1, <1>2, PTL DEF ServiceSpec
-----------------------------------------------------------------------------
(* The two spinlocks.  TableProtection is not inductive as it stands:
   that a writer finds the page writable rests on the page being writable
   throughout the section, and on the section excluding the other actors. *)

Locking ==
    /\ LockDiscipline
    /\ \A a \in Actor : pc[a] \in SysHeld => writable
    /\ writable => sys_lock # NoOne

(* A step that leaves the locks alone. *)
Quiet(a, l, m) == Go(a, l, m) /\ UNCHANGED <<sys_lock, my_lock, writable>>

Held == SysHeld \cup MyHeld

LEMMA DisjointSections == SysHeld \cap MyHeld = {} /\ "oops" \notin Held /\ Writing \subseteq SysHeld
BY DEF SysHeld, MyHeld, Held, Writing

LEMMA LockingImplies == Locking => LockDiscipline /\ TableProtection
BY DisjointSections DEF Locking, TableProtection

LEMMA PcOfStep ==
    ASSUME PcTypeOK, NEW a \in Actor, NEW l, NEW m, Go(a, l, m)
    PROVE  /\ pc[a] = l /\ pc'[a] = m
           /\ \A b \in Actor : b # a => pc'[b] = pc[b]
BY DEF PcTypeOK, Go, At

(* A quiet step keeps the sections if it neither enters nor leaves one. *)
LEMMA QuietStep ==
    ASSUME TypeOK, Locking, NEW a \in Actor, NEW l, NEW m, Quiet(a, l, m), l # "oops",
           m \in SysHeld => l \in SysHeld, l \in SysHeld => m \in SysHeld \cup {"oops"},
           m \in MyHeld => l \in MyHeld, l \in MyHeld => m \in MyHeld \cup {"oops"}
    PROVE  Locking'
<1>1. /\ pc[a] = l /\ pc'[a] = m
      /\ \A b \in Actor : b # a => pc'[b] = pc[b]
  BY PcOfStep DEF TypeOK, Quiet
<1>3. LockDiscipline'
  <2> SUFFICES ASSUME NEW b \in Actor
               PROVE  /\ pc'[b] \in SysHeld => sys_lock' = b
                      /\ pc'[b] \in MyHeld => my_lock' = b
                      /\ sys_lock' = b => pc'[b] \in SysHeld \cup {"oops"}
                      /\ my_lock' = b => pc'[b] \in MyHeld \cup {"oops"}
    BY DEF LockDiscipline
  <2>1. CASE b = a
    BY <1>1, <2>1 DEF Locking, LockDiscipline, Quiet
  <2>2. CASE b # a
    BY <1>1, <2>2 DEF Locking, LockDiscipline, Quiet
  <2> QED
    BY <2>1, <2>2
<1>4. \A b \in Actor : pc'[b] \in SysHeld => pc[b] \in SysHeld
  BY <1>1
<1>5. writable' = writable /\ sys_lock' = sys_lock
  BY DEF Quiet
<1> QED
  BY <1>3, <1>4, <1>5, Zenon DEF Locking

-----------------------------------------------------------------------------
(* Entering and leaving the sections. *)

LEMMA SysLockStep ==
    ASSUME TypeOK, Locking, NEW a \in Actor, NEW l, NEW m,
           l \notin Held \cup {"oops"}, m \in SysHeld, LockSys(a, l, m)
    PROVE  Locking'
<1>1. /\ pc[a] = l /\ pc'[a] = m
      /\ \A b \in Actor : b # a => pc'[b] = pc[b]
  BY PcOfStep DEF TypeOK, LockSys
<1>2. /\ sys_lock = NoOne /\ sys_lock' = a /\ writable' = TRUE
      /\ my_lock' = my_lock /\ NoOne \notin Actor
  BY DEF LockSys
<1>3. m \notin MyHeld
  BY DisjointSections
<1>4. \A b \in Actor : pc[b] \notin SysHeld
  BY <1>2 DEF Locking, LockDiscipline
<1>5. LockDiscipline'
  BY <1>1, <1>2, <1>3, <1>4 DEF Locking, LockDiscipline, Held
<1> QED
  BY <1>1, <1>2, <1>4, <1>5 DEF Locking

LEMMA SysUnlockStep ==
    ASSUME TypeOK, Locking, NEW a \in Actor, NEW l, NEW m,
           l \in SysHeld, m \notin Held \cup {"oops"}, UnlockSys(a, l, m)
    PROVE  Locking'
<1>1. /\ pc[a] = l /\ pc'[a] = m
      /\ \A b \in Actor : b # a => pc'[b] = pc[b]
  BY PcOfStep DEF TypeOK, UnlockSys
<1>2. /\ sys_lock' = NoOne /\ writable' = FALSE
      /\ my_lock' = my_lock /\ NoOne \notin Actor
  BY DEF UnlockSys
<1>3. l \notin MyHeld /\ l # "oops"
  BY DisjointSections DEF Held
<1>4. \A b \in Actor : b # a => pc[b] \notin SysHeld
  BY <1>1 DEF Locking, LockDiscipline
<1>5. LockDiscipline'
  BY <1>1, <1>2, <1>3, <1>4 DEF Locking, LockDiscipline, Held
<1> QED
  BY <1>1, <1>2, <1>4, <1>5 DEF Locking, Held

LEMMA MyLockStep ==
    ASSUME TypeOK, Locking, NEW a \in Actor, NEW l, NEW m,
           l \notin Held \cup {"oops"}, m \in MyHeld, LockMy(a, l, m)
    PROVE  Locking'
<1>1. /\ pc[a] = l /\ pc'[a] = m
      /\ \A b \in Actor : b # a => pc'[b] = pc[b]
  BY PcOfStep DEF TypeOK, LockMy
<1>2. /\ my_lock = NoOne /\ my_lock' = a
      /\ sys_lock' = sys_lock /\ writable' = writable /\ NoOne \notin Actor
  BY DEF LockMy, kernelVars
<1>3. m \notin SysHeld
  BY DisjointSections
<1>4. \A b \in Actor : pc[b] \notin MyHeld
  BY <1>2 DEF Locking, LockDiscipline
<1>5. LockDiscipline'
  BY <1>1, <1>2, <1>3, <1>4 DEF Locking, LockDiscipline, Held
<1> QED
  BY <1>1, <1>2, <1>3, <1>5 DEF Locking

LEMMA MyUnlockStep ==
    ASSUME TypeOK, Locking, NEW a \in Actor, NEW l, NEW m,
           l \in MyHeld, m \notin Held \cup {"oops"}, UnlockMy(a, l, m)
    PROVE  Locking'
<1>1. /\ pc[a] = l /\ pc'[a] = m
      /\ \A b \in Actor : b # a => pc'[b] = pc[b]
  BY PcOfStep DEF TypeOK, UnlockMy
<1>2. /\ my_lock' = NoOne
      /\ sys_lock' = sys_lock /\ writable' = writable /\ NoOne \notin Actor
  BY DEF UnlockMy, kernelVars
<1>3. l \notin SysHeld /\ l # "oops"
  BY DisjointSections DEF Held
<1>4. \A b \in Actor : b # a => pc[b] \notin MyHeld
  BY <1>1 DEF Locking, LockDiscipline
<1>5. LockDiscipline'
  BY <1>1, <1>2, <1>3, <1>4 DEF Locking, LockDiscipline, Held
<1> QED
  BY <1>1, <1>2, <1>5 DEF Locking, Held
-----------------------------------------------------------------------------
(* Every action is a quiet step that stays inside or outside the sections, or
   one of the four lock steps. *)

Outside(p)   == \E l, m : Quiet(p, l, m) /\ l \notin Held \cup {"oops"} /\ m \notin Held
WithinSys(p) == \E l, m : Quiet(p, l, m) /\ l \in SysHeld /\ m \in SysHeld
WithinMy(p)  == \E l, m : Quiet(p, l, m) /\ l \in MyHeld /\ m \in MyHeld \cup {"oops"}

LEMMA OutsideOrWithin ==
    ASSUME TypeOK, Locking, NEW a \in Actor, Outside(a) \/ WithinSys(a) \/ WithinMy(a)
    PROVE  Locking'
<1>1. CASE Outside(a)
  BY <1>1, QuietStep DEF Outside, Held
<1>2. CASE WithinSys(a)
  BY <1>2, QuietStep, DisjointSections DEF WithinSys, Held
<1>3. CASE WithinMy(a)
  BY <1>3, QuietStep, DisjointSections DEF WithinMy, Held
<1> QED
  BY <1>1, <1>2, <1>3

LEMMA QuietForms ==
    ASSUME NEW a, NEW l, NEW m,
           \/ Jump(a, l, m)
           \/ \E c : JumpWith(a, l, m, c)
           \/ \E c : Begin(a, l, m, c)
           \/ l = "owner" /\ m = "command" /\ PassOwner(a)
           \/ l = "dead" /\ m = "user" /\ ReusePid(a)
    PROVE  Quiet(a, l, m)
BY DEF Jump, JumpWith, Begin, PassOwner, ReusePid, Quiet, kernelVars, lockVars

LEMMA ScanLocks ==
    ASSUME NEW p, NEW l, NEW hit, NEW miss, NEW c, Scan(p, l, hit, miss, c),
           {l, hit, miss} \cap (Held \cup {"oops"}) = {}
    PROVE  Outside(p)
<1>1. CASE Fault(p, l)
  BY <1>1, QuietForms, DisjointSections DEF Fault, Outside
<1>2. CASE ~Fault(p, l)
  <2>1. PICK found \in BOOLEAN : Go(p, l, IF found THEN hit ELSE miss)
    BY <1>2 DEF Scan
  <2>2. Quiet(p, l, IF found THEN hit ELSE miss)
    BY <1>2, <2>1 DEF Scan, Quiet, kernelVars, lockVars
  <2> QED
    BY <2>2 DEF Outside
<1> QED
  BY <1>1, <1>2

LEMMA EntryLocks ==
    ASSUME NEW p \in Proc,
           \/ EntryInvalid(p) \/ EntryRoot(p) \/ EntryUser(p) \/ CheckPid(p)
           \/ CheckOwner(p) \/ CommandDone(p) \/ StartRead(p) \/ StopRead(p)
           \/ InterceptorCall(p) \/ Leave(p, "return", "user")
    PROVE  Outside(p)
<1> DEFINE Out == {"entry", "pid", "owner", "command", "return", "user", "dead", "oops",
                   "i_lock", "r_lock", "scan", "first_lock", "clear_lock", "del_lock",
                   "icp", "icp_call", "exit_lock"}
<1>1. Out \cap Held = {}
  BY DEF Held, SysHeld, MyHeld
<1>2. ASSUME NEW l \in Out \ {"oops"}, NEW m \in Out,
             \/ Jump(p, l, m) \/ Fault(p, l) \/ Leave(p, l, m)
             \/ \E c : JumpWith(p, l, m, c) \/ Return(p, l, c)
      PROVE  Outside(p)
  <2>1. CASE Jump(p, l, m)
    <3>1. Quiet(p, l, m)
      BY <2>1, QuietForms
    <3> QED
      BY <1>1, <3>1, DisjointSections DEF Outside
  <2>2. CASE Fault(p, l)
    <3>1. Quiet(p, l, "oops")
      BY <2>2, QuietForms DEF Fault
    <3> QED
      BY <1>1, <3>1, DisjointSections DEF Outside
  <2>3. CASE Leave(p, l, m)
    <3>1. Quiet(p, l, m)
      BY <2>3, QuietForms DEF Leave
    <3> QED
      BY <1>1, <3>1, DisjointSections DEF Outside
  <2>4. CASE \E c : JumpWith(p, l, m, c)
    <3>1. Quiet(p, l, m)
      BY <2>4, QuietForms
    <3> QED
      BY <1>1, <3>1, DisjointSections DEF Outside
  <2>5. CASE \E c : Return(p, l, c)
    <3>1. Quiet(p, l, "return")
      BY <2>5, QuietForms DEF Return
    <3> QED
      BY <1>1, <3>1, DisjointSections DEF Outside
  <2> QED
    BY <1>2, <2>1, <2>2, <2>3, <2>4, <2>5
<1>3. CASE EntryInvalid(p) \/ EntryRoot(p) \/ EntryUser(p)
  BY <1>3, <1>2 DEF EntryInvalid, EntryRoot, EntryUser
<1>7. ASSUME PassOwner(p)
      PROVE  Outside(p)
  <2>1. Quiet(p, "owner", "command")
    BY <1>7, QuietForms
  <2> QED
    BY <1>1, <2>1, DisjointSections DEF Outside
<1>4. CASE CheckPid(p) \/ CheckOwner(p) \/ CommandDone(p)
  BY <1>4, <1>2, <1>7 DEF CheckPid, CheckOwner, CommandDone
<1>5. CASE StartRead(p) \/ StopRead(p)
  BY <1>5, <1>2 DEF StartRead, StopRead
<1>6. CASE InterceptorCall(p) \/ Leave(p, "return", "user")
  BY <1>6, <1>2 DEF InterceptorCall
<1> QED
  BY <1>3, <1>4, <1>5, <1>6

LEMMA TableCommandLocks ==
    ASSUME TypeOK, Locking, NEW p \in Proc, InterceptCommand(p) \/ ReleaseCommand(p)
    PROVE  Locking'
<1> p \in Actor
  BY DEF Actor
<1>1. CASE LockSys(p, "i_lock", "i_save") \/ LockSys(p, "r_lock", "r_set")
  BY <1>1, SysLockStep DEF Held, SysHeld, MyHeld
<1>2. CASE UnlockSys(p, "i_unlock", "i_flag") \/ UnlockSys(p, "r_unlock", "r_flag")
  BY <1>2, SysUnlockStep DEF Held, SysHeld, MyHeld
<1>3. CASE SaveOriginal(p)
  <2>1. Quiet(p, "i_save", "i_set")
    BY <1>3 DEF SaveOriginal, Quiet, kernelVars, lockVars
  <2> QED
    BY <2>1, OutsideOrWithin DEF WithinSys, SysHeld
<1>4. CASE \/ SetHandler(p, "i_set", "i_unlock", "interceptor")
           \/ SetHandler(p, "r_set", "r_unlock", f[S(p)])
  <2>1. Quiet(p, "i_set", "i_unlock") \/ Quiet(p, "r_set", "r_unlock")
    BY <1>4 DEF SetHandler, Quiet, lockVars
  <2> QED
    BY <2>1, OutsideOrWithin DEF WithinSys, SysHeld
<1>5. CASE SetFlag(p, "i_flag", TRUE) \/ SetFlag(p, "r_flag", FALSE)
  <2>1. Quiet(p, "i_flag", "pid") \/ Quiet(p, "r_flag", "pid")
    BY <1>5 DEF SetFlag, Quiet, kernelVars, lockVars
  <2> QED
    BY <2>1, OutsideOrWithin DEF Outside, Held, SysHeld, MyHeld
<1> QED
  BY <1>1, <1>2, <1>3, <1>4, <1>5 DEF InterceptCommand, ReleaseCommand

LEMMA MonitorCommandLocks ==
    ASSUME TypeOK, Locking, NEW p \in Proc, StartCommand(p) \/ StopCommand(p)
    PROVE  Locking'
<1> p \in Actor
  BY DEF Actor
<1>1. CASE \/ LockMy(p, "add_lock", "add") \/ LockMy(p, "first_lock", "first")
           \/ LockMy(p, "del_lock", "del") \/ LockMy(p, "clear_lock", "clear")
  BY <1>1, MyLockStep DEF Held, SysHeld, MyHeld
<1>2. CASE StartRead(p) \/ StopRead(p)
  BY <1>2, EntryLocks, OutsideOrWithin
<1>3. CASE Scan(p, "scan", "return", "add_lock", "EBUSY")
  BY <1>3, ScanLocks, OutsideOrWithin DEF Held, SysHeld, MyHeld
<1>4. ASSUME NEW v, SetMonitored(p, "first", "add", v) \/ SetMonitored(p, "clear", "destroy", v)
      PROVE  WithinMy(p)
  <2>1. Quiet(p, "first", "add") \/ Quiet(p, "clear", "destroy")
    BY <1>4 DEF SetMonitored, Quiet, kernelVars, lockVars
  <2> QED
    BY <2>1 DEF WithinMy, MyHeld
<1>5. ASSUME NEW l \in {"add", "asleep", "del", "destroy"},
             \/ Fault(p, l)
             \/ \E c : JumpWith(p, l, "unlock", c)
             \/ Go(p, l, "unlock") /\ UNCHANGED <<kernelVars, lockVars>>
      PROVE  WithinMy(p)
  <2>1. Quiet(p, l, "oops") \/ Quiet(p, l, "unlock")
    BY <1>5, QuietForms DEF Fault, Quiet, kernelVars, lockVars
  <2> QED
    BY <2>1 DEF WithinMy, MyHeld
<1>9. ASSUME Jump(p, "add", "asleep")
      PROVE  WithinMy(p)
  <2>1. Quiet(p, "add", "asleep")
    BY <1>9, QuietForms
  <2> QED
    BY <2>1 DEF WithinMy, MyHeld
<1>6. CASE StartAdd(p)
  <2>1. ASSUME NEW l \in {"add", "asleep"}, Adds(p, l)
        PROVE  WithinMy(p)
    BY <2>1, <1>5 DEF Adds
  <2> QED
    BY <1>6, <1>9, <2>1, OutsideOrWithin DEF StartAdd
<1>7. CASE StopDelete(p)
  BY <1>7, <1>5, OutsideOrWithin DEF StopDelete
<1>8. CASE StopDestroy(p)
  BY <1>8, <1>5, OutsideOrWithin DEF StopDestroy
<1> QED
  BY <1>1, <1>2, <1>3, <1>4, <1>6, <1>7, <1>8, OutsideOrWithin DEF StartCommand, StopCommand

LEMMA OtherCallsLocks ==
    ASSUME TypeOK, Locking, NEW p \in Proc, Enter(p) \/ InterceptorRun(p) \/ MyExitGroup(p)
    PROVE  Locking'
<1> p \in Actor
  BY DEF Actor
<1>1. CASE Enter(p)
  <2>1. \/ Quiet(p, "user", "entry") \/ Quiet(p, "user", "icp") \/ Quiet(p, "user", "oops")
        \/ Quiet(p, "user", "exit_lock") \/ Quiet(p, "user", "dead") \/ Quiet(p, "dead", "user")
    BY <1>1, QuietForms
       DEF Enter, CallMySyscall, CallIntercepted, CallFreedText, CallExitGroup, Fault
  <2> QED
    BY <2>1, OutsideOrWithin DEF Outside, Held, SysHeld, MyHeld
<1>2. CASE InterceptorRun(p)
  BY <1>2, ScanLocks, EntryLocks, OutsideOrWithin DEF InterceptorRun, Held, SysHeld, MyHeld
<1>3. CASE ExitDelPid(p)
  <2>1. Quiet(p, "exit_del", "oops") \/ Quiet(p, "exit_del", "exit_unlock")
    BY <1>3, QuietForms DEF ExitDelPid, Fault, Quiet, kernelVars, lockVars
  <2> QED
    BY <2>1, OutsideOrWithin DEF WithinMy, MyHeld
<1>4. CASE LockMy(p, "exit_lock", "exit_del")
  BY <1>4, MyLockStep DEF Held, SysHeld, MyHeld
<1>5. CASE UnlockMy(p, "exit_unlock", "exit_orig")
  BY <1>5, MyUnlockStep DEF Held, SysHeld, MyHeld
<1>6. CASE Jump(p, "exit_orig", "dead")
  BY <1>6, QuietForms, OutsideOrWithin DEF Outside, Held, SysHeld, MyHeld
<1> QED
  BY <1>1, <1>2, <1>3, <1>4, <1>5, <1>6 DEF MyExitGroup
(* The loader: insmod, rmmod, and the freeing of the text under its users. *)
LEMMA LoopLocks ==
    ASSUME TypeOK, Locking, NEW l \in {"ins_table", "rm_table"}, NEW out \in {"live", "gone"},
           NextEntry(l, out)
    PROVE  Locking'
<1> Loader \in Actor /\ NoOne \notin Actor
  BY DEF Actor
<1>1. UNCHANGED <<sys_lock, my_lock, writable>> /\ my_lock = NoOne
  BY DEF NextEntry, kernelVars, lockVars
<1>2. ASSUME NEW a \in Actor
      PROVE  \/ pc'[a] = pc[a]
             \/ pc'[a] = "oops"
             \/ a = Loader /\ pc[a] = l /\ pc'[a] = out
  BY DEF NextEntry, TypeOK, PcTypeOK
<1>3. {l, out} \cap (Held \cup {"oops"}) = {}
  BY DEF Held, SysHeld, MyHeld
<1>4. LockDiscipline'
  BY <1>1, <1>2, <1>3, DisjointSections DEF Locking, LockDiscipline, Held
<1>5. \A a \in Actor : pc'[a] \in SysHeld => pc[a] \in SysHeld
  BY <1>2, <1>3, DisjointSections DEF Held
<1> QED
  BY <1>1, <1>4, <1>5 DEF Locking

LEMMA LoaderLocks ==
    ASSUME TypeOK, Locking, InitFunction \/ ExitFunction
    PROVE  Locking'
<1> Loader \in Actor
  BY DEF Actor
<1>1. CASE LockSys(Loader, "absent", "ins_custom") \/ LockSys(Loader, "live", "rm_custom")
  BY <1>1, SysLockStep DEF Held, SysHeld, MyHeld
<1>2. CASE UnlockSys(Loader, "ins_unlock", "ins_table") \/ UnlockSys(Loader, "rm_unlock", "rm_table")
  BY <1>2, SysUnlockStep DEF Held, SysHeld, MyHeld
<1>3. CASE \/ Hijack("ins_custom", "ins_exit", Custom, "my_syscall")
           \/ Hijack("ins_exit", "ins_unlock", ExitGroup, "my_exit_group")
  <2>1. Quiet(Loader, "ins_custom", "ins_exit") \/ Quiet(Loader, "ins_exit", "ins_unlock")
    BY <1>3 DEF Hijack, Quiet, lockVars
  <2> QED
    BY <2>1, OutsideOrWithin DEF WithinSys, SysHeld
<1>4. CASE Restore("rm_custom", "rm_exit", Custom) \/ Restore("rm_exit", "rm_unlock", ExitGroup)
  <2>1. Quiet(Loader, "rm_custom", "rm_exit") \/ Quiet(Loader, "rm_exit", "rm_unlock")
    BY <1>4 DEF Restore, Quiet, lockVars
  <2> QED
    BY <2>1, OutsideOrWithin DEF WithinSys, SysHeld
<1>5. CASE InitEntry \/ DestroyEntry
  BY <1>5, LoopLocks DEF InitEntry, DestroyEntry
<1> QED
  BY <1>1, <1>2, <1>3, <1>4, <1>5 DEF InitFunction, ExitFunction

LEMMA InitLocks == Init \/ LoadedInit => Locking
<1>1. NoOne \notin Actor
  OBVIOUS
<1>2. ASSUME Init \/ LoadedInit, NEW a \in Actor
      PROVE  pc[a] \in {"absent", "live", "user"}
  BY <1>2 DEF Init, LoadedInit
<1> QED
  BY <1>1, <1>2 DEF Init, LoadedInit, StaticData, Idle, Locking, LockDiscipline,
                    SysHeld, MyHeld

LEMMA NextLocks == TypeOK /\ Locking /\ [Next]_vars => Locking'
<1> SUFFICES ASSUME TypeOK, Locking, [Next]_vars PROVE Locking'
  OBVIOUS
<1>1. CASE UNCHANGED vars
  BY <1>1 DEF vars, kernelVars, lockVars, Locking, LockDiscipline
<1>2. ASSUME NEW p \in Proc, MySyscall(p)
      PROVE  Locking'
  <2> p \in Actor
    BY DEF Actor
  <2>1. CASE UnlockMy(p, "unlock", "return")
    BY <2>1, MyUnlockStep DEF Held, SysHeld, MyHeld
  <2> QED
    BY <1>2, <2>1, EntryLocks, OutsideOrWithin, TableCommandLocks, MonitorCommandLocks
       DEF MySyscall
<1>3. ASSUME NEW p \in Proc, ProcNext(p)
      PROVE  Locking'
  BY <1>2, <1>3, OtherCallsLocks DEF ProcNext, Run
<1> QED
  BY <1>1, <1>3, LoaderLocks DEF Next

LEMMA SpecLocking == Spec => []Locking
<1>1. Init => Locking
  BY InitLocks
<1>2. TypeOK /\ Locking /\ [Next]_vars => Locking'
  BY NextLocks
<1> QED
  BY <1>1, <1>2, TypeCorrect, PTL DEF Spec

LEMMA ServiceLocking == ServiceSpec => []Locking
<1>1. LoadedInit => Locking
  BY InitLocks
<1>2. TypeOK /\ Locking /\ [Next]_vars => Locking'
  BY NextLocks
<1> QED
  BY <1>1, <1>2, ServiceStep, ServiceTypeCorrect, PTL DEF ServiceSpec

(* Mutual exclusion: code written to run under a spinlock runs only in its
   holder, and every return path of my_syscall, my_exit_group, init_function
   and exit_function has dropped what it took (interceptor.c:82-83, 348-350). *)
THEOREM LocksCorrect == Spec => []LockDiscipline
  BY SpecLocking, LockingImplies, PTL

(* The same while the module is loaded. *)
THEOREM ServiceLocksCorrect == ServiceSpec => []LockDiscipline
  BY ServiceLocking, LockingImplies, PTL

(* No write to sys_call_table meets a read-only page, and the page is writable
   only while its lock is held (interceptor.c:342-344). *)
THEOREM TableProtected == Spec => []TableProtection
  BY SpecLocking, LockingImplies, PTL

-----------------------------------------------------------------------------
(* A call that is past the first check of my_syscall has a valid number, in
   every step of it: what the list and table operations index with. *)

Unchecked == {"user", "dead", "oops", "return", "entry",
              "icp", "icp_call", "exit_lock", "exit_del", "exit_unlock", "exit_orig"}

CallChecked == \A p \in Proc : pc[p] \notin Unchecked => ValidSysc(p)

(* init_function initialises each list head once. *)
Inserting     == {"absent", "ins_custom", "ins_exit", "ins_unlock", "ins_table"}
Uninitialised == pc[Loader] \in Inserting => \A s \in Sysc : s >= idx => ~ready[s]

(* The inductive invariant of the lists.  Without the first conjunct a node
   could be counted in a list it is not in; without the last two,
   init_function could lose the nodes of a list that it initialises late. *)
Lists ==
    /\ CallChecked
    /\ NodesAccounted
    /\ CountMatchesList
    /\ \A s \in Sysc : ~ready[s] => my_list[s] = {}
    /\ Uninitialised

(* The inductive invariant of the handlers. *)
Past(labels) == \A p \in Proc : pc[p] \in labels => f[S(p)] # "none"

Handlers ==
    /\ CallChecked
    /\ SavedBeforeReplaced
    /\ \A s \in Sysc : intercepted[s] => f[s] # "none"
    /\ Past({"i_set", "i_unlock", "i_flag", "r_lock", "r_set"})
    /\ \A s \in {Custom, ExitGroup} : orig[s] = "interceptor" => f[s] # "none"
    /\ pc[Loader] \notin {"absent", "ins_custom"} => orig[Custom] # "none"
    /\ pc[Loader] \notin {"absent", "ins_custom", "ins_exit"} => orig[ExitGroup] # "none"
-----------------------------------------------------------------------------
(* Steps of a process that change neither the tables nor the lists. *)

Routing == {"i_set", "i_unlock", "i_flag", "r_lock", "r_set"}

(* The labels that something must hold at. *)
Marked == Routing \cup {"exit_unlock"}

(* The call after a step of p to label m is the one before it, and was checked
   if m needs it; or it is another one and m does not need it. *)
CallStep(p, l, m) ==
    \/ call' = call /\ (m \notin Unchecked => l \notin Unchecked \/ ValidSysc(p))
    \/ m \in Unchecked /\ \E c : call' = [call EXCEPT ![p] = c]

RouteStep(p, l, m) ==
    m \in Routing => /\ call' = call
                     /\ l \in Routing \/ (ValidSysc(p) /\ intercepted[S(p)])

ListQuiet(p) ==
    \E l, m : /\ Go(p, l, m) /\ CallStep(p, l, m) /\ m # "exit_unlock"
              /\ UNCHANGED <<listVars, idx>>

RouteQuiet(p) ==
    \E l, m : /\ Go(p, l, m) /\ CallStep(p, l, m) /\ RouteStep(p, l, m)
              /\ UNCHANGED <<sys_call_table, orig, f, intercepted>>

Walk(p) == ListQuiet(p) /\ RouteQuiet(p)

LEMMA PcAfter ==
    ASSUME TypeOK, NEW a \in Actor, NEW l, NEW m, Go(a, l, m)
    PROVE  /\ pc[a] = l /\ pc'[a] = m
           /\ \A b \in Actor : b # a => pc'[b] = pc[b]
BY DEF TypeOK, PcTypeOK, Go, At

LEMMA CheckedStep ==
    ASSUME TypeOK, CallChecked, NEW p \in Proc, NEW l, NEW m, Go(p, l, m), CallStep(p, l, m)
    PROVE  CallChecked'
<1> SUFFICES ASSUME NEW q \in Proc, pc'[q] \notin Unchecked
             PROVE  ValidSysc(q)'
  BY DEF CallChecked
<1>1. /\ pc[p] = l /\ pc'[p] = m
      /\ \A b \in Proc : b # p => pc'[b] = pc[b]
  BY PcAfter DEF Actor
<1>2. CASE q = p
  BY <1>1, <1>2 DEF CallChecked, CallStep, ValidSysc, S
<1>3. CASE q # p
  <2>1. call'[q] = call[q]
    BY <1>3 DEF CallStep, TypeOK, CallTypeOK
  <2>2. ValidSysc(q)
    BY <1>1, <1>3 DEF CallChecked
  <2> QED
    BY <2>1, <2>2 DEF ValidSysc, S
<1> QED
  BY <1>2, <1>3

LEMMA UninitialisedStep ==
    ASSUME TypeOK, Uninitialised, NEW p \in Proc, NEW l, NEW m, Go(p, l, m),
           UNCHANGED <<ready, idx>>
    PROVE  Uninitialised'
<1>1. pc'[Loader] = pc[Loader]
  BY PcAfter DEF Actor
<1> QED
  BY <1>1 DEF Uninitialised

LEMMA WalkLists ==
    ASSUME TypeOK, Lists, NEW p \in Proc, ListQuiet(p)
    PROVE  Lists'
<1>1. CallChecked'
  BY CheckedStep DEF ListQuiet, Lists
<1>2. UNCHANGED <<listcount, my_list, ready, pidOf>>
  BY DEF ListQuiet, listVars
<1>3. Uninitialised'
  BY UninitialisedStep DEF ListQuiet, listVars, Lists
<1> QED
  BY <1>1, <1>2, <1>3 DEF Lists, NodesAccounted, CountMatchesList

LEMMA WalkHandlers ==
    ASSUME TypeOK, Handlers, NEW p \in Proc, RouteQuiet(p)
    PROVE  Handlers'
<1>1. PICK l, m : /\ Go(p, l, m) /\ CallStep(p, l, m) /\ RouteStep(p, l, m)
                  /\ UNCHANGED <<sys_call_table, orig, f, intercepted>>
  BY DEF RouteQuiet
<1>2. CallChecked'
  BY <1>1, CheckedStep DEF Handlers
<1>3. UNCHANGED <<sys_call_table, orig, f, intercepted>>
  BY <1>1
<1>4. /\ pc[p] = l /\ pc'[p] = m
      /\ \A b \in Actor : b # p => pc'[b] = pc[b]
  BY <1>1, PcAfter DEF Actor
<1>5. ASSUME NEW q \in Proc, pc'[q] \in Routing
      PROVE  f[S(q)'] # "none"
  <2>1. CASE q = p
    <3>0. m \in Routing /\ RouteStep(p, l, m)
      BY <1>1, <1>4, <1>5, <2>1
    <3>1. call' = call /\ (l \in Routing \/ (ValidSysc(p) /\ intercepted[S(p)]))
      BY <3>0 DEF RouteStep
    <3>2. f[S(p)] # "none"
      BY <1>4, <3>1 DEF Handlers, Past, Routing, ValidSysc
    <3> QED
      BY <2>1, <3>1, <3>2 DEF S
  <2>2. CASE q # p
    <3>1. call'[q] = call[q]
      BY <1>1, <2>2 DEF CallStep, TypeOK, CallTypeOK
    <3>2. f[S(q)] # "none"
      BY <1>4, <1>5, <2>2 DEF Handlers, Past, Routing, Actor
    <3> QED
      BY <3>1, <3>2 DEF S
  <2> QED
    BY <2>1, <2>2
<1>6. pc'[Loader] = pc[Loader]
  BY <1>4 DEF Actor
<1> QED
  BY <1>2, <1>3, <1>5, <1>6 DEF Handlers, SavedBeforeReplaced, Past, Routing

LEMMA ScanWalk ==
    ASSUME NEW p, NEW l, NEW hit, NEW miss, NEW c, Scan(p, l, hit, miss, c),
           {hit, miss} \cap Marked = {},
           l \in Unchecked => {hit, miss} \subseteq Unchecked
    PROVE  Walk(p)
<1>1. CASE Fault(p, l)
  BY <1>1 DEF Fault, Jump, Walk, ListQuiet, RouteQuiet, CallStep, RouteStep, Unchecked, Marked, Routing, kernelVars, tableVars, listVars, callVars
<1>2. CASE ~Fault(p, l)
  <2>1. PICK found \in BOOLEAN : Go(p, l, IF found THEN hit ELSE miss)
    BY <1>2 DEF Scan
  <2>2. UNCHANGED <<sys_call_table, orig, tableVars, call, idx>>
    BY <1>2 DEF Scan, kernelVars
  <2> QED
    BY <2>1, <2>2 DEF Walk, ListQuiet, RouteQuiet, CallStep, RouteStep, Marked, tableVars, listVars
<1> QED
  BY <1>1, <1>2

LEMMA MoveWalk ==
    ASSUME NEW p, NEW l, NEW m, m \notin Marked,
           m \notin Unchecked => l \notin Unchecked \/ ValidSysc(p),
           \/ Jump(p, l, m) \/ \E c : JumpWith(p, l, m, c)
           \/ l = "owner" /\ m = "command" /\ PassOwner(p)
           \/ l = "dead" /\ m = "user" /\ ReusePid(p)
    PROVE  Walk(p)
BY DEF Jump, JumpWith, PassOwner, ReusePid, Walk, ListQuiet, RouteQuiet, CallStep, RouteStep, Marked, kernelVars, tableVars, listVars, callVars

(* The steps of a list operation that change no list. *)
LEMMA FailWalk ==
    ASSUME NEW p, NEW l \in {"add", "asleep", "del", "destroy", "exit_del"},
           Fault(p, l) \/ (l # "exit_del" /\ \E c : JumpWith(p, l, "unlock", c))
    PROVE  Walk(p)
<1>1. CASE Fault(p, l)
  BY <1>1, MoveWalk DEF Fault, Unchecked, Marked, Routing
<1>2. CASE l # "exit_del" /\ \E c : JumpWith(p, l, "unlock", c)
  <2>1. l \notin Unchecked /\ "unlock" \notin Marked
    BY <1>2 DEF Unchecked, Marked, Routing
  <2> QED
    BY <1>2, <2>1, MoveWalk
<1> QED
  BY <1>1, <1>2

LEMMA BeginWalk ==
    ASSUME NEW p, NEW l, NEW m \in Unchecked \ {"exit_unlock"}, NEW c, Begin(p, l, m, c)
    PROVE  Walk(p)
BY DEF Begin, Walk, ListQuiet, RouteQuiet, CallStep, RouteStep, Unchecked, Routing, kernelVars, tableVars, listVars

LEMMA EntryWalk ==
    ASSUME NEW p \in Proc,
           \/ EntryInvalid(p) \/ EntryRoot(p) \/ EntryUser(p) \/ CheckPid(p)
           \/ CheckOwner(p) \/ CommandDone(p) \/ StartRead(p) \/ StopRead(p)
           \/ InterceptorCall(p) \/ Leave(p, "return", "user")
    PROVE  Walk(p)
<1>1. ASSUME NEW l, \/ Fault(p, l) \/ \E c : Return(p, l, c)
      PROVE  Walk(p)
  <2>1. "oops" \in Unchecked \ Marked /\ "return" \in Unchecked \ Marked
    BY DEF Unchecked, Marked, Routing
  <2>2. Jump(p, l, "oops") \/ \E c : JumpWith(p, l, "return", c)
    BY <1>1 DEF Fault, Return
  <2> QED
    BY <2>1, <2>2, MoveWalk
<1>2. ASSUME NEW m \in Unchecked \ {"exit_unlock"}, NEW l, Leave(p, l, m)
      PROVE  Walk(p)
  BY <1>2, BeginWalk DEF Leave
<1>3. CASE Jump(p, "entry", "r_lock") /\ ValidSysc(p) /\ intercepted[S(p)]
  BY <1>3 DEF Jump, Walk, ListQuiet, RouteQuiet, CallStep, RouteStep, kernelVars, tableVars, listVars, callVars
<1>4. ASSUME NEW m \in {"i_lock", "pid"}, Jump(p, "entry", m), ValidSysc(p)
      PROVE  Walk(p)
  BY <1>4, MoveWalk DEF Marked, Routing
<1>5. CASE EntryInvalid(p) \/ EntryRoot(p) \/ EntryUser(p)
  BY <1>5, <1>1, <1>3, <1>4 DEF EntryInvalid, EntryRoot, EntryUser
<1>6. ASSUME NEW l \in {"pid", "owner", "command"}, NEW m, m \notin Marked, Jump(p, l, m)
      PROVE  Walk(p)
  BY <1>6, MoveWalk DEF Unchecked
<1>10. ASSUME PassOwner(p)
       PROVE  Walk(p)
  BY <1>10, MoveWalk DEF Unchecked, Marked, Routing
<1>7. CASE CheckPid(p) \/ CheckOwner(p) \/ CommandDone(p)
  BY <1>7, <1>1, <1>6, <1>10 DEF CheckPid, CheckOwner, CommandDone, Marked, Routing
<1>8. CASE StartRead(p) \/ StopRead(p)
  BY <1>8, <1>1, <1>6 DEF StartRead, StopRead, Marked, Routing
<1>9. CASE InterceptorCall(p)
  <2>1. CASE Jump(p, "icp_call", "icp")
    BY <2>1, MoveWalk DEF Unchecked, Marked, Routing
  <2> QED
    BY <1>9, <2>1, <1>1, <1>2 DEF InterceptorCall, Unchecked
<1> QED
  BY <1>2, <1>5, <1>7, <1>8, <1>9 DEF Unchecked

-----------------------------------------------------------------------------
(* Unlinking nodes: the lists stay consistent, and the counters follow if each
   goes down by the number of nodes its list loses. *)

LEMMA UnlinkNodes ==
    ASSUME TypeOK, NodesAccounted, NEW N, NEW L, Unlink(N, L)
    PROVE  /\ NodesAccounted'
           /\ \A s \in Sysc : my_list'[s] = my_list[s] \ N
<1>1. \A s \in Sysc : my_list'[s] = my_list[s] \ N
  BY DEF Unlink
<1>2. \A n \in Node : pidOf'[n] = IF n \in N THEN NoPid ELSE pidOf[n]
  BY DEF Unlink
<1> QED
  BY <1>1, <1>2 DEF NodesAccounted

LEMMA ListFinite ==
    ASSUME TypeOK, NEW s \in Sysc, NEW N
    PROVE  /\ IsFiniteSet(my_list[s])
           /\ IsFiniteSet(my_list[s] \cap N)
           /\ Cardinality(my_list[s] \ N) = Cardinality(my_list[s]) - Cardinality(my_list[s] \cap N)
           /\ Cardinality(my_list[s]) \in Nat /\ Cardinality(my_list[s] \cap N) \in Nat
<1>1. my_list[s] \subseteq Node
  BY DEF TypeOK, TableTypeOK
<1>2. IsFiniteSet(my_list[s])
  BY <1>1, FS_Subset
<1>3. IsFiniteSet(my_list[s] \cap N)
  BY <1>2, FS_Subset
<1>4. Cardinality(my_list[s] \ N) = Cardinality(my_list[s]) - Cardinality(my_list[s] \cap N)
  BY <1>2, FS_Difference
<1> QED
  BY <1>2, <1>3, <1>4, FS_CardinalityType

LEMMA CountAfterUnlink ==
    ASSUME TypeOK, NodesAccounted, CountMatchesList, NEW N, NEW L, Unlink(N, L),
           \A s \in Sysc : listcount'[s] = listcount[s] - Cardinality(my_list[s] \cap N)
    PROVE  CountMatchesList'
<1> SUFFICES ASSUME NEW s \in Sysc
             PROVE  listcount'[s] = Cardinality(my_list'[s])
  BY DEF CountMatchesList
<1>1. my_list'[s] = my_list[s] \ N
  BY UnlinkNodes
<1>2. listcount[s] = Cardinality(my_list[s])
  BY DEF CountMatchesList
<1> QED
  BY <1>1, <1>2, ListFinite

(* A step of p at label l that unlinks nodes. *)
LEMMA UnlinkStep ==
    ASSUME TypeOK, Lists, NEW p \in Proc, NEW l, NEW m \in {"unlock", "exit_unlock"},
           Go(p, l, m), CallStep(p, l, m),
           NEW N, NEW L, Unlink(N, L), UNCHANGED <<ready, idx>>,
           CountMatchesList'
    PROVE  Lists'
<1>1. CallChecked'
  BY CheckedStep DEF Lists
<1>2. NodesAccounted' /\ \A s \in Sysc : my_list'[s] = my_list[s] \ N
  BY UnlinkNodes DEF Lists
<1>3. \A s \in Sysc : ~ready'[s] => my_list'[s] = {}
  BY <1>2 DEF Lists
<1>4. Uninitialised'
  BY UninitialisedStep DEF Lists
<1> QED
  BY <1>1, <1>2, <1>3, <1>4 DEF Lists

LEMMA AddLists ==
    ASSUME TypeOK, Lists, NEW p \in Proc, NEW l \in {"add", "asleep"}, Adds(p, l)
    PROVE  Lists'
<1>1. CASE JumpWith(p, l, "unlock", "ENOMEM") \/ Fault(p, l)
  BY <1>1, FailWalk, WalkLists DEF Walk
<1>2. CASE ~(JumpWith(p, l, "unlock", "ENOMEM") \/ Fault(p, l))
  <2>1. PICK n \in Node : pidOf[n] = NoPid /\ AddPidSysc(n, call[p].pid, S(p))
    BY <1>2 DEF Adds
  <2>2. ready[S(p)] /\ Go(p, l, "unlock") /\ UNCHANGED <<ready, call, idx>>
    BY <1>2 DEF Adds, callVars
  <2>3. S(p) \in Sysc
    BY <2>2 DEF Lists, CallChecked, Go, At, Unchecked, ValidSysc
  <2>4. call[p].pid # NoPid
    BY DEF TypeOK, CallTypeOK
  <2>5. /\ \A s \in Sysc : my_list'[s] = IF s = S(p) THEN my_list[s] \cup {n} ELSE my_list[s]
        /\ \A k \in Node : pidOf'[k] = IF k = n THEN call[p].pid ELSE pidOf[k]
        /\ \A s \in Sysc : listcount'[s] = IF s = S(p) THEN listcount[s] + 1 ELSE listcount[s]
    BY <2>1, <2>3 DEF AddPidSysc, TypeOK, TableTypeOK
  <2>6. \A s \in Sysc : n \notin my_list[s]
    BY <2>1 DEF Lists, NodesAccounted
  <2>7. NodesAccounted'
    <3> SUFFICES ASSUME NEW k \in Node
                 PROVE  /\ pidOf'[k] # NoPid <=> \E s \in Sysc : k \in my_list'[s]
                        /\ \A s, t \in Sysc : k \in my_list'[s] /\ k \in my_list'[t] => s = t
      BY DEF NodesAccounted
    <3>1. CASE k = n
      <4>1. pidOf'[k] # NoPid /\ k \in my_list'[S(p)]
        BY <2>3, <2>4, <2>5, <3>1
      <4>2. \A s \in Sysc : k \in my_list'[s] => s = S(p)
        BY <2>5, <2>6, <3>1
      <4> QED
        BY <2>3, <4>1, <4>2
    <3>2. CASE k # n
      <4>1. pidOf'[k] = pidOf[k] /\ \A s \in Sysc : k \in my_list'[s] <=> k \in my_list[s]
        BY <2>5, <3>2
      <4> QED
        BY <4>1 DEF Lists, NodesAccounted
    <3> QED
      BY <3>1, <3>2
  <2>8. CountMatchesList'
    <3> SUFFICES ASSUME NEW s \in Sysc PROVE listcount'[s] = Cardinality(my_list'[s])
      BY DEF CountMatchesList
    <3>1. IsFiniteSet(my_list[s]) /\ listcount[s] = Cardinality(my_list[s])
      BY ListFinite DEF Lists, CountMatchesList
    <3>2. Cardinality(my_list[s] \cup {n}) = Cardinality(my_list[s]) + 1
      BY <2>6, <3>1, FS_AddElement
    <3> QED
      BY <2>5, <3>1, <3>2
  <2>9. \A s \in Sysc : ~ready'[s] => my_list'[s] = {}
    BY <2>2, <2>5 DEF Lists
  <2>10. CallChecked'
    BY <2>2, CheckedStep DEF CallStep, Unchecked, Lists
  <2>11. Uninitialised'
    BY <2>2, UninitialisedStep DEF Lists
  <2> QED
    BY <2>7, <2>8, <2>9, <2>10, <2>11 DEF Lists
<1> QED
  BY <1>1, <1>2
LEMMA DeleteLists ==
    ASSUME TypeOK, Lists, NEW p \in Proc, StopDelete(p)
    PROVE  Lists'
<1>1. CASE JumpWith(p, "del", "unlock", "ENOMEM") \/ Fault(p, "del")
  BY <1>1, FailWalk, WalkLists DEF Walk
<1>2. CASE ~(JumpWith(p, "del", "unlock", "ENOMEM") \/ Fault(p, "del"))
  <2>1. PICK n \in NodesOf(call[p].pid, S(p)) : DelPidSysc(n, S(p))
    BY <1>2 DEF StopDelete
  <2>2. Go(p, "del", "unlock") /\ UNCHANGED <<ready, call, idx>>
    BY <1>2 DEF StopDelete
  <2>3. S(p) \in Sysc
    BY <2>2 DEF Lists, CallChecked, Go, At, Unchecked, ValidSysc
  <2>4. /\ Unlink({n}, {S(p)})
        /\ \A s \in Sysc : listcount'[s] = IF s = S(p) THEN listcount[s] - 1 ELSE listcount[s]
    BY <2>1, <2>3 DEF DelPidSysc, TypeOK, TableTypeOK
  <2>5. n \in my_list[S(p)] /\ n \in Node
    BY <2>1, <2>3 DEF NodesOf, TypeOK, TableTypeOK
  <2>6. \A s \in Sysc : my_list[s] \cap {n} = IF s = S(p) THEN {n} ELSE {}
    BY <2>3, <2>5 DEF Lists, NodesAccounted
  <2>7. \A s \in Sysc : listcount'[s] = listcount[s] - Cardinality(my_list[s] \cap {n})
    <3>1. Cardinality({n}) = 1 /\ Cardinality({}) = 0
      BY FS_Singleton, FS_EmptySet
    <3>2. \A s \in Sysc : listcount[s] \in Int
      BY DEF TypeOK, TableTypeOK
    <3>3. ASSUME NEW s \in Sysc
          PROVE  listcount'[s] = listcount[s] - Cardinality(my_list[s] \cap {n})
      <4>1. CASE s = S(p)
        BY <2>4, <2>6, <3>1, <4>1
      <4>2. CASE s # S(p)
        <5>1. Cardinality(my_list[s] \cap {n}) = 0
          BY <2>6, <3>1, <4>2, Zenon
        <5> QED
          BY <2>4, <3>2, <4>2, <5>1
      <4> QED
        BY <4>1, <4>2
    <3> QED
      BY <3>3
  <2>8. CountMatchesList'
    BY <2>4, <2>7, CountAfterUnlink DEF Lists
  <2> QED
    BY <2>2, <2>4, <2>8, UnlinkStep DEF CallStep, Unchecked
<1> QED
  BY <1>1, <1>2

(* destroy_list empties list s and no other. *)
LEMMA DestroyCounts ==
    ASSUME TypeOK, Lists, NEW s \in Sysc, DestroyList(s)
    PROVE  /\ \E L : Unlink(my_list[s], L)
           /\ CountMatchesList'
<1>1. PICK L : Unlink(my_list[s], L)
  BY DEF DestroyList
<1>2. \A t \in Sysc : listcount'[t] = IF t = s THEN 0 ELSE listcount[t]
  BY DEF DestroyList, TypeOK, TableTypeOK
<1>3. \A t \in Sysc : my_list[t] \subseteq Node
  BY DEF TypeOK, TableTypeOK
<1>4. \A t \in Sysc : my_list[t] \cap my_list[s] = IF t = s THEN my_list[s] ELSE {}
  BY <1>3 DEF Lists, NodesAccounted
<1>5. \A t \in Sysc : listcount[t] = Cardinality(my_list[t]) /\ listcount[t] \in Int
  BY DEF Lists, CountMatchesList, TypeOK, TableTypeOK
<1>6. \A t \in Sysc : listcount'[t] = listcount[t] - Cardinality(my_list[t] \cap my_list[s])
  <2> SUFFICES ASSUME NEW t \in Sysc
               PROVE  listcount'[t] = listcount[t] - Cardinality(my_list[t] \cap my_list[s])
    OBVIOUS
  <2>1. CASE t = s
    <3>1. Cardinality(my_list[t] \cap my_list[s]) = Cardinality(my_list[t])
      BY <1>4, <2>1, Zenon
    <3> QED
      BY <1>2, <1>5, <2>1, <3>1
  <2>2. CASE t # s
    <3>1. Cardinality({}) = 0
      BY FS_EmptySet
    <3>2. Cardinality(my_list[t] \cap my_list[s]) = 0
      BY <1>4, <2>2, <3>1, Zenon
    <3> QED
      BY <1>2, <1>5, <2>2, <3>2
  <2> QED
    BY <2>1, <2>2
<1> QED
  BY <1>1, <1>6, CountAfterUnlink DEF Lists

LEMMA DestroyLists ==
    ASSUME TypeOK, Lists, NEW p \in Proc, StopDestroy(p)
    PROVE  Lists'
<1>1. CASE Fault(p, "destroy")
  BY <1>1, FailWalk, WalkLists DEF Walk
<1>2. CASE ~Fault(p, "destroy")
  <2>1. DestroyList(S(p)) /\ Go(p, "destroy", "unlock") /\ UNCHANGED <<ready, call, idx>>
    BY <1>2 DEF StopDestroy
  <2>2. S(p) \in Sysc
    BY <2>1 DEF Lists, CallChecked, Go, At, Unchecked, ValidSysc
  <2>3. CountMatchesList' /\ \E L : Unlink(my_list[S(p)], L)
    BY <2>1, <2>2, DestroyCounts
  <2> QED
    BY <2>1, <2>3, UnlinkStep DEF CallStep, Unchecked
<1> QED
  BY <1>1, <1>2

(* del_pid removes the pid from every list but list 0. *)
LEMMA ExitLists ==
    ASSUME TypeOK, Lists, NEW p \in Proc, ExitDelPid(p)
    PROVE  Lists'
<1>1. CASE Fault(p, "exit_del")
  BY <1>1, FailWalk, WalkLists DEF Walk
<1>2. CASE ~Fault(p, "exit_del")
  <2> DEFINE hit == {s \in 1 .. NR - 1 : NodesOf(p, s) # {}}
             N   == UNION {NodesOf(p, s) : s \in hit}
  <2>1. DelPid(p) /\ Go(p, "exit_del", "exit_unlock") /\ UNCHANGED <<ready, call, idx>>
    BY <1>2 DEF ExitDelPid
  <2>2. /\ Unlink(N, hit)
        /\ \A s \in Sysc : listcount'[s] = IF s \in hit THEN listcount[s] - Cardinality(NodesOf(p, s))
                                                        ELSE listcount[s]
    BY <2>1 DEF DelPid
  <2>3. hit \subseteq Sysc
    BY DEF Sysc
  <2>4. \A s \in Sysc : NodesOf(p, s) \subseteq my_list[s] /\ my_list[s] \subseteq Node
    BY DEF NodesOf, TypeOK, TableTypeOK
  <2>5. \A s \in Sysc : my_list[s] \cap N = IF s \in hit THEN NodesOf(p, s) ELSE {}
    BY <2>3, <2>4 DEF Lists, NodesAccounted
  <2>6. \A s \in Sysc : listcount'[s] = listcount[s] - Cardinality(my_list[s] \cap N)
    <3>1. Cardinality({}) = 0
      BY FS_EmptySet
    <3>2. \A s \in Sysc : listcount[s] \in Int
      BY DEF TypeOK, TableTypeOK
    <3>3. ASSUME NEW s \in Sysc
          PROVE  listcount'[s] = listcount[s] - Cardinality(my_list[s] \cap N)
      <4> HIDE DEF hit, N
      <4>1. CASE s \in hit
        <5>1. my_list[s] \cap N = NodesOf(p, s)
          BY <2>5, <4>1
        <5> QED
          BY <2>2, <4>1, <5>1
      <4>2. CASE s \notin hit
        <5>1. Cardinality(my_list[s] \cap N) = 0
          BY <2>5, <3>1, <4>2, Zenon
        <5> QED
          BY <2>2, <3>2, <4>2, <5>1
      <4> QED
        BY <4>1, <4>2
    <3> QED
      BY <3>3
  <2>7. CountMatchesList'
    BY <2>2, <2>6, CountAfterUnlink DEF Lists
  <2> QED
    BY <2>1, <2>2, <2>7, UnlinkStep DEF CallStep, Unchecked
<1> QED
  BY <1>1, <1>2
-----------------------------------------------------------------------------
(* The other steps of a process. *)

LEMMA LockWalk ==
    ASSUME NEW p, NEW l, NEW m,
           LockSys(p, l, m) \/ UnlockSys(p, l, m) \/ LockMy(p, l, m) \/ UnlockMy(p, l, m),
           m \in Routing => l \in Routing, m \notin Unchecked => l \notin Unchecked,
           m # "exit_unlock"
    PROVE  Walk(p)
<1>1. Go(p, l, m) /\ UNCHANGED <<sys_call_table, orig, tableVars, callVars>>
  BY DEF LockSys, UnlockSys, LockMy, UnlockMy, kernelVars
<1> QED
  BY <1>1 DEF Walk, ListQuiet, RouteQuiet, CallStep, RouteStep, tableVars, listVars, callVars

LEMMA TableCommandLists ==
    ASSUME TypeOK, NEW p \in Proc, InterceptCommand(p) \/ ReleaseCommand(p)
    PROVE  ListQuiet(p)
<1>1. CASE \/ LockSys(p, "i_lock", "i_save") \/ LockSys(p, "r_lock", "r_set")
           \/ UnlockSys(p, "i_unlock", "i_flag") \/ UnlockSys(p, "r_unlock", "r_flag")
  BY <1>1, LockWalk DEF Walk, Unchecked, Routing
<1>2. ASSUME NEW l, NEW m, l \notin Unchecked, m # "exit_unlock", Go(p, l, m),
             UNCHANGED <<listVars, callVars>>
      PROVE  ListQuiet(p)
  BY <1>2 DEF ListQuiet, CallStep, callVars
<1>3. CASE SaveOriginal(p)
  BY <1>2, <1>3 DEF SaveOriginal, Unchecked
<1>4. CASE \/ SetHandler(p, "i_set", "i_unlock", "interceptor")
           \/ SetHandler(p, "r_set", "r_unlock", f[S(p)])
  <2>1. UNCHANGED <<listVars, callVars>>
    BY <1>4 DEF SetHandler, tableVars, listVars
  <2> QED
    BY <1>2, <1>4, <2>1 DEF SetHandler, Unchecked
<1>5. CASE SetFlag(p, "i_flag", TRUE) \/ SetFlag(p, "r_flag", FALSE)
  BY <1>2, <1>5 DEF SetFlag, Unchecked
<1> QED
  BY <1>1, <1>3, <1>4, <1>5 DEF InterceptCommand, ReleaseCommand

(* The list operations among the steps of START and STOP, and the rest. *)
Adding(p) == \E l \in {"add", "asleep"} : Adds(p, l)

LEMMA MonitorCommandWalk ==
    ASSUME NEW p \in Proc, StartCommand(p) \/ StopCommand(p),
           ~Adding(p), ~StopDelete(p), ~StopDestroy(p)
    PROVE  Walk(p)
<1>1. CASE \/ LockMy(p, "add_lock", "add") \/ LockMy(p, "first_lock", "first")
           \/ LockMy(p, "del_lock", "del") \/ LockMy(p, "clear_lock", "clear")
  BY <1>1, LockWalk DEF Unchecked, Routing
<1>2. CASE StartRead(p) \/ StopRead(p)
  BY <1>2, EntryWalk
<1>3. CASE Scan(p, "scan", "return", "add_lock", "EBUSY")
  BY <1>3, ScanWalk DEF Unchecked, Marked, Routing
<1>4. ASSUME NEW v, SetMonitored(p, "first", "add", v) \/ SetMonitored(p, "clear", "destroy", v)
      PROVE  Walk(p)
  <2>1. RouteQuiet(p)
    BY <1>4 DEF SetMonitored, RouteQuiet, CallStep, RouteStep, Unchecked, Routing, kernelVars, callVars
  <2>2. ListQuiet(p)
    BY <1>4 DEF SetMonitored, ListQuiet, CallStep, callVars, Unchecked
  <2> QED
    BY <2>1, <2>2 DEF Walk
<1>5. CASE StartAdd(p)
  <2>1. Jump(p, "add", "asleep")
    BY <1>5 DEF StartAdd, Adding
  <2> QED
    BY <2>1, MoveWalk DEF Unchecked, Marked, Routing
<1> QED
  BY <1>1, <1>2, <1>3, <1>4, <1>5 DEF StartCommand, StopCommand

LEMMA MonitorCommandRoutes ==
    ASSUME NEW p \in Proc, StartCommand(p) \/ StopCommand(p)
    PROVE  RouteQuiet(p)
<1>1. ASSUME NEW l \in {"add", "asleep", "del", "destroy"}, NEW m, m \notin Routing,
             Go(p, l, m), UNCHANGED <<kernelVars, f, intercepted, call>>
      PROVE  RouteQuiet(p)
  BY <1>1 DEF RouteQuiet, CallStep, RouteStep, Unchecked, kernelVars
<1>2. ASSUME NEW l \in {"add", "asleep", "del", "destroy"}, NEW c, JumpWith(p, l, "unlock", c) \/ Fault(p, l)
      PROVE  RouteQuiet(p)
  BY <1>2, FailWalk DEF Walk
<1>3. CASE Adding(p)
  <2>1. PICK l \in {"add", "asleep"} : Adds(p, l)
    BY <1>3 DEF Adding
  <2> QED
    BY <1>1, <1>2, <2>1 DEF Adds, Routing, callVars
<1>4. CASE StopDelete(p)
  BY <1>1, <1>2, <1>4 DEF StopDelete, Routing
<1>5. CASE StopDestroy(p)
  BY <1>1, <1>2, <1>5 DEF StopDestroy, Routing
<1>6. CASE ~Adding(p) /\ ~StopDelete(p) /\ ~StopDestroy(p)
  BY <1>6, MonitorCommandWalk DEF Walk
<1> QED
  BY <1>3, <1>4, <1>5, <1>6

(* Calling, running interceptor and exiting, but for the step that cleans the
   lists. *)
LEMMA OtherCallsWalk ==
    ASSUME NEW p \in Proc, Enter(p) \/ InterceptorRun(p) \/ MyExitGroup(p), ~ExitDelPid(p)
    PROVE  Walk(p)
<1>1. ASSUME NEW l, NEW m \in Unchecked \ {"exit_unlock"}, Jump(p, l, m)
      PROVE  Walk(p)
  BY <1>1, MoveWalk DEF Unchecked, Marked, Routing
<1>2. CASE CallExitGroup(p) \/ \E s \in SyscArgs \cap Sysc : CallFreedText(p, s)
  BY <1>1, <1>2 DEF CallExitGroup, CallFreedText, Fault, Unchecked
<1>7. CASE ReusePid(p)
  BY <1>7, MoveWalk DEF Unchecked, Marked, Routing
<1>3. CASE \/ \E c \in Cmds, s \in SyscArgs, pid \in PidArgs : CallMySyscall(p, c, s, pid)
           \/ \E s \in SyscArgs \cap Sysc : CallIntercepted(p, s)
  BY <1>3, BeginWalk DEF CallMySyscall, CallIntercepted, Unchecked
<1>4. CASE InterceptorRun(p)
  BY <1>4, ScanWalk, EntryWalk DEF InterceptorRun, Unchecked, Marked, Routing
<1>5. CASE LockMy(p, "exit_lock", "exit_del") \/ UnlockMy(p, "exit_unlock", "exit_orig")
  BY <1>5, LockWalk DEF Unchecked, Routing
<1>6. CASE Jump(p, "exit_orig", "dead")
  BY <1>1, <1>6 DEF Unchecked
<1> QED
  BY <1>2, <1>3, <1>4, <1>5, <1>6, <1>7 DEF Enter, MyExitGroup

LEMMA OtherCallsRoutes ==
    ASSUME NEW p \in Proc, Enter(p) \/ InterceptorRun(p) \/ MyExitGroup(p)
    PROVE  RouteQuiet(p)
<1>1. CASE ExitDelPid(p)
  <2>1. CASE Fault(p, "exit_del")
    BY <2>1, FailWalk DEF Walk
  <2>2. CASE ~Fault(p, "exit_del")
    <3>1. Go(p, "exit_del", "exit_unlock") /\ UNCHANGED <<kernelVars, f, intercepted, call>>
      BY <1>1, <2>2 DEF ExitDelPid
    <3> QED
      BY <3>1 DEF RouteQuiet, CallStep, RouteStep, Unchecked, Routing, kernelVars
  <2> QED
    BY <2>1, <2>2
<1>2. CASE ~ExitDelPid(p)
  BY <1>2, OtherCallsWalk DEF Walk
<1> QED
  BY <1>1, <1>2

(* What a step of a process is to the lists and to the table. *)
LEMMA ProcListStep ==
    ASSUME TypeOK, NEW p \in Proc, ProcNext(p)
    PROVE  ListQuiet(p) \/ Adding(p) \/ StopDelete(p) \/ StopDestroy(p) \/ ExitDelPid(p)
<1>1. CASE InterceptCommand(p) \/ ReleaseCommand(p)
  BY <1>1, TableCommandLists
<1>2. CASE StartCommand(p) \/ StopCommand(p)
  BY <1>2, MonitorCommandWalk DEF Walk
<1>3. CASE Enter(p) \/ InterceptorRun(p) \/ MyExitGroup(p)
  BY <1>3, OtherCallsWalk DEF Walk
<1>4. CASE \/ EntryInvalid(p) \/ EntryRoot(p) \/ EntryUser(p) \/ CheckPid(p)
           \/ CheckOwner(p) \/ CommandDone(p) \/ Leave(p, "return", "user")
  BY <1>4, EntryWalk DEF Walk
<1>5. CASE UnlockMy(p, "unlock", "return")
  BY <1>5, LockWalk DEF Walk, Unchecked, Routing
<1> QED
  BY <1>1, <1>2, <1>3, <1>4, <1>5 DEF ProcNext, Run, MySyscall

LEMMA ProcRouteStep ==
    ASSUME TypeOK, NEW p \in Proc, ProcNext(p)
    PROVE  RouteQuiet(p) \/ InterceptCommand(p) \/ ReleaseCommand(p)
<1>1. CASE StartCommand(p) \/ StopCommand(p)
  BY <1>1, MonitorCommandRoutes
<1>2. CASE Enter(p) \/ InterceptorRun(p) \/ MyExitGroup(p)
  BY <1>2, OtherCallsRoutes
<1>3. CASE \/ EntryInvalid(p) \/ EntryRoot(p) \/ EntryUser(p) \/ CheckPid(p)
           \/ CheckOwner(p) \/ CommandDone(p) \/ Leave(p, "return", "user")
  BY <1>3, EntryWalk DEF Walk
<1>4. CASE UnlockMy(p, "unlock", "return")
  BY <1>4, LockWalk DEF Walk, Unchecked, Routing
<1> QED
  BY <1>1, <1>2, <1>3, <1>4 DEF ProcNext, Run, MySyscall

(* INTERCEPT and RELEASE, by any number of processes of root at once. *)
LEMMA TableCommandHandlers ==
    ASSUME TypeOK, Handlers, NEW p \in Proc, InterceptCommand(p) \/ ReleaseCommand(p)
    PROVE  Handlers'
<1>1. CASE \/ LockSys(p, "i_lock", "i_save") \/ LockSys(p, "r_lock", "r_set")
           \/ UnlockSys(p, "i_unlock", "i_flag") \/ UnlockSys(p, "r_unlock", "r_flag")
  BY <1>1, LockWalk, WalkHandlers DEF Walk, Unchecked, Routing
<1>2. CASE SaveOriginal(p)
  <2>1. Go(p, "i_save", "i_set") /\ UNCHANGED <<kernelVars, intercepted, callVars>>
    BY <1>2 DEF SaveOriginal
  <2>2. S(p) \in Sysc /\ pc[p] = "i_save"
    BY <2>1 DEF Handlers, CallChecked, Go, At, Unchecked, ValidSysc
  <2>3. \A s \in Sysc : f'[s] = IF s = S(p) THEN sys_call_table[S(p)] ELSE f[s]
    BY <1>2, <2>2 DEF SaveOriginal, TypeOK, TableTypeOK
  <2>4. \A s \in Sysc : f[s] # "none" \/ s = S(p) => f'[s] # "none"
    BY <2>2, <2>3 DEF Handlers, SavedBeforeReplaced
  <2>5. CallChecked'
    BY <2>1, CheckedStep DEF Handlers, CallStep, Unchecked, callVars
  <2>6. \A q \in Proc : q # p => pc'[q] = pc[q]
    BY <2>1, PcAfter DEF Actor
  <2>7. \A q \in Proc : pc[q] \in Routing => S(q) \in Sysc /\ f[S(q)] # "none"
    BY DEF Handlers, Past, Routing, CallChecked, Unchecked, ValidSysc
  <2>8. Past({"i_set", "i_unlock", "i_flag", "r_lock", "r_set"})'
    BY <2>1, <2>2, <2>4, <2>6, <2>7 DEF Past, Routing, S, callVars
  <2>9. pc'[Loader] = pc[Loader]
    BY <2>1, PcAfter DEF Actor
  <2>10. Custom \in Sysc /\ ExitGroup \in Sysc
    BY DEF Sysc
  <2> QED
    BY <2>1, <2>4, <2>5, <2>8, <2>9, <2>10 DEF Handlers, SavedBeforeReplaced, kernelVars
<1>3. CASE \/ SetHandler(p, "i_set", "i_unlock", "interceptor")
           \/ SetHandler(p, "r_set", "r_unlock", f[S(p)])
  <2>1. UNCHANGED <<orig, tableVars, callVars>>
    BY <1>3 DEF SetHandler
  <2>2. PICK l \in Routing, m \in {"i_unlock", "r_unlock"} : Go(p, l, m)
    BY <1>3 DEF SetHandler, Routing
  <2>3. S(p) \in Sysc /\ f[S(p)] # "none"
    BY <2>2 DEF Handlers, CallChecked, Past, Routing, Go, At, Unchecked, ValidSysc
  <2>4. \A s \in Sysc : \/ sys_call_table'[s] = sys_call_table[s]
                        \/ s = S(p) /\ sys_call_table'[s] \in {"interceptor", f[S(p)]}
    BY <1>3, <2>3 DEF SetHandler, TypeOK, KernelTypeOK
  <2>5. SavedBeforeReplaced'
    BY <2>1, <2>3, <2>4 DEF Handlers, SavedBeforeReplaced, tableVars
  <2>6. CallChecked'
    BY <2>1, <2>2, CheckedStep DEF Handlers, CallStep, Routing, Unchecked, callVars
  <2>7. \A q \in Actor : pc'[q] = pc[q] \/ (q = p /\ pc[p] \in Routing)
    BY <2>2, PcAfter DEF Actor
  <2>8. Past({"i_set", "i_unlock", "i_flag", "r_lock", "r_set"})'
    BY <2>1, <2>3, <2>7 DEF Handlers, Past, S, Actor, tableVars, callVars
  <2>9. pc'[Loader] = pc[Loader]
    BY <2>7 DEF Actor
  <2> QED
    BY <2>1, <2>5, <2>6, <2>8, <2>9 DEF Handlers, tableVars
<1>4. CASE SetFlag(p, "i_flag", TRUE) \/ SetFlag(p, "r_flag", FALSE)
  <2>1. UNCHANGED <<kernelVars, f, callVars>>
    BY <1>4 DEF SetFlag
  <2>2. PICK l \in {"i_flag", "r_flag"} : Go(p, l, "pid")
    BY <1>4 DEF SetFlag
  <2>3. \A s \in Sysc : intercepted'[s] => intercepted[s] \/ f[s] # "none"
    <3>1. CASE SetFlag(p, "r_flag", FALSE)
      BY <3>1 DEF SetFlag, TypeOK, TableTypeOK
    <3>2. CASE SetFlag(p, "i_flag", TRUE)
      <4>1. f[S(p)] # "none"
        BY <3>2 DEF SetFlag, Handlers, Past, Go, At
      <4> QED
        BY <3>2, <4>1 DEF SetFlag, TypeOK, TableTypeOK
    <3> QED
      BY <1>4, <3>1, <3>2
  <2>4. CallChecked'
    BY <2>1, <2>2, CheckedStep DEF Handlers, CallStep, Unchecked, callVars
  <2>5. \A q \in Actor : pc'[q] = pc[q] \/ (q = p /\ pc'[p] = "pid")
    BY <2>2, PcAfter DEF Actor
  <2>6. Past({"i_set", "i_unlock", "i_flag", "r_lock", "r_set"})'
    BY <2>1, <2>5 DEF Handlers, Past, S, Actor, callVars
  <2>7. pc'[Loader] = pc[Loader]
    BY <2>5 DEF Actor
  <2> QED
    BY <2>1, <2>3, <2>4, <2>6, <2>7 DEF Handlers, SavedBeforeReplaced, kernelVars
<1> QED
  BY <1>1, <1>2, <1>3, <1>4 DEF InterceptCommand, ReleaseCommand

-----------------------------------------------------------------------------
(* The loader.  It moves no process to a label of a command. *)

LoaderStep(l, m) ==
    /\ pc[Loader] = l /\ pc'[Loader] = m
    /\ \A p \in Proc : pc'[p] \in {pc[p], "oops"}
    /\ call' = call

LEMMA LoaderChecked ==
    ASSUME TypeOK, NEW l, NEW m, LoaderStep(l, m)
    PROVE  /\ CallChecked => CallChecked'
           /\ Handlers /\ f' = f => Past({"i_set", "i_unlock", "i_flag", "r_lock", "r_set"})'
BY DEF LoaderStep, CallChecked, Unchecked, ValidSysc, S, Handlers, Past

LEMMA GoLoader ==
    ASSUME TypeOK, NEW l, NEW m, Go(Loader, l, m), UNCHANGED call
    PROVE  LoaderStep(l, m)
BY PcAfter DEF LoaderStep, Actor

LEMMA LoopLoader ==
    ASSUME TypeOK, NEW l, NEW out, NextEntry(l, out)
    PROVE  LoaderStep(l, IF idx + 1 < NR THEN l ELSE out)
BY DEF LoaderStep, NextEntry, TypeOK, PcTypeOK, Actor

LEMMA LoaderLists ==
    ASSUME TypeOK, Lists, InitFunction \/ ExitFunction
    PROVE  Lists'
<1>1. ASSUME NEW l, NEW m, LoaderStep(l, m), UNCHANGED <<listVars, idx>>,
             m \in Inserting => l \in Inserting
      PROVE  Lists'
  <2>1. CallChecked'
    BY <1>1, LoaderChecked DEF Lists
  <2>2. Uninitialised'
    BY <1>1 DEF LoaderStep, Lists, Uninitialised, listVars
  <2> QED
    BY <1>1, <2>1, <2>2 DEF Lists, NodesAccounted, CountMatchesList, listVars
<1>2. CASE \/ LockSys(Loader, "absent", "ins_custom") \/ LockSys(Loader, "live", "rm_custom")
           \/ UnlockSys(Loader, "ins_unlock", "ins_table") \/ UnlockSys(Loader, "rm_unlock", "rm_table")
  BY <1>1, <1>2, GoLoader DEF LockSys, UnlockSys, tableVars, callVars, listVars, Inserting
<1>3. CASE \/ Hijack("ins_custom", "ins_exit", Custom, "my_syscall")
           \/ Hijack("ins_exit", "ins_unlock", ExitGroup, "my_exit_group")
  BY <1>1, <1>3, GoLoader DEF Hijack, tableVars, callVars, listVars, Inserting
<1>4. CASE Restore("rm_custom", "rm_exit", Custom) \/ Restore("rm_exit", "rm_unlock", ExitGroup)
  BY <1>1, <1>4, GoLoader DEF Restore, tableVars, callVars, listVars, Inserting
<1>5. CASE InitEntry
  <2>1. CallChecked'
    BY <1>5, LoopLoader, LoaderChecked DEF InitEntry, Lists
  <2>2. idx \in Sysc
    BY DEF TypeOK, CallTypeOK
  <2>3. /\ \A s \in Sysc : my_list'[s] = IF s = idx THEN {} ELSE my_list[s]
        /\ \A s \in Sysc : listcount'[s] = IF s = idx THEN 0 ELSE listcount[s]
        /\ \A s \in Sysc : ready'[s] = IF s = idx THEN TRUE ELSE ready[s]
        /\ pidOf' = pidOf
    BY <1>5, <2>2 DEF InitEntry, TypeOK, TableTypeOK
  <2>4. pc[Loader] = "ins_table" /\ \A s \in Sysc : s >= idx => ~ready[s]
    BY <1>5 DEF InitEntry, NextEntry, Lists, Uninitialised, Inserting
  <2>5. my_list[idx] = {} /\ listcount[idx] = 0
    <3>1. ~ready[idx]
      BY <2>2, <2>4 DEF Sysc
    <3>2. my_list[idx] = {}
      BY <2>2, <3>1 DEF Lists
    <3>3. listcount[idx] = Cardinality({})
      BY <2>2, <3>2, Zenon DEF Lists, CountMatchesList
    <3> QED
      BY <3>2, <3>3, FS_EmptySet
  <2>6. my_list' = my_list /\ listcount' = listcount
    BY <1>5, <2>2, <2>5 DEF InitEntry, TypeOK, TableTypeOK
  <2>7. NodesAccounted' /\ CountMatchesList'
    BY <2>3, <2>6 DEF Lists, NodesAccounted, CountMatchesList
  <2>8. Uninitialised'
    <3>1. CASE idx + 1 < NR
      <4>1. idx' = idx + 1
        <5>1. idx' = (idx + 1) % NR
          BY <1>5 DEF InitEntry, NextEntry
        <5>2. idx + 1 \in 0 .. NR - 1
          BY <2>2, <3>1 DEF Sysc
        <5>3. \A i \in Nat : i < NR => i % NR = i
          OBVIOUS
        <5> QED
          BY <3>1, <5>1, <5>2, <5>3
      <4> QED
        <5>1. ASSUME NEW s \in Sysc, s >= idx + 1
              PROVE  ~ready'[s]
          <6>1. s # idx /\ s >= idx
            BY <2>2, <5>1 DEF Sysc
          <6> QED
            BY <2>3, <2>4, <6>1
        <5> QED
          BY <4>1, <5>1 DEF Uninitialised
    <3>2. CASE ~(idx + 1 < NR)
      BY <1>5, <3>2, LoopLoader DEF InitEntry, LoaderStep, Uninitialised, Inserting
    <3> QED
      BY <3>1, <3>2
  <2> QED
    BY <2>1, <2>3, <2>6, <2>7, <2>8 DEF Lists
<1>6. CASE DestroyEntry
  <2>1. CallChecked'
    BY <1>6, LoopLoader, LoaderChecked DEF DestroyEntry, Lists
  <2>2. idx \in Sysc /\ DestroyList(idx) /\ ready' = ready
    BY <1>6 DEF DestroyEntry, TypeOK, CallTypeOK
  <2>3. PICK L : Unlink(my_list[idx], L)
    BY <2>2, DestroyCounts
  <2>4. NodesAccounted' /\ \A s \in Sysc : my_list'[s] = my_list[s] \ my_list[idx]
    BY <2>3, UnlinkNodes DEF Lists
  <2>5. CountMatchesList'
    BY <2>2, DestroyCounts
  <2>6. Uninitialised'
    BY <1>6, LoopLoader DEF DestroyEntry, LoaderStep, Uninitialised, Inserting
  <2> QED
    BY <2>1, <2>2, <2>4, <2>5, <2>6 DEF Lists
<1> QED
  BY <1>2, <1>3, <1>4, <1>5, <1>6 DEF InitFunction, ExitFunction
LEMMA LoaderHandlers ==
    ASSUME TypeOK, Handlers, InitFunction \/ ExitFunction
    PROVE  Handlers'
<1>0. Custom \in Sysc /\ ExitGroup \in Sysc /\ Custom # ExitGroup
  BY DEF Sysc
<1>1. ASSUME NEW l, NEW m, LoaderStep(l, m), UNCHANGED <<sys_call_table, orig, f>>,
             \A s \in Sysc : intercepted'[s] => intercepted[s],
             m \in {"absent", "ins_custom", "ins_exit"} <=> l \in {"absent", "ins_custom", "ins_exit"},
             m \in {"absent", "ins_custom"} <=> l \in {"absent", "ins_custom"}
      PROVE  Handlers'
  <2>1. CallChecked' /\ Past({"i_set", "i_unlock", "i_flag", "r_lock", "r_set"})'
    BY <1>1, LoaderChecked DEF Handlers
  <2> QED
    BY <1>1, <2>1 DEF Handlers, SavedBeforeReplaced, LoaderStep
<1>2. CASE \/ LockSys(Loader, "absent", "ins_custom") \/ LockSys(Loader, "live", "rm_custom")
           \/ UnlockSys(Loader, "ins_unlock", "ins_table") \/ UnlockSys(Loader, "rm_unlock", "rm_table")
  BY <1>1, <1>2, GoLoader DEF LockSys, UnlockSys, tableVars, callVars
<1>3. CASE \/ Hijack("ins_custom", "ins_exit", Custom, "my_syscall")
           \/ Hijack("ins_exit", "ins_unlock", ExitGroup, "my_exit_group")
  <2>1. PICK s \in {Custom, ExitGroup}, h \in {"my_syscall", "my_exit_group"} :
             /\ s = Custom => LoaderStep("ins_custom", "ins_exit")
             /\ s = ExitGroup => LoaderStep("ins_exit", "ins_unlock")
             /\ orig' = [orig EXCEPT ![s] = sys_call_table[s]]
             /\ sys_call_table' = [sys_call_table EXCEPT ![s] = h]
             /\ UNCHANGED <<f, intercepted>>
    BY <1>3, GoLoader DEF Hijack, tableVars, callVars
  <2>2. CallChecked' /\ Past({"i_set", "i_unlock", "i_flag", "r_lock", "r_set"})'
    BY <2>1, LoaderChecked DEF Handlers
  <2>3. SavedBeforeReplaced'
    BY <2>1 DEF Handlers, SavedBeforeReplaced, TypeOK, KernelTypeOK
  <2>4. \A t \in {Custom, ExitGroup} : orig'[t] = IF t = s THEN sys_call_table[t] ELSE orig[t]
    BY <2>1 DEF TypeOK, KernelTypeOK
  <2>5. orig'[s] # "none" /\ \A t \in {Custom, ExitGroup} : orig[t] # "none" => orig'[t] # "none"
    BY <1>0, <2>1, <2>4 DEF Handlers, SavedBeforeReplaced
  <2>6. \A t \in {Custom, ExitGroup} : orig'[t] = "interceptor" => f'[t] # "none"
    BY <1>0, <2>1, <2>4 DEF Handlers, SavedBeforeReplaced
  <2>7. \A t \in Sysc : intercepted'[t] => f'[t] # "none"
    BY <2>1 DEF Handlers
  <2>8. pc'[Loader] \notin {"absent", "ins_custom"} => orig'[Custom] # "none"
    BY <1>0, <2>1, <2>5 DEF Handlers, LoaderStep
  <2>9. pc'[Loader] \notin {"absent", "ins_custom", "ins_exit"} => orig'[ExitGroup] # "none"
    BY <1>0, <2>1, <2>5 DEF Handlers, LoaderStep
  <2> QED
    BY <2>2, <2>3, <2>6, <2>7, <2>8, <2>9 DEF Handlers
<1>4. CASE Restore("rm_custom", "rm_exit", Custom) \/ Restore("rm_exit", "rm_unlock", ExitGroup)
  <2>1. PICK s \in {Custom, ExitGroup}, l \in {"rm_custom", "rm_exit"}, m \in {"rm_exit", "rm_unlock"} :
             /\ LoaderStep(l, m)
             /\ sys_call_table' = [sys_call_table EXCEPT ![s] = orig[s]]
             /\ UNCHANGED <<orig, f, intercepted>>
    BY <1>4, GoLoader DEF Restore, tableVars, callVars
  <2>2. CallChecked' /\ Past({"i_set", "i_unlock", "i_flag", "r_lock", "r_set"})'
    BY <2>1, LoaderChecked DEF Handlers
  <2>3. orig[Custom] # "none" /\ orig[ExitGroup] # "none"
    BY <2>1 DEF Handlers, LoaderStep
  <2>4. SavedBeforeReplaced'
    BY <1>0, <2>1, <2>3 DEF Handlers, SavedBeforeReplaced, TypeOK, KernelTypeOK
  <2> QED
    BY <2>1, <2>2, <2>3, <2>4 DEF Handlers
<1>5. ASSUME NEW l \in {"ins_table", "rm_table"}, NEW out \in {"live", "gone"}, NextEntry(l, out),
             \A s \in Sysc : intercepted'[s] => intercepted[s]
      PROVE  Handlers'
  <2>1. PICK m \in {"ins_table", "rm_table", "live", "gone"} : LoaderStep(l, m)
    BY <1>5, LoopLoader
  <2>2. UNCHANGED <<sys_call_table, orig, f>>
    BY <1>5 DEF NextEntry, kernelVars
  <2> QED
    BY <1>1, <1>5, <2>1, <2>2
<1>6. CASE InitEntry
  <2>1. \A s \in Sysc : intercepted'[s] => intercepted[s]
    BY <1>6 DEF InitEntry, TypeOK, TableTypeOK
  <2> QED
    BY <1>5, <1>6, <2>1 DEF InitEntry
<1>7. CASE DestroyEntry
  BY <1>5, <1>7 DEF DestroyEntry
<1> QED
  BY <1>2, <1>3, <1>4, <1>6, <1>7 DEF InitFunction, ExitFunction

-----------------------------------------------------------------------------
(* The theorems *)

Kept == Lists /\ Handlers

LEMMA InitKept == Init \/ LoadedInit => Kept
<1> SUFFICES ASSUME Init \/ LoadedInit PROVE Kept
  OBVIOUS
<1>1. CallChecked
  BY DEF Init, LoadedInit, CallChecked, Unchecked, Actor
<1>2. /\ \A s \in Sysc : my_list[s] = {} /\ listcount[s] = 0 /\ intercepted[s] = FALSE
      /\ \A n \in Node : pidOf[n] = NoPid
      /\ idx = 0
  BY DEF Init, LoadedInit, StaticData, Idle
<1>3. NodesAccounted
  BY <1>2 DEF NodesAccounted
<1>4. CountMatchesList
  <2>1. Cardinality({}) = 0
    BY FS_EmptySet
  <2> QED
    BY <1>2, <2>1, Zenon DEF CountMatchesList
<1>5. Uninitialised
  BY DEF Init, LoadedInit, Uninitialised, Inserting, Actor
<1>6. Past({"i_set", "i_unlock", "i_flag", "r_lock", "r_set"})
  BY DEF Init, LoadedInit, Past, Actor
<1>7. SavedBeforeReplaced
  BY DEF Init, LoadedInit, SavedBeforeReplaced
<1>8. /\ \A s \in {Custom, ExitGroup} : orig[s] = "interceptor" => f[s] # "none"
      /\ pc[Loader] \notin {"absent", "ins_custom"} => orig[Custom] # "none"
      /\ pc[Loader] \notin {"absent", "ins_custom", "ins_exit"} => orig[ExitGroup] # "none"
  BY DEF Init, LoadedInit, Actor
<1> QED
  BY <1>1, <1>2, <1>3, <1>4, <1>5, <1>6, <1>7, <1>8 DEF Kept, Lists, Handlers

LEMMA NextKept == TypeOK /\ Kept /\ [Next]_vars => Kept'
<1> SUFFICES ASSUME TypeOK, Kept, [Next]_vars PROVE Kept'
  OBVIOUS
<1>1. CASE UNCHANGED vars
  <2>1. Lists'
    BY <1>1 DEF Kept, Lists, CallChecked, ValidSysc, S, NodesAccounted, CountMatchesList, Uninitialised,
                vars, tableVars, callVars
  <2>2. Handlers'
    BY <1>1 DEF Kept, Handlers, CallChecked, ValidSysc, S, SavedBeforeReplaced, Past,
                vars, kernelVars, tableVars, callVars
  <2> QED
    BY <2>1, <2>2 DEF Kept
<1>2. ASSUME NEW p \in Proc, ProcNext(p)
      PROVE  Kept'
  <2>1. Lists'
    BY <1>2, ProcListStep, WalkLists, AddLists, DeleteLists, DestroyLists, ExitLists DEF Kept, Adding
  <2>2. Handlers'
    BY <1>2, ProcRouteStep, TableCommandHandlers, WalkHandlers DEF Kept
  <2> QED
    BY <2>1, <2>2 DEF Kept
<1> QED
  BY <1>1, <1>2, LoaderLists, LoaderHandlers DEF Next, Kept

LEMMA SpecKept == Spec => []Kept
<1>1. Init => Kept
  BY InitKept
<1>2. TypeOK /\ Kept /\ [Next]_vars => Kept'
  BY NextKept
<1> QED
  BY <1>1, <1>2, TypeCorrect, PTL DEF Spec

LEMMA ServiceKept == ServiceSpec => []Kept
<1>1. LoadedInit => Kept
  BY InitKept
<1>2. TypeOK /\ Kept /\ [Next]_vars => Kept'
  BY NextKept
<1> QED
  BY <1>1, <1>2, ServiceStep, ServiceTypeCorrect, PTL DEF ServiceSpec

LEMMA KeptImplies == Kept => CountMatchesList /\ NodesAccounted /\ SavedBeforeReplaced
  BY DEF Kept, Lists, Handlers

(* listcount is exact in every interleaving of START, STOP, exit and rmmod
   (interceptor.c:66-67). *)
THEOREM CountCorrect == Spec => []CountMatchesList
  BY SpecKept, KeptImplies, PTL

(* No pid_list object leaks, is in two lists, or stays in one after kfree. *)
THEOREM NodesCorrect == Spec => []NodesAccounted
  BY SpecKept, KeptImplies, PTL

(* No system call loses its handler, however many processes of root intercept
   and release at once, and whenever the module is removed (interceptor.c:346). *)
THEOREM HandlersCorrect == Spec => []SavedBeforeReplaced
  BY SpecKept, KeptImplies, PTL

(* The same three while the module is loaded. *)
THEOREM ServiceListsCorrect ==
    ServiceSpec => [](CountMatchesList /\ NodesAccounted /\ SavedBeforeReplaced)
  BY ServiceKept, KeptImplies, PTL
-----------------------------------------------------------------------------
(* my_exit_group leaves no node of the exiting process: list 0, which del_pid
   skips, is always empty, and nobody adds a node while it holds the lock. *)

Cleaned == my_list[Custom] = {} /\ ExitCleansLists

LEMMA CustomIndex == Custom \in Sysc /\ \A s \in Sysc : s # Custom <=> s \in 1 .. NR - 1
BY DEF Sysc

LEMMA NoNodeAdded ==
    ASSUME TypeOK, Cleaned,
           \A s \in Sysc : \A n \in my_list'[s] : n \in my_list[s] /\ pidOf'[n] = pidOf[n],
           \A q \in Proc : pc'[q] = "exit_unlock" => pc[q] = "exit_unlock"
    PROVE  Cleaned'
<1>1. my_list'[Custom] = {}
  BY CustomIndex DEF Cleaned
<1>2. \A q \in Proc, s \in Sysc : NodesOf(q, s)' \subseteq NodesOf(q, s)
  BY DEF NodesOf
<1>3. ExitCleansLists'
  BY <1>2 DEF Cleaned, ExitCleansLists
<1> QED
  BY <1>1, <1>3 DEF Cleaned

LEMMA WalkCleaned ==
    ASSUME TypeOK, Cleaned, NEW p \in Proc, ListQuiet(p)
    PROVE  Cleaned'
<1>1. PICK l, m : Go(p, l, m) /\ m # "exit_unlock"
  BY DEF ListQuiet
<1>2. \A q \in Proc : pc'[q] = "exit_unlock" => pc[q] = "exit_unlock"
  BY <1>1, PcAfter DEF Actor
<1> QED
  BY <1>2, NoNodeAdded DEF ListQuiet, listVars

(* Unlinked nodes are in no list. *)
LEMMA UnlinkRemoves ==
    ASSUME TypeOK, NEW N, NEW L, Unlink(N, L)
    PROVE  /\ \A s \in Sysc : my_list'[s] = my_list[s] \ N
           /\ \A s \in Sysc : \A n \in my_list'[s] : n \in my_list[s] /\ pidOf'[n] = pidOf[n]
BY DEF Unlink, TypeOK, TableTypeOK

LEMMA StopCleaned ==
    ASSUME TypeOK, Cleaned, NEW p \in Proc, StopDelete(p) \/ StopDestroy(p)
    PROVE  Cleaned'
<1>1. CASE \/ \E c : JumpWith(p, "del", "unlock", c)
           \/ Fault(p, "del") \/ Fault(p, "destroy")
  <2>1. Walk(p)
    BY <1>1, FailWalk
  <2> QED
    BY <2>1, WalkCleaned DEF Walk
<1>2. CASE ~(\E c : JumpWith(p, "del", "unlock", c)) /\ ~Fault(p, "del") /\ ~Fault(p, "destroy")
  <2>1. PICK N, L : Unlink(N, L)
    BY <1>2 DEF StopDelete, StopDestroy, DelPidSysc, DestroyList
  <2>2. Go(p, "del", "unlock") \/ Go(p, "destroy", "unlock")
    BY <1>2 DEF StopDelete, StopDestroy
  <2>3. \A q \in Proc : pc'[q] = "exit_unlock" => pc[q] = "exit_unlock"
    BY <2>2, PcAfter DEF Actor
  <2> QED
    BY <2>1, <2>3, UnlinkRemoves, NoNodeAdded
<1> QED
  BY <1>1, <1>2

(* START adds a node only to a list with a number, and under the lock. *)
LEMMA AddCleaned ==
    ASSUME TypeOK, Locking, Lists, Cleaned, NEW p \in Proc, NEW l \in {"add", "asleep"}, Adds(p, l)
    PROVE  Cleaned'
<1>1. CASE JumpWith(p, l, "unlock", "ENOMEM") \/ Fault(p, l)
  <2>1. Walk(p)
    BY <1>1, FailWalk
  <2> QED
    BY <2>1, WalkCleaned DEF Walk
<1>2. CASE ~(JumpWith(p, l, "unlock", "ENOMEM") \/ Fault(p, l))
  <2>1. Go(p, l, "unlock") /\ \E n \in Node : AddPidSysc(n, call[p].pid, S(p))
    BY <1>2 DEF Adds
  <2>2. pc[p] = l /\ pc'[p] = "unlock" /\ \A q \in Proc : q # p => pc'[q] = pc[q]
    BY <2>1, PcAfter DEF Actor
  <2>3. my_lock = p
    BY <2>2 DEF Locking, LockDiscipline, MyHeld, Actor
  <2>4. \A q \in Proc : pc'[q] # "exit_unlock"
    BY <2>2, <2>3 DEF Locking, LockDiscipline, MyHeld, Actor
  <2>5. S(p) \in Sysc /\ S(p) # Custom
    BY <2>2 DEF Lists, CallChecked, Unchecked, ValidSysc
  <2>6. my_list'[Custom] = my_list[Custom]
    BY <2>1, <2>5, CustomIndex DEF AddPidSysc, TypeOK, TableTypeOK
  <2> QED
    BY <2>4, <2>6 DEF Cleaned, ExitCleansLists
<1> QED
  BY <1>1, <1>2

LEMMA ExitDelCleans ==
    ASSUME TypeOK, Cleaned, NEW p \in Proc, ExitDelPid(p)
    PROVE  Cleaned'
<1>1. CASE Fault(p, "exit_del")
  BY <1>1, FailWalk, WalkCleaned DEF Walk
<1>2. CASE ~Fault(p, "exit_del")
  <2> DEFINE hit == {s \in 1 .. NR - 1 : NodesOf(p, s) # {}}
             N   == UNION {NodesOf(p, s) : s \in hit}
  <2>1. DelPid(p) /\ Go(p, "exit_del", "exit_unlock")
    BY <1>2 DEF ExitDelPid
  <2>2. Unlink(N, hit)
    BY <2>1 DEF DelPid
  <2>3. \A s \in Sysc : my_list'[s] = my_list[s] \ N
    BY <2>2, UnlinkRemoves
  <2>4. \A s \in Sysc : \A n \in my_list'[s] : n \in my_list[s] /\ pidOf'[n] = pidOf[n]
    BY <2>2, UnlinkRemoves
  <2>5. ASSUME NEW s \in Sysc
        PROVE  NodesOf(p, s) \subseteq N
    <3>1. CASE s = Custom
      BY <3>1 DEF Cleaned, NodesOf
    <3>2. CASE s # Custom
      BY <3>2, CustomIndex
    <3> QED
      BY <3>1, <3>2
  <2>6. \A s \in Sysc : NodesOf(p, s)' = {}
    BY <2>3, <2>4, <2>5 DEF NodesOf
  <2>7. \A q \in Proc, s \in Sysc : NodesOf(q, s)' \subseteq NodesOf(q, s)
    BY <2>4 DEF NodesOf
  <2>8. \A q \in Proc : q # p => pc'[q] = pc[q]
    BY <2>1, PcAfter DEF Actor
  <2>9. ExitCleansLists'
    BY <2>6, <2>7, <2>8 DEF Cleaned, ExitCleansLists
  <2>10. my_list'[Custom] = {}
    BY <2>3, CustomIndex DEF Cleaned
  <2> QED
    BY <2>9, <2>10 DEF Cleaned
<1> QED
  BY <1>1, <1>2

LEMMA LoaderCleaned ==
    ASSUME TypeOK, Cleaned, InitFunction \/ ExitFunction
    PROVE  Cleaned'
<1>1. ASSUME NEW l, NEW m, LoaderStep(l, m)
      PROVE  \A q \in Proc : pc'[q] = "exit_unlock" => pc[q] = "exit_unlock"
  BY <1>1 DEF LoaderStep
<1>2. CASE InitEntry
  <2>1. \A s \in Sysc : my_list'[s] \subseteq my_list[s]
    BY <1>2 DEF InitEntry, TypeOK, TableTypeOK, CallTypeOK
  <2>2. pidOf' = pidOf
    BY <1>2 DEF InitEntry
  <2>3. \A q \in Proc : pc'[q] = "exit_unlock" => pc[q] = "exit_unlock"
    BY <1>1, <1>2, LoopLoader DEF InitEntry
  <2> QED
    BY <2>1, <2>2, <2>3, NoNodeAdded
<1>3. CASE DestroyEntry
  <2>1. PICK N, L : Unlink(N, L)
    BY <1>3 DEF DestroyEntry, DestroyList
  <2>2. \A q \in Proc : pc'[q] = "exit_unlock" => pc[q] = "exit_unlock"
    BY <1>1, <1>3, LoopLoader DEF DestroyEntry
  <2> QED
    BY <2>1, <2>2, UnlinkRemoves, NoNodeAdded
<1>4. CASE ~InitEntry /\ ~DestroyEntry
  <2>1. PICK l, m : Go(Loader, l, m)
    BY <1>4 DEF InitFunction, ExitFunction, LockSys, UnlockSys, Hijack, Restore
  <2>2. UNCHANGED <<my_list, pidOf, call>>
    BY <1>4 DEF InitFunction, ExitFunction, LockSys, UnlockSys, Hijack, Restore, tableVars, callVars
  <2>3. \A q \in Proc : pc'[q] = "exit_unlock" => pc[q] = "exit_unlock"
    BY <1>1, <2>1, <2>2, GoLoader
  <2> QED
    BY <2>2, <2>3, NoNodeAdded
<1> QED
  BY <1>2, <1>3, <1>4

LEMMA NextCleaned == TypeOK /\ Locking /\ Kept /\ Cleaned /\ [Next]_vars => Cleaned'
<1> SUFFICES ASSUME TypeOK, Locking, Kept, Cleaned, [Next]_vars PROVE Cleaned'
  OBVIOUS
<1>1. CASE UNCHANGED vars
  BY <1>1 DEF Cleaned, ExitCleansLists, NodesOf, vars, tableVars
<1>2. ASSUME NEW p \in Proc, ProcNext(p)
      PROVE  Cleaned'
  BY <1>2, ProcListStep, WalkCleaned, AddCleaned, StopCleaned, ExitDelCleans DEF Kept, Adding
<1> QED
  BY <1>1, <1>2, LoaderCleaned DEF Next

LEMMA InitCleaned == Init \/ LoadedInit => Cleaned
<1> SUFFICES ASSUME Init \/ LoadedInit PROVE Cleaned
  OBVIOUS
<1>1. my_list = [s \in Sysc |-> {}]
  BY DEF Init, LoadedInit, StaticData
<1> QED
  BY <1>1, CustomIndex DEF Cleaned, ExitCleansLists, NodesOf

LEMMA CleanedImplies == Cleaned => ExitCleansLists
  BY DEF Cleaned

(* Whatever START does meanwhile, and however often the pid was added, the
   exiting process is in no list when my_exit_group drops the lock
   (interceptor.c:236-242). *)
THEOREM ExitCleans == Spec => []ExitCleansLists
<1>1. Init => Cleaned
  BY InitCleaned
<1>2. TypeOK /\ Locking /\ Kept /\ Cleaned /\ [Next]_vars => Cleaned'
  BY NextCleaned
<1> QED
  BY <1>1, <1>2, TypeCorrect, SpecLocking, SpecKept, CleanedImplies, PTL DEF Spec

(* The same while the module is loaded. *)
THEOREM ServiceExitCleans == ServiceSpec => []ExitCleansLists
<1>1. LoadedInit => Cleaned
  BY InitCleaned
<1>2. TypeOK /\ Locking /\ Kept /\ Cleaned /\ [Next]_vars => Cleaned'
  BY NextCleaned
<1> QED
  BY <1>1, <1>2, ServiceStep, ServiceTypeCorrect, ServiceLocking, ServiceKept, CleanedImplies, PTL
     DEF ServiceSpec
=============================================================================
