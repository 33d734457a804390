---------------------------- MODULE Interceptor ----------------------------
(***************************************************************************)
(* The system-call interceptor of src/a1/interceptor.c, a kernel module.   *)
(* Processes enter it concurrently through three handlers it puts into     *)
(* sys_call_table: my_syscall (the four commands), my_exit_group and       *)
(* interceptor.  insmod and rmmod run init_function and exit_function.     *)
(*                                                                         *)
(* A step is the code between two points at which another process can see  *)
(* or change what this one uses: taking or dropping a spinlock, and every  *)
(* access to shared data made without one.                                 *)
(***************************************************************************)
EXTENDS Integers, FiniteSets

CONSTANTS
    Proc,       \* the processes, by pid
    Uids,       \* Uids[p]: the uids that a process with pid p may have; 0 is root
    CPUs,       \* the processors; a process that spins for a lock keeps one
    Loader,     \* the task that runs insmod and rmmod
    NoOne,      \* the value of a spinlock that is free
    NR,         \* NR_syscalls
    ExitGroup,  \* __NR_exit_group
    SyscArgs,   \* the 'syscall' arguments and numbers that processes use
    AllPids,    \* the pid argument 0
    NoPid,      \* the pid of a node that is not allocated
    Node,       \* the struct pid_list objects that kmalloc can hand out
    BadPid,     \* a pid argument that no process has (or a negative one)
    PidArgs     \* the 'pid' arguments that processes use

Custom == 0     \* MY_CUSTOM_SYSCALL

Sysc    == 0 .. NR - 1
Actor   == Proc \cup {Loader}
Cmds    == {"INTERCEPT", "RELEASE", "START", "STOP"}
Handler == {"native", "my_syscall", "my_exit_group", "interceptor"}
Codes   == {"OK", "EINVAL", "EPERM", "EBUSY", "ENOMEM"}

ASSUME ConstantsAssumption ==
    /\ Loader \notin Proc
    /\ NoOne \notin Actor
    /\ AllPids \notin Proc /\ BadPid \notin Proc /\ BadPid # AllPids
    /\ NoPid \notin Proc \cup {AllPids, BadPid}
    /\ NR \in Nat /\ ExitGroup \in 1 .. NR - 1
    /\ SyscArgs \subseteq Int
    /\ PidArgs \subseteq Proc \cup {AllPids, BadPid}
    /\ Uids \in [Proc -> SUBSET Nat] /\ \A p \in Proc : Uids[p] # {}
    /\ IsFiniteSet(Proc) /\ CPUs \in Nat \ {0}
    /\ IsFiniteSet(Node)

VARIABLES
    sys_call_table,       \* the kernel's table of handlers
    writable,             \* whether its page is mapped writable
    orig,                 \* orig_custom_syscall and orig_exit_group
    f, intercepted, monitored, listcount, my_list,  \* the fields of table[s]
    ready,                \* whether table[s].my_list was initialised
    pidOf,                \* the pid stored in each node, NoPid if it is free
    sys_lock, my_lock,    \* the holders of sys_call_table_lock, my_table_lock
    pc,                   \* where each process is in the module's code
    call,                 \* the arguments of the call it is in
    ret,                  \* what the call returns
    torn,                 \* a node was freed under this process's list scan
    idx,                  \* the loop variable i of the loader
    uid,                  \* of each process
    reused                \* history: the pid that this process's call names was
                          \* given to a new process after its owner was checked

kernelVars == <<sys_call_table, writable, orig>>
listVars   == <<listcount, my_list, ready, pidOf>>
tableVars  == <<f, intercepted, monitored, listcount, my_list, ready, pidOf>>
lockVars   == <<sys_lock, my_lock>>
callVars   == <<call, ret, torn, idx, uid, reused>>
vars == <<kernelVars, tableVars, lockVars, pc, callVars>>

-----------------------------------------------------------------------------
(* Initial states *)

NoCall == [cmd |-> "none", sysc |-> Custom, pid |-> AllPids]

(* The module's static data before init_function has run: zeroes, and list
   heads whose pointers are still NULL. *)
StaticData ==
    /\ f = [s \in Sysc |-> "none"]
    /\ intercepted = [s \in Sysc |-> FALSE]
    /\ monitored = [s \in Sysc |-> 0]
    /\ listcount = [s \in Sysc |-> 0]
    /\ my_list = [s \in Sysc |-> {}]
    /\ pidOf = [n \in Node |-> NoPid]
    /\ sys_lock = NoOne
    /\ my_lock = NoOne

Idle ==
    /\ writable = FALSE
    /\ call = [p \in Proc |-> NoCall]
    /\ ret = [p \in Proc |-> "OK"]
    /\ torn = [p \in Proc |-> FALSE]
    /\ idx = 0
    /\ uid \in [Proc -> UNION {Uids[p] : p \in Proc}] /\ \A p \in Proc : uid[p] \in Uids[p]
    /\ reused = [p \in Proc |-> FALSE]

(* Before insmod. *)
Init ==
    /\ StaticData
    /\ Idle
    /\ sys_call_table = [s \in Sysc |-> "native"]
    /\ orig = [s \in {Custom, ExitGroup} |-> "none"]
    /\ ready = [s \in Sysc |-> FALSE]
    /\ pc = [a \in Actor |-> IF a = Loader THEN "absent" ELSE "user"]

(* After init_function has returned and before any process has called. *)
LoadedInit ==
    /\ StaticData
    /\ Idle
    /\ sys_call_table = [s \in Sysc |-> IF s = Custom THEN "my_syscall"
                                       ELSE IF s = ExitGroup THEN "my_exit_group" ELSE "native"]
    /\ orig = [s \in {Custom, ExitGroup} |-> "native"]
    /\ ready = [s \in Sysc |-> TRUE]
    /\ pc = [a \in Actor |-> IF a = Loader THEN "live" ELSE "user"]

-----------------------------------------------------------------------------
(* Control flow *)

Alive(p)    == pc[p] \notin {"dead", "oops"}   \* pid_task(find_vpid(p)) # NULL
InModule(p) == pc[p] \notin {"user", "dead", "oops"}
TextLoaded  == pc[Loader] \notin {"absent", "gone"}

Cmd(p)  == call[p].cmd
S(p)    == call[p].sysc
Root(p) == uid[p] = 0

At(a, l) == pc[a] = l

Go(a, from, to) == At(a, from) /\ pc' = [pc EXCEPT ![a] = to]

(* A step that only moves control, or also decides the result. *)
Jump(a, from, to) == Go(a, from, to) /\ UNCHANGED <<kernelVars, tableVars, lockVars, callVars>>

JumpWith(p, from, to, code) ==
    /\ Go(p, from, to)
    /\ ret' = [ret EXCEPT ![p] = code]
    /\ UNCHANGED <<kernelVars, tableVars, lockVars, call, torn, idx, uid, reused>>

Return(p, from, code) == JumpWith(p, from, "return", code)

(* Entering the module for a call, and leaving it for label l. *)
Begin(p, from, to, c) ==
    /\ Go(p, from, to)
    /\ call' = [call EXCEPT ![p] = c]
    /\ ret' = [ret EXCEPT ![p] = "OK"]
    /\ reused' = [reused EXCEPT ![p] = FALSE]
    /\ UNCHANGED <<kernelVars, tableVars, lockVars, torn, idx, uid>>

Leave(p, from, to) == Begin(p, from, to, NoCall)

(* A fault inside the module kills the process where it is: it drops no lock
   and does not pass through my_exit_group. *)
Fault(p, from) == Jump(p, from, "oops")

-----------------------------------------------------------------------------
(* The locks.  A section that makes one visible change takes and drops its
   lock in that one step. *)

LockSys(a, from, to) ==
    /\ Go(a, from, to)
    /\ sys_lock = NoOne /\ sys_lock' = a
    /\ writable' = TRUE
    /\ UNCHANGED <<sys_call_table, orig, tableVars, my_lock, callVars>>

(* Mutant: no set_addr_ro. *)
UnlockSysWritable(a, from, to) ==
    /\ Go(a, from, to)
    /\ sys_lock' = NoOne
    /\ UNCHANGED <<sys_call_table, writable, orig, tableVars, my_lock, callVars>>

UnlockSys(a, from, to) ==
    /\ Go(a, from, to)
    /\ writable' = FALSE
    /\ sys_lock' = NoOne
    /\ UNCHANGED <<sys_call_table, orig, tableVars, my_lock, callVars>>

LockMy(p, from, to) ==
    /\ Go(p, from, to)
    /\ my_lock = NoOne /\ my_lock' = p
    /\ UNCHANGED <<kernelVars, tableVars, sys_lock, callVars>>

UnlockMy(p, from, to) ==
    /\ Go(p, from, to)
    /\ my_lock' = NoOne
    /\ UNCHANGED <<kernelVars, tableVars, sys_lock, callVars>>

-----------------------------------------------------------------------------
(* List operations.  The order of the nodes in a list is never observed. *)

NodesOf(pid, s) == {n \in my_list[s] : pidOf[n] = pid}
Scanning(p, s)  == pc[p] \in {"scan", "icp"} /\ S(p) = s

(* Nodes N of the lists in L are unlinked and freed: a scan that is running
   over one of these lists may be standing on one of them. *)
Unlink(N, L) ==
    /\ my_list' = [s \in Sysc |-> my_list[s] \ N]
    /\ pidOf' = [n \in Node |-> IF n \in N THEN NoPid ELSE pidOf[n]]
    /\ torn' = [p \in Proc |-> torn[p] \/ \E s \in L : Scanning(p, s)]

(* add_pid_sysc once kmalloc has given it node n. *)
AddPidSysc(n, pid, s) ==
    /\ pidOf' = [pidOf EXCEPT ![n] = pid]
    /\ my_list' = [my_list EXCEPT ![s] = @ \cup {n}]
    /\ listcount' = [listcount EXCEPT ![s] = @ + 1]

(* The flag of a list that is left with c nodes. *)
(* Mutant: monitored-- for every empty list. *)
MonitoredWithUnderflow(s, c) == IF c = 0 THEN monitored[s] - 1 ELSE monitored[s]
MonitoredWith(s, c) == IF c = 0 /\ monitored[s] = 1 THEN 0 ELSE monitored[s]

(* del_pid_sysc once it has found node n. *)
DelPidSysc(n, s) ==
    /\ Unlink({n}, {s})
    /\ listcount' = [listcount EXCEPT ![s] = @ - 1]
    /\ monitored' = [monitored EXCEPT ![s] = MonitoredWith(s, listcount[s] - 1)]

(* Mutant: stops at the first node, as del_pid_sysc does. *)
DelPidFirstOnly(pid) ==
    LET hit == {s \in 1 .. NR - 1 : NodesOf(pid, s) # {}}
        one(s) == CHOOSE n \in NodesOf(pid, s) : TRUE
    IN  /\ Unlink({one(s) : s \in hit}, hit)
        /\ listcount' = [s \in Sysc |-> listcount[s] - (IF s \in hit THEN 1 ELSE 0)]
        /\ UNCHANGED monitored

(* Mutant: one listcount-- for all the nodes. *)
DelPidCountOnce(pid) ==
    LET hit == {s \in 1 .. NR - 1 : NodesOf(pid, s) # {}}
    IN  /\ Unlink(UNION {NodesOf(pid, s) : s \in hit}, hit)
        /\ listcount' = [s \in Sysc |-> listcount[s] - (IF s \in hit THEN 1 ELSE 0)]
        /\ UNCHANGED monitored

(* del_pid: every node of pid in every list but list 0. *)
DelPid(pid) ==
    LET hit     == {s \in 1 .. NR - 1 : NodesOf(pid, s) # {}}
        left(s) == listcount[s] - Cardinality(NodesOf(pid, s))
    IN  /\ Unlink(UNION {NodesOf(pid, s) : s \in hit}, hit)
        /\ listcount' = [s \in Sysc |-> IF s \in hit THEN left(s) ELSE listcount[s]]
        /\ monitored' = [s \in Sysc |-> IF s \in hit THEN MonitoredWith(s, left(s))
                                                     ELSE monitored[s]]

(* Mutant: no kfree. *)
DestroyListLeak(s) ==
    /\ my_list' = [my_list EXCEPT ![s] = {}]
    /\ listcount' = [listcount EXCEPT ![s] = 0]
    /\ monitored' = [monitored EXCEPT ![s] = 0]
    /\ UNCHANGED <<pidOf, torn>>

(* Mutant: listcount is not reset. *)
DestroyListKeepsCount(s) ==
    /\ Unlink(my_list[s], IF my_list[s] = {} THEN {} ELSE {s})
    /\ monitored' = [monitored EXCEPT ![s] = 0]
    /\ UNCHANGED listcount

DestroyList(s) ==
    /\ Unlink(my_list[s], IF my_list[s] = {} THEN {} ELSE {s})
    /\ listcount' = [listcount EXCEPT ![s] = 0]
    /\ monitored' = [monitored EXCEPT ![s] = 0]

(* check_pid_monitored reads the list without a lock.  It finds what the list
   holds, unless a node was freed under it: then it may follow freed memory to
   either answer or to a poisoned pointer, or, when the node was allocated
   again into another list, go round that list and never meet its head.  A torn
   scan that never ends is one whose step is never taken. *)
Listed(p) == NodesOf(call[p].pid, S(p)) # {}
Scan(p, from, hit, miss, hitCode) ==
    \/ /\ At(p, from) /\ ready[S(p)]
       /\ \E found \in IF torn[p] THEN BOOLEAN ELSE {Listed(p)} :
            /\ Go(p, from, IF found THEN hit ELSE miss)
            /\ ret' = [ret EXCEPT ![p] = IF found THEN hitCode ELSE "OK"]
       /\ torn' = [torn EXCEPT ![p] = FALSE]
       /\ UNCHANGED <<kernelVars, tableVars, lockVars, call, idx, uid, reused>>
    \/ At(p, from) /\ (torn[p] \/ ~ready[S(p)]) /\ Fault(p, from)

-----------------------------------------------------------------------------
(* my_syscall: the call, and the checks before a command takes effect *)

CallMySyscall(p, c, s, pid) ==
    /\ sys_call_table[Custom] = "my_syscall"
    /\ Begin(p, "user", "entry", [cmd |-> c, sysc |-> s, pid |-> pid])

ValidSysc(p) == S(p) \in Sysc /\ S(p) # Custom

EntryInvalid(p) == At(p, "entry") /\ ~ValidSysc(p) /\ Return(p, "entry", "EINVAL")

(* Mutant: intercepted is not looked at. *)
EntryRootUntested(p) ==
    /\ At(p, "entry") /\ ValidSysc(p) /\ Root(p)
    /\ Jump(p, "entry", IF Cmd(p) = "INTERCEPT" THEN "i_lock"
                        ELSE IF Cmd(p) = "RELEASE" THEN "r_lock" ELSE "pid")

EntryRoot(p) ==
    /\ At(p, "entry") /\ ValidSysc(p) /\ Root(p)
    /\ \/ /\ Cmd(p) = "INTERCEPT"
          /\ IF intercepted[S(p)] THEN Return(p, "entry", "EBUSY") ELSE Jump(p, "entry", "i_lock")
       \/ /\ Cmd(p) = "RELEASE"
          /\ IF intercepted[S(p)] THEN Jump(p, "entry", "r_lock") ELSE Return(p, "entry", "EINVAL")
       \/ Cmd(p) \in {"START", "STOP"} /\ Jump(p, "entry", "pid")

EntryUser(p) ==
    /\ At(p, "entry") /\ ValidSysc(p) /\ ~Root(p)
    /\ IF Cmd(p) \in {"INTERCEPT", "RELEASE"} \/ call[p].pid = AllPids
       THEN Return(p, "entry", "EPERM") ELSE Jump(p, "entry", "pid")

(* Root's INTERCEPT and RELEASE come here too, with their effect done. *)
PidExists(pid) == pid = AllPids \/ (pid \in Proc /\ Alive(pid))

CheckPid(p) ==
    IF PidExists(call[p].pid) THEN Jump(p, "pid", IF Root(p) THEN "command" ELSE "owner")
                              ELSE Return(p, "pid", "EINVAL")

(* Mutant: no owner check. *)
CheckOwnerNot(p) == Jump(p, "owner", "command")

(* Whatever becomes of that process now, its owner was checked. *)
PassOwner(p) ==
    /\ Go(p, "owner", "command")
    /\ reused' = [reused EXCEPT ![p] = FALSE]
    /\ UNCHANGED <<kernelVars, tableVars, lockVars, call, ret, torn, idx, uid>>

(* check_pids_same_owner looks the pid up again, and follows what it gets. *)
CheckOwner(p) ==
    /\ At(p, "owner")
    /\ IF ~Alive(call[p].pid) THEN Fault(p, "owner")
       ELSE IF uid[call[p].pid] = uid[p] THEN PassOwner(p) ELSE Return(p, "owner", "EPERM")

CommandDone(p) == Cmd(p) \in {"INTERCEPT", "RELEASE"} /\ Return(p, "command", "OK")

-----------------------------------------------------------------------------
(* REQUEST_SYSCALL_INTERCEPT and REQUEST_SYSCALL_RELEASE: the table changes
   inside sys_call_table_lock, the flag after it. *)

(* Mutant: f is not set. *)
SaveNothing(p) == Jump(p, "i_save", "i_set")

SaveOriginal(p) ==
    /\ Go(p, "i_save", "i_set")
    /\ my_lock = NoOne
    /\ f' = [f EXCEPT ![S(p)] = sys_call_table[S(p)]]
    /\ UNCHANGED <<kernelVars, intercepted, monitored, listVars, lockVars, callVars>>

SetHandler(p, from, to, h) ==
    /\ Go(p, from, to)
    /\ sys_call_table' = [sys_call_table EXCEPT ![S(p)] = h]
    /\ UNCHANGED <<writable, orig, tableVars, lockVars, callVars>>

SetFlag(p, from, value) ==
    /\ Go(p, from, "pid")
    /\ intercepted' = [intercepted EXCEPT ![S(p)] = value]
    /\ UNCHANGED <<kernelVars, f, monitored, listVars, lockVars, callVars>>

InterceptCommand(p) ==
    \/ LockSys(p, "i_lock", "i_save")
    \/ SaveOriginal(p)
    \/ SetHandler(p, "i_set", "i_unlock", "interceptor")
    \/ UnlockSys(p, "i_unlock", "i_flag")
    \/ SetFlag(p, "i_flag", TRUE)

(* Mutant: intercepted is left set. *)
ReleaseCommandKeepFlag(p) ==
    \/ LockSys(p, "r_lock", "r_set")
    \/ At(p, "r_set") /\ my_lock = NoOne /\ SetHandler(p, "r_set", "r_unlock", f[S(p)])
    \/ UnlockSys(p, "r_unlock", "pid")

ReleaseCommand(p) ==
    \/ LockSys(p, "r_lock", "r_set")
    \/ At(p, "r_set") /\ my_lock = NoOne /\ SetHandler(p, "r_set", "r_unlock", f[S(p)])
    \/ UnlockSys(p, "r_unlock", "r_flag")
    \/ SetFlag(p, "r_flag", FALSE)

-----------------------------------------------------------------------------
(* REQUEST_START_MONITORING; root and non-root run the same code *)

StartRead(p) ==
    /\ At(p, "command") /\ Cmd(p) = "START"
    /\ \/ monitored[S(p)] = 2 /\ Return(p, "command", "EBUSY")
       \/ monitored[S(p)] = 1 /\ Jump(p, "command", "scan")
       \/ monitored[S(p)] = 0 /\ Jump(p, "command", "first_lock")

(* The first pid of a list also decides what is monitored. *)
SetMonitored(p, from, to, value) ==
    /\ Go(p, from, to)
    /\ monitored' = [monitored EXCEPT ![S(p)] = value]
    /\ UNCHANGED <<kernelVars, f, intercepted, listVars, lockVars, callVars>>

(* kmalloc may fail; a list head that is still NULL faults with the lock held. *)
Adds(p, from) ==
    \/ /\ At(p, from) /\ ready[S(p)]
       /\ \E n \in Node : pidOf[n] = NoPid /\ AddPidSysc(n, call[p].pid, S(p))
       /\ Go(p, from, "unlock")
       /\ UNCHANGED <<kernelVars, f, intercepted, monitored, ready, lockVars, callVars>>
    \/ JumpWith(p, from, "unlock", "ENOMEM")
    \/ At(p, from) /\ ~ready[S(p)] /\ Fault(p, from)

(* GFP_KERNEL: kmalloc may put the caller to sleep, with the spinlock held.  It
   is woken on a processor that is not taken by a process that spins. *)
Spinning(p) ==
    \/ pc[p] \in {"i_lock", "r_lock"} /\ sys_lock # NoOne
    \/ /\ pc[p] \in {"i_save", "r_set", "add_lock", "first_lock", "del_lock",
                     "clear_lock", "exit_lock"}
       /\ my_lock # NoOne
AllSpin == Cardinality({p \in Proc : Spinning(p)}) >= CPUs

(* Mutant: the error path keeps the lock. *)
StartAddKeepsLock(p) ==
    \/ /\ At(p, "add") /\ ready[S(p)]
       /\ \E n \in Node : pidOf[n] = NoPid /\ AddPidSysc(n, call[p].pid, S(p))
       /\ Go(p, "add", "unlock")
       /\ UNCHANGED <<kernelVars, f, intercepted, monitored, ready, lockVars, callVars>>
    \/ Return(p, "add", "ENOMEM")

StartAdd(p) ==
    \/ Adds(p, "add")
    \/ Jump(p, "add", "asleep")
    \/ ~AllSpin /\ Adds(p, "asleep")

StartCommand(p) ==
    \/ StartRead(p)
    \/ Scan(p, "scan", "return", "add_lock", "EBUSY")
    \/ LockMy(p, "add_lock", "add")
    \/ LockMy(p, "first_lock", "first")
    \/ SetMonitored(p, "first", "add", IF call[p].pid = AllPids THEN 2 ELSE 1)
    \/ StartAdd(p)

(* REQUEST_STOP_MONITORING *)

StopRead(p) ==
    /\ At(p, "command") /\ Cmd(p) = "STOP"
    /\ IF monitored[S(p)] = 0 \/ ~intercepted[S(p)] THEN Return(p, "command", "EINVAL")
       ELSE Jump(p, "command", IF call[p].pid = AllPids THEN "clear_lock" ELSE "del_lock")

StopDelete(p) ==
    /\ At(p, "del")
    /\ \/ /\ ready[S(p)]
          /\ \E n \in NodesOf(call[p].pid, S(p)) : DelPidSysc(n, S(p))
          /\ Go(p, "del", "unlock")
          /\ UNCHANGED <<kernelVars, f, intercepted, ready, lockVars, call, ret, idx, uid, reused>>
       \/ ready[S(p)] /\ ~Listed(p) /\ JumpWith(p, "del", "unlock", "ENOMEM")
       \/ ~ready[S(p)] /\ Fault(p, "del")

StopDestroy(p) ==
    /\ At(p, "destroy")
    /\ \/ /\ ready[S(p)]
          /\ DestroyList(S(p))
          /\ Go(p, "destroy", "unlock")
          /\ UNCHANGED <<kernelVars, f, intercepted, ready, lockVars, call, ret, idx, uid, reused>>
       \/ ~ready[S(p)] /\ Fault(p, "destroy")

StopCommand(p) ==
    \/ StopRead(p)
    \/ LockMy(p, "del_lock", "del")
    \/ StopDelete(p)
    \/ LockMy(p, "clear_lock", "clear")
    \/ SetMonitored(p, "clear", "destroy", 0)
    \/ StopDestroy(p)

(* Both end by dropping my_table_lock, on success and on error. *)
MySyscall(p) ==
    \/ EntryInvalid(p) \/ EntryRoot(p) \/ EntryUser(p) \/ CheckPid(p) \/ CheckOwner(p)
    \/ InterceptCommand(p) \/ ReleaseCommand(p) \/ CommandDone(p)
    \/ StartCommand(p) \/ StopCommand(p)
    \/ UnlockMy(p, "unlock", "return")
    \/ Leave(p, "return", "user")

-----------------------------------------------------------------------------
(* interceptor: the handler of every intercepted system call.  Listed or not,
   and whatever monitored says, the call goes on to f: the difference is a
   line in the log. *)

CallIntercepted(p, s) ==
    /\ TextLoaded /\ sys_call_table[s] = "interceptor"
    /\ Begin(p, "user", "icp", [cmd |-> "syscall", sysc |-> s, pid |-> p])

InterceptorCall(p) ==
    /\ At(p, "icp_call")
    /\ \/ f[S(p)] = "native" /\ Leave(p, "icp_call", IF S(p) = ExitGroup THEN "dead" ELSE "user")
       \/ f[S(p)] = "my_exit_group" /\ Leave(p, "icp_call", "exit_lock")
       \/ f[S(p)] = "interceptor" /\ Jump(p, "icp_call", "icp")
       \/ f[S(p)] \in {"my_syscall", "none"} /\ Fault(p, "icp_call")

InterceptorRun(p) == Scan(p, "icp", "icp_call", "icp_call", "OK") \/ InterceptorCall(p)

(* A handler that is still in the table after its text was freed. *)
CallFreedText(p, s) ==
    pc[Loader] = "gone" /\ sys_call_table[s] # "native" /\ Fault(p, "user")

-----------------------------------------------------------------------------
(* exit_group: my_exit_group, or the kernel's own when it is not hijacked *)

ExitDelPid(p) ==
    \/ /\ At(p, "exit_del")
       /\ \A s \in 1 .. NR - 1 : ready[s]
       /\ DelPid(p)
       /\ Go(p, "exit_del", "exit_unlock")
       /\ UNCHANGED <<kernelVars, f, intercepted, ready, lockVars, call, ret, idx, uid, reused>>
    \/ (\E s \in 1 .. NR - 1 : ~ready[s]) /\ Fault(p, "exit_del")

MyExitGroup(p) ==
    \/ LockMy(p, "exit_lock", "exit_del")
    \/ ExitDelPid(p)
    \/ UnlockMy(p, "exit_unlock", "exit_orig")
    \/ Jump(p, "exit_orig", "dead")

CallExitGroup(p) ==
    \/ TextLoaded /\ sys_call_table[ExitGroup] = "my_exit_group" /\ Jump(p, "user", "exit_lock")
    \/ sys_call_table[ExitGroup] = "native" /\ Jump(p, "user", "dead")

(* The kernel gives the pid to a new process, of any owner. *)
ReusePid(p) ==
    /\ Go(p, "dead", "user")
    /\ uid' \in {[uid EXCEPT ![p] = u] : u \in Uids[p]}
    /\ reused' = [q \in Proc |-> reused[q] \/ call[q].pid = p]
    /\ UNCHANGED <<kernelVars, tableVars, lockVars, call, ret, torn, idx>>

-----------------------------------------------------------------------------
(* init_function and exit_function.  While they run, idx is the table entry
   they are at. *)

Hijack(from, to, s, h) ==
    /\ Go(Loader, from, to)
    /\ orig' = [orig EXCEPT ![s] = sys_call_table[s]]
    /\ sys_call_table' = [sys_call_table EXCEPT ![s] = h]
    /\ UNCHANGED <<writable, tableVars, lockVars, callVars>>

Restore(from, to, s) ==
    /\ Go(Loader, from, to)
    /\ sys_call_table' = [sys_call_table EXCEPT ![s] = orig[s]]
    /\ UNCHANGED <<writable, orig, tableVars, lockVars, callVars>>

(* One pass of the loop over the table at label l: the next entry, or out of
   the loop.  When exit_function returns the module's text is freed, and a
   process that is still inside faults. *)
NextEntry(l, out) ==
    /\ pc[Loader] = l
    /\ my_lock = NoOne
    /\ idx' = (idx + 1) % NR
    /\ pc' = IF idx + 1 < NR THEN pc
             ELSE [a \in Actor |-> IF a = Loader THEN out
                                   ELSE IF out = "gone" /\ InModule(a) THEN "oops" ELSE pc[a]]
    /\ UNCHANGED <<kernelVars, f, lockVars, call, ret, uid, reused>>

InitEntry ==
    /\ NextEntry("ins_table", "live")
    /\ intercepted' = [intercepted EXCEPT ![idx] = FALSE]
    /\ monitored' = [monitored EXCEPT ![idx] = 0]
    /\ listcount' = [listcount EXCEPT ![idx] = 0]
    /\ my_list' = [my_list EXCEPT ![idx] = {}]
    /\ ready' = [ready EXCEPT ![idx] = TRUE]
    /\ UNCHANGED <<pidOf, torn>>

DestroyEntry ==
    /\ NextEntry("rm_table", "gone")
    /\ DestroyList(idx)
    /\ UNCHANGED <<intercepted, ready>>

InitFunction ==
    \/ LockSys(Loader, "absent", "ins_custom")
    \/ Hijack("ins_custom", "ins_exit", Custom, "my_syscall")
    \/ Hijack("ins_exit", "ins_unlock", ExitGroup, "my_exit_group")
    \/ UnlockSys(Loader, "ins_unlock", "ins_table")
    \/ InitEntry

ExitFunction ==
    \/ LockSys(Loader, "live", "rm_custom")
    \/ Restore("rm_custom", "rm_exit", Custom)
    \/ Restore("rm_exit", "rm_unlock", ExitGroup)
    \/ UnlockSys(Loader, "rm_unlock", "rm_table")
    \/ DestroyEntry

-----------------------------------------------------------------------------
(* The specifications *)

Enter(p) ==
    \/ \E c \in Cmds, s \in SyscArgs, pid \in PidArgs : CallMySyscall(p, c, s, pid)
    \/ \E s \in SyscArgs \cap Sysc : CallIntercepted(p, s) \/ CallFreedText(p, s)
    \/ CallExitGroup(p)
    \/ ReusePid(p)

(* A process that is inside the module. *)
Run(p) == MySyscall(p) \/ InterceptorRun(p) \/ MyExitGroup(p)

ProcNext(p) == Enter(p) \/ Run(p)

Next == (\E p \in Proc : ProcNext(p)) \/ InitFunction \/ ExitFunction

Spec == Init /\ [][Next]_vars

(* The module loaded, and no rmmod. *)
ServiceNext == \E p \in Proc : ProcNext(p)
ServiceSpec == LoadedInit /\ [][ServiceNext]_vars

(* A process inside the module keeps running, and the spinlocks are fair: one
   that finds its lock free again and again gets it.  Nothing is assumed of a
   scan that is torn. *)
FairSpec == ServiceSpec /\ \A p \in Proc : SF_vars(Run(p) /\ ~torn[p])
=============================================================================
