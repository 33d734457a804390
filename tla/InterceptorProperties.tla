----------------------- MODULE InterceptorProperties -----------------------
(* What the interceptor promises, whatever the interleaving of its users. *)
EXTENDS Interceptor

SysHeld == {"i_save", "i_set", "i_unlock", "r_set", "r_unlock",
            "ins_custom", "ins_exit", "ins_unlock", "rm_custom", "rm_exit", "rm_unlock"}
MyHeld  == {"first", "add", "asleep", "del", "clear", "destroy", "unlock", "exit_del", "exit_unlock"}
Writing == {"i_set", "r_set", "ins_custom", "ins_exit", "rm_custom", "rm_exit"}

ProcLabels == {"user", "dead", "oops", "return", "entry", "pid", "owner", "command",
               "i_lock", "i_save", "i_set", "i_unlock", "i_flag",
               "r_lock", "r_set", "r_unlock", "r_flag",
               "scan", "add_lock", "first_lock", "first", "add", "asleep", "unlock",
               "del_lock", "del", "clear_lock", "clear", "destroy",
               "icp", "icp_call", "exit_lock", "exit_del", "exit_unlock", "exit_orig"}
LoaderLabels == {"absent", "ins_custom", "ins_exit", "ins_unlock", "ins_table",
                 "live", "rm_custom", "rm_exit", "rm_unlock", "rm_table", "gone"}

KernelTypeOK ==
    /\ sys_call_table \in [Sysc -> Handler \cup {"none"}]
    /\ writable \in BOOLEAN
    /\ orig \in [{Custom, ExitGroup} -> Handler \cup {"none"}]

TableTypeOK ==
    /\ f \in [Sysc -> Handler \cup {"none"}]
    /\ intercepted \in [Sysc -> BOOLEAN]
    /\ monitored \in [Sysc -> 0 .. 2]
    /\ listcount \in [Sysc -> Int]
    /\ my_list \in [Sysc -> SUBSET Node]
    /\ ready \in [Sysc -> BOOLEAN]
    /\ pidOf \in [Node -> Proc \cup {AllPids, BadPid, NoPid}]

LockTypeOK ==
    /\ sys_lock \in Actor \cup {NoOne}
    /\ my_lock \in Actor \cup {NoOne}

PcTypeOK ==
    /\ pc \in [Actor -> ProcLabels \cup LoaderLabels]
    /\ \A p \in Proc : pc[p] \in ProcLabels
    /\ pc[Loader] \in LoaderLabels

CallTypeOK ==
    /\ call \in [Proc -> [cmd : Cmds \cup {"none", "syscall"}, sysc : Int,
                          pid : Proc \cup {AllPids, BadPid}]]
    /\ ret \in [Proc -> Codes]
    /\ torn \in [Proc -> BOOLEAN]
    /\ idx \in Sysc
    /\ uid \in [Proc -> Nat]
    /\ reused \in [Proc -> BOOLEAN]

(* Every variable stays in its domain. *)
TypeOK == KernelTypeOK /\ TableTypeOK /\ LockTypeOK /\ PcTypeOK /\ CallTypeOK

(* The two spinlocks (interceptor.c:82-83) exclude: code written to run under
   a lock runs only in its holder, and a process that is out of that code, on
   whatever return path (349-350), has dropped it; only a process that faulted
   keeps a lock.  So no one takes sys_call_table_lock holding my_table_lock. *)
LockDiscipline ==
    \A a \in Actor :
        /\ pc[a] \in SysHeld => sys_lock = a
        /\ pc[a] \in MyHeld => my_lock = a
        /\ sys_lock = a => pc[a] \in SysHeld \cup {"oops"}
        /\ my_lock = a => pc[a] \in MyHeld \cup {"oops"}

(* No process writes sys_call_table through a read-only page, whatever the
   others do, and the page is writable only while sys_call_table_lock is held
   (interceptor.c:342-344). *)
TableProtection ==
    /\ \A a \in Actor :
         pc[a] \in Writing => writable
    /\ writable => sys_lock # NoOne

(* listcount is the number of pids in the list (interceptor.c:66-67), on which
   del_pid_sysc and del_pid rely to switch monitoring off. *)
CountMatchesList == \A s \in Sysc : listcount[s] = Cardinality(my_list[s])

(* Every pid_list object that was allocated is in exactly one list and no
   list holds a freed one: nothing leaks, nothing is freed twice. *)
NodesAccounted ==
    \A n \in Node :
        /\ pidOf[n] # NoPid <=> \E s \in Sysc : n \in my_list[s]
        /\ \A s, t \in Sysc : n \in my_list[s] /\ n \in my_list[t] => s = t

(* No system call loses its handler: RELEASE never installs a pointer that was
   not saved, and interceptor always has something to call, because the
   handler was saved before interceptor took its place (interceptor.c:346). *)
SavedBeforeReplaced ==
    \A s \in Sysc : /\ sys_call_table[s] # "none"
                    /\ sys_call_table[s] = "interceptor" => f[s] # "none"

(* my_exit_group removes the exiting pid from every list, however often it
   was added (interceptor.c:238-242): when it drops the lock none is left. *)
ExitCleansLists ==
    \A p \in Proc : pc[p] = "exit_unlock" => \A s \in Sysc : NodesOf(p, s) = {}

(* Only root redirects a system call, and a pid is added to a list only by
   root or by a process of the same owner (interceptor.c:317-325), unless the
   pid was given to a new process between the check of the owner (493) and the
   insertion (504, 519): nothing holds the process that was checked. *)
Authorised ==
    [][/\ \A s \in Sysc : sys_call_table'[s] # sys_call_table[s] =>
             \E a \in Actor : sys_lock = a /\ (a = Loader \/ Root(a))
       /\ \A s \in Sysc : \A n \in my_list'[s] \ my_list[s] :
             \E p \in Proc : /\ my_lock = p
                            /\ \/ Root(p)
                               \/ /\ pidOf'[n] \in Proc
                                  /\ uid[pidOf'[n]] = uid[p] \/ reused[p]
      ]_vars

-----------------------------------------------------------------------------
(* With one process of root, and the module loaded *)

Original(s) == IF s = ExitGroup THEN "my_exit_group" ELSE "native"

(* A call always reaches the handler that was there before, directly or
   through interceptor and the saved pointer: interceptor never saves or calls
   itself (interceptor.c:346, "make sure to save the original system call"). *)
OriginalReachable ==
    \A s \in Sysc \ {Custom} :
        \/ sys_call_table[s] = Original(s)
        \/ sys_call_table[s] = "interceptor" /\ f[s] = Original(s)

(* table[s].intercepted (interceptor.c:61-62), written and tested outside every
   lock, tells what sys_call_table holds unless a command is about to set it. *)
FlagsTellRouting ==
    \A s \in Sysc \ {Custom} :
        \/ \E p \in Proc : pc[p] \in {"i_unlock", "i_flag", "r_unlock", "r_flag"} /\ S(p) = s
        \/ intercepted[s] <=> sys_call_table[s] = "interceptor"

(* Every call into the module ends: it returns, or its process exits or is
   killed.  No process waits forever for a spinlock or in interceptor, but for
   two hazards of the code: a list scan from under which a node was freed, and
   a kmalloc (interceptor.c:100) that sleeps with my_table_lock held while all
   the processors spin for a lock. *)
Stalled == AllSpin /\ \E q \in Proc : pc[q] = "asleep"
EveryCallEnds == \A p \in Proc : InModule(p) ~> ~InModule(p) \/ torn[p] \/ Stalled

(* For root's two table commands the module is the service of
   InterceptService, whose requests take effect in one step. *)
TableCommand(p) ==
    Root(p) /\ Cmd(p) \in {"INTERCEPT", "RELEASE"} /\ ValidSysc(p) /\ InModule(p)

Phase(p) ==
    IF ~TableCommand(p) THEN "idle"
    ELSE IF pc[p] = "return" THEN "answered"
    ELSE IF pc[p] \in {"entry", "i_lock", "i_save", "i_set", "r_lock", "r_set"} THEN "asked"
    ELSE "done"

Service == INSTANCE InterceptService WITH
    Client  <- Proc,
    Target  <- Sysc \ {Custom},
    on      <- [s \in Sysc \ {Custom} |-> sys_call_table[s] = "interceptor"],
    phase   <- [p \in Proc |-> Phase(p)],
    request <- [p \in Proc |-> IF TableCommand(p) THEN [cmd |-> Cmd(p), sysc |-> S(p)]
                               ELSE [cmd |-> "none", sysc |-> Custom]],
    answer  <- [p \in Proc |-> IF Phase(p) = "answered" THEN ret[p] ELSE "OK"]

ImplementsService == Service!Spec

-----------------------------------------------------------------------------
(* What the comments of interceptor.c promise and some run of the code breaks *)

(* "we must intercept the exit_group system call so that we can remove the
   exiting process's pid from *all* syscall lists" (interceptor.c:236-238). *)
ExitedNotListed ==
    \A p \in Proc : pc[p] = "dead" => \A s \in Sysc : NodesOf(p, s) = {}

(* "Make sure to deintercept all syscalls" (interceptor.c:631): once
   exit_function has returned, and even if it caught nobody inside the module,
   no handler of the module is in the table. *)
UnloadDeintercepts ==
    pc[Loader] = "gone" /\ (\A p \in Proc : pc[p] # "oops") =>
        \A s \in Sysc : sys_call_table[s] = "native"
=============================================================================
