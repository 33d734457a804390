---------------------- MODULE InterceptorServiceProofs ----------------------
(* What the checks at the entry of my_syscall are worth: only root redirects a
   system call, and a pid is added to a list only by root or its owner.  And
   with one process of root, a call always reaches the handler it had, the flag
   tells the routing, and INTERCEPT and RELEASE are the atomic requests of
   InterceptService.  For any processes, system calls and nodes. *)
EXTENDS InterceptorProofs

USE ConstantsAssumption DEF Custom

-----------------------------------------------------------------------------
(* What my_syscall has established of its arguments c when it is at label l,
   where u are the uids and r tells whose checked pid was given to another
   process: each command is run only under its own labels, INTERCEPT and
   RELEASE only by root (interceptor.c:309-316), and past check_pids_same_owner
   the pid is one the caller may name (317-325). *)

InterceptLabels == {"i_lock", "i_save", "i_set", "i_unlock", "i_flag"}
ReleaseLabels   == {"r_lock", "r_set", "r_unlock", "r_flag"}
TableLabels     == InterceptLabels \cup ReleaseLabels
AddLabels       == {"scan", "add_lock", "first_lock", "first", "add", "asleep"}
DropLabels      == {"del_lock", "del", "clear_lock", "clear", "destroy"}

MayName(u, r, p, pid) == u[p] = 0 \/ (pid \in Proc /\ (u[pid] = u[p] \/ r[p]))

Admitted(u, r, p, l, c) ==
    /\ l \in {"user", "dead", "exit_lock", "exit_del", "exit_unlock", "exit_orig"} => c.cmd = "none"
    /\ l \in {"icp", "icp_call"} => c.cmd = "syscall"
    /\ l \in InterceptLabels => u[p] = 0 /\ c.cmd = "INTERCEPT"
    /\ l \in ReleaseLabels => u[p] = 0 /\ c.cmd = "RELEASE"
    /\ l \in AddLabels => c.cmd = "START"
    /\ l \in DropLabels => c.cmd = "STOP"
    /\ l = "unlock" => c.cmd \in {"START", "STOP"}
    /\ l = "pid" => u[p] = 0 \/ c.pid # AllPids
    /\ l = "owner" => u[p] # 0 /\ c.pid \in Proc
    /\ l \in {"command"} \cup AddLabels => MayName(u, r, p, c.pid)

(* The inductive invariant of the callers. *)
Callers == \A p \in Proc : uid[p] \in Uids[p] /\ Admitted(uid, reused, p, pc[p], call[p])

(* A step of p changes at most its own uid, and then those who checked its pid
   are marked. *)
OwnersStep(p) ==
    /\ uid[p] \in Uids[p] => uid'[p] \in Uids[p]
    /\ \A q \in Proc : q # p => /\ uid'[q] = uid[q]
                                /\ reused[q] => reused'[q]
                                /\ call[q].pid = p => uid'[p] = uid[p] \/ reused'[q]

(* A step of p from l to m, with what it does to its call. *)
CallerStep(p, l, m) ==
    /\ Go(p, l, m)
    /\ OwnersStep(p)
    /\ \E c : /\ call' = [call EXCEPT ![p] = c]
              /\ Admitted(uid, reused, p, l, call[p]) => Admitted(uid', reused', p, m, c)

LEMMA AdmittedAfter ==
    ASSUME TypeOK, Callers, NEW p \in Proc, NEW l, NEW m, CallerStep(p, l, m)
    PROVE  Callers'
<1> SUFFICES ASSUME NEW q \in Proc
             PROVE  uid'[q] \in Uids[q] /\ Admitted(uid', reused', q, pc'[q], call'[q])
  BY DEF Callers
<1>1. /\ pc[p] = l /\ pc'[p] = m
      /\ \A b \in Proc : b # p => pc'[b] = pc[b]
  BY PcAfter DEF CallerStep, Actor
<1>2. PICK c : /\ call' = [call EXCEPT ![p] = c]
               /\ Admitted(uid, reused, p, l, call[p]) => Admitted(uid', reused', p, m, c)
  BY DEF CallerStep
<1>3. /\ call'[p] = c
      /\ \A b \in Proc : b # p => call'[b] = call[b]
  BY <1>2 DEF TypeOK, CallTypeOK
<1>4. CASE q = p
  BY <1>1, <1>2, <1>3, <1>4 DEF Callers, CallerStep, OwnersStep
<1>5. CASE q # p
  <2>1. /\ uid'[q] = uid[q] /\ (reused[q] => reused'[q])
        /\ call[q].pid = p => uid'[p] = uid[p] \/ reused'[q]
        /\ \A b \in Proc : b # p => uid'[b] = uid[b]
    BY <1>5 DEF CallerStep, OwnersStep
  <2>2. Admitted(uid, reused, q, pc[q], call[q]) /\ uid[q] \in Uids[q]
    BY DEF Callers
  <2>3. MayName(uid, reused, q, call[q].pid) => MayName(uid', reused', q, call[q].pid)
    BY <2>1 DEF MayName
  <2>4. Admitted(uid', reused', q, pc[q], call[q])
    BY <2>1, <2>2, <2>3 DEF Admitted
  <2> QED
    BY <1>1, <1>3, <1>5, <2>1, <2>2, <2>4
<1> QED
  BY <1>4, <1>5

LEMMA SameCall ==
    ASSUME TypeOK, NEW p \in Proc, NEW l, NEW m, Go(p, l, m), UNCHANGED <<call, uid, reused>>,
           Admitted(uid, reused, p, l, call[p]) => Admitted(uid, reused, p, m, call[p])
    PROVE  CallerStep(p, l, m)
<1>1. call' = [call EXCEPT ![p] = call[p]]
  BY DEF TypeOK, CallTypeOK
<1>2. OwnersStep(p)
  BY DEF OwnersStep
<1> QED
  BY <1>1, <1>2 DEF CallerStep

LEMMA NewCall ==
    ASSUME TypeOK, NEW p \in Proc, NEW l, NEW m, NEW c, Begin(p, l, m, c),
           Admitted(uid, reused, p, m, c), m \notin {"command"} \cup AddLabels
    PROVE  CallerStep(p, l, m)
<1>1. uid' = uid /\ \A q \in Proc : q # p => reused'[q] = reused[q]
  BY DEF Begin, TypeOK, CallTypeOK
<1>2. OwnersStep(p)
  BY <1>1 DEF OwnersStep
<1>3. Admitted(uid', reused', p, m, c)
  BY <1>1 DEF Admitted
<1> QED
  BY <1>2, <1>3 DEF Begin, CallerStep

(* Returning and faulting need nothing. *)
LEMMA AlwaysAdmitted ==
    ASSUME NEW u, NEW r, NEW p, NEW c
    PROVE  Admitted(u, r, p, "return", c) /\ Admitted(u, r, p, "oops", c) /\ Admitted(u, r, p, "entry", c)
BY DEF Admitted, InterceptLabels, ReleaseLabels, AddLabels, DropLabels

-----------------------------------------------------------------------------
(* The steps of a process that change neither the table nor the flags. *)

Plain(p, l, m) ==
    /\ CallerStep(p, l, m)
    /\ UNCHANGED <<sys_call_table, f, intercepted>>
    /\ \A q \in Proc : q # p => ret'[q] = ret[q]

LEMMA PlainMove ==
    ASSUME TypeOK, NEW p \in Proc, NEW l, NEW m,
           Jump(p, l, m) \/ \E c : JumpWith(p, l, m, c),
           Admitted(uid, reused, p, l, call[p]) => Admitted(uid, reused, p, m, call[p])
    PROVE  Plain(p, l, m) /\ call' = call
<1>1. Go(p, l, m) /\ UNCHANGED <<sys_call_table, f, intercepted, call, uid, reused>>
  BY DEF Jump, JumpWith, kernelVars, tableVars, callVars
<1>2. \A q \in Proc : q # p => ret'[q] = ret[q]
  BY DEF Jump, JumpWith, callVars, TypeOK, CallTypeOK
<1> QED
  BY <1>1, <1>2, SameCall DEF Plain

LEMMA PlainBegin ==
    ASSUME TypeOK, NEW p \in Proc, NEW l, NEW m, NEW c, Begin(p, l, m, c),
           Admitted(uid, reused, p, m, c), m \notin {"command"} \cup AddLabels
    PROVE  Plain(p, l, m)
<1>1. UNCHANGED <<sys_call_table, f, intercepted>>
  BY DEF Begin, kernelVars, tableVars
<1>2. \A q \in Proc : q # p => ret'[q] = ret[q]
  BY DEF Begin, TypeOK, CallTypeOK
<1> QED
  BY <1>1, <1>2, NewCall DEF Plain

LEMMA PlainLock ==
    ASSUME TypeOK, NEW p \in Proc, NEW l, NEW m,
           LockSys(p, l, m) \/ UnlockSys(p, l, m) \/ LockMy(p, l, m) \/ UnlockMy(p, l, m),
           Admitted(uid, reused, p, l, call[p]) => Admitted(uid, reused, p, m, call[p])
    PROVE  Plain(p, l, m) /\ call' = call
<1>1. Go(p, l, m) /\ UNCHANGED <<sys_call_table, f, intercepted, call, ret, uid, reused>>
  BY DEF LockSys, UnlockSys, LockMy, UnlockMy, kernelVars, tableVars, callVars
<1> QED
  BY <1>1, SameCall DEF Plain

LEMMA PlainScan ==
    ASSUME TypeOK, NEW p \in Proc, NEW l, NEW hit, NEW miss, NEW c, Scan(p, l, hit, miss, c),
           Admitted(uid, reused, p, l, call[p]) => Admitted(uid, reused, p, hit, call[p]) /\ Admitted(uid, reused, p, miss, call[p])
    PROVE  \E m \in {hit, miss, "oops"} : Plain(p, l, m) /\ call' = call
<1>1. CASE Fault(p, l)
  BY <1>1, PlainMove, AlwaysAdmitted DEF Fault
<1>2. CASE ~Fault(p, l)
  <2>1. PICK m \in {hit, miss} : Go(p, l, m)
    BY <1>2 DEF Scan
  <2>2. UNCHANGED <<sys_call_table, f, intercepted, call, uid, reused>>
    BY <1>2 DEF Scan, kernelVars, tableVars
  <2>3. \A q \in Proc : q # p => ret'[q] = ret[q]
    BY <1>2 DEF Scan, TypeOK, CallTypeOK
  <2> QED
    BY <2>1, <2>2, <2>3, SameCall DEF Plain
<1> QED
  BY <1>1, <1>2

(* A pid that is given to another process, and one whose owner is found right. *)
LEMMA PlainReuse ==
    ASSUME TypeOK, NEW p \in Proc, ReusePid(p)
    PROVE  Plain(p, "dead", "user")
<1>1. PICK u \in Uids[p] : uid' = [uid EXCEPT ![p] = u]
  BY DEF ReusePid
<1>2. uid'[p] \in Uids[p] /\ \A q \in Proc : q # p => uid'[q] = uid[q]
  BY <1>1 DEF TypeOK, CallTypeOK
<1>3. \A q \in Proc : /\ reused[q] => reused'[q]
                      /\ call[q].pid = p => reused'[q]
  BY DEF ReusePid
<1>4. OwnersStep(p)
  BY <1>2, <1>3 DEF OwnersStep
<1>5. call' = [call EXCEPT ![p] = call[p]]
  BY DEF ReusePid, TypeOK, CallTypeOK
<1>6. Admitted(uid, reused, p, "dead", call[p]) => Admitted(uid', reused', p, "user", call[p])
  BY DEF Admitted, InterceptLabels, ReleaseLabels, AddLabels, DropLabels
<1>7. CallerStep(p, "dead", "user")
  BY <1>4, <1>5, <1>6 DEF CallerStep, ReusePid
<1> QED
  BY <1>7 DEF Plain, ReusePid, kernelVars, tableVars

LEMMA PlainPass ==
    ASSUME TypeOK, NEW p \in Proc, PassOwner(p), uid[call[p].pid] = uid[p]
    PROVE  Plain(p, "owner", "command")
<1>1. uid' = uid /\ \A q \in Proc : q # p => reused'[q] = reused[q]
  BY DEF PassOwner, TypeOK, CallTypeOK
<1>2. OwnersStep(p)
  BY <1>1 DEF OwnersStep
<1>3. call' = [call EXCEPT ![p] = call[p]]
  BY DEF PassOwner, TypeOK, CallTypeOK
<1>4. Admitted(uid, reused, p, "owner", call[p]) => Admitted(uid', reused', p, "command", call[p])
  BY <1>1 DEF Admitted, MayName, InterceptLabels, ReleaseLabels, AddLabels, DropLabels
<1>5. CallerStep(p, "owner", "command")
  BY <1>2, <1>3, <1>4 DEF CallerStep, PassOwner
<1> QED
  BY <1>5 DEF Plain, PassOwner, kernelVars, tableVars

(* START and STOP. *)
Monitoring(p) ==
    \E l, m : /\ Plain(p, l, m) /\ {l, m} \cap TableLabels = {}
              /\ call' = call
              /\ Admitted(uid, reused, p, l, call[p]) => Cmd(p) \in {"START", "STOP"}

LEMMA MonitoringMove ==
    ASSUME NEW p, NEW l, NEW m, Plain(p, l, m), call' = call,
           l \in AddLabels \cup DropLabels \cup {"unlock"} \/ Cmd(p) \in {"START", "STOP"},
           {l, m} \cap TableLabels = {}
    PROVE  Monitoring(p)
<1>1. Admitted(uid, reused, p, l, call[p]) => Cmd(p) \in {"START", "STOP"}
  BY DEF Admitted, Cmd, AddLabels, DropLabels
<1> QED
  BY <1>1 DEF Monitoring

LEMMA MonitorCommandCaller ==
    ASSUME TypeOK, NEW p \in Proc, StartCommand(p) \/ StopCommand(p)
    PROVE  Monitoring(p)
<1> USE DEF TableLabels, InterceptLabels, ReleaseLabels, AddLabels, DropLabels
<1>1. ASSUME NEW l \in AddLabels \cup DropLabels, NEW m \in {"unlock", "return", "oops"},
             Jump(p, l, m) \/ \E c : JumpWith(p, l, m, c)
      PROVE  Monitoring(p)
  <2>1. Admitted(uid, reused, p, l, call[p]) => Admitted(uid, reused, p, m, call[p])
    BY AlwaysAdmitted DEF Admitted
  <2> QED
    BY <1>1, <2>1, PlainMove, MonitoringMove
<1>2. CASE StartRead(p)
  <2>1. ASSUME NEW m \in {"return", "scan", "first_lock"}, Cmd(p) = "START",
               Jump(p, "command", m) \/ \E c : JumpWith(p, "command", m, c)
        PROVE  Monitoring(p)
    <3>1. Admitted(uid, reused, p, "command", call[p]) => Admitted(uid, reused, p, m, call[p])
      BY <2>1 DEF Admitted, Cmd
    <3> QED
      BY <2>1, <3>1, PlainMove, MonitoringMove
  <2> QED
    BY <1>2, <2>1 DEF StartRead, Return
<1>3. CASE StopRead(p)
  <2>1. ASSUME NEW m \in {"return", "clear_lock", "del_lock"}, Cmd(p) = "STOP",
               Jump(p, "command", m) \/ \E c : JumpWith(p, "command", m, c)
        PROVE  Monitoring(p)
    <3>1. Admitted(uid, reused, p, "command", call[p]) => Admitted(uid, reused, p, m, call[p])
      BY <2>1 DEF Admitted, Cmd
    <3> QED
      BY <2>1, <3>1, PlainMove, MonitoringMove
  <2> QED
    BY <1>3, <2>1 DEF StopRead, Return
<1>4. CASE Scan(p, "scan", "return", "add_lock", "EBUSY")
  <2>1. Admitted(uid, reused, p, "scan", call[p]) => Admitted(uid, reused, p, "return", call[p]) /\ Admitted(uid, reused, p, "add_lock", call[p])
    BY DEF Admitted
  <2>2. PICK m \in {"return", "add_lock", "oops"} : Plain(p, "scan", m) /\ call' = call
    BY <1>4, <2>1, PlainScan
  <2> QED
    BY <2>2, MonitoringMove
<1>5. ASSUME NEW l \in {"add_lock", "first_lock", "del_lock", "clear_lock"},
             NEW m \in {"add", "first", "del", "clear"}, LockMy(p, l, m),
             m \in AddLabels <=> l \in AddLabels
      PROVE  Monitoring(p)
  <2>1. Admitted(uid, reused, p, l, call[p]) => Admitted(uid, reused, p, m, call[p])
    BY <1>5 DEF Admitted
  <2> QED
    BY <1>5, <2>1, PlainLock, MonitoringMove
<1>6. ASSUME NEW l \in AddLabels \cup DropLabels, NEW m \in {"add", "destroy", "unlock"},
             m = "add" => l = "first", m = "destroy" => l = "clear",
             Go(p, l, m), UNCHANGED <<kernelVars, f, intercepted, call, ret, uid, reused>>
      PROVE  Monitoring(p)
  <2>1. Admitted(uid, reused, p, l, call[p]) => Admitted(uid, reused, p, m, call[p])
    BY <1>6 DEF Admitted
  <2>2. Plain(p, l, m)
    BY <1>6, <2>1, SameCall DEF Plain, kernelVars
  <2> QED
    BY <1>6, <2>2, MonitoringMove
<1>7. ASSUME NEW v, SetMonitored(p, "first", "add", v) \/ SetMonitored(p, "clear", "destroy", v)
      PROVE  Monitoring(p)
  BY <1>6, <1>7 DEF SetMonitored, callVars
<1>11. ASSUME Jump(p, "add", "asleep")
       PROVE  Monitoring(p)
  <2>1. Admitted(uid, reused, p, "add", call[p]) => Admitted(uid, reused, p, "asleep", call[p])
    BY DEF Admitted
  <2> QED
    BY <1>11, <2>1, PlainMove, MonitoringMove
<1>12. ASSUME NEW l \in {"add", "asleep"}, Adds(p, l)
       PROVE  Monitoring(p)
  BY <1>1, <1>6, <1>12 DEF Adds, Fault, callVars
<1>8. CASE StartAdd(p)
  BY <1>8, <1>11, <1>12 DEF StartAdd
<1>9. CASE StopDelete(p)
  BY <1>1, <1>6, <1>9 DEF StopDelete, Fault
<1>10. CASE StopDestroy(p)
  BY <1>1, <1>6, <1>10 DEF StopDestroy, Fault
<1> QED
  BY <1>2, <1>3, <1>4, <1>5, <1>7, <1>8, <1>9, <1>10 DEF StartCommand, StopCommand

LEMMA UnlockCaller ==
    ASSUME TypeOK, NEW p \in Proc, UnlockMy(p, "unlock", "return")
    PROVE  Monitoring(p)
<1>1. Plain(p, "unlock", "return") /\ call' = call
  BY PlainLock, AlwaysAdmitted
<1> QED
  BY <1>1, MonitoringMove DEF TableLabels, InterceptLabels, ReleaseLabels

(* Calling, running interceptor and exiting: no label that a table command
   passes, but for the entry itself. *)
Answering == {"entry", "pid", "command", "return"}

Distant(p) == \E l, m : Plain(p, l, m) /\ {l, m} \cap (TableLabels \cup Answering) = {}

CallTo(p) == \E c \in Cmds, s \in SyscArgs, pid \in PidArgs : CallMySyscall(p, c, s, pid)

LEMMA OtherCallsCaller ==
    ASSUME TypeOK, NEW p \in Proc, Enter(p) \/ InterceptorRun(p) \/ MyExitGroup(p), ~CallTo(p)
    PROVE  Distant(p)
<1> USE DEF TableLabels, InterceptLabels, ReleaseLabels, AddLabels, DropLabels, Answering
<1> DEFINE Away == {"user", "dead", "exit_lock", "exit_del", "exit_unlock", "exit_orig"}
<1>0. NoCall.cmd = "none"
  BY DEF NoCall
<1>1. ASSUME NEW l \in Away, NEW m \in Away \cup {"oops"}, Jump(p, l, m) \/ LockMy(p, l, m) \/ UnlockMy(p, l, m)
      PROVE  Distant(p)
  <2>1. Admitted(uid, reused, p, l, call[p]) => Admitted(uid, reused, p, m, call[p])
    BY DEF Admitted
  <2> QED
    BY <1>1, <2>1, PlainMove, PlainLock DEF Distant
<1>2. CASE CallExitGroup(p) \/ \E s \in SyscArgs \cap Sysc : CallFreedText(p, s)
  BY <1>1, <1>2 DEF CallExitGroup, CallFreedText, Fault
<1>8. CASE ReusePid(p)
  BY <1>8, PlainReuse DEF Distant
<1>3. CASE \E s \in SyscArgs \cap Sysc : CallIntercepted(p, s)
  <2>1. PICK c : Begin(p, "user", "icp", c) /\ c.cmd = "syscall"
    BY <1>3 DEF CallIntercepted
  <2>2. Admitted(uid, reused, p, "icp", c)
    BY <2>1 DEF Admitted
  <2> QED
    BY <2>1, <2>2, PlainBegin DEF Distant
<1>4. CASE Scan(p, "icp", "icp_call", "icp_call", "OK")
  <2>1. Admitted(uid, reused, p, "icp", call[p]) => Admitted(uid, reused, p, "icp_call", call[p])
    BY DEF Admitted
  <2>2. PICK m \in {"icp_call", "oops"} : Plain(p, "icp", m)
    BY <1>4, <2>1, PlainScan
  <2> QED
    BY <2>2 DEF Distant
<1>5. CASE InterceptorCall(p)
  <2>1. ASSUME NEW m \in Away, Leave(p, "icp_call", m)
        PROVE  Distant(p)
    <3>1. Admitted(uid, reused, p, m, NoCall)
      BY <1>0 DEF Admitted
    <3> QED
      BY <2>1, <3>1, PlainBegin DEF Leave, Distant
  <2>2. ASSUME NEW m \in {"icp", "oops"}, Jump(p, "icp_call", m)
        PROVE  Distant(p)
    <3>1. Admitted(uid, reused, p, "icp_call", call[p]) => Admitted(uid, reused, p, m, call[p])
      BY DEF Admitted
    <3> QED
      BY <2>2, <3>1, PlainMove DEF Distant
  <2> QED
    BY <1>5, <2>1, <2>2 DEF InterceptorCall, Fault
<1>6. CASE ExitDelPid(p)
  <2>1. CASE Fault(p, "exit_del")
    BY <1>1, <2>1 DEF Fault
  <2>2. CASE ~Fault(p, "exit_del")
    <3>1. Go(p, "exit_del", "exit_unlock") /\ UNCHANGED <<kernelVars, f, intercepted, call, ret, uid, reused>>
      BY <1>6, <2>2 DEF ExitDelPid
    <3>2. Admitted(uid, reused, p, "exit_del", call[p]) => Admitted(uid, reused, p, "exit_unlock", call[p])
      BY DEF Admitted
    <3>3. Plain(p, "exit_del", "exit_unlock")
      BY <3>1, <3>2, SameCall DEF Plain, kernelVars
    <3> QED
      BY <3>3 DEF Distant
  <2> QED
    BY <2>1, <2>2
<1>7. CASE MyExitGroup(p) /\ ~ExitDelPid(p)
  BY <1>1, <1>7 DEF MyExitGroup
<1> QED
  BY <1>2, <1>3, <1>4, <1>5, <1>6, <1>7, <1>8 DEF Enter, InterceptorRun, MyExitGroup, CallTo

(* The checks.  A command gets to the table only past the test of its flag. *)
Turns(p, l, m) ==
    m \in TableLabels =>
        /\ call' = call /\ ValidSysc(p)
        /\ \/ m = "i_lock" /\ ~intercepted[S(p)]
           \/ m = "r_lock" /\ intercepted[S(p)]

Checking(p) == \E l, m : Plain(p, l, m) /\ l \notin TableLabels /\ Turns(p, l, m)

LEMMA ChecksCaller ==
    ASSUME TypeOK, NEW p \in Proc,
           \/ EntryInvalid(p) \/ EntryRoot(p) \/ EntryUser(p) \/ CheckPid(p)
           \/ CheckOwner(p) \/ CommandDone(p) \/ Leave(p, "return", "user") \/ CallTo(p)
    PROVE  Checking(p)
<1> USE DEF TableLabels, InterceptLabels, ReleaseLabels, AddLabels, DropLabels
<1>1. ASSUME NEW l \in Answering \cup {"owner"}, NEW m, m \notin TableLabels,
             Admitted(uid, reused, p, l, call[p]) => Admitted(uid, reused, p, m, call[p]),
             Jump(p, l, m) \/ \E c : JumpWith(p, l, m, c)
      PROVE  Checking(p)
  BY <1>1, PlainMove DEF Checking, Turns, Answering
<1>2. ASSUME NEW l \in Answering \cup {"owner"}, Fault(p, l) \/ \E c : Return(p, l, c)
      PROVE  Checking(p)
  BY <1>1, <1>2, AlwaysAdmitted DEF Fault, Return
<1>3. CASE EntryInvalid(p) \/ CommandDone(p)
  BY <1>2, <1>3 DEF EntryInvalid, CommandDone, Answering
<1>4. CASE EntryRoot(p)
  <2>1. ASSUME Jump(p, "entry", "i_lock"), ValidSysc(p), Root(p), Cmd(p) = "INTERCEPT", ~intercepted[S(p)]
        PROVE  Checking(p)
    <3>1. Admitted(uid, reused, p, "i_lock", call[p])
      BY <2>1 DEF Admitted, Cmd, Root
    <3>2. call' = call
      BY <2>1 DEF Jump, callVars
    <3> QED
      BY <2>1, <3>1, <3>2, PlainMove DEF Checking, Turns
  <2>2. ASSUME Jump(p, "entry", "r_lock"), ValidSysc(p), Root(p), Cmd(p) = "RELEASE", intercepted[S(p)]
        PROVE  Checking(p)
    <3>1. Admitted(uid, reused, p, "r_lock", call[p])
      BY <2>2 DEF Admitted, Cmd, Root
    <3>2. call' = call
      BY <2>2 DEF Jump, callVars
    <3> QED
      BY <2>2, <3>1, <3>2, PlainMove DEF Checking, Turns
  <2>3. ASSUME Jump(p, "entry", "pid"), Root(p)
        PROVE  Checking(p)
    <3>1. Admitted(uid, reused, p, "pid", call[p])
      BY <2>3 DEF Admitted, Root
    <3> QED
      BY <1>1, <2>3, <3>1 DEF Answering
  <2>4. "entry" \in Answering \cup {"owner"}
    BY DEF Answering
  <2> QED
    BY <1>2, <1>4, <2>1, <2>2, <2>3, <2>4 DEF EntryRoot
<1>5. CASE EntryUser(p)
  <2>1. ASSUME Jump(p, "entry", "pid"), call[p].pid # AllPids
        PROVE  Checking(p)
    <3>1. Admitted(uid, reused, p, "pid", call[p])
      BY <2>1 DEF Admitted
    <3> QED
      BY <1>1, <2>1, <3>1 DEF Answering
  <2> QED
    BY <1>2, <1>5, <2>1 DEF EntryUser, Answering
<1>6. CASE CheckPid(p)
  <2>1. CASE ~PidExists(call[p].pid)
    BY <1>2, <1>6, <2>1 DEF CheckPid, Answering
  <2>2. CASE PidExists(call[p].pid) /\ Root(p)
    <3>1. Admitted(uid, reused, p, "command", call[p])
      BY <2>2 DEF Admitted, MayName, Root
    <3> QED
      BY <1>1, <1>6, <2>2, <3>1 DEF CheckPid, Answering
  <2>3. CASE PidExists(call[p].pid) /\ ~Root(p)
    <3>1. Admitted(uid, reused, p, "pid", call[p]) => Admitted(uid, reused, p, "owner", call[p])
      BY <2>3 DEF Admitted, PidExists, Root
    <3> QED
      BY <1>1, <1>6, <2>3, <3>1 DEF CheckPid, Answering
  <2> QED
    BY <2>1, <2>2, <2>3
<1>7. CASE CheckOwner(p)
  <2>1. ASSUME uid[call[p].pid] = uid[p], PassOwner(p)
        PROVE  Checking(p)
    BY <2>1, PlainPass DEF Checking, Turns
  <2> QED
    BY <1>2, <1>7, <2>1 DEF CheckOwner
<1>8. CASE Leave(p, "return", "user")
  <2>1. Admitted(uid, reused, p, "user", NoCall)
    BY DEF Admitted, NoCall
  <2>2. Plain(p, "return", "user")
    BY <1>8, <2>1, PlainBegin DEF Leave
  <2> QED
    BY <2>2 DEF Checking, Turns
<1>9. CASE CallTo(p)
  <2>1. PICK c : Begin(p, "user", "entry", c)
    BY <1>9 DEF CallTo, CallMySyscall
  <2>2. Plain(p, "user", "entry")
    BY <2>1, AlwaysAdmitted, PlainBegin
  <2> QED
    BY <2>2 DEF Checking, Turns
<1> QED
  BY <1>3, <1>4, <1>5, <1>6, <1>7, <1>8, <1>9

(* INTERCEPT and RELEASE from the lock to the flag. *)
LEMMA TableCommandCaller ==
    ASSUME TypeOK, NEW p \in Proc, InterceptCommand(p) \/ ReleaseCommand(p)
    PROVE  /\ UNCHANGED <<call, ret, uid, my_list>>
           /\ \E l, m : CallerStep(p, l, m) /\ l \in TableLabels /\ m \in TableLabels \cup {"pid"}
<1> USE DEF TableLabels, InterceptLabels, ReleaseLabels, AddLabels, DropLabels
<1>1. UNCHANGED <<call, ret, uid, reused, my_list>>
  BY DEF InterceptCommand, ReleaseCommand, LockSys, UnlockSys, SaveOriginal, SetHandler, SetFlag,
         tableVars, listVars, callVars
<1>2. \/ \E l \in InterceptLabels, m \in InterceptLabels \cup {"pid"} : Go(p, l, m)
      \/ \E l \in ReleaseLabels, m \in ReleaseLabels \cup {"pid"} : Go(p, l, m)
  BY DEF InterceptCommand, ReleaseCommand, LockSys, UnlockSys, SaveOriginal, SetHandler, SetFlag
<1>3. ASSUME NEW l \in InterceptLabels, NEW m \in InterceptLabels \cup {"pid"}, Go(p, l, m)
      PROVE  CallerStep(p, l, m)
  <2>1. Admitted(uid, reused, p, l, call[p]) => Admitted(uid, reused, p, m, call[p])
    BY DEF Admitted
  <2> QED
    BY <1>1, <1>3, <2>1, SameCall
<1>4. ASSUME NEW l \in ReleaseLabels, NEW m \in ReleaseLabels \cup {"pid"}, Go(p, l, m)
      PROVE  CallerStep(p, l, m)
  <2>1. Admitted(uid, reused, p, l, call[p]) => Admitted(uid, reused, p, m, call[p])
    BY DEF Admitted
  <2> QED
    BY <1>1, <1>4, <2>1, SameCall
<1> QED
  BY <1>1, <1>2, <1>3, <1>4

(* What kind of step a step of a process is. *)
LEMMA ProcCallerStep ==
    ASSUME TypeOK, NEW p \in Proc, ProcNext(p)
    PROVE  Monitoring(p) \/ Distant(p) \/ Checking(p) \/ InterceptCommand(p) \/ ReleaseCommand(p)
<1>1. CASE CallTo(p)
  BY <1>1, ChecksCaller
<1>2. CASE (Enter(p) \/ InterceptorRun(p) \/ MyExitGroup(p)) /\ ~CallTo(p)
  BY <1>2, OtherCallsCaller
<1>3. CASE MySyscall(p)
  BY <1>3, ChecksCaller, MonitorCommandCaller, UnlockCaller DEF MySyscall
<1> QED
  BY <1>1, <1>2, <1>3 DEF ProcNext, Run

LEMMA LoaderMoves ==
    ASSUME TypeOK, InitFunction \/ ExitFunction
    PROVE  (\E l, m : LoaderStep(l, m)) /\ UNCHANGED <<uid, reused>>
<1>1. CASE InitEntry \/ DestroyEntry
  <2>1. UNCHANGED <<uid, reused>>
    BY <1>1 DEF InitEntry, DestroyEntry, NextEntry
  <2> QED
    BY <1>1, <2>1, LoopLoader DEF InitEntry, DestroyEntry
<1>2. CASE ~InitEntry /\ ~DestroyEntry
  <2>1. PICK l, m : Go(Loader, l, m) /\ UNCHANGED <<call, uid, reused>>
    BY <1>2 DEF InitFunction, ExitFunction, LockSys, UnlockSys, Hijack, Restore, callVars
  <2> QED
    BY <2>1, GoLoader
<1> QED
  BY <1>1, <1>2

LEMMA NextCallers == TypeOK /\ Callers /\ [Next]_vars => Callers'
<1> SUFFICES ASSUME TypeOK, Callers, [Next]_vars PROVE Callers'
  OBVIOUS
<1>1. CASE UNCHANGED vars
  BY <1>1 DEF Callers, vars, callVars
<1>2. ASSUME NEW p \in Proc, ProcNext(p)
      PROVE  Callers'
  <2>1. \E l, m : CallerStep(p, l, m)
    BY <1>2, ProcCallerStep, TableCommandCaller DEF Monitoring, Distant, Checking, Plain
  <2> QED
    BY <2>1, AdmittedAfter
<1>3. ASSUME InitFunction \/ ExitFunction
      PROVE  Callers'
  <2>1. (\E l, m : LoaderStep(l, m)) /\ UNCHANGED <<uid, reused>>
    BY <1>3, LoaderMoves
  <2> SUFFICES ASSUME NEW q \in Proc
               PROVE  uid'[q] \in Uids[q] /\ Admitted(uid', reused', q, pc'[q], call'[q])
    BY DEF Callers
  <2> QED
    BY <2>1, AlwaysAdmitted DEF Callers, LoaderStep
<1> QED
  BY <1>1, <1>2, <1>3 DEF Next

LEMMA InitCallers == Init \/ LoadedInit => Callers
<1> SUFFICES ASSUME Init \/ LoadedInit, NEW p \in Proc
             PROVE  uid[p] \in Uids[p] /\ Admitted(uid, reused, p, pc[p], call[p])
  BY DEF Callers
<1>1. pc[p] = "user" /\ call[p].cmd = "none" /\ uid[p] \in Uids[p]
  BY DEF Init, LoadedInit, Idle, NoCall, Actor
<1> QED
  BY <1>1 DEF Admitted, InterceptLabels, ReleaseLabels, AddLabels, DropLabels

LEMMA SpecCallers == Spec => []Callers
<1>1. Init => Callers
  BY InitCallers
<1>2. TypeOK /\ Callers /\ [Next]_vars => Callers'
  BY NextCallers
<1> QED
  BY <1>1, <1>2, TypeCorrect, PTL DEF Spec

LEMMA ServiceCallers == ServiceSpec => []Callers
<1>1. LoadedInit => Callers
  BY InitCallers
<1>2. TypeOK /\ Callers /\ [Next]_vars => Callers'
  BY NextCallers
<1> QED
  BY <1>1, <1>2, ServiceStep, ServiceTypeCorrect, PTL DEF ServiceSpec

-----------------------------------------------------------------------------
(* Who changes the table, and who adds a node. *)

Redirects == \A s \in Sysc : sys_call_table'[s] # sys_call_table[s] =>
                 \E a \in Actor : sys_lock = a /\ (a = Loader \/ Root(a))

Enlists == \A s \in Sysc : \A n \in my_list'[s] \ my_list[s] :
               \E p \in Proc : /\ my_lock = p
                              /\ \/ Root(p)
                                 \/ /\ pidOf'[n] \in Proc
                                    /\ uid[pidOf'[n]] = uid[p] \/ reused[p]

LEMMA ProcRedirects ==
    ASSUME TypeOK, Locking, Callers, NEW p \in Proc, ProcNext(p)
    PROVE  Redirects
<1> p \in Actor
  BY DEF Actor
<1>1. CASE RouteQuiet(p)
  BY <1>1 DEF RouteQuiet, Redirects
<1>2. CASE InterceptCommand(p) \/ ReleaseCommand(p)
  <2>1. CASE \/ SetHandler(p, "i_set", "i_unlock", "interceptor")
             \/ SetHandler(p, "r_set", "r_unlock", f[S(p)])
    <3>1. pc[p] \in {"i_set", "r_set"}
      BY <2>1 DEF SetHandler, Go, At
    <3>2. sys_lock = p
      BY <3>1 DEF Locking, LockDiscipline, SysHeld
    <3>3. Root(p)
      BY <3>1 DEF Callers, Admitted, Root, InterceptLabels, ReleaseLabels
    <3> QED
      BY <3>2, <3>3 DEF Redirects
  <2>2. CASE ~(\/ SetHandler(p, "i_set", "i_unlock", "interceptor")
               \/ SetHandler(p, "r_set", "r_unlock", f[S(p)]))
    <3>1. sys_call_table' = sys_call_table
      BY <1>2, <2>2 DEF InterceptCommand, ReleaseCommand, LockSys, UnlockSys, SaveOriginal, SetFlag, kernelVars
    <3> QED
      BY <3>1 DEF Redirects
  <2> QED
    BY <2>1, <2>2
<1> QED
  BY <1>1, <1>2, ProcRouteStep

LEMMA ProcEnlists ==
    ASSUME TypeOK, Locking, Callers, NEW p \in Proc, ProcNext(p)
    PROVE  Enlists
<1> p \in Actor
  BY DEF Actor
<1>1. CASE ListQuiet(p)
  BY <1>1 DEF ListQuiet, Enlists, listVars
<1>2. ASSUME NEW N, NEW L, Unlink(N, L)
      PROVE  Enlists
  BY <1>2, UnlinkRemoves DEF Enlists
<1>3. ASSUME NEW l, Fault(p, l) \/ \E m, c : JumpWith(p, l, m, c)
      PROVE  Enlists
  <2>1. my_list' = my_list
    BY <1>3 DEF Fault, Jump, JumpWith, tableVars
  <2> QED
    BY <2>1 DEF Enlists
<1>4. CASE StopDelete(p) \/ StopDestroy(p) \/ ExitDelPid(p)
  BY <1>2, <1>3, <1>4 DEF StopDelete, StopDestroy, ExitDelPid, DelPidSysc, DestroyList, DelPid
<1>5. ASSUME NEW l \in {"add", "asleep"}, Adds(p, l)
      PROVE  Enlists
  <2>1. CASE Fault(p, l) \/ JumpWith(p, l, "unlock", "ENOMEM")
    BY <1>3, <2>1
  <2>2. CASE ~(Fault(p, l) \/ JumpWith(p, l, "unlock", "ENOMEM"))
    <3>1. PICK n \in Node : pidOf[n] = NoPid /\ AddPidSysc(n, call[p].pid, S(p))
      BY <1>5, <2>2 DEF Adds
    <3>2. pc[p] = l
      BY <1>5, <2>2 DEF Adds, At
    <3>3. my_lock = p
      BY <3>2 DEF Locking, LockDiscipline, MyHeld
    <3>4. MayName(uid, reused, p, call[p].pid)
      BY <3>2 DEF Callers, Admitted, AddLabels
    <3>5. \A s \in Sysc : my_list'[s] \subseteq my_list[s] \cup {n}
      BY <3>1 DEF AddPidSysc, TypeOK, TableTypeOK
    <3>6. pidOf'[n] = call[p].pid
      BY <3>1 DEF AddPidSysc, TypeOK, TableTypeOK
    <3> QED
      BY <3>3, <3>4, <3>5, <3>6 DEF Enlists, MayName, Root
  <2> QED
    BY <2>1, <2>2
<1> QED
  BY <1>1, <1>4, <1>5, ProcListStep DEF Adding

LEMMA LoaderAuthorised ==
    ASSUME TypeOK, Locking, InitFunction \/ ExitFunction
    PROVE  Redirects /\ Enlists
<1> Loader \in Actor
  BY DEF Actor
<1>1. Redirects
  <2>1. CASE sys_call_table' = sys_call_table
    BY <2>1 DEF Redirects
  <2>2. CASE sys_call_table' # sys_call_table
    <3>1. pc[Loader] \in {"ins_custom", "ins_exit", "rm_custom", "rm_exit"}
      BY <2>2 DEF InitFunction, ExitFunction, InitEntry, DestroyEntry, NextEntry, LockSys, UnlockSys,
                  Hijack, Restore, Go, At, kernelVars
    <3>2. sys_lock = Loader
      BY <3>1 DEF Locking, LockDiscipline, SysHeld
    <3> QED
      BY <3>2 DEF Redirects
  <2> QED
    BY <2>1, <2>2
<1>2. Enlists
  <2>1. \A s \in Sysc : my_list'[s] \subseteq my_list[s]
    <3>1. CASE InitEntry
      BY <3>1 DEF InitEntry, TypeOK, TableTypeOK, CallTypeOK
    <3>2. CASE DestroyEntry
      BY <3>2, UnlinkRemoves DEF DestroyEntry, DestroyList
    <3>3. CASE ~InitEntry /\ ~DestroyEntry
      BY <3>3 DEF InitFunction, ExitFunction, LockSys, UnlockSys, Hijack, Restore, tableVars
    <3> QED
      BY <3>1, <3>2, <3>3
  <2> QED
    BY <2>1 DEF Enlists
<1> QED
  BY <1>1, <1>2

LEMMA NextAuthorised ==
    TypeOK /\ Locking /\ Callers /\ [Next]_vars => [Redirects /\ Enlists]_vars
<1> SUFFICES ASSUME TypeOK, Locking, Callers, Next PROVE Redirects /\ Enlists
  OBVIOUS
<1> QED
  BY ProcRedirects, ProcEnlists, LoaderAuthorised DEF Next

(* Only root, or the loader, redirects a system call; and a pid is added to a
   list only by root or by a process of the same owner, in whatever order the
   others run between the check and the addition (interceptor.c:317-325): the
   one way to add another owner's pid is that the process that was checked
   exits in between and its pid is given to a new one. *)
THEOREM AuthorisedCorrect == Spec => Authorised
<1>1. TypeOK /\ Locking /\ Callers /\ [Next]_vars => [Redirects /\ Enlists]_vars
  BY NextAuthorised
<1>2. Spec => [][Redirects /\ Enlists]_vars
  BY <1>1, TypeCorrect, SpecLocking, SpecCallers, PTL DEF Spec
<1> QED
  BY <1>2, PTL DEF Authorised, Redirects, Enlists

(* The same while the module is loaded. *)
THEOREM ServiceAuthorised == ServiceSpec => Authorised
<1>1. TypeOK /\ Locking /\ Callers /\ [Next]_vars => [Redirects /\ Enlists]_vars
  BY NextAuthorised
<1>2. ServiceSpec => [][Redirects /\ Enlists]_vars
  BY <1>1, ServiceStep, ServiceTypeCorrect, ServiceLocking, ServiceCallers, PTL DEF ServiceSpec
<1> QED
  BY <1>2, PTL DEF Authorised, Redirects, Enlists

-----------------------------------------------------------------------------
(* One process of root.  Two of them may find the same flag clear and save
   interceptor as the original of itself: the run interceptor_double_intercept
   shows it, and the theorems below need the hypothesis. *)

OneRoot == \A p, q \in Proc : 0 \in Uids[p] /\ 0 \in Uids[q] => p = q

Settling == {"i_unlock", "i_flag", "r_unlock", "r_flag"}

(* The inductive invariant.  The last conjunct is what a table command has
   found or made of its system call: the properties alone do not say that the
   handler saved at "i_save" is not interceptor. *)
Routed ==
    /\ OriginalReachable
    /\ FlagsTellRouting
    /\ \A p \in Proc :
         /\ pc[p] \in {"i_lock", "i_save", "i_set"} => ~intercepted[S(p)]
         /\ pc[p] = "i_set" => f[S(p)] = Original(S(p))
         /\ pc[p] \in {"i_unlock", "i_flag"} => sys_call_table[S(p)] = "interceptor"
         /\ pc[p] \in {"r_lock", "r_set"} => intercepted[S(p)]
         /\ pc[p] \in {"r_unlock", "r_flag"} => sys_call_table[S(p)] # "interceptor"

LEMMA OriginalNotInterceptor == \A s : Original(s) # "interceptor"
BY DEF Original

LEMMA SettlingLabels ==
    /\ Settling \subseteq TableLabels /\ "pid" \notin TableLabels /\ TableLabels \cap Unchecked = {}
    /\ {"i_lock", "i_save", "i_set", "r_lock", "r_set"} \subseteq TableLabels \ Settling
BY DEF Settling, TableLabels, InterceptLabels, ReleaseLabels, Unchecked

(* The only table command under way is root's. *)
LEMMA Alone ==
    ASSUME OneRoot, Callers, NEW p \in Proc, Root(p)
    PROVE  \A q \in Proc : q # p => pc[q] \notin TableLabels
BY DEF OneRoot, Callers, Admitted, Root, TableLabels

LEMMA RootSees ==
    ASSUME OneRoot, Callers, Routed, NEW p \in Proc, Root(p), pc[p] \notin Settling,
           NEW s \in Sysc \ {Custom}
    PROVE  intercepted[s] <=> sys_call_table[s] = "interceptor"
<1>1. \A q \in Proc : pc[q] \notin Settling
  BY Alone, SettlingLabels
<1> QED
  BY <1>1 DEF Routed, FlagsTellRouting, Settling

LEMMA PlainRouted ==
    ASSUME TypeOK, Callers, Routed, NEW p \in Proc, NEW l, NEW m,
           Plain(p, l, m), l \notin TableLabels, Turns(p, l, m)
    PROVE  Routed'
<1>1. /\ pc[p] = l /\ pc'[p] = m
      /\ \A q \in Proc : q # p => pc'[q] = pc[q]
  BY PcAfter DEF Plain, CallerStep, Actor
<1>2. \A q \in Proc : q # p => call'[q] = call[q]
  BY DEF Plain, CallerStep, TypeOK, CallTypeOK
<1>3. UNCHANGED <<sys_call_table, f, intercepted>>
  BY DEF Plain
<1>4. OriginalReachable'
  BY <1>3 DEF Routed, OriginalReachable, Original
<1>5. FlagsTellRouting'
  <2>1. \A q \in Proc : pc[q] \in Settling => q # p /\ pc'[q] = pc[q] /\ S(q)' = S(q)
    BY <1>1, <1>2, SettlingLabels DEF S
  <2> QED
    BY <1>3, <2>1 DEF Routed, FlagsTellRouting, Settling
<1>6. ASSUME NEW q \in Proc, pc'[q] \in TableLabels
      PROVE  \/ pc'[q] = pc[q] /\ S(q)' = S(q)
             \/ pc'[q] = "i_lock" /\ ~intercepted[S(q)']
             \/ pc'[q] = "r_lock" /\ intercepted[S(q)']
  <2>1. CASE q = p
    BY <1>1, <1>6, <2>1 DEF Turns, S
  <2>2. CASE q # p
    BY <1>1, <1>2, <2>2 DEF S
  <2> QED
    BY <2>1, <2>2
<1>7. ASSUME NEW q \in Proc
      PROVE  /\ pc'[q] \in {"i_lock", "i_save", "i_set"} => ~intercepted[S(q)']
             /\ pc'[q] = "i_set" => f[S(q)'] = Original(S(q)')
             /\ pc'[q] \in {"i_unlock", "i_flag"} => sys_call_table[S(q)'] = "interceptor"
             /\ pc'[q] \in {"r_lock", "r_set"} => intercepted[S(q)']
             /\ pc'[q] \in {"r_unlock", "r_flag"} => sys_call_table[S(q)'] # "interceptor"
  <2>1. CASE pc'[q] \in TableLabels
    BY <1>6, <2>1 DEF Routed
  <2>2. CASE pc'[q] \notin TableLabels
    BY <2>2 DEF TableLabels, InterceptLabels, ReleaseLabels
  <2> QED
    BY <2>1, <2>2
<1> QED
  BY <1>3, <1>4, <1>5, <1>7 DEF Routed, Original

(* A step of root's table command leaves the table, f and the flags of the
   other system calls alone; what it does to its own is enough. *)
LEMMA OwnRouted ==
    ASSUME TypeOK, OneRoot, Callers, Routed, NEW p \in Proc, NEW l, NEW m,
           Root(p), Go(p, l, m), call' = call, S(p) \in Sysc \ {Custom},
           \A s \in Sysc \ {Custom} : s # S(p) =>
               /\ sys_call_table'[s] = sys_call_table[s]
               /\ f'[s] = f[s] /\ intercepted'[s] = intercepted[s],
           \/ sys_call_table'[S(p)] = Original(S(p))
           \/ sys_call_table'[S(p)] = "interceptor" /\ f'[S(p)] = Original(S(p)),
           m \in Settling \/ (intercepted'[S(p)] <=> sys_call_table'[S(p)] = "interceptor"),
           m \in {"i_lock", "i_save", "i_set"} => ~intercepted'[S(p)],
           m = "i_set" => f'[S(p)] = Original(S(p)),
           m \in {"i_unlock", "i_flag"} => sys_call_table'[S(p)] = "interceptor",
           m \in {"r_lock", "r_set"} => intercepted'[S(p)],
           m \in {"r_unlock", "r_flag"} => sys_call_table'[S(p)] # "interceptor"
    PROVE  Routed'
<1>1. /\ pc[p] = l /\ pc'[p] = m
      /\ \A q \in Proc : q # p => pc'[q] = pc[q]
  BY PcAfter DEF Actor
<1>2. \A q \in Proc : S(q)' = S(q)
  BY DEF S
<1>3. \A q \in Proc : q # p => pc'[q] \notin TableLabels
  BY <1>1, Alone
<1>4. OriginalReachable'
  BY DEF Routed, OriginalReachable, Original
<1>5. FlagsTellRouting'
  <2> SUFFICES ASSUME NEW s \in Sysc \ {Custom}
               PROVE  \/ \E q \in Proc : pc'[q] \in Settling /\ S(q)' = s
                      \/ intercepted'[s] <=> sys_call_table'[s] = "interceptor"
    BY DEF FlagsTellRouting, Settling
  <2>1. CASE s = S(p)
    BY <1>1, <1>2, <2>1
  <2>2. CASE s # S(p)
    <3>1. \A q \in Proc : pc[q] \in Settling => S(q) # s
      BY <2>2, Alone, SettlingLabels
    <3> QED
      BY <2>2, <3>1 DEF Routed, FlagsTellRouting, Settling
  <2> QED
    BY <2>1, <2>2
<1>6. ASSUME NEW q \in Proc
      PROVE  /\ pc'[q] \in {"i_lock", "i_save", "i_set"} => ~intercepted'[S(q)']
             /\ pc'[q] = "i_set" => f'[S(q)'] = Original(S(q)')
             /\ pc'[q] \in {"i_unlock", "i_flag"} => sys_call_table'[S(q)'] = "interceptor"
             /\ pc'[q] \in {"r_lock", "r_set"} => intercepted'[S(q)']
             /\ pc'[q] \in {"r_unlock", "r_flag"} => sys_call_table'[S(q)'] # "interceptor"
  <2>1. CASE q = p
    BY <1>1, <1>2, <2>1
  <2>2. CASE q # p
    BY <1>3, <2>2 DEF TableLabels, InterceptLabels, ReleaseLabels
  <2> QED
    BY <2>1, <2>2
<1> QED
  BY <1>4, <1>5, <1>6 DEF Routed, Original

LEMMA InterceptRouted ==
    ASSUME TypeOK, OneRoot, Callers, CallChecked, Routed, NEW p \in Proc, InterceptCommand(p)
    PROVE  Routed'
<1> USE OriginalNotInterceptor DEF Settling
<1>1. pc[p] \in InterceptLabels
  BY DEF InterceptCommand, LockSys, UnlockSys, SaveOriginal, SetHandler, SetFlag, Go, At, InterceptLabels
<1>2. Root(p) /\ S(p) \in Sysc \ {Custom}
  BY <1>1, SettlingLabels DEF Callers, Admitted, Root, CallChecked, ValidSysc, TableLabels
<1>3. /\ sys_call_table \in [Sysc -> Handler \cup {"none"}]
      /\ f \in [Sysc -> Handler \cup {"none"}] /\ intercepted \in [Sysc -> BOOLEAN]
  BY DEF TypeOK, KernelTypeOK, TableTypeOK
<1>4. \/ sys_call_table[S(p)] = Original(S(p))
      \/ sys_call_table[S(p)] = "interceptor" /\ f[S(p)] = Original(S(p))
  BY <1>2 DEF Routed, OriginalReachable
<1>5. pc[p] \notin Settling => (intercepted[S(p)] <=> sys_call_table[S(p)] = "interceptor")
  BY <1>2, RootSees
<1>6. /\ pc[p] \in {"i_lock", "i_save", "i_set"} => ~intercepted[S(p)]
      /\ pc[p] = "i_set" => f[S(p)] = Original(S(p))
      /\ pc[p] \in {"i_unlock", "i_flag"} => sys_call_table[S(p)] = "interceptor"
  BY DEF Routed
<1>7. CASE LockSys(p, "i_lock", "i_save") \/ UnlockSys(p, "i_unlock", "i_flag")
  <2>1. UNCHANGED <<sys_call_table, f, intercepted, call>>
    BY <1>7 DEF LockSys, UnlockSys, tableVars, callVars
  <2>2. CASE Go(p, "i_lock", "i_save")
    <3>1. pc[p] = "i_lock"
      BY <2>2 DEF Go, At
    <3> QED
      BY <1>2, <1>4, <1>5, <1>6, <2>1, <2>2, <3>1, OwnRouted
  <2>3. CASE Go(p, "i_unlock", "i_flag")
    <3>1. pc[p] = "i_unlock"
      BY <2>3 DEF Go, At
    <3> QED
      BY <1>2, <1>4, <1>6, <2>1, <2>3, <3>1, OwnRouted
  <2> QED
    BY <1>7, <2>2, <2>3 DEF LockSys, UnlockSys
<1>8. CASE SaveOriginal(p)
  <2>1. /\ Go(p, "i_save", "i_set") /\ pc[p] = "i_save"
        /\ UNCHANGED <<sys_call_table, intercepted, call>>
    BY <1>8 DEF SaveOriginal, Go, At, kernelVars, callVars
  <2>2. \A s \in Sysc : f'[s] = IF s = S(p) THEN sys_call_table[S(p)] ELSE f[s]
    BY <1>2, <1>3, <1>8 DEF SaveOriginal
  <2>3. f'[S(p)] = sys_call_table[S(p)] /\ \A s \in Sysc \ {Custom} : s # S(p) => f'[s] = f[s]
    BY <1>2, <2>2
  <2>4. sys_call_table[S(p)] = Original(S(p)) /\ sys_call_table[S(p)] # "interceptor"
    BY <1>4, <1>5, <1>6, <2>1
  <2> QED
    BY <1>2, <1>6, <2>1, <2>3, <2>4, OwnRouted
<1>9. CASE SetHandler(p, "i_set", "i_unlock", "interceptor")
  <2>1. /\ Go(p, "i_set", "i_unlock") /\ pc[p] = "i_set"
        /\ UNCHANGED <<f, intercepted, call>>
    BY <1>9 DEF SetHandler, Go, At, tableVars, callVars
  <2>2. \A s \in Sysc : sys_call_table'[s] = IF s = S(p) THEN "interceptor" ELSE sys_call_table[s]
    BY <1>2, <1>3, <1>9 DEF SetHandler
  <2>3. /\ sys_call_table'[S(p)] = "interceptor"
        /\ \A s \in Sysc \ {Custom} : s # S(p) => sys_call_table'[s] = sys_call_table[s]
    BY <1>2, <2>2
  <2> QED
    BY <1>2, <1>6, <2>1, <2>3, OwnRouted
<1>10. CASE SetFlag(p, "i_flag", TRUE)
  <2>1. /\ Go(p, "i_flag", "pid") /\ pc[p] = "i_flag"
        /\ UNCHANGED <<sys_call_table, f, call>>
    BY <1>10 DEF SetFlag, Go, At, kernelVars, callVars
  <2>2. \A s \in Sysc : intercepted'[s] = IF s = S(p) THEN TRUE ELSE intercepted[s]
    BY <1>2, <1>3, <1>10 DEF SetFlag
  <2>3. /\ intercepted'[S(p)] = TRUE
        /\ \A s \in Sysc \ {Custom} : s # S(p) => intercepted'[s] = intercepted[s]
    BY <1>2, <2>2
  <2> QED
    BY <1>2, <1>4, <1>6, <2>1, <2>3, OwnRouted
<1> QED
  BY <1>7, <1>8, <1>9, <1>10 DEF InterceptCommand

LEMMA ReleaseRouted ==
    ASSUME TypeOK, OneRoot, Callers, CallChecked, Routed, NEW p \in Proc, ReleaseCommand(p)
    PROVE  Routed'
<1> USE OriginalNotInterceptor DEF Settling
<1>1. pc[p] \in ReleaseLabels
  BY DEF ReleaseCommand, LockSys, UnlockSys, SetHandler, SetFlag, Go, At, ReleaseLabels
<1>2. Root(p) /\ S(p) \in Sysc \ {Custom}
  BY <1>1, SettlingLabels DEF Callers, Admitted, Root, CallChecked, ValidSysc, TableLabels
<1>3. /\ sys_call_table \in [Sysc -> Handler \cup {"none"}]
      /\ intercepted \in [Sysc -> BOOLEAN]
  BY DEF TypeOK, KernelTypeOK, TableTypeOK
<1>4. \/ sys_call_table[S(p)] = Original(S(p))
      \/ sys_call_table[S(p)] = "interceptor" /\ f[S(p)] = Original(S(p))
  BY <1>2 DEF Routed, OriginalReachable
<1>5. pc[p] \notin Settling => (intercepted[S(p)] <=> sys_call_table[S(p)] = "interceptor")
  BY <1>2, RootSees
<1>6. /\ pc[p] \in {"r_lock", "r_set"} => intercepted[S(p)]
      /\ pc[p] \in {"r_unlock", "r_flag"} => sys_call_table[S(p)] # "interceptor"
  BY DEF Routed
<1>7. CASE LockSys(p, "r_lock", "r_set") \/ UnlockSys(p, "r_unlock", "r_flag")
  <2>1. UNCHANGED <<sys_call_table, f, intercepted, call>>
    BY <1>7 DEF LockSys, UnlockSys, tableVars, callVars
  <2>2. CASE Go(p, "r_lock", "r_set")
    <3>1. pc[p] = "r_lock"
      BY <2>2 DEF Go, At
    <3> QED
      BY <1>2, <1>4, <1>5, <1>6, <2>1, <2>2, <3>1, OwnRouted
  <2>3. CASE Go(p, "r_unlock", "r_flag")
    <3>1. pc[p] = "r_unlock"
      BY <2>3 DEF Go, At
    <3> QED
      BY <1>2, <1>4, <1>6, <2>1, <2>3, <3>1, OwnRouted
  <2> QED
    BY <1>7, <2>2, <2>3 DEF LockSys, UnlockSys
<1>8. CASE SetHandler(p, "r_set", "r_unlock", f[S(p)])
  <2>1. /\ Go(p, "r_set", "r_unlock") /\ pc[p] = "r_set"
        /\ UNCHANGED <<f, intercepted, call>>
    BY <1>8 DEF SetHandler, Go, At, tableVars, callVars
  <2>2. \A s \in Sysc : sys_call_table'[s] = IF s = S(p) THEN f[S(p)] ELSE sys_call_table[s]
    BY <1>2, <1>3, <1>8 DEF SetHandler
  <2>3. /\ sys_call_table'[S(p)] = f[S(p)]
        /\ \A s \in Sysc \ {Custom} : s # S(p) => sys_call_table'[s] = sys_call_table[s]
    BY <1>2, <2>2
  <2>4. f[S(p)] = Original(S(p))
    BY <1>4, <1>5, <1>6, <2>1
  <2> QED
    BY <1>2, <2>1, <2>3, <2>4, OwnRouted
<1>9. CASE SetFlag(p, "r_flag", FALSE)
  <2>1. /\ Go(p, "r_flag", "pid") /\ pc[p] = "r_flag"
        /\ UNCHANGED <<sys_call_table, f, call>>
    BY <1>9 DEF SetFlag, Go, At, kernelVars, callVars
  <2>2. \A s \in Sysc : intercepted'[s] = IF s = S(p) THEN FALSE ELSE intercepted[s]
    BY <1>2, <1>3, <1>9 DEF SetFlag
  <2>3. /\ intercepted'[S(p)] = FALSE
        /\ \A s \in Sysc \ {Custom} : s # S(p) => intercepted'[s] = intercepted[s]
    BY <1>2, <2>2
  <2> QED
    BY <1>2, <1>4, <1>6, <2>1, <2>3, OwnRouted
<1> QED
  BY <1>7, <1>8, <1>9 DEF ReleaseCommand

LEMMA ServiceRoutes ==
    ASSUME OneRoot
    PROVE  TypeOK /\ Callers /\ Kept /\ Routed /\ [ServiceNext]_vars => Routed'
<1> SUFFICES ASSUME TypeOK, Callers, Kept, Routed, [ServiceNext]_vars PROVE Routed'
  OBVIOUS
<1>0. CallChecked
  BY DEF Kept, Lists
<1>1. CASE UNCHANGED vars
  BY <1>1 DEF Routed, OriginalReachable, FlagsTellRouting, Original, S, vars, kernelVars, tableVars, callVars
<1>2. ASSUME NEW p \in Proc, ProcNext(p)
      PROVE  Routed'
  <2>1. CASE Monitoring(p) \/ Distant(p) \/ Checking(p)
    <3>1. PICK l, m : Plain(p, l, m) /\ l \notin TableLabels /\ Turns(p, l, m)
      BY <2>1 DEF Monitoring, Distant, Checking, Turns
    <3> QED
      BY <3>1, PlainRouted
  <2> QED
    BY <1>0, <1>2, <2>1, ProcCallerStep, InterceptRouted, ReleaseRouted
<1> QED
  BY <1>1, <1>2 DEF ServiceNext

LEMMA LoadedRoutes == LoadedInit => Routed
<1> SUFFICES ASSUME LoadedInit PROVE Routed
  OBVIOUS
<1>1. \A p \in Proc : pc[p] = "user"
  BY DEF LoadedInit, Actor
<1>2. \A s \in Sysc \ {Custom} : sys_call_table[s] = Original(s) /\ ~intercepted[s]
  BY DEF LoadedInit, StaticData, Original
<1> QED
  BY <1>1, <1>2, OriginalNotInterceptor DEF Routed, OriginalReachable, FlagsTellRouting

LEMMA ServiceRouted ==
    ASSUME OneRoot
    PROVE  ServiceSpec => []Routed
<1>1. LoadedInit => Routed
  BY LoadedRoutes
<1>2. TypeOK /\ Callers /\ Kept /\ Routed /\ [ServiceNext]_vars => Routed'
  BY ServiceRoutes
<1> QED
  BY <1>1, <1>2, ServiceTypeCorrect, ServiceCallers, ServiceKept, PTL DEF ServiceSpec

LEMMA RoutedImplies == Routed => OriginalReachable /\ FlagsTellRouting
  BY DEF Routed

(* With one process of root a system call always reaches the handler that was
   there before the module, directly or through the saved pointer
   (interceptor.c:346). *)
THEOREM OriginalsReached ==
    ASSUME OneRoot
    PROVE  ServiceSpec => []OriginalReachable
  BY ServiceRouted, RoutedImplies, PTL

(* With one process of root table[s].intercepted, kept outside every lock,
   tells what the table holds unless a command is about to set it
   (interceptor.c:61-62). *)
THEOREM FlagsCorrect ==
    ASSUME OneRoot
    PROVE  ServiceSpec => []FlagsTellRouting
  BY ServiceRouted, RoutedImplies, PTL

-----------------------------------------------------------------------------
(* With one process of root, the module is InterceptService: what its client p
   sees, and what a step of p does to it. *)

Request(p) ==
    IF TableCommand(p) THEN [cmd |-> Cmd(p), sysc |-> S(p)] ELSE [cmd |-> "none", sysc |-> Custom]
Answer(p) == IF Phase(p) = "answered" THEN ret[p] ELSE "OK"

Same(q) == Phase(q)' = Phase(q) /\ Request(q)' = Request(q) /\ Answer(q)' = Answer(q)

(* What p does to its own call shows in no other's. *)
LEMMA OthersSame ==
    ASSUME TypeOK, NEW p \in Proc, NEW l, NEW m, CallerStep(p, l, m),
           \A q \in Proc : q # p => ret'[q] = ret[q]
    PROVE  \A q \in Proc : q # p => Same(q)
<1> SUFFICES ASSUME NEW q \in Proc, q # p PROVE Same(q)
  OBVIOUS
<1>1. pc'[q] = pc[q] /\ call'[q] = call[q] /\ ret'[q] = ret[q] /\ uid'[q] = uid[q]
  BY PcAfter DEF CallerStep, OwnersStep, Actor, TypeOK, CallTypeOK
<1>2. TableCommand(q)' = TableCommand(q) /\ Cmd(q)' = Cmd(q) /\ S(q)' = S(q)
  BY <1>1 DEF TableCommand, Root, Cmd, S, ValidSysc, InModule
<1>3. Phase(q)' = Phase(q)
  BY <1>1, <1>2 DEF Phase
<1> QED
  BY <1>1, <1>2, <1>3 DEF Same, Request, Answer

LEMMA OthersPhase ==
    ASSUME NEW p \in Proc, \A q \in Proc : q # p => Same(q)
    PROVE  /\ [q \in Proc |-> Phase(q)]' = [[q \in Proc |-> Phase(q)] EXCEPT ![p] = Phase(p)']
           /\ [q \in Proc |-> Request(q)]' = [[q \in Proc |-> Request(q)] EXCEPT ![p] = Request(p)']
           /\ [q \in Proc |-> Answer(q)]' = [[q \in Proc |-> Answer(q)] EXCEPT ![p] = Answer(p)']
BY DEF Same

LEMMA AllSame ==
    ASSUME \A q \in Proc : Same(q), UNCHANGED sys_call_table
    PROVE  UNCHANGED Service!vars
<1>1. \A q \in Proc : Phase(q)' = Phase(q) /\ Request(q)' = Request(q) /\ Answer(q)' = Answer(q)
  BY DEF Same
<1>2. [q \in Proc |-> Phase(q)]' = [q \in Proc |-> Phase(q)]
  BY <1>1
<1>3. [q \in Proc |-> Request(q)]' = [q \in Proc |-> Request(q)]
  BY <1>1
<1>4. [q \in Proc |-> Answer(q)]' = [q \in Proc |-> Answer(q)]
  BY <1>1
<1> QED
  BY <1>2, <1>3, <1>4 DEF Service!vars, Request, Answer

(* p's step for the service, by what changes for p. *)
LEMMA Asks ==
    ASSUME NEW p \in Proc, \A q \in Proc : q # p => Same(q), UNCHANGED sys_call_table,
           NEW cmd \in {"INTERCEPT", "RELEASE"}, NEW s \in Sysc \ {Custom},
           Phase(p) = "idle", Phase(p)' = "asked", Request(p)' = [cmd |-> cmd, sysc |-> s]
    PROVE  Service!Next
<1>1. Answer(p)' = Answer(p)
  BY DEF Answer
<1>2. [q \in Proc |-> Answer(q)]' = [q \in Proc |-> Answer(q)]
  BY <1>1 DEF Same
<1>3. Service!Ask(p, cmd, s)
  BY <1>2, OthersPhase DEF Service!Ask, Service!Move, Request, Answer
<1> QED
  BY <1>3 DEF Service!Next

LEMMA CarriesOut ==
    ASSUME NEW p \in Proc, \A q \in Proc : q # p => Same(q), TableCommand(p), S(p) \in Sysc \ {Custom},
           Phase(p) = "asked", Phase(p)' = "done", Request(p)' = Request(p),
           \A s \in Sysc \ {Custom} : s # S(p) => sys_call_table'[s] = sys_call_table[s],
           sys_call_table[S(p)] = "interceptor" <=> Cmd(p) # "INTERCEPT",
           sys_call_table'[S(p)] = "interceptor" <=> Cmd(p) = "INTERCEPT"
    PROVE  Service!Next
<1>1. Answer(p)' = Answer(p)
  BY DEF Answer
<1>2. [q \in Proc |-> Answer(q)]' = [q \in Proc |-> Answer(q)]
  BY <1>1 DEF Same
<1>3. [q \in Proc |-> Request(q)]' = [q \in Proc |-> Request(q)]
  BY DEF Same
<1>4. Request(p).cmd = Cmd(p) /\ Request(p).sysc = S(p)
  BY DEF Request
<1>5. [s \in Sysc \ {Custom} |-> sys_call_table[s] = "interceptor"]' =
      [[s \in Sysc \ {Custom} |-> sys_call_table[s] = "interceptor"] EXCEPT ![S(p)] = (Cmd(p) = "INTERCEPT")]
  OBVIOUS
<1>6. [s \in Sysc \ {Custom} |-> sys_call_table[s] = "interceptor"][S(p)] # (Cmd(p) = "INTERCEPT")
  OBVIOUS
<1>7. Service!CarryOut(p)
  BY <1>2, <1>3, <1>4, <1>5, <1>6, OthersPhase DEF Service!CarryOut, Service!Move, Request, Answer
<1> QED
  BY <1>7 DEF Service!Next

LEMMA Refuses ==
    ASSUME NEW p \in Proc, \A q \in Proc : q # p => Same(q), UNCHANGED sys_call_table,
           TableCommand(p), S(p) \in Sysc \ {Custom},
           Phase(p) = "asked", Phase(p)' = "answered", Request(p)' = Request(p),
           sys_call_table[S(p)] = "interceptor" <=> Cmd(p) = "INTERCEPT",
           ret'[p] = IF Cmd(p) = "INTERCEPT" THEN "EBUSY" ELSE "EINVAL"
    PROVE  Service!Next
<1>1. Answer(p)' = IF Cmd(p) = "INTERCEPT" THEN "EBUSY" ELSE "EINVAL"
  BY DEF Answer
<1>3. [q \in Proc |-> Request(q)]' = [q \in Proc |-> Request(q)]
  BY DEF Same
<1>4. Request(p).cmd = Cmd(p) /\ Request(p).sysc = S(p)
  BY DEF Request
<1>5. [s \in Sysc \ {Custom} |-> sys_call_table[s] = "interceptor"][S(p)] = (Cmd(p) = "INTERCEPT")
  OBVIOUS
<1>6. [s \in Sysc \ {Custom} |-> sys_call_table[s] = "interceptor"]' =
      [s \in Sysc \ {Custom} |-> sys_call_table[s] = "interceptor"]
  OBVIOUS
<1>7. [q \in Proc |-> Request(q)][p] = Request(p) /\ [q \in Proc |-> Phase(q)][p] = "asked"
  OBVIOUS
<1>8. [q \in Proc |-> Answer(q)]' = [[q \in Proc |-> Answer(q)] EXCEPT
          ![p] = IF [q \in Proc |-> Request(q)][p].cmd = "INTERCEPT" THEN "EBUSY" ELSE "EINVAL"]
  BY <1>1, <1>4, <1>7, OthersPhase
<1>9. [s \in Sysc \ {Custom} |-> sys_call_table[s] = "interceptor"][[q \in Proc |-> Request(q)][p].sysc] =
      ([q \in Proc |-> Request(q)][p].cmd = "INTERCEPT")
  BY <1>4, <1>5, <1>7
<1>10. [q \in Proc |-> Phase(q)]' = [[q \in Proc |-> Phase(q)] EXCEPT ![p] = "answered"]
  BY OthersPhase
<1>11. Service!Refuse(p)
  BY <1>3, <1>6, <1>7, <1>8, <1>9, <1>10, Zenon DEF Service!Refuse, Service!Move, Request, Answer
<1> QED
  BY <1>11 DEF Service!Next

LEMMA Confirms ==
    ASSUME NEW p \in Proc, \A q \in Proc : q # p => Same(q), UNCHANGED sys_call_table,
           Phase(p) = "done", Phase(p)' = "answered", Request(p)' = Request(p),
           ret'[p] \in {"OK", "EINVAL"}
    PROVE  Service!Next
<1>1. Answer(p)' \in {"OK", "EINVAL"}
  BY DEF Answer
<1>3. [q \in Proc |-> Request(q)]' = [q \in Proc |-> Request(q)]
  BY DEF Same
<1>7. Service!Confirm(p)
  BY <1>1, <1>3, OthersPhase DEF Service!Confirm, Service!Move, Request, Answer
<1> QED
  BY <1>7 DEF Service!Next

LEMMA Leaves ==
    ASSUME NEW p \in Proc, \A q \in Proc : q # p => Same(q), UNCHANGED sys_call_table,
           Phase(p) = "answered", ~TableCommand(p)'
    PROVE  Service!Next
<1>1. Phase(p)' = "idle"
  BY DEF Phase
<1>2. Answer(p)' = "OK" /\ Request(p)' = [cmd |-> "none", sysc |-> Custom]
  BY <1>1 DEF Answer, Request
<1>7. Service!Leave(p)
  BY <1>1, <1>2, OthersPhase DEF Service!Leave, Service!Move, Service!NoRequest, Request, Answer
<1> QED
  BY <1>7 DEF Service!Next

(* Most steps show no client anything. *)
Served == Service!Next \/ UNCHANGED Service!vars

LEMMA Idles ==
    ASSUME NEW p \in Proc, \A q \in Proc : q # p => Same(q), UNCHANGED sys_call_table,
           ~TableCommand(p), ~TableCommand(p)'
    PROVE  Served
<1>1. Phase(p) = "idle" /\ Phase(p)' = "idle"
  BY DEF Phase
<1>2. Same(p)
  BY <1>1 DEF Same, Request, Answer
<1> QED
  BY <1>2, AllSame DEF Served

LEMMA Stays ==
    ASSUME NEW p \in Proc, \A q \in Proc : q # p => Same(q), UNCHANGED sys_call_table,
           TableCommand(p), UNCHANGED <<call, uid>>, InModule(p)', Phase(p)' = Phase(p), Phase(p) # "answered"
    PROVE  Served
<1>1. TableCommand(p)'
  BY DEF TableCommand, Root, Cmd, ValidSysc, S
<1>2. Same(p)
  BY <1>1 DEF Same, Request, Answer, Cmd, S
<1> QED
  BY <1>2, AllSame DEF Served

(* Away from the labels of a table command there is none. *)
LEMMA AwayIdle ==
    ASSUME NEW u, NEW r, NEW p \in Proc, NEW l \in ProcLabels, NEW c, Admitted(u, r, p, l, c),
           l \notin TableLabels \cup Answering, l \notin {"user", "dead", "oops"}
    PROVE  ~(u[p] = 0 /\ c.cmd \in {"INTERCEPT", "RELEASE"})
<1>1. l \in {"exit_lock", "exit_del", "exit_unlock", "exit_orig"} \cup {"icp", "icp_call"}
           \cup {"owner"} \cup AddLabels \cup DropLabels \cup {"unlock"}
  BY DEF ProcLabels, TableLabels, InterceptLabels, ReleaseLabels, Answering, AddLabels, DropLabels
<1> QED
  BY <1>1 DEF Admitted

LEMMA DistantServed ==
    ASSUME TypeOK, TypeOK', Callers, Callers', NEW p \in Proc, Distant(p)
    PROVE  Served
<1>1. PICK l, m : Plain(p, l, m) /\ {l, m} \cap (TableLabels \cup Answering) = {}
  BY DEF Distant
<1>2. pc[p] = l /\ pc'[p] = m /\ l \in ProcLabels /\ m \in ProcLabels
  BY <1>1, PcAfter DEF Plain, CallerStep, Actor, TypeOK, PcTypeOK
<1>3. Admitted(uid, reused, p, l, call[p]) /\ Admitted(uid', reused', p, m, call'[p])
  BY <1>2 DEF Callers
<1>4. ~TableCommand(p)
  BY <1>1, <1>2, <1>3, AwayIdle DEF TableCommand, InModule, Cmd, Root
<1>5. ~TableCommand(p)'
  BY <1>1, <1>2, <1>3, AwayIdle DEF TableCommand, InModule, Cmd, Root
<1> QED
  BY <1>1, <1>4, <1>5, Idles, OthersSame DEF Plain

LEMMA MonitoringServed ==
    ASSUME TypeOK, Callers, NEW p \in Proc, Monitoring(p)
    PROVE  Served
<1>1. PICK l, m : /\ Plain(p, l, m) /\ call' = call
                  /\ Admitted(uid, reused, p, l, call[p]) => Cmd(p) \in {"START", "STOP"}
  BY DEF Monitoring
<1>2. Cmd(p) \in {"START", "STOP"} /\ Cmd(p)' = Cmd(p)
  BY <1>1 DEF Callers, Plain, CallerStep, Go, At, Cmd
<1> QED
  BY <1>1, <1>2, Idles, OthersSame DEF Plain, TableCommand

(* A step of p that keeps its call, from l to m. *)
LEMMA KeepsCall ==
    ASSUME TypeOK, NEW p \in Proc, NEW l, NEW m, Go(p, l, m), UNCHANGED <<call, uid>>,
           l \notin {"user", "dead", "oops"}, m \notin {"user", "dead", "oops"}
    PROVE  /\ pc[p] = l /\ pc'[p] = m /\ InModule(p) /\ InModule(p)'
           /\ TableCommand(p)' = TableCommand(p) /\ Request(p)' = Request(p)
<1>1. pc[p] = l /\ pc'[p] = m
  BY PcAfter DEF Actor
<1>2. InModule(p) /\ InModule(p)'
  BY <1>1 DEF InModule
<1>3. TableCommand(p)' = TableCommand(p) /\ Cmd(p)' = Cmd(p) /\ S(p)' = S(p)
  BY <1>2 DEF TableCommand, Root, Cmd, S, ValidSysc
<1> QED
  BY <1>1, <1>2, <1>3 DEF Request

(* EBUSY to INTERCEPT and EINVAL to RELEASE are given on the flag alone, and
   the flag is right. *)
LEMMA EntryServed ==
    ASSUME TypeOK, OneRoot, Callers, Routed, NEW p \in Proc,
           CallTo(p) \/ EntryInvalid(p) \/ EntryRoot(p) \/ EntryUser(p)
    PROVE  Served
<1>0. \A q \in Proc : q # p => Same(q)
  BY ChecksCaller, OthersSame DEF Checking, Plain
<1>1. UNCHANGED sys_call_table
  BY ChecksCaller DEF Checking, Plain
<1>2. CASE CallTo(p)
  <2>1. PICK cmd \in Cmds, s \in SyscArgs, pid \in PidArgs :
          Begin(p, "user", "entry", [cmd |-> cmd, sysc |-> s, pid |-> pid])
    BY <1>2 DEF CallTo, CallMySyscall
  <2>2. pc[p] = "user" /\ pc'[p] = "entry"
    BY <2>1, PcAfter DEF Begin, Actor
  <2>3. Cmd(p)' = cmd /\ S(p)' = s
    BY <2>1 DEF Begin, TypeOK, CallTypeOK, Cmd, S
  <2>4. ~TableCommand(p) /\ Phase(p) = "idle"
    BY <2>2 DEF TableCommand, InModule, Phase
  <2>5. CASE TableCommand(p)'
    <3>1. Phase(p)' = "asked" /\ Request(p)' = [cmd |-> cmd, sysc |-> s]
      BY <2>2, <2>3, <2>5 DEF Phase, Request
    <3>2. cmd \in {"INTERCEPT", "RELEASE"} /\ s \in Sysc \ {Custom}
      BY <2>3, <2>5 DEF TableCommand, ValidSysc
    <3> QED
      BY <1>0, <1>1, <2>4, <3>1, <3>2, Asks DEF Served
  <2> QED
    BY <1>0, <1>1, <2>4, <2>5, Idles
<1>3. ASSUME ~TableCommand(p), NEW m \in {"return", "pid"}, Jump(p, "entry", m) \/ \E c : Return(p, "entry", c)
      PROVE  Served
  <2>1. PICK n \in {"return", "pid"} : Go(p, "entry", n) /\ UNCHANGED <<call, uid>>
    BY <1>3 DEF Jump, Return, JumpWith, callVars
  <2>2. ~TableCommand(p)'
    BY <1>3, <2>1, KeepsCall
  <2> QED
    BY <1>0, <1>1, <1>3, <2>2, Idles
<1>4. CASE EntryInvalid(p)
  BY <1>3, <1>4 DEF EntryInvalid, TableCommand
<1>5. CASE EntryUser(p)
  BY <1>3, <1>5 DEF EntryUser, TableCommand
<1>6. CASE EntryRoot(p)
  <2>1. pc[p] = "entry" /\ ValidSysc(p) /\ Root(p) /\ S(p) \in Sysc \ {Custom}
    BY <1>6 DEF EntryRoot, At, ValidSysc
  <2>2. intercepted[S(p)] <=> sys_call_table[S(p)] = "interceptor"
    BY <2>1, RootSees DEF Settling
  <2>3. CASE Cmd(p) \in {"START", "STOP"}
    BY <1>3, <1>6, <2>3 DEF EntryRoot, TableCommand
  <2>4. CASE Cmd(p) \in {"INTERCEPT", "RELEASE"}
    <3>1. TableCommand(p) /\ Phase(p) = "asked"
      BY <2>1, <2>4 DEF TableCommand, InModule, Phase
    <3>2. ASSUME NEW m \in {"i_lock", "r_lock"}, Jump(p, "entry", m)
          PROVE  Served
      <4>1. Go(p, "entry", m) /\ UNCHANGED <<call, uid>>
        BY <3>2 DEF Jump, callVars
      <4>2. pc'[p] = m /\ InModule(p)' /\ TableCommand(p)'
        BY <3>1, <4>1, KeepsCall
      <4>3. Phase(p)' = "asked"
        BY <4>2 DEF Phase
      <4> QED
        BY <1>0, <1>1, <3>1, <4>1, <4>2, <4>3, Stays
    <3>3. ASSUME NEW code, Return(p, "entry", code), intercepted[S(p)] <=> Cmd(p) = "INTERCEPT",
                 code = IF Cmd(p) = "INTERCEPT" THEN "EBUSY" ELSE "EINVAL"
          PROVE  Served
      <4>1. Go(p, "entry", "return") /\ UNCHANGED <<call, uid>> /\ ret'[p] = code
        BY <3>3 DEF Return, JumpWith, TypeOK, CallTypeOK
      <4>2. pc'[p] = "return" /\ TableCommand(p)' /\ Request(p)' = Request(p)
        BY <3>1, <4>1, KeepsCall
      <4>3. Phase(p)' = "answered"
        BY <4>2 DEF Phase
      <4>4. sys_call_table[S(p)] = "interceptor" <=> Cmd(p) = "INTERCEPT"
        BY <2>2, <3>3
      <4> QED
        BY <1>0, <1>1, <2>1, <3>1, <3>3, <4>1, <4>2, <4>3, <4>4, Refuses DEF Served
    <3> QED
      BY <1>6, <2>4, <3>2, <3>3 DEF EntryRoot
  <2> QED
    BY <1>6, <2>3, <2>4 DEF EntryRoot
<1> QED
  BY <1>2, <1>4, <1>5, <1>6

(* A command that was carried out is confirmed, EINVAL if its pid argument is
   that of no process. *)
LEMMA AnswerServed ==
    ASSUME TypeOK, Callers, NEW p \in Proc,
           CheckPid(p) \/ CheckOwner(p) \/ CommandDone(p) \/ Leave(p, "return", "user")
    PROVE  Served
<1>0. \A q \in Proc : q # p => Same(q)
  BY ChecksCaller, OthersSame DEF Checking, Plain
<1>1. UNCHANGED sys_call_table
  BY ChecksCaller DEF Checking, Plain
<1>2. CASE Leave(p, "return", "user")
  <2>1. pc[p] = "return" /\ pc'[p] = "user"
    BY <1>2, PcAfter DEF Leave, Begin, Actor
  <2>2. ~TableCommand(p)'
    BY <2>1 DEF TableCommand, InModule
  <2>3. CASE TableCommand(p)
    <3>1. Phase(p) = "answered"
      BY <2>1, <2>3 DEF Phase
    <3> QED
      BY <1>0, <1>1, <2>2, <3>1, Leaves DEF Served
  <2> QED
    BY <1>0, <1>1, <2>2, <2>3, Idles
<1>3. ASSUME ~TableCommand(p), NEW l \in {"pid", "owner", "command"}, NEW m \in {"return", "command", "owner", "oops"},
             \/ Jump(p, l, m) \/ \E c : JumpWith(p, l, m, c)
             \/ l = "owner" /\ m = "command" /\ PassOwner(p)
      PROVE  Served
  <2>1. Go(p, l, m) /\ UNCHANGED <<call, uid>>
    BY <1>3 DEF Jump, JumpWith, PassOwner, callVars
  <2>2. ~TableCommand(p)'
    <3>1. CASE m = "oops"
      BY <2>1, <3>1, PcAfter DEF TableCommand, InModule, Actor
    <3>2. CASE m # "oops"
      BY <1>3, <2>1, <3>2, KeepsCall
    <3> QED
      BY <3>1, <3>2
  <2> QED
    BY <1>0, <1>1, <1>3, <2>2, Idles
<1>4. CASE CheckOwner(p)
  <2>1. pc[p] = "owner"
    BY <1>4 DEF CheckOwner, At
  <2>2. ~TableCommand(p)
    BY <2>1 DEF Callers, Admitted, Root, TableCommand
  <2> QED
    BY <1>3, <1>4, <2>2 DEF CheckOwner, Fault, Return
<1>5. ASSUME TableCommand(p), NEW l \in {"pid", "command"}, NEW code \in {"OK", "EINVAL"},
             Return(p, l, code)
      PROVE  Served
  <2>1. Go(p, l, "return") /\ UNCHANGED <<call, uid>> /\ ret'[p] = code
    BY <1>5 DEF Return, JumpWith, TypeOK, CallTypeOK
  <2>2. pc[p] = l /\ pc'[p] = "return" /\ TableCommand(p)' /\ Request(p)' = Request(p)
    BY <1>5, <2>1, KeepsCall
  <2>3. Phase(p) = "done" /\ Phase(p)' = "answered"
    BY <1>5, <2>2 DEF Phase
  <2> QED
    BY <1>0, <1>1, <1>5, <2>1, <2>2, <2>3, Confirms DEF Served
<1>6. CASE CommandDone(p)
  <2>1. CASE TableCommand(p)
    BY <1>5, <1>6, <2>1 DEF CommandDone
  <2>2. CASE ~TableCommand(p)
    BY <1>3, <1>6, <2>2 DEF CommandDone, Return
  <2> QED
    BY <2>1, <2>2
<1>7. CASE CheckPid(p)
  <2>0. \/ Return(p, "pid", "EINVAL")
        \/ Jump(p, "pid", "command")
        \/ ~Root(p) /\ Jump(p, "pid", "owner")
    BY <1>7 DEF CheckPid
  <2>1. CASE ~TableCommand(p)
    BY <1>3, <2>0, <2>1 DEF Return
  <2>2. CASE TableCommand(p) /\ Return(p, "pid", "EINVAL")
    BY <1>5, <2>2
  <2>3. CASE TableCommand(p) /\ Jump(p, "pid", "command")
    <3>1. Go(p, "pid", "command") /\ UNCHANGED <<call, uid>>
      BY <2>3 DEF Jump, callVars
    <3>2. pc[p] = "pid" /\ pc'[p] = "command" /\ InModule(p)' /\ TableCommand(p)'
      BY <2>3, <3>1, KeepsCall
    <3>3. Phase(p) = "done" /\ Phase(p)' = "done"
      BY <2>3, <3>2 DEF Phase
    <3> QED
      BY <1>0, <1>1, <2>3, <3>1, <3>2, <3>3, Stays
  <2> QED
    BY <2>0, <2>1, <2>2, <2>3 DEF TableCommand
<1> QED
  BY <1>2, <1>4, <1>6, <1>7

(* The request is carried out where the handler is set, and only there. *)
LEMMA TableCommandServed ==
    ASSUME TypeOK, OneRoot, Callers, CallChecked, Routed, NEW p \in Proc,
           InterceptCommand(p) \/ ReleaseCommand(p)
    PROVE  Served
<1>0. \A q \in Proc : q # p => Same(q)
  BY TableCommandCaller, OthersSame
<1>1. UNCHANGED <<call, uid>>
  BY TableCommandCaller
<1>2. PICK l, m : Go(p, l, m) /\ l \in TableLabels /\ m \in TableLabels \cup {"pid"}
  BY TableCommandCaller DEF CallerStep
<1>3. /\ pc[p] = l /\ pc'[p] = m /\ InModule(p) /\ InModule(p)'
      /\ TableCommand(p)' = TableCommand(p) /\ Request(p)' = Request(p)
  BY <1>1, <1>2, KeepsCall DEF TableLabels, InterceptLabels, ReleaseLabels
<1>4. S(p) \in Sysc \ {Custom}
  BY <1>2, <1>3, SettlingLabels DEF CallChecked, ValidSysc
<1>5. /\ l \in InterceptLabels => Cmd(p) = "INTERCEPT"
      /\ l \in ReleaseLabels => Cmd(p) = "RELEASE"
      /\ Root(p)
  BY <1>2, <1>3 DEF Callers, Admitted, Root, TableLabels, Cmd
<1>6. TableCommand(p) /\ TableCommand(p)'
  BY <1>2, <1>3, <1>4, <1>5 DEF TableCommand, ValidSysc, TableLabels
<1>7. ASSUME NEW from \in {"i_set", "r_set"}, NEW to \in {"i_unlock", "r_unlock"}, NEW h,
             SetHandler(p, from, to, h), h = "interceptor" <=> from = "i_set"
      PROVE  Served
  <2>1. pc[p] = from /\ pc'[p] = to
    BY <1>7, PcAfter DEF SetHandler, Actor
  <2>2. Phase(p) = "asked" /\ Phase(p)' = "done"
    BY <1>6, <2>1 DEF Phase
  <2>3. Cmd(p) = "INTERCEPT" <=> from = "i_set"
    BY <1>3, <1>5, <2>1 DEF InterceptLabels, ReleaseLabels
  <2>4. sys_call_table[S(p)] = "interceptor" <=> from # "i_set"
    <3>1. intercepted[S(p)] <=> sys_call_table[S(p)] = "interceptor"
      BY <1>4, <1>5, <2>1, RootSees DEF Settling
    <3>2. intercepted[S(p)] <=> from # "i_set"
      BY <2>1 DEF Routed
    <3> QED
      BY <3>1, <3>2
  <2>5. \A s \in Sysc : sys_call_table'[s] = IF s = S(p) THEN h ELSE sys_call_table[s]
    BY <1>4, <1>7 DEF SetHandler, TypeOK, KernelTypeOK
  <2> QED
    BY <1>0, <1>3, <1>4, <1>6, <1>7, <2>2, <2>3, <2>4, <2>5, CarriesOut DEF Served
<1>8. ASSUME UNCHANGED sys_call_table, {l, m} \subseteq {"i_lock", "i_save", "i_set"}
                 \/ {l, m} \subseteq {"r_lock", "r_set"}
                 \/ {l, m} \subseteq {"i_unlock", "i_flag", "r_unlock", "r_flag", "pid"}
      PROVE  Served
  <2>1. Phase(p)' = Phase(p) /\ Phase(p) # "answered"
    BY <1>3, <1>6, <1>8 DEF Phase
  <2> QED
    BY <1>0, <1>1, <1>3, <1>6, <1>8, <2>1, Stays
<1>9. CASE SetHandler(p, "i_set", "i_unlock", "interceptor")
  BY <1>7, <1>9
<1>10. CASE SetHandler(p, "r_set", "r_unlock", f[S(p)])
  <2>1. pc[p] = "r_set"
    BY <1>10 DEF SetHandler, Go, At
  <2>2. sys_call_table[S(p)] = "interceptor"
    <3>1. intercepted[S(p)]
      BY <2>1 DEF Routed
    <3> QED
      BY <1>4, <1>5, <2>1, <3>1, RootSees DEF Settling
  <2>3. f[S(p)] # "interceptor"
    BY <1>4, <2>2, OriginalNotInterceptor DEF Routed, OriginalReachable
  <2> QED
    BY <1>7, <1>10, <2>3
<1>11. CASE ~(\/ SetHandler(p, "i_set", "i_unlock", "interceptor")
              \/ SetHandler(p, "r_set", "r_unlock", f[S(p)]))
  <2>1. UNCHANGED sys_call_table
    BY <1>11 DEF InterceptCommand, ReleaseCommand, LockSys, UnlockSys, SaveOriginal, SetFlag, kernelVars
  <2>2. \/ Go(p, "i_lock", "i_save") \/ Go(p, "i_save", "i_set")
        \/ Go(p, "i_unlock", "i_flag") \/ Go(p, "i_flag", "pid")
        \/ Go(p, "r_lock", "r_set")
        \/ Go(p, "r_unlock", "r_flag") \/ Go(p, "r_flag", "pid")
    BY <1>11 DEF InterceptCommand, ReleaseCommand, LockSys, UnlockSys, SaveOriginal, SetFlag
  <2>3. ASSUME NEW x, NEW y, Go(p, x, y)
        PROVE  l = x /\ m = y
    BY <1>3, <2>3, PcAfter DEF Actor
  <2> QED
    BY <1>8, <2>1, <2>2, <2>3
<1> QED
  BY <1>9, <1>10, <1>11

LEMMA StepServed ==
    ASSUME OneRoot
    PROVE  /\ TypeOK /\ TypeOK' /\ Callers /\ Callers' /\ Kept /\ Routed
           /\ [ServiceNext]_vars
           => [Service!Next]_(Service!vars)
<1> SUFFICES ASSUME TypeOK, TypeOK', Callers, Callers', Kept, Routed, [ServiceNext]_vars
             PROVE  Served
  BY DEF Served
<1>0. CallChecked
  BY DEF Kept, Lists
<1>1. CASE UNCHANGED vars
  <2>1. UNCHANGED <<sys_call_table, pc, call, ret, uid>>
    BY <1>1 DEF vars, kernelVars, callVars
  <2>2. \A q \in Proc : Same(q)
    BY <2>1 DEF Same, Phase, Request, Answer, TableCommand, Root, Cmd, S, ValidSysc, InModule
  <2> QED
    BY <2>1, <2>2, AllSame DEF Served
<1>2. ASSUME NEW p \in Proc, ProcNext(p)
      PROVE  Served
  <2>1. CASE CallTo(p)
    BY <2>1, EntryServed
  <2>2. CASE (Enter(p) \/ InterceptorRun(p) \/ MyExitGroup(p)) /\ ~CallTo(p)
    BY <2>2, OtherCallsCaller, DistantServed
  <2>3. CASE MySyscall(p)
    BY <1>0, <2>3, EntryServed, AnswerServed, TableCommandServed, MonitorCommandCaller, UnlockCaller,
       MonitoringServed DEF MySyscall
  <2> QED
    BY <1>2, <2>1, <2>2, <2>3 DEF ProcNext, Run
<1> QED
  BY <1>1, <1>2 DEF ServiceNext

LEMMA LoadedServes == LoadedInit => Service!Init
<1> SUFFICES ASSUME LoadedInit PROVE Service!Init
  OBVIOUS
<1>1. \A p \in Proc : Phase(p) = "idle" /\ ~TableCommand(p)
  BY DEF LoadedInit, Actor, Phase, TableCommand, InModule
<1>2. \A s \in Sysc \ {Custom} : sys_call_table[s] # "interceptor"
  BY DEF LoadedInit
<1> QED
  BY <1>1, <1>2 DEF Service!Init, Service!NoRequest

(* With one process of root, INTERCEPT and RELEASE are carried out in one step
   each and refused only in a state that justifies it: my_syscall implements
   the atomic service, although it tests table[s].intercepted outside every
   lock (interceptor.c:338-366). *)
THEOREM ServiceImplemented ==
    ASSUME OneRoot
    PROVE  ServiceSpec => ImplementsService
<1>1. LoadedInit => Service!Init
  BY LoadedServes
<1>2. /\ TypeOK /\ TypeOK' /\ Callers /\ Callers' /\ Kept /\ Routed
      /\ [ServiceNext]_vars
      => [Service!Next]_(Service!vars)
  BY StepServed
<1> QED
  BY <1>1, <1>2, ServiceTypeCorrect, ServiceCallers, ServiceKept, ServiceRouted,
     PTL DEF ServiceSpec, ImplementsService, Service!Spec
====
