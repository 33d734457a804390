-------------------------- MODULE InterceptService --------------------------
(***************************************************************************)
(* What REQUEST_SYSCALL_INTERCEPT and REQUEST_SYSCALL_RELEASE promise: a   *)
(* request is carried out in one step, and is refused only in a state that *)
(* justifies it.  A request that was carried out may still be answered     *)
(* EINVAL, because my_syscall goes on to check the pid argument.           *)
(***************************************************************************)
EXTENDS Integers

CONSTANTS Client, Target

VARIABLES
    on,        \* on[s]: calls of s pass through interceptor
    phase,     \* of each client: idle, asked, done (carried out), answered
    request,   \* of each client
    answer     \* of each client that was answered

vars == <<on, phase, request, answer>>

NoRequest == [cmd |-> "none", sysc |-> 0]

Init ==
    /\ on = [s \in Target |-> FALSE]
    /\ phase = [c \in Client |-> "idle"]
    /\ request = [c \in Client |-> NoRequest]
    /\ answer = [c \in Client |-> "OK"]

Move(c, from, to) == phase[c] = from /\ phase' = [phase EXCEPT ![c] = to]

Ask(c, cmd, s) ==
    /\ Move(c, "idle", "asked")
    /\ request' = [request EXCEPT ![c] = [cmd |-> cmd, sysc |-> s]]
    /\ UNCHANGED <<on, answer>>

CarryOut(c) ==
    LET r == request[c] IN
    /\ Move(c, "asked", "done")
    /\ on[r.sysc] # (r.cmd = "INTERCEPT")
    /\ on' = [on EXCEPT ![r.sysc] = (r.cmd = "INTERCEPT")]
    /\ UNCHANGED <<request, answer>>

Refuse(c) ==
    LET r == request[c] IN
    /\ Move(c, "asked", "answered")
    /\ on[r.sysc] = (r.cmd = "INTERCEPT")
    /\ answer' = [answer EXCEPT ![c] = IF r.cmd = "INTERCEPT" THEN "EBUSY" ELSE "EINVAL"]
    /\ UNCHANGED <<on, request>>

Confirm(c) ==
    /\ Move(c, "done", "answered")
    /\ \E code \in {"OK", "EINVAL"} : answer' = [answer EXCEPT ![c] = code]
    /\ UNCHANGED <<on, request>>

Leave(c) ==
    /\ Move(c, "answered", "idle")
    /\ request' = [request EXCEPT ![c] = NoRequest]
    /\ answer' = [answer EXCEPT ![c] = "OK"]
    /\ UNCHANGED on

Next == \E c \in Client :
    \/ \E cmd \in {"INTERCEPT", "RELEASE"}, s \in Target : Ask(c, cmd, s)
    \/ CarryOut(c) \/ Refuse(c) \/ Confirm(c) \/ Leave(c)

Spec == Init /\ [][Next]_vars
=============================================================================
