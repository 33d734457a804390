----------------------------- MODULE PageStore -----------------------------
(***************************************************************************)
(* What the virtual memory of a3 promises the traced program, without      *)
(* frames, page tables or swap: every page has a version counter, a write  *)
(* adds one to it (access_mem), and no access disturbs another page,       *)
(* except that the memory may forget one page altogether while it serves   *)
(* another.  The promise one would like has no such exception; the code    *)
(* does forget pages (see NoWriteIsForgotten in VirtualMemory).            *)
(***************************************************************************)
EXTENDS Naturals

CONSTANTS Page

VARIABLES version       \* version[p]: the counter an access to p would find

StoreInit == version = [p \in Page |-> 0]

(* A read or a write of p, forgetting the pages in lost on the way. *)
Touch(p, written, lost) ==
    version' = [q \in Page |-> IF q \in lost THEN 0
                               ELSE IF q = p /\ written THEN version[q] + 1
                               ELSE version[q]]

StoreNext ==
    \E p \in Page, written \in BOOLEAN :
        \/ Touch(p, written, {})
        \/ \E victim \in Page \ {p} : Touch(p, written, {victim})

StoreSpec == StoreInit /\ [][StoreNext]_version
=============================================================================
