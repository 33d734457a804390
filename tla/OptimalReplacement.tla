------------------------- MODULE OptimalReplacement -------------------------
(***************************************************************************)
(* VirtualMemory with the eviction algorithm of opt.c.  opt_init reads the *)
(* whole trace into a list of addresses before replay_trace of sim.c reads *)
(* it line by line; opt_ref drops the first node of the list at each       *)
(* reference.  Both read the same file, but replay_trace skips the lines   *)
(* that start with '=' and opt_init does not.                              *)
(***************************************************************************)
EXTENDS VirtualMemory, Sequences

CONSTANTS Header      \* a line that starts with '='

(* With one frame return_greatest_distance_index may return an index it    *)
(* never set: memsize = 1 is left out.                                     *)
ASSUME TraceAssumption == Header \notin Page \cup {NoPage} /\ memsize > 1

Line == Page \cup {Header}

VARIABLES
    trace,      \* the lines of the trace file
    pos,        \* the line that replay_trace reads next
    head,       \* head_vnode: the line that the first node was made from
    junk        \* the address opt_init had in virtualAddress at its start

optvars == <<vars, trace, pos, head, junk>>

(* malloc'd list of opt_init: sscanf leaves the address of the line before *)
(* in place when it fails on a header.                                     *)
Node(i) ==
    LET before == {j \in 1 .. i : trace[j] # Header}
    IN  IF before = {} THEN junk
        ELSE trace[CHOOSE j \in before : \A k \in before : k <= j]

Init ==
    /\ MemoryInit
    /\ trace \in [1 .. MaxRefs -> Line]
    /\ junk \in Page \cup {NoPage}
    /\ trace[1] # Header => junk = NoPage     \* never used
    /\ pos = 1 /\ head = 1

-----------------------------------------------------------------------------
(* opt_evict *)

(* The nodes after the head with the address found in frame f. *)
NextUses(f) ==
    {i \in head + 1 .. Len(trace) : Node(i) = physmem[pte[coremap[f]].frame].vaddr}

Distance(f) == CHOOSE i \in NextUses(f) : \A j \in NextUses(f) : i <= j

(* Mutant: the frame whose page is used soonest. *)
opt_evict_soonest(f) ==
    LET never == {g \in Frame : NextUses(g) = {}}
    IN  \/ f \in never /\ \A g \in never : f <= g
        \/ never = {} /\ \A g \in Frame : Distance(f) <= Distance(g)

(* The first frame whose page is not used again; without one, the frame    *)
(* whose page is used last.                                                *)
opt_evict(f) ==
    LET never == {g \in Frame : NextUses(g) = {}}
    IN  \/ f \in never /\ \A g \in never : f <= g
        \/ never = {} /\ \A g \in Frame : Distance(f) >= Distance(g)

opt_ref_stays == head' = head     \* mutant
opt_ref == head' = head + 1

-----------------------------------------------------------------------------
(* replay_trace *)

Reads(p) == pos <= Len(trace) /\ trace[pos] = p /\ pos' = pos + 1

SkipHeader ==
    /\ halted = "no"
    /\ Reads(Header)
    /\ UNCHANGED <<vars, trace, head, junk>>

Reference(type, p) ==
    /\ Reads(p)
    /\ \/ Hit(type, p)
       \/ \E f \in Frame : Miss(type, p, f, {}) /\ (FreeFrames = {} => opt_evict(f))
    /\ opt_ref
    /\ UNCHANGED <<trace, junk>>

Next ==
    \/ SkipHeader
    \/ \E type \in AccessType, p \in Page : Reference(type, p)
    \/ /\ pos <= Len(trace) /\ trace[pos] \in Page
       /\ Die(trace[pos])
       /\ UNCHANGED <<trace, pos, head, junk>>

Spec == Init /\ [][Next]_optvars

-----------------------------------------------------------------------------
(* Properties *)

(* The fewest misses that any choice of victims can have on the lines from *)
(* i on, when the pages of resident are in memory, by what it is from line *)
(* i + 1 on.                                                               *)
FewestFrom(i, later) ==
    [resident \in SUBSET Page |->
        IF trace[i] = Header \/ trace[i] \in resident THEN later[resident]
        ELSE IF Cardinality(resident) < memsize THEN 1 + later[resident \cup {trace[i]}]
        ELSE LET After(victim) == later[(resident \ {victim}) \cup {trace[i]}]
             IN  1 + After(CHOOSE best \in resident :
                              \A victim \in resident : After(best) <= After(victim))]

Fewest[i \in 1 .. MaxRefs + 1] ==
    IF i > MaxRefs THEN [resident \in SUBSET Page |-> 0] ELSE FewestFrom(i, Fewest[i + 1])

Resident == {p \in Page : pte[p].valid}

(* opt.c: "the optimal (aka MIN) algorithm".  No eviction of OPT ever      *)
(* costs a miss: the misses so far and the fewest still to come add up to  *)
(* the fewest for the whole trace.  For traces without headers: with one   *)
(* the list runs behind the trace, and OPT looks for pages in the past.    *)
OptIsOptimal ==
    (\A i \in DOMAIN trace : trace[i] # Header) /\ halted = "no" =>
        stats.miss + Fewest[pos][Resident] = Fewest[1][{}]

(* opt_ref frees the head without a test for the end of the list: the list *)
(* lasts as long as the trace, and while no header was read, its head is   *)
(* the line being replayed.                                                *)
ListOutlastsTrace ==
    /\ pos <= Len(trace) => head <= pos
    /\ pos - head = Cardinality({i \in 1 .. pos - 1 : trace[i] = Header})
=============================================================================
