-------------------------- MODULE PageReplacement --------------------------
(***************************************************************************)
(* VirtualMemory with the eviction algorithms of a3 that decide without    *)
(* the rest of the trace: rand.c, lru.c, fifo.c and clock.c.  main looks   *)
(* -a up in algs[] once, so alg is chosen in the initial state.  opt.c,    *)
(* which reads the trace beforehand, is OptimalReplacement.                *)
(***************************************************************************)
EXTENDS VirtualMemory, Sequences, SequencesExt

CONSTANTS Algorithms      \* the algorithms to run: names of algs[]

ASSUME AlgorithmsAssumption == Algorithms \subseteq {"rand", "lru", "fifo", "clock"}

VARIABLES
    alg,        \* the algorithm that init_fcn, ref_fcn and evict_fcn belong to
    headIndex,  \* fifo.c
    clockHand,  \* clock.c
    count,      \* count[f]: the count field of coremap[f], used by lru.c
    \* What happened so far, kept to state properties only:
    queue,      \* the pages in memory, the one loaded first at the head
    recency,    \* the pages in memory, the one least recently used at the head
    idle        \* idle[f]: evictions since the page in frame f was last used

state   == <<headIndex, clockHand, count>>
history == <<queue, recency, idle>>
allvars == <<vars, alg, state, history>>

Init ==
    /\ MemoryInit
    /\ alg \in Algorithms
    /\ headIndex = 0 /\ clockHand = 0
    /\ count = [f \in Frame |-> 0]
    /\ queue = <<>> /\ recency = <<>>
    /\ idle = [f \in Frame |-> 0]

-----------------------------------------------------------------------------
(* evict_fcn: f is the frame returned, cleared the pages whose REF bit is  *)
(* cleared on the way.                                                     *)

rand_evict(f, cleared) == f \in Frame /\ cleared = {} /\ UNCHANGED <<headIndex, clockHand>>

(* Mutants: the index is not wrapped around; the frame after it is taken. *)
fifo_evict_unwrapped(f, cleared) ==
    f = headIndex /\ headIndex' = headIndex + 1 /\ cleared = {} /\ UNCHANGED clockHand
fifo_evict_next(f, cleared) ==
    /\ f = (headIndex + 1) % memsize
    /\ headIndex' = (headIndex + 1) % memsize
    /\ cleared = {}
    /\ UNCHANGED clockHand

fifo_evict(f, cleared) ==
    /\ f = headIndex
    /\ headIndex' = (headIndex + 1) % memsize
    /\ cleared = {}
    /\ UNCHANGED clockHand

(* The frame i steps ahead of the hand, and whether its page is referenced. *)
Ahead(i) == (clockHand + i) % memsize
RefAhead(i) == pte[coremap[Ahead(i)]].ref

(* Mutant: the hand starts at frame 0 every time. *)
clock_evict_restarts(f, cleared) ==
    \E n \in 0 .. memsize :
        /\ \A i \in 0 .. n - 1 : RefAhead(i)
        /\ n = memsize \/ ~RefAhead(n)
        /\ cleared = {coremap[Ahead(i)] : i \in 0 .. n - 1}
        /\ f = Ahead(n)
        /\ clockHand' = 0
        /\ UNCHANGED headIndex

(* The loop moves the hand over n referenced pages, clearing their bits,   *)
(* and stops at the first page without the bit: back where it started      *)
(* when all of them had it.                                                *)
clock_evict(f, cleared) ==
    \E n \in 0 .. memsize :
        /\ \A i \in 0 .. n - 1 : RefAhead(i)
        /\ n = memsize \/ ~RefAhead(n)
        /\ cleared = {coremap[Ahead(i)] : i \in 0 .. n - 1}
        /\ f = Ahead(n)
        /\ clockHand' = f
        /\ UNCHANGED headIndex

(* The first frame with the smallest count. *)
lru_evict(f, cleared) ==
    /\ f \in Frame
    /\ \A g \in Frame : count[f] < count[g] \/ (count[f] = count[g] /\ f <= g)
    /\ cleared = {}
    /\ UNCHANGED <<headIndex, clockHand>>

evict_fcn(f, cleared) ==
    \/ alg = "rand"  /\ rand_evict(f, cleared)
    \/ alg = "lru"   /\ lru_evict(f, cleared)
    \/ alg = "fifo"  /\ fifo_evict(f, cleared)
    \/ alg = "clock" /\ clock_evict(f, cleared)

-----------------------------------------------------------------------------
(* ref_fcn: only lru keeps anything per reference, the number of           *)
(* references to the frame, whatever pages it held; clock_ref sets the REF *)
(* bit that find_physpage has just set.                                    *)

(* Where the loop of lru_ref stops when it looks for the entry of p from   *)
(* index start on: one past coremap if it does not find it.                *)
Found(start, p) ==
    LET at == {f \in start .. memsize - 1 : coremap'[f] = p}
    IN  IF at = {} THEN memsize ELSE CHOOSE f \in at : \A g \in at : f <= g

lru_ref_from_one(p) == [count EXCEPT ![Found(1, p)] = @ + 1]  \* mutant
lru_ref(p) == [count EXCEPT ![Found(0, p)] = @ + 1]

ref_fcn(p) == count' = IF alg = "lru" THEN lru_ref(p) ELSE count

-----------------------------------------------------------------------------
(* One line of the trace *)

(* The sequence s without p, which it holds once. *)
Without(s, p) == RemoveAt(s, CHOOSE i \in 1 .. Len(s) : s[i] = p)

(* Idle times are not told apart above the bound of ClockEvictsTheIdle. *)
IdleBound == 2 * (memsize - 1)
Older(n) == IF n < IdleBound THEN n + 1 ELSE n

ReferenceHit(type, p) ==
    /\ Hit(type, p)
    /\ ref_fcn(p)
    /\ queue' = queue
    /\ recency' = Append(Without(recency, p), p)
    /\ idle' = [idle EXCEPT ![pte[p].frame] = 0]
    /\ UNCHANGED <<alg, headIndex, clockHand>>

ReferenceFill(type, p, f) ==
    /\ FreeFrames # {}
    /\ Miss(type, p, f, {})
    /\ ref_fcn(p)
    /\ queue' = Append(queue, p)
    /\ recency' = Append(recency, p)
    /\ UNCHANGED <<alg, headIndex, clockHand, idle>>

ReferenceEvict(type, p, f, cleared) ==
    /\ FreeFrames = {}
    /\ evict_fcn(f, cleared)
    /\ Miss(type, p, f, cleared)
    /\ ref_fcn(p)
    /\ queue' = Append(Without(queue, coremap[f]), p)
    /\ recency' = Append(Without(recency, coremap[f]), p)
    /\ idle' = [g \in Frame |-> IF g = f THEN 0 ELSE Older(idle[g])]
    /\ UNCHANGED alg

Next ==
    \/ \E type \in AccessType, p \in Page : ReferenceHit(type, p)
    \/ \E type \in AccessType, p \in Page, f \in Frame : ReferenceFill(type, p, f)
    \/ \E type \in AccessType, p \in Page, f \in Frame, cleared \in SUBSET Page :
          ReferenceEvict(type, p, f, cleared)
    \/ \E p \in Page : Die(p) /\ UNCHANGED <<alg, state, history>>

Spec == Init /\ [][Next]_allvars

-----------------------------------------------------------------------------
(* Properties *)

(* Each variable of the algorithms stays in its type. *)
PolicyTypeOK ==
    /\ TypeOK
    /\ alg \in Algorithms
    /\ headIndex \in Frame /\ clockHand \in Frame
    /\ count \in [Frame -> Nat]

(* fifo.c keeps no queue, only an index that moves by one at an eviction   *)
(* (README.pdf: "a page replacement queue"): read from headIndex on, the   *)
(* frames must hold the pages in the order they were loaded.               *)
FifoIsAQueue ==
    alg = "fifo" =>
        /\ FreeFrames = {} =>
              \A i \in 1 .. memsize : coremap[(headIndex + i - 1) % memsize] = queue[i]
        /\ FreeFrames # {} =>
              headIndex = 0 /\ \A i \in 1 .. Len(queue) : coremap[i - 1] = queue[i]

(* clock.c leaves its hand on the frame it has just refilled, and may go   *)
(* all the way round: a page that is no longer used must still leave       *)
(* before the hand has made two rounds over the other frames.              *)
ClockEvictsTheIdle ==
    alg = "clock" /\ memsize > 1 => \A f \in Frame : idle[f] < IdleBound

(* The sum of c over the frames. *)
Total(c) ==
    LET below[n \in 0 .. memsize] == IF n = 0 THEN 0 ELSE below[n - 1] + c[n - 1]
    IN  below[memsize]

(* lru_ref looks the page up in coremap, without a test for not finding    *)
(* it: every reference must have been counted on the frame of its page,    *)
(* none lost past the end of coremap.                                      *)
LruCountsEveryReference == alg = "lru" => Total(count) = stats.ref

(* lru.c: "Page to evict is chosen using the accurate LRU algorithm": the  *)
(* frame that lru_evict returns holds the least recently used page.        *)
LruIsAccurate ==
    alg = "lru" /\ FreeFrames = {} =>
        \A f \in Frame :
            (\A g \in Frame : count[f] < count[g] \/ (count[f] = count[g] /\ f <= g))
                => coremap[f] = Head(recency)
=============================================================================
