----------------------- MODULE PageReplacementProofs -----------------------
(* Theorems about PageReplacement, for any pages, frames and slots: what    *)
(* VirtualMemoryProofs proves of any victim holds for the algorithms of a3. *)
EXTENDS PageReplacement, VirtualMemoryProofs, SequenceTheorems

USE MemoryAssumption DEF INVALID_SWAP

-----------------------------------------------------------------------------
(* Each reference is one access of the memory. *)
LEMMA StepImplemented == [Next]_allvars => [MemoryNext]_vars
<1> SUFFICES ASSUME [Next]_allvars PROVE [MemoryNext]_vars
  OBVIOUS
<1>1. ASSUME NEW type \in AccessType, NEW p \in Page, ReferenceHit(type, p)
      PROVE  MemoryNext
  BY <1>1 DEF ReferenceHit, MemoryNext
<1>2. ASSUME NEW type \in AccessType, NEW p \in Page, NEW f \in Frame, ReferenceFill(type, p, f)
      PROVE  MemoryNext
  <2>1. Miss(type, p, f, {}) /\ {} \in SUBSET Page
    BY <1>2 DEF ReferenceFill
  <2> QED
    BY <2>1 DEF MemoryNext
<1>3. ASSUME NEW type \in AccessType, NEW p \in Page, NEW f \in Frame,
             NEW cleared \in SUBSET Page, ReferenceEvict(type, p, f, cleared)
      PROVE  MemoryNext
  BY <1>3 DEF ReferenceEvict, MemoryNext
<1>4. CASE \E p \in Page : Die(p) /\ UNCHANGED <<alg, state, history>>
  BY <1>4 DEF MemoryNext
<1>5. CASE UNCHANGED allvars
  BY <1>5 DEF allvars
<1> QED
  BY <1>1, <1>2, <1>3, <1>4, <1>5 DEF Next

(* rand.c, lru.c, fifo.c and clock.c are victims that find_physpage can    *)
(* have: the simulator with any of them implements the memory whose victim *)
(* is arbitrary, so that all that is proved of it holds with each.         *)
THEOREM AlgorithmsImplementMemory == Spec => MemorySpec
<1>1. Init => MemoryInit
  BY DEF Init
<1> QED
  BY <1>1, StepImplemented, PTL DEF Spec, MemorySpec

-----------------------------------------------------------------------------
(* The indices of the algorithms *)

LEMMA FrameIndex ==
    ASSUME NEW i \in Int
    PROVE  i % memsize \in Frame
BY DEF Frame

PolicyType ==
    /\ alg \in Algorithms
    /\ headIndex \in Frame /\ clockHand \in Frame
    /\ count \in [Frame -> Nat]

LEMMA EvictType ==
    ASSUME PolicyType, NEW f \in Frame, NEW cleared, evict_fcn(f, cleared)
    PROVE  headIndex' \in Frame /\ clockHand' \in Frame
<1>1. headIndex \in Int
  BY DEF PolicyType, Frame
<1>2. (headIndex + 1) % memsize \in Frame
  BY <1>1, FrameIndex
<1> QED
  BY <1>2 DEF PolicyType, evict_fcn, rand_evict, fifo_evict, clock_evict, lru_evict

LEMMA CountedType ==
    ASSUME PolicyType, NEW p, ref_fcn(p)
    PROVE  count' \in [Frame -> Nat]
<1> DEFINE i == Found(0, p)
<1> HIDE DEF i
<1>1. count \in [Frame -> Nat]
  BY DEF PolicyType
<1>2. i \in Frame => count[i] + 1 \in Nat
  BY <1>1
<1>3. [count EXCEPT ![i] = count[i] + 1] \in [Frame -> Nat]
  BY ONLY <1>1, <1>2, UpdateType
<1> QED
  BY <1>1, <1>3 DEF ref_fcn, lru_ref, i

LEMMA PolicyStep ==
    ASSUME PolicyType, [Next]_allvars
    PROVE  PolicyType'
<1>1. ASSUME NEW type \in AccessType, NEW p \in Page, ReferenceHit(type, p)
      PROVE  PolicyType'
  BY <1>1, CountedType DEF ReferenceHit, PolicyType
<1>2. ASSUME NEW type \in AccessType, NEW p \in Page, NEW f \in Frame, ReferenceFill(type, p, f)
      PROVE  PolicyType'
  BY <1>2, CountedType DEF ReferenceFill, PolicyType
<1>3. ASSUME NEW type \in AccessType, NEW p \in Page, NEW f \in Frame,
             NEW cleared \in SUBSET Page, ReferenceEvict(type, p, f, cleared)
      PROVE  PolicyType'
  BY <1>3, CountedType, EvictType DEF ReferenceEvict, PolicyType
<1>4. CASE UNCHANGED <<alg, state>>
  BY <1>4 DEF state, PolicyType
<1> QED
  BY <1>1, <1>2, <1>3, <1>4 DEF Next, allvars

LEMMA AlwaysPolicyType == Spec => []PolicyType
<1>1. Init => PolicyType
  BY DEF Init, PolicyType, Frame
<1>2. PolicyType /\ [Next]_allvars => PolicyType'
  BY PolicyStep
<1> QED
  BY <1>1, <1>2, PTL DEF Spec

(* fifo's index and clock's hand stay inside coremap, through any number   *)
(* of rounds.                                                              *)
THEOREM PolicyTypeCorrect == Spec => []PolicyTypeOK
<1>1. TypeOK /\ PolicyType => PolicyTypeOK
  BY DEF PolicyType, PolicyTypeOK
<1> QED
  BY <1>1, AlwaysPolicyType, AlgorithmsImplementMemory, TypeCorrect, PTL

-----------------------------------------------------------------------------
(* lru's counts *)

(* The recursive function of Total is the only one that adds up c. *)
LEMMA TotalIs ==
    ASSUME NEW c \in [Frame -> Nat], NEW g \in [0 .. memsize -> Nat], g[0] = 0,
           \A n \in 1 .. memsize : g[n] = g[n - 1] + c[n - 1]
    PROVE  Total(c) = g[memsize]
<1> DEFINE Rec(t) == t = [n \in 0 .. memsize |-> IF n = 0 THEN 0 ELSE t[n - 1] + c[n - 1]]
           t == CHOOSE t : Rec(t)
<1>1. Total(c) = t[memsize]
  BY DEF Total
<1>2. Rec(g)
  OBVIOUS
<1>3. Rec(t)
  BY <1>2
<1> HIDE DEF t
<1> DEFINE T == {n \in 0 .. memsize : t[n] = g[n]}
<1>4. 0 \in T
  BY <1>3
<1>5. ASSUME NEW n \in 0 .. memsize - 1, n \in T
      PROVE  n + 1 \in T
  <2>1. n + 1 \in 0 .. memsize /\ n + 1 # 0 /\ (n + 1) - 1 = n
    OBVIOUS
  <2>2. t[n + 1] = t[n] + c[n] /\ g[n + 1] = g[n] + c[n]
    BY <1>3, <2>1
  <2> QED
    BY <1>5, <2>1, <2>2
<1>6. 0 .. memsize \subseteq T
  <2> HIDE DEF T
  <2> QED
    BY <1>4, <1>5, Induction
<1> QED
  BY <1>1, <1>6

LEMMA SumsExist ==
    ASSUME NEW c \in [Frame -> Nat]
    PROVE  \E g \in [0 .. memsize -> Nat] :
               g[0] = 0 /\ \A n \in 1 .. memsize : g[n] = g[n - 1] + c[n - 1]
<1> DEFINE Sums(k, g) == g[0] = 0 /\ \A n \in 1 .. k : g[n] = g[n - 1] + c[n - 1]
           Summed(k) == \E g \in [0 .. k -> Nat] : Sums(k, g)
           T == {k \in 0 .. memsize : Summed(k)}
<1>1. Summed(0)
  <2>1. [n \in 0 .. 0 |-> 0] \in [0 .. 0 -> Nat] /\ Sums(0, [n \in 0 .. 0 |-> 0])
    OBVIOUS
  <2> HIDE DEF Sums
  <2> QED
    BY <2>1
<1>2. ASSUME NEW k \in 0 .. memsize - 1, Summed(k)
      PROVE  Summed(k + 1)
  <2>1. PICK g \in [0 .. k -> Nat] : Sums(k, g)
    BY <1>2
  <2> DEFINE h == [n \in 0 .. k + 1 |-> IF n = k + 1 THEN g[k] + c[k] ELSE g[n]]
  <2>2. c[k] \in Nat
    BY DEF Frame
  <2>3. h \in [0 .. k + 1 -> Nat]
    BY <2>2
  <2>4. Sums(k + 1, h)
    <3>1. h[0] = 0
      BY <2>1
    <3>2. ASSUME NEW n \in 1 .. k + 1
          PROVE  h[n] = h[n - 1] + c[n - 1]
      <4>1. CASE n = k + 1
        BY <4>1
      <4>2. CASE n # k + 1
        BY <2>1, <4>2
      <4> QED
        BY <4>1, <4>2
    <3> QED
      BY <3>1, <3>2
  <2> HIDE DEF h, Sums
  <2> QED
    BY <2>3, <2>4
<1> HIDE DEF Summed
<1>3. 0 \in T /\ \A k \in 0 .. memsize - 1 : k \in T => k + 1 \in T
  BY <1>1, <1>2
<1>4. 0 .. memsize \subseteq T
  <2> HIDE DEF T
  <2> QED
    BY <1>3, Induction
<1>5. Summed(memsize)
  BY <1>4
<1> QED
  BY <1>5 DEF Summed

LEMMA TotalZero == Total([f \in Frame |-> 0]) = 0
<1> DEFINE g == [n \in 0 .. memsize |-> 0]
<1>1. Total([f \in Frame |-> 0]) = g[memsize]
  <2>1. [f \in Frame |-> 0] \in [Frame -> Nat] /\ g \in [0 .. memsize -> Nat] /\ g[0] = 0
    OBVIOUS
  <2>2. \A n \in 1 .. memsize : g[n] = g[n - 1] + [f \in Frame |-> 0][n - 1]
    BY DEF Frame
  <2> HIDE DEF g
  <2> QED
    BY <2>1, <2>2, TotalIs
<1> QED
  BY <1>1

LEMMA TotalOneMore ==
    ASSUME NEW c \in [Frame -> Nat], NEW f \in Frame
    PROVE  Total([c EXCEPT ![f] = @ + 1]) = Total(c) + 1
<1>1. PICK g \in [0 .. memsize -> Nat] :
          g[0] = 0 /\ \A n \in 1 .. memsize : g[n] = g[n - 1] + c[n - 1]
  BY SumsExist
<1> DEFINE d == [c EXCEPT ![f] = @ + 1]
           h == [n \in 0 .. memsize |-> IF n > f THEN g[n] + 1 ELSE g[n]]
<1>2. d \in [Frame -> Nat] /\ \A e \in Frame : d[e] = IF e = f THEN c[e] + 1 ELSE c[e]
  OBVIOUS
<1>3. h \in [0 .. memsize -> Nat] /\ h[0] = 0 /\ h[memsize] = g[memsize] + 1
  BY <1>1 DEF Frame
<1>4. ASSUME NEW n \in 1 .. memsize
      PROVE  h[n] = h[n - 1] + d[n - 1]
  <2>1. n - 1 \in Frame /\ n - 1 \in 0 .. memsize /\ f \in Int
    BY DEF Frame
  <2>2. g[n] = g[n - 1] + c[n - 1] /\ g[n - 1] \in Nat /\ c[n - 1] \in Nat
    BY <1>1, <2>1
  <2>3. h[n] = (IF n > f THEN g[n] + 1 ELSE g[n]) /\ h[n - 1] = IF n - 1 > f THEN g[n - 1] + 1 ELSE g[n - 1]
    BY <2>1
  <2>4. d[n - 1] = IF n - 1 = f THEN c[n - 1] + 1 ELSE c[n - 1]
    BY <1>2, <2>1
  <2> HIDE DEF h, d
  <2> QED
    BY <2>1, <2>2, <2>3, <2>4
<1>5. Total(c) = g[memsize]
  BY <1>1, TotalIs
<1>6. Total(d) = h[memsize]
  <2> HIDE DEF h, d
  <2> QED
    BY <1>2, <1>3, <1>4, TotalIs
<1> QED
  BY <1>3, <1>5, <1>6

Counting == alg = "lru" => Total(count) = stats.ref

LEMMA FoundIt ==
    ASSUME NEW p, NEW f \in Frame, coremap'[f] = p
    PROVE  Found(0, p) \in Frame /\ coremap'[Found(0, p)] = p
<1> DEFINE at == {g \in 0 .. memsize - 1 : coremap'[g] = p}
<1>1. at # {} /\ at \in SUBSET Nat
  BY DEF Frame
<1>2. \E g \in at : \A e \in at : g <= e
  <2> HIDE DEF at
  <2> QED
    BY <1>1, LeastNumber
<1>3. Found(0, p) \in at
  BY <1>1, <1>2 DEF Found
<1> QED
  BY <1>3 DEF Frame

LEMMA CountingStep ==
    ASSUME TypeOK, CoremapMatchesPageTable, PolicyType, Counting, [Next]_allvars
    PROVE  Counting'
<1>1. ASSUME NEW p, NEW f \in Frame, coremap'[f] = p, ref_fcn(p), alg' = alg,
             stats'.ref = stats.ref + 1
      PROVE  Counting'
  <2>1. CASE alg = "lru"
    <3> DEFINE i == Found(0, p)
    <3>1. i \in Frame
      BY <1>1, FoundIt
    <3> HIDE DEF i
    <3>2. count' = [count EXCEPT ![i] = @ + 1]
      BY <1>1, <2>1 DEF ref_fcn, lru_ref, i
    <3>3. Total([count EXCEPT ![i] = @ + 1]) = Total(count) + 1
      BY <3>1, TotalOneMore DEF PolicyType
    <3> QED
      BY <1>1, <2>1, <3>2, <3>3 DEF Counting
  <2> QED
    BY <1>1, <2>1 DEF Counting
<1>2. ASSUME NEW type \in AccessType, NEW p \in Page, ReferenceHit(type, p)
      PROVE  Counting'
  <2>1. pte[p].frame \in Frame /\ coremap'[pte[p].frame] = p
    BY <1>2 DEF ReferenceHit, Hit, TypeOK, Entry, CoremapMatchesPageTable
  <2> QED
    BY <1>1, <1>2, <2>1 DEF ReferenceHit, Hit, CountHit
<1>3. ASSUME NEW type, NEW p \in Page, NEW f \in Frame, NEW cleared, Miss(type, p, f, cleared)
      PROVE  stats'.ref = stats.ref + 1 /\ coremap'[f] = p
  BY <1>3 DEF Miss, MissNew, MissSwapped, CountMiss, TypeOK
<1>4. ASSUME NEW type \in AccessType, NEW p \in Page, NEW f \in Frame, ReferenceFill(type, p, f)
      PROVE  Counting'
  BY <1>1, <1>3, <1>4 DEF ReferenceFill
<1>5. ASSUME NEW type \in AccessType, NEW p \in Page, NEW f \in Frame,
             NEW cleared \in SUBSET Page, ReferenceEvict(type, p, f, cleared)
      PROVE  Counting'
  BY <1>1, <1>3, <1>5 DEF ReferenceEvict
<1>6. CASE UNCHANGED <<alg, count, stats>>
  BY <1>6 DEF Counting
<1> QED
  BY <1>2, <1>4, <1>5, <1>6 DEF Next, allvars, vars, state, Die

(* lru_ref always finds the page it is called for: every reference of the
   trace is counted on a frame, for any number of frames (lru.c:45-53). *)
THEOREM LruCountsCorrect == Spec => []LruCountsEveryReference
<1>1. Init => Counting
  BY TotalZero DEF Init, MemoryInit, Counting
<1>2. TypeOK /\ CoremapMatchesPageTable /\ PolicyType /\ Counting /\ [Next]_allvars => Counting'
  BY CountingStep
<1>3. Counting => LruCountsEveryReference
  BY DEF Counting, LruCountsEveryReference
<1> QED
  BY <1>1, <1>2, <1>3, AlwaysPolicyType, AlgorithmsImplementMemory, TypeCorrect, MappingCorrect, PTL DEF Spec

-----------------------------------------------------------------------------
(* fifo's index *)

(* The frame i steps after frame h. *)
Turn(h, i) == IF h + i < memsize THEN h + i ELSE h + i - memsize

LEMMA Around ==
    ASSUME NEW h \in Frame, NEW i \in 0 .. memsize
    PROVE  (h + i) % memsize = Turn(h, i) /\ Turn(h, i) \in Frame
BY DEF Frame, Turn

(* The first element leaves a sequence that has it once. *)
LEMMA WithoutFirst ==
    ASSUME NEW A, NEW s \in Seq(A), Len(s) > 0, \A i \in 1 .. Len(s) : s[i] = s[1] => i = 1
    PROVE  /\ Without(s, s[1]) \in Seq(A)
           /\ Len(Without(s, s[1])) = Len(s) - 1
           /\ \A i \in 1 .. Len(s) - 1 : Without(s, s[1])[i] = s[i + 1]
<1>1. (CHOOSE i \in 1 .. Len(s) : s[i] = s[1]) = 1
  OBVIOUS
<1>2. 1 - 1 = 0 /\ 1 + 1 = 2 /\ Len(s) \in Nat
  OBVIOUS
<1>3. RemoveAt(s, 1) = SubSeq(s, 1, 0) \o SubSeq(s, 2, Len(s))
  BY <1>2, Zenon DEF RemoveAt
<1>4. Without(s, s[1]) = SubSeq(s, 1, 0) \o SubSeq(s, 2, Len(s))
  BY <1>1, <1>3, Zenon DEF Without
<1>5. SubSeq(s, 1, 0) = <<>>
  OBVIOUS
<1>6. SubSeq(s, 1, 0) \o SubSeq(s, 2, Len(s)) = SubSeq(s, 2, Len(s))
  <2>1. SubSeq(s, 2, Len(s)) \in Seq(A)
    BY <1>2
  <2> QED
    BY <1>5, <2>1
<1>7. /\ SubSeq(s, 2, Len(s)) \in Seq(A) /\ Len(SubSeq(s, 2, Len(s))) = Len(s) - 1
      /\ \A i \in 1 .. Len(s) - 1 : SubSeq(s, 2, Len(s))[i] = s[i + 1]
  <2> DEFINE n == Len(s)
  <2> n \in Int /\ n - 2 + 1 = n - 1 /\ 2 \in Int
    BY <1>2
  <2>1. \A i \in 2 .. n : s[i] \in A
    OBVIOUS
  <2>2. /\ SubSeq(s, 2, n) \in Seq(A)
        /\ Len(SubSeq(s, 2, n)) = IF 2 <= n THEN n - 2 + 1 ELSE 0
        /\ \A i \in 1 .. n - 2 + 1 : SubSeq(s, 2, n)[i] = s[2 + i - 1]
    BY <2>1, SubSeqProperties
  <2>3. \A i \in 1 .. n - 1 : 2 + i - 1 = i + 1
    OBVIOUS
  <2>4. (IF 2 <= n THEN n - 2 + 1 ELSE 0) = n - 1
    OBVIOUS
  <2> QED
    BY <2>2, <2>3, <2>4
<1> QED
  BY <1>4, <1>6, <1>7

(* The frames from headIndex on hold the queue. *)
Queued ==
    alg = "fifo" =>
        /\ queue \in Seq(Page)
        /\ Len(queue) <= memsize
        /\ \A i \in 0 .. Len(queue) - 1 : coremap[Turn(headIndex, i)] = queue[i + 1]
        /\ Len(queue) = memsize => FreeFrames = {}
        /\ Len(queue) < memsize => headIndex = 0 /\ FreeFrames = Len(queue) .. memsize - 1

(* A page that is not in memory is in no frame, and none is in two. *)
LEMMA FramesDiffer ==
    ASSUME TypeOK, CoremapMatchesPageTable
    PROVE  \A f, g \in Frame : coremap[f] = coremap[g] /\ coremap[f] # NoPage => f = g
BY DEF TypeOK, CoremapMatchesPageTable

LEMMA QueueFill ==
    ASSUME TypeOK, PolicyType, Queued, alg = "fifo",
           NEW type \in AccessType, NEW p \in Page, NEW f \in Frame, ReferenceFill(type, p, f)
    PROVE  Queued'
<1>1. PICK n \in Nat : n = Len(queue)
  BY DEF Queued
<1>2. /\ queue \in Seq(Page) /\ n <= memsize
      /\ \A i \in 0 .. n - 1 : coremap[Turn(headIndex, i)] = queue[i + 1]
      /\ n = memsize => FreeFrames = {}
      /\ n < memsize => headIndex = 0 /\ FreeFrames = n .. memsize - 1
  BY <1>1 DEF Queued
<1>3. /\ FreeFrames # {} /\ FirstFree(f) /\ coremap' = [coremap EXCEPT ![f] = p]
      /\ queue' = Append(queue, p) /\ headIndex' = headIndex /\ alg' = alg
  BY DEF ReferenceFill, Miss, MissNew, MissSwapped, allocate_frame
<1>4. n < memsize /\ headIndex = 0 /\ FreeFrames = n .. memsize - 1
  BY <1>2, <1>3
<1>5. f = n
  BY <1>3, <1>4 DEF FirstFree
<1>6. \A g \in Frame : coremap'[g] = IF g = n THEN p ELSE coremap[g]
  BY <1>3, <1>5 DEF TypeOK
<1>7. FreeFrames' = n + 1 .. memsize - 1
  <2>1. \A g \in Frame : g \in FreeFrames' <=> g \in FreeFrames /\ g # n
    BY <1>6, MemoryAssumption DEF FreeFrames
  <2>2. FreeFrames' \subseteq Frame /\ n + 1 .. memsize - 1 \subseteq Frame
    BY DEF FreeFrames, Frame
  <2>3. \A g \in Frame : g \in n + 1 .. memsize - 1 <=> g \in FreeFrames /\ g # n
    BY <1>4 DEF Frame
  <2> QED
    BY <2>1, <2>2, <2>3
<1>8. /\ queue' \in Seq(Page) /\ Len(queue') = n + 1
      /\ \A i \in 1 .. n + 1 : queue'[i] = IF i = n + 1 THEN p ELSE queue[i]
  BY <1>1, <1>2, <1>3
<1>9. ASSUME NEW i \in 0 .. n
      PROVE  coremap'[Turn(headIndex', i)] = queue'[i + 1]
  <2>1. Turn(0, i) = i /\ i \in Frame /\ i + 1 \in 1 .. n + 1
    BY <1>4 DEF Frame, Turn
  <2>2. i # n => coremap[i] = queue[i + 1]
    BY <1>2, <1>4, <2>1
  <2>3. coremap'[i] = queue'[i + 1]
    BY <1>6, <1>8, <2>1, <2>2
  <2> QED
    BY <1>3, <1>4, <2>1, <2>3
<1>10. n + 1 = memsize => FreeFrames' = {}
  BY <1>7
<1>11. Len(queue') - 1 = n
  BY <1>8
<1>12. \A i \in 0 .. Len(queue') - 1 : coremap'[Turn(headIndex', i)] = queue'[i + 1]
  BY <1>9, <1>11
<1>13. Len(queue') <= memsize
  BY <1>4, <1>8
<1> QED
  BY <1>3, <1>4, <1>7, <1>8, <1>10, <1>12, <1>13 DEF Queued

LEMMA QueueEvict ==
    ASSUME TypeOK, CoremapMatchesPageTable, PolicyType, Queued, alg = "fifo",
           NEW type \in AccessType, NEW p \in Page, NEW f \in Frame, NEW cleared,
           ReferenceEvict(type, p, f, cleared)
    PROVE  Queued'
<1> DEFINE without == Without(queue, coremap[f])
<1>1. FreeFrames = {}
  BY DEF ReferenceEvict
<1>2. Len(queue) = memsize
  <2>1. Len(queue) \in Nat
    BY DEF Queued
  <2>2. SUFFICES ASSUME Len(queue) < memsize PROVE FALSE
    BY <2>1 DEF Queued
  <2>3. FreeFrames = Len(queue) .. memsize - 1
    BY <2>2 DEF Queued
  <2> QED
    BY <1>1, <2>1, <2>2, <2>3
<1>3. /\ queue \in Seq(Page)
      /\ \A i \in 0 .. memsize - 1 : coremap[Turn(headIndex, i)] = queue[i + 1]
  BY <1>2 DEF Queued
<1>4. /\ coremap' = [coremap EXCEPT ![f] = p]
      /\ queue' = Append(without, p) /\ alg' = alg
      /\ f = headIndex /\ headIndex' = (headIndex + 1) % memsize
  BY DEF ReferenceEvict, Miss, MissNew, MissSwapped, evict_fcn, fifo_evict
<1>5. headIndex \in Frame /\ 1 \in 0 .. memsize
  BY DEF PolicyType
<1>6. headIndex' = Turn(headIndex, 1)
  BY <1>4, <1>5, Around
<1>7. queue[1] = coremap[f]
  <2>1. Turn(headIndex, 0) = headIndex /\ 0 \in 0 .. memsize - 1 /\ 0 + 1 = 1
    BY <1>5 DEF Turn, Frame
  <2> QED
    BY <1>3, <1>4, <2>1
<1>8. \A i \in 1 .. memsize : queue[i] = queue[1] => i = 1
  <2> SUFFICES ASSUME NEW i \in 1 .. memsize, queue[i] = queue[1] PROVE i = 1
    OBVIOUS
  <2>1. PICK j \in 0 .. memsize - 1 : i = j + 1
    <3>1. i - 1 \in 0 .. memsize - 1 /\ i = (i - 1) + 1
      OBVIOUS
    <3> QED
      BY <3>1
  <2>2. Turn(headIndex, j) \in Frame
    BY <1>5, Around
  <2>3. coremap[Turn(headIndex, j)] = coremap[f]
    BY <1>3, <1>7, <2>1
  <2>4. coremap[f] # NoPage
    BY <1>1 DEF FreeFrames
  <2>5. Turn(headIndex, j) = headIndex
    BY <1>4, <2>2, <2>3, <2>4, FramesDiffer
  <2>6. j = 0
    BY <1>5, <2>5 DEF Turn, Frame
  <2> QED
    BY <2>1, <2>6
<1>9. /\ without \in Seq(Page) /\ Len(without) = memsize - 1
      /\ \A i \in 1 .. memsize - 1 : without[i] = queue[i + 1]
  <2>1. Len(queue) > 0 /\ \A i \in 1 .. Len(queue) : queue[i] = queue[1] => i = 1
    BY <1>2, <1>8
  <2> QED
    BY <1>2, <1>3, <1>7, <2>1, WithoutFirst
<1> HIDE DEF without
<1>10. /\ queue' \in Seq(Page) /\ Len(queue') = memsize
       /\ \A i \in 1 .. memsize : queue'[i] = IF i = memsize THEN p ELSE queue[i + 1]
  BY <1>4, <1>9
<1>11. \A g \in Frame : coremap'[g] = IF g = f THEN p ELSE coremap[g]
  BY <1>4 DEF TypeOK
<1>12. ASSUME NEW i \in 0 .. memsize - 1
       PROVE  coremap'[Turn(headIndex', i)] = queue'[i + 1]
  <2>1. Turn(Turn(headIndex, 1), i) = IF i = memsize - 1 THEN headIndex ELSE Turn(headIndex, i + 1)
    BY <1>5 DEF Frame, Turn
  <2>2. i # memsize - 1 => Turn(headIndex, i + 1) # headIndex /\ Turn(headIndex, i + 1) \in Frame
    BY <1>5 DEF Frame, Turn
  <2>3. CASE i = memsize - 1
    <3>1. queue'[i + 1] = p
      BY <1>10, <2>3
    <3> QED
      BY <1>4, <1>5, <1>6, <1>11, <2>1, <2>3, <3>1
  <2>4. CASE i # memsize - 1
    <3>1. i + 1 \in 0 .. memsize - 1 /\ i + 1 \in 1 .. memsize /\ i + 1 # memsize
      BY <2>4
    <3>2. coremap[Turn(headIndex, i + 1)] = queue[(i + 1) + 1]
      BY <1>3, <3>1
    <3>3. queue'[i + 1] = queue[(i + 1) + 1]
      BY <1>10, <3>1
    <3> QED
      BY <1>4, <1>6, <1>11, <2>1, <2>2, <2>4, <3>2, <3>3
  <2> QED
    BY <2>3, <2>4
<1>13. FreeFrames' = {}
  BY <1>1, <1>11, MemoryAssumption DEF FreeFrames
<1>14. \A i \in 0 .. Len(queue') - 1 : coremap'[Turn(headIndex', i)] = queue'[i + 1]
  BY <1>10, <1>12
<1> QED
  BY <1>10, <1>13, <1>14 DEF Queued

LEMMA QueuedStep ==
    ASSUME TypeOK, CoremapMatchesPageTable, PolicyType, Queued, [Next]_allvars
    PROVE  Queued'
<1>1. alg' = alg
  BY DEF Next, ReferenceHit, ReferenceFill, ReferenceEvict, allvars
<1> SUFFICES ASSUME alg = "fifo" PROVE Queued'
  BY <1>1 DEF Queued
<1>2. ASSUME NEW type \in AccessType, NEW p \in Page, ReferenceHit(type, p)
      PROVE  UNCHANGED <<queue, headIndex, coremap>>
  BY <1>2 DEF ReferenceHit, Hit
<1>3. ASSUME NEW type \in AccessType, NEW p \in Page, NEW f \in Frame, ReferenceFill(type, p, f)
      PROVE  Queued'
  BY <1>3, QueueFill
<1>4. ASSUME NEW type \in AccessType, NEW p \in Page, NEW f \in Frame,
             NEW cleared \in SUBSET Page, ReferenceEvict(type, p, f, cleared)
      PROVE  Queued'
  BY <1>4, QueueEvict
<1>5. ASSUME NEW p \in Page, Die(p), UNCHANGED <<alg, state, history>>
      PROVE  UNCHANGED <<queue, headIndex, coremap>>
  BY <1>5 DEF Die, state, history
<1>6. UNCHANGED allvars => UNCHANGED <<queue, headIndex, coremap>>
  BY DEF allvars, state, history, vars
<1>7. UNCHANGED <<queue, headIndex, coremap>> => Queued'
  BY <1>1 DEF Queued, FreeFrames
<1> QED
  BY <1>2, <1>3, <1>4, <1>5, <1>6, <1>7 DEF Next

(* fifo.c keeps no queue, only an index that moves by one at an eviction:  *)
(* read from headIndex on, the frames hold the pages in the order they     *)
(* were loaded, however often the index has gone round.                    *)
THEOREM FifoCorrect == Spec => []FifoIsAQueue
<1>1. Init => Queued
  <2> SUFFICES ASSUME Init PROVE Queued
    OBVIOUS
  <2>1. queue = <<>> /\ queue \in Seq(Page) /\ Len(queue) = 0 /\ headIndex = 0
    BY DEF Init
  <2>2. FreeFrames = 0 .. memsize - 1
    BY DEF Init, MemoryInit, FreeFrames, Frame
  <2> QED
    BY <2>1, <2>2 DEF Queued
<1>2. TypeOK /\ CoremapMatchesPageTable /\ PolicyType /\ Queued /\ [Next]_allvars => Queued'
  BY QueuedStep
<1>3. PolicyType /\ Queued => FifoIsAQueue
  <2> SUFFICES ASSUME PolicyType, Queued, alg = "fifo" PROVE FifoIsAQueue
    BY DEF FifoIsAQueue
  <2>1. queue \in Seq(Page) /\ Len(queue) \in Nat /\ headIndex \in Frame
    BY DEF Queued, PolicyType
  <2>2. \A i \in 0 .. Len(queue) - 1 : coremap[Turn(headIndex, i)] = queue[i + 1]
    BY DEF Queued
  <2>3. ASSUME FreeFrames = {}, NEW i \in 1 .. memsize
        PROVE  coremap[(headIndex + i - 1) % memsize] = queue[i]
    <3>1. Len(queue) = memsize
      <4> SUFFICES ASSUME Len(queue) < memsize PROVE FALSE
        BY <2>1 DEF Queued
      <4>1. FreeFrames = Len(queue) .. memsize - 1
        BY DEF Queued
      <4> QED
        BY <2>1, <2>3, <4>1
    <3>2. i - 1 \in 0 .. memsize - 1 /\ i - 1 \in 0 .. memsize /\ (i - 1) + 1 = i
      OBVIOUS
    <3>3. headIndex + i - 1 = headIndex + (i - 1)
      BY <2>1 DEF Frame
    <3>4. (headIndex + (i - 1)) % memsize = Turn(headIndex, i - 1)
      BY <2>1, <3>2, Around
    <3>5. coremap[Turn(headIndex, i - 1)] = queue[i]
      BY <2>2, <3>1, <3>2
    <3> QED
      BY <3>3, <3>4, <3>5
  <2>4. ASSUME FreeFrames # {}
        PROVE  headIndex = 0 /\ \A i \in 1 .. Len(queue) : coremap[i - 1] = queue[i]
    <3>1. Len(queue) < memsize /\ headIndex = 0
      BY <2>1, <2>4 DEF Queued
    <3>2. ASSUME NEW i \in 1 .. Len(queue)
          PROVE  coremap[i - 1] = queue[i]
      <4>1. i - 1 \in 0 .. Len(queue) - 1 /\ (i - 1) + 1 = i /\ Turn(0, i - 1) = i - 1
        BY <2>1, <3>1 DEF Turn
      <4> QED
        BY <2>2, <3>1, <4>1
    <3> QED
      BY <3>1, <3>2
  <2> QED
    BY <2>3, <2>4 DEF FifoIsAQueue
<1> QED
  BY <1>1, <1>2, <1>3, AlwaysPolicyType, AlgorithmsImplementMemory, TypeCorrect, MappingCorrect, PTL DEF Spec

-----------------------------------------------------------------------------
(* clock's hand *)

(* How far the hand has to go to reach frame f. *)
Way(h, f) == IF f >= h THEN f - h ELSE f - h + memsize

(* The frames whose page has the REF bit. *)
Recent == {f \in Frame : coremap[f] # NoPage /\ pte[coremap[f]].ref}

(* The evictions a page sat through and the steps the hand still has to go to *)
(* it are less than a round for a page with the REF bit, two for any other.   *)
Aging ==
    alg = "clock" =>
        /\ idle \in [Frame -> Nat]
        /\ \A f \in Frame : coremap[f] = NoPage => idle[f] = 0
        /\ \A f \in Frame : coremap[f] # NoPage =>
              /\ idle[f] + Way(clockHand, f) <= 2 * memsize - 2
              /\ f \in Recent => idle[f] + Way(clockHand, f) <= memsize - 1
              /\ f = clockHand => f \in Recent /\ idle[f] = 0

LEMMA WayRange ==
    ASSUME NEW h \in Frame, NEW f \in Frame
    PROVE  /\ Way(h, f) \in 0 .. memsize - 1
           /\ Turn(h, Way(h, f)) = f
           /\ Way(h, f) = 0 <=> f = h
BY DEF Way, Turn, Frame

LEMMA WayAfter ==
    ASSUME NEW h \in Frame, NEW g \in Frame, NEW n \in 0 .. memsize
    PROVE  Way(Turn(h, n), g) = IF n = memsize \/ n = 0 THEN Way(h, g)
                                ELSE IF Way(h, g) >= n THEN Way(h, g) - n
                                ELSE Way(h, g) - n + memsize
BY DEF Way, Turn, Frame

(* A miss sets the REF bit of its page and clears those of cleared. *)
LEMMA MissRecent ==
    ASSUME TypeOK, CoremapMatchesPageTable, NEW type, NEW p \in Page, NEW f \in Frame, NEW cleared,
           Miss(type, p, f, cleared)
    PROVE  /\ \A g \in Frame : coremap'[g] = IF g = f THEN p ELSE coremap[g]
           /\ f \in Recent'
           /\ \A g \in Frame \ {f} : g \in Recent' <=> g \in Recent /\ coremap[g] \notin cleared
<1>1. PICK slot \in Slot \cup {INVALID_SWAP} :
          /\ ~pte[p].valid
          /\ coremap' = [coremap EXCEPT ![f] = p]
          /\ pte' = AfterMiss(p, type, f, cleared, slot)
  BY DEF Miss, MissNew, MissSwapped
<1>2. \A g \in Frame : coremap'[g] = IF g = f THEN p ELSE coremap[g]
  BY <1>1 DEF TypeOK
<1> DEFINE after == AfterAllocate(f, cleared, slot)
<1>3. after \in [Page -> Entry]
  BY AllocateTable
<1>4. pte'[p] = Mapped(after[p], f, type) /\ \A q \in Page \ {p} : pte'[q] = after[q]
  BY <1>1, <1>3 DEF AfterMiss
<1>5. pte'[p].ref
  BY <1>3, <1>4 DEF Mapped, Entry
<1>6. p # NoPage
  BY MemoryAssumption
<1>7. ASSUME NEW g \in Frame, g # f
      PROVE  g \in Recent' <=> g \in Recent /\ coremap[g] \notin cleared
  <2>1. coremap'[g] = coremap[g]
    BY <1>2, <1>7
  <2>2. CASE coremap[g] = NoPage
    BY <2>1, <2>2 DEF Recent
  <2>3. CASE coremap[g] # NoPage
    <3> DEFINE q == coremap[g]
    <3>1. q \in Page /\ pte[q].valid
      BY <2>3 DEF TypeOK, CoremapMatchesPageTable
    <3>2. q # p
      BY <1>1, <3>1
    <3>3. q # coremap[f]
      BY <1>7, <2>3, FramesDiffer
    <3>4. pte'[q] = IF q \in cleared THEN Unreferenced(pte[q]) ELSE pte[q]
      BY <1>4, <3>1, <3>2, <3>3 DEF AfterAllocate
    <3>5. pte[q] \in Entry
      BY <3>1 DEF TypeOK
    <3>6. ~Unreferenced(pte[q]).ref
      BY <3>5 DEF Unreferenced, Entry
    <3> HIDE DEF q
    <3>7. pte'[q].ref <=> pte[q].ref /\ q \notin cleared
      BY <3>4, <3>6
    <3> QED
      BY <2>1, <2>3, <3>7 DEF Recent, q
  <2> QED
    BY <2>2, <2>3
<1>8. f \in Recent'
  BY <1>2, <1>5, <1>6 DEF Recent
<1> QED
  BY <1>2, <1>7, <1>8

LEMMA HitRecent ==
    ASSUME TypeOK, CoremapMatchesPageTable, NEW type, NEW p \in Page, Hit(type, p)
    PROVE  /\ pte[p].frame \in Frame /\ coremap[pte[p].frame] # NoPage
           /\ coremap' = coremap
           /\ pte[p].frame \in Recent'
           /\ \A g \in Frame \ {pte[p].frame} : g \in Recent' <=> g \in Recent
<1> DEFINE f == pte[p].frame
<1>1. pte[p] \in Entry /\ f \in Frame /\ coremap[f] = p /\ coremap' = coremap
  BY DEF Hit, TypeOK, Entry, CoremapMatchesPageTable
<1>2. p # NoPage
  BY MemoryAssumption
<1>3. pte' = [pte EXCEPT ![p] = Referenced(@, type)] /\ pte \in [Page -> Entry]
  BY DEF Hit, TypeOK
<1>4. pte'[p] = Referenced(pte[p], type) /\ \A q \in Page \ {p} : pte'[q] = pte[q]
  BY <1>3
<1>5. pte'[p].ref
  BY <1>1, <1>4 DEF Referenced, Entry
<1> HIDE DEF f
<1>6. f \in Recent'
  BY <1>1, <1>2, <1>5 DEF Recent
<1>7. ASSUME NEW g \in Frame, g # f
      PROVE  g \in Recent' <=> g \in Recent
  <2>1. coremap[g] # NoPage => coremap[g] \in Page /\ coremap[g] # p
    BY <1>1, <1>2, <1>7, FramesDiffer DEF TypeOK
  <2> QED
    BY <1>1, <1>4, <2>1 DEF Recent
<1>8. /\ f \in Frame /\ coremap[f] # NoPage /\ coremap' = coremap /\ f \in Recent'
      /\ \A g \in Frame \ {f} : g \in Recent' <=> g \in Recent
  BY <1>1, <1>2, <1>6, <1>7
<1> QED
  BY <1>8 DEF f

LEMMA AgingHit ==
    ASSUME TypeOK, CoremapMatchesPageTable, PolicyType, Aging, alg = "clock",
           NEW type \in AccessType, NEW p \in Page, ReferenceHit(type, p)
    PROVE  Aging'
<1>1. PICK f \in Frame : f = pte[p].frame
  BY HitRecent DEF ReferenceHit
<1>2. /\ coremap[f] # NoPage /\ coremap' = coremap /\ f \in Recent'
      /\ \A g \in Frame \ {f} : g \in Recent' <=> g \in Recent
  BY <1>1, HitRecent DEF ReferenceHit
<1>3. idle' = [idle EXCEPT ![f] = 0] /\ clockHand' = clockHand
  BY <1>1 DEF ReferenceHit
<1>4. idle' \in [Frame -> Nat] /\ \A g \in Frame : idle'[g] = IF g = f THEN 0 ELSE idle[g]
  BY <1>3 DEF Aging
<1>5. clockHand \in Frame
  BY DEF PolicyType
<1>6. \A g \in Frame : coremap'[g] = NoPage => idle'[g] = 0
  BY <1>2, <1>4 DEF Aging
<1>7. ASSUME NEW g \in Frame, coremap'[g] # NoPage
      PROVE  /\ idle'[g] + Way(clockHand', g) <= 2 * memsize - 2
             /\ g \in Recent' => idle'[g] + Way(clockHand', g) <= memsize - 1
             /\ g = clockHand' => g \in Recent' /\ idle'[g] = 0
  <2>1. CASE g = f
    <3>1. idle'[g] = 0 /\ Way(clockHand, g) \in 0 .. memsize - 1 /\ g \in Recent'
      BY <1>2, <1>4, <1>5, <2>1, WayRange
    <3> QED
      BY <1>3, <3>1
  <2>2. CASE g # f
    <3>1. idle'[g] = idle[g] /\ (g \in Recent' <=> g \in Recent) /\ coremap[g] # NoPage
      BY <1>2, <1>4, <1>7, <2>2
    <3> QED
      BY <1>3, <3>1 DEF Aging
  <2> QED
    BY <2>1, <2>2
<1> QED
  BY <1>4, <1>6, <1>7 DEF Aging

LEMMA AgingFill ==
    ASSUME TypeOK, CoremapMatchesPageTable, PolicyType, Aging, alg = "clock",
           NEW type \in AccessType, NEW p \in Page, NEW f \in Frame, ReferenceFill(type, p, f)
    PROVE  Aging'
<1>1. Miss(type, p, f, {}) /\ idle' = idle /\ clockHand' = clockHand
  BY DEF ReferenceFill
<1>2. coremap[f] = NoPage
  BY DEF ReferenceFill, Miss, MissNew, MissSwapped, allocate_frame, FirstFree, FreeFrames
<1>3. /\ \A g \in Frame : coremap'[g] = IF g = f THEN p ELSE coremap[g]
      /\ f \in Recent'
      /\ \A g \in Frame \ {f} : g \in Recent' <=> g \in Recent
  <2>1. /\ \A g \in Frame : coremap'[g] = IF g = f THEN p ELSE coremap[g]
        /\ f \in Recent'
        /\ \A g \in Frame \ {f} : g \in Recent' <=> g \in Recent /\ coremap[g] \notin {}
    BY <1>1, MissRecent, Zenon
  <2> QED
    BY <2>1
<1>4. clockHand \in Frame /\ idle \in [Frame -> Nat] /\ idle[f] = 0
  BY <1>2 DEF PolicyType, Aging
<1>5. \A g \in Frame : coremap'[g] = NoPage => idle'[g] = 0
  BY <1>1, <1>3, <1>4 DEF Aging
<1>6. ASSUME NEW g \in Frame, coremap'[g] # NoPage
      PROVE  /\ idle'[g] + Way(clockHand', g) <= 2 * memsize - 2
             /\ g \in Recent' => idle'[g] + Way(clockHand', g) <= memsize - 1
             /\ g = clockHand' => g \in Recent' /\ idle'[g] = 0
  <2>1. CASE g = f
    <3>1. idle'[g] = 0 /\ Way(clockHand, g) \in 0 .. memsize - 1 /\ g \in Recent'
      BY <1>1, <1>3, <1>4, <2>1, WayRange
    <3> QED
      BY <1>1, <3>1
  <2>2. CASE g # f
    <3>1. (g \in Recent' <=> g \in Recent) /\ coremap[g] # NoPage
      BY <1>3, <1>6, <2>2
    <3> QED
      BY <1>1, <3>1 DEF Aging
  <2> QED
    BY <2>1, <2>2
<1> QED
  BY <1>1, <1>4, <1>5, <1>6 DEF Aging

LEMMA AgingEvict ==
    ASSUME TypeOK, CoremapMatchesPageTable, PolicyType, Aging, alg = "clock",
           NEW type \in AccessType, NEW p \in Page, NEW f \in Frame, NEW cleared,
           ReferenceEvict(type, p, f, cleared)
    PROVE  Aging'
<1> DEFINE h == clockHand
<1>1. /\ Miss(type, p, f, cleared) /\ \A g \in Frame : coremap[g] # NoPage
      /\ idle' = [g \in Frame |-> IF g = f THEN 0 ELSE Older(idle[g])]
  BY DEF ReferenceEvict, FreeFrames
<1>2. /\ h \in Frame /\ idle \in [Frame -> Nat]
      /\ \A g \in Frame : /\ idle[g] + Way(h, g) <= 2 * memsize - 2
                          /\ g \in Recent => idle[g] + Way(h, g) <= memsize - 1
                          /\ g = h => g \in Recent /\ idle[g] = 0
  BY <1>1 DEF Aging, PolicyType
<1>3. PICK n \in 0 .. memsize :
        /\ \A i \in 0 .. n - 1 : RefAhead(i)
        /\ n = memsize \/ ~RefAhead(n)
        /\ cleared = {coremap[Ahead(i)] : i \in 0 .. n - 1}
        /\ f = Ahead(n)
        /\ clockHand' = f
  BY DEF ReferenceEvict, evict_fcn, clock_evict
<1>4. \A i \in 0 .. memsize : Ahead(i) = Turn(h, i) /\ Turn(h, i) \in Frame
  BY <1>2, Around DEF Ahead
<1>5. \A i \in 0 .. memsize : RefAhead(i) <=> Turn(h, i) \in Recent
  BY <1>1, <1>4 DEF RefAhead, Recent
<1>6. n >= 1
  <2>1. Turn(h, 0) = h /\ h \in Recent
    BY <1>2 DEF Turn, Frame
  <2>2. RefAhead(0)
    BY <1>5, <2>1
  <2> QED
    BY <1>3, <2>2
<1>7. f = Turn(h, n) /\ clockHand' = Turn(h, n)
  BY <1>3, <1>4
<1>8. /\ \A g \in Frame : coremap'[g] = IF g = f THEN p ELSE coremap[g]
      /\ f \in Recent'
      /\ \A g \in Frame \ {f} : g \in Recent' <=> g \in Recent /\ coremap[g] \notin cleared
  BY <1>1, MissRecent
<1>9. ASSUME NEW g \in Frame, Way(h, g) < n
      PROVE  g \in Recent /\ coremap[g] \in cleared
  <2>1. Way(h, g) \in 0 .. n - 1 /\ Way(h, g) \in 0 .. memsize /\ Turn(h, Way(h, g)) = g
    BY <1>2, <1>9, WayRange
  <2> QED
    BY <1>3, <1>4, <1>5, <2>1
<1>10. /\ idle' \in [Frame -> Nat]
       /\ \A g \in Frame : idle'[g] \in Nat /\ idle'[g] <= idle[g] + 1 /\ (g = f => idle'[g] = 0)
  <2>1. \A g \in Frame : Older(idle[g]) \in Nat /\ Older(idle[g]) <= idle[g] + 1
    BY <1>2 DEF Older, IdleBound
  <2> QED
    BY <1>1, <1>2, <2>1
<1> HIDE DEF h
<1>11. ASSUME NEW g \in Frame
       PROVE  /\ idle'[g] + Way(clockHand', g) <= 2 * memsize - 2
              /\ g \in Recent' => idle'[g] + Way(clockHand', g) <= memsize - 1
              /\ g = clockHand' => g \in Recent' /\ idle'[g] = 0
  <2> DEFINE d == Way(h, g)
             e == Way(Turn(h, n), g)
  <2>1. d \in 0 .. memsize - 1 /\ idle[g] \in Nat /\ (d = 0 => idle[g] = 0)
    BY <1>2, WayRange
  <2>2. e = IF n = memsize THEN d ELSE IF d >= n THEN d - n ELSE d - n + memsize
    BY <1>2, <1>6, WayAfter
  <2>3. e = 0 <=> g = f
    BY <1>2, <1>4, <1>7, WayRange
  <2>4. idle[g] + d <= 2 * memsize - 2 /\ (g \in Recent => idle[g] + d <= memsize - 1)
    BY <1>2
  <2>5. idle'[g] \in Nat /\ idle'[g] <= idle[g] + 1
    BY <1>10
  <2>6. d < n => g \in Recent /\ coremap[g] \in cleared
    BY <1>9
  <2> HIDE DEF d, e
  <2>7. CASE g = f
    BY <1>7, <1>8, <1>10, <2>3, <2>7 DEF e
  <2>8. CASE g # f
    <3>1. e # 0
      BY <2>3, <2>8
    <3>2. idle'[g] + e <= 2 * memsize - 2
      BY <1>6, <2>1, <2>2, <2>4, <2>5, <2>6, <3>1
    <3>3. g \in Recent' => idle'[g] + e <= memsize - 1
      <4>1. SUFFICES ASSUME g \in Recent' PROVE idle'[g] + e <= memsize - 1
        OBVIOUS
      <4>2. g \in Recent /\ d >= n
        BY <1>8, <2>1, <2>6, <2>8, <4>1
      <4>3. n # memsize
        BY <2>1, <4>2
      <4> QED
        BY <1>6, <2>1, <2>2, <2>4, <2>5, <4>2, <4>3
    <3> QED
      BY <1>7, <2>8, <3>2, <3>3 DEF e
  <2> QED
    BY <2>7, <2>8
<1>12. \A g \in Frame : coremap'[g] # NoPage
  BY <1>1, <1>8, MemoryAssumption
<1> QED
  BY <1>10, <1>11, <1>12 DEF Aging

LEMMA AgingStep ==
    ASSUME TypeOK, CoremapMatchesPageTable, PolicyType, Aging, [Next]_allvars
    PROVE  Aging'
<1>1. alg' = alg
  BY DEF Next, ReferenceHit, ReferenceFill, ReferenceEvict, allvars
<1> SUFFICES ASSUME alg = "clock" PROVE Aging'
  BY <1>1 DEF Aging
<1>2. ASSUME NEW type \in AccessType, NEW p \in Page, ReferenceHit(type, p)
      PROVE  Aging'
  BY <1>2, AgingHit
<1>3. ASSUME NEW type \in AccessType, NEW p \in Page, NEW f \in Frame, ReferenceFill(type, p, f)
      PROVE  Aging'
  BY <1>3, AgingFill
<1>4. ASSUME NEW type \in AccessType, NEW p \in Page, NEW f \in Frame,
             NEW cleared \in SUBSET Page, ReferenceEvict(type, p, f, cleared)
      PROVE  Aging'
  BY <1>4, AgingEvict
<1>5. ASSUME NEW p \in Page, Die(p), UNCHANGED <<alg, state, history>>
      PROVE  UNCHANGED <<idle, clockHand, coremap, pte>>
  BY <1>5 DEF Die, state, history
<1>6. UNCHANGED allvars => UNCHANGED <<idle, clockHand, coremap, pte>>
  BY DEF allvars, state, history, vars
<1>7. UNCHANGED <<idle, clockHand, coremap, pte>> => Aging'
  BY <1>1 DEF Aging, Recent
<1> QED
  BY <1>2, <1>3, <1>4, <1>5, <1>6, <1>7 DEF Next

(* clock.c's hand goes round, over any number of frames and evictions: a    *)
(* page that is no longer used leaves before the hand has made two rounds   *)
(* over the other frames.                                                   *)
THEOREM ClockCorrect == Spec => []ClockEvictsTheIdle
<1>1. Init => Aging
  BY DEF Init, MemoryInit, Aging
<1>2. TypeOK /\ CoremapMatchesPageTable /\ PolicyType /\ Aging /\ [Next]_allvars => Aging'
  BY AgingStep
<1>3. PolicyType /\ Aging => ClockEvictsTheIdle
  <2> SUFFICES ASSUME PolicyType, Aging, alg = "clock", memsize > 1, NEW f \in Frame
               PROVE  idle[f] < IdleBound
    BY DEF ClockEvictsTheIdle
  <2>1. idle[f] \in Nat /\ Way(clockHand, f) \in 0 .. memsize - 1 /\ (Way(clockHand, f) = 0 => f = clockHand)
    BY WayRange DEF Aging, PolicyType
  <2>2. \/ idle[f] = 0
        \/ idle[f] + Way(clockHand, f) <= 2 * memsize - 2 /\ f # clockHand
    BY DEF Aging
  <2> QED
    BY <2>1, <2>2 DEF IdleBound
<1> QED
  BY <1>1, <1>2, <1>3, AlwaysPolicyType, AlgorithmsImplementMemory, TypeCorrect, MappingCorrect, PTL DEF Spec
=============================================================================
