----------------------- MODULE OptimalReplacementProofs -----------------------
(* Theorems about OptimalReplacement, for any pages, frames, slots and      *)
(* traces: opt.c is a victim of VirtualMemory, its list lasts as long as    *)
(* the trace, and it is optimal.                                            *)
EXTENDS OptimalReplacement, VirtualMemoryProofs

USE MemoryAssumption DEF INVALID_SWAP

-----------------------------------------------------------------------------
(* Each line of the trace is one access of the memory, or skipped. *)
LEMMA LineImplemented == [Next]_optvars => [MemoryNext]_vars
<1> SUFFICES ASSUME [Next]_optvars PROVE [MemoryNext]_vars
  OBVIOUS
<1>1. CASE SkipHeader
  BY <1>1 DEF SkipHeader
<1>2. ASSUME NEW type \in AccessType, NEW p \in Page, Reference(type, p)
      PROVE  MemoryNext
  <2>1. CASE Hit(type, p)
    BY <2>1 DEF MemoryNext
  <2>2. ASSUME NEW f \in Frame, Miss(type, p, f, {})
        PROVE  MemoryNext
    <3>1. {} \in SUBSET Page
      OBVIOUS
    <3> QED
      BY <2>2, <3>1 DEF MemoryNext
  <2> QED
    BY <1>2, <2>1, <2>2 DEF Reference
<1>3. CASE trace[pos] \in Page /\ Die(trace[pos])
  BY <1>3 DEF MemoryNext
<1>4. CASE UNCHANGED optvars
  BY <1>4 DEF optvars
<1> QED
  BY <1>1, <1>2, <1>3, <1>4 DEF Next

(* opt.c is a victim that find_physpage can have: the simulator with it    *)
(* implements the memory whose victim is arbitrary, so that all that is    *)
(* proved of that memory holds with it, on any trace.                      *)
THEOREM OptImplementsMemory == Spec => MemorySpec
<1>1. Init => MemoryInit
  BY DEF Init
<1> QED
  BY <1>1, LineImplemented, PTL DEF Spec, MemorySpec

-----------------------------------------------------------------------------
(* The list and the trace *)

HeadersRead == {i \in 1 .. pos - 1 : trace[i] = Header}

(* The list is behind the trace by the headers that were read. *)
ListInv ==
    /\ trace \in [1 .. MaxRefs -> Line]
    /\ pos \in 1 .. MaxRefs + 1 /\ head \in Nat \ {0}
    /\ IsFiniteSet(HeadersRead)
    /\ pos - head = Cardinality(HeadersRead)

LEMMA TraceLength ==
    ASSUME NEW A, NEW t \in [1 .. MaxRefs -> A]
    PROVE  Len(t) = MaxRefs /\ t \in Seq(A)
OBVIOUS

LEMMA ListStep ==
    ASSUME ListInv, [Next]_optvars
    PROVE  ListInv'
<1>1. CASE SkipHeader
  <2>1. pos <= MaxRefs /\ trace[pos] = Header /\ pos' = pos + 1 /\ UNCHANGED <<trace, head>>
    BY <1>1, TraceLength DEF SkipHeader, Reads, ListInv
  <2>2. HeadersRead' = HeadersRead \cup {pos} /\ pos \notin HeadersRead
    BY <2>1 DEF HeadersRead, ListInv
  <2>3. IsFiniteSet(HeadersRead') /\ Cardinality(HeadersRead') = Cardinality(HeadersRead) + 1
    BY <2>2, FS_AddElement DEF ListInv
  <2> QED
    BY <2>1, <2>3 DEF ListInv
<1>2. ASSUME NEW type \in AccessType, NEW p \in Page, Reference(type, p)
      PROVE  ListInv'
  <2>1. /\ pos <= MaxRefs /\ trace[pos] = p /\ pos' = pos + 1 /\ head' = head + 1
        /\ trace' = trace
    BY <1>2, TraceLength DEF Reference, Reads, opt_ref, ListInv
  <2>2. p # Header
    BY TraceAssumption
  <2>3. HeadersRead' = HeadersRead
    BY <2>1, <2>2 DEF HeadersRead, ListInv
  <2> QED
    BY <2>1, <2>3 DEF ListInv
<1>3. CASE UNCHANGED <<trace, pos, head>>
  BY <1>3 DEF ListInv, HeadersRead
<1> QED
  BY <1>1, <1>2, <1>3 DEF Next, optvars

LEMMA ListInvariance == Spec => []ListInv
<1>1. Init => ListInv
  <2> SUFFICES ASSUME Init PROVE ListInv
    OBVIOUS
  <2>1. pos = 1 /\ head = 1 /\ trace \in [1 .. MaxRefs -> Line]
    BY DEF Init
  <2>2. HeadersRead = {}
    BY <2>1 DEF HeadersRead
  <2> QED
    BY <2>1, <2>2, FS_EmptySet DEF ListInv
<1>2. ListInv /\ [Next]_optvars => ListInv'
  BY ListStep
<1> QED
  BY <1>1, <1>2, PTL DEF Spec

(* opt_ref frees the head without a test for the end of the list: on any   *)
(* trace the list lasts as long as the lines do, and its head is the line  *)
(* being replayed as long as no header was read.                           *)
THEOREM ListLasts == Spec => []ListOutlastsTrace
<1>1. ListInv => ListOutlastsTrace
  <2> SUFFICES ASSUME ListInv PROVE ListOutlastsTrace
    OBVIOUS
  <2>1. Cardinality(HeadersRead) \in Nat /\ pos - head = Cardinality(HeadersRead)
    BY FS_CardinalityType DEF ListInv
  <2>2. pos \in Nat /\ head \in Nat /\ head <= pos
    BY <2>1 DEF ListInv
  <2> QED
    BY <2>1, <2>2 DEF ListOutlastsTrace, HeadersRead
<1> QED
  BY <1>1, ListInvariance, PTL

-----------------------------------------------------------------------------
(* The fewest misses, line by line *)

NoHeaders == trace \in [1 .. MaxRefs -> Page]

(* What memory can hold. *)
Memory == {R \in SUBSET Page : IsFiniteSet(R) /\ Cardinality(R) <= memsize}

LEMMA FewestExists ==
    \E g : g = [i \in 1 .. MaxRefs + 1 |->
                   IF i > MaxRefs THEN [resident \in SUBSET Page |-> 0]
                   ELSE FewestFrom(i, g[i + 1])]
<1> DEFINE Step(i, g) == IF i > MaxRefs THEN [resident \in SUBSET Page |-> 0]
                         ELSE FewestFrom(i, g[i + 1])
           From(k, g) == \A i \in MaxRefs + 1 - k .. MaxRefs + 1 : g[i] = Step(i, g)
           T == {k \in 0 .. MaxRefs : \E g : From(k, g)}
<1>1. 0 \in T
  <2> DEFINE g == [i \in 1 .. MaxRefs + 1 |-> [resident \in SUBSET Page |-> 0]]
  <2>1. From(0, g)
    OBVIOUS
  <2> HIDE DEF From
  <2> QED
    BY <2>1
<1>2. ASSUME NEW k \in 0 .. MaxRefs - 1, k \in T
      PROVE  k + 1 \in T
  <2>1. PICK g : From(k, g)
    BY <1>2
  <2> DEFINE h == [i \in 1 .. MaxRefs + 1 |->
                      IF i = MaxRefs - k THEN FewestFrom(i, g[i + 1]) ELSE g[i]]
  <2>2. ASSUME NEW i \in MaxRefs - k .. MaxRefs + 1
        PROVE  h[i] = Step(i, h)
    <3>1. i \in 1 .. MaxRefs + 1 /\ MaxRefs - k <= MaxRefs
      OBVIOUS
    <3>2. i <= MaxRefs => h[i + 1] = g[i + 1]
      OBVIOUS
    <3>3. CASE i = MaxRefs - k
      <4>1. h[i] = FewestFrom(i, g[i + 1])
        BY <3>1, <3>3
      <4>2. ~(i > MaxRefs)
        BY <3>3
      <4> HIDE DEF h
      <4> QED
        BY <3>1, <3>2, <4>1, <4>2
    <3>4. CASE i # MaxRefs - k
      <4>1. h[i] = g[i] /\ i \in MaxRefs + 1 - k .. MaxRefs + 1
        BY <3>1, <3>4
      <4>2. g[i] = Step(i, g)
        BY <2>1, <4>1
      <4> HIDE DEF h
      <4> QED
        BY <3>1, <3>2, <4>1, <4>2
    <3> QED
      BY <3>3, <3>4
  <2>3. MaxRefs + 1 - (k + 1) = MaxRefs - k /\ k + 1 \in 0 .. MaxRefs
    OBVIOUS
  <2> HIDE DEF h, Step
  <2>4. From(k + 1, h)
    BY <2>2, <2>3
  <2> HIDE DEF From
  <2> QED
    BY <2>3, <2>4
<1>3. 0 .. MaxRefs \subseteq T
  <2> HIDE DEF T
  <2> QED
    BY <1>1, <1>2, Induction
<1>4. PICK g : From(MaxRefs, g)
  <2> HIDE DEF From
  <2>1. MaxRefs \in T
    BY <1>3
  <2> QED
    BY <2>1
<1> DEFINE f == [i \in 1 .. MaxRefs + 1 |-> g[i]]
<1>5. \A i \in 1 .. MaxRefs + 1 : Step(i, f) = Step(i, g)
  OBVIOUS
<1>6. MaxRefs + 1 - MaxRefs = 1
  OBVIOUS
<1> HIDE DEF Step
<1>7. \A i \in 1 .. MaxRefs + 1 : g[i] = Step(i, g)
  BY <1>4, <1>6
<1>8. f = [i \in 1 .. MaxRefs + 1 |-> Step(i, f)]
  BY <1>5, <1>7
<1> HIDE DEF f
<1> QED
  BY <1>8 DEF Step

LEMMA FewestIs ==
    Fewest = [i \in 1 .. MaxRefs + 1 |->
                 IF i > MaxRefs THEN [resident \in SUBSET Page |-> 0]
                 ELSE FewestFrom(i, Fewest[i + 1])]
BY FewestExists, Zenon DEF Fewest

LEMMA FewestAt ==
    /\ Fewest[MaxRefs + 1] = [resident \in SUBSET Page |-> 0]
    /\ \A i \in 1 .. MaxRefs : Fewest[i] = FewestFrom(i, Fewest[i + 1])
<1> DEFINE g == Fewest
<1> HIDE DEF g
<1>1. g = [i \in 1 .. MaxRefs + 1 |->
              IF i > MaxRefs THEN [resident \in SUBSET Page |-> 0]
              ELSE FewestFrom(i, g[i + 1])]
  BY FewestIs, Zenon DEF g
<1>2. /\ g[MaxRefs + 1] = [resident \in SUBSET Page |-> 0]
      /\ \A i \in 1 .. MaxRefs : g[i] = FewestFrom(i, g[i + 1])
  BY <1>1
<1> QED
  BY <1>2, Zenon DEF g

(* A page that is in memory costs nothing. *)
LEMMA FewestHit ==
    ASSUME NEW i \in 1 .. MaxRefs, NEW R \in SUBSET Page, trace[i] \in R
    PROVE  Fewest[i][R] = Fewest[i + 1][R]
<1>1. Fewest[i] = FewestFrom(i, Fewest[i + 1])
  BY FewestAt
<1> QED
  BY <1>1 DEF FewestFrom

(* The frames are not full. *)
LEMMA FewestFill ==
    ASSUME NoHeaders, NEW i \in 1 .. MaxRefs, NEW R \in Memory, trace[i] \notin R,
           Cardinality(R) < memsize
    PROVE  Fewest[i][R] = 1 + Fewest[i + 1][R \cup {trace[i]}]
<1>1. Fewest[i] = FewestFrom(i, Fewest[i + 1])
  BY FewestAt
<1>2. trace[i] # Header
  BY TraceAssumption DEF NoHeaders
<1> QED
  BY <1>1, <1>2 DEF FewestFrom, Memory

(* A function into the natural numbers has a least value. *)
LEMMA LeastValue ==
    ASSUME NEW S, S # {}, NEW g \in [S -> Nat]
    PROVE  \E b \in S : \A v \in S : g[b] <= g[v]
<1> DEFINE T == {g[v] : v \in S}
<1>1. T \in SUBSET Nat /\ T # {}
  OBVIOUS
<1>2. PICK n \in T : \A k \in T : n <= k
  <2> HIDE DEF T
  <2> QED
    BY <1>1, LeastNumber
<1>3. PICK b \in S : n = g[b]
  BY <1>2
<1> QED
  BY <1>2, <1>3

(* They are: a page goes that costs least. *)
LEMMA FewestFull ==
    ASSUME NoHeaders, NEW i \in 1 .. MaxRefs, NEW R \in Memory, trace[i] \notin R,
           Cardinality(R) = memsize,
           \A v \in R : Fewest[i + 1][(R \ {v}) \cup {trace[i]}] \in Nat
    PROVE  \E best \in R :
               /\ Fewest[i][R] = 1 + Fewest[i + 1][(R \ {best}) \cup {trace[i]}]
               /\ \A v \in R : Fewest[i + 1][(R \ {best}) \cup {trace[i]}]
                                 <= Fewest[i + 1][(R \ {v}) \cup {trace[i]}]
<1> DEFINE later == Fewest[i + 1]
           After(victim) == later[(R \ {victim}) \cup {trace[i]}]
           best == CHOOSE b \in R : \A v \in R : After(b) <= After(v)
           g == [v \in R |-> After(v)]
<1>1. Fewest[i] = FewestFrom(i, later)
  BY FewestAt
<1>2. trace[i] # Header /\ R \in SUBSET Page
  BY TraceAssumption DEF NoHeaders, Memory
<1>3. ~(Cardinality(R) < memsize)
  OBVIOUS
<1>4. Fewest[i][R] = 1 + After(best)
  BY <1>1, <1>2, <1>3 DEF FewestFrom
<1> HIDE DEF later
<1>5. R # {}
  BY FS_EmptySet
<1>6. g \in [R -> Nat]
  BY DEF later
<1>7. PICK b \in R : \A v \in R : g[b] <= g[v]
  <2> HIDE DEF g
  <2> QED
    BY <1>5, <1>6, LeastValue
<1>8. \A v \in R : After(b) <= After(v)
  BY <1>7
<1> HIDE DEF After
<1>9. best \in R /\ \A v \in R : After(best) <= After(v)
  BY <1>8
<1> HIDE DEF best
<1> QED
  BY <1>4, <1>9 DEF After, later

-----------------------------------------------------------------------------
(* More in memory never costs a miss, and less costs one for each page *)

LEMMA Removed ==
    ASSUME NEW R \in Memory, NEW v
    PROVE  R \ {v} \in Memory
<1>1. R \ {v} \in SUBSET R /\ R \ {v} \in SUBSET Page
  BY DEF Memory
<1>2. IsFiniteSet(R \ {v}) /\ Cardinality(R \ {v}) <= Cardinality(R)
  BY <1>1, FS_Subset DEF Memory
<1>3. Cardinality(R \ {v}) \in Int /\ Cardinality(R) \in Int
  BY <1>2, FS_CardinalityType DEF Memory
<1> QED
  BY <1>1, <1>2, <1>3 DEF Memory

LEMMA Exchanged ==
    ASSUME NEW R \in Memory, NEW v \in R, NEW x \in Page
    PROVE  (R \ {v}) \cup {x} \in Memory
<1>1. IsFiniteSet(R \ {v}) /\ Cardinality(R \ {v}) = Cardinality(R) - 1 /\ Cardinality(R) \in Int
  BY FS_RemoveElement, FS_CardinalityType DEF Memory
<1>2. /\ IsFiniteSet((R \ {v}) \cup {x})
      /\ Cardinality((R \ {v}) \cup {x}) = IF x \in R \ {v} THEN Cardinality(R \ {v})
                                           ELSE Cardinality(R \ {v}) + 1
  BY <1>1, FS_AddElement
<1>3. Cardinality((R \ {v}) \cup {x}) <= memsize
  BY <1>1, <1>2 DEF Memory
<1> QED
  BY <1>2, <1>3 DEF Memory

LEMMA Added ==
    ASSUME NEW R \in Memory, NEW x \in Page, Cardinality(R) < memsize
    PROVE  R \cup {x} \in Memory
<1>1. Cardinality(R) \in Int
  BY FS_CardinalityType DEF Memory
<1>2. /\ IsFiniteSet(R \cup {x})
      /\ Cardinality(R \cup {x}) = IF x \in R THEN Cardinality(R) ELSE Cardinality(R) + 1
  BY FS_AddElement DEF Memory
<1>3. Cardinality(R \cup {x}) <= memsize
  BY <1>1, <1>2
<1> QED
  BY <1>2, <1>3 DEF Memory

(* What memory can hold after x was brought in is at most that and one.    *)
Serves(x, R, after) == after \in Memory /\ x \in after /\ after \subseteq R \cup {x}

(* From line i on the fewest are a number, not more than with less in      *)
(* memory, and at most one more than with one page more.                   *)
Number(i)   == \A R \in Memory : Fewest[i][R] \in Nat
Monotone(i) == \A P, Q \in Memory : Q \subseteq P => Fewest[i][P] <= Fewest[i][Q]
OneMore(i)  == \A P, Q \in Memory : \A b : Q \subseteq P \cup {b} => Fewest[i][P] <= 1 + Fewest[i][Q]

(* A miss leaves some such memory, *)
LEMMA MissReached ==
    ASSUME NoHeaders, NEW i \in 1 .. MaxRefs, NEW R \in Memory, trace[i] \notin R, Number(i + 1)
    PROVE  \E after : Serves(trace[i], R, after) /\ Fewest[i][R] = 1 + Fewest[i + 1][after]
<1>1. trace[i] \in Page /\ Cardinality(R) \in Int
  BY FS_CardinalityType DEF NoHeaders, Memory
<1>2. CASE Cardinality(R) < memsize
  <2>1. R \cup {trace[i]} \in Memory
    BY <1>1, <1>2, Added
  <2> QED
    BY <1>2, <2>1, FewestFill DEF Serves
<1>3. CASE ~(Cardinality(R) < memsize)
  <2>1. Cardinality(R) = memsize
    BY <1>1, <1>3 DEF Memory
  <2>2. \A v \in R : (R \ {v}) \cup {trace[i]} \in Memory
    BY <1>1, Exchanged
  <2>3. \A v \in R : Fewest[i + 1][(R \ {v}) \cup {trace[i]}] \in Nat
    BY <2>2 DEF Number
  <2>4. PICK best \in R : Fewest[i][R] = 1 + Fewest[i + 1][(R \ {best}) \cup {trace[i]}]
    BY <2>1, <2>3, FewestFull
  <2>5. Serves(trace[i], R, (R \ {best}) \cup {trace[i]})
    BY <2>2 DEF Serves
  <2> QED
    BY <2>4, <2>5
<1> QED
  BY <1>2, <1>3

(* and none is better than the best. *)
LEMMA MissBest ==
    ASSUME NoHeaders, NEW i \in 1 .. MaxRefs, NEW R \in Memory, trace[i] \notin R,
           Number(i + 1), Monotone(i + 1), NEW after, Serves(trace[i], R, after)
    PROVE  Fewest[i][R] <= 1 + Fewest[i + 1][after]
<1>1. trace[i] \in Page /\ Cardinality(R) \in Int /\ IsFiniteSet(R) /\ after \in Memory
  BY FS_CardinalityType DEF NoHeaders, Memory, Serves
<1>2. CASE Cardinality(R) < memsize
  <2>1. R \cup {trace[i]} \in Memory /\ after \subseteq R \cup {trace[i]}
    BY <1>1, <1>2, Added DEF Serves
  <2>2. Fewest[i + 1][R \cup {trace[i]}] <= Fewest[i + 1][after]
    BY <1>1, <2>1 DEF Monotone
  <2>3. Fewest[i][R] = 1 + Fewest[i + 1][R \cup {trace[i]}]
    BY <1>2, FewestFill
  <2>4. Fewest[i + 1][R \cup {trace[i]}] \in Nat /\ Fewest[i + 1][after] \in Nat
    BY <1>1, <2>1 DEF Number
  <2> QED
    BY <2>2, <2>3, <2>4
<1>3. CASE ~(Cardinality(R) < memsize)
  <2>1. Cardinality(R) = memsize
    BY <1>1, <1>3 DEF Memory
  <2>2. \A v \in R : (R \ {v}) \cup {trace[i]} \in Memory
    BY <1>1, Exchanged
  <2>3. \A v \in R : Fewest[i + 1][(R \ {v}) \cup {trace[i]}] \in Nat
    BY <2>2 DEF Number
  <2>4. PICK best \in R :
            /\ Fewest[i][R] = 1 + Fewest[i + 1][(R \ {best}) \cup {trace[i]}]
            /\ \A v \in R : Fewest[i + 1][(R \ {best}) \cup {trace[i]}]
                              <= Fewest[i + 1][(R \ {v}) \cup {trace[i]}]
    BY <2>1, <2>3, FewestFull
  <2>5. PICK u \in R : u \notin after
    <3> SUFFICES ASSUME R \subseteq after PROVE FALSE
      OBVIOUS
    <3>1. R \cup {trace[i]} \in SUBSET after /\ IsFiniteSet(after)
      BY <1>1 DEF Serves, Memory
    <3>2. Cardinality(R \cup {trace[i]}) = memsize + 1
      BY <1>1, <2>1, FS_AddElement
    <3>3. Cardinality(R \cup {trace[i]}) <= Cardinality(after)
      BY <3>1, FS_Subset
    <3>4. Cardinality(after) \in Int /\ Cardinality(after) <= memsize
      BY <1>1, <3>1, FS_CardinalityType DEF Memory
    <3> QED
      BY <3>2, <3>3, <3>4
  <2>6. after \subseteq (R \ {u}) \cup {trace[i]}
    BY <2>5 DEF Serves
  <2>7. Fewest[i + 1][(R \ {u}) \cup {trace[i]}] <= Fewest[i + 1][after]
    BY <1>1, <2>2, <2>6 DEF Monotone
  <2>8. Fewest[i + 1][(R \ {best}) \cup {trace[i]}] <= Fewest[i + 1][(R \ {u}) \cup {trace[i]}]
    BY <2>4
  <2>9. /\ Fewest[i + 1][(R \ {best}) \cup {trace[i]}] \in Nat
        /\ Fewest[i + 1][(R \ {u}) \cup {trace[i]}] \in Nat /\ Fewest[i + 1][after] \in Nat
    BY <1>1, <2>3 DEF Number
  <2> QED
    BY <2>4, <2>7, <2>8, <2>9
<1> QED
  BY <1>2, <1>3

LEMMA StepDown ==
    ASSUME NoHeaders, NEW i \in 1 .. MaxRefs, Number(i + 1), Monotone(i + 1), OneMore(i + 1)
    PROVE  Number(i) /\ Monotone(i) /\ OneMore(i)
<1> DEFINE x == trace[i]
<1>1. x \in Page
  BY DEF NoHeaders
<1>2. \A R \in Memory : x \in R => Fewest[i][R] = Fewest[i + 1][R]
  BY FewestHit DEF Memory
<1>3. \A R \in Memory : x \notin R =>
          \E after : Serves(x, R, after) /\ Fewest[i][R] = 1 + Fewest[i + 1][after]
  BY MissReached
<1>4. \A R \in Memory : x \notin R =>
          \A after : Serves(x, R, after) => Fewest[i][R] <= 1 + Fewest[i + 1][after]
  BY MissBest
<1> HIDE DEF x
<1>5. ASSUME NEW R \in Memory
      PROVE  Fewest[i][R] \in Nat
  <2>1. CASE x \in R
    BY <1>2, <2>1 DEF Number
  <2>2. CASE x \notin R
    BY <1>3, <2>2 DEF Number, Serves
  <2> QED
    BY <2>1, <2>2
<1>6. ASSUME NEW P \in Memory, NEW Q \in Memory, Q \subseteq P
      PROVE  Fewest[i][P] <= Fewest[i][Q]
  <2>1. CASE x \in Q
    <3>1. x \in P
      BY <1>6, <2>1
    <3>2. Fewest[i + 1][P] <= Fewest[i + 1][Q]
      BY <1>6 DEF Monotone
    <3> QED
      BY <1>2, <2>1, <3>1, <3>2
  <2>2. CASE x \notin Q
    <3>1. PICK after : Serves(x, Q, after) /\ Fewest[i][Q] = 1 + Fewest[i + 1][after]
      BY <1>3, <2>2
    <3>2. after \in Memory /\ Fewest[i + 1][after] \in Nat /\ Fewest[i + 1][P] \in Nat
      BY <3>1 DEF Serves, Number
    <3>3. CASE x \in P
      <4>1. after \subseteq P
        BY <1>6, <3>1, <3>3 DEF Serves
      <4>2. Fewest[i + 1][P] <= Fewest[i + 1][after]
        BY <3>2, <4>1 DEF Monotone
      <4>3. Fewest[i][P] = Fewest[i + 1][P]
        BY <1>2, <3>3
      <4> QED
        BY <3>1, <3>2, <4>2, <4>3
    <3>4. CASE x \notin P
      <4>1. Serves(x, P, after)
        BY <1>6, <3>1 DEF Serves
      <4>2. Fewest[i][P] <= 1 + Fewest[i + 1][after]
        BY <1>4, <3>4, <4>1
      <4> QED
        BY <3>1, <4>2
    <3> QED
      BY <3>3, <3>4
  <2> QED
    BY <2>1, <2>2
<1>7. ASSUME NEW P \in Memory, NEW Q \in Memory, NEW b, Q \subseteq P \cup {b}
      PROVE  Fewest[i][P] <= 1 + Fewest[i][Q]
  <2>1. Fewest[i + 1][P] \in Nat /\ Fewest[i + 1][Q] \in Nat /\ Fewest[i][P] \in Nat
    BY <1>5 DEF Number
  <2>2. CASE x \in Q /\ x \in P
    <3>1. Fewest[i + 1][P] <= 1 + Fewest[i + 1][Q]
      BY <1>7 DEF OneMore
    <3> QED
      BY <1>2, <2>2, <3>1
  <2>3. CASE x \in Q /\ x \notin P
    <3>1. Serves(x, P, Q)
      BY <1>7, <2>3 DEF Serves
    <3>2. Fewest[i][P] <= 1 + Fewest[i + 1][Q]
      BY <1>4, <2>3, <3>1
    <3> QED
      BY <1>2, <2>3, <3>2
  <2>4. CASE x \notin Q
    <3>1. PICK after : Serves(x, Q, after) /\ Fewest[i][Q] = 1 + Fewest[i + 1][after]
      BY <1>3, <2>4
    <3>2. after \in Memory /\ Fewest[i + 1][after] \in Nat
      BY <3>1 DEF Serves, Number
    <3>3. CASE x \in P
      <4>1. after \subseteq P \cup {b}
        BY <1>7, <3>1, <3>3 DEF Serves
      <4>2. Fewest[i + 1][P] <= 1 + Fewest[i + 1][after]
        BY <3>2, <4>1 DEF OneMore
      <4>3. Fewest[i][P] = Fewest[i + 1][P]
        BY <1>2, <3>3
      <4> QED
        BY <2>1, <3>1, <3>2, <4>2, <4>3
    <3>4. CASE x \notin P /\ b = x
      <4>1. Serves(x, P, after)
        BY <1>7, <3>1, <3>4 DEF Serves
      <4>2. Fewest[i][P] <= 1 + Fewest[i + 1][after]
        BY <1>4, <3>4, <4>1
      <4> QED
        BY <2>1, <3>1, <3>2, <4>2
    <3>5. CASE x \notin P /\ b # x
      <4> DEFINE without == after \ {b}
      <4>1. without \in Memory /\ Serves(x, P, without) /\ after \subseteq without \cup {b}
        BY <1>7, <3>1, <3>2, <3>5, Removed DEF Serves
      <4>2. Fewest[i][P] <= 1 + Fewest[i + 1][without]
        BY <1>4, <3>5, <4>1
      <4>3. Fewest[i + 1][without] <= 1 + Fewest[i + 1][after]
        BY <3>2, <4>1 DEF OneMore
      <4>4. Fewest[i + 1][without] \in Nat
        BY <4>1 DEF Number
      <4> HIDE DEF without
      <4> QED
        BY <2>1, <3>1, <3>2, <4>2, <4>3, <4>4
    <3> QED
      BY <3>3, <3>4, <3>5
  <2> QED
    BY <2>2, <2>3, <2>4
<1> QED
  BY <1>5, <1>6, <1>7 DEF Number, Monotone, OneMore

(* From every line on. *)
LEMMA FewestOrdered ==
    ASSUME NoHeaders, NEW i \in 1 .. MaxRefs + 1
    PROVE  Number(i) /\ Monotone(i) /\ OneMore(i)
<1> DEFINE Fine(j) == Number(j) /\ Monotone(j) /\ OneMore(j)
           T == {k \in 0 .. MaxRefs : Fine(MaxRefs + 1 - k)}
<1>1. Fine(MaxRefs + 1)
  BY FewestAt DEF Number, Monotone, OneMore, Memory
<1>2. \A j \in 1 .. MaxRefs : Fine(j + 1) => Fine(j)
  BY StepDown
<1> HIDE DEF Fine
<1>3. 0 \in T
  BY <1>1
<1>4. ASSUME NEW k \in 0 .. MaxRefs - 1, k \in T
      PROVE  k + 1 \in T
  <2>1. MaxRefs - k \in 1 .. MaxRefs /\ MaxRefs + 1 - k = (MaxRefs - k) + 1 /\ MaxRefs + 1 - (k + 1) = MaxRefs - k
    OBVIOUS
  <2>2. Fine((MaxRefs - k) + 1)
    BY <1>4, <2>1
  <2>3. Fine(MaxRefs - k)
    BY <1>2, <2>1, <2>2
  <2>4. Fine(MaxRefs + 1 - (k + 1))
    BY <2>1, <2>3
  <2> QED
    BY <2>4
<1>5. 0 .. MaxRefs \subseteq T
  <2> HIDE DEF T
  <2> QED
    BY <1>3, <1>4, Induction
<1>6. MaxRefs + 1 - i \in T /\ MaxRefs + 1 - (MaxRefs + 1 - i) = i
  <2>1. MaxRefs + 1 - i \in 0 .. MaxRefs /\ MaxRefs + 1 - (MaxRefs + 1 - i) = i
    OBVIOUS
  <2> QED
    BY <1>5, <2>1
<1>7. Fine(i)
  BY <1>6
<1> QED
  BY <1>7 DEF Fine

-----------------------------------------------------------------------------
(* The page that is used sooner is the one to keep *)

(* From line i on, b is used before a is, or a is not used. *)
Sooner(i, b, a) ==
    \A j \in i .. MaxRefs : trace[j] = a => \E k \in i .. j - 1 : trace[k] = b

Exchange(i) ==
    \A P, Q \in Memory : \A a, b \in Page :
        b \in P /\ b \notin Q /\ Q \subseteq P \cup {a} /\ Sooner(i, b, a)
            => Fewest[i][P] <= Fewest[i][Q]

LEMMA SoonerLater ==
    ASSUME NEW i \in 1 .. MaxRefs, NEW a, NEW b, Sooner(i, b, a)
    PROVE  /\ trace[i] # a
           /\ trace[i] # b => Sooner(i + 1, b, a)
<1>1. trace[i] # a
  <2> SUFFICES ASSUME trace[i] = a PROVE FALSE
    OBVIOUS
  <2>1. \E k \in i .. i - 1 : trace[k] = b
    BY DEF Sooner
  <2> QED
    BY <2>1
<1>2. ASSUME trace[i] # b, NEW j \in i + 1 .. MaxRefs, trace[j] = a
      PROVE  \E k \in i + 1 .. j - 1 : trace[k] = b
  <2>1. PICK k \in i .. j - 1 : trace[k] = b
    BY <1>2 DEF Sooner
  <2>2. k \in i + 1 .. j - 1
    BY <1>2, <2>1
  <2> QED
    BY <2>1, <2>2
<1> QED
  BY <1>1, <1>2 DEF Sooner

LEMMA ExchangeDown ==
    ASSUME NoHeaders, NEW i \in 1 .. MaxRefs, Exchange(i + 1)
    PROVE  Exchange(i)
<1> DEFINE x == trace[i]
<1>1. x \in Page
  BY DEF NoHeaders
<1>2. \A R \in Memory : x \in R => Fewest[i][R] = Fewest[i + 1][R]
  BY FewestHit DEF Memory
<1>3. i + 1 \in 1 .. MaxRefs + 1 /\ i \in 1 .. MaxRefs + 1
  OBVIOUS
<1>4. Number(i + 1) /\ Monotone(i + 1) /\ OneMore(i + 1) /\ Number(i)
  BY <1>3, FewestOrdered
<1>5. \A R \in Memory : x \notin R =>
          \E after : Serves(x, R, after) /\ Fewest[i][R] = 1 + Fewest[i + 1][after]
  BY <1>4, MissReached
<1>6. \A R \in Memory : x \notin R =>
          \A after : Serves(x, R, after) => Fewest[i][R] <= 1 + Fewest[i + 1][after]
  BY <1>4, MissBest
<1>7. SUFFICES ASSUME NEW P \in Memory, NEW Q \in Memory, NEW a \in Page, NEW b \in Page,
                      b \in P, b \notin Q, Q \subseteq P \cup {a}, Sooner(i, b, a)
               PROVE  Fewest[i][P] <= Fewest[i][Q]
  BY DEF Exchange
<1>8. x # a /\ (x # b => Sooner(i + 1, b, a))
  BY <1>7, SoonerLater
<1>9. Fewest[i + 1][P] \in Nat /\ Fewest[i + 1][Q] \in Nat /\ Fewest[i][P] \in Nat
  BY <1>4 DEF Number
<1> HIDE DEF x
<1>10. CASE x \in Q
  <2>1. x \in P /\ x # b
    BY <1>7, <1>8, <1>10
  <2>2. Fewest[i + 1][P] <= Fewest[i + 1][Q]
    BY <1>7, <1>8, <2>1 DEF Exchange
  <2> QED
    BY <1>2, <1>10, <2>1, <2>2
<1>11. CASE x \notin Q
  <2>1. PICK after : Serves(x, Q, after) /\ Fewest[i][Q] = 1 + Fewest[i + 1][after]
    BY <1>5, <1>11
  <2>2. after \in Memory /\ Fewest[i + 1][after] \in Nat
    BY <1>4, <2>1 DEF Serves, Number
  <2>3. CASE x \in P
    <3>1. after \subseteq P \cup {a}
      BY <1>7, <2>1, <2>3 DEF Serves
    <3>2. Fewest[i + 1][P] <= 1 + Fewest[i + 1][after]
      BY <1>4, <2>2, <3>1 DEF OneMore
    <3> QED
      BY <1>2, <1>9, <2>1, <2>2, <2>3, <3>2
  <2>4. CASE x \notin P /\ a \notin after
    <3>1. Serves(x, P, after)
      BY <1>7, <2>1, <2>4 DEF Serves
    <3> QED
      BY <1>6, <2>1, <2>4, <3>1
  <2>5. CASE x \notin P /\ a \in after
    <3> DEFINE other == (after \ {a}) \cup {b}
    <3>1. other \in Memory
      BY <1>7, <2>2, <2>5, Exchanged
    <3>2. Serves(x, P, other)
      BY <1>7, <1>8, <2>1, <2>5, <3>1 DEF Serves
    <3>3. Fewest[i][P] <= 1 + Fewest[i + 1][other]
      BY <1>6, <2>5, <3>2
    <3>4. /\ x # b /\ b \in other /\ b \notin after
          /\ after \subseteq other \cup {a}
      BY <1>7, <2>1, <2>5 DEF Serves
    <3> HIDE DEF other
    <3>5. Fewest[i + 1][other] <= Fewest[i + 1][after]
      BY <1>7, <1>8, <2>2, <3>1, <3>4 DEF Exchange
    <3>6. Fewest[i + 1][other] \in Nat
      BY <1>4, <3>1 DEF Number
    <3> QED
      BY <1>9, <2>1, <2>2, <3>3, <3>5, <3>6
  <2> QED
    BY <2>3, <2>4, <2>5
<1> QED
  BY <1>10, <1>11

LEMMA ExchangeAll ==
    ASSUME NoHeaders, NEW i \in 1 .. MaxRefs + 1
    PROVE  Exchange(i)
<1> DEFINE T == {k \in 0 .. MaxRefs : Exchange(MaxRefs + 1 - k)}
<1>1. Exchange(MaxRefs + 1)
  BY FewestAt DEF Exchange, Memory
<1>2. \A j \in 1 .. MaxRefs : Exchange(j + 1) => Exchange(j)
  BY ExchangeDown
<1>3. 0 \in T
  BY <1>1
<1>4. ASSUME NEW k \in 0 .. MaxRefs - 1, k \in T
      PROVE  k + 1 \in T
  <2>1. MaxRefs - k \in 1 .. MaxRefs /\ MaxRefs + 1 - k = (MaxRefs - k) + 1 /\ MaxRefs + 1 - (k + 1) = MaxRefs - k
    OBVIOUS
  <2>2. Exchange((MaxRefs - k) + 1)
    BY <1>4, <2>1
  <2>3. Exchange(MaxRefs - k)
    BY <1>2, <2>1, <2>2
  <2>4. Exchange(MaxRefs + 1 - (k + 1))
    BY <2>1, <2>3
  <2> QED
    BY <2>4
<1>5. 0 .. MaxRefs \subseteq T
  <2> HIDE DEF T
  <2> QED
    BY <1>3, <1>4, Induction
<1>6. MaxRefs + 1 - i \in 0 .. MaxRefs /\ MaxRefs + 1 - (MaxRefs + 1 - i) = i
  OBVIOUS
<1>7. MaxRefs + 1 - i \in T
  BY <1>5, <1>6
<1> QED
  BY <1>6, <1>7

(* The victim whose next use is last, or that has none, costs least. *)
LEMMA LastUsedIsBest ==
    ASSUME NoHeaders, NEW i \in 1 .. MaxRefs, NEW R \in Memory, trace[i] \notin R,
           Cardinality(R) = memsize, NEW v \in R,
           \A u \in R \ {v} : Sooner(i + 1, u, v)
    PROVE  Fewest[i][R] = 1 + Fewest[i + 1][(R \ {v}) \cup {trace[i]}]
<1> DEFINE x == trace[i]
           After(u) == (R \ {u}) \cup {x}
<1>1. x \in Page /\ R \subseteq Page /\ i + 1 \in 1 .. MaxRefs + 1
  BY DEF NoHeaders, Memory
<1>2. \A u \in R : After(u) \in Memory
  BY <1>1, Exchanged
<1>3. Number(i + 1) /\ Exchange(i + 1)
  BY <1>1, FewestOrdered, ExchangeAll
<1>4. \A u \in R : Fewest[i + 1][After(u)] \in Nat
  BY <1>2, <1>3 DEF Number
<1>5. PICK best \in R :
          /\ Fewest[i][R] = 1 + Fewest[i + 1][After(best)]
          /\ \A u \in R : Fewest[i + 1][After(best)] <= Fewest[i + 1][After(u)]
  BY <1>4, FewestFull
<1>6. Fewest[i + 1][After(v)] <= Fewest[i + 1][After(best)]
  <2>1. CASE best = v
    <3>1. Fewest[i + 1][After(v)] \in Nat
      BY <1>4
    <3> HIDE DEF After
    <3> QED
      BY <2>1, <3>1
  <2>2. CASE best # v
    <3>1. /\ best \in After(v) /\ best \notin After(best)
          /\ After(best) \subseteq After(v) \cup {v}
      BY <2>2
    <3>2. Sooner(i + 1, best, v) /\ best \in Page /\ v \in Page
      BY <1>1, <2>2
    <3>3. After(v) \in Memory /\ After(best) \in Memory
      BY <1>2
    <3> HIDE DEF After
    <3> QED
      BY <1>3, <3>1, <3>2, <3>3 DEF Exchange
  <2> QED
    BY <2>1, <2>2
<1>7. Fewest[i + 1][After(best)] <= Fewest[i + 1][After(v)]
  BY <1>5
<1> HIDE DEF After
<1>8. Fewest[i + 1][After(best)] = Fewest[i + 1][After(v)]
  BY <1>4, <1>6, <1>7
<1>9. Fewest[i][R] = 1 + Fewest[i + 1][After(v)]
  BY <1>5, <1>8
<1> QED
  BY <1>9 DEF After

-----------------------------------------------------------------------------
(* opt.c is optimal *)

(* The pages in memory are as many as the frames in use. *)
LEMMA ResidentSize ==
    ASSUME TypeOK, CoremapMatchesPageTable
    PROVE  /\ Resident \in Memory
           /\ FreeFrames = {} <=> Cardinality(Resident) = memsize
<1> DEFINE g == [f \in InUse |-> coremap[f]]
<1>1. g \in [InUse -> Resident]
  BY DEF InUse, Resident, TypeOK, CoremapMatchesPageTable
<1>2. \A f, e \in InUse : g[f] = g[e] => f = e
  BY DEF InUse, CoremapMatchesPageTable
<1>3. \A p \in Resident : \E f \in InUse : g[f] = p
  <2> SUFFICES ASSUME NEW p \in Page, pte[p].valid PROVE \E f \in InUse : coremap[f] = p
    BY DEF Resident
  <2>1. pte[p].frame \in Frame /\ coremap[pte[p].frame] = p /\ p # NoPage
    BY MemoryAssumption DEF TypeOK, Entry, CoremapMatchesPageTable
  <2>2. pte[p].frame \in InUse
    BY <2>1 DEF InUse
  <2> QED
    BY <2>1, <2>2
<1> HIDE DEF g
<1>4. g \in Bijection(InUse, Resident)
  BY <1>1, <1>2, <1>3 DEF Bijection, Injection, Surjection, IsInjective
<1>5. ExistsBijection(InUse, Resident)
  BY <1>4 DEF ExistsBijection
<1>6. IsFiniteSet(Resident) /\ Cardinality(Resident) = Cardinality(InUse)
  BY <1>5, InUseFinite, FS_Bijection
<1>7. IsFiniteSet(Frame) /\ Cardinality(Frame) = memsize /\ InUse \in SUBSET Frame
  BY FS_Interval DEF Frame, InUse
<1>8. Cardinality(InUse) <= memsize /\ (Cardinality(InUse) = memsize => InUse = Frame)
  BY <1>7, FS_Subset
<1>9. FreeFrames = {} <=> InUse = Frame
  BY DEF FreeFrames, InUse
<1>10. FreeFrames = {} <=> Cardinality(Resident) = memsize
  BY <1>6, <1>7, <1>8, <1>9
<1>11. Resident \in SUBSET Page
  BY DEF Resident
<1> QED
  BY <1>6, <1>8, <1>10, <1>11 DEF Memory

(* Without headers the head of the list is the line being replayed, and    *)
(* each node is its line.                                                  *)
LEMMA HeadIsPos ==
    ASSUME ListInv, NoHeaders
    PROVE  head = pos
<1>1. HeadersRead = {}
  BY TraceAssumption DEF HeadersRead, NoHeaders, ListInv
<1>2. pos - head = 0
  BY <1>1, FS_EmptySet DEF ListInv
<1> QED
  BY <1>2 DEF ListInv

LEMMA NodeIsLine ==
    ASSUME NoHeaders, NEW i \in 1 .. MaxRefs
    PROVE  Node(i) = trace[i]
<1> DEFINE before == {j \in 1 .. i : trace[j] # Header}
<1>1. before = 1 .. i
  BY TraceAssumption DEF NoHeaders
<1>2. (CHOOSE j \in before : \A k \in before : k <= j) = i
  <2>1. i \in before /\ \A k \in before : k <= i
    BY <1>1
  <2>2. \A j \in before : (\A k \in before : k <= j) => j = i
    BY <1>1
  <2> HIDE DEF before
  <2> QED
    BY <2>1, <2>2
<1>3. before # {}
  BY <1>1
<1> QED
  BY <1>2, <1>3 DEF Node

(* The address in the frame of a page in memory is that of the page. *)
LEMMA UsesAhead ==
    ASSUME MemoryInv, ListInv, NoHeaders, NEW f \in Frame, coremap[f] # NoPage
    PROVE  NextUses(f) = {i \in pos + 1 .. MaxRefs : trace[i] = coremap[f]}
<1>1. head = pos /\ pos \in 1 .. MaxRefs + 1
  BY HeadIsPos DEF ListInv
<1>2. Len(trace) = MaxRefs
  BY TraceLength DEF ListInv
<1>3. physmem[pte[coremap[f]].frame].vaddr = coremap[f]
  BY DEF MemoryInv, TypeOK, CoremapMatchesPageTable, PageHoldsItsAddress
<1>4. \A i \in pos + 1 .. MaxRefs : Node(i) = trace[i]
  <2>1. \A i \in pos + 1 .. MaxRefs : i \in 1 .. MaxRefs
    BY <1>1
  <2> QED
    BY <2>1, NodeIsLine
<1>5. NextUses(f) = {i \in pos + 1 .. MaxRefs : Node(i) = coremap[f]}
  BY <1>1, <1>2, <1>3 DEF NextUses
<1> QED
  BY <1>4, <1>5

(* Every other page in memory is used before the victim of opt_evict is. *)
LEMMA VictimUsedLast ==
    ASSUME MemoryInv, ListInv, NoHeaders, FreeFrames = {}, NEW f \in Frame, opt_evict(f),
           NEW u \in Resident \ {coremap[f]}
    PROVE  Sooner(pos + 1, u, coremap[f])
<1> DEFINE v == coremap[f]
           g == pte[u].frame
<1>1. g \in Frame /\ coremap[g] = u /\ u # v
  BY DEF Resident, MemoryInv, TypeOK, Entry, CoremapMatchesPageTable
<1>2. coremap[f] # NoPage /\ coremap[g] # NoPage
  BY <1>1 DEF FreeFrames
<1>3. NextUses(f) = {i \in pos + 1 .. MaxRefs : trace[i] = v}
  BY <1>2, UsesAhead
<1>4. NextUses(g) = {i \in pos + 1 .. MaxRefs : trace[i] = u}
  BY <1>1, <1>2, UsesAhead
<1>5. pos \in Nat
  BY DEF ListInv
<1> HIDE DEF g
<1>6. CASE NextUses(f) = {}
  BY <1>3, <1>6 DEF Sooner
<1>7. CASE NextUses(f) # {}
  <2>1. /\ \A e \in Frame : NextUses(e) # {}
        /\ \A e \in Frame : Distance(f) >= Distance(e)
    BY <1>7 DEF opt_evict
  <2>2. ASSUME NEW e \in Frame, NextUses(e) \subseteq Nat
        PROVE  Distance(e) \in NextUses(e) /\ \A i \in NextUses(e) : Distance(e) <= i
    <3>1. \E i \in NextUses(e) : \A j \in NextUses(e) : i <= j
      BY <2>1, <2>2, LeastNumber
    <3> QED
      BY <3>1 DEF Distance
  <2>3. NextUses(f) \subseteq Nat /\ NextUses(g) \subseteq Nat
    BY <1>3, <1>4, <1>5
  <2>4. /\ Distance(f) \in NextUses(f) /\ \A i \in NextUses(f) : Distance(f) <= i
        /\ Distance(g) \in NextUses(g)
    BY <1>1, <2>2, <2>3
  <2>5. Distance(g) <= Distance(f) /\ Distance(g) # Distance(f)
    BY <1>1, <1>3, <1>4, <2>1, <2>4
  <2> DEFINE k == Distance(g)
  <2>6. k \in pos + 1 .. MaxRefs /\ trace[k] = u
    BY <1>4, <2>4
  <2> HIDE DEF k
  <2>7. ASSUME NEW j \in pos + 1 .. MaxRefs, trace[j] = v
        PROVE  \E i \in pos + 1 .. j - 1 : trace[i] = u
    <3>1. j \in NextUses(f)
      BY <1>3, <2>7
    <3>2. Distance(f) <= j /\ Distance(f) \in Nat
      BY <2>3, <2>4, <3>1
    <3>3. k < j
      BY <1>5, <2>5, <2>6, <3>2 DEF k
    <3>4. k \in pos + 1 .. j - 1
      BY <1>5, <2>6, <3>3
    <3> QED
      BY <2>6, <3>4
  <2> QED
    BY <2>7 DEF Sooner
<1> QED
  BY <1>6, <1>7

LEMMA FewestStays ==
    ASSUME trace' = trace
    PROVE  Fewest' = Fewest
BY DEF Fewest, FewestFrom

(* The misses so far and the fewest still to come. *)
Optimal == NoHeaders /\ halted = "no" => stats.miss + Fewest[pos][Resident] = Fewest[1][{}]

LEMMA HitCosts ==
    ASSUME MemoryInv, NEW type, NEW p \in Page, Hit(type, p)
    PROVE  p \in Resident /\ Resident' = Resident /\ stats'.miss = stats.miss
<1>1. /\ pte' = [pte EXCEPT ![p] = Referenced(pte[p], type)] /\ pte \in [Page -> Entry]
      /\ pte[p].valid /\ stats' = CountHit
  BY DEF Hit, MemoryInv, TypeOK
<1>2. \A q \in Page : pte'[q].valid <=> pte[q].valid
  BY <1>1, ReferencedFields
<1> QED
  BY <1>1, <1>2, CountHitType DEF Resident, MemoryInv, TypeOK

LEMMA MissCosts ==
    ASSUME MemoryInv, NEW type, NEW p \in Page, NEW f \in Frame, NEW cleared,
           Miss(type, p, f, cleared)
    PROVE  /\ p \notin Resident /\ stats'.miss = stats.miss + 1
           /\ Resident' = (Resident \ {coremap[f]}) \cup {p}
<1>1. PICK slot \in Slot \cup {INVALID_SWAP} :
          /\ ~pte[p].valid
          /\ pte' = AfterMiss(p, type, f, cleared, slot)
          /\ stats' = CountMiss(f)
  BY DEF Miss, MissNew, MissSwapped
<1>2. Missed(p, type, f, slot, pte')
  BY <1>1, MissTable DEF MemoryInv
<1>3. \A q \in Page : q \in Resident' <=> q = p \/ (q \in Resident /\ q # coremap[f])
  BY <1>2 DEF Missed, Resident
<1>4. Resident' \subseteq Page /\ Resident \subseteq Page /\ p \notin Resident
  BY <1>1 DEF Resident
<1>5. stats'.miss = stats.miss + 1
  BY <1>1, CountMissType DEF MemoryInv, TypeOK
<1> QED
  BY <1>3, <1>4, <1>5

LEMMA OptimalStep ==
    ASSUME MemoryInv, ListInv, Optimal, [Next]_optvars
    PROVE  Optimal'
<1>1. trace' = trace
  BY DEF Next, SkipHeader, Reference, optvars
<1> SUFFICES ASSUME NoHeaders, halted' = "no"
             PROVE  stats'.miss + (Fewest[pos][Resident])' = (Fewest[1][{}])'
  BY <1>1 DEF Optimal, NoHeaders
<1> DEFINE g == Fewest
<1>2. Fewest' = g
  BY <1>1, FewestStays
<1>3. pos \in 1 .. MaxRefs + 1 /\ trace \in [1 .. MaxRefs -> Page] /\ Len(trace) = MaxRefs
  BY TraceLength DEF ListInv, NoHeaders
<1>4. Resident \in Memory /\ (FreeFrames = {} <=> Cardinality(Resident) = memsize)
  BY ResidentSize DEF MemoryInv
<1>5. stats.miss \in Nat
  BY DEF MemoryInv, TypeOK, Counters
<1>6. ASSUME NEW type \in AccessType, NEW p \in Page, Reference(type, p)
      PROVE  stats'.miss + g[pos'][Resident'] = g[1][{}]
  <2>1. pos \in 1 .. MaxRefs /\ trace[pos] = p /\ pos' = pos + 1 /\ pos + 1 \in 1 .. MaxRefs + 1
    BY <1>3, <1>6 DEF Reference, Reads
  <2>2. CASE Hit(type, p)
    <3>1. /\ p \in Resident /\ Resident' = Resident /\ stats'.miss = stats.miss
          /\ halted = "no"
      BY <2>2, HitCosts DEF Hit, CanAccess
    <3>2. g[pos][Resident] = g[pos + 1][Resident]
      BY <1>4, <2>1, <3>1, FewestHit DEF Memory
    <3>3. stats.miss + g[pos][Resident] = g[1][{}]
      BY <3>1 DEF Optimal
    <3> HIDE DEF g
    <3> QED
      BY <2>1, <3>1, <3>2, <3>3
  <2>3. ASSUME NEW f \in Frame, Miss(type, p, f, {}), FreeFrames = {} => opt_evict(f)
        PROVE  stats'.miss + g[pos'][Resident'] = g[1][{}]
    <3>1. /\ p \notin Resident /\ stats'.miss = stats.miss + 1
          /\ Resident' = (Resident \ {coremap[f]}) \cup {p}
      BY <2>3, MissCosts
    <3>2. halted = "no"
      BY <2>3 DEF Miss, MissNew, MissSwapped, CanAccess
    <3>3. stats.miss + g[pos][Resident] = g[1][{}]
      BY <3>2 DEF Optimal
    <3>4. g[pos + 1][Resident'] \in Nat
      <4>1. Number(pos + 1)
        BY <2>1, FewestOrdered
      <4>2. CASE FreeFrames # {}
        <5>1. Cardinality(Resident) < memsize
          BY <1>4, <4>2, FS_CardinalityType DEF Memory
        <5>2. Resident \cup {p} \in Memory
          BY <1>4, <5>1, Added
        <5>3. Resident' = (Resident \cup {p}) \ {coremap[f]} \/ Resident' = Resident \cup {p}
          BY <3>1
        <5>4. Resident' \in Memory
          BY <5>2, <5>3, Removed
        <5> QED
          BY <4>1, <5>4 DEF Number
      <4>3. CASE FreeFrames = {}
        <5>1. coremap[f] \in Resident
          BY <4>3 DEF FreeFrames, Resident, MemoryInv, TypeOK, CoremapMatchesPageTable
        <5>2. Resident' \in Memory
          BY <1>4, <3>1, <5>1, Exchanged
        <5> QED
          BY <4>1, <5>2 DEF Number
      <4> QED
        BY <4>2, <4>3
    <3>5. g[pos][Resident] = 1 + g[pos + 1][Resident']
      <4>1. CASE FreeFrames # {}
        <5>1. coremap[f] = NoPage
          BY <2>3, <4>1 DEF Miss, MissNew, MissSwapped, allocate_frame, FirstFree, FreeFrames
        <5>2. Resident' = Resident \cup {p}
          BY <1>4, <3>1, <5>1, MemoryAssumption DEF Memory
        <5>3. Cardinality(Resident) < memsize
          BY <1>4, <4>1, FS_CardinalityType DEF Memory
        <5> QED
          BY <1>4, <2>1, <3>1, <5>2, <5>3, FewestFill
      <4>2. CASE FreeFrames = {}
        <5>1. coremap[f] \in Resident
          BY <4>2 DEF FreeFrames, Resident, MemoryInv, TypeOK, CoremapMatchesPageTable
        <5>2. \A u \in Resident \ {coremap[f]} : Sooner(pos + 1, u, coremap[f])
          BY <2>3, <4>2, VictimUsedLast
        <5> QED
          BY <1>4, <2>1, <3>1, <4>2, <5>1, <5>2, LastUsedIsBest
      <4> QED
        BY <4>1, <4>2
    <3> HIDE DEF g
    <3> QED
      BY <1>5, <2>1, <3>1, <3>3, <3>4, <3>5
  <2> QED
    BY <1>6, <2>2, <2>3 DEF Reference
<1>7. ~SkipHeader
  BY <1>3, TraceAssumption DEF SkipHeader, Reads
<1>8. ASSUME NEW p, Die(p)
      PROVE  FALSE
  BY <1>8 DEF Die
<1>9. CASE UNCHANGED optvars
  <2>1. Resident' = Resident /\ pos' = pos /\ stats' = stats /\ halted' = halted
    BY <1>9 DEF optvars, vars, Resident
  <2>2. stats.miss + g[pos][Resident] = g[1][{}]
    BY <2>1 DEF Optimal
  <2> HIDE DEF g
  <2> QED
    BY <1>2, <2>1, <2>2
<1>10. stats'.miss + g[pos'][Resident'] = g[1][{}] => stats'.miss + (Fewest[pos][Resident])' = (Fewest[1][{}])'
  BY <1>2
<1> HIDE DEF g
<1> QED
  BY <1>6, <1>7, <1>8, <1>9, <1>10 DEF Next

(* opt.c is "the optimal (aka MIN) algorithm": on every trace without      *)
(* headers, with any number of pages and frames, no eviction of it ever    *)
(* costs a miss.                                                           *)
THEOREM OptCorrect == Spec => []OptIsOptimal
<1>1. Init => Optimal
  <2> SUFFICES ASSUME Init PROVE Optimal
    OBVIOUS
  <2>1. pos = 1 /\ stats.miss = 0
    BY DEF Init, MemoryInit
  <2>2. Resident = {}
    BY DEF Init, MemoryInit, Resident, Unmapped
  <2>3. NoHeaders => Fewest[1][{}] \in Nat
    <3>1. 1 \in 1 .. MaxRefs + 1 /\ {} \in Memory
      BY FS_EmptySet DEF Memory
    <3> QED
      BY <3>1, FewestOrdered DEF Number
  <2> QED
    BY <2>1, <2>2, <2>3 DEF Optimal
<1>2. MemoryInv /\ ListInv /\ Optimal /\ [Next]_optvars => Optimal'
  BY OptimalStep
<1>3. ListInv /\ Optimal => OptIsOptimal
  <2> SUFFICES ASSUME ListInv, Optimal, \A i \in DOMAIN trace : trace[i] # Header, halted = "no"
               PROVE  stats.miss + Fewest[pos][Resident] = Fewest[1][{}]
    BY DEF OptIsOptimal
  <2>1. NoHeaders
    BY DEF NoHeaders, ListInv, Line
  <2> QED
    BY <2>1 DEF Optimal
<1> QED
  BY <1>1, <1>2, <1>3, OptImplementsMemory, Invariance, ListInvariance, PTL DEF Spec
=============================================================================
