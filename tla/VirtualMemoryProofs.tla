------------------------ MODULE VirtualMemoryProofs ------------------------
(* Theorems about VirtualMemory, for any pages, frames, slots and victims. *)
EXTENDS VirtualMemory, FiniteSetTheorems, WellFoundedInduction, TLAPS

USE MemoryAssumption DEF INVALID_SWAP

-----------------------------------------------------------------------------
(* Induction over an interval of numbers, for a predicate given as a set. *)

LEMMA LeastNumber ==
    ASSUME NEW T \in SUBSET Nat, T # {}
    PROVE  \E x \in T : \A y \in T : x <= y
<1> DEFINE Less == {ss \in Nat \X Nat : ss[1] < ss[2]}
<1>1. \A y, x \in Nat : y < x => <<y, x>> \in Less
  OBVIOUS
<1>2. IsWellFoundedOn(Less, Nat)
  BY NatLessThanWellFounded DEF OpToRel
<1> HIDE DEF Less
<1>3. PICK x \in T : \A y \in T : ~(<<y, x>> \in Less)
  BY <1>2, WFMin
<1>4. ASSUME NEW y \in T
      PROVE  x <= y
  <2>1. x \in Nat /\ y \in Nat /\ ~(y < x)
    BY <1>1, <1>3
  <2> QED
    BY <2>1
<1> QED
  BY <1>4

LEMMA Induction ==
    ASSUME NEW m \in Nat, NEW T, 0 \in T,
           \A n \in 0 .. m - 1 : n \in T => n + 1 \in T
    PROVE  0 .. m \subseteq T
<1> SUFFICES ASSUME NEW k \in 0 .. m, k \notin T PROVE FALSE
  OBVIOUS
<1> DEFINE F == {n \in 0 .. m : n \notin T}
<1>1. PICK x \in F : \A y \in F : x <= y
  <2>1. F \in SUBSET Nat /\ F # {}
    OBVIOUS
  <2> HIDE DEF F
  <2> QED
    BY <2>1, LeastNumber
<1>2. x \in 1 .. m /\ x \notin T
  OBVIOUS
<1>3. x - 1 \in 0 .. m - 1 /\ x - 1 \in T
  BY <1>1, <1>2
<1>4. (x - 1) + 1 = x
  BY <1>2
<1> QED
  BY <1>2, <1>3, <1>4

-----------------------------------------------------------------------------
(* What the helpers make of a page table entry and of a page's bytes. *)

LEMMA MappedFields ==
    ASSUME NEW entry \in Entry, NEW f \in Frame, NEW type
    PROVE  /\ Mapped(entry, f, type) \in Entry
           /\ Mapped(entry, f, type).frame = f
           /\ Mapped(entry, f, type).valid
           /\ ~Mapped(entry, f, type).onswap
           /\ Mapped(entry, f, type).swap_off = entry.swap_off
           /\ Mapped(entry, f, type).dirty <=> (~entry.onswap \/ Writes(type))
BY DEF Mapped, Entry, Writes

LEMMA ReferencedFields ==
    ASSUME NEW entry \in Entry, NEW type
    PROVE  /\ Referenced(entry, type) \in Entry
           /\ Referenced(entry, type).frame = entry.frame
           /\ Referenced(entry, type).valid <=> entry.valid
           /\ Referenced(entry, type).onswap <=> entry.onswap
           /\ Referenced(entry, type).swap_off = entry.swap_off
           /\ Referenced(entry, type).dirty <=> (entry.dirty \/ Writes(type))
BY DEF Referenced, Entry, Writes

LEMMA EvictedFields ==
    ASSUME NEW entry \in Entry, NEW slot \in Slot \cup {INVALID_SWAP}
    PROVE  /\ EvictedDirty(entry, slot) \in Entry
           /\ ~EvictedDirty(entry, slot).valid
           /\ EvictedDirty(entry, slot).onswap
           /\ EvictedDirty(entry, slot).swap_off = slot
           /\ EvictedClean(entry) \in Entry
           /\ ~EvictedClean(entry).valid
           /\ EvictedClean(entry).onswap <=> entry.onswap
           /\ EvictedClean(entry).swap_off = entry.swap_off
BY DEF EvictedDirty, EvictedClean, Entry

LEMMA IncrementFields ==
    ASSUME NEW bytes \in Bytes, NEW type
    PROVE  /\ Increment(bytes, type) \in Bytes
           /\ Increment(bytes, type).vaddr = bytes.vaddr
           /\ ~Writes(type) => Increment(bytes, type) = bytes
           /\ Increment(bytes, type).version =
                 IF Writes(type) THEN bytes.version + 1 ELSE bytes.version
BY DEF Increment, Bytes

LEMMA UnreferencedFields ==
    ASSUME NEW entry \in Entry
    PROVE  /\ Unreferenced(entry) \in Entry
           /\ Unreferenced(entry).frame = entry.frame
           /\ Unreferenced(entry).valid = entry.valid
           /\ Unreferenced(entry).dirty = entry.dirty
           /\ Unreferenced(entry).onswap = entry.onswap
           /\ Unreferenced(entry).swap_off = entry.swap_off
BY DEF Unreferenced, Entry

-----------------------------------------------------------------------------
(* Functions updated at one point or everywhere stay in their type. *)

LEMMA UpdateType ==
    ASSUME NEW A, NEW B, NEW g \in [A -> B], NEW x, NEW v, x \in A => v \in B
    PROVE  [g EXCEPT ![x] = v] \in [A -> B]
OBVIOUS

LEMMA CountMissType ==
    ASSUME stats \in Counters, NEW f
    PROVE  /\ CountMiss(f) \in Counters
           /\ CountMiss(f).ref = stats.ref + 1
           /\ CountMiss(f).hit = stats.hit
           /\ CountMiss(f).miss = stats.miss + 1
           /\ CountMiss(f).clean + CountMiss(f).dirty =
                 IF coremap[f] = NoPage THEN stats.clean + stats.dirty
                 ELSE stats.clean + stats.dirty + 1
<1>1. /\ stats.clean \in Nat /\ stats.dirty \in Nat /\ stats.ref \in Nat
      /\ stats.miss \in Nat /\ stats.hit \in Nat
  BY DEF Counters
<1>2. CountMiss(f).ref = stats.ref + 1 /\ CountMiss(f).hit = stats.hit
         /\ CountMiss(f).miss = stats.miss + 1
  BY DEF CountMiss
<1>3. /\ CountMiss(f).clean \in Nat /\ CountMiss(f).dirty \in Nat
      /\ CountMiss(f).clean + CountMiss(f).dirty =
            IF coremap[f] = NoPage THEN stats.clean + stats.dirty
            ELSE stats.clean + stats.dirty + 1
  BY <1>1 DEF CountMiss, Evicts
<1>4. CountMiss(f) \in Counters
  BY <1>1, <1>3 DEF CountMiss, Counters
<1> QED
  BY <1>2, <1>3, <1>4

LEMMA CountHitType ==
    ASSUME stats \in Counters
    PROVE  /\ CountHit \in Counters
           /\ CountHit.ref = stats.ref + 1
           /\ CountHit.hit = stats.hit + 1
           /\ CountHit.miss = stats.miss
           /\ CountHit.clean = stats.clean /\ CountHit.dirty = stats.dirty
BY DEF Counters, CountHit

(* What allocate_frame does to swap, whatever frame it gives. *)
LEMMA AllocateSwap ==
    ASSUME TypeOK, NEW f \in Frame, NEW slot \in Slot \cup {INVALID_SWAP},
           allocate_frame(f, slot)
    PROVE  /\ swapmap' \subseteq Slot
           /\ swapmap \subseteq swapmap'
           /\ swapfile' \in [Slot -> Bytes]
           /\ complained' \in BOOLEAN
           /\ complained => complained'
<1>1. CASE UNCHANGED <<swapmap, swapfile, complained>>
  BY <1>1 DEF TypeOK
<1>2. CASE /\ coremap[f] # NoPage
           /\ swap_pageout(pte[coremap[f]].frame, pte[coremap[f]].swap_off, slot)
  <2>1. swapmap' \subseteq Slot /\ swapmap \subseteq swapmap'
    BY <1>2 DEF TypeOK, swap_pageout, FirstClear
  <2>2. complained' \in BOOLEAN /\ (complained => complained')
    <3>1. complained \in BOOLEAN
      BY DEF TypeOK
    <3>2. complained' = complained \/ complained' = TRUE
      BY <1>2 DEF swap_pageout
    <3> QED
      BY ONLY <3>1, <3>2, Zenon
  <2>3. coremap[f] \in Page
    BY <1>2 DEF TypeOK
  <2>4. pte[coremap[f]].frame \in Frame
    BY <2>3 DEF TypeOK, Entry
  <2>5. physmem[pte[coremap[f]].frame] \in Bytes
    BY <2>4 DEF TypeOK
  <2>6. [swapfile EXCEPT ![slot] = physmem[pte[coremap[f]].frame]] \in [Slot -> Bytes]
    BY <2>5, UpdateType DEF TypeOK
  <2> QED
    BY <1>2, <2>1, <2>2, <2>6 DEF swap_pageout, TypeOK
<1>3. FreeFrames = {} => coremap[f] # NoPage
  BY DEF FreeFrames
<1> QED
  BY <1>1, <1>2, <1>3 DEF allocate_frame

(* The page table that allocate_frame leaves: the entries of other pages   *)
(* keep all but their REF bit, the victim's is as EvictedFields says.      *)
LEMMA AllocateTable ==
    ASSUME TypeOK, NEW f \in Frame, NEW cleared, NEW slot \in Slot \cup {INVALID_SWAP}
    PROVE  /\ AfterAllocate(f, cleared, slot) \in [Page -> Entry]
           /\ \A q \in Page : q # coremap[f] =>
                 /\ AfterAllocate(f, cleared, slot)[q].frame = pte[q].frame
                 /\ AfterAllocate(f, cleared, slot)[q].valid = pte[q].valid
                 /\ AfterAllocate(f, cleared, slot)[q].dirty = pte[q].dirty
                 /\ AfterAllocate(f, cleared, slot)[q].onswap = pte[q].onswap
                 /\ AfterAllocate(f, cleared, slot)[q].swap_off = pte[q].swap_off
           /\ coremap[f] \in Page =>
                 AfterAllocate(f, cleared, slot)[coremap[f]] =
                     IF pte[coremap[f]].dirty THEN EvictedDirty(pte[coremap[f]], slot)
                     ELSE EvictedClean(pte[coremap[f]])
<1> DEFINE after(q) == IF q # coremap[f]
                       THEN IF q \in cleared THEN Unreferenced(pte[q]) ELSE pte[q]
                       ELSE IF pte[q].dirty THEN EvictedDirty(pte[q], slot)
                       ELSE EvictedClean(pte[q])
<1>1. AfterAllocate(f, cleared, slot) = [q \in Page |-> after(q)]
  BY DEF AfterAllocate
<1>2. ASSUME NEW q \in Page, q # coremap[f]
      PROVE  /\ after(q) \in Entry
             /\ after(q).frame = pte[q].frame
             /\ after(q).valid = pte[q].valid
             /\ after(q).dirty = pte[q].dirty
             /\ after(q).onswap = pte[q].onswap
             /\ after(q).swap_off = pte[q].swap_off
  <2>1. pte[q] \in Entry
    BY DEF TypeOK
  <2> QED
    BY <1>2, <2>1, UnreferencedFields
<1>3. ASSUME NEW q \in Page, q = coremap[f]
      PROVE  /\ after(q) \in Entry
             /\ after(q) = IF pte[q].dirty THEN EvictedDirty(pte[q], slot)
                           ELSE EvictedClean(pte[q])
  <2>1. pte[q] \in Entry
    BY DEF TypeOK
  <2> QED
    BY <1>3, <2>1, EvictedFields
<1> HIDE DEF after
<1>4. \A q \in Page : after(q) \in Entry
  BY <1>2, <1>3
<1> QED
  BY <1>1, <1>2, <1>3, <1>4

(* The three outcomes for swap: nothing written, no slot to write to, and  *)
(* the victim's bytes in its own slot or in one that was free.             *)
LEMMA AllocateWrites ==
    ASSUME TypeOK, CoremapMatchesPageTable, SlotsBelongToOnePage, NEW f \in Frame,
           NEW slot \in Slot \cup {INVALID_SWAP}, allocate_frame(f, slot)
    PROVE  LET v == coremap[f]
           IN  \/ /\ v = NoPage \/ (v \in Page /\ ~pte[v].dirty)
                  /\ UNCHANGED <<swapmap, swapfile, complained>>
               \/ /\ v \in Page /\ pte[v].dirty
                  /\ slot = INVALID_SWAP
                  /\ swapfile' = swapfile
                  /\ complained'
               \/ /\ v \in Page /\ pte[v].dirty
                  /\ slot \in Slot /\ slot \in swapmap'
                  /\ slot = pte[v].swap_off \/ slot \notin swapmap
                  /\ swapfile' = [swapfile EXCEPT ![slot] = physmem[f]]
<1>1. CASE FirstFree(f) /\ UNCHANGED <<swapmap, swapfile, complained>>
  BY <1>1 DEF FirstFree, FreeFrames
<1>2. CASE FreeFrames = {} /\ ~pte[coremap[f]].dirty
             /\ UNCHANGED <<swapmap, swapfile, complained>>
  BY <1>2 DEF FreeFrames, TypeOK
<1>3. CASE FreeFrames = {} /\ pte[coremap[f]].dirty
             /\ swap_pageout(pte[coremap[f]].frame, pte[coremap[f]].swap_off, slot)
  <2>1. coremap[f] \in Page
    BY <1>3 DEF FreeFrames, TypeOK
  <2>2. pte[coremap[f]].frame = f
    BY <2>1 DEF CoremapMatchesPageTable
  <2>3. swap_pageout(f, pte[coremap[f]].swap_off, slot)
    BY <1>3, <2>2
  <2>4. pte[coremap[f]].swap_off \in Slot => pte[coremap[f]].swap_off # INVALID_SWAP
    BY DEF Slot
  <2>5. CASE slot = INVALID_SWAP
    <3>1. slot \notin Slot
      BY <2>5 DEF Slot
    <3>2. swapfile' = swapfile /\ complained' = TRUE
      BY <2>3, <3>1 DEF swap_pageout, FirstClear
    <3> QED
      BY <1>3, <2>1, <2>5, <3>2
  <2>6. CASE slot \in Slot
    <3>1. slot # INVALID_SWAP
      BY <2>6 DEF Slot
    <3>2. /\ \/ pte[coremap[f]].swap_off \in Slot /\ slot = pte[coremap[f]].swap_off
                  /\ swapmap' = swapmap
             \/ FirstClear(slot) /\ swapmap' = swapmap \cup {slot}
          /\ swapfile' = [swapfile EXCEPT ![slot] = physmem[f]]
      BY <2>3, <3>1 DEF swap_pageout
    <3>3. slot \in swapmap' /\ (slot = pte[coremap[f]].swap_off \/ slot \notin swapmap)
      BY <2>1, <3>1, <3>2 DEF FirstClear, SlotsBelongToOnePage
    <3> QED
      BY <1>3, <2>1, <2>6, <3>2, <3>3
  <2> QED
    BY <2>5, <2>6
<1> QED
  BY <1>1, <1>2, <1>3 DEF allocate_frame

(* What a miss of p that is given frame f makes of the page table. *)
Missed(p, type, f, slot, table) ==
    /\ table \in [Page -> Entry]
    /\ p # coremap[f]
    /\ table[p].frame = f
    /\ table[p].valid
    /\ ~table[p].onswap
    /\ table[p].swap_off = pte[p].swap_off
    /\ table[p].dirty <=> (~pte[p].onswap \/ Writes(type))
    /\ \A q \in Page : q # p /\ q # coremap[f] =>
          /\ table[q].frame = pte[q].frame
          /\ table[q].valid = pte[q].valid
          /\ table[q].dirty = pte[q].dirty
          /\ table[q].onswap = pte[q].onswap
          /\ table[q].swap_off = pte[q].swap_off
    /\ coremap[f] \in Page =>
          /\ ~table[coremap[f]].valid
          /\ pte[coremap[f]].dirty =>
                table[coremap[f]].onswap /\ table[coremap[f]].swap_off = slot
          /\ ~pte[coremap[f]].dirty =>
                /\ table[coremap[f]].onswap <=> pte[coremap[f]].onswap
                /\ table[coremap[f]].swap_off = pte[coremap[f]].swap_off

LEMMA MissTable ==
    ASSUME TypeOK, CoremapMatchesPageTable,
           NEW p \in Page, ~pte[p].valid, NEW type,
           NEW f \in Frame, NEW cleared, NEW slot \in Slot \cup {INVALID_SWAP},
           NEW table, table = AfterMiss(p, type, f, cleared, slot)
    PROVE  Missed(p, type, f, slot, table)
<1> DEFINE after == AfterAllocate(f, cleared, slot)
<1>1. p # coremap[f]
  BY DEF CoremapMatchesPageTable, TypeOK
<1>2. /\ after \in [Page -> Entry]
      /\ \A q \in Page : q # coremap[f] =>
            /\ after[q].frame = pte[q].frame
            /\ after[q].valid = pte[q].valid
            /\ after[q].dirty = pte[q].dirty
            /\ after[q].onswap = pte[q].onswap
            /\ after[q].swap_off = pte[q].swap_off
      /\ coremap[f] \in Page =>
            after[coremap[f]] = IF pte[coremap[f]].dirty
                                THEN EvictedDirty(pte[coremap[f]], slot)
                                ELSE EvictedClean(pte[coremap[f]])
  BY AllocateTable
<1> HIDE DEF after
<1>3. /\ Mapped(after[p], f, type) \in Entry
      /\ Mapped(after[p], f, type).frame = f
      /\ Mapped(after[p], f, type).valid
      /\ ~Mapped(after[p], f, type).onswap
      /\ Mapped(after[p], f, type).swap_off = after[p].swap_off
      /\ Mapped(after[p], f, type).dirty <=> (~after[p].onswap \/ Writes(type))
  BY <1>2, MappedFields
<1>4. table = [after EXCEPT ![p] = Mapped(after[p], f, type)]
  BY DEF AfterMiss, after
<1>5. table[p] = Mapped(after[p], f, type) /\ \A q \in Page \ {p} : table[q] = after[q]
  BY <1>2, <1>4
<1>6. table \in [Page -> Entry]
  BY ONLY <1>2, <1>3, <1>4, UpdateType
<1>7. after[p].swap_off = pte[p].swap_off /\ after[p].onswap = pte[p].onswap
  BY <1>1, <1>2
<1>8. coremap[f] \in Page =>
         /\ ~table[coremap[f]].valid
         /\ pte[coremap[f]].dirty =>
               table[coremap[f]].onswap /\ table[coremap[f]].swap_off = slot
         /\ ~pte[coremap[f]].dirty =>
               /\ table[coremap[f]].onswap <=> pte[coremap[f]].onswap
               /\ table[coremap[f]].swap_off = pte[coremap[f]].swap_off
  <2>1. coremap[f] \in Page => pte[coremap[f]] \in Entry
    BY DEF TypeOK
  <2>2. coremap[f] \in Page => table[coremap[f]] = after[coremap[f]]
    BY <1>1, <1>5
  <2>3. CASE coremap[f] \in Page /\ pte[coremap[f]].dirty
    <3>1. table[coremap[f]] = EvictedDirty(pte[coremap[f]], slot)
      BY <1>2, <2>2, <2>3
    <3>2. /\ ~EvictedDirty(pte[coremap[f]], slot).valid
          /\ EvictedDirty(pte[coremap[f]], slot).onswap
          /\ EvictedDirty(pte[coremap[f]], slot).swap_off = slot
      BY <2>1, <2>3, EvictedFields
    <3> QED
      BY <2>3, <3>1, <3>2
  <2>4. CASE coremap[f] \in Page /\ ~pte[coremap[f]].dirty
    BY <1>2, <2>1, <2>2, <2>4, EvictedFields
  <2> QED
    BY <2>3, <2>4
<1> QED
  BY <1>1, <1>2, <1>3, <1>5, <1>6, <1>7, <1>8 DEF Missed

-----------------------------------------------------------------------------
(* The inductive invariant.  None of the parts after TypeOK is inductive   *)
(* alone: the bytes of a page can only be followed while no other page     *)
(* shares its frame or its slot, and a clean page only while its slot is   *)
(* its own.                                                                *)
MemoryInv ==
    /\ TypeOK
    /\ CoremapMatchesPageTable
    /\ SlotsBelongToOnePage
    /\ PageHoldsItsAddress
    /\ CleanPageIsOnSwap

(* Writing the victim to swap leaves the slots of the other pages alone. *)
LEMMA SlotsKept ==
    ASSUME MemoryInv, NEW f \in Frame, NEW slot \in Slot \cup {INVALID_SWAP},
           allocate_frame(f, slot),
           NEW q \in Page, q # coremap[f] \/ ~pte[q].dirty, pte[q].swap_off # INVALID_SWAP
    PROVE  /\ swapfile'[pte[q].swap_off] = swapfile[pte[q].swap_off]
           /\ pte[q].swap_off \in Slot
           /\ q # coremap[f] /\ coremap[f] \in Page /\ pte[coremap[f]].dirty =>
                 pte[q].swap_off # slot
<1>1. pte[q].swap_off \in Slot
  BY DEF MemoryInv, TypeOK, Entry
<1>2. pte[q].swap_off \in swapmap
  BY DEF MemoryInv, SlotsBelongToOnePage
<1>3. CASE swapfile' = swapfile /\ ~(coremap[f] \in Page /\ pte[coremap[f]].dirty)
  BY <1>1, <1>3
<1>4. CASE swapfile' = swapfile /\ slot = INVALID_SWAP
  BY <1>1, <1>4
<1>5. CASE /\ coremap[f] \in Page /\ pte[coremap[f]].dirty
           /\ slot = pte[coremap[f]].swap_off \/ slot \notin swapmap
           /\ swapfile' = [swapfile EXCEPT ![slot] = physmem[f]]
  <2>1. q # coremap[f]
    BY <1>5
  <2>2. pte[q].swap_off # slot
    BY <1>2, <1>5, <2>1 DEF MemoryInv, SlotsBelongToOnePage
  <2> QED
    BY <1>1, <1>5, <2>2 DEF MemoryInv, TypeOK
<1>6. coremap[f] \in Page => coremap[f] # NoPage
  OBVIOUS
<1> QED
  BY <1>3, <1>4, <1>5, <1>6, AllocateWrites DEF MemoryInv

(* A miss that fills its frame with bytes keeps the invariant, provided    *)
(* they are the page's own, and its slot has them if it comes from swap.   *)
LEMMA MissInv ==
    ASSUME MemoryInv, NEW p \in Page, ~pte[p].valid, NEW type,
           NEW f \in Frame, NEW cleared, NEW slot \in Slot \cup {INVALID_SWAP},
           allocate_frame(f, slot),
           coremap' = [coremap EXCEPT ![f] = p],
           pte' = AfterMiss(p, type, f, cleared, slot),
           NEW bytes \in Bytes, bytes.vaddr = p,
           pte[p].onswap =>
               pte[p].swap_off # INVALID_SWAP /\ bytes = swapfile'[pte[p].swap_off],
           physmem' = [physmem EXCEPT ![f] = Increment(bytes, type)],
           stats' = CountMiss(f), halted' = halted
    PROVE  MemoryInv'
<1> DEFINE v == coremap[f]
<1>1. /\ pte' \in [Page -> Entry]
      /\ p # v
      /\ pte'[p].frame = f
      /\ pte'[p].valid
      /\ ~pte'[p].onswap
      /\ pte'[p].swap_off = pte[p].swap_off
      /\ pte'[p].dirty <=> (~pte[p].onswap \/ Writes(type))
      /\ \A q \in Page : q # p /\ q # v =>
            /\ pte'[q].frame = pte[q].frame
            /\ pte'[q].valid = pte[q].valid
            /\ pte'[q].dirty = pte[q].dirty
            /\ pte'[q].onswap = pte[q].onswap
            /\ pte'[q].swap_off = pte[q].swap_off
      /\ v \in Page =>
            /\ ~pte'[v].valid
            /\ pte[v].dirty => pte'[v].onswap /\ pte'[v].swap_off = slot
            /\ ~pte[v].dirty =>
                  /\ pte'[v].onswap <=> pte[v].onswap
                  /\ pte'[v].swap_off = pte[v].swap_off
  <2>1. TypeOK /\ CoremapMatchesPageTable
    BY DEF MemoryInv
  <2>2. Missed(p, type, f, slot, pte')
    BY <2>1, MissTable
  <2> QED
    BY <2>2 DEF Missed
<1>2. /\ coremap' \in [Frame -> Page \cup {NoPage}]
      /\ coremap'[f] = p
      /\ \A g \in Frame \ {f} : coremap'[g] = coremap[g]
  BY DEF MemoryInv, TypeOK
<1>3. /\ physmem' \in [Frame -> Bytes]
      /\ physmem'[f] = Increment(bytes, type)
      /\ physmem'[f].vaddr = p
      /\ ~Writes(type) => physmem'[f] = bytes
      /\ \A g \in Frame \ {f} : physmem'[g] = physmem[g]
  <2>1. /\ Increment(bytes, type) \in Bytes
        /\ Increment(bytes, type).vaddr = p
        /\ ~Writes(type) => Increment(bytes, type) = bytes
    BY IncrementFields
  <2>2. physmem \in [Frame -> Bytes]
    BY DEF MemoryInv, TypeOK
  <2> QED
    BY ONLY <2>1, <2>2, f \in Frame, physmem' = [physmem EXCEPT ![f] = Increment(bytes, type)]
<1>4. TypeOK'
  <2>1. stats' \in Counters
    BY CountMissType DEF MemoryInv, TypeOK
  <2>2. halted' \in {"no", "assert", "exit"}
    BY DEF MemoryInv, TypeOK
  <2>3. /\ swapmap' \subseteq Slot
        /\ swapfile' \in [Slot -> Bytes]
        /\ complained' \in BOOLEAN
    BY AllocateSwap DEF MemoryInv
  <2> QED
    BY <1>1, <1>2, <1>3, <2>1, <2>2, <2>3 DEF TypeOK
<1>5. \A q \in Page \ {p, v} : pte[q].valid => pte[q].frame \in Frame \ {f}
  BY DEF MemoryInv, TypeOK, Entry, CoremapMatchesPageTable
<1>6. CoremapMatchesPageTable'
  <2>1. ASSUME NEW q \in Page, pte'[q].valid
        PROVE  coremap'[pte'[q].frame] = q
    BY <2>1, <1>1, <1>2, <1>5 DEF MemoryInv, CoremapMatchesPageTable
  <2>2. ASSUME NEW g \in Frame, coremap'[g] # NoPage
        PROVE  pte'[coremap'[g]].valid /\ pte'[coremap'[g]].frame = g
    <3>1. CASE g = f
      BY <3>1, <1>1, <1>2
    <3>2. CASE g # f
      <4>1. coremap'[g] = coremap[g] /\ coremap[g] \in Page
        BY <3>2, <2>2, <1>2 DEF MemoryInv, TypeOK
      <4>2. pte[coremap[g]].valid /\ pte[coremap[g]].frame = g
        BY <2>2, <4>1 DEF MemoryInv, CoremapMatchesPageTable
      <4>3. coremap[g] # p /\ coremap[g] # v
        BY <3>2, <4>1, <4>2 DEF MemoryInv, CoremapMatchesPageTable
      <4> QED
        BY <4>1, <4>2, <4>3, <1>1
    <3> QED
      BY <3>1, <3>2
  <2> QED
    BY <2>1, <2>2 DEF CoremapMatchesPageTable
<1>7. v \in Page => pte[v].valid /\ pte[v].frame = f
  BY DEF MemoryInv, CoremapMatchesPageTable
<1>8. /\ v \in Page /\ pte[v].dirty /\ slot # INVALID_SWAP =>
            /\ slot \in swapmap'
            /\ slot = pte[v].swap_off \/ slot \notin swapmap
            /\ swapfile'[slot] = physmem[f]
  <2>1. v \in Page /\ pte[v].dirty /\ slot # INVALID_SWAP =>
            /\ slot \in Slot
            /\ slot \in swapmap'
            /\ slot = pte[v].swap_off \/ slot \notin swapmap
            /\ swapfile' = [swapfile EXCEPT ![slot] = physmem[f]]
    BY AllocateWrites DEF MemoryInv
  <2> QED
    BY <2>1 DEF MemoryInv, TypeOK
<1>9. SlotsBelongToOnePage'
  <2>1. swapmap \subseteq swapmap'
    BY AllocateSwap DEF MemoryInv
  <2>2. ASSUME NEW q \in Page, pte'[q].swap_off # INVALID_SWAP
        PROVE  pte'[q].swap_off \in swapmap'
    BY <2>1, <2>2, <1>1, <1>8 DEF MemoryInv, SlotsBelongToOnePage
  <2>3. \A q \in Page : q # v \/ ~pte[q].dirty => pte'[q].swap_off = pte[q].swap_off
    BY <1>1
  <2>4. ASSUME NEW q \in Page, NEW r \in Page, q # r, pte'[q].swap_off # INVALID_SWAP
        PROVE  pte'[q].swap_off # pte'[r].swap_off
    <3>1. CASE (q # v \/ ~pte[q].dirty) /\ (r # v \/ ~pte[r].dirty)
      BY <2>3, <2>4, <3>1 DEF MemoryInv, SlotsBelongToOnePage
    <3>2. CASE q = v /\ pte[q].dirty
      BY <2>3, <2>4, <3>2, <1>1, <1>8 DEF MemoryInv, SlotsBelongToOnePage
    <3>3. CASE r = v /\ pte[r].dirty
      BY <2>3, <2>4, <3>3, <1>1, <1>8 DEF MemoryInv, SlotsBelongToOnePage
    <3> QED
      BY <3>1, <3>2, <3>3
  <2> QED
    BY <2>2, <2>4 DEF SlotsBelongToOnePage
<1>10. PageHoldsItsAddress'
  <2>1. ASSUME NEW q \in Page, pte'[q].valid
        PROVE  physmem'[pte'[q].frame].vaddr = q
    BY <2>1, <1>1, <1>3, <1>5 DEF MemoryInv, PageHoldsItsAddress
  <2>2. ASSUME NEW q \in Page, pte'[q].onswap, pte'[q].swap_off # INVALID_SWAP
        PROVE  swapfile'[pte'[q].swap_off].vaddr = q
    <3>1. CASE q = v /\ pte[q].dirty
      BY <2>2, <3>1, <1>1, <1>7, <1>8 DEF MemoryInv, PageHoldsItsAddress
    <3>2. CASE q # v \/ ~pte[q].dirty
      <4>1. pte'[q].swap_off = pte[q].swap_off /\ pte[q].onswap
        BY <2>2, <3>2, <1>1
      <4>2. swapfile'[pte[q].swap_off] = swapfile[pte[q].swap_off]
        BY <2>2, <3>2, <4>1, SlotsKept
      <4> QED
        BY <2>2, <4>1, <4>2 DEF MemoryInv, PageHoldsItsAddress
    <3> QED
      BY <3>1, <3>2
  <2> QED
    BY <2>1, <2>2 DEF PageHoldsItsAddress
<1>11. CleanPageIsOnSwap'
  <2>1. ASSUME NEW q \in Page, pte'[q].valid, ~pte'[q].dirty
        PROVE  /\ pte'[q].swap_off # INVALID_SWAP
               /\ swapfile'[pte'[q].swap_off] = physmem'[pte'[q].frame]
    <3>1. CASE q = p
      BY <2>1, <3>1, <1>1, <1>3
    <3>2. CASE q # p
      <4>1. q # v
        BY <2>1, <1>1
      <4>2. /\ pte[q].valid /\ ~pte[q].dirty
            /\ pte'[q].swap_off = pte[q].swap_off
            /\ pte'[q].frame = pte[q].frame
        BY <2>1, <3>2, <4>1, <1>1
      <4>3. /\ pte[q].swap_off # INVALID_SWAP
            /\ swapfile[pte[q].swap_off] = physmem[pte[q].frame]
        BY <4>2 DEF MemoryInv, CleanPageIsOnSwap
      <4>4. swapfile'[pte[q].swap_off] = swapfile[pte[q].swap_off]
        BY <4>1, <4>3, SlotsKept
      <4> QED
        BY <3>2, <4>1, <4>2, <4>3, <4>4, <1>3, <1>5
    <3> QED
      BY <3>1, <3>2
  <2> QED
    BY <2>1 DEF CleanPageIsOnSwap
<1> QED
  BY <1>4, <1>6, <1>9, <1>10, <1>11 DEF MemoryInv
(* Both misses fill the frame with bytes that MissInv accepts. *)
LEMMA MissNewInv ==
    ASSUME MemoryInv, NEW type, NEW p \in Page, NEW f \in Frame, NEW cleared,
           NEW slot \in Slot \cup {INVALID_SWAP}, MissNew(type, p, f, cleared, slot)
    PROVE  MemoryInv'
<1> DEFINE bytes == ZeroFilled(p)
<1>1. bytes \in Bytes /\ bytes.vaddr = p
  BY DEF ZeroFilled, Bytes
<1> HIDE DEF bytes
<1>2. physmem' = [physmem EXCEPT ![f] = Increment(bytes, type)]
  BY DEF MissNew, bytes
<1>3. /\ ~pte[p].valid /\ ~pte[p].onswap
      /\ allocate_frame(f, slot)
      /\ coremap' = [coremap EXCEPT ![f] = p]
      /\ pte' = AfterMiss(p, type, f, cleared, slot)
      /\ stats' = CountMiss(f) /\ halted' = halted
  BY DEF MissNew
<1> QED
  BY <1>1, <1>2, <1>3, MissInv

LEMMA MissSwappedInv ==
    ASSUME MemoryInv, NEW type, NEW p \in Page, NEW f \in Frame, NEW cleared,
           NEW slot \in Slot \cup {INVALID_SWAP}, MissSwapped(type, p, f, cleared, slot)
    PROVE  MemoryInv'
<1> DEFINE bytes == swapfile'[pte[p].swap_off]
<1>1. /\ ~pte[p].valid /\ pte[p].onswap /\ pte[p].swap_off # INVALID_SWAP
      /\ allocate_frame(f, slot)
      /\ coremap' = [coremap EXCEPT ![f] = p]
      /\ pte' = AfterMiss(p, type, f, cleared, slot)
      /\ physmem' = [physmem EXCEPT ![f] = Increment(bytes, type)]
      /\ stats' = CountMiss(f) /\ halted' = halted
  BY DEF MissSwapped
<1>2. p # coremap[f]
  BY <1>1 DEF MemoryInv, CoremapMatchesPageTable, TypeOK
<1>3. bytes = swapfile[pte[p].swap_off] /\ pte[p].swap_off \in Slot
  BY <1>1, <1>2, SlotsKept
<1>4. bytes \in Bytes /\ bytes.vaddr = p
  BY <1>1, <1>3 DEF MemoryInv, TypeOK, PageHoldsItsAddress
<1>5. pte[p].onswap => pte[p].swap_off # INVALID_SWAP /\ bytes = swapfile'[pte[p].swap_off]
  BY <1>1
<1> HIDE DEF bytes
<1> QED
  BY <1>1, <1>4, <1>5, MissInv

(* A hit writes to the frame of one page and to no slot. *)
LEMMA HitInv ==
    ASSUME MemoryInv, NEW type, NEW p \in Page, Hit(type, p)
    PROVE  MemoryInv'
<1> DEFINE f == pte[p].frame
<1>1. /\ pte[p] \in Entry /\ pte[p].valid /\ f \in Frame /\ coremap[f] = p
      /\ physmem[f] \in Bytes /\ physmem[f].vaddr = p
  BY DEF MemoryInv, TypeOK, Entry, Hit, CoremapMatchesPageTable, PageHoldsItsAddress
<1>2. /\ pte' \in [Page -> Entry]
      /\ \A q \in Page : /\ pte'[q].frame = pte[q].frame
                         /\ pte'[q].valid <=> pte[q].valid
                         /\ pte'[q].onswap <=> pte[q].onswap
                         /\ pte'[q].swap_off = pte[q].swap_off
                         /\ ~pte'[q].dirty => ~pte[q].dirty
      /\ ~pte'[p].dirty => ~Writes(type)
  <2>1. pte' = [pte EXCEPT ![p] = Referenced(pte[p], type)]
    BY DEF Hit
  <2>2. /\ Referenced(pte[p], type) \in Entry
        /\ Referenced(pte[p], type).frame = pte[p].frame
        /\ Referenced(pte[p], type).valid <=> pte[p].valid
        /\ Referenced(pte[p], type).onswap <=> pte[p].onswap
        /\ Referenced(pte[p], type).swap_off = pte[p].swap_off
        /\ Referenced(pte[p], type).dirty <=> (pte[p].dirty \/ Writes(type))
    BY <1>1, ReferencedFields
  <2>3. pte \in [Page -> Entry]
    BY DEF MemoryInv, TypeOK
  <2>4. pte' \in [Page -> Entry]
    BY ONLY <2>1, <2>2, <2>3, UpdateType
  <2>5. pte'[p] = Referenced(pte[p], type) /\ \A q \in Page \ {p} : pte'[q] = pte[q]
    BY ONLY <2>1, <2>3, p \in Page
  <2> QED
    BY <2>2, <2>4, <2>5
<1>3. /\ physmem' \in [Frame -> Bytes]
      /\ physmem'[f].vaddr = p
      /\ ~Writes(type) => physmem'[f] = physmem[f]
      /\ \A g \in Frame \ {f} : physmem'[g] = physmem[g]
  <2>1. physmem' = [physmem EXCEPT ![f] = Increment(physmem[f], type)]
    BY DEF Hit
  <2>2. /\ Increment(physmem[f], type) \in Bytes
        /\ Increment(physmem[f], type).vaddr = p
        /\ ~Writes(type) => Increment(physmem[f], type) = physmem[f]
    BY <1>1, IncrementFields
  <2>3. physmem \in [Frame -> Bytes]
    BY DEF MemoryInv, TypeOK
  <2> QED
    BY ONLY <1>1, <2>1, <2>2, <2>3
<1>4. \A q \in Page \ {p} : pte[q].valid => pte[q].frame \in Frame \ {f}
  BY <1>1 DEF MemoryInv, TypeOK, Entry, CoremapMatchesPageTable
<1>5. UNCHANGED <<coremap, swapmap, swapfile, complained, halted>>
  BY DEF Hit
<1>6. TypeOK'
  <2>1. stats' \in Counters
    <3>1. stats \in Counters /\ stats' = CountHit
      BY DEF Hit, MemoryInv, TypeOK
    <3> QED
      BY <3>1, CountHitType
  <2> QED
    BY <1>2, <1>3, <1>5, <2>1 DEF MemoryInv, TypeOK
<1>7. CoremapMatchesPageTable'
  BY <1>2, <1>5 DEF MemoryInv, TypeOK, CoremapMatchesPageTable
<1>8. SlotsBelongToOnePage'
  BY <1>2, <1>5 DEF MemoryInv, SlotsBelongToOnePage
<1>9. PageHoldsItsAddress'
  BY <1>1, <1>2, <1>3, <1>4, <1>5 DEF MemoryInv, PageHoldsItsAddress
<1>10. CleanPageIsOnSwap'
  <2>1. ASSUME NEW q \in Page, pte'[q].valid, ~pte'[q].dirty
        PROVE  /\ pte'[q].swap_off # INVALID_SWAP
               /\ swapfile'[pte'[q].swap_off] = physmem'[pte'[q].frame]
    <3>1. /\ pte[q].swap_off # INVALID_SWAP
          /\ swapfile[pte[q].swap_off] = physmem[pte[q].frame]
          /\ pte[q].valid
      BY <2>1, <1>2 DEF MemoryInv, CleanPageIsOnSwap
    <3>2. physmem'[pte[q].frame] = physmem[pte[q].frame]
      BY <2>1, <3>1, <1>2, <1>3, <1>4
    <3> QED
      BY <3>1, <3>2, <1>2, <1>5
  <2> QED
    BY <2>1 DEF CleanPageIsOnSwap
<1> QED
  BY <1>6, <1>7, <1>8, <1>9, <1>10 DEF MemoryInv

LEMMA InitInv == MemoryInit => MemoryInv
<1> SUFFICES ASSUME MemoryInit PROVE MemoryInv
  OBVIOUS
<1>1. Unmapped \in Entry /\ ~Unmapped.valid /\ ~Unmapped.onswap
         /\ Unmapped.swap_off = INVALID_SWAP
  BY DEF Unmapped, Entry, Frame
<1>2. Blank \in Bytes
  BY DEF Blank, Bytes
<1>3. pte \in [Page -> Entry] /\ \A p \in Page : pte[p] = Unmapped
  BY <1>1 DEF MemoryInit
<1>4. TypeOK
  BY <1>2, <1>3 DEF MemoryInit, TypeOK, Counters
<1>5. \A f \in Frame : coremap[f] = NoPage
  BY DEF MemoryInit
<1> QED
  BY <1>1, <1>3, <1>4, <1>5
  DEF MemoryInv, CoremapMatchesPageTable, SlotsBelongToOnePage,
      PageHoldsItsAddress, CleanPageIsOnSwap

LEMMA NextInv == MemoryInv /\ [MemoryNext]_vars => MemoryInv'
<1> SUFFICES ASSUME MemoryInv, [MemoryNext]_vars PROVE MemoryInv'
  OBVIOUS
<1>1. ASSUME NEW type \in AccessType, NEW p \in Page, Hit(type, p)
      PROVE  MemoryInv'
  BY <1>1, HitInv
<1>2. ASSUME NEW type \in AccessType, NEW p \in Page, NEW f \in Frame,
             NEW cleared \in SUBSET Page, Miss(type, p, f, cleared)
      PROVE  MemoryInv'
  BY <1>2, MissNewInv, MissSwappedInv DEF Miss
<1>3. ASSUME NEW p \in Page, Die(p)
      PROVE  MemoryInv'
  BY <1>3 DEF Die, MemoryInv, TypeOK, CoremapMatchesPageTable, SlotsBelongToOnePage,
              PageHoldsItsAddress, CleanPageIsOnSwap
<1>4. CASE UNCHANGED vars
  BY <1>4 DEF vars, MemoryInv, TypeOK, CoremapMatchesPageTable, SlotsBelongToOnePage,
              PageHoldsItsAddress, CleanPageIsOnSwap
<1> QED
  BY <1>1, <1>2, <1>3, <1>4 DEF MemoryNext

LEMMA Invariance == MemorySpec => []MemoryInv
<1>1. MemoryInit => MemoryInv
  BY InitInv
<1>2. MemoryInv /\ [MemoryNext]_vars => MemoryInv'
  BY NextInv
<1> QED
  BY <1>1, <1>2, PTL DEF MemorySpec

-----------------------------------------------------------------------------
(* The theorems *)

(* Every entry of the page table, of coremap and of the bitmap stays in    *)
(* its type: find_physpage and allocate_frame never index past them.       *)
THEOREM TypeCorrect == MemorySpec => []TypeOK
BY Invariance, PTL DEF MemoryInv

(* allocate_frame always invalidates the entry that maps the frame it      *)
(* takes, and no two pages are ever mapped to one frame.                   *)
THEOREM MappingCorrect == MemorySpec => []CoremapMatchesPageTable
BY Invariance, PTL DEF MemoryInv

(* swap_pageout never gives a page a slot that another entry carries.      *)
THEOREM SlotsCorrect == MemorySpec => []SlotsBelongToOnePage
BY Invariance, PTL DEF MemoryInv

(* access_mem never finds another page's address in the memory it gets.    *)
THEOREM AddressesCorrect == MemorySpec => []PageHoldsItsAddress
BY Invariance, PTL DEF MemoryInv

(* A page that allocate_frame drops without writing is on swap as it is.   *)
THEOREM CleanCorrect == MemorySpec => []CleanPageIsOnSwap
BY Invariance, PTL DEF MemoryInv

-----------------------------------------------------------------------------
(* The counters *)

(* The frames in use, that a miss either finds full or fills by one. *)
InUse == {f \in Frame : coremap[f] # NoPage}

LEMMA InUseFinite == IsFiniteSet(InUse) /\ Cardinality(InUse) \in Nat
<1>1. IsFiniteSet(Frame)
  BY FS_Interval DEF Frame
<1>2. IsFiniteSet(InUse)
  BY <1>1, FS_Subset DEF InUse
<1> QED
  BY <1>2, FS_CardinalityType

LEMMA MissInUse ==
    ASSUME TypeOK, NEW p \in Page, NEW f \in Frame, coremap' = [coremap EXCEPT ![f] = p]
    PROVE  Cardinality(InUse') = IF coremap[f] = NoPage THEN Cardinality(InUse) + 1
                                 ELSE Cardinality(InUse)
<1>1. InUse' = InUse \cup {f}
  BY DEF InUse, TypeOK
<1>2. CASE coremap[f] = NoPage
  <2>1. f \notin InUse
    BY <1>2 DEF InUse
  <2> QED
    BY <1>1, <1>2, <2>1, InUseFinite, FS_AddElement
<1>3. CASE coremap[f] # NoPage
  <2>1. InUse \cup {f} = InUse
    BY <1>3 DEF InUse
  <2> QED
    BY <1>1, <1>3, <2>1
<1> QED
  BY <1>2, <1>3

CountersInv ==
    /\ stats.ref = stats.hit + stats.miss
    /\ stats.miss = stats.clean + stats.dirty + Cardinality(InUse)

LEMMA CountersStep ==
    ASSUME TypeOK, CountersInv, [MemoryNext]_vars
    PROVE  CountersInv'
<1>1. /\ stats \in Counters
      /\ stats.hit \in Nat /\ stats.miss \in Nat /\ stats.ref \in Nat
      /\ stats.clean \in Nat /\ stats.dirty \in Nat
  BY DEF TypeOK, Counters
<1>2. ASSUME UNCHANGED coremap, stats' = stats \/ stats' = CountHit
      PROVE  CountersInv'
  <2>1. InUse' = InUse
    BY <1>2 DEF InUse
  <2>2. CASE stats' = stats
    BY <2>1, <2>2 DEF CountersInv
  <2>3. CASE stats' = CountHit
    BY <1>1, <2>1, <2>3, CountHitType, InUseFinite DEF CountersInv
  <2> QED
    BY <1>2, <2>2, <2>3
<1>3. ASSUME NEW p \in Page, NEW f \in Frame, coremap' = [coremap EXCEPT ![f] = p],
             stats' = CountMiss(f)
      PROVE  CountersInv'
  <2>1. /\ CountMiss(f).ref = stats.ref + 1
        /\ CountMiss(f).hit = stats.hit
        /\ CountMiss(f).miss = stats.miss + 1
        /\ CountMiss(f).clean + CountMiss(f).dirty =
              IF coremap[f] = NoPage THEN stats.clean + stats.dirty
              ELSE stats.clean + stats.dirty + 1
    BY <1>1, CountMissType
  <2>2. Cardinality(InUse') = IF coremap[f] = NoPage THEN Cardinality(InUse) + 1
                              ELSE Cardinality(InUse)
    BY <1>3, MissInUse
  <2> QED
    BY <1>1, <1>3, <2>1, <2>2, InUseFinite DEF CountersInv
<1>4. ASSUME NEW type, NEW p \in Page, Hit(type, p)
      PROVE  CountersInv'
  BY <1>2, <1>4 DEF Hit
<1>5. ASSUME NEW type, NEW p \in Page, NEW f \in Frame, NEW cleared, Miss(type, p, f, cleared)
      PROVE  CountersInv'
  BY <1>3, <1>5 DEF Miss, MissNew, MissSwapped
<1>6. ASSUME NEW p \in Page, Die(p)
      PROVE  CountersInv'
  BY <1>2, <1>6 DEF Die
<1>7. CASE UNCHANGED vars
  BY <1>2, <1>7 DEF vars
<1> QED
  BY <1>4, <1>5, <1>6, <1>7 DEF MemoryNext

(* The totals that main prints add up, for any trace and any algorithm:    *)
(* each miss beyond the frames of memory has evicted a page, counted once, *)
(* as clean or as dirty.                                                   *)
THEOREM CountersCorrect == MemorySpec => []CountersAgree
<1>1. MemoryInit => CountersInv
  <2> SUFFICES ASSUME MemoryInit PROVE CountersInv
    OBVIOUS
  <2>1. InUse = {}
    BY DEF MemoryInit, InUse
  <2> QED
    BY <2>1, FS_EmptySet DEF MemoryInit, CountersInv
<1>2. MemoryInv /\ CountersInv /\ [MemoryNext]_vars => CountersInv'
  BY CountersStep DEF MemoryInv
<1>3. CountersInv => CountersAgree
  BY DEF CountersInv, CountersAgree, InUse
<1> QED
  BY <1>1, <1>2, <1>3, Invariance, PTL DEF MemorySpec

-----------------------------------------------------------------------------
(* The assertion of swap_pagein *)

(* An entry on swap without a slot is the trace of a failed swap_pageout,  *)
(* which stays in the entry until the page is next referenced.             *)
FailureInv ==
    /\ NoSilentAssertion
    /\ \A p \in Page : pte[p].onswap /\ pte[p].swap_off = INVALID_SWAP => complained

LEMMA FailureMiss ==
    ASSUME MemoryInv, FailureInv, NEW type, NEW p \in Page, ~pte[p].valid,
           NEW f \in Frame, NEW cleared, NEW slot \in Slot \cup {INVALID_SWAP},
           allocate_frame(f, slot), pte' = AfterMiss(p, type, f, cleared, slot),
           halted' = halted
    PROVE  FailureInv'
<1>1. Missed(p, type, f, slot, pte')
  <2>1. TypeOK /\ CoremapMatchesPageTable
    BY DEF MemoryInv
  <2> QED
    BY <2>1, MissTable
<1>2. complained => complained'
  BY AllocateSwap DEF MemoryInv
<1>3. coremap[f] \in Page /\ pte[coremap[f]].dirty /\ slot = INVALID_SWAP => complained'
  <2>1. slot = INVALID_SWAP => slot \notin Slot
    BY DEF Slot
  <2>2. coremap[f] \in Page => coremap[f] # NoPage
    OBVIOUS
  <2> QED
    BY <2>1, <2>2, AllocateWrites DEF MemoryInv
<1>4. ASSUME NEW q \in Page, pte'[q].onswap, pte'[q].swap_off = INVALID_SWAP
      PROVE  complained'
  BY <1>1, <1>2, <1>3, <1>4 DEF Missed, FailureInv
<1>5. NoSilentAssertion'
  BY <1>2 DEF FailureInv, NoSilentAssertion
<1> QED
  BY <1>4, <1>5 DEF FailureInv

LEMMA FailureStep ==
    ASSUME MemoryInv, FailureInv, [MemoryNext]_vars
    PROVE  FailureInv'
<1>1. ASSUME NEW type, NEW p \in Page, Hit(type, p)
      PROVE  FailureInv'
  <2>1. pte[p] \in Entry
    BY DEF MemoryInv, TypeOK
  <2>2. /\ Referenced(pte[p], type).onswap <=> pte[p].onswap
        /\ Referenced(pte[p], type).swap_off = pte[p].swap_off
    BY <2>1, ReferencedFields
  <2>3. pte' = [pte EXCEPT ![p] = Referenced(pte[p], type)]
           /\ complained' = complained /\ halted' = halted
    BY <1>1 DEF Hit
  <2>4. \A q \in Page : /\ pte'[q].onswap <=> pte[q].onswap
                        /\ pte'[q].swap_off = pte[q].swap_off
    BY <2>2, <2>3 DEF MemoryInv, TypeOK
  <2> QED
    BY <2>3, <2>4 DEF FailureInv, NoSilentAssertion
<1>2. ASSUME NEW type, NEW p \in Page, NEW f \in Frame, NEW cleared, Miss(type, p, f, cleared)
      PROVE  FailureInv'
  BY <1>2, FailureMiss DEF Miss, MissNew, MissSwapped
<1>3. ASSUME NEW p \in Page, Die(p)
      PROVE  FailureInv'
  BY <1>3 DEF Die, FailureInv, NoSilentAssertion
<1>4. CASE UNCHANGED vars
  BY <1>4 DEF vars, FailureInv, NoSilentAssertion
<1> QED
  BY <1>1, <1>2, <1>3, <1>4 DEF MemoryNext

(* The assertion of swap_pagein only ever fails after swap_pageout has     *)
(* reported that a page could not be written.                              *)
THEOREM AssertionCorrect == MemorySpec => []NoSilentAssertion
<1>1. MemoryInit => FailureInv
  BY DEF MemoryInit, FailureInv, NoSilentAssertion, Unmapped
<1>2. MemoryInv /\ FailureInv /\ [MemoryNext]_vars => FailureInv'
  BY FailureStep
<1>3. FailureInv => NoSilentAssertion
  BY DEF FailureInv
<1> QED
  BY <1>1, <1>2, <1>3, Invariance, PTL DEF MemorySpec

-----------------------------------------------------------------------------
(* What the traced program sees: the refinement of PageStore. *)

(* A step that changes each page's contents as Touch says is a step of     *)
(* the store.                                                              *)
LEMMA StoreStep ==
    ASSUME NEW p \in Page, NEW type, NEW lost, lost = {} \/ \E v \in Page \ {p} : lost = {v},
           \A q \in Page : Contents(q)' = IF q \in lost THEN 0
                                          ELSE IF q = p /\ Writes(type) THEN Contents(q) + 1
                                          ELSE Contents(q)
    PROVE  Store!StoreNext
<1>1. \A q \in Page : Versions[q] = Contents(q)
  BY DEF Versions
<1>2. Writes(type) \in BOOLEAN
  BY DEF Writes
<1>3. Versions' = [q \in Page |-> Contents(q)']
  BY DEF Versions
<1>4. Store!Touch(p, Writes(type), lost)
  BY <1>1, <1>3 DEF Store!Touch
<1> DEFINE written == Writes(type)
<1> HIDE DEF written
<1>5. Store!Touch(p, written, lost) /\ written \in BOOLEAN
  BY <1>2, <1>4 DEF written
<1>6. CASE lost = {}
  BY ONLY <1>5, <1>6, p \in Page, Zenon DEF Store!StoreNext
<1>7. CASE \E v \in Page \ {p} : lost = {v}
  BY ONLY <1>5, <1>7, p \in Page, Zenon DEF Store!StoreNext
<1> QED
  BY <1>6, <1>7

(* The hypotheses of MissInv again; now the bytes have the version that    *)
(* the access finds.  Only the victim may be forgotten.                    *)
LEMMA StoreMiss ==
    ASSUME MemoryInv, NEW p \in Page, ~pte[p].valid, NEW type,
           NEW f \in Frame, NEW cleared, NEW slot \in Slot \cup {INVALID_SWAP},
           allocate_frame(f, slot),
           pte' = AfterMiss(p, type, f, cleared, slot),
           NEW bytes \in Bytes, bytes.version = Contents(p),
           physmem' = [physmem EXCEPT ![f] = Increment(bytes, type)]
    PROVE  Store!StoreNext
<1> DEFINE v == coremap[f]
           lost == {q \in Page : q = v /\ Contents(q)' # Contents(q)}
<1>1. Missed(p, type, f, slot, pte')
  <2>1. TypeOK /\ CoremapMatchesPageTable
    BY DEF MemoryInv
  <2> QED
    BY <2>1, MissTable
<1>2. v # p
  BY <1>1 DEF Missed
<1>3. /\ physmem'[f] = Increment(bytes, type)
      /\ \A g \in Frame \ {f} : physmem'[g] = physmem[g]
  BY DEF MemoryInv, TypeOK
<1>4. Contents(p)' = IF Writes(type) THEN Contents(p) + 1 ELSE Contents(p)
  <2>1. Contents(p)' = physmem'[f].version
    BY <1>1 DEF Missed, Contents
  <2> QED
    BY <2>1, <1>3, IncrementFields
<1>5. ASSUME NEW q \in Page, q # p, q # v
      PROVE  Contents(q)' = Contents(q)
  <2>1. /\ pte'[q].frame = pte[q].frame
        /\ pte'[q].valid = pte[q].valid
        /\ pte'[q].onswap = pte[q].onswap
        /\ pte'[q].swap_off = pte[q].swap_off
    BY <1>1, <1>5 DEF Missed
  <2>2. pte[q].valid => physmem'[pte[q].frame] = physmem[pte[q].frame]
    BY <1>3, <1>5 DEF MemoryInv, TypeOK, Entry, CoremapMatchesPageTable
  <2>3. pte[q].swap_off # INVALID_SWAP =>
           swapfile'[pte[q].swap_off] = swapfile[pte[q].swap_off]
    BY <1>5, SlotsKept
  <2> QED
    BY <2>1, <2>2, <2>3 DEF Contents
<1>6. ASSUME NEW q \in Page, q = v
      PROVE  Contents(q)' \in {Contents(q), 0}
  <2>1. pte[q].valid /\ pte[q].frame = f
    BY <1>6 DEF MemoryInv, CoremapMatchesPageTable
  <2>2. Contents(q) = physmem[f].version
    BY <2>1 DEF Contents
  <2>3. ~pte'[q].valid
    BY <1>1, <1>6 DEF Missed
  <2>4. CASE pte[q].dirty
    <3>1. pte'[q].onswap /\ pte'[q].swap_off = slot
      BY <1>1, <1>6, <2>4 DEF Missed
    <3>2. slot # INVALID_SWAP => swapfile'[slot] = physmem[f]
      BY <1>6, <2>4, AllocateWrites DEF MemoryInv, TypeOK
    <3> QED
      BY <2>2, <2>3, <3>1, <3>2 DEF Contents
  <2>5. CASE ~pte[q].dirty
    <3>1. pte[q].swap_off # INVALID_SWAP /\ swapfile[pte[q].swap_off] = physmem[f]
      BY <1>6, <2>1, <2>5 DEF MemoryInv, CleanPageIsOnSwap
    <3>2. pte'[q].swap_off = pte[q].swap_off
      BY <1>1, <1>6, <2>5 DEF Missed
    <3>3. swapfile'[pte[q].swap_off] = swapfile[pte[q].swap_off]
      BY <1>6, <2>5, <3>1, SlotsKept
    <3> QED
      BY <2>2, <2>3, <3>1, <3>2, <3>3 DEF Contents
  <2> QED
    BY <2>4, <2>5
<1>7. \A q \in Page : Contents(q)' = IF q \in lost THEN 0
                                     ELSE IF q = p /\ Writes(type) THEN Contents(q) + 1
                                     ELSE Contents(q)
  <2>1. ASSUME NEW q \in Page
        PROVE  Contents(q)' = IF q \in lost THEN 0
                              ELSE IF q = p /\ Writes(type) THEN Contents(q) + 1
                              ELSE Contents(q)
    <3>1. CASE q = p
      BY <1>2, <1>4, <3>1
    <3>2. CASE q = v
      BY <1>2, <1>6, <3>2
    <3>3. CASE q # p /\ q # v
      BY <1>5, <3>3
    <3> QED
      BY <3>1, <3>2, <3>3
  <2> QED
    BY <2>1
<1>8. lost = {} \/ \E w \in Page \ {p} : lost = {w}
  BY <1>2
<1> HIDE DEF lost
<1> QED
  BY <1>7, <1>8, StoreStep

LEMMA StoreHit ==
    ASSUME MemoryInv, NEW type, NEW p \in Page, Hit(type, p)
    PROVE  Store!StoreNext
<1> DEFINE f == pte[p].frame
<1>1. /\ pte[p] \in Entry /\ pte[p].valid /\ f \in Frame /\ coremap[f] = p
      /\ physmem[f] \in Bytes
  BY DEF MemoryInv, TypeOK, Entry, Hit, CoremapMatchesPageTable
<1>2. \A q \in Page : /\ pte'[q].frame = pte[q].frame
                      /\ pte'[q].valid <=> pte[q].valid
                      /\ pte'[q].onswap <=> pte[q].onswap
                      /\ pte'[q].swap_off = pte[q].swap_off
  <2>1. pte' = [pte EXCEPT ![p] = Referenced(pte[p], type)] /\ pte \in [Page -> Entry]
    BY DEF Hit, MemoryInv, TypeOK
  <2>2. pte'[p] = Referenced(pte[p], type) /\ \A q \in Page \ {p} : pte'[q] = pte[q]
    BY ONLY <2>1, p \in Page
  <2> QED
    BY <1>1, <2>2, ReferencedFields
<1>3. /\ physmem'[f].version = IF Writes(type) THEN physmem[f].version + 1
                               ELSE physmem[f].version
      /\ \A g \in Frame \ {f} : physmem'[g] = physmem[g]
  <2>1. physmem' = [physmem EXCEPT ![f] = Increment(physmem[f], type)]
           /\ physmem \in [Frame -> Bytes]
    BY DEF Hit, MemoryInv, TypeOK
  <2>2. physmem'[f] = Increment(physmem[f], type)
           /\ \A g \in Frame \ {f} : physmem'[g] = physmem[g]
    BY ONLY <1>1, <2>1
  <2> QED
    BY <1>1, <2>2, IncrementFields
<1>4. \A q \in Page \ {p} : pte[q].valid => pte[q].frame \in Frame \ {f}
  BY <1>1 DEF MemoryInv, TypeOK, Entry, CoremapMatchesPageTable
<1>5. swapfile' = swapfile
  BY DEF Hit
<1>6. Contents(p)' = IF Writes(type) THEN Contents(p) + 1 ELSE Contents(p)
  BY <1>1, <1>2, <1>3 DEF Contents
<1>7. \A q \in Page \ {p} : Contents(q)' = Contents(q)
  BY <1>2, <1>3, <1>4, <1>5 DEF Contents
<1> DEFINE lost == {}
<1>8. \A q \in Page : Contents(q)' = IF q \in lost THEN 0
                                     ELSE IF q = p /\ Writes(type) THEN Contents(q) + 1
                                     ELSE Contents(q)
  BY <1>6, <1>7
<1> HIDE DEF lost
<1>9. lost = {} \/ \E w \in Page \ {p} : lost = {w}
  BY DEF lost
<1> QED
  BY <1>8, <1>9, StoreStep

(* Every reference is one access to the abstract store: whatever the       *)
(* algorithm evicts, and whatever fails, a page has its own last version   *)
(* or has been forgotten.                                                  *)
THEOREM StoreCorrect == MemorySpec => ImplementsStore
<1>1. MemoryInit => Store!StoreInit
  BY DEF MemoryInit, Store!StoreInit, Versions, Contents, Unmapped
<1>2. MemoryInv /\ [MemoryNext]_vars => [Store!StoreNext]_Versions
  <2> SUFFICES ASSUME MemoryInv, [MemoryNext]_vars
               PROVE  Store!StoreNext \/ Versions' = Versions
    OBVIOUS
  <2>1. ASSUME NEW type, NEW p \in Page, Hit(type, p)
        PROVE  Store!StoreNext
    BY <2>1, StoreHit
  <2>2. ASSUME NEW type, NEW p \in Page, NEW f \in Frame, NEW cleared,
               NEW slot \in Slot \cup {INVALID_SWAP}, MissNew(type, p, f, cleared, slot)
        PROVE  Store!StoreNext
    <3>1. ZeroFilled(p) \in Bytes /\ ZeroFilled(p).version = 0
      BY DEF ZeroFilled, Bytes
    <3>2. Contents(p) = 0
      BY <2>2 DEF MissNew, Contents
    <3>3. /\ ~pte[p].valid
          /\ allocate_frame(f, slot)
          /\ pte' = AfterMiss(p, type, f, cleared, slot)
          /\ physmem' = [physmem EXCEPT ![f] = Increment(ZeroFilled(p), type)]
      BY <2>2 DEF MissNew
    <3> QED
      BY <3>1, <3>2, <3>3, StoreMiss
  <2>3. ASSUME NEW type, NEW p \in Page, NEW f \in Frame, NEW cleared,
               NEW slot \in Slot \cup {INVALID_SWAP}, MissSwapped(type, p, f, cleared, slot)
        PROVE  Store!StoreNext
    <3> DEFINE bytes == swapfile'[pte[p].swap_off]
    <3>1. /\ ~pte[p].valid /\ pte[p].onswap /\ pte[p].swap_off # INVALID_SWAP
          /\ allocate_frame(f, slot)
          /\ pte' = AfterMiss(p, type, f, cleared, slot)
          /\ physmem' = [physmem EXCEPT ![f] = Increment(bytes, type)]
      BY <2>3 DEF MissSwapped
    <3>2. p # coremap[f]
      BY <3>1 DEF MemoryInv, CoremapMatchesPageTable, TypeOK
    <3>3. bytes = swapfile[pte[p].swap_off] /\ pte[p].swap_off \in Slot
      BY <3>1, <3>2, SlotsKept
    <3>4. bytes \in Bytes /\ bytes.version = Contents(p)
      BY <3>1, <3>3 DEF MemoryInv, TypeOK, Contents
    <3> HIDE DEF bytes
    <3> QED
      BY <3>1, <3>4, StoreMiss
  <2>4. ASSUME NEW p \in Page, Die(p)
        PROVE  Versions' = Versions
    BY <2>4 DEF Die, Versions, Contents
  <2>5. CASE UNCHANGED vars
    BY <2>5 DEF vars, Versions, Contents
  <2> QED
    BY <2>1, <2>2, <2>3, <2>4, <2>5 DEF MemoryNext, Miss
<1> QED
  BY <1>1, <1>2, Invariance, PTL DEF MemorySpec, ImplementsStore, Store!StoreSpec
=============================================================================
