--------------------------- MODULE VirtualMemory ---------------------------
(***************************************************************************)
(* The paging simulator of a3: find_physpage and allocate_frame of         *)
(* pagetable.c, the swap file and its bitmap of swap.c, and access_mem of  *)
(* sim.c.  One action is one access_mem, that is one line of the trace.    *)
(*                                                                         *)
(* The eviction algorithm is called through the pointer evict_fcn.  Here   *)
(* it is the contract of that pointer: it returns any frame, and may clear *)
(* the reference bit of any page in memory; PageReplacement and            *)
(* OptimalReplacement put the algorithms in its place.                     *)
(*                                                                         *)
(* A page stands for its page directory index, its page table index and    *)
(* the address the trace names it by; the second-level tables, made on     *)
(* first use with every entry unmapped, are entries of pte from the start. *)
(***************************************************************************)
EXTENDS Integers, FiniteSets

CONSTANTS
    Page,           \* virtual pages of the trace
    memsize,        \* -m: frames of simulated physical memory
    swapsize,       \* -s: page-sized slots of the swap file
    AccessType,     \* access types in the trace: among "I", "L", "S", "M"
    MaxRefs,        \* bound: length of the trace
    DiskMayFail,    \* whether reads and writes of the swap file may fail
    NoPage          \* not a page

ASSUME MemoryAssumption ==
    /\ memsize \in Nat \ {0}
    /\ swapsize \in Nat
    /\ AccessType \subseteq {"I", "L", "S", "M"}
    /\ MaxRefs \in Nat
    /\ DiskMayFail \in BOOLEAN
    /\ NoPage \notin Page

Frame == 0 .. memsize - 1
Slot  == 0 .. swapsize - 1
INVALID_SWAP == -1

VARIABLES
    pte,        \* pte[p]: the page table entry of p
    coremap,    \* coremap[f]: the page in frame f, NoPage if not in_use
    physmem,    \* physmem[f]: the bytes of frame f
    swapmap,    \* the slots taken in the bitmap of the swap file
    swapfile,   \* swapfile[s]: the bytes of slot s
    stats,      \* the event counters
    complained, \* an error of the swap file was reported on stderr
    halted      \* "no", or how the simulator died: "assert", "exit"

vars == <<pte, coremap, physmem, swapmap, swapfile, stats, complained, halted>>

-----------------------------------------------------------------------------
(* Types *)

(* pgtbl_entry_t: the flag bits and the frame number of its frame word. *)
Entry == [frame : Frame, valid : BOOLEAN, dirty : BOOLEAN, ref : BOOLEAN,
          onswap : BOOLEAN, swap_off : Slot \cup {INVALID_SWAP}]

(* A page's worth of bytes: the version counter and the address written    *)
(* by init_frame.                                                          *)
Bytes == [version : Nat, vaddr : Page \cup {NoPage}]

Counters == [hit : Nat, miss : Nat, ref : Nat, clean : Nat, dirty : Nat]

-----------------------------------------------------------------------------
(* Initial state: calloc, malloc, swap_init, init_second_level *)

Unmapped == [frame |-> 0, valid |-> FALSE, dirty |-> FALSE, ref |-> FALSE,
             onswap |-> FALSE, swap_off |-> INVALID_SWAP]

(* Bytes never written; no access reads them. *)
Blank == [version |-> 0, vaddr |-> NoPage]

MemoryInit ==
    /\ pte = [p \in Page |-> Unmapped]
    /\ coremap = [f \in Frame |-> NoPage]
    /\ physmem = [f \in Frame |-> Blank]
    /\ swapmap = {}
    /\ swapfile = [s \in Slot |-> Blank]
    /\ stats = [hit |-> 0, miss |-> 0, ref |-> 0, clean |-> 0, dirty |-> 0]
    /\ complained = FALSE
    /\ halted = "no"

-----------------------------------------------------------------------------
(* Helpers *)

FreeFrames == {f \in Frame : coremap[f] = NoPage}
FirstFree(f) == f \in FreeFrames /\ \A g \in FreeFrames : f <= g

(* access_mem adds one to the version of the page on a store or a modify. *)
Writes(type) == type \in {"S", "M"}
Increment(bytes, type) ==
    [bytes EXCEPT !.version = IF Writes(type) THEN @ + 1 ELSE @]

(* Mutant: init_frame records the address before it zero-fills the frame. *)
ZeroFilledLast(p) == [version |-> 0, vaddr |-> NoPage]

(* init_frame: zero-filled, with the address it was allocated for. *)
ZeroFilled(p) == [version |-> 0, vaddr |-> p]

(* bitmap_alloc: the lowest clear bit. *)
FirstClear(s) == s \in Slot \ swapmap /\ \A t \in Slot \ swapmap : s <= t

(* Mutants: the frame word counts frames from one; a write that brings the *)
(* page in does not make it dirty.                                         *)
MappedFromOne(entry, f, type) ==
    [entry EXCEPT !.frame = f + 1, !.valid = TRUE, !.ref = TRUE, !.onswap = FALSE,
                  !.dirty = ~entry.onswap \/ Writes(type)]
MappedCleanAfterWrite(entry, f, type) ==
    [entry EXCEPT !.frame = f, !.valid = TRUE, !.ref = TRUE, !.onswap = FALSE,
                  !.dirty = ~entry.onswap]

(* The end of find_physpage for an access that missed: a new frame word,   *)
(* without the swap bit, then VALID, REF, and DIRTY for a page that is     *)
(* either new or being written; swap_off is left alone.                    *)
Mapped(entry, f, type) ==
    [entry EXCEPT !.frame = f, !.valid = TRUE, !.ref = TRUE, !.onswap = FALSE,
                  !.dirty = ~entry.onswap \/ Writes(type)]

(* The same for a hit. *)
Referenced(entry, type) ==
    [entry EXCEPT !.ref = TRUE, !.dirty = @ \/ Writes(type)]

(* clock_evict passed over the page. *)
Unreferenced(entry) == [entry EXCEPT !.ref = FALSE]

(* Mutants: the slot returned by swap_pageout is not kept; a clean victim  *)
(* stays valid.                                                            *)
EvictedDirtyLosesSlot(entry, slot) == [entry EXCEPT !.valid = FALSE, !.onswap = TRUE]
EvictedCleanStaysValid(entry) == entry

(* The entry of a victim; slot is what swap_pageout returned. *)
EvictedDirty(entry, slot) ==
    [entry EXCEPT !.valid = FALSE, !.onswap = TRUE, !.swap_off = slot]
EvictedClean(entry) == [entry EXCEPT !.valid = FALSE]

-----------------------------------------------------------------------------
(* Swap *)

(* Mutants: bitmap_alloc does not mark the slot it returns; a page that    *)
(* has a slot is not written to it again.                                  *)
swap_pageout_unmarked(f, at, slot) ==
    /\ \/ at \in Slot /\ slot = at
       \/ at = INVALID_SWAP /\ FirstClear(slot)
    /\ swapfile' = [swapfile EXCEPT ![slot] = physmem[f]]
    /\ UNCHANGED <<swapmap, complained>>
swap_pageout_once(f, at, slot) ==
    \/ at \in Slot /\ slot = at /\ UNCHANGED <<swapmap, swapfile, complained>>
    \/ /\ at = INVALID_SWAP /\ FirstClear(slot)
       /\ swapmap' = swapmap \cup {slot}
       /\ swapfile' = [swapfile EXCEPT ![slot] = physmem[f]]
       /\ UNCHANGED complained

(* swap_pageout(f, at) returns slot.  A page without a slot is given the   *)
(* lowest free one and keeps it for good: nothing clears a bit of swapmap. *)
(* Without a free slot, or when the write fails, it complains and returns  *)
(* INVALID_SWAP.                                                           *)
swap_pageout(f, at, slot) ==
    \/ /\ \/ at \in Slot /\ slot = at /\ swapmap' = swapmap
          \/ at = INVALID_SWAP /\ FirstClear(slot) /\ swapmap' = swapmap \cup {slot}
       /\ swapfile' = [swapfile EXCEPT ![slot] = physmem[f]]
       /\ UNCHANGED complained
    \/ /\ slot = INVALID_SWAP
       /\ \/ at = INVALID_SWAP /\ Slot \subseteq swapmap /\ swapmap' = swapmap
          \/ DiskMayFail /\ at \in Slot /\ swapmap' = swapmap
          \/ /\ DiskMayFail /\ at = INVALID_SWAP
             /\ \E s \in Slot : FirstClear(s) /\ swapmap' = swapmap \cup {s}
       /\ complained' = TRUE
       /\ UNCHANGED swapfile

-----------------------------------------------------------------------------
(* allocate_frame *)

(* It gives frame f: the first one not in use, or the one that evict_fcn   *)
(* returned, whose page it writes to the slot it has or is given.          *)
allocate_frame(f, slot) ==
    \/ /\ FirstFree(f)
       /\ slot = INVALID_SWAP
       /\ UNCHANGED <<swapmap, swapfile, complained>>
    \/ /\ FreeFrames = {}
       /\ ~pte[coremap[f]].dirty
       /\ slot = INVALID_SWAP
       /\ UNCHANGED <<swapmap, swapfile, complained>>
    \/ /\ FreeFrames = {}
       /\ pte[coremap[f]].dirty
       /\ swap_pageout(pte[coremap[f]].frame, pte[coremap[f]].swap_off, slot)

(* The page table it leaves, evict_fcn having cleared some REF bits. *)
AfterAllocate(f, cleared, slot) ==
    [q \in Page |->
        IF q # coremap[f] THEN IF q \in cleared THEN Unreferenced(pte[q]) ELSE pte[q]
        ELSE IF pte[q].dirty THEN EvictedDirty(pte[q], slot)
        ELSE EvictedClean(pte[q])]

(* The page table after a miss of p that was given frame f. *)
AfterMiss(p, type, f, cleared, slot) ==
    [AfterAllocate(f, cleared, slot) EXCEPT ![p] = Mapped(@, f, type)]

Evicts(f) == coremap[f] # NoPage

(* Mutant: only dirty evictions are counted. *)
CountMissNotClean(f) ==
    [hit |-> stats.hit, miss |-> stats.miss + 1, ref |-> stats.ref + 1,
     clean |-> stats.clean,
     dirty |-> IF Evicts(f) /\ pte[coremap[f]].dirty THEN stats.dirty + 1 ELSE stats.dirty]

(* The counters after a hit. *)
CountHit ==
    [hit |-> stats.hit + 1, miss |-> stats.miss, ref |-> stats.ref + 1,
     clean |-> stats.clean, dirty |-> stats.dirty]

(* The counters after a miss that was given frame f. *)
CountMiss(f) ==
    [hit |-> stats.hit, miss |-> stats.miss + 1, ref |-> stats.ref + 1,
     clean |-> IF Evicts(f) /\ ~pte[coremap[f]].dirty THEN stats.clean + 1 ELSE stats.clean,
     dirty |-> IF Evicts(f) /\ pte[coremap[f]].dirty THEN stats.dirty + 1 ELSE stats.dirty]

-----------------------------------------------------------------------------
(* One line of the trace: access_mem, which calls find_physpage *)

CanAccess == halted = "no" /\ stats.ref < MaxRefs

(* The page is in memory. *)
Hit(type, p) ==
    /\ CanAccess
    /\ pte[p].valid
    /\ pte' = [pte EXCEPT ![p] = Referenced(@, type)]
    /\ physmem' = [physmem EXCEPT ![pte[p].frame] = Increment(@, type)]
    /\ stats' = CountHit
    /\ UNCHANGED <<coremap, swapmap, swapfile, complained, halted>>

(* It is not, and the entry does not say it is on swap. *)
MissNew(type, p, f, cleared, slot) ==
    /\ CanAccess
    /\ ~pte[p].valid /\ ~pte[p].onswap
    /\ allocate_frame(f, slot)
    /\ coremap' = [coremap EXCEPT ![f] = p]
    /\ pte' = AfterMiss(p, type, f, cleared, slot)
    /\ physmem' = [physmem EXCEPT ![f] = Increment(ZeroFilled(p), type)]
    /\ stats' = CountMiss(f)
    /\ UNCHANGED halted

(* It is on swap: swap_pagein reads its slot, after the victim was written. *)
MissSwapped(type, p, f, cleared, slot) ==
    /\ CanAccess
    /\ ~pte[p].valid /\ pte[p].onswap
    /\ pte[p].swap_off # INVALID_SWAP
    /\ allocate_frame(f, slot)
    /\ coremap' = [coremap EXCEPT ![f] = p]
    /\ pte' = AfterMiss(p, type, f, cleared, slot)
    /\ physmem' = [physmem EXCEPT ![f] = Increment(swapfile'[pte[p].swap_off], type)]
    /\ stats' = CountMiss(f)
    /\ UNCHANGED halted

(* swap_pagein asserts that the page has a slot, and a failed read makes   *)
(* find_physpage exit; memory dies with the process.                       *)
Die(p) ==
    /\ CanAccess
    /\ ~pte[p].valid /\ pte[p].onswap
    /\ \/ pte[p].swap_off = INVALID_SWAP /\ halted' = "assert"
       \/ pte[p].swap_off # INVALID_SWAP /\ DiskMayFail /\ halted' = "exit"
    /\ UNCHANGED <<pte, coremap, physmem, swapmap, swapfile, stats, complained>>

(* A miss with any frame as the victim: rand_evict, or any algorithm. *)
Miss(type, p, f, cleared) ==
    \E slot \in Slot \cup {INVALID_SWAP} :
        MissNew(type, p, f, cleared, slot) \/ MissSwapped(type, p, f, cleared, slot)

MemoryNext ==
    \/ \E type \in AccessType, p \in Page : Hit(type, p)
    \/ \E type \in AccessType, p \in Page, f \in Frame, cleared \in SUBSET Page :
          Miss(type, p, f, cleared)
    \/ \E p \in Page : Die(p)

MemorySpec == MemoryInit /\ [][MemoryNext]_vars

-----------------------------------------------------------------------------
(* Properties *)

(* Each variable stays in its type. *)
TypeOK ==
    /\ pte \in [Page -> Entry]
    /\ coremap \in [Frame -> Page \cup {NoPage}]
    /\ physmem \in [Frame -> Bytes]
    /\ swapmap \subseteq Slot
    /\ swapfile \in [Slot -> Bytes]
    /\ stats \in Counters
    /\ complained \in BOOLEAN
    /\ halted \in {"no", "assert", "exit"}

(* allocate_frame takes a victim through coremap and find_physpage follows *)
(* the page table; both must name the same frame, or a page would be       *)
(* evicted that another entry still maps.  A page is valid exactly when    *)
(* its frame points back at it, and no two pages share a frame.            *)
CoremapMatchesPageTable ==
    /\ \A p \in Page : pte[p].valid => coremap[pte[p].frame] = p
    /\ \A f \in Frame : coremap[f] # NoPage =>
          pte[coremap[f]].valid /\ pte[coremap[f]].frame = f

(* A slot is written for one page only, for good: two entries never carry  *)
(* the same slot, and the bitmap has every slot that an entry carries, so  *)
(* swap_pageout cannot hand it out again (bitmap_alloc).                   *)
SlotsBelongToOnePage ==
    /\ \A p \in Page : pte[p].swap_off # INVALID_SWAP => pte[p].swap_off \in swapmap
    /\ \A p, q \in Page :
          p # q /\ pte[p].swap_off # INVALID_SWAP => pte[p].swap_off # pte[q].swap_off

(* The check in access_mem never reports an error: the frame of a valid    *)
(* page, and the slot of a page on swap, hold the address of that page.    *)
PageHoldsItsAddress ==
    \A p \in Page :
        /\ pte[p].valid => physmem[pte[p].frame].vaddr = p
        /\ pte[p].onswap /\ pte[p].swap_off # INVALID_SWAP =>
              swapfile[pte[p].swap_off].vaddr = p

(* allocate_frame drops a page whose DIRTY bit is clear without writing    *)
(* it: its slot must hold the very bytes of the frame.                     *)
CleanPageIsOnSwap ==
    \A p \in Page :
        pte[p].valid /\ ~pte[p].dirty =>
            /\ pte[p].swap_off # INVALID_SWAP
            /\ swapfile[pte[p].swap_off] = physmem[pte[p].frame]

(* The totals that main prints agree with each other and with memory: a    *)
(* reference is a hit or a miss, and a miss that evicted nothing filled a  *)
(* frame that was free.                                                    *)
CountersAgree ==
    /\ stats.ref = stats.hit + stats.miss
    /\ stats.miss = stats.clean + stats.dirty
                      + Cardinality({f \in Frame : coremap[f] # NoPage})

(* The simulator does not die on the assertion of swap_pagein before       *)
(* swap_pageout has told the user, at some earlier access, that it failed. *)
NoSilentAssertion == halted = "assert" => complained

(* find_physpage says that an entry neither valid nor on swap means the    *)
(* first reference to its page.  So no page that was ever written to swap  *)
(* may have such an entry: its next reference would zero it.               *)
NoWriteIsForgotten ==
    \A p \in Page :
        pte[p].swap_off # INVALID_SWAP => pte[p].valid \/ pte[p].onswap

-----------------------------------------------------------------------------
(* What the traced program sees *)

(* The version counter that an access to p would find. *)
Contents(p) ==
    IF pte[p].valid THEN physmem[pte[p].frame].version
    ELSE IF pte[p].onswap /\ pte[p].swap_off # INVALID_SWAP
         THEN swapfile[pte[p].swap_off].version
    ELSE 0

Versions == [p \in Page |-> Contents(p)]

Store == INSTANCE PageStore WITH version <- Versions

(* Whatever it evicts, reads and writes, the memory gives each page its    *)
(* own last version or, after forgetting it, zero; never an older version, *)
(* another page's, or one the program did not write.                       *)
ImplementsStore == Store!StoreSpec
=============================================================================
