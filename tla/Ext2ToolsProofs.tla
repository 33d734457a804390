------------------------- MODULE Ext2ToolsProofs -------------------------
(***************************************************************************)
(* Proofs about the ext2 tools, for every size of the image, every set of  *)
(* names and requests and any number of tools: every variable stays in its *)
(* domain (TypeOK), the metadata of an image outlives its tools            *)
(* (MetadataKept, by the inductive invariant KeptInv), and the directories *)
(* stay chains of entries (ChainsWhole, by ChainInv), as long as no tool   *)
(* marks or frees a wrong bit.                                             *)
(***************************************************************************)
EXTENDS Ext2Properties, WellFoundedInduction, TLAPS

-----------------------------------------------------------------------------
(* Arithmetic and searches. *)

LEMMA LeastElement ==
    ASSUME NEW S \in SUBSET Nat, S # {}
    PROVE  \E m \in S : \A x \in S : m <= x
<1>1. IsWellFoundedOn(OpToRel(<, Nat), Nat)
  BY NatLessThanWellFounded
<1>2. \E m \in S : \A y \in S : ~ (<<y, m>> \in OpToRel(<, Nat))
  BY <1>1, WFMin, Zenon
<1>3. PICK m \in S : \A y \in S : ~ (<<y, m>> \in OpToRel(<, Nat))
  BY <1>2
<1>4. ASSUME NEW x \in S, x < m PROVE <<x, m>> \in OpToRel(<, Nat)
  BY <1>4 DEF OpToRel
<1>5. \A x \in S : ~ (x < m)
  BY <1>3, <1>4, Zenon
<1> QED
  BY <1>5

LEMMA MinOfSet ==
    ASSUME NEW S \in SUBSET Nat, S # {}
    PROVE  Min(S) \in S /\ \A x \in S : Min(S) <= x
  BY LeastElement DEF Min

LEMMA ShortChains ==
    ASSUME NEW S, NEW a \in S, NEW b \in S, NEW c \in S
    PROVE  {<<a>>, <<a, b>>, <<a, b, c>>} \subseteq Seq(S) \ {<<>>}
  OBVIOUS

LEMMA Sizes ==
    /\ {NumBlocks, NumInodes, WordBits, MetaBlocks, LostBlocks, Direct, Capacity, Padded}
         \subseteq Nat \ {0}
    /\ 0 \in Blocks /\ 0 \in Inodes /\ Root \in Inodes /\ Lost \in Inodes
    /\ Blocks \subseteq Nat /\ Inodes \subseteq Nat
  BY NumbersAssumption DEF Blocks, Inodes, Root, Lost

LEMMA FirstIsOneOfThem ==
    ASSUME NEW places \in SUBSET (Nat \X Nat), places # {}
    PROVE  First(places) \in places /\ \A q \in places : Before(First(places), q)
<1> DEFINE Index == {p[1] : p \in places}
           Same == {q \in places : q[1] = Min(Index)}
           Place == {p[2] : p \in Same}
<1>1. Min(Index) \in Index /\ \A k \in Index : Min(Index) <= k
  <2>1. Index \in SUBSET Nat /\ Index # {}
    OBVIOUS
  <2> QED
    BY <2>1, MinOfSet
<1>2. Min(Place) \in Place /\ \A k \in Place : Min(Place) <= k
  <2>1. Same # {}
    BY <1>1
  <2>2. Place \in SUBSET Nat /\ Place # {}
    BY <2>1
  <2> QED
    BY <2>2, MinOfSet
<1>3. PICK p \in Same : p[2] = Min(Place)
  BY <1>2
<1>4. ASSUME NEW q \in places PROVE Before(p, q)
  <2>1. p[1] = Min(Index) /\ p \in places
    BY <1>3
  <2>4. p[1] \in Nat /\ q[1] \in Nat /\ q[1] \in Index
    BY <2>1
  <2>2. p[1] < q[1] \/ p[1] = q[1]
    <3>1. Min(Index) <= q[1]
      BY <1>1, <2>4
    <3> QED
      BY <3>1, <2>1, <2>4
  <2>3. p[1] = q[1] => p[2] <= q[2]
    <3>1. ASSUME p[1] = q[1] PROVE q \in Same
      BY <2>1, <3>1
    <3> QED
      BY <1>2, <1>3, <3>1
  <2> QED
    BY <2>2, <2>3 DEF Before
<1> QED
  BY <1>3, <1>4 DEF First

LEMMA WordRemainder ==
    ASSUME NEW b \in Int PROVE Bit(b) \in 0 .. WordBits - 1
  BY NumbersAssumption DEF Bit

LEMMA MarksABlock ==
    ASSUME NEW b \in Int PROVE Bit(b) \in Blocks
  BY WordRemainder, NumbersAssumption DEF Blocks

LEMMA FirstEmptyClear ==
    ASSUME NEW clear \in SUBSET Nat
    PROVE  /\ clear # {} => FirstEmpty(clear) \in clear
           /\ clear = {} => FirstEmpty(clear) = -2
           /\ FirstEmpty(clear) \in Int
<1>1. ASSUME clear # {} PROVE Min(clear) \in clear
  BY <1>1, MinOfSet
<1>2. CASE clear = {}
  BY <1>2 DEF FirstEmpty
<1>3. CASE clear # {}
  <2>1. FirstEmpty(clear) = Min(clear)
    BY <1>3, Zenon DEF FirstEmpty
  <2>2. FirstEmpty(clear) \in clear
    BY <1>1, <1>3, <2>1, Zenon
  <2>3. FirstEmpty(clear) \in Nat
    BY <2>2, Zenon
  <2>4. FirstEmpty(clear) \in Int
    BY <2>3
  <2> QED
    BY <1>3, <2>2, <2>4, Zenon
<1> QED
  BY <1>2, <1>3

LEMMA BlocksOfBytes ==
    ASSUME NEW bytes \in Nat PROVE BlockCalc(bytes) \in Nat \ {0}
<1>1. ASSUME bytes # 0 PROVE (bytes - 1) \div BlockBytes \in Nat
  BY <1>1, SizesAssumption
<1> QED
  BY <1>1 DEF BlockCalc

-----------------------------------------------------------------------------
(* What the searches find. *)

LEMMA NewEntryTyped ==
    ASSUME NEW n \in AllNames, NEW i \in Inodes \cup {-1}, NEW t \in Types,
           NEW o \in Int, NEW r \in Int
    PROVE  NewEntry(n, i, t, o, r) \in Entry
  BY DEF NewEntry, Entry

LEMMA ZeroTyped == Zero \in Entry
<1>1. "" \in AllNames /\ "unknown" \in Types /\ -1 \in Inodes \cup {-1} /\ 0 \in Int
  BY DEF AllNames, Types
<1> QED
  BY <1>1, NewEntryTyped, Zenon DEF Zero

LEMMA TextTyped == {Missing, Text, System} \subseteq Entry
<1>1. /\ "?" \in AllNames /\ "unknown" \in Types /\ -1 \in Inodes \cup {-1}
      /\ {0, 1} \subseteq Int
  BY DEF AllNames, Types
<1>2. Missing \in Entry /\ Text \in Entry
  BY <1>1, NewEntryTyped, Zenon DEF Missing, Text
<1>3. System \in Entry
  BY <1>2 DEF System, Entry
<1> QED
  BY <1>2, <1>3

LEMMA BlockOfInode ==
    ASSUME TypeOK, NEW i \in Inodes, NEW k \in 0 .. Direct
    PROVE  inode[i].block[k] \in Blocks /\ content[inode[i].block[k]] \in Chain
  BY DEF TypeOK, Inode

LEMMA PlaceTyped ==
    ASSUME TypeOK, NEW d \in Inodes, NEW p \in Places(d)
    PROVE  /\ p \in Nat \X Nat /\ p[1] \in 0 .. Direct - 1
           /\ p[2] \in 1 .. Len(content[inode[d].block[p[1]]])
           /\ inode[d].block[p[1]] \in Blocks
           /\ EntryAt(d, p) \in Entry
<1>1. /\ p \in Nat \X Nat /\ p[1] \in 0 .. Direct - 1 /\ p[1] \in 0 .. Direct
      /\ p[2] \in 1 .. Len(content[inode[d].block[p[1]]])
  BY Sizes DEF Places
<1>2. /\ inode[d].block[p[1]] \in Blocks
      /\ content[inode[d].block[p[1]]] \in Chain
  BY <1>1, BlockOfInode
<1>3. EntryAt(d, p) \in Entry
  BY <1>1, <1>2 DEF EntryAt, Chain
<1> QED
  BY <1>1, <1>2, <1>3

LEMMA FirstStop ==
    ASSUME TypeOK, NEW d \in Inodes, NEW how, NEW n, Stops(d, how, n) # {}
    PROVE  First(Stops(d, how, n)) \in Places(d)
<1>1. Stops(d, how, n) \subseteq Places(d)
  BY DEF Stops
<1>2. Places(d) \subseteq Nat \X Nat
  BY PlaceTyped
<1>3. Stops(d, how, n) \in SUBSET (Nat \X Nat)
  BY <1>1, <1>2
<1>4. First(Stops(d, how, n)) \in Stops(d, how, n)
  BY <1>3, FirstIsOneOfThem
<1> QED
  BY <1>1, <1>4

LEMMA HitTyped ==
    ASSUME TypeOK, NEW d \in Inodes, NEW how, NEW n
    PROVE  Hit(d, how, n) \in Entry
<1>1. CASE Stops(d, how, n) = {}
  BY <1>1, TextTyped DEF Hit
<1>2. CASE Stops(d, how, n) # {}
  BY <1>2, FirstStop, PlaceTyped DEF Hit
<1> QED
  BY <1>1, <1>2

LEMMA RoomTyped ==
    ASSUME TypeOK, NEW d \in Inodes, NEW free
    PROVE  /\ checkParentDirEntListSpaceExists(d, free).grow \in BOOLEAN
           /\ checkParentDirEntListSpaceExists(d, free).block \in Blocks
<1> DEFINE indexes == RoomIndexes(d)
<1>1. CASE indexes # {}
  <2>1. indexes \in SUBSET Nat /\ indexes \subseteq 0 .. Direct
    BY Sizes DEF RoomIndexes
  <2>2. Min(indexes) \in 0 .. Direct
    BY <1>1, <2>1, MinOfSet
  <2>3. RoomBlock(d, indexes) \in Blocks
    BY <2>2, BlockOfInode DEF RoomBlock
  <2> QED
    BY <1>1, <2>3 DEF checkParentDirEntListSpaceExists
<1>2. CASE indexes = {}
  <2>1. 0 \in Blocks
    BY Sizes
  <2> QED
    BY <1>2, <2>1 DEF checkParentDirEntListSpaceExists
<1> QED
  BY <1>1, <1>2

-----------------------------------------------------------------------------
(* Type correctness: one lemma for each way in which a step ends. *)

LEMMA IdleTyped == Idle \in Tool
<1>1. "rm" \in Commands /\ "idle" \in Steps
  BY DEF Commands, Steps
<1> QED
  BY <1>1, Sizes DEF Idle, Tool

LEMMA InitTyped == Init => TypeOK
<1> SUFFICES ASSUME Init PROVE TypeOK
  OBVIOUS
<1> USE Sizes
<1>0. /\ blockBits = 0 .. MetaBlocks + LostBlocks \cup {NumBlocks - 1}
      /\ inodeBits = 0 .. Lost
      /\ freeBlocks = NumBlocks - 2 - MetaBlocks - LostBlocks
      /\ freeInodes = NumInodes - 3
      /\ usedDirs = 2
  BY Zenon DEF Init, DiskInit
<1>1. blockBits \subseteq Blocks /\ inodeBits \subseteq Inodes
  BY <1>0, NumbersAssumption DEF Blocks, Inodes, Lost
<1>2. {freeBlocks, freeInodes, usedDirs} \subseteq Int
  BY <1>0
<1>3. inode \in [Inodes -> Inode]
  <2> DEFINE n(i) == CASE i = Root -> 1 [] i = Lost -> LostBlocks [] OTHER -> 0
             first(i) == IF i = Root THEN RootBlock ELSE RootBlock + 1
             table(i) == [k \in 0 .. Direct |-> IF k < n(i) THEN first(i) + k ELSE 0]
             e(i) == [mode |-> IF n(i) = 0 THEN "none" ELSE "dir",
                      links |-> IF i = Root THEN 3 ELSE IF i = Lost THEN 2 ELSE 0,
                      blocks |-> n(i), block |-> table(i)]
  <2>1. ASSUME NEW i \in Inodes PROVE e(i) \in Inode
    <3>1. n(i) \in Nat
      OBVIOUS
    <3>2. ASSUME NEW k \in 0 .. Direct, k < n(i) PROVE first(i) + k \in Blocks
      BY <3>2, NumbersAssumption DEF Blocks, RootBlock, Root, Lost
    <3>3. table(i) \in [0 .. Direct -> Blocks]
      BY <3>2
    <3> HIDE DEF n, table
    <3> QED
      BY <3>1, <3>3 DEF Inode
  <2>2. inode = [i \in Inodes |-> e(i)]
    BY DEF Init, DiskInit
  <2> HIDE DEF e
  <2> QED
    BY <2>1, <2>2
<1>4. content \in [Blocks -> Chain]
  <2>1. {"", ".", "..", LostFound} \subseteq AllNames /\ {"dir", "unknown"} \subseteq Types
    BY DEF AllNames, Types
  <2>2. ASSUME NEW o \in Int, NEW r \in Int
        PROVE  /\ NewEntry(".", Root, "dir", o, r) \in Entry
               /\ NewEntry("..", Root, "dir", o, r) \in Entry
               /\ NewEntry(".", Lost, "dir", o, r) \in Entry
               /\ NewEntry(LostFound, Lost, "dir", o, r) \in Entry
               /\ NewEntry("", -1, "unknown", o, r) \in Entry
    BY <2>1, NewEntryTyped
  <2>3. Zero \in Entry
    BY ZeroTyped
  <2> DEFINE root == <<NewEntry(".", Root, "dir", 0, 1), NewEntry("..", Root, "dir", 1, 1),
                       NewEntry(LostFound, Lost, "dir", 2, Capacity - 2)>>
             none == <<NewEntry("", -1, "unknown", 0, Capacity)>>
             dots == DotEntries(Lost, Root)
             system == <<System>>
             zero == <<Zero>>
  <2>7. {0, 1, 2, Capacity - 1, Capacity - 2, Capacity} \subseteq Int
    OBVIOUS
  <2>4. root \in Chain /\ none \in Chain /\ zero \in Chain /\ system \in Chain
    <3>1. /\ NewEntry(".", Root, "dir", 0, 1) \in Entry
          /\ NewEntry("..", Root, "dir", 1, 1) \in Entry
          /\ NewEntry(LostFound, Lost, "dir", 2, Capacity - 2) \in Entry
          /\ NewEntry("", -1, "unknown", 0, Capacity) \in Entry
      BY <2>2, <2>7, Zenon
    <3>2. System \in Entry
      BY TextTyped
    <3> QED
      BY <3>1, <3>2, <2>3, ShortChains, Zenon DEF Chain
  <2>5. dots \in Chain
    <3>1. /\ NewEntry(".", Lost, "dir", 0, 1) \in Entry
          /\ NewEntry("..", Root, "dir", 1, Capacity - 1) \in Entry
      BY <2>2, <2>7, Zenon
    <3> QED
      BY <3>1, ShortChains, Zenon DEF DotEntries, Chain
  <2>6. content = [b \in Blocks |-> CASE b = RootBlock -> root
                                      [] b = RootBlock + 1 -> dots
                                      [] b \in RootBlock + 2 .. LostLast -> none
                                      [] b \in 1 .. MetaBlocks -> system
                                      [] OTHER -> zero]
    BY Zenon DEF Init, DiskInit
  <2> HIDE DEF root, none, dots, system, zero
  <2> QED
    BY <2>4, <2>5, <2>6
<1>5. tool \in Tool
  BY IdleTyped DEF Init
<1>6. exit \in {"ok", "failed", "killed"} /\ runs \in 0 .. MaxRuns
      /\ damage \subseteq Kinds /\ losses \in Nat
  BY SizesAssumption DEF Init
<1> QED
  BY <1>1, <1>2, <1>3, <1>4, <1>5, <1>6 DEF TypeOK

\* The parts of TypeOK that many steps leave alone.
LEMMA SameImage ==
    ASSUME TypeOK, UNCHANGED <<disk, runs>>, tool' \in Tool,
           exit' \in {"ok", "failed", "killed"}, damage' \subseteq Kinds, losses' \in Nat
    PROVE  TypeOK'
  BY DEF TypeOK, disk

LEMMA ToolFields ==
    ASSUME TypeOK
    PROVE  /\ tool.cmd \in Commands /\ tool.pc \in Steps /\ tool.parent \in Inodes
           /\ tool.name \in Names \cup {""} /\ tool.grow \in BOOLEAN
           /\ tool.block \in Blocks /\ tool.ino \in Inodes
           /\ tool.bytes \in Nat /\ tool.taken \in Nat
  BY DEF TypeOK, Tool

LEMMA LossCounted ==
    ASSUME TypeOK, losses' = IF HoldsInode THEN losses + 1 ELSE losses
    PROVE  losses' \in Nat
  BY DEF TypeOK

LEMMA EndTyped ==
    ASSUME TypeOK, NEW how \in {"failed", "killed"}, End(how)
    PROVE  TypeOK'
<1>1. UNCHANGED <<disk, runs>> /\ damage' = damage /\ tool' = Idle /\ exit' = how
  BY DEF End
<1>2. losses' \in Nat
  BY LossCounted DEF End
<1>3. damage' \subseteq Kinds
  BY <1>1 DEF TypeOK
<1> QED
  BY <1>1, <1>2, <1>3, IdleTyped, SameImage

LEMMA SpinTyped == ASSUME TypeOK, Spin PROVE TypeOK'
<1>1. UNCHANGED <<disk, runs>> /\ damage' = damage /\ exit' = exit
  BY DEF Spin
<1>2. losses' \in Nat
  BY LossCounted DEF Spin
<1>3. tool' \in Tool
  <2>1. "hung" \in Steps
    BY DEF Steps
  <2> QED
    BY <2>1 DEF Spin, TypeOK, Tool
<1>4. damage' \subseteq Kinds /\ exit' \in {"ok", "failed", "killed"}
  BY <1>1 DEF TypeOK
<1> QED
  BY <1>1, <1>2, <1>3, <1>4, SameImage

LEMMA InterruptTyped == ASSUME TypeOK, Interrupt PROVE TypeOK'
<1>1. UNCHANGED <<disk, runs>> /\ damage' = damage /\ losses' = losses
      /\ tool' = Idle /\ exit' = "killed"
  BY DEF Interrupt
<1>2. damage' \subseteq Kinds /\ losses' \in Nat
  BY <1>1 DEF TypeOK
<1> QED
  BY <1>1, <1>2, IdleTyped, SameImage

LEMMA StartAndTyped ==
    ASSUME TypeOK, NEW cmd \in Commands, NEW pc \in {"idle", "hung"},
           NEW how \in {"ok", "failed", "killed"}, StartAnd(cmd, pc, how)
    PROVE  TypeOK'
<1>1. UNCHANGED <<disk, runs>> /\ damage' = damage /\ losses' = losses /\ exit' = how
  BY DEF StartAnd
<1>2. tool' \in Tool
  <2>1. pc \in Steps
    BY DEF Steps
  <2>2. [Idle EXCEPT !.cmd = cmd, !.pc = pc] \in Tool
    BY <2>1, IdleTyped DEF Tool
  <2>3. tool' = Idle \/ tool' = [Idle EXCEPT !.cmd = cmd, !.pc = pc]
    BY DEF StartAnd
  <2> QED
    BY <2>2, <2>3, IdleTyped
<1>3. damage' \subseteq Kinds /\ losses' \in Nat
  BY <1>1 DEF TypeOK
<1> QED
  BY <1>1, <1>2, <1>3, SameImage

LEMMA StartInDirectoryTyped ==
    ASSUME TypeOK, NEW d \in Inodes, NEW n \in Names, StartInDirectory(d, n)
    PROVE  TypeOK'
<1>1. UNCHANGED <<disk, runs>> /\ damage' = damage /\ losses' = losses /\ exit' = exit
  BY DEF StartInDirectory
<1>2. tool' \in Tool
  <2>1. "hung" \in Steps /\ "cp" \in Commands
    BY DEF Steps, Commands
  <2> QED
    BY <2>1, IdleTyped DEF StartInDirectory, Tool
<1>3. damage' \subseteq Kinds /\ losses' \in Nat /\ exit' \in {"ok", "failed", "killed"}
  BY <1>1 DEF TypeOK
<1> QED
  BY <1>1, <1>2, <1>3, SameImage

LEMMA StartInTyped ==
    ASSUME TypeOK, Starts, NEW cmd \in Commands, NEW pc \in Steps, NEW d \in Inodes,
           NEW n \in Names, NEW ino \in Inodes, NEW bytes \in Nat, NEW free,
           StartIn(cmd, pc, d, n, ino, bytes, free)
    PROVE  TypeOK'
<1> DEFINE room == checkParentDirEntListSpaceExists(d, free)
<1>1. room.grow \in BOOLEAN /\ room.block \in Blocks
  BY RoomTyped
<1>2. /\ tool' = [cmd |-> cmd, pc |-> pc, parent |-> d, name |-> n, grow |-> room.grow,
                  block |-> room.block, ino |-> ino, bytes |-> bytes, taken |-> 0]
      /\ runs' = runs + 1
      /\ UNCHANGED <<disk, exit, damage, losses>>
  BY DEF StartIn
<1> HIDE DEF room
<1>3. tool' \in Tool
  BY <1>1, <1>2 DEF Tool
<1>4. runs' \in 0 .. MaxRuns
  <2>1. runs < MaxRuns
    BY Zenon DEF Starts
  <2> QED
    BY <1>2, <2>1, SizesAssumption DEF TypeOK
<1> QED
  BY <1>2, <1>3, <1>4 DEF TypeOK, disk

LEMMA TakesBlockTyped ==
    ASSUME TypeOK, NEW b \in Int, TakesBlock(b)
    PROVE  blockBits' \subseteq Blocks /\ freeBlocks' \in Int
  BY MarksABlock DEF TypeOK, TakesBlock

LEMMA OverrunTyped ==
    ASSUME NEW blocks PROVE Overrun(blocks) \subseteq Kinds
  BY DEF Overrun, Kinds

LEMMA SpilledTyped ==
    ASSUME NEW blocks PROVE Spilled(blocks) \subseteq Kinds
  BY DEF Spilled, Kinds

LEMMA ReusedTyped ==
    ASSUME NEW b PROVE Reused(b) \subseteq Kinds
  BY DEF Reused, Kinds

LEMMA TwinTyped == Twin \subseteq Kinds
  BY DEF Twin, Kinds

LEMMA TakesInodeTyped ==
    ASSUME TypeOK, NEW mode \in {"reg", "dir", "lnk"}, NEW links \in Nat, NEW blocks \in Nat,
           ClearInodes # {}, TakesInode(mode, links, blocks), usedDirs' \in Int
    PROVE  TypeOK'
<1> DEFINE i == FirstEmpty(ClearInodes)
<1>1. i \in Inodes
  BY FirstEmptyClear, Sizes DEF ClearInodes
<1>2. /\ inodeBits' = inodeBits \cup {i}
      /\ freeInodes' = freeInodes - 1
      /\ inode' = [inode EXCEPT ![i] = [mode |-> mode, links |-> links, blocks |-> blocks,
                                        block |-> inode[i].block]]
      /\ tool' = [tool EXCEPT !.ino = i, !.pc = "blocks"]
      /\ UNCHANGED <<blockBits, freeBlocks, content, exit, runs, damage, losses>>
  BY DEF TakesInode
<1> HIDE DEF i
<1>3. inodeBits' \subseteq Inodes /\ freeInodes' \in Int
  BY <1>1, <1>2 DEF TypeOK
<1>4. inode' \in [Inodes -> Inode]
  BY <1>1, <1>2 DEF TypeOK, Inode
<1>5. tool' \in Tool
  <2>1. "blocks" \in Steps
    BY DEF Steps
  <2> QED
    BY <1>1, <1>2, <2>1 DEF TypeOK, Tool
<1> QED
  BY <1>2, <1>3, <1>4, <1>5 DEF TypeOK

-----------------------------------------------------------------------------
(* Type correctness: chains of entries. *)

LEMMA LastTyped ==
    ASSUME TypeOK, NEW b \in Blocks
    PROVE  LastOf(b) \in Entry /\ Len(content[b]) \in Nat \ {0} /\ content[b] \in Chain
<1>1. content[b] \in Chain
  BY DEF TypeOK
<1>2. Len(content[b]) \in Nat \ {0}
  BY <1>1 DEF Chain
<1> QED
  BY <1>1, <1>2 DEF LastOf, Chain

LEMMA ChangedChain ==
    ASSUME NEW chain \in Chain, NEW j \in 1 .. Len(chain), NEW e \in Entry
    PROVE  [chain EXCEPT ![j] = e] \in Chain /\ Len([chain EXCEPT ![j] = e]) = Len(chain)
<1> DEFINE new == [chain EXCEPT ![j] = e]
<1>1. chain \in [1 .. Len(chain) -> Entry] /\ Len(chain) \in Nat \ {0}
  BY DEF Chain
<1>2. new \in [1 .. Len(chain) -> Entry]
  BY <1>1
<1>3. new \in Seq(Entry) /\ Len(new) = Len(chain)
  BY <1>1, <1>2
<1> QED
  BY <1>1, <1>3 DEF Chain

LEMMA GrownChain ==
    ASSUME NEW chain \in Chain, NEW e \in Entry
    PROVE  Append(chain, e) \in Chain
  BY DEF Chain

LEMMA PlacedEntry ==
    ASSUME NEW e \in Entry, NEW o \in Int, NEW r \in Int
    PROVE  [e EXCEPT !.off = o, !.rec = r] \in Entry
  BY DEF Entry

LEMMA ShortenedEntry ==
    ASSUME NEW e \in Entry, NEW r \in Int, NEW f \in BOOLEAN
    PROVE  [e EXCEPT !.rec = r, !.ended = f] \in Entry
  BY DEF Entry

LEMMA UpdatedBlocks ==
    ASSUME NEW f \in [0 .. Direct -> Blocks], NEW k, NEW b \in Blocks
    PROVE  [f EXCEPT ![k] = b] \in [0 .. Direct -> Blocks]
  OBVIOUS

LEMMA GrownInode ==
    ASSUME NEW r \in Inode, NEW k \in Nat, NEW b \in Blocks
    PROVE  [r EXCEPT !.block[k] = b, !.blocks = @ + 1] \in Inode
<1> DEFINE block == [r.block EXCEPT ![k] = b]
           blocks == r.blocks + 1
<1>0. r.block \in [0 .. Direct -> Blocks] /\ r.blocks \in Nat
  BY DEF Inode
<1>1. block \in [0 .. Direct -> Blocks]
  BY <1>0, UpdatedBlocks, Zenon
<1>4. blocks \in Nat
  BY <1>0
<1>2. [r EXCEPT !.block[k] = b, !.blocks = @ + 1] = [r EXCEPT !.block = block, !.blocks = blocks]
  OBVIOUS
<1> HIDE DEF block, blocks
<1>3. [r EXCEPT !.block = block, !.blocks = blocks] \in Inode
  BY <1>1, <1>4 DEF Inode
<1> QED
  BY <1>2, <1>3

LEMMA AppendedTyped ==
    ASSUME TypeOK, NEW b \in Blocks, NEW e \in Entry
    PROVE  Appended(b, e) \in [Blocks -> Chain]
<1> DEFINE old == LastOf(b)
           new == [e EXCEPT !.off = old.off + 1, !.rec = Capacity - (old.off + 1)]
           last == [old EXCEPT !.rec = 1, !.ended = @ /\ old.name \notin Aligned]
           chain == [content[b] EXCEPT ![Len(content[b])] = last]
<1>1. old \in Entry /\ Len(content[b]) \in Nat \ {0} /\ content[b] \in Chain
  BY LastTyped
<1>0. /\ old.off + 1 \in Int /\ Capacity - (old.off + 1) \in Int /\ 1 \in Int
      /\ (old.ended /\ old.name \notin Aligned) \in BOOLEAN
  BY <1>1, Sizes DEF Entry
<1>2. new \in Entry
  BY <1>0, PlacedEntry
<1>3. last \in Entry
  BY <1>0, <1>1, ShortenedEntry
<1>4. chain \in Chain
  BY <1>1, <1>3, ChangedChain
<1>5. Append(chain, new) \in Chain
  BY <1>2, <1>4, GrownChain
<1>6. <<Zero>> \in Chain
  BY ZeroTyped, ShortChains DEF Chain
<1>7. \A c \in Blocks : content[c] \in Chain
  BY DEF TypeOK
<1>8. Appended(b, e) = [c \in Blocks |-> CASE c = b -> Append(chain, new)
                                           [] c = b + 1 /\ RunsOver(b) -> <<Zero>>
                                           [] OTHER -> content[c]]
  BY DEF Appended
<1> HIDE DEF chain, new
<1> QED
  BY <1>5, <1>6, <1>7, <1>8

LEMMA AddsEntryTyped ==
    ASSUME TypeOK, NEW type \in Types, NEW table \in [Inodes -> Inode],
           AddsEntry(type, table)
    PROVE  TypeOK'
<1> DEFINE e == NewEntry(tool.name, tool.ino, type, 0, Capacity)
           b == IF tool.grow THEN FirstEmpty(ClearBlocks) ELSE tool.block
           d == tool.parent
<1>1. e \in Entry
  <2>1. tool.name \in AllNames
    BY ToolFields DEF AllNames
  <2>2. 0 \in Int /\ Capacity \in Int
    BY Sizes
  <2>3. tool.ino \in Inodes \cup {-1}
    BY ToolFields, Zenon
  <2> QED
    BY <2>1, <2>2, <2>3, NewEntryTyped, Zenon
<1>2. CASE Spin
  BY <1>2, SpinTyped
<1>3. CASE End("failed")
  BY <1>3, EndTyped
<1>4. CASE /\ ~ tool.grow
           /\ content' = Appended(b, e)
           /\ inode' = table
           /\ tool' = Idle
           /\ exit' = "ok"
           /\ damage' = damage
                \cup (IF RunsOver(b) /\ content[b + 1] # <<Zero>> THEN {"padded"} ELSE {})
                \cup Twin
           /\ UNCHANGED <<blockBits, inodeBits, freeBlocks, freeInodes, usedDirs, runs, losses>>
  <2>1. b \in Blocks
    <3>1. b = tool.block
      BY <1>4, Zenon
    <3> QED
      BY <3>1, ToolFields, Zenon
  <2> HIDE DEF b, e
  <2>2. content' \in [Blocks -> Chain]
    BY <1>1, <1>4, <2>1, AppendedTyped
  <2>3. damage' \subseteq Kinds
    <3>1. {"padded"} \subseteq Kinds /\ damage \subseteq Kinds
      BY DEF TypeOK, Kinds
    <3> QED
      BY <1>4, <3>1, TwinTyped, Zenon
  <2> QED
    BY <1>4, <2>2, <2>3, IdleTyped DEF TypeOK
<1>5. CASE /\ b \in Blocks
           /\ inode' = [table EXCEPT ![d].block[inode[d].blocks] = b, ![d].blocks = @ + 1]
           /\ content' = [content EXCEPT ![b] = <<e>>]
           /\ TakesBlock(b)
           /\ damage' = damage \cup Overrun({b}) \cup Reused(b) \cup Twin
           /\ tool' = Idle
           /\ exit' = "ok"
           /\ UNCHANGED <<inodeBits, freeInodes, usedDirs, runs, losses>>
  <2> HIDE DEF b, e
  <2>1. <<e>> \in Chain
    BY <1>1, ShortChains DEF Chain
  <2>2. content' \in [Blocks -> Chain]
    BY <1>5, <2>1 DEF TypeOK
  <2>3. inode' \in [Inodes -> Inode]
    <3>1. d \in Inodes /\ inode[d] \in Inode
      BY ToolFields DEF TypeOK
    <3>2. inode[d].blocks \in Nat
      BY <3>1 DEF Inode
    <3>3. [table[d] EXCEPT !.block[inode[d].blocks] = b, !.blocks = @ + 1] \in Inode
      BY <1>5, <3>1, <3>2, GrownInode
    <3>4. inode' = [table EXCEPT ![d] =
                      [table[d] EXCEPT !.block[inode[d].blocks] = b, !.blocks = @ + 1]]
      BY <1>5
    <3> QED
      BY <3>1, <3>3, <3>4
  <2>4. blockBits' \subseteq Blocks /\ freeBlocks' \in Int
    <3>1. b \in Int
      BY <1>5, Sizes
    <3> QED
      BY <1>5, <3>1, TakesBlockTyped
  <2>5. damage' \subseteq Kinds
    <3>1. damage \subseteq Kinds
      BY DEF TypeOK
    <3> QED
      BY <1>5, <3>1, OverrunTyped, ReusedTyped, TwinTyped, Zenon
  <2> QED
    BY <1>5, <2>2, <2>3, <2>4, <2>5, IdleTyped DEF TypeOK
<1> QED
  BY <1>2, <1>3, <1>4, <1>5, Zenon DEF AddsEntry

LEMMA UnlinkedTyped ==
    ASSUME NEW chain \in Chain, NEW j \in 1 .. Len(chain)
    PROVE  Unlinked(chain, j) \in Chain
<1> DEFINE n == Len(chain)
<1>1. chain \in [1 .. n -> Entry] /\ n \in Nat \ {0}
  BY DEF Chain
<1>2. CASE j = 1
  <2> DEFINE e == [chain[1] EXCEPT !.inode = -1]
  <2>1. chain[1] \in Entry
    BY <1>1
  <2>2. e \in Entry
    BY <2>1 DEF Entry
  <2>3. Unlinked(chain, j) = [chain EXCEPT ![1] = e]
    BY <1>1, <1>2 DEF Unlinked
  <2> QED
    BY <1>2, <2>2, <2>3, ChangedChain
<1>3. CASE j # 1
  <2> DEFINE e == [chain[j - 1] EXCEPT !.rec = @ + chain[j].rec]
             new(k) == CASE k < j - 1 -> chain[k]
                         [] k = j - 1 -> [chain[k] EXCEPT !.rec = @ + chain[j].rec]
                         [] k > j - 1 -> chain[k + 1]
  <2>1. chain[j - 1] \in Entry /\ chain[j] \in Entry
    BY <1>1, <1>3
  <2>2. chain[j - 1].rec + chain[j].rec \in Int
    BY <2>1 DEF Entry
  <2>3. e \in Entry
    BY <2>1, <2>2 DEF Entry
  <2>4. ASSUME NEW k \in 1 .. n - 1 PROVE new(k) \in Entry
    <3>1. chain[k] \in Entry /\ chain[k + 1] \in Entry
      BY <1>1
    <3>2. CASE k < j - 1
      BY <3>1, <3>2
    <3>3. CASE k = j - 1
      BY <2>3, <3>3
    <3>4. CASE k > j - 1
      BY <3>1, <3>4
    <3> QED
      BY <3>2, <3>3, <3>4
  <2>5. Unlinked(chain, j) = [k \in 1 .. n - 1 |-> new(k)]
    BY <1>3 DEF Unlinked
  <2> HIDE DEF new
  <2>6. Unlinked(chain, j) \in [1 .. n - 1 -> Entry]
    BY <2>4, <2>5
  <2>7. n - 1 \in Nat \ {0}
    BY <1>1, <1>3
  <2>8. Unlinked(chain, j) \in Seq(Entry) /\ Len(Unlinked(chain, j)) = n - 1
    BY <2>6, <2>7
  <2> QED
    BY <2>7, <2>8 DEF Chain
<1> QED
  BY <1>2, <1>3

LEMMA delEntryTyped ==
    ASSUME TypeOK, Starts, NEW d \in Inodes, NEW n, Stops(d, "file", n) # {},
           EntryAt(d, First(Stops(d, "file", n))).inode >= 0, delEntry(d, n)
    PROVE  TypeOK'
<1> DEFINE p == First(Stops(d, "file", n))
           b == inode[d].block[p[1]]
           i == EntryAt(d, p).inode
           blocks == inode[i].blocks
<1>1. /\ b \in Blocks /\ p[2] \in 1 .. Len(content[b]) /\ EntryAt(d, p) \in Entry
  BY FirstStop, PlaceTyped
<1>2. i \in Inodes
  <2>1. i \in Inodes \cup {-1} /\ i >= 0
    BY <1>1 DEF Entry
  <2> QED
    BY <2>1
<1>3. blocks \in Nat /\ inode[i] \in Inode
  BY <1>2 DEF TypeOK, Inode
<1>4. content[b] \in Chain
  BY <1>1 DEF TypeOK
<1>5. PICK junk \in 0 .. WordBits - 1 :
        LET freed == {inode[i].block[k] : k \in 0 .. (IF blocks < Direct THEN blocks ELSE Direct) - 1}
                     \cup (IF blocks > Direct THEN {junk} ELSE {})
        IN  /\ inodeBits' = inodeBits \ {i}
            /\ freeInodes' = freeInodes + 1
            /\ blockBits' = blockBits \ {Bit(c) : c \in freed}
            /\ freeBlocks' = freeBlocks + blocks
            /\ inode' = [inode EXCEPT ![i].links = 0]
            /\ content' = [content EXCEPT ![b] = Unlinked(content[b], p[2])]
            /\ damage' = damage
                 \cup Overrun(freed)
                 \cup (IF blocks <= Direct /\ 0 \notin freed THEN {} ELSE {"junk"})
                 \cup (IF \E s \in Spots : s # <<b, p[2]>> /\ Named(s).inode = i
                       THEN {"dangling"} ELSE {})
            /\ exit' = "ok"
            /\ runs' = runs + 1
            /\ UNCHANGED <<usedDirs, tool, losses>>
  BY Zenon DEF delEntry
<1> DEFINE freed == {inode[i].block[k] : k \in 0 .. (IF blocks < Direct THEN blocks ELSE Direct) - 1}
                    \cup (IF blocks > Direct THEN {junk} ELSE {})
           lost == IF \E s \in Spots : s # <<b, p[2]>> /\ Named(s).inode = i
                   THEN {"dangling"} ELSE {}
<1>6. /\ inodeBits' = inodeBits \ {i}
      /\ freeInodes' = freeInodes + 1
      /\ blockBits' = blockBits \ {Bit(c) : c \in freed}
      /\ freeBlocks' = freeBlocks + blocks
      /\ inode' = [inode EXCEPT ![i].links = 0]
      /\ content' = [content EXCEPT ![b] = Unlinked(content[b], p[2])]
      /\ damage' = damage
           \cup Overrun(freed)
           \cup (IF blocks <= Direct /\ 0 \notin freed THEN {} ELSE {"junk"})
           \cup lost
      /\ exit' = "ok"
      /\ runs' = runs + 1
      /\ UNCHANGED <<usedDirs, tool, losses>>
  BY <1>5, Zenon
<1> HIDE DEF p, b, i, blocks, freed, lost
<1>7. blockBits' \subseteq Blocks /\ inodeBits' \subseteq Inodes
      /\ {freeBlocks', freeInodes', usedDirs'} \subseteq Int
  BY <1>3, <1>6 DEF TypeOK
<1>8. inode' \in [Inodes -> Inode]
  <2>1. [inode[i] EXCEPT !.links = 0] \in Inode
    BY <1>3 DEF Inode
  <2>2. inode' = [inode EXCEPT ![i] = [inode[i] EXCEPT !.links = 0]]
    BY <1>6
  <2> QED
    BY <1>2, <2>1, <2>2 DEF TypeOK
<1>9. content' \in [Blocks -> Chain]
  <2>1. Unlinked(content[b], p[2]) \in Chain
    BY <1>1, <1>4, UnlinkedTyped
  <2> QED
    BY <1>6, <2>1 DEF TypeOK
<1>10. damage' \subseteq Kinds
  <2>1. lost \subseteq Kinds /\ {"junk"} \subseteq Kinds /\ damage \subseteq Kinds
    BY DEF lost, Kinds, TypeOK
  <2> QED
    BY <1>6, <2>1, OverrunTyped, Zenon
<1>11. runs' \in 0 .. MaxRuns
  BY <1>6, SizesAssumption DEF TypeOK, Starts
<1> QED
  BY <1>6, <1>7, <1>8, <1>9, <1>10, <1>11 DEF TypeOK

-----------------------------------------------------------------------------
(* Type correctness: one lemma for each action. *)

LEMMA RequestTyped ==
    ASSUME NEW q \in Requests PROVE q.name \in Names
  BY SizesAssumption

LEMMA makedirTyped ==
    ASSUME TypeOK, NEW q \in Requests, makedir(q) PROVE TypeOK'
<1>1. Starts /\ exit \in {"ok", "failed", "killed"}
  BY DEF makedir, TypeOK
<1>2. "mkdir" \in Commands /\ "inode" \in Steps
  BY DEF Commands, Steps
<1>3. CASE StartAnd("mkdir", "hung", exit)
  BY <1>1, <1>2, <1>3, StartAndTyped
<1>4. CASE StartAnd("mkdir", "idle", "failed")
  BY <1>2, <1>4, StartAndTyped
<1>5. CASE \E d \in Inodes : StartIn("mkdir", "inode", d, q.name, 0, 0, 2)
  <2>1. 0 \in Inodes /\ 0 \in Nat /\ q.name \in Names
    BY Sizes, RequestTyped
  <2>2. PICK d \in Inodes : StartIn("mkdir", "inode", d, q.name, 0, 0, 2)
    BY <1>5
  <2> QED
    BY <1>1, <1>2, <2>1, <2>2, StartInTyped
<1> QED
  BY <1>3, <1>4, <1>5, Zenon DEF makedir

LEMMA copyTyped ==
    ASSUME TypeOK, NEW q \in Requests, NEW local, copy(q, local) PROVE TypeOK'
<1>1. Starts /\ exit \in {"ok", "failed", "killed"}
  BY DEF copy, TypeOK
<1>6. CASE \E d \in Inodes : StartInDirectory(d, q.name)
  BY <1>6, RequestTyped, StartInDirectoryTyped
<1>2. "cp" \in Commands /\ "inode" \in Steps
  BY DEF Commands, Steps
<1>3. CASE StartAnd("cp", "hung", exit)
  BY <1>1, <1>2, <1>3, StartAndTyped
<1>4. CASE StartAnd("cp", "idle", "failed")
  BY <1>2, <1>4, StartAndTyped
<1>5. CASE \E d \in Inodes, bytes \in FileSizes :
             StartIn("cp", "inode", d, q.name, 0, bytes, BlockCalc(bytes) + 1)
  <2>1. 0 \in Inodes /\ q.name \in Names /\ FileSizes \subseteq Nat
    BY Sizes, RequestTyped, SizesAssumption
  <2>2. PICK d \in Inodes, bytes \in FileSizes :
          StartIn("cp", "inode", d, q.name, 0, bytes, BlockCalc(bytes) + 1)
    BY <1>5
  <2> QED
    BY <1>1, <1>2, <2>1, <2>2, StartInTyped
<1> QED
  BY <1>3, <1>4, <1>5, <1>6, Zenon DEF copy

LEMMA lnkTyped ==
    ASSUME TypeOK, NEW q1 \in Requests, NEW q2 \in Requests, lnk(q1, q2) PROVE TypeOK'
<1> DEFINE d1 == goodPathExists(q1)
           d2 == goodPathExists(q2)
           source == Hit(d1, "entry", q1.name).inode
<1>1. Starts /\ exit \in {"ok", "failed", "killed"}
  BY DEF lnk, TypeOK
<1>2. {"ln", "ln -s"} \subseteq Commands /\ {"entry", "inode"} \subseteq Steps
  BY DEF Commands, Steps
<1>3. CASE StartAnd("ln", "hung", exit)
  BY <1>1, <1>2, <1>3, StartAndTyped
<1>4. CASE StartAnd("ln", "idle", "failed")
  BY <1>2, <1>4, StartAndTyped
<1>5. CASE /\ {d1, d2} \subseteq Inodes /\ source >= 0
           /\ \/ StartIn("ln", "entry", d2, q2.name, source, 0, 2)
              \/ \E bytes \in PathSizes :
                   StartIn("ln -s", "inode", d2, q2.name, 0, bytes, 2)
  <2>1. d1 \in Inodes /\ d2 \in Inodes
    BY <1>5, Zenon
  <2>2. 0 \in Inodes /\ 0 \in Nat /\ q2.name \in Names /\ PathSizes \subseteq Nat
    BY Sizes, RequestTyped, SizesAssumption
  <2>3. source \in Inodes
    <3>1. Hit(d1, "entry", q1.name) \in Entry
      BY <2>1, HitTyped, Zenon
    <3>2. source \in Inodes \cup {-1}
      BY <3>1 DEF Entry
    <3>3. source >= 0
      BY <1>5, Zenon
    <3> HIDE DEF source
    <3>4. ~ (-1 >= 0)
      OBVIOUS
    <3>5. source # -1
      BY <3>3, <3>4, Zenon
    <3> QED
      BY <3>2, <3>5, Zenon
  <2>4. CASE StartIn("ln", "entry", d2, q2.name, source, 0, 2)
    <3> HIDE DEF d1, d2, source
    <3> QED
      BY <1>1, <1>2, <2>1, <2>2, <2>3, <2>4, StartInTyped
  <2>5. CASE \E bytes \in PathSizes : StartIn("ln -s", "inode", d2, q2.name, 0, bytes, 2)
    <3> HIDE DEF d1, d2, source
    <3>1. PICK bytes \in PathSizes : StartIn("ln -s", "inode", d2, q2.name, 0, bytes, 2)
      BY <2>5
    <3> QED
      BY <1>1, <1>2, <2>1, <2>2, <3>1, StartInTyped
  <2> QED
    BY <1>5, <2>4, <2>5, Zenon
<1> QED
  BY <1>3, <1>4, <1>5, Zenon DEF lnk

LEMMA rmoveTyped ==
    ASSUME TypeOK, NEW q \in Requests, rmove(q) PROVE TypeOK'
<1> DEFINE d == Walk(q.dirs)
           e == Hit(d, "file", q.name)
<1>1. Starts /\ exit \in {"ok", "failed", "killed"}
  BY DEF rmove, TypeOK
<1>2. "rm" \in Commands
  BY DEF Commands
<1>3. CASE StartAnd("rm", "hung", exit)
  BY <1>1, <1>2, <1>3, StartAndTyped
<1>4. CASE StartAnd("rm", "idle", "failed") \/ StartAnd("rm", "idle", "killed")
  BY <1>2, <1>4, StartAndTyped
<1>5. CASE /\ d \in Inodes /\ Matches("file", q.name, e)
           /\ e.inode >= 0 /\ delEntry(d, q.name)
  <2>1. e # Missing
    <3>1. Missing.type = "unknown"
      BY DEF Missing, NewEntry
    <3>2. e.type \in {"reg", "lnk"}
      BY <1>5 DEF Matches
    <3> HIDE DEF e
    <3> QED
      BY <3>1, <3>2
  <2>2. Stops(d, "file", q.name) # {} /\ e = EntryAt(d, First(Stops(d, "file", q.name)))
    BY <2>1, Zenon DEF Hit
  <2>3. EntryAt(d, First(Stops(d, "file", q.name))).inode >= 0
    BY <1>5, <2>2, Zenon
  <2> HIDE DEF d, e
  <2> QED
    BY <1>1, <1>5, <2>2, <2>3, delEntryTyped
<1> QED
  BY <1>3, <1>4, <1>5, Zenon DEF rmove

LEMMA newInodesTyped ==
    ASSUME TypeOK, allocateNewDirInode \/ allocateNewFileInode \/ allocateNewLinkInode
    PROVE  TypeOK'
<1>1. CASE End("failed")
  BY <1>1, EndTyped
<1>2. ASSUME NEW n, CanTakeInode(n) PROVE ClearInodes # {}
  BY <1>2 DEF CanTakeInode
<1>3. usedDirs \in Int /\ {0, 1, 2} \subseteq Nat
  BY DEF TypeOK
<1>4. CASE CanTakeInode(1) /\ TakesInode("dir", 2, 1) /\ usedDirs' = usedDirs + 1
  <2>1. usedDirs' \in Int
    BY <1>3, <1>4
  <2> QED
    BY <1>2, <1>3, <1>4, <2>1, TakesInodeTyped
<1>5. CASE /\ CanTakeInode(BlockCalc(tool.bytes)) /\ UNCHANGED usedDirs
           /\ TakesInode("reg", 1, BlockCalc(tool.bytes))
  <2>1. BlockCalc(tool.bytes) \in Nat
    BY ToolFields, BlocksOfBytes
  <2> QED
    BY <1>2, <1>3, <1>5, <2>1, TakesInodeTyped
<1>6. CASE CanTakeInode(1) /\ TakesInode("lnk", 0, 1) /\ UNCHANGED usedDirs
  BY <1>2, <1>3, <1>6, TakesInodeTyped
<1> QED
  BY <1>1, <1>4, <1>5, <1>6, Zenon
  DEF allocateNewDirInode, allocateNewFileInode, allocateNewLinkInode

LEMMA MovedTool ==
    ASSUME TypeOK, NEW pc \in Steps, NEW k \in Nat
    PROVE  /\ [tool EXCEPT !.pc = pc] \in Tool
           /\ [tool EXCEPT !.taken = k, !.pc = pc] \in Tool
  BY DEF TypeOK, Tool

LEMMA FirstEmptyInt == FirstEmpty(ClearBlocks) \in Int
  BY FirstEmptyClear, Sizes DEF ClearBlocks

LEMMA GivenBlock ==
    ASSUME TypeOK, NEW i \in Inodes, NEW k, NEW b \in Blocks
    PROVE  [inode EXCEPT ![i].block[k] = b] \in [Inodes -> Inode]
<1> DEFINE block == [inode[i].block EXCEPT ![k] = b]
<1>0. inode[i] \in Inode
  BY DEF TypeOK
<1>1. block \in [0 .. Direct -> Blocks]
  <2>1. inode[i].block \in [0 .. Direct -> Blocks]
    BY <1>0 DEF Inode
  <2> QED
    BY <2>1, UpdatedBlocks, Zenon
<1>2. [inode EXCEPT ![i].block[k] = b]
        = [inode EXCEPT ![i] = [inode[i] EXCEPT !.block = block]]
  OBVIOUS
<1> HIDE DEF block
<1>3. [inode[i] EXCEPT !.block = block] \in Inode
  BY <1>0, <1>1 DEF Inode
<1> QED
  BY <1>2, <1>3 DEF TypeOK

LEMMA allocateDirBlocksTyped ==
    ASSUME TypeOK, allocateDirBlocks PROVE TypeOK'
<1> DEFINE b == FirstEmpty(ClearBlocks)
<1>1. CASE End("failed")
  BY <1>1, EndTyped
<1>2. CASE /\ b \in Blocks
           /\ inode' = [inode EXCEPT ![tool.ino].block[0] = b]
           /\ content' = [content EXCEPT ![b] = DotEntries(tool.ino, tool.parent)]
           /\ TakesBlock(b)
           /\ damage' = damage \cup Overrun({b}) \cup Reused(b)
           /\ tool' = [tool EXCEPT !.pc = "entry"]
           /\ UNCHANGED <<inodeBits, freeInodes, usedDirs, exit, runs, losses>>
  <2>1. DotEntries(tool.ino, tool.parent) \in Chain
    <3>1. {".", ".."} \subseteq AllNames /\ "dir" \in Types /\ {0, 1, Capacity - 1} \subseteq Int
      BY Sizes DEF AllNames, Types
    <3>2. tool.ino \in Inodes \cup {-1} /\ tool.parent \in Inodes \cup {-1}
      BY ToolFields, Zenon
    <3>3. /\ NewEntry(".", tool.ino, "dir", 0, 1) \in Entry
          /\ NewEntry("..", tool.parent, "dir", 1, Capacity - 1) \in Entry
      BY <3>1, <3>2, NewEntryTyped, Zenon
    <3> QED
      BY <3>3, ShortChains, Zenon DEF DotEntries, Chain
  <2> HIDE DEF b
  <2>2. content' \in [Blocks -> Chain]
    BY <1>2, <2>1 DEF TypeOK
  <2>3. inode' \in [Inodes -> Inode]
    BY <1>2, ToolFields, GivenBlock
  <2>4. blockBits' \subseteq Blocks /\ freeBlocks' \in Int
    BY <1>2, TakesBlockTyped, Sizes
  <2>5. damage' \subseteq Kinds
    BY <1>2, OverrunTyped, ReusedTyped, Zenon DEF TypeOK
  <2>6. tool' \in Tool
    <3>1. "entry" \in Steps /\ 0 \in Nat
      BY DEF Steps
    <3> QED
      BY <1>2, <3>1, MovedTool
  <2> QED
    BY <1>2, <2>2, <2>3, <2>4, <2>5, <2>6 DEF TypeOK
<1> QED
  BY <1>1, <1>2, Zenon DEF allocateDirBlocks

LEMMA checkFileBlocksTyped ==
    ASSUME TypeOK, checkFileBlocks PROVE TypeOK'
<1>1. CASE End("failed")
  BY <1>1, EndTyped
<1>2. CASE /\ tool' = [tool EXCEPT !.pc = "take"]
           /\ UNCHANGED <<disk, exit, runs, damage, losses>>
  <2>1. "take" \in Steps /\ 0 \in Nat
    BY DEF Steps
  <2>2. tool' \in Tool
    BY <1>2, <2>1, MovedTool
  <2> QED
    BY <1>2, <2>2, SameImage DEF TypeOK
<1> QED
  BY <1>1, <1>2, Zenon DEF checkFileBlocks

LEMMA allocateFileBlocksTyped ==
    ASSUME TypeOK, allocateFileBlocks PROVE TypeOK'
<1> DEFINE k == tool.taken
           b == FirstEmpty(ClearBlocks)
           pointers == inode[tool.ino].block[Direct]
           next == IF k + 1 = FileBlocks(tool.bytes) THEN "text" ELSE "take"
<1>1. CASE End("failed")
  BY <1>1, EndTyped
<1>2. CASE /\ k <= Direct => b \in Blocks
           /\ TakesBlock(b)
           /\ inode' = IF k <= Direct THEN [inode EXCEPT ![tool.ino].block[k] = b] ELSE inode
           /\ tool' = [tool EXCEPT !.taken = k + 1, !.pc = next]
           /\ IF k <= Direct THEN UNCHANGED content
              ELSE content' = [content EXCEPT ![pointers] = <<Text>>]
           /\ damage' = damage \cup Overrun({b})
                               \cup (IF k <= Direct THEN {} ELSE Spilled({pointers}))
           /\ UNCHANGED <<inodeBits, freeInodes, usedDirs, exit, runs, losses>>
  <2>1. k \in Nat /\ k + 1 \in Nat
    <3>1. tool.taken \in Nat
      BY ToolFields, Zenon
    <3> QED
      BY <3>1
  <2>2. next \in Steps
    BY DEF Steps
  <2>3. b \in Int
    BY FirstEmptyInt
  <2> HIDE DEF b, next
  <2>4. tool' \in Tool
    BY <1>2, <2>1, <2>2, MovedTool
  <2>5. blockBits' \subseteq Blocks /\ freeBlocks' \in Int
    BY <1>2, <2>3, TakesBlockTyped
  <2>6. inode' \in [Inodes -> Inode]
    BY <1>2, ToolFields, GivenBlock DEF TypeOK
  <2>7. content' \in [Blocks -> Chain]
    <3>1. <<Text>> \in Chain
      BY TextTyped, ShortChains DEF Chain
    <3>2. content \in [Blocks -> Chain]
      BY DEF TypeOK
    <3> QED
      BY <1>2, <3>1, <3>2
  <2>8. damage' \subseteq Kinds
    BY <1>2, OverrunTyped, SpilledTyped, Zenon DEF TypeOK
  <2> QED
    BY <1>2, <2>4, <2>5, <2>6, <2>7, <2>8 DEF TypeOK
<1> QED
  BY <1>1, <1>2, Zenon DEF allocateFileBlocks

LEMMA copyFileBytesTyped ==
    ASSUME TypeOK, copyFileBytes PROVE TypeOK'
<1>1. CASE End("killed")
  BY <1>1, EndTyped
<1>2. CASE /\ tool' = [tool EXCEPT !.pc = "entry"]
           /\ UNCHANGED <<disk, exit, runs, damage, losses>>
  <2>1. "entry" \in Steps /\ 0 \in Nat
    BY DEF Steps
  <2>2. tool' \in Tool
    BY <1>2, <2>1, MovedTool
  <2> QED
    BY <1>2, <2>2, SameImage DEF TypeOK
<1> QED
  BY <1>1, <1>2, Zenon DEF copyFileBytes

LEMMA allocateLinkBlocksTyped ==
    ASSUME TypeOK, allocateLinkBlocks PROVE TypeOK'
<1> DEFINE b == FirstEmpty(ClearBlocks)
           i_block == [inode[tool.ino].block EXCEPT ![0] = b]
           written == {i_block[k] : k \in 0 .. Pieces[tool.bytes] - 1}
<1>1. CASE End("failed")
  BY <1>1, EndTyped
<1>2. CASE /\ b \in Blocks
           /\ inode' = [inode EXCEPT ![tool.ino].block = i_block]
           /\ content' = [c \in Blocks |-> IF c \in written THEN <<Text>> ELSE content[c]]
           /\ TakesBlock(b)
           /\ damage' = damage \cup Overrun({b}) \cup Spilled(written)
           /\ tool' = [tool EXCEPT !.pc = "entry"]
           /\ UNCHANGED <<inodeBits, freeInodes, usedDirs, exit, runs, losses>>
  <2>1. i_block \in [0 .. Direct -> Blocks]
    <3>1. inode[tool.ino].block \in [0 .. Direct -> Blocks]
      BY ToolFields DEF TypeOK, Inode
    <3> QED
      BY <1>2, <3>1, UpdatedBlocks, Zenon
  <2> HIDE DEF b, i_block, written
  <2>2. inode' \in [Inodes -> Inode]
    <3>1. inode[tool.ino] \in Inode
      BY ToolFields DEF TypeOK
    <3>2. [inode[tool.ino] EXCEPT !.block = i_block] \in Inode
      BY <2>1, <3>1 DEF Inode
    <3>3. inode' = [inode EXCEPT ![tool.ino] = [inode[tool.ino] EXCEPT !.block = i_block]]
      BY <1>2
    <3> QED
      BY <3>2, <3>3 DEF TypeOK
  <2>3. content' \in [Blocks -> Chain]
    <3>1. <<Text>> \in Chain
      BY TextTyped, ShortChains DEF Chain
    <3>2. content \in [Blocks -> Chain]
      BY DEF TypeOK
    <3> QED
      BY <1>2, <3>1, <3>2
  <2>4. blockBits' \subseteq Blocks /\ freeBlocks' \in Int
    BY <1>2, TakesBlockTyped, Sizes
  <2>5. damage' \subseteq Kinds
    BY <1>2, OverrunTyped, SpilledTyped, Zenon DEF TypeOK
  <2>6. tool' \in Tool
    <3>1. "entry" \in Steps /\ 0 \in Nat
      BY DEF Steps
    <3> QED
      BY <1>2, <3>1, MovedTool
  <2> QED
    BY <1>2, <2>2, <2>3, <2>4, <2>5, <2>6 DEF TypeOK
<1> QED
  BY <1>1, <1>2, Zenon DEF allocateLinkBlocks

LEMMA newEntriesTyped ==
    ASSUME TypeOK,
           \/ addNewDirToParentDirEntList \/ addNewFileToParentDirEntList
           \/ addSymbolicLink \/ addHardLink
    PROVE  TypeOK'
<1>1. {"reg", "dir", "lnk", "unknown"} \subseteq Types /\ inode \in [Inodes -> Inode]
  BY DEF Types, TypeOK
<1>2. CASE \E t \in Types : AddsEntry(t, inode)
  BY <1>1, <1>2, AddsEntryTyped
<1>3. CASE addHardLink
  <2> DEFINE i == tool.ino
             type == CASE inode[i].mode \in {"reg", "lnk"} -> "reg"
                       [] inode[i].mode = "dir" -> "dir"
                       [] OTHER -> "unknown"
             table == [inode EXCEPT ![i].links = @ + 1]
  <2>1. type \in Types
    BY <1>1
  <2>2. table \in [Inodes -> Inode]
    <3>0. i \in Inodes
      BY ToolFields, Zenon
    <3>1. inode[i] \in Inode /\ inode[i].links + 1 \in Int
      <4>1. inode[i] \in Inode
        BY <1>1, <3>0, Zenon
      <4>2. inode[i].links \in Int
        BY <4>1 DEF Inode
      <4> QED
        BY <4>1, <4>2
    <3>2. [inode[i] EXCEPT !.links = inode[i].links + 1] \in Inode
      BY <3>1 DEF Inode
    <3>3. table = [inode EXCEPT ![i] = [inode[i] EXCEPT !.links = inode[i].links + 1]]
      OBVIOUS
    <3> HIDE DEF table
    <3> QED
      BY <1>1, <3>2, <3>3
  <2>3. AddsEntry(type, table)
    BY <1>3, Zenon DEF addHardLink
  <2> HIDE DEF type, table
  <2> QED
    BY <2>1, <2>2, <2>3, AddsEntryTyped
<1> QED
  BY <1>1, <1>2, <1>3, Zenon
  DEF addNewDirToParentDirEntList, addNewFileToParentDirEntList, addSymbolicLink

LEMMA StutterTyped == ASSUME TypeOK, UNCHANGED vars PROVE TypeOK'
  BY DEF TypeOK, vars, disk

LEMMA StepTyped == TypeOK /\ [Next]_vars => TypeOK'
<1> SUFFICES ASSUME TypeOK, [Next]_vars PROVE TypeOK'
  OBVIOUS
<1>1. CASE Start
  BY <1>1, makedirTyped, copyTyped, lnkTyped, rmoveTyped DEF Start
<1>2. CASE Mkdir
  BY <1>2, newInodesTyped, allocateDirBlocksTyped, newEntriesTyped DEF Mkdir
<1>3. CASE Cp
  BY <1>3, newInodesTyped, checkFileBlocksTyped, allocateFileBlocksTyped,
     copyFileBytesTyped, newEntriesTyped DEF Cp
<1>4. CASE Ln
  BY <1>4, newInodesTyped, allocateLinkBlocksTyped, newEntriesTyped DEF Ln
<1>5. CASE Interrupt
  BY <1>5, InterruptTyped
<1>6. CASE UNCHANGED vars
  BY <1>6, StutterTyped
<1> QED
  BY <1>1, <1>2, <1>3, <1>4, <1>5, <1>6, Zenon DEF Next

\* Whatever the tools do, and in any order, the bitmaps stay within their bits,
\* the inode table holds numbers of blocks that exist, and so do the entries that
\* the tools write for inodes.  Of bytes that are no entries, which tools put
\* into directories too, it says nothing: Text stands for them.
THEOREM Ext2TypeCorrect == Spec => []TypeOK
  BY InitTyped, StepTyped, PTL DEF Spec

-----------------------------------------------------------------------------
(* The metadata of the fresh image. *)

Reserved == 0 .. MetaBlocks + LostBlocks

SafeInode(i, r) ==
    /\ \A k \in 0 .. Direct : r.block[k] \notin 1 .. MetaBlocks
    /\ i \in 0 .. Lost => r.mode \in {"none", "dir"}
    /\ i \notin 0 .. Lost => \A k \in 0 .. Direct : r.block[k] \notin Reserved \ {0}

SafeEntry(e) == e.type \in {"reg", "lnk"} => e.inode \notin 0 .. Lost
SafeChain(chain) == \A j \in 1 .. Len(chain) : SafeEntry(chain[j])

\* The bits of the fresh image stay set.
MarkedBits == Reserved \subseteq blockBits /\ 0 .. Lost \subseteq inodeBits

\* No i_block holds a number of the metadata, that of a new inode no number of
\* the directories either; numbers that a freed inode leaves behind included.
SafeTable == \A i \in Inodes : SafeInode(i, inode[i])

\* What rm takes for a file is not one of the reserved inodes, and no entry is
\* appended to the boot block, from which it would run into the superblock.
SafeContent ==
    /\ \A b \in Blocks : SafeChain(content[b])
    /\ \A b \in 1 .. MetaBlocks : content[b] = <<System>>
    /\ content[0] \in {<<Zero>>, <<Text>>}

\* A tool that has an inode of its own has a new one.
SafeTool ==
    /\ tool.block \notin 1 .. MetaBlocks
    /\ tool.cmd = "ln -s" => tool.bytes \in PathSizes
    /\ HoldsInode => tool.ino \notin 0 .. Lost

Kept == MarkedBits /\ SafeTable /\ SafeContent /\ SafeTool
Undamaged == Without({"overrun", "junk"})
KeptInv == TypeOK /\ (Undamaged => Kept)

-----------------------------------------------------------------------------
(* Inodes, entries and chains. *)

LEMMA FreshBlock ==
    ASSUME TypeOK, MarkedBits, FirstEmpty(ClearBlocks) \in Blocks
    PROVE  FirstEmpty(ClearBlocks) \notin Reserved
<1>1. ClearBlocks \in SUBSET Nat
  BY Sizes DEF ClearBlocks
<1>2. ClearBlocks # {}
  <2>1. -2 \notin Blocks
    BY DEF Blocks
  <2> QED
    BY <1>1, <2>1, FirstEmptyClear, Zenon
<1>3. FirstEmpty(ClearBlocks) \in ClearBlocks
  BY <1>1, <1>2, FirstEmptyClear, Zenon
<1> QED
  BY <1>3, Zenon DEF ClearBlocks, MarkedBits

LEMMA FreshInode ==
    ASSUME TypeOK, MarkedBits, ClearInodes # {}
    PROVE  FirstEmpty(ClearInodes) \in Inodes \ 0 .. Lost
<1>1. ClearInodes \in SUBSET Nat
  BY Sizes DEF ClearInodes
<1>2. FirstEmpty(ClearInodes) \in ClearInodes
  BY <1>1, FirstEmptyClear, Zenon
<1> QED
  BY <1>2, Zenon DEF ClearInodes, MarkedBits

LEMMA MetaNumbers ==
    /\ 0 \notin 1 .. MetaBlocks /\ 1 .. MetaBlocks \subseteq Reserved \ {0}
    /\ 1 .. MetaBlocks \subseteq Blocks
  BY NumbersAssumption DEF Reserved, Blocks

LEMMA ZeroReserved == 0 \in Reserved
  BY NumbersAssumption DEF Reserved

LEMMA UpdatedSafe ==
    ASSUME NEW i, NEW r \in Inode, SafeInode(i, r), NEW n \in Nat,
           NEW k, NEW b \in Blocks, b \notin Reserved
    PROVE  /\ SafeInode(i, [r EXCEPT !.block[k] = b])
           /\ SafeInode(i, [r EXCEPT !.block[k] = b, !.blocks = n])
<1>1. b \notin 1 .. MetaBlocks
  BY MetaNumbers, Zenon
<1>2. r.block \in [0 .. Direct -> Blocks]
  BY DEF Inode
<1> QED
  BY <1>1, <1>2 DEF SafeInode, Inode

LEMMA SafeCount ==
    ASSUME NEW i, NEW r \in Inode, SafeInode(i, r), NEW n
    PROVE  SafeInode(i, [r EXCEPT !.links = n])
  BY DEF SafeInode, Inode

LEMMA SafeOthers ==
    /\ SafeEntry(Zero) /\ SafeEntry(Text) /\ SafeEntry(System)
    /\ SafeChain(<<Zero>>) /\ SafeChain(<<Text>>) /\ SafeChain(<<System>>)
<1>1. SafeEntry(Zero) /\ SafeEntry(Text) /\ SafeEntry(System)
  BY DEF SafeEntry, Zero, Text, System, NewEntry
<1> QED
  BY <1>1 DEF SafeChain

LEMMA SafeSingle ==
    ASSUME NEW e, SafeEntry(e) PROVE SafeChain(<<e>>)
  BY DEF SafeChain

LEMMA SafeDots ==
    ASSUME NEW i, NEW d PROVE SafeChain(DotEntries(i, d))
<1> DEFINE x == NewEntry(".", i, "dir", 0, 1)
           y == NewEntry("..", d, "dir", 1, Capacity - 1)
<1>1. SafeEntry(x) /\ SafeEntry(y)
  BY DEF SafeEntry, NewEntry
<1>2. DotEntries(i, d) = <<x, y>>
  BY DEF DotEntries
<1> HIDE DEF x, y
<1> QED
  BY <1>1, <1>2 DEF SafeChain

LEMMA SafeChanges ==
    ASSUME NEW e \in Entry, SafeEntry(e), NEW o, NEW r, NEW f
    PROVE  /\ SafeEntry([e EXCEPT !.off = o, !.rec = r])
           /\ SafeEntry([e EXCEPT !.rec = r, !.ended = f])
           /\ SafeEntry([e EXCEPT !.rec = r])
  BY DEF SafeEntry, Entry

LEMMA SafeRemoved ==
    ASSUME NEW e \in Entry PROVE SafeEntry([e EXCEPT !.inode = -1])
<1>1. -1 \notin 0 .. Lost
  BY DEF Lost
<1> QED
  BY <1>1 DEF SafeEntry, Entry

LEMMA SafeUpdate ==
    ASSUME NEW chain \in Chain, SafeChain(chain), NEW j \in 1 .. Len(chain),
           NEW e \in Entry, SafeEntry(e)
    PROVE  SafeChain([chain EXCEPT ![j] = e])
<1>1. chain \in [1 .. Len(chain) -> Entry]
  BY DEF Chain
<1>2. Len([chain EXCEPT ![j] = e]) = Len(chain)
  BY ChangedChain
<1> QED
  BY <1>1, <1>2 DEF SafeChain

LEMMA SafeAppend ==
    ASSUME NEW chain \in Chain, SafeChain(chain), NEW e \in Entry, SafeEntry(e)
    PROVE  SafeChain(Append(chain, e))
<1>1. chain \in Seq(Entry) /\ Len(chain) \in Nat
  BY DEF Chain
<1>2. /\ Len(Append(chain, e)) = Len(chain) + 1
      /\ \A j \in 1 .. Len(chain) : Append(chain, e)[j] = chain[j]
      /\ Append(chain, e)[Len(chain) + 1] = e
  BY <1>1
<1>3. ASSUME NEW j \in 1 .. Len(chain) + 1 PROVE SafeEntry(Append(chain, e)[j])
  BY <1>1, <1>2 DEF SafeChain
<1> QED
  BY <1>2, <1>3 DEF SafeChain

LEMMA SafeUnlinked ==
    ASSUME NEW chain \in Chain, SafeChain(chain), NEW j \in 1 .. Len(chain)
    PROVE  SafeChain(Unlinked(chain, j))
<1> DEFINE n == Len(chain)
<1>1. chain \in [1 .. n -> Entry] /\ n \in Nat \ {0}
  BY DEF Chain
<1>2. CASE j = 1
  <2> DEFINE e == [chain[1] EXCEPT !.inode = -1]
  <2>1. chain[1] \in Entry
    BY <1>1
  <2>2. e \in Entry
    BY <2>1 DEF Entry
  <2>3. SafeEntry(e)
    BY <2>1, SafeRemoved
  <2>4. Unlinked(chain, j) = [chain EXCEPT ![1] = e]
    BY <1>1, <1>2 DEF Unlinked
  <2> HIDE DEF e
  <2> QED
    BY <1>2, <2>2, <2>3, <2>4, SafeUpdate
<1>3. CASE j # 1
  <2> DEFINE new(k) == CASE k < j - 1 -> chain[k]
                         [] k = j - 1 -> [chain[k] EXCEPT !.rec = @ + chain[j].rec]
                         [] k > j - 1 -> chain[k + 1]
  <2>1. ASSUME NEW k \in 1 .. n - 1 PROVE SafeEntry(new(k))
    <3>1. chain[k] \in Entry /\ SafeEntry(chain[k]) /\ SafeEntry(chain[k + 1])
      BY <1>1 DEF SafeChain
    <3>2. SafeEntry([chain[k] EXCEPT !.rec = @ + chain[j].rec])
      BY <3>1, SafeChanges
    <3> QED
      BY <3>1, <3>2
  <2>2. Unlinked(chain, j) = [k \in 1 .. n - 1 |-> new(k)]
    BY <1>3 DEF Unlinked
  <2>3. n - 1 \in Nat
    BY <1>1
  <2> HIDE DEF new
  <2>4. Len(Unlinked(chain, j)) = n - 1
    BY <2>2, <2>3
  <2> QED
    BY <2>1, <2>2, <2>4 DEF SafeChain
<1> QED
  BY <1>2, <1>3

-----------------------------------------------------------------------------
(* One lemma for each way in which a step ends. *)

LEMMA InitKept == Init => Kept
<1> SUFFICES ASSUME Init PROVE Kept
  OBVIOUS
<1> USE Sizes
<1>1. MarkedBits
  <2>1. blockBits = 0 .. MetaBlocks + LostBlocks \cup {NumBlocks - 1} /\ inodeBits = 0 .. Lost
    BY Zenon DEF Init, DiskInit
  <2> QED
    BY <2>1 DEF MarkedBits, Reserved
<1>2. SafeTable
  <2> DEFINE n(i) == CASE i = Root -> 1 [] i = Lost -> LostBlocks [] OTHER -> 0
             first(i) == IF i = Root THEN RootBlock ELSE RootBlock + 1
             table(i) == [k \in 0 .. Direct |-> IF k < n(i) THEN first(i) + k ELSE 0]
             e(i) == [mode |-> IF n(i) = 0 THEN "none" ELSE "dir",
                      links |-> IF i = Root THEN 3 ELSE IF i = Lost THEN 2 ELSE 0,
                      blocks |-> n(i), block |-> table(i)]
  <2>1. ASSUME NEW i \in Inodes PROVE SafeInode(i, e(i))
    <3>1. ASSUME NEW k \in 0 .. Direct
          PROVE  /\ table(i)[k] \notin 1 .. MetaBlocks
                 /\ i \notin 0 .. Lost => table(i)[k] = 0
      BY NumbersAssumption DEF RootBlock, Root, Lost
    <3>2. e(i).mode \in {"none", "dir"} /\ e(i).block = table(i)
      OBVIOUS
    <3> HIDE DEF table, e
    <3> QED
      BY <3>1, <3>2, Zenon DEF SafeInode
  <2>2. inode = [i \in Inodes |-> e(i)]
    BY DEF Init, DiskInit
  <2> HIDE DEF e
  <2> QED
    BY <2>1, <2>2 DEF SafeTable
<1>3. SafeContent
  <2> DEFINE root == <<NewEntry(".", Root, "dir", 0, 1), NewEntry("..", Root, "dir", 1, 1),
                       NewEntry(LostFound, Lost, "dir", 2, Capacity - 2)>>
             none == <<NewEntry("", -1, "unknown", 0, Capacity)>>
             dots == DotEntries(Lost, Root)
             system == <<System>>
             zero == <<Zero>>
  <2>1. SafeChain(root)
    <3>1. /\ SafeEntry(NewEntry(".", Root, "dir", 0, 1))
          /\ SafeEntry(NewEntry("..", Root, "dir", 1, 1))
          /\ SafeEntry(NewEntry(LostFound, Lost, "dir", 2, Capacity - 2))
      BY DEF SafeEntry, NewEntry
    <3> QED
      BY <3>1 DEF SafeChain
  <2>2. SafeChain(none)
    <3>1. SafeEntry(NewEntry("", -1, "unknown", 0, Capacity))
      BY DEF SafeEntry, NewEntry
    <3> QED
      BY <3>1, SafeSingle, Zenon
  <2>3. SafeChain(dots) /\ SafeChain(zero) /\ SafeChain(system)
    BY SafeDots, SafeOthers
  <2>4. content = [b \in Blocks |-> CASE b = RootBlock -> root
                                      [] b = RootBlock + 1 -> dots
                                      [] b \in RootBlock + 2 .. LostLast -> none
                                      [] b \in 1 .. MetaBlocks -> system
                                      [] OTHER -> zero]
    BY Zenon DEF Init, DiskInit
  <2> HIDE DEF root, none, dots, system, zero
  <2>5. ASSUME NEW b \in Blocks PROVE SafeChain(content[b])
    BY <2>1, <2>2, <2>3, <2>4
  <2>7. content[0] = zero
    BY <2>4, NumbersAssumption DEF RootBlock
  <2>6. ASSUME NEW b \in 1 .. MetaBlocks PROVE content[b] = system
    <3>1. /\ b # RootBlock /\ b # RootBlock + 1 /\ b \notin RootBlock + 2 .. LostLast
          /\ b \in Blocks
      BY MetaNumbers DEF RootBlock
    <3> QED
      BY <2>4, <3>1
  <2> QED
    BY <2>5, <2>6, <2>7 DEF SafeContent, zero, system
<1>4. SafeTool
  BY MetaNumbers DEF Init, Idle, SafeTool, HoldsInode
<1> QED
  BY <1>1, <1>2, <1>3, <1>4 DEF Kept

LEMMA SameImageKept ==
    ASSUME Kept, UNCHANGED <<blockBits, inodeBits, inode, content>>, SafeTool'
    PROVE  Kept'
<1>1. MarkedBits'
  BY DEF Kept, MarkedBits
<1>2. SafeTable'
  BY DEF Kept, SafeTable
<1>3. SafeContent'
  BY DEF Kept, SafeContent
<1> QED
  BY <1>1, <1>2, <1>3 DEF Kept

LEMMA IdleSafe == ASSUME tool' = Idle PROVE SafeTool'
<1>1. tool'.block = 0 /\ tool'.cmd = "rm" /\ tool'.pc = "idle"
  BY DEF Idle
<1> QED
  BY <1>1, MetaNumbers DEF SafeTool, HoldsInode

LEMMA EndKept == ASSUME Kept, NEW how, End(how) PROVE Kept'
  BY IdleSafe, SameImageKept DEF End, disk

LEMMA InterruptKept == ASSUME Kept, Interrupt PROVE Kept'
  BY IdleSafe, SameImageKept DEF Interrupt, disk

LEMMA MovedSafe ==
    ASSUME TypeOK, SafeTool, NEW pc, tool' = [tool EXCEPT !.pc = pc],
           pc = "hung" \/ HoldsInode
    PROVE  SafeTool'
<1>1. /\ tool'.block = tool.block /\ tool'.cmd = tool.cmd /\ tool'.bytes = tool.bytes
      /\ tool'.ino = tool.ino /\ tool'.pc = pc
  BY DEF TypeOK, Tool
<1> QED
  BY <1>1 DEF SafeTool, HoldsInode

LEMMA SpinKept == ASSUME TypeOK, Kept, Spin PROVE Kept'
<1>1. SafeTool'
  BY MovedSafe DEF Spin, Kept
<1> QED
  BY <1>1, SameImageKept DEF Spin, disk

LEMMA StartAndKept ==
    ASSUME Kept, NEW cmd \in Commands \ {"ln -s"}, NEW pc \in {"idle", "hung"}, NEW how,
           StartAnd(cmd, pc, how)
    PROVE  Kept'
<1>1. tool' = Idle \/ tool' = [Idle EXCEPT !.cmd = cmd, !.pc = pc]
  BY DEF StartAnd
<1>2. SafeTool'
  <2>0. Idle.block = 0 /\ Idle.cmd = "rm" /\ Idle.pc = "idle"
    BY DEF Idle
  <2>1. tool'.block = 0 /\ tool'.cmd \in {cmd, "rm"} /\ tool'.pc \in {pc, "idle"}
    BY <1>1, <2>0, IdleTyped DEF Tool
  <2>2. tool'.cmd # "ln -s" /\ tool'.pc \in {"idle", "hung"}
    BY <2>1
  <2> QED
    BY <2>1, <2>2, MetaNumbers DEF SafeTool, HoldsInode
<1> QED
  BY <1>2, SameImageKept DEF StartAnd, disk

LEMMA StartInDirectoryKept ==
    ASSUME Kept, NEW d, NEW n, StartInDirectory(d, n) PROVE Kept'
<1>1. tool'.block = 0 /\ tool'.cmd = "cp" /\ tool'.pc = "hung"
  BY DEF StartInDirectory, Idle
<1>2. SafeTool'
  BY <1>1, MetaNumbers DEF SafeTool, HoldsInode
<1> QED
  BY <1>2, SameImageKept DEF StartInDirectory, disk

LEMMA RoomSafe ==
    ASSUME TypeOK, SafeTable, NEW d \in Inodes, NEW free
    PROVE  checkParentDirEntListSpaceExists(d, free).block \notin 1 .. MetaBlocks
<1> DEFINE indexes == RoomIndexes(d)
<1>1. CASE indexes # {}
  <2>1. indexes \in SUBSET Nat /\ indexes \subseteq 0 .. Direct
    BY Sizes DEF RoomIndexes
  <2>2. Min(indexes) \in 0 .. Direct
    BY <1>1, <2>1, MinOfSet
  <2>3. RoomBlock(d, indexes) \notin 1 .. MetaBlocks
    BY <2>2 DEF RoomBlock, SafeTable, SafeInode
  <2> QED
    BY <1>1, <2>3 DEF checkParentDirEntListSpaceExists
<1>2. CASE indexes = {}
  BY <1>2, MetaNumbers DEF checkParentDirEntListSpaceExists
<1> QED
  BY <1>1, <1>2

LEMMA StartInKept ==
    ASSUME TypeOK, Kept, NEW cmd, NEW pc, NEW d \in Inodes, NEW n, NEW ino, NEW bytes, NEW free,
           pc = "inode" \/ (pc = "entry" /\ cmd = "ln"),
           cmd = "ln -s" => bytes \in PathSizes,
           StartIn(cmd, pc, d, n, ino, bytes, free)
    PROVE  Kept'
<1> DEFINE room == checkParentDirEntListSpaceExists(d, free)
<1>1. room.block \notin 1 .. MetaBlocks
  BY RoomSafe DEF Kept
<1>2. /\ tool' = [cmd |-> cmd, pc |-> pc, parent |-> d, name |-> n, grow |-> room.grow,
                  block |-> room.block, ino |-> ino, bytes |-> bytes, taken |-> 0]
      /\ UNCHANGED disk
  BY DEF StartIn
<1> HIDE DEF room
<1>3. SafeTool'
  BY <1>1, <1>2 DEF SafeTool, HoldsInode
<1> QED
  BY <1>2, <1>3, SameImageKept DEF disk

LEMMA TakesInodeKept ==
    ASSUME TypeOK, Kept, NEW mode, NEW links, NEW blocks, ClearInodes # {},
           TakesInode(mode, links, blocks)
    PROVE  Kept'
<1> DEFINE i == FirstEmpty(ClearInodes)
<1>1. i \in Inodes \ 0 .. Lost
  BY FreshInode DEF Kept
<1>2. /\ inodeBits' = inodeBits \cup {i}
      /\ inode' = [inode EXCEPT ![i] = [mode |-> mode, links |-> links, blocks |-> blocks,
                                        block |-> inode[i].block]]
      /\ tool' = [tool EXCEPT !.ino = i, !.pc = "blocks"]
      /\ UNCHANGED <<blockBits, content>>
  BY DEF TakesInode
<1> HIDE DEF i
<1>3. MarkedBits'
  BY <1>2 DEF Kept, MarkedBits
<1>4. SafeTable'
  <2>1. SafeInode(i, inode[i])
    BY <1>1 DEF Kept, SafeTable
  <2>2. SafeInode(i, [mode |-> mode, links |-> links, blocks |-> blocks,
                      block |-> inode[i].block])
    BY <1>1, <2>1 DEF SafeInode
  <2>3. inode' \in [Inodes -> {inode'[j] : j \in Inodes}] /\ inode \in [Inodes -> Inode]
    BY <1>2 DEF TypeOK
  <2> QED
    BY <1>2, <2>2, <2>3 DEF Kept, SafeTable
<1>5. SafeContent'
  BY <1>2 DEF Kept, SafeContent
<1>6. SafeTool'
  <2>1. /\ tool'.block = tool.block /\ tool'.cmd = tool.cmd /\ tool'.bytes = tool.bytes
        /\ tool'.ino = i
    BY <1>2 DEF TypeOK, Tool
  <2> QED
    BY <1>1, <2>1 DEF Kept, SafeTool
<1> QED
  BY <1>3, <1>4, <1>5, <1>6 DEF Kept

LEMMA MarkedMore ==
    ASSUME MarkedBits, NEW b, TakesBlock(b), UNCHANGED inodeBits
    PROVE  MarkedBits'
  BY DEF TakesBlock, MarkedBits

LEMMA BootUnread ==
    ASSUME SafeContent
    PROVE  Stuck(0) /\ Len(content[0]) = 1 /\ content[0][1].type = "unknown"
<1>1. Zero.rec = 0 /\ Zero.type = "unknown" /\ Text.rec = 0 /\ Text.type = "unknown"
  BY DEF Zero, Text, NewEntry
<1>2. ASSUME NEW e, content[0] = <<e>>
      PROVE  Len(content[0]) = 1 /\ content[0][1] = e /\ LastOf(0) = e
  BY <1>2 DEF LastOf
<1>3. CASE content[0] = <<Zero>>
  BY <1>1, <1>2, <1>3, Zenon DEF Stuck
<1>4. CASE content[0] = <<Text>>
  BY <1>1, <1>2, <1>4, Zenon DEF Stuck
<1> QED
  BY <1>3, <1>4 DEF SafeContent

LEMMA AppendedSafe ==
    ASSUME TypeOK, SafeContent, NEW b \in Blocks, b \notin 1 .. MetaBlocks, ~ Stuck(b),
           NEW e \in Entry, SafeEntry(e), content' = Appended(b, e)
    PROVE  SafeContent'
<1> DEFINE old == LastOf(b)
           new == [e EXCEPT !.off = old.off + 1, !.rec = Capacity - (old.off + 1)]
           last == [old EXCEPT !.rec = 1, !.ended = @ /\ old.name \notin Aligned]
           chain == [content[b] EXCEPT ![Len(content[b])] = last]
           whole == Append(chain, new)
<1>1. old \in Entry /\ Len(content[b]) \in Nat \ {0} /\ content[b] \in Chain
  BY LastTyped
<1>2. /\ old.off + 1 \in Int /\ Capacity - (old.off + 1) \in Int /\ 1 \in Int
      /\ (old.ended /\ old.name \notin Aligned) \in BOOLEAN
  BY <1>1, Sizes DEF Entry
<1>3. new \in Entry /\ last \in Entry
  BY <1>1, <1>2, PlacedEntry, ShortenedEntry
<1>4. SafeChain(content[b]) /\ SafeEntry(old)
  <2>1. SafeChain(content[b])
    BY DEF SafeContent
  <2> QED
    BY <1>1, <2>1 DEF SafeChain, LastOf
<1>5. SafeEntry(new) /\ SafeEntry(last)
  BY <1>1, <1>4, SafeChanges
<1>6. chain \in Chain /\ SafeChain(chain)
  <2>1. Len(content[b]) \in 1 .. Len(content[b])
    BY <1>1
  <2> QED
    BY <1>1, <1>3, <1>4, <1>5, <2>1, ChangedChain, SafeUpdate
<1>7. SafeChain(whole)
  BY <1>3, <1>5, <1>6, SafeAppend
<1>8. content' = [c \in Blocks |-> CASE c = b -> whole
                                     [] c = b + 1 /\ RunsOver(b) -> <<Zero>>
                                     [] OTHER -> content[c]]
  BY DEF Appended
<1> HIDE DEF whole
<1>9. ASSUME NEW c \in Blocks PROVE SafeChain(content'[c])
  BY <1>7, <1>8, SafeOthers DEF SafeContent
<1>11. b # 0
  BY BootUnread
<1>10. ASSUME NEW c \in 0 .. MetaBlocks PROVE content'[c] = content[c]
  <2>1. c \in Blocks /\ c # b /\ c # b + 1
    BY <1>11, NumbersAssumption DEF Blocks
  <2> QED
    BY <1>8, <2>1
<1>12. content'[0] = content[0]
  BY <1>10, Sizes
<1>13. ASSUME NEW c \in 1 .. MetaBlocks PROVE content'[c] = <<System>>
  BY <1>10, Sizes DEF SafeContent
<1> QED
  BY <1>9, <1>12, <1>13 DEF SafeContent

\* A chain is replaced, or some are, outside the metadata.
LEMMA ReplacedSafe ==
    ASSUME TypeOK, SafeContent, NEW blocks, NEW chain, SafeChain(chain),
           blocks \cap 1 .. MetaBlocks = {}, 0 \in blocks => chain = <<Text>>,
           content' = [c \in Blocks |-> IF c \in blocks THEN chain ELSE content[c]]
    PROVE  SafeContent'
<1>1. ASSUME NEW c \in Blocks PROVE SafeChain(content'[c])
  BY DEF SafeContent
<1>2. ASSUME NEW c \in 1 .. MetaBlocks PROVE content'[c] = <<System>>
  BY MetaNumbers DEF SafeContent
<1>3. content'[0] \in {content[0], <<Text>>}
  BY Sizes
<1> QED
  BY <1>1, <1>2, <1>3 DEF SafeContent

LEMMA ReplacedOneSafe ==
    ASSUME TypeOK, SafeContent, NEW b \in Blocks, b \notin 1 .. MetaBlocks,
           NEW chain, SafeChain(chain), b = 0 => chain = <<Text>>,
           content' = [content EXCEPT ![b] = chain]
    PROVE  SafeContent'
<1>1. content' = [c \in Blocks |-> IF c \in {b} THEN chain ELSE content[c]]
  BY DEF TypeOK
<1>2. {b} \cap 1 .. MetaBlocks = {} /\ (0 \in {b} => chain = <<Text>>)
  OBVIOUS
<1> QED
  BY <1>1, <1>2, ReplacedSafe

LEMMA GivenSafe ==
    ASSUME TypeOK, SafeTable, NEW i \in Inodes, NEW k, NEW b \in Blocks, b \notin Reserved,
           inode' = [inode EXCEPT ![i].block[k] = b]
    PROVE  SafeTable'
<1>1. inode[i] \in Inode /\ SafeInode(i, inode[i])
  BY DEF TypeOK, SafeTable
<1>2. SafeInode(i, [inode[i] EXCEPT !.block[k] = b])
  <2>1. 0 \in Nat
    OBVIOUS
  <2> QED
    BY <1>1, <2>1, UpdatedSafe
<1>3. inode' = [inode EXCEPT ![i] = [inode[i] EXCEPT !.block[k] = b]]
  OBVIOUS
<1> QED
  BY <1>2, <1>3 DEF TypeOK, SafeTable

LEMMA AddsEntryKept ==
    ASSUME TypeOK, Kept, NEW type \in Types, NEW table \in [Inodes -> Inode],
           type \in {"reg", "lnk"} => tool.ino \notin 0 .. Lost,
           \A i \in Inodes : SafeInode(i, table[i]),
           AddsEntry(type, table)
    PROVE  Kept'
<1> DEFINE e == NewEntry(tool.name, tool.ino, type, 0, Capacity)
           b == IF tool.grow THEN FirstEmpty(ClearBlocks) ELSE tool.block
           d == tool.parent
<1>1. e \in Entry
  <2>1. tool.name \in AllNames
    BY ToolFields DEF AllNames
  <2>2. 0 \in Int /\ Capacity \in Int
    BY Sizes
  <2>3. tool.ino \in Inodes \cup {-1}
    BY ToolFields, Zenon
  <2> QED
    BY <2>1, <2>2, <2>3, NewEntryTyped, Zenon
<1>2. SafeEntry(e)
  BY DEF SafeEntry, NewEntry
<1>3. CASE Spin
  BY <1>3, SpinKept
<1>4. CASE End("failed")
  BY <1>4, EndKept
<1>5. CASE /\ ~ tool.grow
           /\ ~ Stuck(b)
           /\ content' = Appended(b, e)
           /\ inode' = table
           /\ tool' = Idle
           /\ UNCHANGED <<blockBits, inodeBits>>
  <2>1. b \in Blocks /\ b \notin 1 .. MetaBlocks
    <3>1. b = tool.block
      BY <1>5, Zenon
    <3>2. tool.block \in Blocks
      BY ToolFields, Zenon
    <3> QED
      BY <3>1, <3>2, Zenon DEF Kept, SafeTool
  <2> HIDE DEF b, e
  <2>2. SafeContent'
    BY <1>1, <1>2, <1>5, <2>1, AppendedSafe DEF Kept
  <2>3. MarkedBits' /\ SafeTable'
    BY <1>5 DEF Kept, MarkedBits, SafeTable
  <2> QED
    BY <1>5, <2>2, <2>3, IdleSafe DEF Kept
<1>6. CASE /\ tool.grow
           /\ b \in Blocks
           /\ inode' = [table EXCEPT ![d].block[inode[d].blocks] = b, ![d].blocks = @ + 1]
           /\ content' = [content EXCEPT ![b] = <<e>>]
           /\ TakesBlock(b)
           /\ tool' = Idle
           /\ UNCHANGED inodeBits
  <2>1. b \notin Reserved
    <3>1. b = FirstEmpty(ClearBlocks)
      BY <1>6, Zenon
    <3> QED
      BY <1>6, <3>1, FreshBlock, Zenon DEF Kept
  <2>2. b \notin 1 .. MetaBlocks /\ b # 0
    BY <2>1, MetaNumbers, ZeroReserved, Zenon
  <2> HIDE DEF b, e
  <2>3. SafeContent'
    <3>1. SafeChain(<<e>>)
      BY <1>2, SafeSingle
    <3> QED
      BY <1>6, <2>2, <3>1, ReplacedOneSafe DEF Kept
  <2>4. SafeTable'
    <3>1. d \in Inodes
      BY ToolFields, Zenon
    <3>2. inode[d].blocks \in Nat /\ table[d] \in Inode
      BY <3>1 DEF TypeOK, Inode
    <3>3. table[d].blocks + 1 \in Nat
      BY <3>2 DEF Inode
    <3> DEFINE blocks == table[d].blocks + 1
    <3>4. inode' = [table EXCEPT ![d] =
                      [table[d] EXCEPT !.block[inode[d].blocks] = b, !.blocks = blocks]]
      BY <1>6
    <3> HIDE DEF blocks
    <3>5. SafeInode(d, [table[d] EXCEPT !.block[inode[d].blocks] = b, !.blocks = blocks])
      BY <1>6, <2>1, <3>1, <3>2, <3>3, UpdatedSafe DEF blocks
    <3> QED
      BY <3>1, <3>4, <3>5 DEF SafeTable
  <2>5. MarkedBits'
    BY <1>6, MarkedMore DEF Kept
  <2> QED
    BY <1>6, <2>3, <2>4, <2>5, IdleSafe DEF Kept
<1> QED
  BY <1>3, <1>4, <1>5, <1>6, Zenon DEF AddsEntry

LEMMA delEntryKept ==
    ASSUME TypeOK, Kept, NEW d \in Inodes, NEW n, Stops(d, "file", n) # {},
           EntryAt(d, First(Stops(d, "file", n))).inode >= 0,
           EntryAt(d, First(Stops(d, "file", n))).type \in {"reg", "lnk"},
           delEntry(d, n), Undamaged'
    PROVE  Kept'
<1> DEFINE p == First(Stops(d, "file", n))
           b == inode[d].block[p[1]]
           i == EntryAt(d, p).inode
           blocks == inode[i].blocks
<1>1. /\ b \in Blocks /\ p[2] \in 1 .. Len(content[b]) /\ EntryAt(d, p) \in Entry
      /\ b \notin 1 .. MetaBlocks
  <2>1. p \in Places(d)
    BY FirstStop
  <2> HIDE DEF p
  <2>2. p[1] \in 0 .. Direct
    <3>1. p[1] \in 0 .. Direct - 1
      BY <2>1, PlaceTyped
    <3> QED
      BY <3>1, Sizes
  <2> QED
    BY <2>1, <2>2, PlaceTyped DEF Kept, SafeTable, SafeInode
<1>2. i \in Inodes
  <2>1. i \in Inodes \cup {-1} /\ i >= 0
    BY <1>1 DEF Entry
  <2> QED
    BY <2>1
<1>3. i \notin 0 .. Lost
  <2>1. SafeChain(content[b])
    BY <1>1 DEF Kept, SafeContent
  <2>2. SafeEntry(EntryAt(d, p))
    BY <1>1, <2>1 DEF SafeChain, EntryAt
  <2> QED
    BY <2>2 DEF SafeEntry
\* The boot block has no entry of a file.
<1>13. b # 0
  <2>1. EntryAt(d, p) = content[b][p[2]] /\ EntryAt(d, p).type \in {"reg", "lnk"}
    BY Zenon DEF EntryAt
  <2>2. ASSUME b = 0 PROVE FALSE
    <3>1. Len(content[b]) = 1 /\ content[b][1].type = "unknown"
      BY <2>2, BootUnread DEF Kept
    <3>2. p[2] \in 1 .. Len(content[b])
      BY <1>1, Zenon
    <3> HIDE DEF p, b
    <3>3. p[2] = 1
      BY <3>1, <3>2
    <3> QED
      BY <2>1, <3>1, <3>3
  <2> QED
    BY <2>2
<1>4. PICK junk \in 0 .. WordBits - 1 :
        LET freed == {inode[i].block[k] : k \in 0 .. (IF blocks < Direct THEN blocks ELSE Direct) - 1}
                     \cup (IF blocks > Direct THEN {junk} ELSE {})
        IN  /\ inodeBits' = inodeBits \ {i}
            /\ blockBits' = blockBits \ {Bit(c) : c \in freed}
            /\ inode' = [inode EXCEPT ![i].links = 0]
            /\ content' = [content EXCEPT ![b] = Unlinked(content[b], p[2])]
            /\ damage' = damage
                 \cup Overrun(freed)
                 \cup (IF blocks <= Direct /\ 0 \notin freed THEN {} ELSE {"junk"})
                 \cup (IF \E s \in Spots : s # <<b, p[2]>> /\ Named(s).inode = i
                       THEN {"dangling"} ELSE {})
            /\ UNCHANGED tool
  BY Zenon DEF delEntry
<1> DEFINE direct == {inode[i].block[k] : k \in 0 .. (IF blocks < Direct THEN blocks ELSE Direct) - 1}
           freed == direct \cup (IF blocks > Direct THEN {junk} ELSE {})
           lost == IF \E s \in Spots : s # <<b, p[2]>> /\ Named(s).inode = i
                   THEN {"dangling"} ELSE {}
<1>5. /\ inodeBits' = inodeBits \ {i}
      /\ blockBits' = blockBits \ {Bit(c) : c \in freed}
      /\ inode' = [inode EXCEPT ![i].links = 0]
      /\ content' = [content EXCEPT ![b] = Unlinked(content[b], p[2])]
      /\ damage' = damage
           \cup Overrun(freed)
           \cup (IF blocks <= Direct /\ 0 \notin freed THEN {} ELSE {"junk"})
           \cup lost
      /\ UNCHANGED tool
  BY <1>4, Zenon
<1>6. blocks \in Nat /\ inode[i] \in Inode /\ SafeInode(i, inode[i])
  BY <1>2 DEF TypeOK, Inode, Kept, SafeTable
<1> HIDE DEF p, b, i, blocks, direct, freed, lost
\* The blocks of the inode are freed, and nothing else.
<1>7. /\ freed \subseteq 0 .. WordBits - 1
      /\ blocks <= Direct /\ 0 \notin freed
  <2>1. "overrun" \notin damage' /\ "junk" \notin damage'
    BY DEF Undamaged, Without
  <2>2. "junk" \notin damage' => blocks <= Direct /\ 0 \notin freed
    BY <1>5, Zenon
  <2>3. "overrun" \notin damage' => freed \subseteq 0 .. WordBits - 1
    BY <1>5, Zenon DEF Overrun
  <2> QED
    BY <2>1, <2>2, <2>3
<1>8. freed \cap Reserved = {}
  <2>1. freed = direct
    BY <1>6, <1>7, Sizes DEF freed
  <2>2. ASSUME NEW k \in 0 .. (IF blocks < Direct THEN blocks ELSE Direct) - 1
        PROVE  k \in 0 .. Direct
    BY <1>6, Sizes
  <2>3. ASSUME NEW c \in direct PROVE c \notin Reserved \ {0}
    BY <1>3, <1>6, <2>2, <2>3 DEF direct, SafeInode
  <2> QED
    BY <1>7, <2>1, <2>3
<1>9. MarkedBits'
  <2>1. ASSUME NEW c \in freed PROVE Bit(c) = c
    <3>1. c \in 0 .. WordBits - 1
      BY <1>7
    <3> QED
      BY <3>1, NumbersAssumption DEF Bit
  <2>2. {Bit(c) : c \in freed} \cap Reserved = {}
    BY <1>8, <2>1
  <2> QED
    BY <1>3, <1>5, <2>2 DEF Kept, MarkedBits
<1>10. SafeTable'
  <2>1. SafeInode(i, [inode[i] EXCEPT !.links = 0])
    BY <1>6, SafeCount
  <2>2. inode' = [inode EXCEPT ![i] = [inode[i] EXCEPT !.links = 0]]
    BY <1>5
  <2> QED
    BY <1>2, <2>1, <2>2 DEF TypeOK, Kept, SafeTable
<1>11. SafeContent'
  <2>1. content[b] \in Chain /\ SafeChain(content[b])
    BY <1>1 DEF TypeOK, Kept, SafeContent
  <2>2. SafeChain(Unlinked(content[b], p[2]))
    BY <1>1, <2>1, SafeUnlinked
  <2> QED
    BY <1>1, <1>5, <1>13, <2>2, ReplacedOneSafe DEF Kept
<1>12. SafeTool'
  BY <1>5 DEF Kept, SafeTool, HoldsInode
<1> QED
  BY <1>9, <1>10, <1>11, <1>12 DEF Kept

-----------------------------------------------------------------------------
(* One lemma for each action. *)

LEMMA startsKept ==
    ASSUME TypeOK, Kept, Start, Undamaged' PROVE Kept'
<1>0. /\ {"mkdir", "cp", "ln", "rm"} \subseteq Commands \ {"ln -s"}
      /\ "ln" # "ln -s" /\ "cp" # "ln -s" /\ "mkdir" # "ln -s"
  BY DEF Commands
<1>1. ASSUME NEW cmd \in {"mkdir", "cp", "ln", "rm"}, NEW pc \in {"idle", "hung"},
             NEW how, StartAnd(cmd, pc, how)
      PROVE  Kept'
  BY <1>0, <1>1, StartAndKept
<1>2. ASSUME NEW q \in Requests, makedir(q) PROVE Kept'
  <2>1. CASE \E d \in Inodes : StartIn("mkdir", "inode", d, q.name, 0, 0, 2)
    BY <1>0, <2>1, StartInKept
  <2> QED
    BY <1>1, <1>2, <2>1, Zenon DEF makedir
<1>3. ASSUME NEW q \in Requests, NEW local, copy(q, local) PROVE Kept'
  <2>1. CASE \E d \in Inodes, bytes \in FileSizes :
               StartIn("cp", "inode", d, q.name, 0, bytes, BlockCalc(bytes) + 1)
    BY <1>0, <2>1, StartInKept
  <2> QED
    BY <1>1, <1>3, <2>1, StartInDirectoryKept, Zenon DEF copy
<1>4. ASSUME NEW q1 \in Requests, NEW q2 \in Requests, lnk(q1, q2) PROVE Kept'
  <2> DEFINE d1 == goodPathExists(q1)
             d2 == goodPathExists(q2)
             source == Hit(d1, "entry", q1.name).inode
  <2>1. CASE /\ {d1, d2} \subseteq Inodes
             /\ \/ StartIn("ln", "entry", d2, q2.name, source, 0, 2)
                \/ \E bytes \in PathSizes :
                     StartIn("ln -s", "inode", d2, q2.name, 0, bytes, 2)
    <3>1. d2 \in Inodes
      BY <2>1, Zenon
    <3> HIDE DEF d1, d2, source
    <3> QED
      BY <1>0, <2>1, <3>1, StartInKept
  <2> QED
    BY <1>1, <1>4, <2>1, Zenon DEF lnk
<1>5. ASSUME NEW q \in Requests, rmove(q) PROVE Kept'
  <2> DEFINE d == Walk(q.dirs)
             e == Hit(d, "file", q.name)
  <2>1. CASE /\ Starts /\ d \in Inodes /\ Matches("file", q.name, e)
             /\ e.inode >= 0 /\ delEntry(d, q.name)
    <3>1. e.type \in {"reg", "lnk"}
      BY <2>1 DEF Matches
    <3>2. e # Missing
      <4>1. Missing.type = "unknown"
        BY DEF Missing, NewEntry
      <4> HIDE DEF e
      <4> QED
        BY <3>1, <4>1
    <3>3. Stops(d, "file", q.name) # {} /\ e = EntryAt(d, First(Stops(d, "file", q.name)))
      BY <3>2, Zenon DEF Hit
    <3>4. /\ EntryAt(d, First(Stops(d, "file", q.name))).inode >= 0
          /\ EntryAt(d, First(Stops(d, "file", q.name))).type \in {"reg", "lnk"}
      BY <2>1, <3>1, <3>3, Zenon
    <3> HIDE DEF d, e
    <3> QED
      BY <2>1, <3>3, <3>4, delEntryKept
  <2> QED
    BY <1>1, <1>5, <2>1, Zenon DEF rmove
<1> QED
  BY <1>2, <1>3, <1>4, <1>5, Zenon DEF Start

LEMMA newInodesKept ==
    ASSUME TypeOK, Kept,
           allocateNewDirInode \/ allocateNewFileInode \/ allocateNewLinkInode
    PROVE  Kept'
<1>1. CASE End("failed")
  BY <1>1, EndKept
<1>2. CASE \E n, mode, links, blocks :
             CanTakeInode(n) /\ TakesInode(mode, links, blocks)
  <2>1. ASSUME NEW n, CanTakeInode(n) PROVE ClearInodes # {}
    BY <2>1 DEF CanTakeInode
  <2> QED
    BY <1>2, <2>1, TakesInodeKept, Zenon
<1> QED
  BY <1>1, <1>2, Zenon
  DEF allocateNewDirInode, allocateNewFileInode, allocateNewLinkInode

LEMMA allocateDirBlocksKept ==
    ASSUME TypeOK, Kept, allocateDirBlocks PROVE Kept'
<1> DEFINE b == FirstEmpty(ClearBlocks)
<1>1. CASE End("failed")
  BY <1>1, EndKept
<1>2. CASE /\ b \in Blocks
           /\ inode' = [inode EXCEPT ![tool.ino].block[0] = b]
           /\ content' = [content EXCEPT ![b] = DotEntries(tool.ino, tool.parent)]
           /\ TakesBlock(b)
           /\ tool' = [tool EXCEPT !.pc = "entry"]
           /\ UNCHANGED inodeBits
  <2>1. b \notin Reserved
    BY <1>2, FreshBlock, Zenon DEF Kept
  <2>2. b \notin 1 .. MetaBlocks /\ b # 0
    BY <2>1, MetaNumbers, ZeroReserved, Zenon
  <2> HIDE DEF b
  <2>3. SafeContent'
    BY <1>2, <2>2, SafeDots, ReplacedOneSafe DEF Kept
  <2>4. SafeTable'
    BY <1>2, <2>1, ToolFields, GivenSafe DEF Kept
  <2>5. MarkedBits'
    BY <1>2, MarkedMore DEF Kept
  <2>6. SafeTool'
    <3>1. HoldsInode
      BY DEF allocateDirBlocks, HoldsInode
    <3> QED
      BY <1>2, <3>1, MovedSafe DEF Kept
  <2> QED
    BY <2>3, <2>4, <2>5, <2>6 DEF Kept
<1> QED
  BY <1>1, <1>2, Zenon DEF allocateDirBlocks

LEMMA checkFileBlocksKept ==
    ASSUME TypeOK, Kept, checkFileBlocks \/ copyFileBytes PROVE Kept'
<1>1. CASE End("failed") \/ End("killed")
  BY <1>1, EndKept
<1>2. CASE /\ HoldsInode
           /\ tool' = [tool EXCEPT !.pc = "take"] \/ tool' = [tool EXCEPT !.pc = "entry"]
           /\ UNCHANGED disk
  <2>1. SafeTool'
    BY <1>2, MovedSafe DEF Kept
  <2> QED
    BY <1>2, <2>1, SameImageKept DEF disk
<1>3. HoldsInode
  BY DEF checkFileBlocks, copyFileBytes, HoldsInode
<1> QED
  BY <1>1, <1>2, <1>3, Zenon DEF checkFileBlocks, copyFileBytes

LEMMA allocateFileBlocksKept ==
    ASSUME TypeOK, Kept, allocateFileBlocks PROVE Kept'
<1> DEFINE k == tool.taken
           b == FirstEmpty(ClearBlocks)
           pointers == inode[tool.ino].block[Direct]
           next == IF k + 1 = FileBlocks(tool.bytes) THEN "text" ELSE "take"
<1>1. CASE End("failed")
  BY <1>1, EndKept
<1>2. CASE /\ k <= Direct => b \in Blocks
           /\ TakesBlock(b)
           /\ inode' = IF k <= Direct THEN [inode EXCEPT ![tool.ino].block[k] = b] ELSE inode
           /\ tool' = [tool EXCEPT !.taken = k + 1, !.pc = next]
           /\ IF k <= Direct THEN UNCHANGED content
              ELSE content' = [content EXCEPT ![pointers] = <<Text>>]
           /\ UNCHANGED inodeBits
  <2>1. tool.ino \in Inodes \ 0 .. Lost
    <3>1. HoldsInode
      BY DEF allocateFileBlocks, HoldsInode
    <3> QED
      BY <3>1, ToolFields, Zenon DEF Kept, SafeTool
  <2>2. ASSUME k <= Direct PROVE b \in Blocks /\ b \notin Reserved
    BY <1>2, <2>2, FreshBlock, Zenon DEF Kept
  <2>3. pointers \in Blocks /\ pointers \notin 1 .. MetaBlocks
    <3>1. Direct \in 0 .. Direct
      BY Sizes
    <3>2. SafeInode(tool.ino, inode[tool.ino])
      BY <2>1 DEF Kept, SafeTable
    <3> QED
      BY <2>1, <3>1, <3>2, BlockOfInode DEF SafeInode
  <2> HIDE DEF b, next, pointers
  <2>4. SafeContent'
    <3>1. SafeChain(<<Text>>)
      BY SafeOthers
    <3>2. CASE UNCHANGED content
      BY <3>2 DEF Kept, SafeContent
    <3>3. CASE content' = [content EXCEPT ![pointers] = <<Text>>]
      BY <2>3, <3>1, <3>3, ReplacedOneSafe DEF Kept
    <3> QED
      BY <1>2, <3>2, <3>3
  <2>5. SafeTable'
    <3>1. CASE UNCHANGED inode
      BY <3>1 DEF Kept, SafeTable
    <3>2. CASE k <= Direct
      <4>1. inode' = [inode EXCEPT ![tool.ino].block[k] = b]
        BY <1>2, <3>2
      <4> QED
        BY <2>1, <2>2, <3>2, <4>1, GivenSafe DEF Kept
    <3> QED
      BY <1>2, <3>1, <3>2
  <2>6. MarkedBits'
    BY <1>2, MarkedMore DEF Kept
  <2>7. SafeTool'
    <3>1. /\ tool'.block = tool.block /\ tool'.cmd = tool.cmd /\ tool'.bytes = tool.bytes
          /\ tool'.ino = tool.ino
      BY <1>2 DEF TypeOK, Tool
    <3> QED
      BY <2>1, <3>1 DEF Kept, SafeTool
  <2> QED
    BY <2>4, <2>5, <2>6, <2>7 DEF Kept
<1> QED
  BY <1>1, <1>2, Zenon DEF allocateFileBlocks

LEMMA allocateLinkBlocksKept ==
    ASSUME TypeOK, Kept, allocateLinkBlocks PROVE Kept'
<1> DEFINE b == FirstEmpty(ClearBlocks)
           i == tool.ino
           i_block == [inode[i].block EXCEPT ![0] = b]
           n == Pieces[tool.bytes]
           written == {i_block[k] : k \in 0 .. n - 1}
<1>1. CASE End("failed")
  BY <1>1, EndKept
<1>2. CASE /\ b \in Blocks
           /\ inode' = [inode EXCEPT ![i].block = i_block]
           /\ content' = [c \in Blocks |-> IF c \in written THEN <<Text>> ELSE content[c]]
           /\ TakesBlock(b)
           /\ tool' = [tool EXCEPT !.pc = "entry"]
           /\ UNCHANGED inodeBits
  <2>0. HoldsInode /\ tool.cmd = "ln -s"
    BY DEF allocateLinkBlocks, HoldsInode
  <2>1. i \in Inodes \ 0 .. Lost /\ inode[i] \in Inode /\ SafeInode(i, inode[i])
    <3>1. i \in Inodes \ 0 .. Lost
      BY <2>0, ToolFields, Zenon DEF Kept, SafeTool
    <3> QED
      BY <3>1 DEF TypeOK, Kept, SafeTable
  <2>2. b \notin Reserved
    BY <1>2, FreshBlock, Zenon DEF Kept
  <2>3. n \in 0 .. Direct + 1
    <3>1. tool.bytes \in PathSizes
      BY <2>0 DEF Kept, SafeTool
    <3> QED
      BY <3>1, PathsAssumption
  <2> HIDE DEF b, n
  <2>4. i_block = [inode[i] EXCEPT !.block[0] = b].block
    BY <2>1 DEF Inode
  <2>5. SafeInode(i, [inode[i] EXCEPT !.block[0] = b])
    <3>1. 0 \in Nat
      OBVIOUS
    <3> QED
      BY <1>2, <2>1, <2>2, <3>1, UpdatedSafe
  <2>6. written \cap 1 .. MetaBlocks = {}
    <3>1. ASSUME NEW k \in 0 .. n - 1 PROVE k \in 0 .. Direct
      BY <2>3, Sizes
    <3> HIDE DEF i_block
    <3> QED
      BY <2>4, <2>5, <3>1 DEF SafeInode
  <2> HIDE DEF written, i_block
  <2>7. SafeContent'
    <3>1. SafeChain(<<Text>>)
      BY SafeOthers
    <3> QED
      BY <1>2, <2>6, <3>1, ReplacedSafe DEF Kept
  <2>8. SafeTable'
    <3>1. inode' = [inode EXCEPT ![i].block[0] = b]
      BY <1>2 DEF i_block
    <3> QED
      BY <1>2, <2>1, <2>2, <3>1, GivenSafe DEF Kept
  <2>9. MarkedBits'
    BY <1>2, MarkedMore DEF Kept
  <2>10. SafeTool'
    BY <1>2, <2>0, MovedSafe DEF Kept
  <2> QED
    BY <2>7, <2>8, <2>9, <2>10 DEF Kept
<1> QED
  BY <1>1, <1>2, Zenon DEF allocateLinkBlocks

LEMMA newEntriesKept ==
    ASSUME TypeOK, Kept,
           \/ addNewDirToParentDirEntList \/ addNewFileToParentDirEntList
           \/ addSymbolicLink \/ addHardLink
    PROVE  Kept'
<1>1. /\ {"reg", "dir", "lnk", "unknown"} \subseteq Types /\ inode \in [Inodes -> Inode]
      /\ \A i \in Inodes : SafeInode(i, inode[i])
  BY DEF Types, TypeOK, Kept, SafeTable
<1>2. CASE addNewDirToParentDirEntList
  <2>1. AddsEntry("dir", inode) /\ "dir" \in Types /\ "dir" \notin {"reg", "lnk"}
    BY <1>1, <1>2 DEF addNewDirToParentDirEntList
  <2> QED
    BY <1>1, <2>1, AddsEntryKept
<1>3. CASE addNewFileToParentDirEntList \/ addSymbolicLink
  <2>1. HoldsInode /\ \E t \in {"reg", "lnk"} : AddsEntry(t, inode)
    BY <1>3 DEF addNewFileToParentDirEntList, addSymbolicLink, HoldsInode
  <2>2. tool.ino \notin 0 .. Lost
    BY <2>1 DEF Kept, SafeTool
  <2> QED
    BY <1>1, <2>1, <2>2, AddsEntryKept
<1>4. CASE addHardLink
  <2> DEFINE i == tool.ino
             type == CASE inode[i].mode \in {"reg", "lnk"} -> "reg"
                       [] inode[i].mode = "dir" -> "dir"
                       [] OTHER -> "unknown"
             table == [inode EXCEPT ![i].links = @ + 1]
  <2>1. i \in Inodes
    BY ToolFields, Zenon
  <2>2. type \in Types
    BY <1>1
  <2>3. type \in {"reg", "lnk"} => i \notin 0 .. Lost
    <3>1. SafeInode(i, inode[i])
      BY <1>1, <2>1
    <3>2. type \in {"reg", "lnk"} => inode[i].mode \in {"reg", "lnk"}
      OBVIOUS
    <3> HIDE DEF type
    <3> QED
      BY <3>1, <3>2 DEF SafeInode
  <2>4. table \in [Inodes -> Inode] /\ \A j \in Inodes : SafeInode(j, table[j])
    <3> DEFINE r == [inode[i] EXCEPT !.links = inode[i].links + 1]
    <3>1. inode[i] \in Inode
      BY <1>1, <2>1, Zenon
    <3>2. inode[i].links + 1 \in Int
      BY <3>1 DEF Inode
    <3>3. r \in Inode
      BY <3>1, <3>2 DEF Inode
    <3>4. SafeInode(i, r)
      BY <1>1, <2>1, <3>1, SafeCount
    <3>5. table = [inode EXCEPT ![i] = r]
      OBVIOUS
    <3> HIDE DEF table, r
    <3> QED
      BY <1>1, <3>3, <3>4, <3>5
  <2>5. AddsEntry(type, table)
    BY <1>4, Zenon DEF addHardLink
  <2> HIDE DEF type, table
  <2> QED
    BY <2>2, <2>3, <2>4, <2>5, AddsEntryKept
<1> QED
  BY <1>2, <1>3, <1>4

-----------------------------------------------------------------------------
(* Damage is remembered. *)

LEMMA DamageStays ==
    ASSUME [Next]_vars PROVE damage \subseteq damage'
<1>1. ASSUME NEW how, End(how) PROVE damage' = damage
  BY <1>1 DEF End
<1>2. ASSUME NEW cmd, NEW pc, NEW how, StartAnd(cmd, pc, how) PROVE damage' = damage
  BY <1>2 DEF StartAnd
<1>3. ASSUME NEW cmd, NEW pc, NEW d, NEW n, NEW ino, NEW bytes, NEW free,
             StartIn(cmd, pc, d, n, ino, bytes, free)
      PROVE  damage' = damage
  BY <1>3 DEF StartIn
<1>12. ASSUME NEW d, NEW n, StartInDirectory(d, n) PROVE damage' = damage
  BY <1>12 DEF StartInDirectory
<1>4. ASSUME NEW type, NEW table, AddsEntry(type, table) PROVE damage \subseteq damage'
  BY <1>1, <1>4, Zenon DEF AddsEntry, Spin
<1>5. ASSUME NEW d, NEW n, delEntry(d, n) PROVE damage \subseteq damage'
  BY <1>5, Zenon DEF delEntry
<1>6. ASSUME NEW mode, NEW links, NEW blocks, TakesInode(mode, links, blocks)
      PROVE  damage' = damage
  BY <1>6 DEF TakesInode
<1>7. CASE Start
  <2>1. ASSUME NEW q, makedir(q) PROVE damage' = damage
    BY <1>2, <1>3, <2>1, Zenon DEF makedir
  <2>2. ASSUME NEW q, NEW local, copy(q, local) PROVE damage' = damage
    BY <1>2, <1>3, <1>12, <2>2, Zenon DEF copy
  <2>3. ASSUME NEW q1, NEW q2, lnk(q1, q2) PROVE damage' = damage
    BY <1>2, <1>3, <2>3, Zenon DEF lnk
  <2>4. ASSUME NEW q, rmove(q) PROVE damage \subseteq damage'
    BY <1>2, <1>5, <2>4, Zenon DEF rmove
  <2> QED
    BY <1>7, <2>1, <2>2, <2>3, <2>4, Zenon DEF Start
<1>8. CASE Mkdir
  BY <1>1, <1>4, <1>6, <1>8, Zenon
  DEF Mkdir, allocateNewDirInode, allocateDirBlocks, addNewDirToParentDirEntList
<1>9. CASE Cp
  BY <1>1, <1>4, <1>6, <1>9, Zenon
  DEF Cp, allocateNewFileInode, checkFileBlocks, allocateFileBlocks, copyFileBytes,
      addNewFileToParentDirEntList
<1>10. CASE Ln
  BY <1>1, <1>4, <1>6, <1>10, Zenon
  DEF Ln, addHardLink, allocateNewLinkInode, allocateLinkBlocks, addSymbolicLink
<1>11. CASE Interrupt \/ UNCHANGED vars
  BY <1>11 DEF Interrupt, vars
<1> QED
  BY <1>7, <1>8, <1>9, <1>10, <1>11, Zenon DEF Next

-----------------------------------------------------------------------------
LEMMA KeptInductive == Spec => []KeptInv
<1>1. Init => KeptInv
  BY InitTyped, InitKept DEF KeptInv
<1>2. KeptInv /\ [Next]_vars => KeptInv'
  <2> SUFFICES ASSUME KeptInv, [Next]_vars, TypeOK', Undamaged' PROVE Kept'
    <3>1. KeptInv /\ [Next]_vars => TypeOK'
      BY StepTyped DEF KeptInv
    <3> QED
      BY <3>1 DEF KeptInv
  <2>0. TypeOK /\ Kept
    BY DamageStays DEF KeptInv, Undamaged, Without
  <2>1. CASE Start
    BY <2>0, <2>1, startsKept
  <2>2. CASE Mkdir
    BY <2>0, <2>2, newInodesKept, allocateDirBlocksKept, newEntriesKept DEF Mkdir
  <2>3. CASE Cp
    BY <2>0, <2>3, newInodesKept, checkFileBlocksKept, allocateFileBlocksKept,
       newEntriesKept DEF Cp
  <2>4. CASE Ln
    BY <2>0, <2>4, newInodesKept, allocateLinkBlocksKept, newEntriesKept DEF Ln
  <2>5. CASE Interrupt
    BY <2>0, <2>5, InterruptKept
  <2>6. CASE UNCHANGED vars
    <3>1. SafeTool'
      BY <2>0, <2>6 DEF Kept, SafeTool, HoldsInode, vars
    <3> QED
      BY <2>0, <2>6, <3>1, SameImageKept DEF vars, disk
  <2> QED
    BY <2>1, <2>2, <2>3, <2>4, <2>5, <2>6, Zenon DEF Next
<1> QED
  BY <1>1, <1>2, PTL DEF Spec

\* Unless a number beyond the bitmap's word or one that was never assigned is
\* freed or taken, or bytes that are no entries are written into a directory or
\* the boot block, the metadata of the fresh image is neither handed out nor
\* written to, for any number of tools on an image of any size: the tools whose
\* parent is full and that search the boot block never get to write there.
THEOREM MetadataOutlivesTools == Spec => []MetadataKept
<1>1. KeptInv => MetadataKept
  <2> SUFFICES ASSUME KeptInv, Without({"overrun", "junk", "spilled"})
               PROVE  /\ Reserved \subseteq blockBits
                      /\ \A b \in 1 .. MetaBlocks : content[b] = <<System>>
    BY Zenon DEF MetadataKept, Reserved
  <2>1. Undamaged
    BY DEF Undamaged, Without
  <2> QED
    BY <2>1, Zenon DEF KeptInv, Kept, MarkedBits, SafeContent
<1> QED
  BY <1>1, KeptInductive, PTL

-----------------------------------------------------------------------------
(* Directories as chains: the invariant. *)

\* The entries follow one another up to the end of the block.
Whole(chain) ==
    /\ chain[1].off = 0
    /\ \A j \in 1 .. Len(chain) :
         LET next == IF j < Len(chain) THEN chain[j + 1].off ELSE Capacity
         IN  chain[j].rec > 0 /\ chain[j].off + chain[j].rec = next

\* Every block that starts like a directory, in use or not, is whole, and the
\* boot block is empty.
WholeContent ==
    /\ \A b \in Blocks : content[b][1].name = "." => Whole(content[b])
    /\ content[0] = <<Zero>>

\* So are the later blocks of a directory.
WholeDirs ==
    \A d \in Dirs : \A k \in 1 .. Direct - 1 :
        k < inode[d].blocks => Whole(content[inode[d].block[k]])

\* The block that a tool chose has room when the entry is written.
RoomStays == tool.pc \notin {"idle", "hung"} /\ ~ tool.grow /\ tool.block # 0 => HasRoom(tool.block)

\* A tool's own inode is what the tool made it.
OwnInode ==
    LET r == inode[tool.ino] IN
    /\ tool.pc = "blocks" /\ tool.cmd = "mkdir" => r.blocks = 1
    /\ tool.pc = "blocks" /\ tool.cmd = "cp" => r.mode = "reg"
    /\ tool.pc \in {"take", "text"} => r.mode = "reg"
    /\ tool.pc = "blocks" /\ tool.cmd = "ln -s" => r.mode = "lnk"

Chains == WholeContent /\ WholeDirs /\ RoomStays /\ OwnInode
Unspoilt == Without({"overrun", "junk", "padded", "spilled"})
ChainInv == KeptInv /\ (Unspoilt => Chains)

-----------------------------------------------------------------------------
(* Chains. *)

LEMMA WholeParts ==
    ASSUME NEW chain, NEW n \in Nat, Len(chain) = n
    PROVE  Whole(chain) <=>
             /\ chain[1].off = 0
             /\ \A j \in 1 .. n :
                  /\ chain[j].rec > 0
                  /\ j < n => chain[j].off + chain[j].rec = chain[j + 1].off
                  /\ j = n => chain[j].off + chain[j].rec = Capacity
<1> DEFINE Until(j) == IF j < n THEN chain[j + 1].off ELSE Capacity
           Good(j) == chain[j].rec > 0 /\ chain[j].off + chain[j].rec = Until(j)
<1>1. Whole(chain) <=> chain[1].off = 0 /\ \A j \in 1 .. n : Good(j)
  BY Zenon DEF Whole
<1>2. ASSUME NEW j \in 1 .. n
      PROVE  Good(j) <=>
               /\ chain[j].rec > 0
               /\ j < n => chain[j].off + chain[j].rec = chain[j + 1].off
               /\ j = n => chain[j].off + chain[j].rec = Capacity
  <2>1. (j < n /\ j # n) \/ (j = n /\ ~ j < n)
    OBVIOUS
  <2> QED
    BY <2>1, Zenon
<1> HIDE DEF Good
<1> QED
  BY <1>1, <1>2, Zenon

LEMMA WholeSingle ==
    ASSUME NEW e, e.off = 0, e.rec = Capacity PROVE Whole(<<e>>)
  BY Sizes DEF Whole

LEMMA WholeDots ==
    ASSUME NEW i, NEW d
    PROVE  /\ Whole(DotEntries(i, d)) /\ Len(DotEntries(i, d)) = 2
           /\ DotEntries(i, d)[1].inode = i /\ DotEntries(i, d)[2].off = 1
<1> DEFINE x == NewEntry(".", i, "dir", 0, 1)
           y == NewEntry("..", d, "dir", 1, Capacity - 1)
<1>1. x.off = 0 /\ x.rec = 1 /\ y.off = 1 /\ y.rec = Capacity - 1 /\ x.inode = i
  BY DEF NewEntry
<1>2. DotEntries(i, d) = <<x, y>>
  BY DEF DotEntries
<1>3. 3 < Capacity /\ Capacity \in Nat
  BY NumbersAssumption
<1> HIDE DEF x, y
<1> QED
  BY <1>1, <1>2, <1>3 DEF Whole

LEMMA WholeAppend ==
    ASSUME NEW chain \in Chain, Whole(chain), NEW last \in Entry, NEW new \in Entry,
           LET old == chain[Len(chain)] IN
             /\ old.off + 1 < Capacity
             /\ last.off = old.off /\ last.rec = 1
             /\ new.off = old.off + 1 /\ new.rec = Capacity - (old.off + 1)
    PROVE  Whole(Append([chain EXCEPT ![Len(chain)] = last], new))
<1> DEFINE n == Len(chain)
           mid == [chain EXCEPT ![n] = last]
           all == Append(mid, new)
<1>1. chain \in [1 .. n -> Entry] /\ n \in Nat \ {0} /\ n \in 1 .. n
  BY DEF Chain
<1>2. mid \in Chain /\ Len(mid) = n
  BY <1>1, ChangedChain
<1>3. mid \in Seq(Entry)
  BY <1>2 DEF Chain
<1>4. /\ Len(all) = n + 1 /\ all[n + 1] = new
      /\ \A j \in 1 .. n : all[j] = mid[j]
  <2> HIDE DEF mid
  <2>1. /\ Len(all) = Len(mid) + 1 /\ all[Len(mid) + 1] = new
        /\ \A j \in 1 .. Len(mid) : all[j] = mid[j]
    BY <1>3
  <2> HIDE DEF all, n
  <2> QED
    BY <1>2, <2>1
<1>5. /\ \A j \in 1 .. n : j # n => mid[j] = chain[j]
      /\ mid[n] = last
  BY <1>1
<1>6. \A j \in 1 .. n : chain[j].off \in Int /\ chain[j].rec \in Int
  BY <1>1 DEF Entry
<1>7. /\ chain[1].off = 0
      /\ \A j \in 1 .. n :
           /\ chain[j].rec > 0
           /\ j < n => chain[j].off + chain[j].rec = chain[j + 1].off
           /\ j = n => chain[j].off + chain[j].rec = Capacity
  BY <1>1, WholeParts
<1>8. /\ chain[n].off + 1 < Capacity
      /\ last.off = chain[n].off /\ last.rec = 1
      /\ new.off = chain[n].off + 1 /\ new.rec = Capacity - (chain[n].off + 1)
  OBVIOUS
<1> HIDE DEF mid, all, n
<1>9. all[1].off = 0
  BY <1>1, <1>4, <1>5, <1>7, <1>8
<1>10. ASSUME NEW j \in 1 .. n + 1
       PROVE  /\ all[j].rec > 0
              /\ j < n + 1 => all[j].off + all[j].rec = all[j + 1].off
              /\ j = n + 1 => all[j].off + all[j].rec = Capacity
  <2>1. CASE j = n + 1
    <3>1. all[j] = new /\ chain[n].off \in Int
      BY <1>1, <1>4, <1>6, <2>1
    <3>2. all[j].off = chain[n].off + 1 /\ all[j].rec = Capacity - (chain[n].off + 1)
      BY <1>8, <3>1, Zenon
    <3>3. ~ j < n + 1 /\ Capacity \in Nat
      BY <1>1, <2>1, Sizes
    <3>4. chain[n].off + 1 < Capacity
      BY <1>8, Zenon
    <3> QED
      BY <3>1, <3>2, <3>3, <3>4
  <2>2. CASE j = n
    <3>1. all[j] = last /\ all[j + 1] = new /\ chain[n].off \in Int
      BY <1>1, <1>4, <1>5, <1>6, <2>2
    <3>2. all[j].off = chain[n].off /\ all[j].rec = 1 /\ all[j + 1].off = chain[n].off + 1
      BY <1>8, <3>1, Zenon
    <3>3. j # n + 1
      BY <1>1, <2>2
    <3> QED
      BY <3>1, <3>2, <3>3
  <2>3. CASE j < n
    <3>1. j \in 1 .. n /\ j + 1 \in 1 .. n /\ j # n
      BY <1>1, <2>3
    <3>2. all[j] = chain[j] /\ all[j + 1] = mid[j + 1]
      BY <1>4, <1>5, <3>1
    <3>3. all[j + 1].off = chain[j + 1].off
      BY <1>5, <1>8, <3>1, <3>2
    <3> QED
      BY <1>1, <1>7, <2>3, <3>1, <3>2, <3>3
  <2>4. j = n + 1 \/ j = n \/ j < n
    BY <1>1
  <2> QED
    BY <2>1, <2>2, <2>3, <2>4, Zenon
<1>11. Whole(all)
  <2>1. n + 1 \in Nat
    BY <1>1
  <2> QED
    BY <1>4, <1>9, <1>10, <2>1, WholeParts
<1> QED
  BY <1>11 DEF all, mid, n

LEMMA UnlinkedFirst ==
    ASSUME NEW chain \in Chain, NEW j \in 1 .. Len(chain)
    PROVE  LET e == Unlinked(chain, j)[1] IN
           e.name = chain[1].name /\ e.inode \in {chain[1].inode, -1}
<1> DEFINE n == Len(chain)
<1>1. chain \in [1 .. n -> Entry] /\ n \in Nat \ {0} /\ chain[1] \in Entry
  BY DEF Chain
<1>2. CASE j = 1
  BY <1>1, <1>2 DEF Unlinked, Entry
<1>3. CASE j # 1
  <2>1. 1 \in 1 .. n - 1
    BY <1>1, <1>3
  <2>2. Unlinked(chain, j)[1] = chain[1]
        \/ Unlinked(chain, j)[1] = [chain[1] EXCEPT !.rec = @ + chain[j].rec]
    BY <1>3, <2>1 DEF Unlinked
  <2> QED
    BY <1>1, <2>2 DEF Entry
<1> QED
  BY <1>2, <1>3

LEMMA WholeUnlinked ==
    ASSUME NEW chain \in Chain, Whole(chain), NEW j \in 1 .. Len(chain)
    PROVE  Whole(Unlinked(chain, j))
<1> DEFINE n == Len(chain)
<1>1. chain \in [1 .. n -> Entry] /\ n \in Nat \ {0}
  BY DEF Chain
<1>2. \A k \in 1 .. n : chain[k] \in Entry /\ chain[k].off \in Int /\ chain[k].rec \in Int
  BY <1>1 DEF Entry
<1>3. /\ chain[1].off = 0
      /\ \A k \in 1 .. n :
           /\ chain[k].rec > 0
           /\ k < n => chain[k].off + chain[k].rec = chain[k + 1].off
           /\ k = n => chain[k].off + chain[k].rec = Capacity
  BY <1>1, WholeParts
<1>4. CASE j = 1
  <2> DEFINE e == [chain[1] EXCEPT !.inode = -1]
             new == [chain EXCEPT ![1] = e]
  <2>1. Unlinked(chain, j) = new
    BY <1>4 DEF Unlinked
  <2>2. e.off = chain[1].off /\ e.rec = chain[1].rec /\ e \in Entry
    BY <1>1, <1>2 DEF Entry
  <2>3. Len(new) = n
    BY <1>1, <2>2, ChangedChain
  <2> HIDE DEF e, n
  <2>4. \A k \in 1 .. n : new[k].off = chain[k].off /\ new[k].rec = chain[k].rec
    BY <1>1, <2>2
  <2> HIDE DEF new
  <2>5. \A k \in 1 .. n : k < n => k + 1 \in 1 .. n
    BY <1>1
  <2>6. /\ new[1].off = 0
        /\ \A k \in 1 .. n :
             /\ new[k].rec > 0
             /\ k < n => new[k].off + new[k].rec = new[k + 1].off
             /\ k = n => new[k].off + new[k].rec = Capacity
    <3>1. 1 \in 1 .. n
      BY <1>1
    <3> QED
      BY <1>3, <2>4, <2>5, <3>1
  <2> QED
    BY <1>1, <2>1, <2>3, <2>6, WholeParts
<1>5. CASE j # 1
  <2> DEFINE new == Unlinked(chain, j)
             m == n - 1
  <2>0. j \in 1 .. n
    OBVIOUS
  <2> HIDE DEF n
  <2>1. m \in Nat \ {0} /\ j - 1 \in 1 .. m
    BY <1>1, <1>5, <2>0
  <2>2. new = [k \in 1 .. m |->
                 CASE k < j - 1 -> chain[k]
                   [] k = j - 1 -> [chain[k] EXCEPT !.rec = @ + chain[j].rec]
                   [] k > j - 1 -> chain[k + 1]]
    BY <1>5 DEF Unlinked, n
  <2> HIDE DEF new
  <2>3. Len(new) = m
    BY <2>1, <2>2
  <2>4. ASSUME NEW k \in 1 .. m
        PROVE  /\ k < j - 1 => new[k] = chain[k]
               /\ k > j - 1 => new[k] = chain[k + 1]
               /\ k = j - 1 => new[k].off = chain[k].off
                               /\ new[k].rec = chain[k].rec + chain[j].rec
    <3>1. chain[k] \in Entry
      BY <1>1
    <3> QED
      BY <2>2, <3>1 DEF Entry
  <2>5. new[1].off = 0
    <3>1. chain[1].off = 0 /\ 1 \in 1 .. m /\ (1 < j - 1 \/ 1 = j - 1)
      BY <2>1 DEF Whole
    <3> QED
      BY <2>4, <3>1
  <2>6. ASSUME NEW k \in 1 .. m
        PROVE  /\ new[k].rec > 0
               /\ k < m => new[k].off + new[k].rec = new[k + 1].off
               /\ k = m => new[k].off + new[k].rec = Capacity
    <3>1. CASE k < j - 1
      <4>1. new[k] = chain[k] /\ new[k + 1].off = chain[k + 1].off
        BY <2>1, <2>4, <3>1
      <4>2. k \in 1 .. n /\ k < n /\ k # m
        BY <1>1, <2>0, <3>1
      <4>3. chain[k].rec > 0 /\ chain[k].off + chain[k].rec = chain[k + 1].off
        BY <1>3, <4>2
      <4> QED
        BY <4>1, <4>2, <4>3, Zenon
    <3>2. CASE k > j - 1
      <4>1. new[k] = chain[k + 1] /\ k + 1 \in 1 .. n
        BY <1>1, <2>4, <3>2
      <4>2. ASSUME k < m PROVE new[k + 1] = chain[k + 2]
        <5>1. k + 1 \in 1 .. m /\ k + 1 > j - 1 /\ (k + 1) + 1 = k + 2
          BY <1>1, <2>0, <3>2, <4>2
        <5>2. new[k + 1] = chain[(k + 1) + 1]
          BY <2>4, <5>1
        <5> QED
          BY <5>1, <5>2
      <4>3. /\ k + 1 < n => chain[k + 1].off + chain[k + 1].rec = chain[k + 2].off
            /\ k + 1 = n => chain[k + 1].off + chain[k + 1].rec = Capacity
            /\ chain[k + 1].rec > 0
        BY <1>3, <4>1
      <4> QED
        BY <1>1, <4>1, <4>2, <4>3
    <3>3. CASE k = j - 1
      <4>1. new[k].off = chain[k].off /\ new[k].rec = chain[k].rec + chain[j].rec
        BY <2>4, <3>3
      <4>2. ASSUME k < m PROVE new[k + 1] = chain[j + 1]
        <5>1. k + 1 \in 1 .. m /\ k + 1 > j - 1 /\ k + 1 = j
          BY <1>1, <2>0, <3>3, <4>2
        <5>2. new[k + 1] = chain[(k + 1) + 1]
          BY <2>4, <5>1
        <5> QED
          BY <5>1, <5>2
      <4>3. /\ chain[k].off + chain[k].rec = chain[j].off
            /\ chain[k].rec > 0 /\ chain[j].rec > 0
            /\ j < n => chain[j].off + chain[j].rec = chain[j + 1].off
            /\ j = n => chain[j].off + chain[j].rec = Capacity
        <5>1. k \in 1 .. n /\ j = k + 1 /\ k < n
          BY <1>1, <2>0, <2>1, <3>3
        <5>2. /\ chain[k].off + chain[k].rec = chain[k + 1].off
              /\ chain[k].rec > 0
          BY <1>3, <5>1
        <5>3. /\ chain[j].rec > 0
              /\ j < n => chain[j].off + chain[j].rec = chain[j + 1].off
              /\ j = n => chain[j].off + chain[j].rec = Capacity
          BY <1>3, <2>0
        <5> QED
          BY <5>1, <5>2, <5>3
      <4>4. {chain[k].off, chain[k].rec, chain[j].off, chain[j].rec} \subseteq Int
        <5>1. k \in 1 .. n
          BY <1>1, <2>1
        <5> QED
          BY <1>2, <2>0, <5>1
      <4>5. (k < m <=> j < n) /\ (k = m <=> j = n)
        BY <1>1, <2>0, <3>3
      <4> DEFINE o == chain[k].off
                 r == chain[k].rec
                 oj == chain[j].off
                 rj == chain[j].rec
      <4>6. o + (r + rj) = oj + rj /\ r + rj > 0
        BY <4>3, <4>4
      <4> QED
        BY <4>1, <4>2, <4>3, <4>5, <4>6
    <3>4. k < j - 1 \/ k > j - 1 \/ k = j - 1
      BY <2>0, <2>1
    <3> QED
      BY <3>1, <3>2, <3>3, <3>4, Zenon
  <2>7. Whole(new)
    BY <2>1, <2>3, <2>5, <2>6, WholeParts
  <2> QED
    BY <2>7 DEF new
<1> QED
  BY <1>4, <1>5

-----------------------------------------------------------------------------
(* Directories. *)

LEMMA InDirs ==
    ASSUME NEW d
    PROVE  d \in Dirs <=>
             /\ d \in inodeBits /\ inode[d].mode = "dir"
             /\ content[inode[d].block[0]][1].name = "."
             /\ content[inode[d].block[0]][1].inode = d
  BY Zenon DEF Dirs

LEMMA DirTyped ==
    ASSUME TypeOK, NEW d \in Dirs
    PROVE  /\ d \in Inodes /\ inode[d] \in Inode /\ inode[d].blocks \in Nat
           /\ \A k \in 0 .. Direct : inode[d].block[k] \in Blocks
  BY DEF Dirs, TypeOK, Inode

LEMMA DirOwns ==
    ASSUME TypeOK, NEW d \in Dirs, NEW k \in 0 .. Direct - 1, k < inode[d].blocks
    PROVE  inode[d].block[k] \in DirBlocks
<1>1. inode[d].block[k] \in Owned(d)
  BY DEF Owned
<1> QED
  BY <1>1 DEF DirBlocks

LEMMA OtherBlocks ==
    ASSUME NEW k \in 1 .. Direct - 1
    PROVE  k \in 0 .. Direct - 1 /\ k \in 0 .. Direct /\ k # 0 /\ ~ k < 1
<1>1. Direct \in Nat
  BY Sizes
<1> QED
  BY <1>1

LEMMA ChainsGiveWhole ==
    ASSUME TypeOK, WholeContent, WholeDirs, NEW d \in Dirs, NEW k \in 0 .. Direct - 1,
           k < inode[d].blocks
    PROVE  Whole(content[inode[d].block[k]])
<1>1. CASE k = 0
  <2>1. content[inode[d].block[0]][1].name = "."
    BY InDirs
  <2>2. inode[d].block[0] \in Blocks
    <3>1. 0 \in 0 .. Direct
      BY Sizes
    <3> QED
      BY <3>1, DirTyped
  <2> QED
    BY <1>1, <2>1, <2>2 DEF WholeContent
<1>2. CASE k # 0
  <2>1. k \in 1 .. Direct - 1
    BY <1>2, Sizes
  <2> QED
    BY <2>1 DEF WholeDirs
<1> QED
  BY <1>1, <1>2

\* The image is left alone.
LEMMA SameDirs ==
    ASSUME TypeOK, WholeDirs, UNCHANGED <<inodeBits, inode, content>>
    PROVE  WholeDirs'
<1>1. Dirs' = Dirs
  BY DEF Dirs
<1> QED
  BY <1>1, Zenon DEF WholeDirs

LEMMA SameChains ==
    ASSUME TypeOK, Chains, UNCHANGED <<inodeBits, inode, content>>, RoomStays', OwnInode'
    PROVE  Chains'
<1>1. WholeContent'
  BY DEF Chains, WholeContent
<1> QED
  BY <1>1, SameDirs DEF Chains

\* A directory that was one before the step, and whose blocks the step leaves.
LEMMA DirStays ==
    ASSUME TypeOK, NEW d \in Dirs', d \in inodeBits,
           inode'[d].mode = inode[d].mode, inode'[d].block[0] = inode[d].block[0],
           content'[inode[d].block[0]][1].name = "." =>
             content[inode[d].block[0]][1].name = ".",
           content'[inode[d].block[0]][1].inode = d =>
             content[inode[d].block[0]][1].inode = d
    PROVE  d \in Dirs
<1>1. /\ inode'[d].mode = "dir"
      /\ content'[inode'[d].block[0]][1].name = "."
      /\ content'[inode'[d].block[0]][1].inode = d
  BY DEF Dirs
<1> QED
  BY <1>1, Zenon DEF Dirs

-----------------------------------------------------------------------------
(* One lemma for each way in which a step ends. *)

LEMMA DotsRoom ==
    ASSUME NEW i, NEW d, NEW f, f = DotEntries(i, d) PROVE f[Len(f)].off + 1 < Capacity
<1>1. Len(f) = 2 /\ f[2].off = 1
  BY WholeDots
<1> QED
  BY <1>1, NumbersAssumption

LEMMA OneRoom ==
    ASSUME NEW f, f = <<Text>> PROVE f[Len(f)].off + 1 < Capacity
<1>1. Len(f) = 1 /\ f[1].off = 0
  BY DEF Text, NewEntry
<1> QED
  BY <1>1, NumbersAssumption

\* The room left in the block that the tool chose is what the step writes there.
LEMMA RoomAfter ==
    ASSUME NEW f, content'[tool'.block] = f, f[Len(f)].off + 1 < Capacity
    PROVE  RoomStays'
  BY DEF RoomStays, HasRoom, LastOf

LEMMA InitChains == Init => Chains
<1> SUFFICES ASSUME Init PROVE Chains
  OBVIOUS
<1> USE Sizes
<1>0. TypeOK
  BY InitTyped
<1> DEFINE root == <<NewEntry(".", Root, "dir", 0, 1), NewEntry("..", Root, "dir", 1, 1),
                     NewEntry(LostFound, Lost, "dir", 2, Capacity - 2)>>
           none == <<NewEntry("", -1, "unknown", 0, Capacity)>>
           dots == DotEntries(Lost, Root)
           system == <<System>>
           zero == <<Zero>>
<1>1. content = [b \in Blocks |-> CASE b = RootBlock -> root
                                    [] b = RootBlock + 1 -> dots
                                    [] b \in RootBlock + 2 .. LostLast -> none
                                    [] b \in 1 .. MetaBlocks -> system
                                    [] OTHER -> zero]
  BY Zenon DEF Init, DiskInit
<1>2. Whole(root)
  <2> DEFINE x == NewEntry(".", Root, "dir", 0, 1)
             y == NewEntry("..", Root, "dir", 1, 1)
             z == NewEntry(LostFound, Lost, "dir", 2, Capacity - 2)
  <2>1. /\ x.off = 0 /\ x.rec = 1 /\ y.off = 1 /\ y.rec = 1
        /\ z.off = 2 /\ z.rec = Capacity - 2
    BY DEF NewEntry
  <2>2. 3 < Capacity /\ Capacity \in Nat
    BY NumbersAssumption
  <2> HIDE DEF x, y, z
  <2>3. Whole(<<x, y, z>>)
    BY <2>1, <2>2 DEF Whole
  <2> QED
    BY <2>3 DEF x, y, z
<1>3. Whole(none)
  <2>1. /\ NewEntry("", -1, "unknown", 0, Capacity).off = 0
        /\ NewEntry("", -1, "unknown", 0, Capacity).rec = Capacity
    BY DEF NewEntry
  <2> QED
    BY <2>1, WholeSingle, Zenon
<1>4. Whole(dots) /\ zero[1].name # "." /\ system[1].name # "."
  BY WholeDots DEF Zero, System, Text, NewEntry
<1> HIDE DEF root, none, dots, system, zero
<1>5. WholeContent
  <2>1. ASSUME NEW b \in Blocks, content[b][1].name = "." PROVE Whole(content[b])
    BY <1>1, <1>2, <1>3, <1>4, <2>1
  <2>2. content[0] = zero
    <3>1. /\ 0 # RootBlock /\ 0 # RootBlock + 1 /\ 0 \notin RootBlock + 2 .. LostLast
          /\ 0 \notin 1 .. MetaBlocks
      BY DEF RootBlock
    <3> QED
      BY <1>1, <3>1
  <2> QED
    BY <2>1, <2>2 DEF WholeContent, zero
<1>6. WholeDirs
  <2>1. ASSUME NEW d \in Inodes, NEW k \in 1 .. Direct - 1, k < inode[d].blocks
        PROVE  inode[d].block[k] \in RootBlock + 2 .. LostLast
    <3>1. k \in 0 .. Direct
      OBVIOUS
    <3>2. inode[d].blocks = CASE d = Root -> 1 [] d = Lost -> LostBlocks [] OTHER -> 0
      BY DEF Init, DiskInit
    <3>3. d = Lost /\ k < LostBlocks
      BY <2>1, <3>2
    <3> DEFINE table(n, first) == [j \in 0 .. Direct |-> IF j < n THEN first + j ELSE 0]
    <3>5. inode[Lost].block = table(LostBlocks, RootBlock + 1)
      <4>1. Lost # Root /\ Lost \in Inodes
        BY DEF Lost, Root
      <4>2. inode = [i \in Inodes |->
              LET n == CASE i = Root -> 1 [] i = Lost -> LostBlocks [] OTHER -> 0
                  first == IF i = Root THEN RootBlock ELSE RootBlock + 1
              IN  [mode |-> IF n = 0 THEN "none" ELSE "dir",
                   links |-> IF i = Root THEN 3 ELSE IF i = Lost THEN 2 ELSE 0,
                   blocks |-> n,
                   block |-> [j \in 0 .. Direct |-> IF j < n THEN first + j ELSE 0]]]
        BY Zenon DEF Init, DiskInit
      <4> HIDE DEF table
      <4>3. inode[Lost].block = [j \in 0 .. Direct |->
                                  IF j < LostBlocks THEN RootBlock + 1 + j ELSE 0]
        BY <4>1, <4>2
      <4> QED
        BY <4>3, Zenon DEF table
    <3>4. inode[d].block[k] = RootBlock + 1 + k
      BY <3>1, <3>3, <3>5
    <3> QED
      BY <3>3, <3>4 DEF RootBlock, LostLast
  <2>2. ASSUME NEW b \in RootBlock + 2 .. LostLast PROVE content[b] = none
    <3>1. b \in Blocks /\ b # RootBlock /\ b # RootBlock + 1 /\ b \notin 1 .. MetaBlocks
      BY NumbersAssumption DEF RootBlock, LostLast, Blocks
    <3> QED
      BY <1>1, <3>1
  <2>3. Dirs \subseteq Inodes
    BY <1>0, DirTyped
  <2> QED
    BY <1>3, <2>1, <2>2, <2>3 DEF WholeDirs
<1>7. RoomStays /\ OwnInode
  <2>1. tool.pc = "idle"
    BY DEF Init, Idle
  <2> QED
    BY <2>1 DEF RoomStays, OwnInode
<1> QED
  BY <1>5, <1>6, <1>7 DEF Chains

LEMMA EndChains ==
    ASSUME TypeOK, Chains,
           \/ \E how : End(how)
           \/ Spin
           \/ Interrupt
           \/ \E cmd, how : \E pc \in {"idle", "hung"} : StartAnd(cmd, pc, how)
           \/ \E d, n : StartInDirectory(d, n)
    PROVE  Chains'
<1>1. tool'.pc \in {"idle", "hung"}
  <2>0. Idle.pc = "idle"
    BY DEF Idle
  <2>1. ASSUME NEW cmd, NEW pc \in {"idle", "hung"}, NEW how, StartAnd(cmd, pc, how)
        PROVE  tool'.pc \in {"idle", "hung"}
    BY <2>0, <2>1, IdleTyped DEF StartAnd, Tool
  <2>2. ASSUME Spin PROVE tool'.pc = "hung"
    BY <2>2 DEF Spin, TypeOK, Tool
  <2>3. ASSUME NEW how, End(how) PROVE tool'.pc = "idle"
    BY <2>0, <2>3 DEF End
  <2>4. ASSUME Interrupt PROVE tool'.pc = "idle"
    BY <2>0, <2>4 DEF Interrupt
  <2>5. ASSUME NEW d, NEW n, StartInDirectory(d, n) PROVE tool'.pc = "hung"
    BY <2>5 DEF StartInDirectory, Idle
  <2> QED
    BY <2>1, <2>2, <2>3, <2>4, <2>5
<1>2. UNCHANGED disk
  BY DEF End, Spin, Interrupt, StartAnd, StartInDirectory
<1>3. RoomStays' /\ OwnInode'
  BY <1>1 DEF RoomStays, OwnInode
<1> QED
  BY <1>2, <1>3, SameChains DEF disk

LEMMA RoomOrNone ==
    ASSUME TypeOK, NEW d \in Inodes, ~ RoomSpins(d), NEW free
    PROVE  LET b == checkParentDirEntListSpaceExists(d, free).block IN b = 0 \/ HasRoom(b)
<1> DEFINE indexes == RoomIndexes(d)
<1>1. CASE indexes # {}
  <2>1. indexes \in SUBSET Nat
    BY Sizes DEF RoomIndexes
  <2>2. Min(indexes) \in indexes
    BY <1>1, <2>1, MinOfSet
  <2>3. Stuck(RoomBlock(d, indexes)) \/ HasRoom(RoomBlock(d, indexes))
    BY <2>2, Zenon DEF RoomBlock, RoomIndexes
  <2>4. ~ Stuck(RoomBlock(d, indexes))
    BY <1>1, Zenon DEF RoomSpins
  <2>5. checkParentDirEntListSpaceExists(d, free).block = RoomBlock(d, indexes)
    BY <1>1 DEF checkParentDirEntListSpaceExists
  <2> QED
    BY <2>3, <2>4, <2>5, Zenon
<1>2. CASE indexes = {}
  BY <1>2 DEF checkParentDirEntListSpaceExists
<1> QED
  BY <1>1, <1>2

LEMMA StartInChains ==
    ASSUME TypeOK, Chains, NEW cmd, NEW pc \in {"inode", "entry"}, NEW d \in Inodes,
           NEW n, NEW ino, NEW bytes, NEW free, ~ RoomSpins(d),
           StartIn(cmd, pc, d, n, ino, bytes, free)
    PROVE  Chains'
<1> DEFINE room == checkParentDirEntListSpaceExists(d, free)
<1>1. room.block = 0 \/ HasRoom(room.block)
  BY RoomOrNone, Zenon
<1>2. /\ tool' = [cmd |-> cmd, pc |-> pc, parent |-> d, name |-> n, grow |-> room.grow,
                  block |-> room.block, ino |-> ino, bytes |-> bytes, taken |-> 0]
      /\ UNCHANGED disk
  BY DEF StartIn
<1> HIDE DEF room
<1>3. tool'.block = room.block /\ tool'.pc = pc
  BY <1>2
<1>4. UNCHANGED <<inodeBits, inode, content>>
  BY <1>2 DEF disk
<1>5. RoomStays'
  BY <1>1, <1>3, <1>4 DEF RoomStays, HasRoom, LastOf
<1>6. OwnInode'
  BY <1>3 DEF OwnInode
<1> QED
  BY <1>4, <1>5, <1>6, SameChains

LEMMA TakesInodeChains ==
    ASSUME TypeOK, Kept, Chains, NEW mode, NEW links, NEW blocks, ClearInodes # {},
           tool.pc = "inode", mode = "dir" => blocks = 1,
           tool.cmd = "mkdir" => mode = "dir", tool.cmd = "cp" => mode = "reg",
           tool.cmd = "ln -s" => mode = "lnk",
           TakesInode(mode, links, blocks)
    PROVE  Chains'
<1> DEFINE i == FirstEmpty(ClearInodes)
<1>1. i \in Inodes
  BY FreshInode DEF Kept
<1>2. /\ inodeBits' = inodeBits \cup {i}
      /\ inode' = [inode EXCEPT ![i] = [mode |-> mode, links |-> links, blocks |-> blocks,
                                        block |-> inode[i].block]]
      /\ tool' = [tool EXCEPT !.ino = i, !.pc = "blocks"]
      /\ UNCHANGED <<blockBits, content>>
  BY DEF TakesInode
<1> HIDE DEF i
<1>3. inode'[i].mode = mode /\ inode'[i].blocks = blocks
  BY <1>1, <1>2 DEF TypeOK
<1>4. \A d \in Inodes : d # i => inode'[d] = inode[d]
  BY <1>2 DEF TypeOK
<1>5. WholeContent'
  BY <1>2 DEF Chains, WholeContent
<1>6. WholeDirs'
  <2>1. ASSUME NEW d \in Dirs', NEW k \in 1 .. Direct - 1, k < inode'[d].blocks
        PROVE  Whole(content'[inode'[d].block[k]])
    <3>1. d \in inodeBits' /\ inode'[d].mode = "dir"
      BY Zenon DEF Dirs
    <3>2. CASE d = i
      <4>1. inode'[d].blocks = 1
        BY <1>3, <3>1, <3>2, Zenon
      <4>2. ~ k < 1
        BY OtherBlocks
      <4> QED
        BY <2>1, <3>2, <4>1, <4>2, Zenon
    <3>3. CASE d # i
      <4>1. d \in inodeBits /\ d \in Inodes
        BY <1>2, <3>1, <3>3 DEF TypeOK
      <4>2. d \in Dirs
        BY <1>2, <1>4, <3>3, <4>1, DirStays
      <4> QED
        BY <1>2, <1>4, <2>1, <3>3, <4>1, <4>2 DEF Chains, WholeDirs
    <3> QED
      BY <3>2, <3>3
  <2> QED
    BY <2>1 DEF WholeDirs
<1>7. /\ tool'.block = tool.block /\ tool'.cmd = tool.cmd /\ tool'.grow = tool.grow
      /\ tool'.ino = i /\ tool'.pc = "blocks"
  BY <1>2 DEF TypeOK, Tool
<1>8. RoomStays'
  BY <1>2, <1>7 DEF Chains, RoomStays, HasRoom, LastOf
<1>9. OwnInode'
  BY <1>3, <1>7 DEF OwnInode
<1> QED
  BY <1>5, <1>6, <1>8, <1>9 DEF Chains

LEMMA KeptFresh ==
    ASSUME TypeOK, Kept, FirstEmpty(ClearBlocks) \in Blocks
    PROVE  FirstEmpty(ClearBlocks) # 0
<1>1. 0 \in Reserved
  BY Sizes DEF Reserved
<1> QED
  BY <1>1, FreshBlock, Zenon DEF Kept

LEMMA MovedFields ==
    ASSUME TypeOK, NEW pc, tool' = [tool EXCEPT !.pc = pc]
    PROVE  /\ tool'.block = tool.block /\ tool'.cmd = tool.cmd /\ tool'.grow = tool.grow
           /\ tool'.ino = tool.ino /\ tool'.pc = pc
  BY DEF TypeOK, Tool

LEMMA allocateDirBlocksChains ==
    ASSUME TypeOK, Kept, Chains, allocateDirBlocks PROVE Chains'
<1> DEFINE b == FirstEmpty(ClearBlocks)
           i == tool.ino
           dots == DotEntries(i, tool.parent)
<1>1. CASE End("failed")
  BY <1>1, EndChains
<1>2. CASE /\ b \in Blocks
           /\ inode' = [inode EXCEPT ![i].block[0] = b]
           /\ content' = [content EXCEPT ![b] = dots]
           /\ tool' = [tool EXCEPT !.pc = "entry"]
           /\ UNCHANGED inodeBits
  <2>1. b # 0
    BY <1>2, KeptFresh
  <2>2. Whole(dots) /\ dots[1].inode = i
    BY WholeDots
  <2>3. content'[b] = dots /\ \A c \in Blocks : c # b => content'[c] = content[c]
    BY <1>2 DEF TypeOK
  <2>4. i \in Inodes /\ inode[i].blocks = 1
    BY ToolFields DEF Chains, OwnInode, allocateDirBlocks
  <2>5. inode'[i].blocks = 1 /\ \A d \in Inodes : d # i => inode'[d] = inode[d]
    BY <1>2, <2>4 DEF TypeOK, Inode
  <2>6. tool.pc = "blocks"
    BY DEF allocateDirBlocks
  <2>10. dots[Len(dots)].off + 1 < Capacity
    BY DotsRoom
  <2> HIDE DEF b, dots, i
  <2>7. WholeContent'
    <3>1. ASSUME NEW c \in Blocks, content'[c][1].name = "." PROVE Whole(content'[c])
      BY <2>2, <2>3, <3>1 DEF Chains, WholeContent
    <3>2. content'[0] = <<Zero>>
      BY <2>1, <2>3, Sizes DEF Chains, WholeContent
    <3> QED
      BY <3>1, <3>2 DEF WholeContent
  <2>8. WholeDirs'
    <3>1. ASSUME NEW d \in Dirs', NEW k \in 1 .. Direct - 1, k < inode'[d].blocks
          PROVE  Whole(content'[inode'[d].block[k]])
      <4>1. d # i
        BY <2>5, <3>1, OtherBlocks
      <4>2. d \in inodeBits /\ d \in Inodes /\ content'[inode'[d].block[0]][1].inode = d
        BY <1>2 DEF Dirs, TypeOK
      <4>3. inode'[d] = inode[d]
        BY <2>5, <4>1, <4>2
      <4>4. inode[d].block[0] # b
        BY <2>2, <2>3, <4>1, <4>2, <4>3
      <4>5. inode[d].block[0] \in Blocks
        <5>1. 0 \in 0 .. Direct
          BY Sizes
        <5> QED
          BY <4>2, <5>1, BlockOfInode
      <4>6. content'[inode[d].block[0]] = content[inode[d].block[0]]
        BY <2>3, <4>4, <4>5
      <4>7. d \in Dirs
        BY <4>2, <4>3, <4>6, DirStays
      <4>8. Whole(content[inode[d].block[k]])
        BY <3>1, <4>3, <4>7 DEF Chains, WholeDirs
      <4>9. inode[d].block[k] \in Blocks
        BY <4>2, OtherBlocks, BlockOfInode
      <4> QED
        BY <2>2, <2>3, <4>3, <4>8, <4>9
    <3> QED
      BY <3>1 DEF WholeDirs
  <2>9. RoomStays'
    <3>1. tool'.block = tool.block /\ tool'.grow = tool.grow
      BY <1>2, MovedFields
    <3>2. tool.block \in Blocks
      BY ToolFields
    <3>3. CASE tool.block = b
      <4>1. content'[tool'.block] = dots
        BY <1>2, <2>3, <3>1, <3>3
      <4> QED
        BY <2>10, <4>1, RoomAfter
    <3>4. CASE tool.block # b
      BY <2>3, <2>6, <3>1, <3>2, <3>4 DEF Chains, RoomStays, HasRoom, LastOf
    <3> QED
      BY <3>3, <3>4
  <2>11. OwnInode'
    <3>1. tool'.pc = "entry"
      BY <1>2, MovedFields
    <3> QED
      BY <3>1 DEF OwnInode
  <2> QED
    BY <2>7, <2>8, <2>9, <2>11 DEF Chains
<1> QED
  BY <1>1, <1>2, Zenon DEF allocateDirBlocks

LEMMA checkFileBlocksChains ==
    ASSUME TypeOK, Chains, checkFileBlocks \/ copyFileBytes PROVE Chains'
<1>1. CASE End("failed") \/ End("killed")
  BY <1>1, EndChains
<1>2. CASE /\ tool.pc = "blocks" /\ tool.cmd = "cp"
           /\ tool' = [tool EXCEPT !.pc = "take"] /\ UNCHANGED disk
  <2>1. /\ tool'.block = tool.block /\ tool'.grow = tool.grow
        /\ tool'.ino = tool.ino /\ tool'.pc = "take"
    BY <1>2, MovedFields
  <2>2. UNCHANGED <<inodeBits, inode, content>>
    BY <1>2 DEF disk
  <2>3. RoomStays'
    BY <1>2, <2>1, <2>2 DEF Chains, RoomStays, HasRoom, LastOf
  <2>4. OwnInode'
    BY <1>2, <2>1, <2>2 DEF Chains, OwnInode
  <2> QED
    BY <2>2, <2>3, <2>4, SameChains
<1>3. CASE /\ tool.pc = "text"
           /\ tool' = [tool EXCEPT !.pc = "entry"] /\ UNCHANGED disk
  <2>1. tool'.block = tool.block /\ tool'.grow = tool.grow /\ tool'.pc = "entry"
    BY <1>3, MovedFields
  <2>2. UNCHANGED <<inodeBits, inode, content>>
    BY <1>3 DEF disk
  <2>3. RoomStays'
    BY <1>3, <2>1, <2>2 DEF Chains, RoomStays, HasRoom, LastOf
  <2>4. OwnInode'
    BY <2>1 DEF OwnInode
  <2> QED
    BY <2>2, <2>3, <2>4, SameChains
<1> QED
  BY <1>1, <1>2, <1>3, Zenon DEF checkFileBlocks, copyFileBytes

\* Other bytes go into blocks that are no directory's.
LEMMA TextChains ==
    ASSUME TypeOK, Chains, NEW blocks, blocks \cap (DirBlocks \cup {0}) = {},
           content' = [c \in Blocks |-> IF c \in blocks THEN <<Text>> ELSE content[c]],
           UNCHANGED inodeBits,
           inode[tool.ino].mode \in {"reg", "lnk"},
           inode'[tool.ino].mode = inode[tool.ino].mode,
           \A d \in Inodes : d # tool.ino => inode'[d] = inode[d]
    PROVE  WholeContent' /\ WholeDirs'
<1>0. Text.name # "."
  BY DEF Text, NewEntry
<1>1. \A c \in Blocks : c \in blocks => content'[c][1].name # "."
  BY <1>0
<1>2. \A c \in Blocks : c \notin blocks => content'[c] = content[c]
  OBVIOUS
<1>3. WholeContent'
  <2>1. ASSUME NEW c \in Blocks, content'[c][1].name = "." PROVE Whole(content'[c])
    BY <1>1, <1>2, <2>1 DEF Chains, WholeContent
  <2>2. content'[0] = <<Zero>>
    BY <1>2, Sizes DEF Chains, WholeContent
  <2> QED
    BY <2>1, <2>2 DEF WholeContent
<1>4. WholeDirs'
  <2>1. ASSUME NEW d \in Dirs', NEW k \in 1 .. Direct - 1, k < inode'[d].blocks
        PROVE  Whole(content'[inode'[d].block[k]])
    <3>1. /\ d \in inodeBits /\ d \in Inodes /\ inode'[d].mode = "dir"
          /\ content'[inode'[d].block[0]][1].name = "."
      BY DEF Dirs, TypeOK
    <3>2. inode'[d] = inode[d]
      BY <3>1
    <3>3. inode[d].block[0] \in Blocks
      <4>1. 0 \in 0 .. Direct
        BY Sizes
      <4> QED
        BY <3>1, <4>1, BlockOfInode
    <3>4. content'[inode[d].block[0]] = content[inode[d].block[0]]
      BY <1>1, <1>2, <3>1, <3>2, <3>3
    <3>5. d \in Dirs
      BY <3>1, <3>2, <3>4, DirStays
    <3>6. Whole(content[inode[d].block[k]])
      BY <2>1, <3>2, <3>5 DEF Chains, WholeDirs
    <3>7. inode[d].block[k] \in DirBlocks /\ inode[d].block[k] \in Blocks
      BY <2>1, <3>1, <3>2, <3>5, OtherBlocks, DirOwns, BlockOfInode
    <3> QED
      BY <1>2, <3>2, <3>6, <3>7
  <2> QED
    BY <2>1 DEF WholeDirs
<1> QED
  BY <1>3, <1>4

LEMMA NotSpilled ==
    ASSUME NEW blocks, Unspoilt', Spilled(blocks) \subseteq damage'
    PROVE  blocks \cap (DirBlocks \cup {0}) = {}
<1>1. "spilled" \notin damage'
  BY DEF Unspoilt, Without
<1> QED
  BY <1>1, Zenon DEF Spilled

LEMMA TextRoom ==
    ASSUME TypeOK, Chains, NEW blocks,
           content' = [c \in Blocks |-> IF c \in blocks THEN <<Text>> ELSE content[c]],
           tool'.block = tool.block, tool'.grow = tool.grow, tool.pc \notin {"idle", "hung"}
    PROVE  RoomStays'
<1>1. tool.block \in Blocks
  BY ToolFields
<1>2. CASE tool.block \in blocks
  <2>1. content'[tool'.block] = <<Text>>
    BY <1>1, <1>2
  <2> QED
    BY <2>1, OneRoom, RoomAfter
<1>3. CASE tool.block \notin blocks
  <2>1. content'[tool'.block] = content[tool.block]
    BY <1>1, <1>3
  <2> QED
    BY <2>1 DEF Chains, RoomStays, HasRoom, LastOf
<1> QED
  BY <1>2, <1>3

LEMMA allocateFileBlocksChains ==
    ASSUME TypeOK, Chains, allocateFileBlocks, Unspoilt' PROVE Chains'
<1> DEFINE k == tool.taken
           i == tool.ino
           b == FirstEmpty(ClearBlocks)
           pointers == inode[i].block[Direct]
           next == IF k + 1 = FileBlocks(tool.bytes) THEN "text" ELSE "take"
<1>1. CASE End("failed")
  BY <1>1, EndChains
<1>2. CASE /\ inode' = IF k <= Direct THEN [inode EXCEPT ![i].block[k] = b] ELSE inode
           /\ tool' = [tool EXCEPT !.taken = k + 1, !.pc = next]
           /\ IF k <= Direct THEN UNCHANGED content
              ELSE content' = [content EXCEPT ![pointers] = <<Text>>]
           /\ damage' = damage \cup Overrun({b})
                               \cup (IF k <= Direct THEN {} ELSE Spilled({pointers}))
           /\ UNCHANGED inodeBits
  <2>1. tool.pc = "take" /\ i \in Inodes /\ inode[i].mode = "reg"
    BY ToolFields DEF allocateFileBlocks, Chains, OwnInode
  <2>2. /\ inode'[i].mode = inode[i].mode
        /\ \A d \in Inodes : d # i => inode'[d] = inode[d]
    <3>1. inode[i] \in Inode /\ inode \in [Inodes -> Inode]
      BY <2>1 DEF TypeOK
    <3>2. CASE inode' = [inode EXCEPT ![i].block[k] = b]
      BY <2>1, <3>1, <3>2 DEF Inode
    <3>3. CASE inode' = inode
      BY <3>3
    <3> QED
      BY <1>2, <3>2, <3>3, Zenon
  <2>3. /\ tool'.block = tool.block /\ tool'.grow = tool.grow
        /\ tool'.ino = i /\ tool'.pc = next
    BY <1>2 DEF TypeOK, Tool
  <2>4. OwnInode'
    BY <2>1, <2>2, <2>3 DEF OwnInode
  <2> HIDE DEF b, next
  <2>5. CASE k <= Direct
    <3>1. content' = [c \in Blocks |-> IF c \in {} THEN <<Text>> ELSE content[c]]
      BY <1>2, <2>5 DEF TypeOK
    <3>2. WholeContent' /\ WholeDirs'
      <4>1. {} \cap (DirBlocks \cup {0}) = {}
        OBVIOUS
      <4> QED
        BY <1>2, <2>1, <2>2, <3>1, <4>1, TextChains
    <3>3. RoomStays'
      <4>1. UNCHANGED content
        BY <1>2, <2>5
      <4> QED
        BY <2>1, <2>3, <4>1 DEF Chains, RoomStays, HasRoom, LastOf
    <3> QED
      BY <2>4, <3>2, <3>3 DEF Chains
  <2>6. CASE ~ k <= Direct
    <3> HIDE DEF k, pointers
    <3>1. content' = [content EXCEPT ![pointers] = <<Text>>]
      BY <1>2, <2>6
    <3>2. content' = [c \in Blocks |-> IF c \in {pointers} THEN <<Text>> ELSE content[c]]
      BY <3>1 DEF TypeOK
    <3>3. {pointers} \cap (DirBlocks \cup {0}) = {}
      <4>1. Spilled({pointers}) \subseteq damage'
        BY <1>2, <2>6, Zenon
      <4> QED
        BY <4>1, NotSpilled
    <3>4. WholeContent' /\ WholeDirs'
      BY <1>2, <2>1, <2>2, <3>2, <3>3, TextChains
    <3>5. RoomStays'
      BY <2>1, <2>3, <3>2, TextRoom
    <3> QED
      BY <2>4, <3>4, <3>5 DEF Chains
  <2> QED
    BY <2>5, <2>6
<1> QED
  BY <1>1, <1>2, Zenon DEF allocateFileBlocks

LEMMA allocateLinkBlocksChains ==
    ASSUME TypeOK, Chains, allocateLinkBlocks, Unspoilt' PROVE Chains'
<1> DEFINE b == FirstEmpty(ClearBlocks)
           i == tool.ino
           i_block == [inode[i].block EXCEPT ![0] = b]
           written == {i_block[k] : k \in 0 .. Pieces[tool.bytes] - 1}
<1>1. CASE End("failed")
  BY <1>1, EndChains
<1>2. CASE /\ inode' = [inode EXCEPT ![i].block = i_block]
           /\ content' = [c \in Blocks |-> IF c \in written THEN <<Text>> ELSE content[c]]
           /\ damage' = damage \cup Overrun({b}) \cup Spilled(written)
           /\ tool' = [tool EXCEPT !.pc = "entry"]
           /\ UNCHANGED inodeBits
  <2>1. tool.pc = "blocks" /\ i \in Inodes /\ inode[i].mode = "lnk"
    BY ToolFields DEF allocateLinkBlocks, Chains, OwnInode
  <2>2. /\ inode'[i].mode = inode[i].mode
        /\ \A d \in Inodes : d # i => inode'[d] = inode[d]
    <3>1. inode[i] \in Inode /\ inode \in [Inodes -> Inode]
      BY <2>1 DEF TypeOK
    <3> QED
      BY <1>2, <2>1, <3>1 DEF Inode
  <2>3. tool'.block = tool.block /\ tool'.grow = tool.grow /\ tool'.pc = "entry"
    BY <1>2, MovedFields
  <2>4. OwnInode'
    BY <2>3 DEF OwnInode
  <2> HIDE DEF b, i_block, written
  <2>5. content' = [c \in Blocks |-> IF c \in written THEN <<Text>> ELSE content[c]]
    BY <1>2
  <2>6. written \cap (DirBlocks \cup {0}) = {}
    <3>1. Spilled(written) \subseteq damage'
      BY <1>2, Zenon
    <3> QED
      BY <3>1, NotSpilled
  <2>7. WholeContent' /\ WholeDirs'
    BY <1>2, <2>1, <2>2, <2>5, <2>6, TextChains
  <2>8. RoomStays'
    BY <2>1, <2>3, <2>5, TextRoom
  <2> QED
    BY <2>4, <2>7, <2>8 DEF Chains
<1> QED
  BY <1>1, <1>2, Zenon DEF allocateLinkBlocks

\* The entries of one block are written anew, and the block stays what it was.
LEMMA RewrittenChains ==
    ASSUME TypeOK, Chains, NEW b \in Blocks, b # 0, NEW chain,
           content' = [content EXCEPT ![b] = chain],
           Whole(content[b]) => Whole(chain),
           chain[1].name = content[b][1].name, chain[1].inode \in {content[b][1].inode, -1},
           inodeBits' \subseteq inodeBits,
           \A i \in Inodes : /\ inode'[i].mode = inode[i].mode
                             /\ inode'[i].blocks = inode[i].blocks
                             /\ inode'[i].block = inode[i].block
    PROVE  WholeContent' /\ WholeDirs'
<1>1. content'[b] = chain /\ \A c \in Blocks : c # b => content'[c] = content[c]
  BY DEF TypeOK
<1>2. \A c \in Blocks : Whole(content[c]) => Whole(content'[c])
  BY <1>1
<1>3. WholeContent'
  <2>1. ASSUME NEW c \in Blocks, content'[c][1].name = "." PROVE Whole(content'[c])
    <3>1. content[c][1].name = "."
      BY <1>1, <2>1
    <3> QED
      BY <1>2, <3>1 DEF Chains, WholeContent
  <2>2. content'[0] = <<Zero>>
    BY <1>1, Sizes DEF Chains, WholeContent
  <2> QED
    BY <2>1, <2>2 DEF WholeContent
<1>4. WholeDirs'
  <2>1. ASSUME NEW d \in Dirs', NEW k \in 1 .. Direct - 1, k < inode'[d].blocks
        PROVE  Whole(content'[inode'[d].block[k]])
    <3>1. /\ d \in inodeBits /\ d \in Inodes
          /\ content'[inode'[d].block[0]][1].name = "."
          /\ content'[inode'[d].block[0]][1].inode = d
      BY DEF Dirs, TypeOK
    <3>2. /\ inode'[d].mode = inode[d].mode /\ inode'[d].blocks = inode[d].blocks
          /\ inode'[d].block = inode[d].block
      BY <3>1
    <3>3. inode[d].block[0] \in Blocks
      <4>1. 0 \in 0 .. Direct
        BY Sizes
      <4> QED
        BY <3>1, <4>1, BlockOfInode
    <3>4. d # -1
      BY <3>1, Sizes
    <3>5. /\ content[inode[d].block[0]][1].name = "."
          /\ content[inode[d].block[0]][1].inode = d
      BY <1>1, <3>1, <3>2, <3>3, <3>4
    <3>6. d \in Dirs
      BY <3>1, <3>2, <3>5, DirStays
    <3>7. Whole(content[inode[d].block[k]])
      BY <2>1, <3>2, <3>6 DEF Chains, WholeDirs
    <3>8. inode[d].block[k] \in Blocks
      BY <3>1, OtherBlocks, BlockOfInode
    <3> QED
      BY <1>2, <3>2, <3>7, <3>8
  <2> QED
    BY <2>1 DEF WholeDirs
<1> QED
  BY <1>3, <1>4

LEMMA AppendedAt ==
    ASSUME NEW b \in Blocks, NEW e
    PROVE  LET old == LastOf(b)
               new == [e EXCEPT !.off = old.off + 1, !.rec = Capacity - (old.off + 1)]
               mid == [content[b] EXCEPT ![Len(content[b])] =
                         [old EXCEPT !.rec = 1, !.ended = @ /\ old.name \notin Aligned]]
           IN  Appended(b, e)[b] = Append(mid, new)
<1> DEFINE old == LastOf(b)
           new == [e EXCEPT !.off = old.off + 1, !.rec = Capacity - (old.off + 1)]
           mid == [content[b] EXCEPT ![Len(content[b])] =
                     [old EXCEPT !.rec = 1, !.ended = @ /\ old.name \notin Aligned]]
           chain == Append(mid, new)
           over(c) == c = b + 1 /\ RunsOver(b)
           f(c) == CASE c = b -> chain [] over(c) -> <<Zero>> [] OTHER -> content[c]
<1>1. Appended(b, e) = [c \in Blocks |-> f(c)]
  BY Zenon DEF Appended
<1>2. ~ over(b)
  BY Sizes
<1> HIDE DEF chain, over
<1>3. f(b) = chain
  BY <1>2
<1> HIDE DEF f
<1>4. Appended(b, e)[b] = chain
  BY <1>1, <1>3
<1> QED
  BY <1>4, Zenon DEF chain

\* The other blocks stay as they are, unless the padding runs into one in use.
LEMMA AppendedElsewhere ==
    ASSUME NEW b \in Blocks, NEW e, RunsOver(b) => content[b + 1] = <<Zero>>
    PROVE  /\ \A c \in Blocks : c # b => Appended(b, e)[c] = content[c]
           /\ Appended(b, e) = [c \in Blocks |-> Appended(b, e)[c]]
<1> DEFINE old == LastOf(b)
           new == [e EXCEPT !.off = old.off + 1, !.rec = Capacity - (old.off + 1)]
           mid == [content[b] EXCEPT ![Len(content[b])] =
                     [old EXCEPT !.rec = 1, !.ended = @ /\ old.name \notin Aligned]]
           chain == Append(mid, new)
           over(c) == c = b + 1 /\ RunsOver(b)
           f(c) == CASE c = b -> chain [] over(c) -> <<Zero>> [] OTHER -> content[c]
<1>1. Appended(b, e) = [c \in Blocks |-> f(c)]
  BY Zenon DEF Appended
<1>2. ASSUME NEW c \in Blocks, over(c) PROVE content[c] = <<Zero>>
  BY <1>2
<1> HIDE DEF chain, over
<1>3. ASSUME NEW c \in Blocks, c # b PROVE f(c) = content[c]
  <2>1. CASE over(c)
    BY <1>2, <1>3, <2>1
  <2>2. CASE ~ over(c)
    BY <1>3, <2>2
  <2> QED
    BY <2>1, <2>2
<1> HIDE DEF f
<1> QED
  BY <1>1, <1>3

LEMMA AppendedOthers ==
    ASSUME TypeOK, NEW b \in Blocks, NEW e, RunsOver(b) => content[b + 1] = <<Zero>>
    PROVE  Appended(b, e) = [content EXCEPT ![b] = Appended(b, e)[b]]
<1> DEFINE A == Appended(b, e)
<1>1. /\ \A c \in Blocks : c # b => A[c] = content[c]
      /\ A = [c \in Blocks |-> A[c]]
  BY AppendedElsewhere
<1>2. content = [c \in Blocks |-> content[c]]
  BY DEF TypeOK
<1> HIDE DEF A
<1>3. A = [content EXCEPT ![b] = A[b]]
  BY <1>1, <1>2
<1> QED
  BY <1>3 DEF A

LEMMA AppendedWhole ==
    ASSUME TypeOK, NEW b \in Blocks, HasRoom(b), NEW e \in Entry
    PROVE  LET chain == Appended(b, e)[b] IN
           /\ Whole(content[b]) => Whole(chain)
           /\ chain[1].name = content[b][1].name /\ chain[1].inode = content[b][1].inode
<1> DEFINE old == LastOf(b)
           n == Len(content[b])
           new == [e EXCEPT !.off = old.off + 1, !.rec = Capacity - (old.off + 1)]
           last == [old EXCEPT !.rec = 1, !.ended = @ /\ old.name \notin Aligned]
           mid == [content[b] EXCEPT ![n] = last]
           chain == Append(mid, new)
<1>1. old \in Entry /\ n \in Nat \ {0} /\ content[b] \in Chain
  BY LastTyped
<1>0. old = content[b][n]
  BY DEF LastOf
<1>2. /\ old.off + 1 \in Int /\ Capacity - (old.off + 1) \in Int /\ 1 \in Int
      /\ (old.ended /\ old.name \notin Aligned) \in BOOLEAN
  BY <1>1, Sizes DEF Entry
<1>3. new \in Entry /\ last \in Entry
  BY <1>1, <1>2, PlacedEntry, ShortenedEntry
<1>4. /\ last.off = old.off /\ last.rec = 1
      /\ last.name = old.name /\ last.inode = old.inode
      /\ new.off = old.off + 1 /\ new.rec = Capacity - (old.off + 1)
  BY <1>1 DEF Entry
<1>5. Appended(b, e)[b] = chain
  BY AppendedAt
<1>6. old.off + 1 < Capacity
  BY DEF HasRoom
<1>7. Len(mid) = n /\ mid \in Chain
  <2>1. n \in 1 .. n
    BY <1>1
  <2> HIDE DEF last
  <2> QED
    BY <1>1, <1>3, <2>1, ChangedChain
<1>8. mid[1].name = content[b][1].name /\ mid[1].inode = content[b][1].inode
  <2>1. content[b] \in [1 .. n -> Entry] /\ 1 \in 1 .. n
    BY <1>1 DEF Chain
  <2> HIDE DEF n, last
  <2>2. mid[1] = IF n = 1 THEN last ELSE content[b][1]
    BY <2>1
  <2> QED
    BY <1>0, <1>1, <1>4, <2>2
<1>9. chain[1] = mid[1]
  <2>1. mid \in Seq(Entry) /\ 1 \in 1 .. Len(mid)
    BY <1>1, <1>7 DEF Chain
  <2> HIDE DEF mid, new
  <2> QED
    BY <1>3, <2>1
<1>10. Whole(content[b]) => Whole(chain)
  <2> HIDE DEF old, last, new
  <2> QED
    BY <1>0, <1>1, <1>3, <1>4, <1>6, WholeAppend
<1> HIDE DEF chain, mid
<1> QED
  BY <1>5, <1>8, <1>9, <1>10

\* A directory gets a block that holds the new entry alone.
LEMMA GrownChains ==
    ASSUME TypeOK, Chains, NEW b \in Blocks, b # 0, NEW e, Whole(<<e>>), e.name # ".",
           content' = [content EXCEPT ![b] = <<e>>],
           UNCHANGED inodeBits,
           \A d \in Inodes, k \in 0 .. Direct :
             /\ inode'[d].mode = inode[d].mode
             /\ \/ inode'[d].block[k] = b
                \/ /\ inode'[d].block[k] = inode[d].block[k]
                   /\ k < inode'[d].blocks => k < inode[d].blocks
    PROVE  WholeContent' /\ WholeDirs'
<1>1. content'[b] = <<e>> /\ \A c \in Blocks : c # b => content'[c] = content[c]
  BY DEF TypeOK
<1>2. content'[b][1].name # "." /\ Whole(content'[b])
  BY <1>1
<1>3. WholeContent'
  <2>1. ASSUME NEW c \in Blocks, content'[c][1].name = "." PROVE Whole(content'[c])
    BY <1>1, <1>2, <2>1 DEF Chains, WholeContent
  <2>2. content'[0] = <<Zero>>
    BY <1>1, Sizes DEF Chains, WholeContent
  <2> QED
    BY <2>1, <2>2 DEF WholeContent
<1>4. WholeDirs'
  <2>1. ASSUME NEW d \in Dirs', NEW k \in 1 .. Direct - 1, k < inode'[d].blocks
        PROVE  Whole(content'[inode'[d].block[k]])
    <3>1. /\ d \in inodeBits /\ d \in Inodes
          /\ content'[inode'[d].block[0]][1].name = "."
      BY DEF Dirs, TypeOK
    <3>2. 0 \in 0 .. Direct /\ k \in 0 .. Direct
      BY OtherBlocks, Sizes
    <3>3. inode[d].block[0] \in Blocks /\ inode[d].block[k] \in Blocks
      BY <3>1, <3>2, BlockOfInode
    <3>4. inode'[d].block[0] = inode[d].block[0] /\ inode'[d].mode = inode[d].mode
      BY <1>2, <3>1, <3>2
    <3>5. content'[inode[d].block[0]] = content[inode[d].block[0]]
      BY <1>1, <1>2, <3>1, <3>3, <3>4
    <3>6. d \in Dirs
      BY <3>1, <3>4, <3>5, DirStays
    <3>7. CASE inode'[d].block[k] = b
      BY <1>2, <3>7
    <3>8. CASE inode'[d].block[k] = inode[d].block[k] /\ k < inode[d].blocks
      <4>1. Whole(content[inode[d].block[k]])
        BY <3>6, <3>8 DEF Chains, WholeDirs
      <4> QED
        BY <1>1, <1>2, <3>3, <3>8, <4>1
    <3> QED
      BY <2>1, <3>1, <3>2, <3>7, <3>8
  <2> QED
    BY <2>1 DEF WholeDirs
<1> QED
  BY <1>3, <1>4

LEMMA IdleChains ==
    ASSUME WholeContent', WholeDirs', tool'.pc = "idle" PROVE Chains'
  BY DEF Chains, RoomStays, OwnInode

LEMMA BootStuck == ASSUME Chains PROVE Stuck(0)
<1>1. content[0] = <<Zero>> /\ Zero.rec = 0
  BY DEF Chains, WholeContent, Zero, NewEntry
<1> QED
  BY <1>1 DEF Stuck, LastOf

LEMMA AddsEntryChains ==
    ASSUME TypeOK, Kept, Chains, NEW type \in Types, NEW table \in [Inodes -> Inode],
           \A i \in Inodes : /\ table[i].mode = inode[i].mode
                             /\ table[i].blocks = inode[i].blocks
                             /\ table[i].block = inode[i].block,
           tool.pc = "entry", AddsEntry(type, table), Unspoilt'
    PROVE  Chains'
<1> DEFINE e == NewEntry(tool.name, tool.ino, type, 0, Capacity)
           b == IF tool.grow THEN FirstEmpty(ClearBlocks) ELSE tool.block
           d == tool.parent
<1>1. e \in Entry /\ Whole(<<e>>) /\ e.name # "."
  <2>1. tool.name \in AllNames
    BY ToolFields DEF AllNames
  <2>2. 0 \in Int /\ Capacity \in Int
    BY Sizes
  <2>3. tool.ino \in Inodes \cup {-1}
    BY ToolFields, Zenon
  <2>4. e \in Entry
    BY <2>1, <2>2, <2>3, NewEntryTyped, Zenon
  <2>5. e.off = 0 /\ e.rec = Capacity /\ e.name = tool.name
    BY DEF NewEntry
  <2>6. tool.name # "."
    BY ToolFields, NamesAssumption
  <2> HIDE DEF e
  <2> QED
    BY <2>4, <2>5, <2>6, WholeSingle
<1>2. Idle.pc = "idle"
  BY DEF Idle
<1>3. CASE Spin \/ End("failed")
  BY <1>3, EndChains
<1>4. CASE /\ ~ tool.grow
           /\ ~ Stuck(b)
           /\ content' = Appended(b, e)
           /\ inode' = table
           /\ tool' = Idle
           /\ damage' = damage
                \cup (IF RunsOver(b) /\ content[b + 1] # <<Zero>> THEN {"padded"} ELSE {})
                \cup Twin
           /\ UNCHANGED inodeBits
  <2>1. b = tool.block /\ b \in Blocks
    <3>1. b = tool.block
      BY <1>4, Zenon
    <3> QED
      BY <3>1, ToolFields, Zenon
  <2> HIDE DEF b, e
  <2>2. b # 0
    BY <1>4, BootStuck
  <2>3. HasRoom(b)
    BY <1>4, <2>1, <2>2 DEF Chains, RoomStays
  <2>4. RunsOver(b) => content[b + 1] = <<Zero>>
    <3>1. "padded" \notin damage'
      BY DEF Unspoilt, Without
    <3> QED
      BY <1>4, <3>1, Zenon
  <2> DEFINE chain == Appended(b, e)[b]
  <2>5. content' = [content EXCEPT ![b] = chain]
    BY <1>1, <1>4, <2>1, <2>4, AppendedOthers
  <2>6. /\ Whole(content[b]) => Whole(chain)
        /\ chain[1].name = content[b][1].name /\ chain[1].inode = content[b][1].inode
    BY <1>1, <2>1, <2>3, AppendedWhole
  <2> HIDE DEF chain
  <2>7. WholeContent' /\ WholeDirs'
    BY <1>4, <2>1, <2>2, <2>5, <2>6, RewrittenChains
  <2> QED
    BY <1>2, <1>4, <2>7, IdleChains
<1>5. CASE /\ tool.grow
           /\ b \in Blocks
           /\ inode' = [table EXCEPT ![d].block[inode[d].blocks] = b, ![d].blocks = @ + 1]
           /\ content' = [content EXCEPT ![b] = <<e>>]
           /\ tool' = Idle
           /\ UNCHANGED inodeBits
  <2>1. b # 0
    <3>1. b = FirstEmpty(ClearBlocks)
      BY <1>5, Zenon
    <3> QED
      BY <1>5, <3>1, KeptFresh, Zenon
  <2> HIDE DEF b, e
  <2> DEFINE n == inode[d].blocks
  <2>2. d \in Inodes /\ n \in Nat /\ table[d] \in Inode
    <3>1. d \in Inodes
      BY ToolFields, Zenon
    <3> QED
      BY <3>1 DEF TypeOK, Inode
  <2>3. /\ inode'[d].mode = table[d].mode
        /\ inode'[d].blocks = table[d].blocks + 1
        /\ inode'[d].block = [table[d].block EXCEPT ![n] = b]
        /\ \A i \in Inodes : i # d => inode'[i] = table[i]
    BY <1>5, <2>2 DEF Inode
  <2>4. ASSUME NEW i \in Inodes, NEW k \in 0 .. Direct
        PROVE  /\ inode'[i].mode = inode[i].mode
               /\ \/ inode'[i].block[k] = b
                  \/ /\ inode'[i].block[k] = inode[i].block[k]
                     /\ k < inode'[i].blocks => k < inode[i].blocks
    <3>1. CASE i # d
      BY <2>3, <3>1
    <3>2. CASE i = d /\ k = n
      <4>1. table[d].block \in [0 .. Direct -> Blocks]
        BY <2>2 DEF Inode
      <4> QED
        BY <2>2, <2>3, <3>2, <4>1
    <3>3. CASE i = d /\ k # n
      <4>1. table[d].block \in [0 .. Direct -> Blocks] /\ table[d].blocks = n
        BY <2>2 DEF Inode
      <4>2. inode'[d].blocks = n + 1 /\ inode'[d].block[k] = table[d].block[k]
        BY <2>3, <3>3, <4>1
      <4>3. k < n + 1 => k < n
        BY <2>2, <3>3
      <4> HIDE DEF n
      <4> QED
        BY <2>2, <2>3, <3>3, <4>2, <4>3 DEF n
    <3> QED
      BY <3>1, <3>2, <3>3
  <2> HIDE DEF n
  <2>5. WholeContent' /\ WholeDirs'
    BY <1>1, <1>5, <2>1, <2>4, GrownChains
  <2> QED
    BY <1>2, <1>5, <2>5, IdleChains
<1> QED
  BY <1>3, <1>4, <1>5, Zenon DEF AddsEntry

LEMMA delEntryChains ==
    ASSUME TypeOK, Chains, Starts, NEW d \in Inodes, NEW n, Stops(d, "file", n) # {},
           EntryAt(d, First(Stops(d, "file", n))).type \in {"reg", "lnk"},
           delEntry(d, n)
    PROVE  Chains'
<1> DEFINE p == First(Stops(d, "file", n))
           b == inode[d].block[p[1]]
           i == EntryAt(d, p).inode
           chain == Unlinked(content[b], p[2])
<1>1. b \in Blocks /\ p[2] \in 1 .. Len(content[b]) /\ content[b] \in Chain
  <2>1. p \in Places(d)
    BY FirstStop
  <2> HIDE DEF p
  <2>2. b \in Blocks /\ p[2] \in 1 .. Len(content[b])
    BY <2>1, PlaceTyped
  <2> QED
    BY <2>2 DEF TypeOK
<1>2. content[b][p[2]].type \in {"reg", "lnk"}
  BY DEF EntryAt
<1>3. /\ inodeBits' = inodeBits \ {i}
      /\ inode' = [inode EXCEPT ![i].links = 0]
      /\ content' = [content EXCEPT ![b] = chain]
      /\ UNCHANGED tool
  BY Zenon DEF delEntry
<1> HIDE DEF p, i
<1>4. b # 0
  <2>1. content[0] = <<Zero>> /\ Zero.type = "unknown"
    BY DEF Chains, WholeContent, Zero, NewEntry
  <2> HIDE DEF b
  <2> QED
    BY <1>1, <1>2, <2>1
<1> HIDE DEF b
<1>5. /\ Whole(content[b]) => Whole(chain)
      /\ chain[1].name = content[b][1].name /\ chain[1].inode \in {content[b][1].inode, -1}
  BY <1>1, WholeUnlinked, UnlinkedFirst
<1>6. \A j \in Inodes : /\ inode'[j].mode = inode[j].mode
                        /\ inode'[j].blocks = inode[j].blocks
                        /\ inode'[j].block = inode[j].block
  BY <1>3 DEF TypeOK, Inode
<1> HIDE DEF chain
<1>7. WholeContent' /\ WholeDirs'
  BY <1>1, <1>3, <1>4, <1>5, <1>6, RewrittenChains
<1>8. tool.pc = "idle"
  BY Zenon DEF Starts
<1> QED
  BY <1>3, <1>7, <1>8, IdleChains

-----------------------------------------------------------------------------
(* One lemma for each of the actions that share a way to end. *)

LEMMA startsChains ==
    ASSUME TypeOK, Chains, Start PROVE Chains'
<1>1. ASSUME NEW cmd, NEW pc \in {"idle", "hung"}, NEW how, StartAnd(cmd, pc, how)
      PROVE  Chains'
  BY <1>1, EndChains
<1>2. ASSUME NEW q \in Requests, makedir(q) PROVE Chains'
  <2>1. CASE \E d \in Inodes : /\ ~ RoomSpins(d)
                               /\ StartIn("mkdir", "inode", d, q.name, 0, 0, 2)
    BY <2>1, StartInChains
  <2>2. \A d \in Inodes : d >= 0
    BY Sizes
  <2> QED
    BY <1>1, <1>2, <2>1, <2>2, Zenon DEF makedir
<1>3. ASSUME NEW q \in Requests, NEW local, copy(q, local) PROVE Chains'
  <2>1. CASE \E d \in Inodes, bytes \in FileSizes :
               /\ ~ RoomSpins(d)
               /\ StartIn("cp", "inode", d, q.name, 0, bytes, BlockCalc(bytes) + 1)
    BY <2>1, StartInChains
  <2>2. \A d \in Inodes : d >= 0
    BY Sizes
  <2>3. ASSUME NEW d, NEW n, StartInDirectory(d, n) PROVE Chains'
    BY <2>3, EndChains
  <2> QED
    BY <1>1, <1>3, <2>1, <2>2, <2>3, Zenon DEF copy
<1>4. ASSUME NEW q1 \in Requests, NEW q2 \in Requests, lnk(q1, q2) PROVE Chains'
  <2> DEFINE d1 == goodPathExists(q1)
             d2 == goodPathExists(q2)
             source == Hit(d1, "entry", q1.name).inode
  <2>1. CASE /\ {d1, d2} \subseteq Inodes /\ ~ RoomSpins(d2)
             /\ \/ StartIn("ln", "entry", d2, q2.name, source, 0, 2)
                \/ \E bytes \in PathSizes :
                     StartIn("ln -s", "inode", d2, q2.name, 0, bytes, 2)
    <3>1. d2 \in Inodes
      BY <2>1, Zenon
    <3> HIDE DEF d1, d2, source
    <3> QED
      BY <2>1, <3>1, StartInChains
  <2> QED
    BY <1>1, <1>4, <2>1, Zenon DEF lnk
<1>5. ASSUME NEW q \in Requests, rmove(q) PROVE Chains'
  <2> DEFINE d == Walk(q.dirs)
             e == Hit(d, "file", q.name)
  <2>1. CASE /\ Starts /\ d \in Inodes /\ Matches("file", q.name, e)
             /\ delEntry(d, q.name)
    <3>1. e.type \in {"reg", "lnk"}
      BY <2>1 DEF Matches
    <3>2. e # Missing
      <4>1. Missing.type = "unknown"
        BY DEF Missing, NewEntry
      <4> HIDE DEF e
      <4> QED
        BY <3>1, <4>1
    <3>3. Stops(d, "file", q.name) # {} /\ e = EntryAt(d, First(Stops(d, "file", q.name)))
      BY <3>2, Zenon DEF Hit
    <3>4. EntryAt(d, First(Stops(d, "file", q.name))).type \in {"reg", "lnk"}
      BY <3>1, <3>3, Zenon
    <3> HIDE DEF d, e
    <3> QED
      BY <2>1, <3>3, <3>4, delEntryChains
  <2> QED
    BY <1>1, <1>5, <2>1, Zenon DEF rmove
<1> QED
  BY <1>2, <1>3, <1>4, <1>5, Zenon DEF Start

LEMMA newInodesChains ==
    ASSUME TypeOK, Kept, Chains,
           allocateNewDirInode \/ allocateNewFileInode \/ allocateNewLinkInode
    PROVE  Chains'
<1>1. CASE End("failed")
  BY <1>1, EndChains
<1>2. ASSUME NEW n, CanTakeInode(n) PROVE ClearInodes # {}
  BY <1>2 DEF CanTakeInode
<1>3. CASE /\ tool.pc = "inode" /\ tool.cmd = "mkdir"
           /\ ClearInodes # {} /\ TakesInode("dir", 2, 1)
  BY <1>3, TakesInodeChains
<1>4. CASE \E n : /\ tool.pc = "inode" /\ tool.cmd = "cp"
                  /\ ClearInodes # {} /\ TakesInode("reg", 1, n)
  BY <1>4, TakesInodeChains
<1>5. CASE /\ tool.pc = "inode" /\ tool.cmd = "ln -s"
           /\ ClearInodes # {} /\ TakesInode("lnk", 0, 1)
  BY <1>5, TakesInodeChains
<1> QED
  BY <1>1, <1>2, <1>3, <1>4, <1>5, Zenon
  DEF allocateNewDirInode, allocateNewFileInode, allocateNewLinkInode

LEMMA newEntriesChains ==
    ASSUME TypeOK, Kept, Chains, Unspoilt',
           \/ addNewDirToParentDirEntList \/ addNewFileToParentDirEntList
           \/ addSymbolicLink \/ addHardLink
    PROVE  Chains'
<1>1. {"reg", "dir", "lnk", "unknown"} \subseteq Types /\ inode \in [Inodes -> Inode]
  BY DEF Types, TypeOK
<1>2. CASE tool.pc = "entry" /\ \E t \in Types : AddsEntry(t, inode)
  BY <1>1, <1>2, AddsEntryChains
<1>3. CASE addHardLink
  <2> DEFINE i == tool.ino
             type == CASE inode[i].mode \in {"reg", "lnk"} -> "reg"
                       [] inode[i].mode = "dir" -> "dir"
                       [] OTHER -> "unknown"
             r == [inode[i] EXCEPT !.links = inode[i].links + 1]
             table == [inode EXCEPT ![i].links = @ + 1]
  <2>1. type \in Types
    BY <1>1
  <2>2. inode[i] \in Inode /\ i \in Inodes
    BY <1>1, ToolFields
  <2>3. inode[i].links + 1 \in Int
    BY <2>2 DEF Inode
  <2>4. /\ r \in Inode /\ r.mode = inode[i].mode /\ r.blocks = inode[i].blocks
        /\ r.block = inode[i].block
    BY <2>2, <2>3 DEF Inode
  <2>5. table = [inode EXCEPT ![i] = r]
    OBVIOUS
  <2>6. AddsEntry(type, table) /\ tool.pc = "entry"
    BY <1>3, Zenon DEF addHardLink
  <2> HIDE DEF type, table, r
  <2>7. /\ table \in [Inodes -> Inode]
        /\ \A j \in Inodes : /\ table[j].mode = inode[j].mode
                             /\ table[j].blocks = inode[j].blocks
                             /\ table[j].block = inode[j].block
    BY <1>1, <2>4, <2>5
  <2> QED
    BY <2>1, <2>6, <2>7, AddsEntryChains
<1> QED
  BY <1>1, <1>2, <1>3, Zenon
  DEF addNewDirToParentDirEntList, addNewFileToParentDirEntList, addSymbolicLink

LEMMA StutterChains == ASSUME Chains, UNCHANGED vars PROVE Chains'
<1>1. UNCHANGED <<inodeBits, inode, content, tool>>
  BY DEF vars, disk
<1>2. Dirs' = Dirs
  BY <1>1 DEF Dirs
<1> QED
  BY <1>1, <1>2 DEF Chains, WholeContent, WholeDirs, RoomStays, OwnInode, HasRoom, LastOf

-----------------------------------------------------------------------------
LEMMA ChainsInductive == Spec => []ChainInv
<1>1. Init => Chains
  BY InitChains
<1>2. ChainInv /\ KeptInv' /\ [Next]_vars => ChainInv'
  <2> SUFFICES ASSUME ChainInv, [Next]_vars, Unspoilt' PROVE Chains'
    BY DEF ChainInv
  <2>1. TypeOK /\ Kept /\ Chains
    <3>1. damage \subseteq damage'
      BY DamageStays
    <3>2. Unspoilt /\ Undamaged
      BY <3>1 DEF Unspoilt, Undamaged, Without
    <3> QED
      BY <3>2 DEF ChainInv, KeptInv
  <2>2. CASE Start
    BY <2>1, <2>2, startsChains
  <2>3. CASE Mkdir
    BY <2>1, <2>3, newInodesChains, allocateDirBlocksChains, newEntriesChains DEF Mkdir
  <2>4. CASE Cp
    BY <2>1, <2>4, newInodesChains, checkFileBlocksChains, allocateFileBlocksChains,
       newEntriesChains DEF Cp
  <2>5. CASE Ln
    BY <2>1, <2>5, newInodesChains, allocateLinkBlocksChains, newEntriesChains DEF Ln
  <2>6. CASE Interrupt
    BY <2>1, <2>6, EndChains
  <2>7. CASE UNCHANGED vars
    BY <2>1, <2>7, StutterChains
  <2> QED
    BY <2>2, <2>3, <2>4, <2>5, <2>6, <2>7, Zenon DEF Next
<1>3. ChainInv <=> KeptInv /\ (Unspoilt => Chains)
  BY DEF ChainInv
<1> QED
  BY <1>1, <1>2, <1>3, KeptInductive, PTL DEF Spec

\* As long as no block number beyond the bitmap's word or never assigned is
\* taken or freed and nothing is written over a block in use, the entries of
\* every directory block follow one another up to the end of the block, after
\* mkdir, cp, ln and rm in any order, for any number of tools on an image of
\* any size.
THEOREM DirectoriesStayWhole == Spec => []ChainsWhole
<1>1. ChainInv => ChainsWhole
  <2> SUFFICES ASSUME ChainInv, Unspoilt, NEW b \in DirBlocks
               PROVE  Whole(content[b])
    BY Zenon DEF ChainsWhole, Whole, Unspoilt
  <2>1. TypeOK /\ WholeContent /\ WholeDirs
    BY DEF ChainInv, KeptInv, Chains
  <2>2. PICK d \in Dirs : b \in Owned(d)
    BY DEF DirBlocks
  <2>3. PICK k \in 0 .. Direct - 1 : k < inode[d].blocks /\ b = inode[d].block[k]
    BY <2>2 DEF Owned
  <2> QED
    BY <2>1, <2>3, ChainsGiveWhole
<1> QED
  BY <1>1, ChainsInductive, PTL
=============================================================================
