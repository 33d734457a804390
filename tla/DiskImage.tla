------------------------------ MODULE DiskImage ------------------------------
(***************************************************************************)
(* The ext2 image of assignment 4 as its tools see it: two bitmaps, the    *)
(* free counters, the inode table and the blocks of the directories, with  *)
(* the searches and the allocation helpers that ext2_mkdir, ext2_cp,       *)
(* ext2_ln and ext2_rm each carry a copy of.                               *)
(*                                                                         *)
(* A unit of a directory block stands for 256 bytes: a long name fills     *)
(* one.  The superblock and the group descriptor hold the free counters    *)
(* twice; every tool changes both by the same amount, so one is kept.      *)
(* Inodes are numbered from 0, as the tools index the table.               *)
(***************************************************************************)
EXTENDS Integers, FiniteSets, Sequences, FiniteSetsExt

CONSTANTS
    Names,       \* names a tool is asked for
    LostFound,   \* the one name of the fresh image
    Prefixes,    \* <<m, n>>: m is a proper prefix of n
    Aligned,     \* names whose length is a multiple of four
    NumBlocks,   \* s_blocks_count: bits of the block bitmap
    NumInodes,   \* s_inodes_count
    WordBits,    \* bits of an int: the word that the tools mark bits in
    MetaBlocks,  \* superblock, descriptors, bitmaps and inode table
    LostBlocks,  \* blocks mke2fs gives to lost+found
    Direct,      \* SINGLE_POINTER_COUNT
    Capacity,    \* EXT2_BLOCK_SIZE, in units of a directory entry
    Longest,     \* names of the greatest length
    Padded       \* units that writing a shorter name fills (EXT2_NAME_LEN + 8 bytes)

ASSUME NumbersAssumption ==
    /\ {NumBlocks, NumInodes, WordBits, MetaBlocks, LostBlocks, Direct, Capacity, Padded}
         \subseteq Nat \ {0}
    /\ 1 < LostBlocks /\ LostBlocks <= Direct  \* mke2fs fills the direct blocks
    /\ MetaBlocks + LostBlocks + 2 < NumBlocks
    /\ MetaBlocks + LostBlocks < WordBits /\ WordBits <= NumBlocks
    /\ 3 <= NumInodes /\ NumInodes <= WordBits
    /\ 3 < Capacity

ASSUME NamesAssumption == {"", ".", "..", "?"} \cap (Names \cup {LostFound}) = {}

Blocks == 0 .. NumBlocks - 1
Inodes == 0 .. NumInodes - 1
Root == 1                       \* EXT2_ROOT_INO - 1
Lost == 2                       \* inode of lost+found, the last reserved one
RootBlock == MetaBlocks + 1
LostLast == RootBlock + LostBlocks

AllNames == Names \cup {LostFound, "", ".", "..", "?"}
Types == {"unknown", "reg", "dir", "lnk"}

\* inode is the number that readers compute, inode - 1: -1 is a removed entry.
\* ended: the byte that follows the name is zero.
Entry == [name : AllNames, inode : Inodes \cup {-1}, type : Types,
          off : Int, rec : Int, ended : BOOLEAN]

NewEntry(n, i, t, o, r) ==
    [name |-> n, inode |-> i, type |-> t, off |-> o, rec |-> r, ended |-> TRUE]

Zero == NewEntry("", -1, "unknown", 0, 0)           \* zeros read as an entry

\* Bytes of paths or pointers, and those of the metadata.  They stand for no
\* entries in particular: no search of the model reads them.
Text == NewEntry("?", -1, "unknown", 0, 0)
System == [Text EXCEPT !.ended = FALSE]

Inode == [mode : {"none", "reg", "dir", "lnk"}, links : Int, blocks : Nat,
          block : [0 .. Direct -> Blocks]]

VARIABLES
    blockBits,   \* bits set in the block bitmap
    inodeBits,   \* bits set in the inode bitmap
    freeBlocks,  \* s_free_blocks_count and bg_free_blocks_count
    freeInodes,  \* s_free_inodes_count and bg_free_inodes_count
    usedDirs,    \* bg_used_dirs_count
    inode,       \* the inode table; i_block beyond i_blocks keeps old numbers
    content      \* what each block holds, read as a chain of entries

disk == <<blockBits, inodeBits, freeBlocks, freeInodes, usedDirs, inode, content>>

(* Mutant: the entry ".." has no rec_len. *)
DotEntriesOpen(self, up) ==
    <<NewEntry(".", self, "dir", 0, 1), NewEntry("..", up, "dir", 1, 0)>>

DotEntries(self, up) ==
    <<NewEntry(".", self, "dir", 0, 1), NewEntry("..", up, "dir", 1, Capacity - 1)>>

\* The image of mke2fs.  Its bit i stands for block i + 1, and the last bit,
\* which has no block, is set.
DiskInit ==
    /\ blockBits = 0 .. MetaBlocks + LostBlocks \cup {NumBlocks - 1}
    /\ inodeBits = 0 .. Lost
    /\ freeBlocks = NumBlocks - 2 - MetaBlocks - LostBlocks
    /\ freeInodes = NumInodes - 3
    /\ usedDirs = 2
    /\ inode = [i \in Inodes |->
         LET n == CASE i = Root -> 1 [] i = Lost -> LostBlocks [] OTHER -> 0
             first == IF i = Root THEN RootBlock ELSE RootBlock + 1
         IN  [mode |-> IF n = 0 THEN "none" ELSE "dir",
              links |-> IF i = Root THEN 3 ELSE IF i = Lost THEN 2 ELSE 0,
              blocks |-> n,
              block |-> [k \in 0 .. Direct |-> IF k < n THEN first + k ELSE 0]]]
    /\ content = [b \in Blocks |->
         CASE b = RootBlock ->
                <<NewEntry(".", Root, "dir", 0, 1), NewEntry("..", Root, "dir", 1, 1),
                  NewEntry(LostFound, Lost, "dir", 2, Capacity - 2)>>
           [] b = RootBlock + 1 -> DotEntries(Lost, Root)
           [] b \in RootBlock + 2 .. LostLast ->
                <<NewEntry("", -1, "unknown", 0, Capacity)>>
           [] b \in 1 .. MetaBlocks -> <<System>>
           [] OTHER -> <<Zero>>]

-----------------------------------------------------------------------------
(* Searches. *)

\* m is n, or n starts with m.
IsPrefix(m, n) == m \in {"", n} \/ <<m, n>> \in Prefixes

(* Mutant: mkdir looks at directories only. *)
MatchesDirsOnly(how, n, e) ==
    CASE how = "whole"     -> e.name = n /\ e.ended /\ e.type = "dir"
      [] how = "exact"     -> e.name = n /\ e.ended /\ e.type \in {"reg", "dir"}
      [] how = "component" -> IsPrefix(n, e.name) /\ e.type \in {"reg", "dir"}
      [] how = "entry"     -> IsPrefix(e.name, n)
      [] how = "file"      -> (IsPrefix(e.name, n) /\ e.type = "reg") \/ e.type = "lnk"

\* The comparisons of the tools: over 255 bytes (mkdir; cp and longer paths
\* look at files and directories only), over the length of the only directory
\* of the path, over the length of the entry's own name (ln), and the test of
\* rm, which takes any symbolic link.
Matches(how, n, e) ==
    CASE how = "whole"     -> e.name = n /\ e.ended
      [] how = "exact"     -> e.name = n /\ e.ended /\ e.type \in {"reg", "dir"}
      [] how = "component" -> IsPrefix(n, e.name) /\ e.type \in {"reg", "dir"}
      [] how = "entry"     -> IsPrefix(e.name, n)
      [] how = "file"      -> \/ IsPrefix(e.name, n) /\ e.type = "reg"
                              \/ e.type = "lnk"

\* The places of a directory's entries: <<index into i_block, place in the block>>.
Places(d) == {p \in (0 .. Direct - 1) \X (1 .. Capacity) :
                /\ p[1] < inode[d].blocks
                /\ p[2] <= Len(content[inode[d].block[p[1]]])}
EntryAt(d, p) == content[inode[d].block[p[1]]][p[2]]
Before(p, q) == p[1] < q[1] \/ (p[1] = q[1] /\ p[2] <= q[2])

\* Where a scan comes to an end: at a match, or at a rec_len of zero, which
\* the scan adds to its offset for ever.
Stops(d, how, n) ==
    {p \in Places(d) : Matches(how, n, EntryAt(d, p)) \/ EntryAt(d, p).rec = 0}
First(places) == CHOOSE p \in places : \A q \in places : Before(p, q)
Missing == NewEntry("?", -1, "unknown", 0, 1)
Hit(d, how, n) ==
    LET stops == Stops(d, how, n) IN
    IF stops = {} THEN Missing ELSE EntryAt(d, First(stops))

NoPath == -1
Endless == -2

\* What a component n leads to from directory d.
Into(d, how, n) ==
    LET e == Hit(d, how, n)
        found == Matches(how, n, e)
    IN CASE d < 0 -> d
         [] d >= 0 /\ found /\ e.type = "dir" -> e.inode
         [] d >= 0 /\ ~ found /\ e.rec = 0 -> Endless
         [] OTHER -> NoPath

\* The directory that the components dirs lead to.  One component is compared
\* over its own length, several over the length of all of them.
Walk(dirs) ==
    LET how == IF Len(dirs) = 1 THEN "component" ELSE "exact"
        reached[k \in 0 .. Len(dirs)] ==
          IF k = 0 THEN Root ELSE Into(reached[k - 1], how, dirs[k])
    IN  reached[Len(dirs)]

-----------------------------------------------------------------------------
(* Room for an entry, and free bits. *)

ClearBlocks == Blocks \ blockBits
ClearInodes == Inodes \ inodeBits

\* The number a caller gets from firstEmptyInBitmap: -1 less one when there is none.
FirstEmpty(clear) == IF clear = {} THEN -2 ELSE Min(clear)

LastOf(b) == content[b][Len(content[b])]
Stuck(b) == LastOf(b).rec = 0
HasRoom(b) == LastOf(b).off + 1 < Capacity

\* The blocks of a directory at which the search for room ends.
RoomIndexes(d) ==
    {k \in 0 .. Direct - 1 : /\ k < inode[d].blocks
                             /\ Stuck(inode[d].block[k]) \/ HasRoom(inode[d].block[k])}
RoomBlock(d, indexes) == inode[d].block[Min(indexes)]
RoomSpins(d) ==
    LET indexes == RoomIndexes(d) IN indexes # {} /\ Stuck(RoomBlock(d, indexes))

(* Mutant: a directory with no room is reported as block -1. *)
checkParentReportsNoBlock(d, free) ==
    LET indexes == RoomIndexes(d) IN
    IF indexes # {} THEN [grow |-> FALSE, block |-> RoomBlock(d, indexes)]
    ELSE [grow |-> inode[d].blocks < Direct /\ Cardinality(ClearBlocks) >= free,
          block |-> -1]

\* Append to a block of the directory, or give it a new one when there are
\* free blocks.  A directory with no room is reported as the block at
\* i_block[-1], the field before the array, which is 0.
checkParentDirEntListSpaceExists(d, free) ==
    LET indexes == RoomIndexes(d) IN
    IF indexes # {} THEN [grow |-> FALSE, block |-> RoomBlock(d, indexes)]
    ELSE [grow |-> inode[d].blocks < Direct /\ Cardinality(ClearBlocks) >= free,
          block |-> 0]

(* Mutant: one bit of the word is lost. *)
BitShort(b) == b % (WordBits - 1)

\* 1 << n marks or clears a bit of the first word only.
Bit(b) == b % WordBits
=============================================================================
