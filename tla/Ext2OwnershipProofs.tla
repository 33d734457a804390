------------------------- MODULE Ext2OwnershipProofs -------------------------
(***************************************************************************)
(* Who owns the inodes and the blocks of an ext2 image: the free counters  *)
(* agree with the bitmaps (FreeCounts), the blocks of two names are apart  *)
(* (BlocksOwned), entries agree with their inodes (EntriesAgree) and a     *)
(* tool searches without end only in a full directory (HangsExplained),    *)
(* for every size of the image and any number of tools, by the inductive   *)
(* invariants OwnInv and HangInv.                                          *)
(***************************************************************************)
EXTENDS Ext2ToolsProofs, FiniteSetTheorems

-----------------------------------------------------------------------------
(* Every chain fits into its block. *)

\* Entry number j starts at unit j - 1 or later, and within the block; only
\* the first entry may have been removed.
Within(chain) == \A j \in 1 .. Len(chain) : j - 1 <= chain[j].off /\ chain[j].off < Capacity
Filled(chain) == \A j \in 2 .. Len(chain) : chain[j].inode # -1
Fits(chain) == Within(chain) /\ Filled(chain)

\* So it is everywhere but in the boot block, which tools append to untested.
AllFit == (\A b \in Blocks \ {0} : Fits(content[b])) /\ RoomStays
FitsInv == TypeOK /\ AllFit

-----------------------------------------------------------------------------
(* The invariant. *)

\* An entry of the chain names inode i with file type t.
Lists(chain, i, t) == \E j \in 1 .. Len(chain) : chain[j].inode = i /\ chain[j].type = t

Linked == {i \in Inodes : \E c \in DirBlocks, t \in Types : Lists(content[c], i, t)}

\* The inode that a tool has finished, and is about to name.
Pending == IF tool.pc = "entry" \/ (tool.pc = "text" /\ tool.bytes = 0) THEN {tool.ino} ELSE {}
Owners == Linked \cup Dirs \cup Pending \cup {Root}

\* The blocks of an inode, but the one that lost+found shares.
Own(i) == IF i = Lost THEN Owned(i) \ {LostLast} ELSE Owned(i)

\* A directory whose first block was overwritten with the padding of a name.
Zeroed(d) == "padded" \in damage /\ content[inode[d].block[0]] = <<Zero>>

Later(r) == \A k \in 1 .. Direct : r.block[k] = 0
OneBlock(r) == r.blocks = 1 /\ Later(r)

OwnerSound(i) ==
    /\ i \in inodeBits
    /\ inode[i].mode \in {"reg", "dir", "lnk"}
    /\ inode[i].block[0] \in Own(i)
    /\ Own(i) \subseteq blockBits \ 0 .. MetaBlocks
    /\ inode[i].mode = "dir" => i \in Dirs \/ Zeroed(i)
    /\ inode[i].mode # "dir" => OneBlock(inode[i])

Apart == \A i, j \in Owners : i # j => Own(i) \cap Own(j) = {}

\* The blocks that start like a directory, and the directories.
DotsOwned ==
    \A b \in Blocks :
        LET i == content[b][1].inode IN
        content[b][1].name = "." =>
            /\ i \in inodeBits /\ inode[i].mode = "dir" /\ inode[i].block[0] = b
            /\ i = tool.ino => tool.pc \notin {"blocks", "take", "text"}

Fitting(i, t) ==
    /\ t = "dir" <=> inode[i].mode = "dir"
    /\ t = "lnk" => inode[i].mode = "lnk"
    /\ t = "reg" => inode[i].mode \in {"reg", "lnk"}
Agreed ==
    \A c \in DirBlocks, i \in Inodes, t \in Types : Lists(content[c], i, t) => Fitting(i, t)

\* What a free inode holds behind i_block[0] is zero.
FreeClean == \A i \in Inodes \ inodeBits : Later(inode[i])

Counted ==
    /\ freeBlocks = Cardinality(ClearBlocks)
    /\ freeInodes = Cardinality(ClearInodes)
    /\ usedDirs = Cardinality({i \in inodeBits : inode[i].mode = "dir"})

\* The inode that a tool is about to finish is its own.
Unfinished == tool.pc \in {"blocks", "take", "text"}
ModeOf(cmd) == CASE cmd = "mkdir" -> "dir" [] cmd = "cp" -> "reg" [] cmd = "ln -s" -> "lnk"
NewSound ==
    LET r == inode[tool.ino] IN
    /\ HoldsInode => tool.ino \in inodeBits /\ r.mode = ModeOf(tool.cmd)
    /\ Unfinished => tool.ino \notin Linked \cup Dirs
    /\ Unfinished => r.blocks = IF tool.cmd = "cp" THEN BlockCalc(tool.bytes) ELSE 1
    /\ tool.pc = "blocks" \/ (tool.pc = "take" /\ tool.bytes = 0) => Later(r)
    /\ tool.pc \in {"inode", "blocks"} \/ (tool.pc = "take" /\ tool.bytes = 0) => tool.taken = 0
    /\ tool.pc \in {"take", "text"} => tool.cmd = "cp"
    /\ tool.pc \in {"inode", "blocks"} => tool.cmd \in {"mkdir", "cp", "ln -s"}
    /\ tool.pc = "entry" => tool.cmd # "rm"

\* The block of pointers is its file's own.
PointersApart ==
    LET b == inode[tool.ino].block[Direct] IN
    tool.pc = "take" /\ tool.taken > Direct =>
        b \in blockBits /\ \A i \in Owners : b \notin Own(i)

ParentSound ==
    tool.pc \notin {"idle", "hung"} =>
        /\ tool.parent \in Dirs
        /\ tool.grow => inode[tool.parent].blocks < Direct
        /\ ~ tool.grow /\ tool.block # 0 => tool.block \in Owned(tool.parent)

Image ==
    /\ inode[Root].mode = "dir"
    /\ \A i \in Owners : OwnerSound(i)
    /\ Apart /\ DotsOwned /\ Agreed /\ FreeClean
Ownership ==
    /\ Image /\ Counted
    /\ NewSound /\ PointersApart /\ ParentSound
    /\ "junk" \notin damage
Intact == Without({"overrun", "dangling"})
OwnInv == KeptInv /\ FitsInv /\ (Intact => Ownership)

-----------------------------------------------------------------------------
(* What a chain lists, and how far it reaches. *)

LEMMA ListsOne ==
    ASSUME NEW e, NEW i, NEW t
    PROVE  Lists(<<e>>, i, t) <=> e.inode = i /\ e.type = t
  BY DEF Lists

LEMMA ListsDots ==
    ASSUME NEW self, NEW up, NEW i, NEW t
    PROVE  Lists(DotEntries(self, up), i, t) <=> t = "dir" /\ i \in {self, up}
<1> DEFINE x == NewEntry(".", self, "dir", 0, 1)
           y == NewEntry("..", up, "dir", 1, Capacity - 1)
<1>1. x.inode = self /\ x.type = "dir" /\ y.inode = up /\ y.type = "dir"
  BY DEF NewEntry
<1>2. DotEntries(self, up) = <<x, y>>
  BY DEF DotEntries
<1> HIDE DEF x, y
<1> QED
  BY <1>1, <1>2 DEF Lists

LEMMA ListsNone ==
    ASSUME NEW i \in Inodes, NEW t
    PROVE  ~ Lists(<<Zero>>, i, t) /\ ~ Lists(<<Text>>, i, t)
<1>1. Zero.inode = -1 /\ Text.inode = -1
  BY DEF Zero, Text, NewEntry
<1>2. i # -1
  BY Sizes
<1> QED
  BY <1>1, <1>2, ListsOne

LEMMA AppendedParts ==
    ASSUME TypeOK, NEW b \in Blocks, NEW e \in Entry
    PROVE  LET n == Len(content[b])
               old == LastOf(b)
               chain == Appended(b, e)[b]
           IN  /\ n \in Nat \ {0} /\ Len(chain) = n + 1
               /\ \A j \in 1 .. n - 1 : chain[j] = content[b][j]
               /\ chain[n] = [old EXCEPT !.rec = 1, !.ended = @ /\ old.name \notin Aligned]
               /\ chain[n + 1] =
                    [e EXCEPT !.off = old.off + 1, !.rec = Capacity - (old.off + 1)]
<1> DEFINE old == LastOf(b)
           n == Len(content[b])
           new == [e EXCEPT !.off = old.off + 1, !.rec = Capacity - (old.off + 1)]
           last == [old EXCEPT !.rec = 1, !.ended = @ /\ old.name \notin Aligned]
           mid == [content[b] EXCEPT ![n] = last]
           chain == Append(mid, new)
<1>1. old \in Entry /\ n \in Nat \ {0} /\ content[b] \in Chain
  BY LastTyped
<1>2. /\ old.off + 1 \in Int /\ Capacity - (old.off + 1) \in Int /\ 1 \in Int
      /\ (old.ended /\ old.name \notin Aligned) \in BOOLEAN
  BY <1>1, Sizes, SMTT(30) DEF Entry
<1>3. new \in Entry /\ last \in Entry
  BY <1>1, <1>2, PlacedEntry, ShortenedEntry
<1>4. Appended(b, e)[b] = chain
  BY AppendedAt
<1>5. content[b] \in [1 .. n -> Entry] /\ n \in 1 .. n
  BY <1>1 DEF Chain
<1> HIDE DEF new, last
<1>6. mid \in Chain /\ Len(mid) = n
  BY <1>1, <1>3, <1>5, ChangedChain
<1>7. mid[n] = last /\ \A j \in 1 .. n - 1 : mid[j] = content[b][j]
  BY <1>1, <1>5
<1> HIDE DEF mid, n
<1>8. mid \in Seq(Entry)
  BY <1>6 DEF Chain
<1>9. /\ Len(chain) = n + 1 /\ chain[n + 1] = new
      /\ \A j \in 1 .. n : chain[j] = mid[j]
  BY <1>3, <1>6, <1>8
<1> HIDE DEF chain
<1>10. chain[n] = last /\ \A j \in 1 .. n - 1 : chain[j] = content[b][j]
  BY <1>1, <1>7, <1>9
<1> QED
  BY <1>1, <1>4, <1>9, <1>10, Zenon DEF n, new, last

LEMMA ListsAppended ==
    ASSUME TypeOK, NEW b \in Blocks, NEW e \in Entry, NEW i, NEW t
    PROVE  Lists(Appended(b, e)[b], i, t)
             <=> Lists(content[b], i, t) \/ (e.inode = i /\ e.type = t)
<1> DEFINE n == Len(content[b])
           old == LastOf(b)
           chain == Appended(b, e)[b]
           last == [old EXCEPT !.rec = 1, !.ended = @ /\ old.name \notin Aligned]
           new == [e EXCEPT !.off = old.off + 1, !.rec = Capacity - (old.off + 1)]
<1>1. /\ n \in Nat \ {0} /\ Len(chain) = n + 1
      /\ \A j \in 1 .. n - 1 : chain[j] = content[b][j]
      /\ chain[n] = last /\ chain[n + 1] = new
  BY AppendedParts
<1>2. old \in Entry /\ old = content[b][n]
  BY LastTyped DEF LastOf
<1>3. /\ last.inode = old.inode /\ last.type = old.type
      /\ new.inode = e.inode /\ new.type = e.type
  BY <1>2 DEF Entry
<1> HIDE DEF last, new, chain, old
<1>4. ASSUME NEW j \in 1 .. n
      PROVE  chain[j].inode = content[b][j].inode /\ chain[j].type = content[b][j].type
  <2>1. j = n \/ j \in 1 .. n - 1
    BY <1>1
  <2> QED
    BY <1>1, <1>2, <1>3, <2>1
<1>5. \A j : j \in 1 .. n + 1 <=> j \in 1 .. n \/ j = n + 1
  BY <1>1
<1>6. Lists(chain, i, t) <=> \E j \in 1 .. n + 1 : chain[j].inode = i /\ chain[j].type = t
  BY <1>1 DEF Lists
<1>7. Lists(content[b], i, t)
        <=> \E j \in 1 .. n : content[b][j].inode = i /\ content[b][j].type = t
  BY DEF Lists
<1> HIDE DEF n
<1> QED
  BY <1>1, <1>3, <1>4, <1>5, <1>6, <1>7 DEF chain

LEMMA UnlinkedParts ==
    ASSUME NEW chain \in Chain, NEW j \in 1 .. Len(chain), j # 1
    PROVE  LET new == Unlinked(chain, j) IN
           /\ Len(chain) \in Nat \ {0} /\ Len(new) = Len(chain) - 1
           /\ \A k \in 1 .. Len(chain) - 1 :
                /\ k < j - 1 => new[k] = chain[k]
                /\ k > j - 1 => new[k] = chain[k + 1]
                /\ k = j - 1 => new[k] = [chain[k] EXCEPT !.rec = @ + chain[j].rec]
<1> DEFINE n == Len(chain)
<1>1. chain \in [1 .. n -> Entry] /\ n \in Nat \ {0}
  BY DEF Chain
<1> DEFINE new == Unlinked(chain, j)
           m == n - 1
<1>2. new = [k \in 1 .. m |->
               CASE k < j - 1 -> chain[k]
                 [] k = j - 1 -> [chain[k] EXCEPT !.rec = @ + chain[j].rec]
                 [] k > j - 1 -> chain[k + 1]]
  BY DEF Unlinked
<1>3. m \in Nat
  BY <1>1
<1> HIDE DEF new, n
<1>4. Len(new) = m
  BY <1>2, <1>3
<1>5. ASSUME NEW k \in 1 .. m
      PROVE  /\ k < j - 1 => new[k] = chain[k]
             /\ k > j - 1 => new[k] = chain[k + 1]
             /\ k = j - 1 => new[k] = [chain[k] EXCEPT !.rec = @ + chain[j].rec]
  BY <1>2
<1> QED
  BY <1>1, <1>4, <1>5 DEF new, n

\* Removing entry j leaves what the others list, and nothing of it.
LEMMA ListsUnlinked ==
    ASSUME NEW chain \in Chain, NEW j \in 1 .. Len(chain), NEW i \in Inodes, NEW t
    PROVE  Lists(Unlinked(chain, j), i, t)
             <=> \E k \in 1 .. Len(chain) :
                   k # j /\ chain[k].inode = i /\ chain[k].type = t
<1> DEFINE n == Len(chain)
           new == Unlinked(chain, j)
<1>0. chain \in [1 .. n -> Entry] /\ n \in Nat \ {0}
  BY DEF Chain
<1>1. CASE j = 1
  <2> DEFINE e == [chain[1] EXCEPT !.inode = -1]
  <2>1. e \in Entry /\ e.inode = -1
    BY <1>0, <1>1 DEF Entry
  <2>2. new = [chain EXCEPT ![1] = e]
    BY <1>1 DEF Unlinked
  <2> HIDE DEF e
  <2>3. Len(new) = n
    BY <1>1, <2>1, <2>2, ChangedChain
  <2>4. /\ new[1] = e /\ 1 \in 1 .. n
        /\ \A k \in 1 .. n : k # 1 => new[k] = chain[k]
    BY <1>0, <2>2
  <2>5. i # -1
    BY Sizes
  <2> HIDE DEF n, new
  <2>6. Lists(new, i, t) <=> \E k \in 1 .. n : new[k].inode = i /\ new[k].type = t
    BY <2>3 DEF Lists
  <2>7. Lists(new, i, t) <=> \E k \in 1 .. n : k # 1 /\ chain[k].inode = i /\ chain[k].type = t
    BY <2>1, <2>4, <2>5, <2>6
  <2> QED
    BY <1>1, <2>7 DEF n, new
<1>2. CASE j # 1
  <2>1. /\ Len(new) = n - 1
        /\ \A k \in 1 .. n - 1 :
             /\ k < j - 1 => new[k] = chain[k]
             /\ k > j - 1 => new[k] = chain[k + 1]
             /\ k = j - 1 => new[k] = [chain[k] EXCEPT !.rec = @ + chain[j].rec]
    BY <1>2, UnlinkedParts
  <2>2. j \in 1 .. n
    OBVIOUS
  <2>3. \A k \in 1 .. n : chain[k] \in Entry
    BY <1>0
  <2> HIDE DEF n, new
  <2>4. ASSUME NEW k \in 1 .. n - 1
        PROVE  /\ k <= j - 1 => new[k].inode = chain[k].inode /\ new[k].type = chain[k].type
               /\ k > j - 1 => new[k].inode = chain[k + 1].inode
                               /\ new[k].type = chain[k + 1].type
    <3>1. chain[k] \in Entry
      BY <1>0, <2>3
    <3>2. k < j - 1 \/ k > j - 1 \/ k = j - 1
      BY <2>2
    <3> QED
      BY <2>1, <2>2, <3>1, <3>2 DEF Entry
  <2>5. Lists(new, i, t) <=> \E k \in 1 .. n - 1 : new[k].inode = i /\ new[k].type = t
    BY <2>1 DEF Lists
  <2>6. ASSUME NEW k \in 1 .. n - 1, new[k].inode = i, new[k].type = t
        PROVE  \E q \in 1 .. n : q # j /\ chain[q].inode = i /\ chain[q].type = t
    <3>1. CASE k <= j - 1
      <4>1. k \in 1 .. n /\ k # j
        BY <1>0, <2>2, <3>1
      <4> QED
        BY <2>4, <2>6, <3>1, <4>1
    <3>2. CASE k > j - 1
      <4>1. k + 1 \in 1 .. n /\ k + 1 # j
        BY <1>0, <2>2, <3>2
      <4> QED
        BY <2>4, <2>6, <3>2, <4>1
    <3> QED
      BY <2>2, <3>1, <3>2
  <2>7. ASSUME NEW q \in 1 .. n, q # j, chain[q].inode = i, chain[q].type = t
        PROVE  \E k \in 1 .. n - 1 : new[k].inode = i /\ new[k].type = t
    <3>1. CASE q < j
      <4>1. q \in 1 .. n - 1 /\ q <= j - 1
        BY <1>0, <2>2, <3>1
      <4> QED
        BY <2>4, <2>7, <4>1
    <3>2. CASE q > j
      <4>1. q - 1 \in 1 .. n - 1 /\ q - 1 > j - 1 /\ (q - 1) + 1 = q
        BY <1>0, <2>2, <3>2
      <4>2. new[q - 1].inode = chain[(q - 1) + 1].inode
            /\ new[q - 1].type = chain[(q - 1) + 1].type
        BY <2>4, <4>1
      <4> QED
        BY <2>7, <4>1, <4>2
    <3> QED
      BY <2>2, <2>7, <3>1, <3>2
  <2>8. Lists(new, i, t) <=> \E k \in 1 .. n : k # j /\ chain[k].inode = i /\ chain[k].type = t
    BY <2>5, <2>6, <2>7
  <2> QED
    BY <2>8 DEF n, new
<1> QED
  BY <1>1, <1>2

LEMMA WithinOne == ASSUME NEW e, e.off = 0 PROVE Within(<<e>>)
  BY Sizes DEF Within

LEMMA WithinDots == ASSUME NEW self, NEW up PROVE Within(DotEntries(self, up))
<1> DEFINE x == NewEntry(".", self, "dir", 0, 1)
           y == NewEntry("..", up, "dir", 1, Capacity - 1)
<1>1. x.off = 0 /\ y.off = 1
  BY DEF NewEntry
<1>2. DotEntries(self, up) = <<x, y>>
  BY DEF DotEntries
<1>3. 3 < Capacity /\ Capacity \in Nat
  BY NumbersAssumption
<1> HIDE DEF x, y
<1> QED
  BY <1>1, <1>2, <1>3 DEF Within

LEMMA WithinAppended ==
    ASSUME TypeOK, NEW b \in Blocks, NEW e \in Entry, HasRoom(b), Within(content[b])
    PROVE  Within(Appended(b, e)[b])
<1> DEFINE n == Len(content[b])
           old == LastOf(b)
           chain == Appended(b, e)[b]
           last == [old EXCEPT !.rec = 1, !.ended = @ /\ old.name \notin Aligned]
           new == [e EXCEPT !.off = old.off + 1, !.rec = Capacity - (old.off + 1)]
<1>1. /\ n \in Nat \ {0} /\ Len(chain) = n + 1
      /\ \A j \in 1 .. n - 1 : chain[j] = content[b][j]
      /\ chain[n] = last /\ chain[n + 1] = new
  BY AppendedParts
<1>2. old \in Entry /\ old = content[b][n] /\ old.off + 1 < Capacity /\ old.off \in Int
  BY LastTyped DEF LastOf, HasRoom, Entry
<1>3. last.off = old.off /\ new.off = old.off + 1
  BY <1>2 DEF Entry
<1>4. \A j \in 1 .. n : j - 1 <= content[b][j].off /\ content[b][j].off < Capacity
  BY DEF Within
<1> HIDE DEF last, new, chain, old, n
<1>5. ASSUME NEW j \in 1 .. n + 1 PROVE j - 1 <= chain[j].off /\ chain[j].off < Capacity
  <2>1. CASE j = n + 1
    <3>1. n - 1 <= old.off /\ chain[j].off = old.off + 1
      BY <1>1, <1>2, <1>3, <1>4, <2>1
    <3>2. j - 1 = n /\ n \in Int /\ old.off \in Int /\ old.off + 1 < Capacity
      BY <1>1, <1>2, <2>1
    <3> QED
      BY <3>1, <3>2
  <2>2. CASE j = n
    BY <1>1, <1>2, <1>3, <1>4, <2>2
  <2>3. CASE j \in 1 .. n - 1
    <3>1. j \in 1 .. n
      BY <1>1, <2>3
    <3> QED
      BY <1>1, <1>4, <2>3, <3>1
  <2> QED
    BY <1>1, <2>1, <2>2, <2>3
<1> QED
  BY <1>1, <1>5 DEF Within, chain

LEMMA WithinUnlinked ==
    ASSUME NEW chain \in Chain, NEW j \in 1 .. Len(chain), Within(chain)
    PROVE  Within(Unlinked(chain, j))
<1> DEFINE n == Len(chain)
           new == Unlinked(chain, j)
<1>0. chain \in [1 .. n -> Entry] /\ n \in Nat \ {0}
  BY DEF Chain
<1>1. \A k \in 1 .. n : k - 1 <= chain[k].off /\ chain[k].off < Capacity /\ chain[k].off \in Int
  BY <1>0 DEF Within, Entry
<1>2. CASE j = 1
  <2> DEFINE e == [chain[1] EXCEPT !.inode = -1]
  <2>1. e \in Entry /\ e.off = chain[1].off
    BY <1>0, <1>2 DEF Entry
  <2>2. new = [chain EXCEPT ![1] = e]
    BY <1>2 DEF Unlinked
  <2> HIDE DEF e
  <2>3. Len(new) = n
    BY <1>2, <2>1, <2>2, ChangedChain
  <2>4. \A k \in 1 .. n : new[k].off = chain[k].off
    BY <1>0, <2>1, <2>2
  <2> HIDE DEF n, new
  <2>5. Within(new)
    BY <1>1, <2>3, <2>4 DEF Within
  <2> QED
    BY <2>5 DEF new
<1>3. CASE j # 1
  <2>1. /\ Len(new) = n - 1
        /\ \A k \in 1 .. n - 1 :
             /\ k < j - 1 => new[k] = chain[k]
             /\ k > j - 1 => new[k] = chain[k + 1]
             /\ k = j - 1 => new[k] = [chain[k] EXCEPT !.rec = @ + chain[j].rec]
    BY <1>3, UnlinkedParts
  <2>2. j \in 1 .. n
    OBVIOUS
  <2> HIDE DEF n, new
  <2>3. ASSUME NEW k \in 1 .. n - 1 PROVE k - 1 <= new[k].off /\ new[k].off < Capacity
    <3>1. k \in 1 .. n /\ k + 1 \in 1 .. n /\ chain[k] \in Entry
      BY <1>0
    <3>2. k < j - 1 \/ k > j - 1 \/ k = j - 1
      BY <2>2
    <3>3. k <= j - 1 => new[k].off = chain[k].off
      <4>1. CASE k = j - 1
        <5>1. new[k] = [chain[k] EXCEPT !.rec = @ + chain[j].rec]
          BY <2>1, <4>1
        <5> QED
          BY <3>1, <5>1 DEF Entry
      <4>2. CASE k < j - 1
        BY <2>1, <4>2
      <4> QED
        BY <2>2, <3>2, <4>1, <4>2
    <3>4. k > j - 1 => new[k].off = chain[k + 1].off
      BY <2>1
    <3>5. k = (k + 1) - 1 /\ k - 1 <= k
      OBVIOUS
    <3>6. k <= chain[k + 1].off /\ chain[k + 1].off < Capacity /\ chain[k + 1].off \in Int
      BY <1>1, <3>1, <3>5
    <3> QED
      BY <1>1, <2>2, <3>1, <3>2, <3>3, <3>4, <3>6
  <2>4. Within(new)
    BY <2>1, <2>3 DEF Within
  <2> QED
    BY <2>4 DEF new
<1> QED
  BY <1>2, <1>3

LEMMA FilledOne == ASSUME NEW e PROVE Filled(<<e>>)
  BY DEF Filled

LEMMA FilledDots == ASSUME NEW self, NEW up \in Inodes PROVE Filled(DotEntries(self, up))
<1> DEFINE x == NewEntry(".", self, "dir", 0, 1)
           y == NewEntry("..", up, "dir", 1, Capacity - 1)
<1>1. y.inode # -1
  BY Sizes DEF NewEntry
<1>2. DotEntries(self, up) = <<x, y>>
  BY DEF DotEntries
<1> HIDE DEF x, y
<1>3. <<x, y>>[2] = y /\ \A j \in 2 .. Len(<<x, y>>) : j = 2
  OBVIOUS
<1> QED
  BY <1>1, <1>2, <1>3 DEF Filled

LEMMA FilledAppended ==
    ASSUME TypeOK, NEW b \in Blocks, NEW e \in Entry, e.inode # -1, Filled(content[b])
    PROVE  Filled(Appended(b, e)[b])
<1> DEFINE n == Len(content[b])
           old == LastOf(b)
           chain == Appended(b, e)[b]
           last == [old EXCEPT !.rec = 1, !.ended = @ /\ old.name \notin Aligned]
           new == [e EXCEPT !.off = old.off + 1, !.rec = Capacity - (old.off + 1)]
<1>1. /\ n \in Nat \ {0} /\ Len(chain) = n + 1
      /\ \A j \in 1 .. n - 1 : chain[j] = content[b][j]
      /\ chain[n] = last /\ chain[n + 1] = new
  BY AppendedParts
<1>2. old \in Entry /\ old = content[b][n]
  BY LastTyped DEF LastOf
<1>3. last.inode = old.inode /\ new.inode # -1
  BY <1>2 DEF Entry
<1>4. \A j \in 2 .. n : content[b][j].inode # -1
  BY DEF Filled
<1> HIDE DEF last, new, chain, old, n
<1>5. ASSUME NEW j \in 2 .. n + 1 PROVE chain[j].inode # -1
  <2>1. j = n + 1 \/ (j = n /\ n \in 2 .. n) \/ (j \in 1 .. n - 1 /\ j \in 2 .. n)
    BY <1>1
  <2> QED
    BY <1>1, <1>2, <1>3, <1>4, <2>1
<1> QED
  BY <1>1, <1>5 DEF Filled, chain

LEMMA FilledUnlinked ==
    ASSUME NEW chain \in Chain, NEW j \in 1 .. Len(chain), Filled(chain)
    PROVE  Filled(Unlinked(chain, j))
<1> DEFINE n == Len(chain)
           new == Unlinked(chain, j)
<1>0. chain \in [1 .. n -> Entry] /\ n \in Nat \ {0}
  BY DEF Chain
<1>1. \A k \in 2 .. n : chain[k].inode # -1
  BY DEF Filled
<1>2. CASE j = 1
  <2> DEFINE e == [chain[1] EXCEPT !.inode = -1]
  <2>1. e \in Entry
    BY <1>0, <1>2 DEF Entry
  <2>2. new = [chain EXCEPT ![1] = e]
    BY <1>2 DEF Unlinked
  <2> HIDE DEF e
  <2>3. Len(new) = n
    BY <1>2, <2>1, <2>2, ChangedChain
  <2>4. \A k \in 2 .. n : new[k] = chain[k]
    BY <1>0, <2>2
  <2> HIDE DEF n, new
  <2>5. Filled(new)
    BY <1>1, <2>3, <2>4 DEF Filled
  <2> QED
    BY <2>5 DEF new
<1>3. CASE j # 1
  <2>1. /\ Len(new) = n - 1
        /\ \A k \in 1 .. n - 1 :
             /\ k < j - 1 => new[k] = chain[k]
             /\ k > j - 1 => new[k] = chain[k + 1]
             /\ k = j - 1 => new[k] = [chain[k] EXCEPT !.rec = @ + chain[j].rec]
    BY <1>3, UnlinkedParts
  <2>2. j \in 1 .. n
    OBVIOUS
  <2> HIDE DEF n, new
  <2>3. ASSUME NEW k \in 2 .. n - 1 PROVE new[k].inode # -1
    <3>1. k \in 1 .. n - 1 /\ k \in 2 .. n /\ k + 1 \in 2 .. n /\ k \in 1 .. n
      BY <1>0
    <3>2. k < j - 1 \/ k > j - 1 \/ k = j - 1
      BY <2>2
    <3>3. CASE k = j - 1
      <4>1. new[k] = [chain[k] EXCEPT !.rec = @ + chain[j].rec] /\ chain[k] \in Entry
        BY <1>0, <2>1, <3>1, <3>3
      <4>2. new[k].inode = chain[k].inode
        BY <4>1 DEF Entry
      <4> QED
        BY <1>1, <3>1, <4>2
    <3>4. CASE k < j - 1
      BY <1>1, <2>1, <3>1, <3>4
    <3>5. CASE k > j - 1
      BY <1>1, <2>1, <3>1, <3>5
    <3> QED
      BY <3>2, <3>3, <3>4, <3>5
  <2>4. Filled(new)
    BY <2>1, <2>3 DEF Filled
  <2> QED
    BY <2>4 DEF new
<1> QED
  BY <1>2, <1>3

LEMMA FitsOne == ASSUME NEW e, e.off = 0 PROVE Fits(<<e>>)
  BY WithinOne, FilledOne DEF Fits

LEMMA FitsDots == ASSUME NEW self, NEW up \in Inodes PROVE Fits(DotEntries(self, up))
  BY WithinDots, FilledDots DEF Fits

LEMMA FitsAppended ==
    ASSUME TypeOK, NEW b \in Blocks, NEW e \in Entry, e.inode # -1,
           HasRoom(b), Fits(content[b])
    PROVE  Fits(Appended(b, e)[b])
  BY WithinAppended, FilledAppended DEF Fits

LEMMA FitsUnlinked ==
    ASSUME NEW chain \in Chain, NEW j \in 1 .. Len(chain), Fits(chain)
    PROVE  Fits(Unlinked(chain, j))
  BY WithinUnlinked, FilledUnlinked DEF Fits

LEMMA FitsShort ==
    ASSUME NEW chain \in Chain, Fits(chain)
    PROVE  Len(chain) \in 1 .. Capacity
<1>1. Len(chain) \in Nat \ {0} /\ Len(chain) \in 1 .. Len(chain)
  BY DEF Chain
<1>2. chain[Len(chain)] \in Entry
  BY <1>1 DEF Chain
<1>3. chain[Len(chain)].off \in Int
  BY <1>2 DEF Entry
<1>4. Len(chain) - 1 <= chain[Len(chain)].off /\ chain[Len(chain)].off < Capacity
  BY <1>1 DEF Fits, Within
<1> QED
  BY <1>1, <1>3, <1>4, Sizes

-----------------------------------------------------------------------------
(* Every chain fits into its block, whatever the tools do. *)

LEMMA FitsStep ==
    ASSUME AllFit, \A c \in Blocks \ {0} : content'[c] = content[c] \/ Fits(content'[c]),
           RoomStays'
    PROVE  AllFit'
  BY Zenon DEF AllFit

LEMMA RoomKept ==
    ASSUME AllFit, tool.pc \notin {"idle", "hung"},
           tool'.block = tool.block, tool'.grow = tool.grow,
           LET f == content'[tool.block]
           IN  f = content[tool.block] \/ f[Len(f)].off + 1 < Capacity
    PROVE  RoomStays'
<1>1. CASE content'[tool.block] = content[tool.block]
  BY <1>1 DEF AllFit, RoomStays, HasRoom, LastOf
<1>2. CASE LET f == content'[tool.block] IN f[Len(f)].off + 1 < Capacity
  BY <1>2 DEF RoomStays, HasRoom, LastOf
<1> QED
  BY <1>1, <1>2

LEMMA QuietFits == ASSUME tool'.pc \in {"idle", "hung"} PROVE RoomStays'
  BY DEF RoomStays

LEMMA InitFits == Init => AllFit
<1> SUFFICES ASSUME Init PROVE AllFit
  OBVIOUS
<1> DEFINE root == <<NewEntry(".", Root, "dir", 0, 1), NewEntry("..", Root, "dir", 1, 1),
                     NewEntry(LostFound, Lost, "dir", 2, Capacity - 2)>>
           none == <<NewEntry("", -1, "unknown", 0, Capacity)>>
           dots == DotEntries(Lost, Root)
           zero == <<Zero>>
           system == <<System>>
<1>1. content = [b \in Blocks |-> CASE b = RootBlock -> root
                                    [] b = RootBlock + 1 -> dots
                                    [] b \in RootBlock + 2 .. LostLast -> none
                                    [] b \in 1 .. MetaBlocks -> system
                                    [] OTHER -> zero]
  BY Zenon DEF Init, DiskInit
<1>2. Fits(root)
  <2> DEFINE x == NewEntry(".", Root, "dir", 0, 1)
             y == NewEntry("..", Root, "dir", 1, 1)
             z == NewEntry(LostFound, Lost, "dir", 2, Capacity - 2)
  <2>1. x.off = 0 /\ y.off = 1 /\ z.off = 2
    BY DEF NewEntry
  <2>2. 3 < Capacity /\ Capacity \in Nat
    BY NumbersAssumption
  <2> HIDE DEF x, y, z
  <2>3. Within(<<x, y, z>>)
    BY <2>1, <2>2 DEF Within
  <2>4. y.inode # -1 /\ z.inode # -1
    BY Sizes DEF x, y, z, NewEntry
  <2>5. \A j \in 2 .. Len(<<x, y, z>>) : <<x, y, z>>[j] \in {y, z}
    OBVIOUS
  <2>6. Filled(<<x, y, z>>)
    BY <2>4, <2>5 DEF Filled
  <2> QED
    BY <2>3, <2>6 DEF x, y, z, Fits
<1>3. Fits(none) /\ Fits(zero) /\ Fits(system)
  <2>1. /\ NewEntry("", -1, "unknown", 0, Capacity).off = 0 /\ Zero.off = 0
        /\ System.off = 0
    BY DEF NewEntry, Zero, System, Text
  <2> QED
    BY <2>1, FitsOne, Zenon
<1>4. Fits(dots)
  BY Sizes, FitsDots
<1> HIDE DEF root, none, dots, zero, system
<1>5. \A b \in Blocks : Fits(content[b])
  BY <1>1, <1>2, <1>3, <1>4
<1>6. RoomStays
  BY DEF RoomStays, Init, Idle
<1> QED
  BY <1>5, <1>6 DEF AllFit

LEMMA QuietEnds ==
    ASSUME TypeOK,
           \/ \E how : End(how)
           \/ Spin
           \/ Interrupt
           \/ \E cmd, how : \E pc \in {"idle", "hung"} : StartAnd(cmd, pc, how)
           \/ \E d, n : StartInDirectory(d, n)
    PROVE  tool'.pc \in {"idle", "hung"} /\ UNCHANGED <<disk, damage>>
<1>0. Idle.pc = "idle"
  BY DEF Idle
<1>1. ASSUME NEW cmd, NEW pc \in {"idle", "hung"}, NEW how, StartAnd(cmd, pc, how)
      PROVE  tool'.pc \in {"idle", "hung"}
  BY <1>0, <1>1, IdleTyped DEF StartAnd, Tool
<1>2. ASSUME Spin PROVE tool'.pc = "hung"
  BY <1>2 DEF Spin, TypeOK, Tool
<1>3. ASSUME NEW how, End(how) PROVE tool'.pc = "idle"
  BY <1>0, <1>3 DEF End
<1>4. ASSUME Interrupt PROVE tool'.pc = "idle"
  BY <1>0, <1>4 DEF Interrupt
<1>5. UNCHANGED <<disk, damage>>
  BY DEF End, Spin, Interrupt, StartAnd, StartInDirectory
<1>6. ASSUME NEW d, NEW n, StartInDirectory(d, n) PROVE tool'.pc = "hung"
  BY <1>6 DEF StartInDirectory, Idle
<1> QED
  BY <1>1, <1>2, <1>3, <1>4, <1>5, <1>6

LEMMA EndFits ==
    ASSUME TypeOK, AllFit,
           \/ \E how : End(how)
           \/ Spin
           \/ Interrupt
           \/ \E cmd, how : \E pc \in {"idle", "hung"} : StartAnd(cmd, pc, how)
           \/ \E d, n : StartInDirectory(d, n)
    PROVE  AllFit'
<1>1. tool'.pc \in {"idle", "hung"} /\ UNCHANGED disk
  BY QuietEnds
<1>2. UNCHANGED content
  BY <1>1 DEF disk
<1> QED
  BY <1>1, <1>2, QuietFits, FitsStep

LEMMA StartInFits ==
    ASSUME TypeOK, AllFit, NEW cmd, NEW pc, NEW d \in Inodes,
           NEW n, NEW ino, NEW bytes, NEW free, ~ RoomSpins(d),
           StartIn(cmd, pc, d, n, ino, bytes, free)
    PROVE  AllFit'
<1> DEFINE room == checkParentDirEntListSpaceExists(d, free)
<1>1. room.block = 0 \/ HasRoom(room.block)
  BY RoomOrNone, Zenon
<1>2. /\ tool' = [cmd |-> cmd, pc |-> pc, parent |-> d, name |-> n, grow |-> room.grow,
                  block |-> room.block, ino |-> ino, bytes |-> bytes, taken |-> 0]
      /\ UNCHANGED disk
  BY DEF StartIn
<1> HIDE DEF room
<1>3. tool'.block = room.block /\ UNCHANGED content
  BY <1>2 DEF disk
<1>4. RoomStays'
  BY <1>1, <1>3 DEF RoomStays, HasRoom, LastOf
<1> QED
  BY <1>3, <1>4, FitsStep

LEMMA MovedOn ==
    ASSUME TypeOK, NEW pc, NEW k, NEW i,
           \/ tool' = [tool EXCEPT !.pc = pc]
           \/ tool' = [tool EXCEPT !.taken = k, !.pc = pc]
           \/ tool' = [tool EXCEPT !.ino = i, !.pc = pc]
    PROVE  /\ tool'.cmd = tool.cmd /\ tool'.pc = pc /\ tool'.parent = tool.parent
           /\ tool'.name = tool.name /\ tool'.grow = tool.grow /\ tool'.block = tool.block
           /\ tool'.bytes = tool.bytes
  BY DEF TypeOK, Tool

LEMMA SameContentFits ==
    ASSUME TypeOK, AllFit, NEW pc, NEW i, tool.pc \notin {"idle", "hung"}, UNCHANGED content,
           tool' = [tool EXCEPT !.pc = pc] \/ tool' = [tool EXCEPT !.ino = i, !.pc = pc]
    PROVE  AllFit'
<1>1. tool'.block = tool.block /\ tool'.grow = tool.grow
  BY MovedOn, Zenon
<1>2. RoomStays'
  BY <1>1, RoomKept
<1> QED
  BY <1>2, FitsStep

LEMMA TextFits ==
    ASSUME TypeOK, AllFit, NEW blocks, NEW pc, NEW k,
           tool.pc \notin {"idle", "hung"},
           content' = [c \in Blocks |-> IF c \in blocks THEN <<Text>> ELSE content[c]],
           tool' = [tool EXCEPT !.pc = pc] \/ tool' = [tool EXCEPT !.taken = k, !.pc = pc]
    PROVE  AllFit'
<1>1. tool'.block = tool.block /\ tool'.grow = tool.grow
  BY MovedOn, Zenon
<1>2. tool.block \in Blocks
  BY ToolFields
<1> DEFINE f == content'[tool.block]
<1>3. f = content[tool.block] \/ f = <<Text>>
  BY <1>2
<1>4. f = <<Text>> => f[Len(f)].off + 1 < Capacity
  BY OneRoom
<1>5. RoomStays'
  BY <1>1, <1>3, <1>4, RoomKept
<1>6. Text.off = 0
  BY DEF Text, NewEntry
<1>7. Fits(<<Text>>)
  BY <1>6, FitsOne, Zenon
<1>8. \A c \in Blocks : content'[c] = content[c] \/ content'[c] = <<Text>>
  OBVIOUS
<1> QED
  BY <1>5, <1>7, <1>8, FitsStep

LEMMA allocateDirBlocksFits ==
    ASSUME TypeOK, AllFit, allocateDirBlocks PROVE AllFit'
<1> DEFINE b == FirstEmpty(ClearBlocks)
           dots == DotEntries(tool.ino, tool.parent)
<1>1. CASE End("failed")
  BY <1>1, EndFits
<1>2. CASE /\ b \in Blocks
           /\ content' = [content EXCEPT ![b] = dots]
           /\ tool' = [tool EXCEPT !.pc = "entry"]
  <2>1. Fits(dots)
    BY ToolFields, FitsDots
  <2>2. dots[Len(dots)].off + 1 < Capacity
    BY DotsRoom
  <2> HIDE DEF b, dots
  <2>3. \A c \in Blocks : content'[c] = content[c] \/ content'[c] = dots
    BY <1>2 DEF TypeOK
  <2>4. tool'.block = tool.block /\ tool'.grow = tool.grow /\ tool.block \in Blocks
    BY <1>2, MovedOn, ToolFields
  <2>5. tool.pc = "blocks"
    BY DEF allocateDirBlocks
  <2>6. RoomStays'
    BY <2>2, <2>3, <2>4, <2>5, RoomKept
  <2> QED
    BY <2>1, <2>3, <2>6, FitsStep
<1> QED
  BY <1>1, <1>2, Zenon DEF allocateDirBlocks

LEMMA allocateFileBlocksFits ==
    ASSUME TypeOK, AllFit, allocateFileBlocks PROVE AllFit'
<1> DEFINE k == tool.taken
           pointers == inode[tool.ino].block[Direct]
           next == IF k + 1 = FileBlocks(tool.bytes) THEN "text" ELSE "take"
<1>1. CASE End("failed")
  BY <1>1, EndFits
<1>2. CASE /\ tool' = [tool EXCEPT !.taken = k + 1, !.pc = next]
           /\ IF k <= Direct THEN UNCHANGED content
              ELSE content' = [content EXCEPT ![pointers] = <<Text>>]
  <2>1. tool.pc = "take"
    BY DEF allocateFileBlocks
  <2> HIDE DEF pointers, next
  <2>2. \E W : content' = [c \in Blocks |-> IF c \in W THEN <<Text>> ELSE content[c]]
    <3>1. CASE k <= Direct
      <4>1. PICK W : W = {}
        OBVIOUS
      <4>2. content' = [c \in Blocks |-> IF c \in W THEN <<Text>> ELSE content[c]]
        BY <1>2, <3>1, <4>1 DEF TypeOK
      <4> QED
        BY <4>2, Zenon
    <3>2. CASE ~ k <= Direct
      <4>1. content' = [content EXCEPT ![pointers] = <<Text>>]
        BY <1>2, <3>2, Zenon
      <4>2. content' = [c \in Blocks |-> IF c \in {pointers} THEN <<Text>> ELSE content[c]]
        BY <4>1 DEF TypeOK
      <4> QED
        BY <4>2, Zenon
    <3> QED
      BY <3>1, <3>2
  <2> HIDE DEF k
  <2> QED
    BY <1>2, <2>1, <2>2, TextFits
<1> QED
  BY <1>1, <1>2, Zenon DEF allocateFileBlocks

LEMMA allocateLinkBlocksFits ==
    ASSUME TypeOK, AllFit, allocateLinkBlocks PROVE AllFit'
<1> DEFINE b == FirstEmpty(ClearBlocks)
           i_block == [inode[tool.ino].block EXCEPT ![0] = b]
           written == {i_block[k] : k \in 0 .. Pieces[tool.bytes] - 1}
<1>1. CASE End("failed")
  BY <1>1, EndFits
<1>2. CASE /\ content' = [c \in Blocks |-> IF c \in written THEN <<Text>> ELSE content[c]]
           /\ tool' = [tool EXCEPT !.pc = "entry"]
  <2>1. tool.pc = "blocks"
    BY DEF allocateLinkBlocks
  <2> HIDE DEF written
  <2> QED
    BY <1>2, <2>1, TextFits
<1> QED
  BY <1>1, <1>2, Zenon DEF allocateLinkBlocks

LEMMA NewEntryShape ==
    ASSUME TypeOK, NEW type \in Types
    PROVE  LET e == NewEntry(tool.name, tool.ino, type, 0, Capacity) IN
           /\ e \in Entry /\ e.name = tool.name /\ e.inode = tool.ino /\ e.type = type
           /\ e.off = 0 /\ e.rec = Capacity /\ e.name # "."
<1> DEFINE e == NewEntry(tool.name, tool.ino, type, 0, Capacity)
<1>1. tool.name \in AllNames
  BY ToolFields DEF AllNames
<1>2. 0 \in Int /\ Capacity \in Int
  BY Sizes
<1>3. tool.ino \in Inodes \cup {-1}
  BY ToolFields, Zenon
<1>4. e \in Entry
  BY <1>1, <1>2, <1>3, NewEntryTyped, Zenon
<1>5. /\ e.name = tool.name /\ e.inode = tool.ino /\ e.type = type
      /\ e.off = 0 /\ e.rec = Capacity
  BY DEF NewEntry
<1>6. tool.name # "."
  BY ToolFields, NamesAssumption
<1> HIDE DEF e
<1>7. e.name # "."
  BY <1>5, <1>6
<1> QED
  BY <1>4, <1>5, <1>7, Zenon DEF e

LEMMA AddsEntryFits ==
    ASSUME TypeOK, AllFit, NEW type \in Types, NEW table,
           tool.pc = "entry", AddsEntry(type, table)
    PROVE  AllFit'
<1> DEFINE e == NewEntry(tool.name, tool.ino, type, 0, Capacity)
           b == IF tool.grow THEN FirstEmpty(ClearBlocks) ELSE tool.block
<1>0. tool.ino # -1
  <2>1. tool.ino \in Inodes
    BY ToolFields, Zenon
  <2>2. \A i \in Inodes : i # -1
    BY Sizes
  <2> QED
    BY <2>1, <2>2, Zenon
<1>1. e \in Entry /\ e.off = 0 /\ e.inode # -1
  BY <1>0, NewEntryShape, Zenon
<1>2. Idle.pc = "idle"
  BY DEF Idle
<1> HIDE DEF e
<1>3. CASE Spin \/ End("failed")
  BY <1>3, EndFits
<1>4. CASE ~ tool.grow /\ content' = Appended(b, e) /\ tool' = Idle
  <2>1. b = tool.block /\ b \in Blocks
    <3>1. b = tool.block
      BY <1>4, Zenon
    <3> QED
      BY <3>1, ToolFields, Zenon
  <2> HIDE DEF b
  <2>2. ASSUME NEW c \in Blocks \ {0} PROVE content'[c] = content[c] \/ Fits(content'[c])
    <3>1. CASE c = b
      <4>1. HasRoom(b)
        BY <1>4, <2>1, <3>1 DEF AllFit, RoomStays
      <4>2. Fits(content[b])
        BY <3>1 DEF AllFit
      <4> QED
        BY <1>1, <1>4, <2>1, <3>1, <4>1, <4>2, FitsAppended
    <3>2. CASE c # b
      <4>1. Appended(b, e)[c] = content[c] \/ Appended(b, e)[c] = <<Zero>>
        BY <3>2 DEF Appended
      <4>2. Zero.off = 0
        BY DEF Zero, NewEntry
      <4>3. Fits(<<Zero>>)
        BY <4>2, FitsOne, Zenon
      <4> QED
        BY <1>4, <4>1, <4>3
    <3> QED
      BY <3>1, <3>2
  <2> QED
    BY <1>2, <1>4, <2>2, QuietFits, FitsStep
<1>5. CASE content' = [content EXCEPT ![b] = <<e>>] /\ tool' = Idle
  <2>1. Fits(<<e>>)
    BY <1>1, FitsOne
  <2> HIDE DEF b
  <2>2. \A c \in Blocks : content'[c] = content[c] \/ content'[c] = <<e>>
    BY <1>5 DEF TypeOK
  <2> QED
    BY <1>2, <1>5, <2>1, <2>2, QuietFits, FitsStep
<1> QED
  BY <1>3, <1>4, <1>5, Zenon DEF AddsEntry, e

LEMMA delEntryFits ==
    ASSUME TypeOK, AllFit, Starts, NEW d \in Inodes, NEW n, Stops(d, "file", n) # {},
           delEntry(d, n)
    PROVE  AllFit'
<1> DEFINE p == First(Stops(d, "file", n))
           b == inode[d].block[p[1]]
           chain == Unlinked(content[b], p[2])
<1>1. b \in Blocks /\ p[2] \in 1 .. Len(content[b]) /\ content[b] \in Chain
  <2>1. p \in Places(d)
    BY FirstStop
  <2> HIDE DEF p
  <2>2. b \in Blocks /\ p[2] \in 1 .. Len(content[b])
    BY <2>1, PlaceTyped
  <2> QED
    BY <2>2 DEF TypeOK
<1>2. content' = [content EXCEPT ![b] = chain] /\ UNCHANGED tool
  BY Zenon DEF delEntry
<1>3. b # 0 => Fits(chain)
  <2>1. b # 0 => Fits(content[b])
    BY <1>1 DEF AllFit
  <2> HIDE DEF p, b
  <2> QED
    BY <1>1, <2>1, FitsUnlinked
<1> HIDE DEF p, b, chain
<1>4. \A c \in Blocks \ {0} : content'[c] = content[c] \/ Fits(content'[c])
  BY <1>1, <1>2, <1>3 DEF TypeOK
<1>5. tool'.pc = "idle"
  BY <1>2, Zenon DEF Starts
<1> QED
  BY <1>4, <1>5, QuietFits, FitsStep

\* What rm finds, and what it then removes.
LEMMA rmoveFinds ==
    ASSUME TypeOK, NEW q \in Requests,
           Matches("file", q.name, Hit(Walk(q.dirs), "file", q.name)),
           Walk(q.dirs) \in Inodes, Hit(Walk(q.dirs), "file", q.name).inode >= 0
    PROVE  LET d == Walk(q.dirs)
               p == First(Stops(d, "file", q.name))
           IN  /\ Stops(d, "file", q.name) # {} /\ p \in Places(d)
               /\ EntryAt(d, p) = Hit(d, "file", q.name)
               /\ EntryAt(d, p).type \in {"reg", "lnk"} /\ EntryAt(d, p).inode >= 0
<1> DEFINE d == Walk(q.dirs)
           e == Hit(d, "file", q.name)
<1>1. e.type \in {"reg", "lnk"}
  BY DEF Matches
<1>2. e # Missing
  <2>1. Missing.type = "unknown"
    BY DEF Missing, NewEntry
  <2> HIDE DEF e
  <2> QED
    BY <1>1, <2>1
<1>3. Stops(d, "file", q.name) # {} /\ e = EntryAt(d, First(Stops(d, "file", q.name)))
  BY <1>2, Zenon DEF Hit
<1>4. First(Stops(d, "file", q.name)) \in Places(d)
  BY <1>3, FirstStop
<1> QED
  BY <1>1, <1>3, <1>4, Zenon

LEMMA startsFits ==
    ASSUME TypeOK, AllFit, Start PROVE AllFit'
<1>1. ASSUME NEW cmd, NEW pc \in {"idle", "hung"}, NEW how, StartAnd(cmd, pc, how)
      PROVE  AllFit'
  BY <1>1, EndFits
<1>2. ASSUME NEW q \in Requests, makedir(q) PROVE AllFit'
  <2>1. CASE \E d \in Inodes : /\ ~ RoomSpins(d)
                               /\ StartIn("mkdir", "inode", d, q.name, 0, 0, 2)
    BY <2>1, StartInFits
  <2>2. \A d \in Inodes : d >= 0
    BY Sizes
  <2> QED
    BY <1>1, <1>2, <2>1, <2>2, Zenon DEF makedir
<1>3. ASSUME NEW q \in Requests, NEW local, copy(q, local) PROVE AllFit'
  <2>1. CASE \E d \in Inodes, bytes \in FileSizes :
               /\ ~ RoomSpins(d)
               /\ StartIn("cp", "inode", d, q.name, 0, bytes, BlockCalc(bytes) + 1)
    BY <2>1, StartInFits
  <2>2. \A d \in Inodes : d >= 0
    BY Sizes
  <2>3. ASSUME NEW d, NEW n, StartInDirectory(d, n) PROVE AllFit'
    BY <2>3, EndFits
  <2> QED
    BY <1>1, <1>3, <2>1, <2>2, <2>3, Zenon DEF copy
<1>4. ASSUME NEW q1 \in Requests, NEW q2 \in Requests, lnk(q1, q2) PROVE AllFit'
  <2> DEFINE d1 == goodPathExists(q1)
             d2 == goodPathExists(q2)
             source == Hit(d1, "entry", q1.name).inode
  <2>1. CASE /\ {d1, d2} \subseteq Inodes /\ ~ RoomSpins(d2)
             /\ \/ StartIn("ln", "entry", d2, q2.name, source, 0, 2)
                \/ \E bytes \in PathSizes :
                     StartIn("ln -s", "inode", d2, q2.name, 0, bytes, 2)
    <3>1. d2 \in Inodes
      BY <2>1, Zenon
    <3> HIDE DEF d1, d2, source
    <3> QED
      BY <2>1, <3>1, StartInFits
  <2> QED
    BY <1>1, <1>4, <2>1, Zenon DEF lnk
<1>5. ASSUME NEW q \in Requests, rmove(q) PROVE AllFit'
  <2> DEFINE d == Walk(q.dirs)
             e == Hit(d, "file", q.name)
  <2>1. CASE /\ Starts /\ d \in Inodes /\ Matches("file", q.name, e)
             /\ e.inode >= 0 /\ delEntry(d, q.name)
    <3>1. Stops(d, "file", q.name) # {}
      BY <2>1, rmoveFinds, Zenon
    <3> HIDE DEF d, e
    <3> QED
      BY <2>1, <3>1, delEntryFits
  <2> QED
    BY <1>1, <1>5, <2>1, Zenon DEF rmove
<1> QED
  BY <1>2, <1>3, <1>4, <1>5, Zenon DEF Start

LEMMA newInodesFits ==
    ASSUME TypeOK, AllFit,
           allocateNewDirInode \/ allocateNewFileInode \/ allocateNewLinkInode
    PROVE  AllFit'
<1>1. CASE End("failed")
  BY <1>1, EndFits
<1>2. CASE tool.pc = "inode" /\ \E mode, links, blocks : TakesInode(mode, links, blocks)
  <2>1. UNCHANGED content /\ \E i : tool' = [tool EXCEPT !.ino = i, !.pc = "blocks"]
    BY <1>2 DEF TakesInode
  <2> QED
    BY <1>2, <2>1, SameContentFits
<1> QED
  BY <1>1, <1>2, Zenon DEF allocateNewDirInode, allocateNewFileInode, allocateNewLinkInode

LEMMA checksFits ==
    ASSUME TypeOK, AllFit, checkFileBlocks \/ copyFileBytes PROVE AllFit'
<1>1. CASE End("failed") \/ End("killed")
  BY <1>1, EndFits
<1>2. CASE /\ tool.pc \in {"blocks", "text"} /\ UNCHANGED disk
           /\ \E pc : tool' = [tool EXCEPT !.pc = pc]
  <2>1. UNCHANGED content
    BY <1>2 DEF disk
  <2> QED
    BY <1>2, <2>1, SameContentFits
<1> QED
  BY <1>1, <1>2, Zenon DEF checkFileBlocks, copyFileBytes

LEMMA newEntriesFits ==
    ASSUME TypeOK, AllFit,
           \/ addNewDirToParentDirEntList \/ addNewFileToParentDirEntList
           \/ addSymbolicLink \/ addHardLink
    PROVE  AllFit'
<1>1. {"reg", "dir", "lnk", "unknown"} \subseteq Types
  BY DEF Types
<1>2. \E t \in Types : \E table : tool.pc = "entry" /\ AddsEntry(t, table)
  <2>1. CASE addHardLink
    <3> DEFINE i == tool.ino
               type == CASE inode[i].mode \in {"reg", "lnk"} -> "reg"
                         [] inode[i].mode = "dir" -> "dir"
                         [] OTHER -> "unknown"
               table == [inode EXCEPT ![i].links = @ + 1]
    <3>1. type \in Types
      BY <1>1
    <3>2. AddsEntry(type, table) /\ tool.pc = "entry"
      BY <2>1, Zenon DEF addHardLink
    <3> HIDE DEF type, table
    <3> QED
      BY <3>1, <3>2
  <2> QED
    BY <1>1, <2>1, Zenon
    DEF addNewDirToParentDirEntList, addNewFileToParentDirEntList, addSymbolicLink
<1> QED
  BY <1>2, AddsEntryFits

LEMMA FitsInductive == Spec => []FitsInv
<1>1. Init => FitsInv
  BY InitTyped, InitFits DEF FitsInv
<1>2. FitsInv /\ [Next]_vars => FitsInv'
  <2> SUFFICES ASSUME FitsInv, [Next]_vars PROVE AllFit'
    BY StepTyped DEF FitsInv
  <2>1. TypeOK /\ AllFit
    BY DEF FitsInv
  <2>2. CASE Start
    BY <2>1, <2>2, startsFits
  <2>3. CASE Mkdir
    BY <2>1, <2>3, newInodesFits, allocateDirBlocksFits, newEntriesFits DEF Mkdir
  <2>4. CASE Cp
    BY <2>1, <2>4, newInodesFits, checksFits, allocateFileBlocksFits, newEntriesFits DEF Cp
  <2>5. CASE Ln
    BY <2>1, <2>5, newInodesFits, allocateLinkBlocksFits, newEntriesFits DEF Ln
  <2>6. CASE Interrupt
    BY <2>1, <2>6, EndFits
  <2>7. CASE UNCHANGED vars
    BY <2>1, <2>7 DEF vars, disk, AllFit, RoomStays, HasRoom, LastOf
  <2> QED
    BY <2>2, <2>3, <2>4, <2>5, <2>6, <2>7, Zenon DEF Next
<1> QED
  BY <1>1, <1>2, PTL DEF Spec

-----------------------------------------------------------------------------
(* Where paths lead. *)

LEMMA Induction ==
    ASSUME NEW m \in Nat, NEW T, 0 \in T,
           \A n \in 0 .. m - 1 : n \in T => n + 1 \in T
    PROVE  0 .. m \subseteq T
<1> SUFFICES ASSUME NEW k \in 0 .. m, k \notin T PROVE FALSE
  OBVIOUS
<1> DEFINE F == {n \in 0 .. m : n \notin T}
<1>1. PICK x \in F : \A y \in F : x <= y
  <2>1. F \in SUBSET Nat /\ F # {}
    OBVIOUS
  <2> HIDE DEF F
  <2> QED
    BY <2>1, LeastElement
<1>2. x \in 1 .. m /\ x \notin T
  OBVIOUS
<1>3. x - 1 \in 0 .. m - 1 /\ x - 1 \in T
  BY <1>1, <1>2
<1>4. (x - 1) + 1 = x
  BY <1>2
<1> QED
  BY <1>2, <1>3, <1>4

\* The directories that an entry leads to, or the failures of a walk.
Reached == {NoPath, Endless} \cup {i \in Owners : inode[i].mode = "dir"}

LEMMA OwnerTyped ==
    ASSUME TypeOK, NEW i \in Owners
    PROVE  i \in Inodes /\ inode[i] \in Inode /\ inode[i].block[0] \in Blocks
<1>1. Dirs \subseteq Inodes
  BY DEF Dirs, TypeOK
<1>2. i \in Inodes
  BY <1>1, ToolFields, Sizes DEF Owners, Linked, Pending
<1>3. inode[i] \in Inode
  BY <1>2 DEF TypeOK
<1>4. 0 \in 0 .. Direct
  BY Sizes
<1> QED
  BY <1>2, <1>3, <1>4, BlockOfInode

LEMMA OwnerFirst ==
    ASSUME TypeOK, Image, NEW i \in Owners
    PROVE  /\ inode[i].blocks \in Nat /\ 0 < inode[i].blocks
           /\ inode[i].block[0] \in Owned(i) /\ inode[i].block[0] \in Own(i)
<1>1. inode[i].block[0] \in Own(i)
  BY DEF Image, OwnerSound
<1>2. inode[i].block[0] \in Owned(i)
  BY <1>1 DEF Own
<1>3. inode[i].blocks \in Nat
  BY OwnerTyped DEF Inode
<1>4. \E k \in 0 .. Direct - 1 : k < inode[i].blocks
  BY <1>2 DEF Owned
<1> QED
  BY <1>1, <1>2, <1>3, <1>4

LEMMA ZeroedHit ==
    ASSUME TypeOK, Image, NEW i \in Owners, Zeroed(i)
    PROVE  /\ \A how, n : Hit(i, how, n) = Zero
           /\ RoomSpins(i)
<1>1. 0 < inode[i].blocks /\ inode[i].blocks \in Nat /\ i \in Inodes
  BY OwnerFirst, OwnerTyped
<1>2. Direct \in Nat \ {0} /\ Capacity \in Nat \ {0}
  BY Sizes
<1>3. content[inode[i].block[0]] = <<Zero>>
  BY DEF Zeroed
<1>4. Zero.rec = 0
  BY DEF Zero, NewEntry
<1> DEFINE p == <<0, 1>>
<1>5. p \in Places(i) /\ EntryAt(i, p) = Zero
  <2>1. 0 \in 0 .. Direct - 1 /\ 1 \in 1 .. Capacity /\ p[1] = 0 /\ p[2] = 1
    BY <1>2
  <2>2. p \in (0 .. Direct - 1) \X (1 .. Capacity)
    BY <2>1
  <2>3. Len(content[inode[i].block[0]]) = 1 /\ content[inode[i].block[0]][1] = Zero
    BY <1>3
  <2> HIDE DEF p
  <2> QED
    BY <1>1, <2>1, <2>2, <2>3 DEF Places, EntryAt
<1>6. ASSUME NEW how, NEW n PROVE Hit(i, how, n) = Zero
  <2> DEFINE S == Stops(i, how, n)
  <2>1. p \in S
    BY <1>4, <1>5 DEF Stops
  <2>2. S \subseteq Places(i)
    BY DEF Stops
  <2>3. S \in SUBSET (Nat \X Nat)
    BY <1>1, <2>2, PlaceTyped
  <2>4. First(S) \in S /\ Before(First(S), p)
    BY <2>1, <2>3, FirstIsOneOfThem
  <2>5. First(S) \in Places(i) /\ First(S) \in Nat \X Nat /\ First(S)[2] \in 1 .. Capacity
    BY <2>2, <2>3, <2>4 DEF Places
  <2>6. First(S)[1] = 0 /\ First(S)[2] = 1
    BY <2>4, <2>5 DEF Before
  <2>7. First(S) = p
    BY <2>5, <2>6
  <2>8. S # {}
    BY <2>1
  <2> QED
    BY <1>5, <2>7, <2>8 DEF Hit
<1>7. RoomSpins(i)
  <2> DEFINE S == RoomIndexes(i)
  <2>1. Stuck(inode[i].block[0])
    BY <1>3, <1>4 DEF Stuck, LastOf
  <2>2. 0 \in S
    BY <1>1, <1>2, <2>1 DEF RoomIndexes
  <2>3. S \in SUBSET Nat
    BY <1>2 DEF RoomIndexes
  <2>4. Min(S) \in Nat /\ Min(S) <= 0
    BY <2>2, <2>3, MinOfSet
  <2>5. Min(S) = 0
    BY <2>4
  <2>6. S # {}
    BY <2>2
  <2> QED
    BY <2>1, <2>5, <2>6 DEF RoomSpins, RoomBlock
<1> QED
  BY <1>6, <1>7

LEMMA DirsOrZeroed ==
    ASSUME TypeOK, Image, NEW d \in Inodes, d \in Reached
    PROVE  d \in Owners /\ (d \in Dirs \/ (Zeroed(d) /\ d \in Owners))
<1>1. d # NoPath /\ d # Endless
  BY Sizes DEF NoPath, Endless
<1>2. d \in Owners /\ inode[d].mode = "dir"
  BY <1>1 DEF Reached
<1> QED
  BY <1>2 DEF Image, OwnerSound

\* What a scan of a directory finds is an entry that agrees with its inode.
LEMMA HitLinked ==
    ASSUME TypeOK, Image, NEW d \in Dirs, NEW how, NEW n, Hit(d, how, n).inode # -1
    PROVE  LET e == Hit(d, how, n) IN
           e.inode \in Linked /\ Fitting(e.inode, e.type)
<1> DEFINE S == Stops(d, how, n)
           p == First(S)
           e == Hit(d, how, n)
           c == inode[d].block[p[1]]
<1>1. d \in Inodes
  BY DirTyped
<1>2. Missing.inode = -1
  BY DEF Missing, NewEntry
<1>3. S # {} /\ e = EntryAt(d, p)
  BY <1>2 DEF Hit
<1>4. p \in Places(d)
  BY <1>1, <1>3, FirstStop
<1>5. p[1] \in 0 .. Direct - 1 /\ p[2] \in 1 .. Len(content[c]) /\ e \in Entry
  BY <1>1, <1>3, <1>4, PlaceTyped
<1>6. p[1] < inode[d].blocks
  BY <1>4 DEF Places
<1> HIDE DEF p, S
<1>7. c \in DirBlocks
  BY <1>5, <1>6, DirOwns
<1>8. e = content[c][p[2]]
  BY <1>3 DEF EntryAt
<1> HIDE DEF e, c
<1>9. e.inode \in Inodes /\ e.type \in Types
  BY <1>5 DEF Entry, e
<1>10. Lists(content[c], e.inode, e.type)
  BY <1>5, <1>8 DEF Lists
<1>11. e.inode \in Linked
  BY <1>7, <1>9, <1>10 DEF Linked
<1>12. Fitting(e.inode, e.type)
  BY <1>7, <1>9, <1>10 DEF Image, Agreed
<1> QED
  BY <1>11, <1>12 DEF e

LEMMA IntoReached ==
    ASSUME TypeOK, Image, NEW d \in Reached, NEW how \in {"component", "exact"}, NEW n
    PROVE  Into(d, how, n) \in Reached
<1> DEFINE e == Hit(d, how, n)
<1>3. d \in Int
  BY OwnerTyped, Sizes DEF Reached, NoPath, Endless
<1>1. CASE d < 0
  <2>1. Into(d, how, n) = d
    BY <1>1, <1>3 DEF Into
  <2> QED
    BY <2>1
<1>2. CASE d >= 0
  <2>1. d \in Owners /\ inode[d].mode = "dir"
    BY <1>2 DEF Reached, NoPath, Endless
  <2>2. d \in Inodes /\ ~ d < 0
    BY <1>2, <1>3, <2>1, OwnerTyped
  <2>3. CASE Zeroed(d)
    <3>1. e = Zero
      BY <2>1, <2>3, ZeroedHit
    <3>2. Zero.type = "unknown" /\ Zero.rec = 0
      BY DEF Zero, NewEntry
    <3>3. ~ Matches(how, n, e)
      BY <3>1, <3>2 DEF Matches
    <3>4. Into(d, how, n) = Endless
      BY <1>2, <2>2, <3>1, <3>2, <3>3 DEF Into
    <3> QED
      BY <3>4 DEF Reached
  <2>4. CASE d \in Dirs
    <3>1. e.inode \in Inodes \cup {-1}
      BY <2>2, HitTyped DEF Entry
    <3> HIDE DEF e
    <3>2. Into(d, how, n) \in {e.inode, Endless, NoPath}
          /\ (Into(d, how, n) = e.inode => e.type = "dir" \/ e.inode \in {Endless, NoPath})
      BY <1>2, <2>2 DEF Into, e
    <3>3. CASE e.inode = -1
      BY <3>2, <3>3 DEF Reached, NoPath
    <3>4. CASE e.inode # -1
      <4>1. e.inode \in Linked /\ Fitting(e.inode, e.type)
        BY <2>4, <3>4, HitLinked DEF e
      <4>2. e.type = "dir" => e.inode \in Reached
        BY <4>1 DEF Fitting, Reached, Owners
      <4> QED
        BY <3>2, <4>2 DEF Reached
    <3> QED
      BY <3>3, <3>4
  <2> QED
    BY <2>1, <2>2, <2>3, <2>4, DirsOrZeroed
<1> QED
  BY <1>1, <1>2, <1>3

\* The walk is defined: a function follows the components one after another.
Path(f, dirs, n, how) ==
    \A k \in 0 .. n : f[k] = IF k = 0 THEN Root ELSE Into(f[k - 1], how, dirs[k])
LEMMA PathExists ==
    ASSUME NEW dirs, NEW n \in Nat, NEW how
    PROVE  \E f : Path(f, dirs, n, how)
<1> DEFINE Step(k, g) == IF k = 0 THEN Root ELSE Into(g[k - 1], how, dirs[k])
           Upto(m, g) == \A k \in 0 .. m : g[k] = Step(k, g)
           T == {m \in 0 .. n : \E g : Upto(m, g)}
<1>1. 0 \in T
  <2> DEFINE g == [k \in 0 .. n |-> Root]
  <2>1. Upto(0, g)
    OBVIOUS
  <2> HIDE DEF Upto
  <2> QED
    BY <2>1
<1>2. ASSUME NEW m \in 0 .. n - 1, m \in T PROVE m + 1 \in T
  <2>1. PICK g : Upto(m, g)
    BY <1>2
  <2> DEFINE h == [k \in 0 .. n |-> IF k = m + 1 THEN Into(g[m], how, dirs[m + 1]) ELSE g[k]]
  <2>2. ASSUME NEW k \in 0 .. m + 1 PROVE h[k] = Step(k, h)
    <3>1. k \in 0 .. n /\ m \in 0 .. n /\ m # m + 1 /\ (m + 1) - 1 = m
      OBVIOUS
    <3>2. k - 1 \in 0 .. n => k - 1 # m + 1
      OBVIOUS
    <3>3. CASE k = m + 1
      <4>1. h[k] = Into(g[m], how, dirs[m + 1]) /\ h[m] = g[m]
        BY <3>1, <3>3
      <4> HIDE DEF h
      <4> QED
        BY <3>1, <3>3, <4>1
    <3>4. CASE k # m + 1
      <4>1. h[k] = g[k] /\ k \in 0 .. m
        BY <3>1, <3>4
      <4>2. k # 0 => h[k - 1] = g[k - 1]
        BY <3>1, <3>2, <3>4
      <4>3. g[k] = Step(k, g)
        BY <2>1, <4>1
      <4> HIDE DEF h
      <4> QED
        BY <4>1, <4>2, <4>3
    <3> QED
      BY <3>3, <3>4
  <2>3. m + 1 \in 0 .. n
    OBVIOUS
  <2> HIDE DEF h, Step
  <2>4. Upto(m + 1, h)
    BY <2>2
  <2> HIDE DEF Upto
  <2> QED
    BY <2>3, <2>4
<1>3. 0 .. n \subseteq T
  <2> HIDE DEF T
  <2> QED
    BY <1>1, <1>2, Induction
<1>4. PICK g : Upto(n, g)
  <2> HIDE DEF Upto
  <2>1. n \in T
    BY <1>3
  <2> QED
    BY <2>1
<1> QED
  BY <1>4, Zenon DEF Path

\* A set of directories that no component leads out of.
LEMMA WalkStays ==
    ASSUME NEW R, Root \in R,
           \A d \in R, how \in {"component", "exact"} : \A n : Into(d, how, n) \in R,
           NEW q \in Requests
    PROVE  Walk(q.dirs) \in R
<1> DEFINE dirs == q.dirs
           n == Len(dirs)
           how == IF n = 1 THEN "component" ELSE "exact"
           g == CHOOSE g : g = [k \in 0 .. n |->
                                 IF k = 0 THEN Root ELSE Into(g[k - 1], how, dirs[k])]
<1>1. n \in Nat
  BY SizesAssumption
<1>2. Walk(dirs) = g[n]
  BY DEF Walk
<1>3. how \in {"component", "exact"}
  OBVIOUS
<1>4. g = [k \in 0 .. n |-> IF k = 0 THEN Root ELSE Into(g[k - 1], how, dirs[k])]
  <2> HIDE DEF n, how, dirs
  <2>1. PICK f : \A k \in 0 .. n :
                   f[k] = IF k = 0 THEN Root ELSE Into(f[k - 1], how, dirs[k])
    <3> HIDE DEF g
    <3>1. PICK f : Path(f, dirs, n, how)
      BY <1>1, PathExists, Zenon
    <3> QED
      BY <3>1, Zenon DEF Path
  <2> DEFINE h == [k \in 0 .. n |-> f[k]]
  <2>2. \A k \in 0 .. n : k # 0 => h[k - 1] = f[k - 1]
    BY <1>1
  <2>3. ASSUME NEW k \in 0 .. n
        PROVE  f[k] = IF k = 0 THEN Root ELSE Into(h[k - 1], how, dirs[k])
    <3> HIDE DEF h
    <3>1. CASE k = 0
      BY <2>1, <3>1
    <3>2. CASE k # 0
      <4>1. h[k - 1] = f[k - 1]
        BY <2>2, <3>2
      <4>2. f[k] = Into(f[k - 1], how, dirs[k])
        BY <2>1, <3>2
      <4> QED
        BY <3>2, <4>1, <4>2, Zenon
    <3> QED
      BY <3>1, <3>2
  <2>4. h = [k \in 0 .. n |-> IF k = 0 THEN Root ELSE Into(h[k - 1], how, dirs[k])]
    BY <2>3, Zenon
  <2> HIDE DEF h
  <2> QED
    BY <2>4, Zenon
<1> HIDE DEF n, how, dirs
<1> HIDE DEF g
<1> DEFINE T == {k \in 0 .. n : g[k] \in R}
<1>5. 0 \in T
  BY <1>1, <1>4
<1>6. ASSUME NEW k \in 0 .. n - 1, k \in T PROVE k + 1 \in T
  <2>1. k + 1 \in 0 .. n /\ k + 1 # 0 /\ (k + 1) - 1 = k
    BY <1>1
  <2>2. g[k + 1] = Into(g[k], how, dirs[k + 1])
    BY <1>4, <2>1
  <2>3. g[k] \in R
    BY <1>6
  <2>4. Into(g[k], how, dirs[k + 1]) \in R
    BY <1>3, <2>3
  <2> QED
    BY <2>1, <2>2, <2>4
<1>7. 0 .. n \subseteq T
  <2> HIDE DEF T
  <2> QED
    BY <1>1, <1>5, <1>6, Induction
<1>8. n \in 0 .. n
  BY <1>1
<1> QED
  BY <1>2, <1>7, <1>8 DEF dirs

LEMMA WalkReached ==
    ASSUME TypeOK, Image, NEW q \in Requests
    PROVE  Walk(q.dirs) \in Reached
<1> PICK R : R = Reached
  OBVIOUS
<1>1. Root \in R
  BY DEF Reached, Owners, Image
<1>2. \A d \in R, how \in {"component", "exact"} : \A n : Into(d, how, n) \in R
  BY IntoReached
<1>3. Walk(q.dirs) \in R
  BY <1>1, <1>2, WalkStays
<1> QED
  BY <1>3

-----------------------------------------------------------------------------
(* What a step may do to the image. *)

\* It makes no block start like a directory.
KeepsDots(c) ==
    content'[c][1].name = "." =>
        content[c][1].name = "." /\ content'[c][1].inode = content[c][1].inode

\* A block keeps its first entry, or is filled with zeros.
KeepsStart(c) ==
    \/ content'[c] = <<Zero>> /\ ("padded" \in damage' \/ content[c] = <<Zero>>)
    \/ /\ content[c] # <<Zero>>
       /\ content'[c][1].name = content[c][1].name
       /\ content'[c][1].inode = content[c][1].inode

SameOwn(i) ==
    /\ inode'[i].mode = inode[i].mode
    /\ inode'[i].blocks = inode[i].blocks
    /\ inode'[i].block = inode[i].block

LEMMA OwnSame ==
    ASSUME NEW i, SameOwn(i)
    PROVE  Owned(i)' = Owned(i) /\ Own(i)' = Own(i)
  BY DEF SameOwn, Owned, Own

LEMMA DotKept ==
    ASSUME DotsOwned, NEW c \in Blocks, KeepsDots(c), content'[c][1].name = ".",
           \A i \in inodeBits :
             inode[i].mode = "dir" /\ (i = tool.ino => ~ Unfinished) =>
               /\ i \in inodeBits' /\ inode'[i].mode = "dir"
               /\ inode'[i].block[0] = inode[i].block[0]
               /\ i = tool'.ino => ~ Unfinished'
    PROVE  LET i == content'[c][1].inode IN
           /\ i \in inodeBits' /\ inode'[i].mode = "dir" /\ inode'[i].block[0] = c
           /\ i = tool'.ino => tool'.pc \notin {"blocks", "take", "text"}
<1> DEFINE i == content[c][1].inode
<1>1. content[c][1].name = "." /\ content'[c][1].inode = i
  BY DEF KeepsDots
<1>2. /\ i \in inodeBits /\ inode[i].mode = "dir" /\ inode[i].block[0] = c
      /\ i = tool.ino => ~ Unfinished
  BY <1>1 DEF DotsOwned, Unfinished
<1> HIDE DEF i
<1>3. /\ i \in inodeBits' /\ inode'[i].mode = "dir" /\ inode'[i].block[0] = c
      /\ i = tool'.ino => ~ Unfinished'
  BY <1>2
<1> QED
  BY <1>1, <1>3 DEF Unfinished

LEMMA DirKept ==
    ASSUME TypeOK, NEW d \in Dirs', d \in inodeBits, inode'[d].mode = inode[d].mode,
           inode'[d].block[0] = inode[d].block[0], KeepsDots(inode[d].block[0])
    PROVE  d \in Dirs
<1>1. /\ content'[inode[d].block[0]][1].name = "."
      /\ content'[inode[d].block[0]][1].inode = d
  BY DEF Dirs
<1> QED
  BY <1>1, DirStays DEF KeepsDots

\* X: the inodes that the step names.
LEMMA NamesStep ==
    ASSUME Agreed, NEW X, \A i \in Linked : inode'[i].mode = inode[i].mode,
           \A c \in DirBlocks', i \in Inodes, t \in Types :
             Lists(content'[c], i, t) =>
               \/ c \in DirBlocks /\ Lists(content[c], i, t)
               \/ i \in X /\ Fitting(i, t)'
    PROVE  Linked' \subseteq Linked \cup X /\ Agreed'
<1>1. ASSUME NEW c \in DirBlocks', NEW i \in Inodes, NEW t \in Types, Lists(content'[c], i, t)
      PROVE  (i \in Linked \/ i \in X) /\ Fitting(i, t)'
  <2>1. CASE c \in DirBlocks /\ Lists(content[c], i, t)
    <3>1. i \in Linked
      BY <2>1 DEF Linked
    <3>2. Fitting(i, t)
      BY <2>1 DEF Agreed
    <3>3. inode'[i].mode = inode[i].mode
      BY <3>1
    <3> QED
      BY <3>1, <3>2, <3>3 DEF Fitting
  <2>2. CASE i \in X /\ Fitting(i, t)'
    BY <2>2
  <2> QED
    BY <1>1, <2>1, <2>2
<1>2. Agreed'
  BY <1>1 DEF Agreed
<1>3. \A i \in Linked' : i \in Linked \/ i \in X
  BY <1>1 DEF Linked
<1> QED
  BY <1>2, <1>3

\* x: the inode that may get block b.
LEMMA OwnersStep ==
    ASSUME TypeOK, damage \subseteq damage', Image, NEW x, NEW b,
           \A j \in Owners : b \notin Own(j),
           x \in Owners' => /\ OwnerSound(x)'
                            /\ \A c \in Own(x)' : c = b \/ (x \in Owners /\ c \in Own(x)),
           \A i \in Owners' \ {x} :
             /\ i \in Owners /\ SameOwn(i)
             /\ i \in inodeBits' /\ Own(i) \subseteq blockBits'
             /\ inode[i].mode = "dir" => KeepsStart(inode[i].block[0])
    PROVE  (\A i \in Owners' : OwnerSound(i)') /\ Apart'
<1>1. ASSUME NEW i \in Owners' \ {x}
      PROVE  OwnerSound(i)' /\ i \in Owners /\ Own(i)' = Own(i)
  <2>1. /\ i \in Owners /\ SameOwn(i) /\ i \in inodeBits' /\ Own(i) \subseteq blockBits'
        /\ inode[i].mode = "dir" => KeepsStart(inode[i].block[0])
    OBVIOUS
  <2>2. Own(i)' = Own(i)
    BY <2>1, OwnSame
  <2>3. OwnerSound(i)
    BY <2>1 DEF Image
  <2>4. ASSUME inode[i].mode = "dir" PROVE i \in Dirs' \/ Zeroed(i)'
    <3> DEFINE c == inode[i].block[0]
    <3>1. KeepsStart(c) /\ inode'[i].block[0] = c /\ inode'[i].mode = "dir"
      BY <2>1, <2>4 DEF SameOwn
    <3>2. CASE content'[c] = <<Zero>>
      <4>1. "padded" \in damage'
        <5>1. CASE content[c] # <<Zero>>
          <6>1. c = inode[i].block[0]
            OBVIOUS
          <6> HIDE DEF c
          <6>2. content'[c][1] = Zero
            <7>1. <<Zero>>[1] = Zero
              OBVIOUS
            <7> QED
              BY <3>2, <7>1, Zenon
          <6>3. content'[c][1].name = ""
            <7>1. Zero.name = ""
              BY DEF Zero, NewEntry
            <7> QED
              BY <6>2, <7>1, Zenon
          <6>4. ~ Zeroed(i)
            BY <5>1, <6>1, Zenon DEF Zeroed
          <6>5. i \in Dirs
            BY <2>3, <2>4, <6>4, Zenon DEF OwnerSound
          <6>6. content[c][1].name = "."
            BY <6>1, <6>5, InDirs, Zenon
          <6>7. content'[c][1].name # content[c][1].name
            BY <6>3, <6>6
          <6>8. KeepsStart(c)
            BY <3>1
          <6> QED
            BY <6>7, <6>8, Zenon DEF KeepsStart
        <5>2. CASE content[c] = <<Zero>>
          <6>1. c = inode[i].block[0]
            OBVIOUS
          <6> HIDE DEF c
          <6>2. content[c][1] = Zero
            BY <5>2
          <6>3. Zero.name = ""
            BY DEF Zero, NewEntry
          <6>4. content[c][1].name # "."
            BY <6>2, <6>3
          <6>5. i \notin Dirs
            BY <6>1, <6>4, InDirs, Zenon
          <6>6. Zeroed(i)
            BY <2>3, <2>4, <6>5, Zenon DEF OwnerSound
          <6>7. "padded" \in damage
            BY <6>6, Zenon DEF Zeroed
          <6> QED
            BY <6>7
        <5> QED
          BY <5>1, <5>2
      <4> QED
        BY <3>1, <3>2, <4>1 DEF Zeroed
    <3>3. CASE content'[c] # <<Zero>>
      <4>1. /\ content[c] # <<Zero>> /\ content'[c][1].name = content[c][1].name
            /\ content'[c][1].inode = content[c][1].inode
        BY <3>1, <3>3 DEF KeepsStart
      <4>2. i \in Dirs
        BY <2>3, <2>4, <4>1 DEF OwnerSound, Zeroed
      <4>3. content[c][1].name = "." /\ content[c][1].inode = i
        BY <4>2 DEF Dirs
      <4> HIDE DEF c
      <4>4. i \in Dirs'
        BY <2>1, <3>1, <4>1, <4>3 DEF Dirs
      <4> QED
        BY <4>4
    <3> QED
      BY <3>2, <3>3
  <2>5. OwnerSound(i)'
    BY <2>1, <2>2, <2>3, <2>4 DEF OwnerSound, SameOwn, OneBlock, Later
  <2> QED
    BY <2>1, <2>2, <2>5
<1>2. \A i \in Owners' : OwnerSound(i)'
  BY <1>1
<1>3. ASSUME NEW i \in Owners', NEW j \in Owners', i # j PROVE Own(i)' \cap Own(j)' = {}
  <2>1. \A p, q \in Owners : p # q => Own(p) \cap Own(q) = {}
    BY DEF Image, Apart
  <2>2. CASE i # x /\ j # x
    BY <1>1, <1>3, <2>1, <2>2
  <2>3. ASSUME NEW p \in Owners' \ {x}, x \in Owners' PROVE Own(p)' \cap Own(x)' = {}
    <3>1. p \in Owners /\ Own(p)' = Own(p) /\ b \notin Own(p)
      BY <1>1
    <3>2. x \in Owners => Own(p) \cap Own(x) = {}
      BY <2>1, <3>1
    <3>3. \A c \in Own(x)' : c = b \/ (x \in Owners /\ c \in Own(x))
      BY <2>3
    <3> QED
      BY <3>1, <3>2, <3>3
  <2> QED
    BY <1>3, <2>2, <2>3
<1>4. Apart'
  BY <1>3 DEF Apart
<1> QED
  BY <1>2, <1>4

-----------------------------------------------------------------------------
(* Steps that leave the image as it is. *)

LEMMA SameOwners ==
    ASSUME UNCHANGED <<inodeBits, inode, content>>
    PROVE  /\ Dirs' = Dirs /\ DirBlocks' = DirBlocks /\ Linked' = Linked
           /\ \A i : Owned(i)' = Owned(i) /\ Own(i)' = Own(i)
<1>1. Dirs' = Dirs
  BY DEF Dirs
<1>2. \A i : Owned(i)' = Owned(i) /\ Own(i)' = Own(i)
  BY DEF Owned, Own
<1>3. DirBlocks' = DirBlocks
  BY <1>1, <1>2 DEF DirBlocks
<1>4. Linked' = Linked
  BY <1>3 DEF Linked
<1> QED
  BY <1>1, <1>2, <1>3, <1>4

LEMMA SameImageOwn ==
    ASSUME TypeOK, damage \subseteq damage', Image, UNCHANGED <<blockBits, inodeBits, inode, content>>,
           Pending' \subseteq Owners,
           Unfinished' => Unfinished /\ tool'.ino = tool.ino
    PROVE  Image' /\ Owners' \subseteq Owners
<1>1. /\ Dirs' = Dirs /\ DirBlocks' = DirBlocks /\ Linked' = Linked
      /\ \A i : Owned(i)' = Owned(i) /\ Own(i)' = Own(i)
  BY SameOwners
<1>2. Owners' \subseteq Owners
  BY <1>1 DEF Owners
<1>3. \A i \in Owners' : OwnerSound(i)'
  <2> SUFFICES ASSUME NEW i \in Owners' PROVE OwnerSound(i)'
    OBVIOUS
  <2>1. OwnerSound(i)
    BY <1>2 DEF Image
  <2> QED
    BY <1>1, <2>1 DEF OwnerSound, Zeroed, OneBlock, Later
<1>4. Apart'
  BY <1>1, <1>2 DEF Image, Apart
<1>5. DotsOwned'
  <2>1. DotsOwned
    BY DEF Image
  <2> QED
    BY <2>1 DEF DotsOwned, Unfinished
<1>6. Agreed'
  BY <1>1 DEF Image, Agreed, Fitting
<1>7. FreeClean'
  BY DEF Image, FreeClean, Later
<1>8. inode'[Root].mode = "dir"
  BY DEF Image
<1> QED
  BY <1>2, <1>3, <1>4, <1>5, <1>6, <1>7, <1>8 DEF Image

LEMMA SameCounts ==
    ASSUME Counted, UNCHANGED <<blockBits, inodeBits, freeBlocks, freeInodes, usedDirs, inode>>
    PROVE  Counted'
<1>1. ClearBlocks' = ClearBlocks /\ ClearInodes' = ClearInodes
  BY DEF ClearBlocks, ClearInodes
<1>2. {i \in inodeBits' : inode'[i].mode = "dir"} = {i \in inodeBits : inode[i].mode = "dir"}
  OBVIOUS
<1> QED
  BY <1>1, <1>2, Zenon DEF Counted

LEMMA QuietOwn ==
    ASSUME TypeOK, damage \subseteq damage', Ownership, tool'.pc \in {"idle", "hung"}, UNCHANGED <<disk, damage>>
    PROVE  Ownership'
<1>1. UNCHANGED <<blockBits, inodeBits, freeBlocks, freeInodes, usedDirs, inode, content>>
  BY DEF disk
<1>2. Pending' = {} /\ ~ Unfinished' /\ ~ HoldsInode'
  BY DEF Pending, Unfinished, HoldsInode
<1>3. Image'
  BY <1>1, <1>2, SameImageOwn DEF Ownership
<1>4. Counted'
  BY <1>1, SameCounts DEF Ownership
<1>5. NewSound' /\ PointersApart' /\ ParentSound'
  BY <1>2 DEF NewSound, PointersApart, ParentSound
<1> QED
  BY <1>3, <1>4, <1>5 DEF Ownership

-----------------------------------------------------------------------------
(* Tools that begin. *)

LEMMA RoomOwned ==
    ASSUME TypeOK, NEW d \in Inodes, NEW free
    PROVE  LET room == checkParentDirEntListSpaceExists(d, free) IN
           /\ room.grow => inode[d].blocks < Direct
           /\ ~ room.grow /\ room.block # 0 => room.block \in Owned(d)
<1> DEFINE S == RoomIndexes(d)
           room == checkParentDirEntListSpaceExists(d, free)
<1>1. CASE S # {}
  <2>1. S \in SUBSET Nat
    BY Sizes DEF RoomIndexes
  <2>2. Min(S) \in S
    BY <1>1, <2>1, MinOfSet
  <2>3. room.block = inode[d].block[Min(S)] /\ room.grow = FALSE
    BY <1>1 DEF checkParentDirEntListSpaceExists, RoomBlock
  <2>4. Min(S) \in 0 .. Direct - 1 /\ Min(S) < inode[d].blocks
    BY <2>2 DEF RoomIndexes
  <2> HIDE DEF room, S
  <2>5. room.block \in Owned(d)
    BY <2>3, <2>4 DEF Owned
  <2> QED
    BY <2>3, <2>5 DEF room
<1>2. CASE S = {}
  <2>1. /\ room.block = 0
        /\ room.grow = (inode[d].blocks < Direct /\ Cardinality(ClearBlocks) >= free)
    BY <1>2 DEF checkParentDirEntListSpaceExists
  <2> HIDE DEF room
  <2> QED
    BY <2>1 DEF room
<1> QED
  BY <1>1, <1>2

LEMMA StartInOwn ==
    ASSUME TypeOK, damage \subseteq damage', Ownership, NEW cmd, NEW pc, NEW d \in Dirs, NEW n, NEW ino, NEW bytes,
           NEW free,
           \/ pc = "inode" /\ cmd \in {"mkdir", "cp", "ln -s"}
           \/ pc = "entry" /\ cmd = "ln" /\ ino \in Linked,
           StartIn(cmd, pc, d, n, ino, bytes, free)
    PROVE  Ownership'
<1> DEFINE room == checkParentDirEntListSpaceExists(d, free)
<1>1. /\ tool'.cmd = cmd /\ tool'.pc = pc /\ tool'.parent = d /\ tool'.grow = room.grow
      /\ tool'.block = room.block /\ tool'.ino = ino /\ tool'.taken = 0
      /\ UNCHANGED <<disk, damage>>
  BY DEF StartIn
<1>2. UNCHANGED <<blockBits, inodeBits, freeBlocks, freeInodes, usedDirs, inode, content>>
  BY <1>1 DEF disk
<1>3. d \in Inodes
  BY DirTyped
<1>4. /\ room.grow => inode[d].blocks < Direct
      /\ ~ room.grow /\ room.block # 0 => room.block \in Owned(d)
  BY <1>3, RoomOwned
<1> HIDE DEF room
<1>5. ~ Unfinished' /\ ~ HoldsInode'
  BY <1>1 DEF Unfinished, HoldsInode
<1>6. Pending' \subseteq Owners
  BY <1>1 DEF Pending, Owners
<1>7. Image'
  BY <1>2, <1>5, <1>6, SameImageOwn DEF Ownership
<1>8. Counted'
  BY <1>2, SameCounts DEF Ownership
<1>9. NewSound' /\ PointersApart'
  BY <1>1, <1>5 DEF NewSound, PointersApart
<1>10. ParentSound'
  <2>1. Dirs' = Dirs /\ Owned(d)' = Owned(d) /\ inode' = inode
    BY <1>2, SameOwners
  <2> QED
    BY <1>1, <1>4, <2>1 DEF ParentSound
<1> QED
  BY <1>1, <1>7, <1>8, <1>9, <1>10 DEF Ownership

\* The parent directory of a tool that gets as far as writing is sound.
LEMMA ParentIsDir ==
    ASSUME TypeOK, Image, NEW d \in Inodes, d \in Reached, ~ RoomSpins(d)
    PROVE  d \in Dirs
  BY DirsOrZeroed, ZeroedHit

LEMMA makedirOwn ==
    ASSUME TypeOK, damage \subseteq damage', Ownership, NEW q \in Requests, makedir(q) PROVE Ownership'
<1> DEFINE d == Walk(q.dirs)
           e == Hit(d, "whole", q.name)
           exists == d >= 0 /\ Matches("whole", q.name, e)
           spins == d = Endless \/ (d >= 0 /\ ~ exists /\ (e.rec = 0 \/ RoomSpins(d)))
<1>1. CASE StartAnd("mkdir", "hung", exit) \/ StartAnd("mkdir", "idle", "failed")
  BY <1>1, QuietEnds, QuietOwn
<1>2. CASE /\ d \in Inodes /\ ~ exists /\ ~ spins
           /\ StartIn("mkdir", "inode", d, q.name, 0, 0, 2)
  <2>1. d >= 0
    <3>1. \A x \in Inodes : x >= 0
      BY Sizes
    <3> QED
      BY <1>2, <3>1, Zenon
  <2>2. ~ RoomSpins(d)
    BY <1>2, <2>1
  <2>3. d \in Reached
    BY WalkReached DEF Ownership
  <2> HIDE DEF d
  <2>4. d \in Dirs
    BY <1>2, <2>2, <2>3, ParentIsDir DEF Ownership
  <2> QED
    BY <1>2, <2>4, StartInOwn
<1> QED
  BY <1>1, <1>2, Zenon DEF makedir

LEMMA copyOwn ==
    ASSUME TypeOK, damage \subseteq damage', Ownership, NEW q \in Requests, NEW local, copy(q, local) PROVE Ownership'
<1> DEFINE d == Walk(q.dirs)
           e == Hit(d, "exact", q.name)
           finds == d >= 0 /\ Matches("exact", q.name, e)
           spins == d >= 0 /\ ~ finds /\ (e.rec = 0 \/ RoomSpins(d))
<1>1. CASE \/ StartAnd("cp", "hung", exit) \/ StartAnd("cp", "idle", "failed")
           \/ StartInDirectory(d, q.name)
  BY <1>1, QuietEnds, QuietOwn
<1>2. ASSUME d \in Inodes, ~ finds, ~ spins, NEW bytes,
             StartIn("cp", "inode", d, q.name, 0, bytes, BlockCalc(bytes) + 1)
      PROVE  Ownership'
  <2>1. d >= 0
    <3>1. \A x \in Inodes : x >= 0
      BY Sizes
    <3> QED
      BY <1>2, <3>1, Zenon
  <2>2. ~ RoomSpins(d)
    BY <1>2, <2>1
  <2>3. d \in Reached
    BY WalkReached DEF Ownership
  <2> HIDE DEF d
  <2>4. d \in Dirs
    BY <1>2, <2>2, <2>3, ParentIsDir DEF Ownership
  <2> QED
    BY <1>2, <2>4, StartInOwn
<1> QED
  BY <1>1, <1>2, Zenon DEF copy

LEMMA sourceLinked ==
    ASSUME TypeOK, Image, NEW q \in Requests, goodPathExists(q) \in Inodes,
           Hit(goodPathExists(q), "entry", q.name).inode >= 0
    PROVE  Hit(goodPathExists(q), "entry", q.name).inode \in Linked
<1> DEFINE d == goodPathExists(q)
<1>1. Walk(q.dirs) \in Reached
  BY WalkReached
<1>2. d \in {Walk(q.dirs), Endless, NoPath}
  BY DEF goodPathExists
<1>3. d \in Reached /\ d \in Inodes
  BY <1>1, <1>2 DEF Reached
<1> HIDE DEF d
<1>4. d \in Dirs
  <2>1. CASE Zeroed(d) /\ d \in Owners
    <3>1. Hit(d, "entry", q.name) = Zero
      BY <2>1, ZeroedHit
    <3>2. Zero.inode = -1
      BY DEF Zero, NewEntry
    <3> QED
      BY <3>1, <3>2 DEF d
  <2> QED
    BY <1>3, <2>1, DirsOrZeroed
<1>5. Hit(d, "entry", q.name).inode # -1
  BY DEF d
<1> QED
  BY <1>4, <1>5, HitLinked DEF d

LEMMA lnkOwn ==
    ASSUME TypeOK, damage \subseteq damage', Ownership, NEW q1 \in Requests, NEW q2 \in Requests, lnk(q1, q2)
    PROVE  Ownership'
<1> DEFINE d1 == goodPathExists(q1)
           d2 == goodPathExists(q2)
           source == Hit(d1, "entry", q1.name).inode
<1>1. CASE StartAnd("ln", "hung", exit) \/ StartAnd("ln", "idle", "failed")
  BY <1>1, QuietEnds, QuietOwn
<1>2. CASE /\ {d1, d2} \subseteq Inodes /\ source >= 0 /\ ~ RoomSpins(d2)
           /\ \/ StartIn("ln", "entry", d2, q2.name, source, 0, 2)
              \/ \E bytes \in PathSizes :
                   StartIn("ln -s", "inode", d2, q2.name, 0, bytes, 2)
  <2>1. source \in Linked
    BY <1>2, sourceLinked DEF Ownership
  <2>2. Walk(q2.dirs) \in Reached
    BY WalkReached DEF Ownership
  <2>3. d2 \in Reached
    BY <2>2 DEF goodPathExists, Reached
  <2>4. d2 \in Inodes /\ ~ RoomSpins(d2)
    BY <1>2
  <2> HIDE DEF d2, source
  <2>5. d2 \in Dirs
    BY <2>3, <2>4, ParentIsDir DEF Ownership
  <2>6. CASE StartIn("ln", "entry", d2, q2.name, source, 0, 2)
    BY <2>1, <2>5, <2>6, StartInOwn
  <2>7. ASSUME NEW bytes, StartIn("ln -s", "inode", d2, q2.name, 0, bytes, 2)
        PROVE  Ownership'
    BY <2>5, <2>7, StartInOwn
  <2> QED
    BY <1>2, <2>6, <2>7
<1> QED
  BY <1>1, <1>2, Zenon DEF lnk

-----------------------------------------------------------------------------
(* Counting. *)

LEMMA FiniteDisk ==
    /\ IsFiniteSet(Blocks) /\ IsFiniteSet(Inodes)
    /\ \A S : S \subseteq Inodes => IsFiniteSet(S)
    /\ IsFiniteSet(ClearBlocks) /\ IsFiniteSet(ClearInodes)
<1>1. NumBlocks - 1 \in Int /\ NumInodes - 1 \in Int
  BY Sizes
<1>2. IsFiniteSet(Blocks) /\ IsFiniteSet(Inodes)
  BY <1>1, FS_Interval DEF Blocks, Inodes
<1>3. ClearBlocks \in SUBSET Blocks /\ ClearInodes \in SUBSET Inodes
  BY DEF ClearBlocks, ClearInodes
<1> QED
  BY <1>2, <1>3, FS_Subset

LEMMA OneLess ==
    ASSUME NEW S, NEW T, NEW x \in S, IsFiniteSet(S), T = S \ {x}
    PROVE  Cardinality(T) = Cardinality(S) - 1
  BY FS_RemoveElement

LEMMA OneMore ==
    ASSUME NEW S, NEW T, NEW x, x \notin S, IsFiniteSet(S), T = S \cup {x}
    PROVE  Cardinality(T) = Cardinality(S) + 1
  BY FS_AddElement

\* The block that is handed out, when its number is one of the first word.
LEMMA BlockTaken ==
    ASSUME TypeOK, Kept, NEW b, b = FirstEmpty(ClearBlocks), TakesBlock(b),
           b \in 0 .. WordBits - 1
    PROVE  /\ b \in Blocks /\ b \notin blockBits /\ b \notin 0 .. MetaBlocks
           /\ blockBits' = blockBits \cup {b} /\ freeBlocks' = freeBlocks - 1
           /\ Cardinality(ClearBlocks') = Cardinality(ClearBlocks) - 1
<1>1. b # -2
  BY Sizes
<1>2. ClearBlocks \in SUBSET Nat
  BY Sizes DEF ClearBlocks
<1>3. b \in ClearBlocks
  BY <1>1, <1>2, FirstEmptyClear
<1>4. b \in Blocks /\ b \notin blockBits
  BY <1>3 DEF ClearBlocks
<1>5. b \notin 0 .. MetaBlocks
  <2>1. b \notin Reserved
    BY <1>4, FreshBlock DEF Kept
  <2> QED
    BY <2>1, Sizes DEF Reserved
<1>6. Bit(b) = b
  BY Sizes DEF Bit
<1>7. blockBits' = blockBits \cup {b} /\ freeBlocks' = freeBlocks - 1
  BY <1>6 DEF TakesBlock
<1>8. ClearBlocks' = ClearBlocks \ {b}
  BY <1>7 DEF ClearBlocks
<1>9. Cardinality(ClearBlocks') = Cardinality(ClearBlocks) - 1
  BY <1>3, <1>8, FiniteDisk, OneLess
<1> QED
  BY <1>4, <1>5, <1>7, <1>9

LEMMA SameDirCount ==
    ASSUME UNCHANGED inodeBits, \A i \in inodeBits : inode'[i].mode = inode[i].mode
    PROVE  {i \in inodeBits' : inode'[i].mode = "dir"} = {i \in inodeBits : inode[i].mode = "dir"}
  OBVIOUS

LEMMA BlockCounted ==
    ASSUME TypeOK, Kept, Counted, NEW b, b = FirstEmpty(ClearBlocks), TakesBlock(b),
           b \in 0 .. WordBits - 1,
           UNCHANGED <<inodeBits, freeInodes, usedDirs>>,
           \A i \in Inodes : inode'[i].mode = inode[i].mode
    PROVE  Counted'
<1>1. freeBlocks' = Cardinality(ClearBlocks')
  BY BlockTaken DEF Counted
<1>2. ClearInodes' = ClearInodes
  BY DEF ClearInodes
<1>3. \A i \in inodeBits : inode'[i].mode = inode[i].mode
  BY DEF TypeOK
<1>4. {i \in inodeBits' : inode'[i].mode = "dir"} = {i \in inodeBits : inode[i].mode = "dir"}
  BY <1>3, SameDirCount
<1> QED
  BY <1>1, <1>2, <1>4, Zenon DEF Counted

-----------------------------------------------------------------------------
(* A tool takes an inode. *)

LEMMA OwnedBlocks ==
    ASSUME TypeOK, Image, NEW j \in Owners
    PROVE  Own(j) \subseteq blockBits /\ Own(j) \subseteq Blocks /\ Own(j) \cap 0 .. MetaBlocks = {}
  BY DEF Image, OwnerSound, TypeOK

LEMMA SameStart ==
    ASSUME NEW c, content'[c] = content[c] PROVE KeepsStart(c) /\ KeepsDots(c)
  BY DEF KeepsStart, KeepsDots

LEMMA TakesInodeOwn ==
    ASSUME TypeOK, damage \subseteq damage', Kept, Ownership, tool.pc = "inode",
           NEW mode \in {"reg", "dir", "lnk"}, mode = ModeOf(tool.cmd),
           NEW links, NEW blocks, blocks = IF tool.cmd = "cp" THEN BlockCalc(tool.bytes) ELSE 1,
           ClearInodes # {}, TakesInode(mode, links, blocks),
           usedDirs' = IF mode = "dir" THEN usedDirs + 1 ELSE usedDirs
    PROVE  Ownership'
<1> DEFINE x == FirstEmpty(ClearInodes)
           r == [mode |-> mode, links |-> links, blocks |-> blocks, block |-> inode[x].block]
<1>1. x \in Inodes /\ x \notin inodeBits /\ x \notin 0 .. Lost
  <2>1. ClearInodes \in SUBSET Nat
    BY Sizes DEF ClearInodes
  <2>2. x \in ClearInodes
    BY <2>1, FirstEmptyClear
  <2> QED
    BY <2>2, FreshInode DEF Kept, ClearInodes
<1>2. /\ inodeBits' = inodeBits \cup {x} /\ freeInodes' = freeInodes - 1
      /\ inode' = [inode EXCEPT ![x] = r]
      /\ tool' = [tool EXCEPT !.ino = x, !.pc = "blocks"]
      /\ UNCHANGED <<blockBits, freeBlocks, content, damage>>
  BY DEF TakesInode
<1> HIDE DEF x
<1>3. inode'[x] = r /\ \A i : i \in Inodes /\ i # x => inode'[i] = inode[i]
  BY <1>1, <1>2 DEF TypeOK
<1>4. /\ tool'.ino = x /\ tool'.pc = "blocks" /\ tool'.cmd = tool.cmd
      /\ tool'.bytes = tool.bytes /\ tool'.parent = tool.parent
      /\ tool'.grow = tool.grow /\ tool'.block = tool.block /\ tool'.taken = tool.taken
  BY <1>2 DEF TypeOK, Tool
<1> HIDE DEF r
<1>5. x \notin Owners
  BY <1>1 DEF Ownership, Image, OwnerSound
<1>6. \A i \in Owners : i \in Inodes /\ i # x
  BY <1>5, OwnerTyped
<1>7. \A c : KeepsStart(c) /\ KeepsDots(c)
  BY <1>2, SameStart
<1>8. Dirs' = Dirs
  <2>1. ASSUME NEW d \in Dirs' PROVE d \in Dirs
    <3>1. d # x
      <4>1. SUFFICES ASSUME d = x PROVE FALSE
        OBVIOUS
      <4> DEFINE c == inode[x].block[0]
      <4>2. inode'[x].block = inode[x].block
        BY <1>3 DEF r
      <4>3. content[c][1].name = "." /\ content[c][1].inode = x
        BY <1>2, <4>1, <4>2 DEF Dirs
      <4>4. c \in Blocks
        BY <1>1, BlockOfInode, Sizes
      <4> HIDE DEF c
      <4>5. x \in inodeBits
        BY <4>3, <4>4 DEF Ownership, Image, DotsOwned
      <4> QED
        BY <1>1, <4>5
    <3>2. d \in inodeBits /\ d \in Inodes
      BY <1>2, <3>1 DEF Dirs, TypeOK
    <3>3. inode'[d] = inode[d]
      BY <1>3, <3>1, <3>2
    <3> QED
      BY <1>7, <3>2, <3>3, DirKept
  <2>2. ASSUME NEW d \in Dirs PROVE d \in Dirs'
    <3>1. d \in Inodes /\ d # x
      BY <1>6 DEF Owners
    <3>2. inode'[d] = inode[d]
      BY <1>3, <3>1
    <3> QED
      BY <1>2, <3>2 DEF Dirs
  <2> QED
    BY <2>1, <2>2
<1>9. \A i \in Owners : SameOwn(i) /\ Owned(i)' = Owned(i)
  BY <1>3, <1>6, OwnSame DEF SameOwn
<1>10. DirBlocks' = DirBlocks
  BY <1>8, <1>9 DEF DirBlocks, Owners
<1>11. Linked' \subseteq Linked /\ Agreed'
  <2>1. Agreed
    BY DEF Ownership, Image
  <2>2. \A i \in Linked : inode'[i].mode = inode[i].mode
    BY <1>9 DEF Owners, SameOwn
  <2>3. Linked' \subseteq Linked \cup {} /\ Agreed'
    BY <1>2, <1>10, <2>1, <2>2, NamesStep
  <2> QED
    BY <2>3
<1>12. Pending' = {}
  BY <1>4 DEF Pending
<1>13. Owners' \subseteq Owners
  BY <1>8, <1>11, <1>12 DEF Owners
<1>14. (\A i \in Owners' : OwnerSound(i)') /\ Apart'
  <2>1. \A j \in Owners : -1 \notin Own(j)
    BY OwnedBlocks, Sizes DEF Ownership
  <2>2. x \notin Owners'
    BY <1>5, <1>13
  <2>3. \A i \in Owners' \ {x} :
          /\ i \in Owners /\ SameOwn(i)
          /\ i \in inodeBits' /\ Own(i) \subseteq blockBits'
          /\ inode[i].mode = "dir" => KeepsStart(inode[i].block[0])
    BY <1>2, <1>7, <1>9, <1>13 DEF Ownership, Image, OwnerSound
  <2> QED
    BY <2>1, <2>2, <2>3, OwnersStep DEF Ownership
<1>15. DotsOwned'
  <2>1. \A i \in inodeBits :
          inode[i].mode = "dir" /\ (i = tool.ino => ~ Unfinished) =>
            /\ i \in inodeBits' /\ inode'[i].mode = "dir"
            /\ inode'[i].block[0] = inode[i].block[0]
            /\ i = tool'.ino => ~ Unfinished'
    BY <1>1, <1>2, <1>3, <1>4 DEF TypeOK
  <2>2. DotsOwned
    BY DEF Ownership, Image
  <2>3. \A c \in Blocks : content'[c][1].name = "." =>
          LET i == content'[c][1].inode IN
          /\ i \in inodeBits' /\ inode'[i].mode = "dir" /\ inode'[i].block[0] = c
          /\ i = tool'.ino => tool'.pc \notin {"blocks", "take", "text"}
    BY <1>7, <2>1, <2>2, DotKept
  <2> QED
    BY <2>3 DEF DotsOwned
<1>16. FreeClean'
  BY <1>2, <1>3 DEF Ownership, Image, FreeClean, Later
<1>17. Image'
  <2>1. inode'[Root].mode = "dir"
    BY <1>3, <1>6 DEF Ownership, Image, Owners
  <2> QED
    BY <1>11, <1>14, <1>15, <1>16, <2>1 DEF Image
<1>18. Counted'
  <2>1. ClearBlocks' = ClearBlocks
    BY <1>2 DEF ClearBlocks
  <2>2. ClearInodes' = ClearInodes \ {x} /\ x \in ClearInodes
    BY <1>1, <1>2 DEF ClearInodes
  <2>3. Cardinality(ClearInodes') = Cardinality(ClearInodes) - 1
    BY <2>2, FiniteDisk, OneLess
  <2> DEFINE D == {i \in inodeBits : inode[i].mode = "dir"}
             E == {i \in inodeBits' : inode'[i].mode = "dir"}
  <2>4. E = IF mode = "dir" THEN D \cup {x} ELSE D
    BY <1>1, <1>2, <1>3 DEF r, TypeOK
  <2>5. x \notin D /\ IsFiniteSet(D)
    BY <1>1, FiniteDisk DEF TypeOK
  <2>6. usedDirs = Cardinality(D) /\ freeInodes = Cardinality(ClearInodes)
        /\ freeBlocks = Cardinality(ClearBlocks)
    BY Zenon DEF Ownership, Counted
  <2> HIDE DEF D, E
  <2>7. usedDirs' = Cardinality(E)
    BY <2>4, <2>5, <2>6, OneMore
  <2> QED
    BY <1>2, <2>1, <2>3, <2>6, <2>7 DEF Counted, E
<1>19. NewSound'
  <2>1. tool.cmd \in {"mkdir", "cp", "ln -s"} /\ tool.taken = 0
    BY DEF Ownership, NewSound
  <2>2. /\ inode'[x].mode = mode /\ inode'[x].blocks = blocks
        /\ Later(inode'[x])
    BY <1>1, <1>3 DEF r, Ownership, Image, FreeClean, Later
  <2>3. x \notin Linked' \cup Dirs' /\ x \in inodeBits'
    BY <1>2, <1>5, <1>8, <1>11 DEF Owners
  <2>4. ModeOf(tool.cmd)' = ModeOf(tool.cmd)
    BY <1>4 DEF ModeOf
  <2>5. Later(inode[tool.ino])'
    BY <1>4, <2>2 DEF Later
  <2> QED
    BY <1>4, <2>1, <2>2, <2>3, <2>4, <2>5 DEF NewSound
<1>20. PointersApart'
  BY <1>4 DEF PointersApart
<1>21. ParentSound'
  <2>1. /\ tool.parent \in Dirs
        /\ tool.grow => inode[tool.parent].blocks < Direct
        /\ ~ tool.grow /\ tool.block # 0 => tool.block \in Owned(tool.parent)
    BY DEF Ownership, ParentSound
  <2>2. PICK d : d = tool.parent
    OBVIOUS
  <2>3. SameOwn(d) /\ Owned(d)' = Owned(d) /\ d \in Dirs'
    BY <1>8, <1>9, <2>1, <2>2 DEF Owners
  <2> QED
    BY <1>4, <2>1, <2>2, <2>3 DEF ParentSound, SameOwn
<1> QED
  BY <1>2, <1>17, <1>18, <1>19, <1>20, <1>21 DEF Ownership

-----------------------------------------------------------------------------
(* Steps that change the image. *)

\* x: the inode whose blocks change; B: the blocks that it gets.
LEMMA DirsStep ==
    ASSUME TypeOK, NEW x, NEW B, inodeBits' \subseteq inodeBits,
           \A i \in Inodes : inode'[i].mode = inode[i].mode /\ (i # x => SameOwn(i)),
           \A c \in Blocks : KeepsDots(c) \/ content'[c][1].inode = x,
           x \in Dirs' => \A c \in Owned(x)' : c \in B \/ (x \in Dirs /\ c \in Owned(x))
    PROVE  Dirs' \subseteq Dirs \cup {x} /\ DirBlocks' \subseteq DirBlocks \cup B
<1>1. ASSUME NEW d \in Dirs', d # x PROVE d \in Dirs /\ Owned(d)' = Owned(d)
  <2>1. d \in inodeBits /\ d \in Inodes
    BY DEF Dirs, TypeOK
  <2>2. SameOwn(d)
    BY <1>1, <2>1
  <2> DEFINE c == inode[d].block[0]
  <2>3. c \in Blocks
    BY <2>1, BlockOfInode, Sizes
  <2>4. inode'[d].block[0] = c
    BY <2>2 DEF SameOwn
  <2>5. content'[c][1].inode = d
    BY <2>4 DEF Dirs
  <2>6. KeepsDots(c)
    BY <1>1, <2>3, <2>5
  <2>7. d \in Dirs
    BY <2>1, <2>2, <2>4, <2>6, DirKept DEF SameOwn
  <2> QED
    BY <2>2, <2>7, OwnSame
<1>2. ASSUME NEW d \in Dirs' PROVE Owned(d)' \subseteq DirBlocks \cup B
  <2>1. \A e \in Dirs : Owned(e) \subseteq DirBlocks
    BY DEF DirBlocks
  <2>2. CASE d = x
    <3>1. \A c \in Owned(x)' : c \in B \/ (x \in Dirs /\ c \in Owned(x))
      BY <2>2
    <3> QED
      BY <2>1, <2>2, <3>1
  <2>3. CASE d # x
    BY <1>1, <2>1, <2>3
  <2> QED
    BY <2>2, <2>3
<1>3. ASSUME NEW c \in DirBlocks' PROVE c \in DirBlocks \cup B
  <2>1. PICK d \in Dirs' : c \in Owned(d)'
    BY DEF DirBlocks
  <2> QED
    BY <1>2, <2>1
<1> QED
  BY <1>1, <1>3

LEMMA DirBlocksTyped == ASSUME TypeOK PROVE DirBlocks \subseteq Blocks
<1> SUFFICES ASSUME NEW d \in Dirs, NEW c \in Owned(d) PROVE c \in Blocks
  BY DEF DirBlocks
<1>1. PICK k \in 0 .. Direct - 1 : c = inode[d].block[k]
  BY DEF Owned
<1>2. k \in 0 .. Direct
  BY Sizes
<1> QED
  BY <1>1, <1>2, DirTyped

LEMMA ImageStep ==
    ASSUME TypeOK, damage \subseteq damage', Image, NEW x, NEW b,
           \A j \in Owners : b \notin Own(j),
           Owners' \subseteq Owners \cup {x},
           x \in Owners' => /\ OwnerSound(x)'
                            /\ \A c \in Own(x)' : c = b \/ (x \in Owners /\ c \in Own(x)),
           \A i \in Owners \ {x} :
             /\ SameOwn(i) /\ i \in inodeBits' /\ Own(i) \subseteq blockBits'
             /\ inode[i].mode = "dir" => KeepsStart(inode[i].block[0]),
           \A c \in Blocks :
             \/ KeepsDots(c)
             \/ /\ content'[c][1].inode = x /\ x \in inodeBits'
                /\ inode'[x].mode = "dir" /\ inode'[x].block[0] = c
                /\ x = tool'.ino => ~ Unfinished',
           \A i \in inodeBits :
             inode[i].mode = "dir" /\ (i = tool.ino => ~ Unfinished) =>
               /\ i \in inodeBits' /\ inode'[i].mode = "dir"
               /\ inode'[i].block[0] = inode[i].block[0]
               /\ i = tool'.ino => ~ Unfinished',
           inode'[Root].mode = "dir", Agreed', FreeClean'
    PROVE  Image'
<1>1. (\A i \in Owners' : OwnerSound(i)') /\ Apart'
  <2>1. \A i \in Owners' \ {x} :
          /\ i \in Owners /\ SameOwn(i)
          /\ i \in inodeBits' /\ Own(i) \subseteq blockBits'
          /\ inode[i].mode = "dir" => KeepsStart(inode[i].block[0])
    OBVIOUS
  <2> QED
    BY <2>1, OwnersStep
<1>2. DotsOwned'
  <2>1. ASSUME NEW c \in Blocks, content'[c][1].name = "."
        PROVE  LET i == content'[c][1].inode IN
               /\ i \in inodeBits' /\ inode'[i].mode = "dir" /\ inode'[i].block[0] = c
               /\ i = tool'.ino => tool'.pc \notin {"blocks", "take", "text"}
    <3>1. CASE KeepsDots(c)
      BY <2>1, <3>1, DotKept DEF Image
    <3>2. CASE ~ KeepsDots(c)
      BY <3>2 DEF Unfinished
    <3> QED
      BY <3>1, <3>2
  <2> QED
    BY <2>1 DEF DotsOwned
<1> QED
  BY <1>1, <1>2 DEF Image

LEMMA FreshOwner ==
    ASSUME NEW x, NEW b, x \in inodeBits', inode'[x].mode \in {"reg", "dir", "lnk"},
           inode'[x].blocks = 1, inode'[x].block[0] = b,
           b \in blockBits', b \notin 0 .. MetaBlocks, x \notin 0 .. Lost,
           inode'[x].mode = "dir" => x \in Dirs',
           inode'[x].mode # "dir" => Later(inode'[x])
    PROVE  OwnerSound(x)' /\ Owned(x)' = {b} /\ Own(x)' = {b}
<1>1. {k \in 0 .. Direct - 1 : k < 1} = {0}
  BY Sizes
<1>2. Owned(x)' = {b}
  BY <1>1 DEF Owned
<1>3. x # Lost
  BY DEF Lost
<1>4. Own(x)' = {b}
  BY <1>2, <1>3 DEF Own
<1>5. Later(inode[x])' <=> Later(inode'[x])
  BY DEF Later
<1> QED
  BY <1>2, <1>4, <1>5 DEF OwnerSound, OneBlock

LEMMA NoOverrun ==
    ASSUME NEW blocks, Intact', Overrun(blocks) \subseteq damage'
    PROVE  blocks \subseteq 0 .. WordBits - 1
  BY DEF Intact, Without, Overrun

LEMMA NoJunk ==
    ASSUME NEW S
    PROVE  /\ "junk" \notin Overrun(S) /\ "junk" \notin Spilled(S)
           /\ "junk" \notin Reused(S) /\ "junk" \notin Twin
  BY DEF Overrun, Spilled, Reused, Twin

LEMMA DirStill ==
    ASSUME NEW d \in Dirs, SameOwn(d), d \in inodeBits',
           LET c == inode[d].block[0] IN content'[c] = content[c]
    PROVE  d \in Dirs'
  BY DEF Dirs, SameOwn

LEMMA ParentKept ==
    ASSUME ParentSound, tool.pc \notin {"idle", "hung"}, tool'.parent = tool.parent,
           tool'.grow = tool.grow, tool'.block = tool.block,
           NEW p, p = tool.parent, SameOwn(p), p \in Dirs'
    PROVE  ParentSound'
<1>1. Owned(p)' = Owned(p)
  BY OwnSame
<1> QED
  BY <1>1 DEF ParentSound, SameOwn

\* The inode that a tool is about to finish, and the others.
LEMMA UnfinishedAlone ==
    ASSUME TypeOK, Kept, Ownership, Unfinished, ~ (tool.pc = "text" /\ tool.bytes = 0)
    PROVE  /\ tool.ino \in Inodes /\ tool.ino \in inodeBits /\ tool.ino \notin 0 .. Lost
           /\ tool.ino \notin Owners /\ Pending = {}
           /\ inode[tool.ino].mode = ModeOf(tool.cmd)
<1>1. HoldsInode
  BY DEF Unfinished, HoldsInode
<1>2. Pending = {}
  BY DEF Unfinished, Pending
<1>3. tool.ino \notin 0 .. Lost /\ tool.ino \in Inodes
  BY <1>1, ToolFields DEF Kept, SafeTool
<1>4. /\ tool.ino \in inodeBits /\ tool.ino \notin Linked \cup Dirs
      /\ inode[tool.ino].mode = ModeOf(tool.cmd)
  BY <1>1 DEF Ownership, NewSound
<1> QED
  BY <1>2, <1>3, <1>4 DEF Owners, Root, Lost

LEMMA DirsOwn ==
    ASSUME TypeOK, Ownership, NEW d \in Dirs
    PROVE  /\ d \in Owners /\ d \in Inodes /\ d \in inodeBits /\ inode[d].mode = "dir"
           /\ inode[d].block[0] \in Own(d) /\ inode[d].block[0] \in Blocks
<1>1. d \in Owners
  BY DEF Owners
<1> QED
  BY <1>1, OwnerTyped, OwnerFirst DEF Ownership, Dirs

\* Other bytes are written into blocks W that no owner has.
LEMMA TextImage ==
    ASSUME TypeOK, damage \subseteq damage', Kept, Ownership,
           NEW x, x = tool.ino, Unfinished, ~ (tool.pc = "text" /\ tool.bytes = 0),
           inode[x].mode # "dir", inode'[x].mode = inode[x].mode,
           \A i \in Inodes : i # x => inode'[i] = inode[i],
           NEW W, \A j \in Owners : W \cap Own(j) = {},
           \A c \in Blocks : content'[c] = IF c \in W THEN <<Text>> ELSE content[c],
           UNCHANGED inodeBits, blockBits \subseteq blockBits', tool'.ino = x,
           Pending' \subseteq {x},
           NEW b, b \notin blockBits,
           x \in Pending' => OwnerSound(x)' /\ Own(x)' = {b}
    PROVE  /\ Image' /\ Dirs' = Dirs /\ Linked' \subseteq Linked
           /\ Owners' \subseteq Owners \cup Pending'
           /\ \A i \in Owners : SameOwn(i) /\ Own(i)' = Own(i)
<1>1. /\ x \in Inodes /\ x \in inodeBits /\ x \notin 0 .. Lost /\ x \notin Owners
      /\ Pending = {}
  BY UnfinishedAlone
<1>2. Text.name = "?"
  BY DEF Text, NewEntry
<1>3. \A c \in Blocks : KeepsDots(c) /\ (c \notin W => content'[c] = content[c])
  BY <1>2 DEF KeepsDots
<1>4. \A i \in Inodes : inode'[i].mode = inode[i].mode /\ (i # x => SameOwn(i))
  BY <1>1 DEF SameOwn
<1>5. x \notin Dirs' /\ x \notin Dirs
  BY <1>1 DEF Dirs
<1>6. Dirs' \subseteq Dirs /\ DirBlocks' \subseteq DirBlocks
  <2>1. PICK B : B = {}
    OBVIOUS
  <2>2. Dirs' \subseteq Dirs \cup {x} /\ DirBlocks' \subseteq DirBlocks \cup B
    BY <1>3, <1>4, <1>5, DirsStep
  <2> QED
    BY <1>5, <2>1, <2>2
<1>7. \A i \in Owners : i # x /\ SameOwn(i) /\ Own(i)' = Own(i) /\ i \in Inodes
  BY <1>1, <1>4, OwnerTyped, OwnSame
<1>8. \A i \in Owners :
        LET c == inode[i].block[0] IN c \in Blocks /\ c \notin W /\ content'[c] = content[c]
  BY <1>3, OwnerTyped, OwnerFirst DEF Ownership
<1>9. Dirs' = Dirs
  BY <1>6, <1>7, <1>8, DirStill, DirsOwn, ZenonT(120)
<1>10. Linked' \subseteq Linked /\ Agreed'
  <2>1. ASSUME NEW c \in DirBlocks', NEW i \in Inodes, NEW t \in Types,
               Lists(content'[c], i, t)
        PROVE  c \in DirBlocks /\ Lists(content[c], i, t)
    <3>1. c \in Blocks /\ c \in DirBlocks
      BY <1>6, DirBlocksTyped
    <3>2. CASE c \in W
      <4>1. content'[c] = <<Text>>
        BY <3>1, <3>2
      <4> QED
        BY <2>1, <4>1, ListsNone
    <3> QED
      BY <1>3, <2>1, <3>1, <3>2
  <2>2. Agreed /\ \A i \in Linked : inode'[i].mode = inode[i].mode
    BY <1>4 DEF Ownership, Image, Linked
  <2>3. PICK X : X = {}
    OBVIOUS
  <2>4. Linked' \subseteq Linked \cup X /\ Agreed'
    BY <2>1, <2>2, NamesStep
  <2> QED
    BY <2>3, <2>4
<1>11. Owners' \subseteq Owners \cup Pending'
  BY <1>9, <1>10 DEF Owners
<1>12. Image'
  <2>1. \A j \in Owners : b \notin Own(j)
    BY OwnedBlocks DEF Ownership
  <2>2. Owners' \subseteq Owners \cup {x}
    BY <1>11
  <2>3. x \in Owners' => /\ OwnerSound(x)'
                         /\ \A c \in Own(x)' : c = b \/ (x \in Owners /\ c \in Own(x))
    BY <1>1, <1>11
  <2>4. \A i \in Owners \ {x} :
          /\ SameOwn(i) /\ i \in inodeBits' /\ Own(i) \subseteq blockBits'
          /\ inode[i].mode = "dir" => KeepsStart(inode[i].block[0])
    BY <1>7, <1>8, SameStart DEF Ownership, Image, OwnerSound
  <2>5. \A i \in inodeBits :
          inode[i].mode = "dir" /\ (i = tool.ino => ~ Unfinished) =>
            /\ i \in inodeBits' /\ inode'[i].mode = "dir"
            /\ inode'[i].block[0] = inode[i].block[0]
            /\ i = tool'.ino => ~ Unfinished'
    BY DEF TypeOK
  <2>6. inode'[Root].mode = "dir"
    BY <1>4, Sizes DEF Ownership, Image
  <2>7. FreeClean'
    BY <1>1 DEF Ownership, Image, FreeClean, Later
  <2>8. Image
    BY DEF Ownership
  <2>9. \A c \in Blocks :
          \/ KeepsDots(c)
          \/ /\ content'[c][1].inode = x /\ x \in inodeBits'
             /\ inode'[x].mode = "dir" /\ inode'[x].block[0] = c
             /\ x = tool'.ino => ~ Unfinished'
    BY <1>3
  <2> QED
    BY <1>10, <2>1, <2>2, <2>3, <2>4, <2>5, <2>6, <2>7, <2>8, <2>9, ImageStep
<1> QED
  BY <1>7, <1>9, <1>10, <1>11, <1>12

LEMMA allocateDirBlocksOwn ==
    ASSUME TypeOK, damage \subseteq damage', Kept, Ownership, allocateDirBlocks, Intact'
    PROVE  Ownership'
<1> DEFINE b == FirstEmpty(ClearBlocks)
<1>1. CASE End("failed")
  BY <1>1, QuietEnds, QuietOwn
<1>2. CASE /\ b \in Blocks
           /\ inode' = [inode EXCEPT ![tool.ino].block[0] = b]
           /\ content' = [content EXCEPT ![b] = DotEntries(tool.ino, tool.parent)]
           /\ TakesBlock(b)
           /\ damage' = damage \cup Overrun({b}) \cup Reused(b)
           /\ tool' = [tool EXCEPT !.pc = "entry"]
           /\ UNCHANGED <<inodeBits, freeInodes, usedDirs, exit, runs, losses>>
  <2>1. PICK x, p : x = tool.ino /\ p = tool.parent
    OBVIOUS
  <2>2. tool.pc = "blocks" /\ tool.cmd = "mkdir"
    BY DEF allocateDirBlocks
  <2>3. /\ x \in Inodes /\ x \in inodeBits /\ x \notin 0 .. Lost /\ x \notin Owners
        /\ Pending = {} /\ inode[x].mode = "dir"
    BY <2>1, <2>2, UnfinishedAlone DEF Unfinished, ModeOf
  <2>4. inode[x].blocks = 1
    BY <2>1, <2>2 DEF Ownership, NewSound, Unfinished
  <2>5. p \in Dirs
    BY <2>1, <2>2 DEF Ownership, ParentSound
  <2>6. {b} \subseteq 0 .. WordBits - 1
    BY <1>2, NoOverrun
  <2>7. /\ b \notin blockBits /\ b \notin 0 .. MetaBlocks
        /\ blockBits' = blockBits \cup {b}
    BY <1>2, <2>6, BlockTaken
  <2>8. /\ tool'.pc = "entry" /\ tool'.cmd = "mkdir" /\ tool'.ino = x
        /\ tool'.parent = p /\ tool'.grow = tool.grow /\ tool'.block = tool.block
    BY <1>2, <2>1, <2>2 DEF TypeOK, Tool
  <2> HIDE DEF b
  <2>9. inode[x] \in Inode /\ 0 \in 0 .. Direct
    BY <2>3, Sizes DEF TypeOK
  <2>10. /\ inode'[x].mode = "dir" /\ inode'[x].blocks = 1 /\ inode'[x].block[0] = b
         /\ \A i \in Inodes : i # x => inode'[i] = inode[i]
    BY <1>2, <2>1, <2>3, <2>4, <2>9 DEF TypeOK, Inode
  <2>11. /\ content'[b] = DotEntries(x, p)
         /\ \A c \in Blocks : c # b => content'[c] = content[c]
    BY <1>2, <2>1 DEF TypeOK
  <2>12. content'[b][1].name = "." /\ content'[b][1].inode = x
    BY <2>11 DEF DotEntries, NewEntry
  <2>13. \A i \in Inodes : inode'[i].mode = inode[i].mode /\ (i # x => SameOwn(i))
    BY <2>3, <2>10 DEF SameOwn
  <2>14. \A c \in Blocks : c # b => KeepsDots(c) /\ KeepsStart(c)
    BY <2>11, SameStart
  <2>15. x \in Dirs'
    BY <1>2, <2>3, <2>10, <2>12 DEF Dirs
  <2>16. OwnerSound(x)' /\ Owned(x)' = {b} /\ Own(x)' = {b}
    BY <1>2, <2>3, <2>7, <2>10, <2>15, FreshOwner
  <2>17. Dirs' \subseteq Dirs \cup {x} /\ DirBlocks' \subseteq DirBlocks \cup {b}
    BY <1>2, <2>12, <2>13, <2>14, <2>16, DirsStep
  <2>18. p # x /\ p \in Owners /\ p \in Inodes /\ inode[p].mode = "dir"
    BY <2>3, <2>5, DirsOwn
  <2>19. Linked' \subseteq Linked \cup {x, p} /\ Agreed'
    <3>1. ASSUME NEW c \in DirBlocks', NEW i \in Inodes, NEW t \in Types,
                 Lists(content'[c], i, t)
          PROVE  \/ c \in DirBlocks /\ Lists(content[c], i, t)
                 \/ i \in {x, p} /\ Fitting(i, t)'
      <4>1. CASE c = b
        <5>1. t = "dir" /\ i \in {x, p}
          BY <2>11, <3>1, <4>1, ListsDots
        <5>2. inode'[i].mode = "dir"
          BY <2>10, <2>13, <2>18, <5>1
        <5> QED
          BY <5>1, <5>2 DEF Fitting
      <4>2. CASE c # b
        <5>1. c \in DirBlocks
          BY <2>17, <4>2
        <5>2. c \in Blocks
          BY <5>1, DirBlocksTyped
        <5> QED
          BY <2>11, <3>1, <4>2, <5>1, <5>2
      <4> QED
        BY <4>1, <4>2
    <3>2. \A i \in Linked : inode'[i].mode = inode[i].mode
      BY <2>13 DEF Linked
    <3>3. Agreed
      BY DEF Ownership, Image
    <3> QED
      BY <3>1, <3>2, <3>3, NamesStep
  <2>20. Pending' = {x}
    BY <2>8 DEF Pending
  <2>21. Owners' \subseteq Owners \cup {x}
    BY <2>17, <2>18, <2>19, <2>20 DEF Owners
  <2>22. \A j \in Owners : j \in inodeBits /\ Own(j) \subseteq blockBits /\ b \notin Own(j)
    BY <2>7 DEF Ownership, Image, OwnerSound
  <2>23. \A i \in Owners \ {x} :
           /\ SameOwn(i) /\ i \in inodeBits' /\ Own(i) \subseteq blockBits'
           /\ inode[i].mode = "dir" => KeepsStart(inode[i].block[0])
    <3> SUFFICES ASSUME NEW i \in Owners \ {x}
                 PROVE  SameOwn(i) /\ KeepsStart(inode[i].block[0])
      BY <1>2, <2>7, <2>22
    <3>1. i \in Inodes /\ inode[i].block[0] \in Blocks /\ inode[i].block[0] \in Own(i)
      BY OwnerTyped, OwnerFirst DEF Ownership
    <3>2. inode[i].block[0] # b
      BY <2>22, <3>1
    <3> QED
      BY <2>13, <2>14, <3>1, <3>2
  <2>24. \A c \in Blocks :
           \/ KeepsDots(c)
           \/ /\ content'[c][1].inode = x /\ x \in inodeBits'
              /\ inode'[x].mode = "dir" /\ inode'[x].block[0] = c
              /\ x = tool'.ino => ~ Unfinished'
    BY <1>2, <2>3, <2>8, <2>10, <2>12, <2>14 DEF Unfinished
  <2>25. \A i \in inodeBits :
           inode[i].mode = "dir" /\ (i = tool.ino => ~ Unfinished) =>
             /\ i \in inodeBits' /\ inode'[i].mode = "dir"
             /\ inode'[i].block[0] = inode[i].block[0]
             /\ i = tool'.ino => ~ Unfinished'
    BY <1>2, <2>1, <2>2, <2>8, <2>10 DEF Unfinished, TypeOK
  <2>26. inode'[Root].mode = "dir"
    BY <2>13, Sizes DEF Ownership, Image
  <2>27. FreeClean'
    BY <1>2, <2>3, <2>10 DEF Ownership, Image, FreeClean, Later
  <2>28. Image'
    <3>1. \A j \in Owners : b \notin Own(j)
      BY <2>22
    <3>2. Image
      BY DEF Ownership
    <3> QED
      BY <2>16, <2>19, <2>21, <2>23, <2>24, <2>25, <2>26, <2>27, <3>1, <3>2, ImageStep
  <2>29. Counted'
    BY <1>2, <2>6, <2>13, BlockCounted DEF Ownership, b
  <2>30. NewSound'
    BY <1>2, <2>3, <2>8, <2>10 DEF NewSound, HoldsInode, Unfinished, ModeOf
  <2>31. PointersApart'
    BY <2>8 DEF PointersApart
  <2>32. ParentSound'
    <3>1. inode[p].block[0] # b /\ inode[p].block[0] \in Blocks /\ p \in inodeBits
      BY <2>5, <2>22, DirsOwn
    <3>2. p \in Dirs'
      BY <1>2, <2>5, <2>11, <2>13, <2>18, <3>1, DirStill
    <3> QED
      BY <2>1, <2>2, <2>8, <2>13, <2>18, <3>2, ParentKept DEF Ownership
  <2>33. "junk" \notin damage'
    BY <1>2, NoJunk DEF Ownership
  <2> QED
    BY <2>28, <2>29, <2>30, <2>31, <2>32, <2>33 DEF Ownership
<1> QED
  BY <1>1, <1>2, Zenon DEF allocateDirBlocks

-----------------------------------------------------------------------------
(* Blocks of files and of symbolic links. *)

LEMMA SameParent ==
    ASSUME TypeOK, Ownership, UNCHANGED <<inodeBits, inode, content>>,
           tool.pc \notin {"idle", "hung"}, tool'.parent = tool.parent,
           tool'.grow = tool.grow, tool'.block = tool.block
    PROVE  ParentSound'
<1>1. PICK p : p = tool.parent
  OBVIOUS
<1>2. p \in Dirs /\ Dirs' = Dirs
  BY <1>1, SameOwners DEF Ownership, ParentSound
<1>3. SameOwn(p)
  BY DEF SameOwn
<1> QED
  BY <1>1, <1>2, <1>3, ParentKept DEF Ownership

LEMMA checksOwn ==
    ASSUME TypeOK, damage \subseteq damage', Kept, Ownership, checkFileBlocks \/ copyFileBytes PROVE Ownership'
<1>1. CASE \E how : End(how)
  BY <1>1, QuietEnds, QuietOwn
<1>2. CASE /\ tool.pc = "blocks" /\ tool.cmd = "cp"
           /\ tool' = [tool EXCEPT !.pc = "take"]
           /\ UNCHANGED <<disk, damage>>
  <2>1. /\ tool'.pc = "take" /\ tool'.cmd = "cp" /\ tool'.ino = tool.ino
        /\ tool'.bytes = tool.bytes /\ tool'.taken = tool.taken
        /\ tool'.parent = tool.parent /\ tool'.grow = tool.grow /\ tool'.block = tool.block
    BY <1>2 DEF TypeOK, Tool
  <2>2. UNCHANGED <<blockBits, inodeBits, freeBlocks, freeInodes, usedDirs, inode, content>>
    BY <1>2 DEF disk
  <2>3. Pending' = {} /\ Unfinished /\ Unfinished'
    BY <1>2, <2>1 DEF Pending, Unfinished
  <2>4. Image'
    BY <2>1, <2>2, <2>3, SameImageOwn DEF Ownership
  <2>5. Counted'
    BY <2>2, SameCounts DEF Ownership
  <2>6. Linked' = Linked /\ Dirs' = Dirs
    BY <2>2, SameOwners
  <2>7. NewSound /\ tool.taken = 0
    BY <1>2 DEF Ownership, NewSound
  <2>8. NewSound'
    <3>1. HoldsInode /\ HoldsInode'
      BY <1>2, <2>1 DEF HoldsInode
    <3>2. /\ tool.ino \in inodeBits /\ inode[tool.ino].mode = ModeOf(tool.cmd)
          /\ tool.ino \notin Linked \cup Dirs /\ Later(inode[tool.ino])
          /\ inode[tool.ino].blocks = BlockCalc(tool.bytes)
      BY <1>2, <2>3, <2>7, <3>1 DEF NewSound
    <3>3. ModeOf(tool.cmd) = ModeOf(tool'.cmd) /\ Later(inode'[tool'.ino])
      BY <1>2, <2>1, <2>2, <3>2
    <3> QED
      BY <2>1, <2>2, <2>6, <2>7, <3>2, <3>3 DEF NewSound, ModeOf, Later
  <2>9. PointersApart'
    BY <2>1, <2>7, Sizes DEF PointersApart
  <2>10. ParentSound'
    BY <1>2, <2>1, <2>2, SameParent
  <2> QED
    BY <1>2, <2>4, <2>5, <2>8, <2>9, <2>10 DEF Ownership
<1>3. CASE /\ tool.pc = "text" /\ tool.bytes = 0
           /\ tool' = [tool EXCEPT !.pc = "entry"]
           /\ UNCHANGED <<disk, damage>>
  <2>1. /\ tool'.pc = "entry" /\ tool'.cmd = tool.cmd /\ tool'.ino = tool.ino
        /\ tool'.parent = tool.parent /\ tool'.grow = tool.grow /\ tool'.block = tool.block
    BY <1>3 DEF TypeOK, Tool
  <2>2. UNCHANGED <<blockBits, inodeBits, freeBlocks, freeInodes, usedDirs, inode, content>>
    BY <1>3 DEF disk
  <2>3. Pending' = Pending /\ ~ Unfinished'
    BY <1>3, <2>1 DEF Pending, Unfinished
  <2>4. Image'
    BY <2>2, <2>3, SameImageOwn DEF Ownership, Owners
  <2>5. Counted'
    BY <2>2, SameCounts DEF Ownership
  <2>6. NewSound'
    <3>1. HoldsInode /\ tool.cmd = "cp"
      BY <1>3 DEF HoldsInode, Ownership, NewSound
    <3>2. tool.ino \in inodeBits /\ inode[tool.ino].mode = ModeOf(tool.cmd)
      BY <3>1 DEF Ownership, NewSound
    <3> QED
      BY <2>1, <2>2, <2>3, <3>1, <3>2 DEF NewSound, ModeOf
  <2>7. PointersApart'
    BY <2>1 DEF PointersApart
  <2>8. ParentSound'
    BY <1>3, <2>1, <2>2, SameParent
  <2> QED
    BY <1>3, <2>4, <2>5, <2>6, <2>7, <2>8 DEF Ownership
<1> QED
  BY <1>1, <1>2, <1>3, Zenon DEF checkFileBlocks, copyFileBytes

LEMMA EmptyFile == BlockCalc(0) = 1 /\ FileBlocks(0) = 1
  BY Sizes DEF BlockCalc, FileBlocks

LEMMA allocateFileBlocksOwn ==
    ASSUME TypeOK, damage \subseteq damage', Kept, Ownership, allocateFileBlocks, Intact'
    PROVE  Ownership'
<1> DEFINE k == tool.taken
           b == FirstEmpty(ClearBlocks)
           pointers == inode[tool.ino].block[Direct]
           next == IF k + 1 = FileBlocks(tool.bytes) THEN "text" ELSE "take"
<1>1. CASE End("failed")
  BY <1>1, QuietEnds, QuietOwn
<1>2. CASE /\ TakesBlock(b)
           /\ inode' = IF k <= Direct THEN [inode EXCEPT ![tool.ino].block[k] = b] ELSE inode
           /\ tool' = [tool EXCEPT !.taken = k + 1, !.pc = next]
           /\ IF k <= Direct THEN UNCHANGED content
              ELSE content' = [content EXCEPT ![pointers] = <<Text>>]
           /\ damage' = damage \cup Overrun({b})
                               \cup (IF k <= Direct THEN {} ELSE Spilled({pointers}))
           /\ UNCHANGED <<inodeBits, freeInodes, usedDirs, exit, runs, losses>>
  <2>1. PICK x : x = tool.ino
    OBVIOUS
  <2>2. tool.pc = "take" /\ tool.cmd = "cp" /\ k \in Nat /\ tool.bytes \in Nat
    BY ToolFields DEF allocateFileBlocks, Ownership, NewSound
  <2>3. /\ x \in Inodes /\ x \in inodeBits /\ x \notin 0 .. Lost /\ x \notin Owners
        /\ Pending = {} /\ inode[x].mode = "reg" /\ Unfinished
    BY <2>1, <2>2, UnfinishedAlone DEF Unfinished, ModeOf
  <2>4. /\ inode[x].blocks = BlockCalc(tool.bytes) /\ x \notin Linked \cup Dirs
        /\ tool.bytes = 0 => k = 0 /\ Later(inode[x])
    BY <2>1, <2>2, <2>3 DEF Ownership, NewSound
  <2>5. {b} \subseteq 0 .. WordBits - 1
    <3>1. Overrun({b}) \subseteq damage'
      BY <1>2
    <3> HIDE DEF b
    <3> QED
      BY <3>1, NoOverrun
  <2>6. /\ b \in Blocks /\ b \notin blockBits /\ b \notin 0 .. MetaBlocks
        /\ blockBits' = blockBits \cup {b}
    BY <1>2, <2>5, BlockTaken
  <2>7. /\ tool'.pc = next /\ tool'.cmd = "cp" /\ tool'.ino = x /\ tool'.taken = k + 1
        /\ tool'.bytes = tool.bytes
        /\ tool'.parent = tool.parent /\ tool'.grow = tool.grow /\ tool'.block = tool.block
    BY <1>2, <2>1, <2>2 DEF TypeOK, Tool
  <2>8. next \in {"take", "text"} /\ (tool.bytes = 0 => next = "text")
    BY <2>4, EmptyFile
  <2>9. Counted'
    <3>1. \A i \in Inodes : inode'[i].mode = inode[i].mode
      BY <1>2, <2>1, <2>3 DEF TypeOK, Inode
    <3> QED
      BY <1>2, <2>5, <3>1, BlockCounted DEF Ownership
  <2> HIDE DEF b, next, k
  <2>10. /\ inode'[x].mode = "reg" /\ inode'[x].blocks = inode[x].blocks
         /\ k <= Direct => inode'[x].block = [inode[x].block EXCEPT ![k] = b]
         /\ k > Direct => inode'[x] = inode[x]
         /\ \A i \in Inodes : i # x => inode'[i] = inode[i]
    <3>1. inode[x] \in Inode /\ x \in DOMAIN inode
      BY <2>3 DEF TypeOK
    <3>2. CASE k <= Direct
      <4>1. inode' = [inode EXCEPT ![x].block[k] = b]
        BY <1>2, <2>1, <3>2
      <4>2. inode'[x] = [inode[x] EXCEPT !.block[k] = b]
        BY <3>1, <4>1
      <4>3. \A i \in Inodes : i # x => inode'[i] = inode[i]
        BY <4>1 DEF TypeOK
      <4>4. ~ k > Direct
        BY <2>2, <3>2, Sizes
      <4> QED
        BY <2>3, <3>1, <4>2, <4>3, <4>4 DEF Inode
    <3>3. CASE ~ k <= Direct
      <4>1. inode' = inode
        BY <1>2, <3>3
      <4> QED
        BY <2>3, <3>3, <4>1
    <3> QED
      BY <3>2, <3>3
  <2>11. inode[x].block \in [0 .. Direct -> Blocks]
    BY <2>3 DEF TypeOK, Inode
  <2>12. PICK W : /\ \A c \in Blocks : content'[c] = IF c \in W THEN <<Text>> ELSE content[c]
                  /\ \A j \in Owners : W \cap Own(j) = {}
    <3>1. CASE k <= Direct
      <4>1. PICK W : W = {}
        OBVIOUS
      <4>2. \A c \in Blocks : content'[c] = IF c \in W THEN <<Text>> ELSE content[c]
        BY <1>2, <3>1, <4>1
      <4>3. \A j \in Owners : W \cap Own(j) = {}
        BY <4>1
      <4> QED
        BY <4>2, <4>3, Zenon
    <3>2. CASE ~ k <= Direct
      <4>1. content' = [content EXCEPT ![pointers] = <<Text>>]
        BY <1>2, <3>2, Zenon
      <4>2. \A j \in Owners : pointers \notin Own(j)
        BY <2>2, <3>2, Sizes DEF Ownership, PointersApart, k
      <4> HIDE DEF pointers
      <4>3. \A c \in Blocks :
              content'[c] = IF c \in {pointers} THEN <<Text>> ELSE content[c]
        BY <4>1 DEF TypeOK
      <4>4. \A j \in Owners : {pointers} \cap Own(j) = {}
        BY <4>2
      <4> QED
        BY <4>3, <4>4, Zenon
    <3> QED
      BY <3>1, <3>2
  <2>13. Pending' = IF next = "text" /\ tool.bytes = 0 THEN {x} ELSE {}
    BY <2>7, <2>8 DEF Pending
  <2>14. x \in Pending' => OwnerSound(x)' /\ Own(x)' = {b}
    <3> SUFFICES ASSUME tool.bytes = 0 PROVE OwnerSound(x)' /\ Own(x)' = {b}
      BY <2>13
    <3>1. k = 0 /\ Later(inode[x]) /\ inode'[x].blocks = 1 /\ k <= Direct
      BY <2>4, <2>10, EmptyFile, Sizes
    <3>2. inode'[x].block[0] = b /\ Later(inode'[x])
      <4>1. inode'[x].block = [inode[x].block EXCEPT ![0] = b]
        BY <2>10, <3>1
      <4>2. \A j \in 1 .. Direct : j \in 0 .. Direct /\ j # 0
        OBVIOUS
      <4>3. 0 \in 0 .. Direct
        BY Sizes
      <4>4. \A j \in 1 .. Direct : inode[x].block[j] = 0
        BY <3>1 DEF Later
      <4>5. inode'[x].block[0] = b
        BY <2>11, <4>1, <4>3
      <4>6. \A j \in 1 .. Direct : inode'[x].block[j] = 0
        BY <2>11, <4>1, <4>2, <4>4
      <4> QED
        BY <4>5, <4>6 DEF Later
    <3> QED
      BY <1>2, <2>3, <2>6, <2>10, <3>1, <3>2, FreshOwner
  <2>15. /\ Image' /\ Dirs' = Dirs /\ Linked' \subseteq Linked
         /\ Owners' \subseteq Owners \cup Pending'
         /\ \A i \in Owners : SameOwn(i) /\ Own(i)' = Own(i)
    <3>1. Pending' \subseteq {x}
      BY <2>13
    <3>2. /\ inode[x].mode # "dir" /\ inode'[x].mode = inode[x].mode
          /\ ~ (tool.pc = "text" /\ tool.bytes = 0)
      BY <2>2, <2>3, <2>10
    <3>3. blockBits \subseteq blockBits' /\ UNCHANGED inodeBits
      BY <1>2, <2>6
    <3>4. /\ \A i \in Inodes : i # x => inode'[i] = inode[i]
          /\ Unfinished /\ b \notin blockBits /\ tool'.ino = x
      BY <2>3, <2>6, <2>7, <2>10
    <3>5. x \in Pending' => OwnerSound(x)' /\ Own(x)' = {b}
      BY <2>14
    <3> QED
      BY <2>1, <2>12, <3>1, <3>2, <3>3, <3>4, <3>5, TextImage
  <2>16. NewSound'
    BY <1>2, <2>3, <2>4, <2>7, <2>8, <2>10, <2>15, ZenonT(120) DEF NewSound, Unfinished, ModeOf
  <2>17. PointersApart'
    <3> SUFFICES ASSUME tool'.pc = "take", tool'.taken > Direct
                 PROVE  LET c == inode'[x].block[Direct]
                        IN  c \in blockBits' /\ \A i \in Owners' : c \notin Own(i)'
      BY <2>7 DEF PointersApart
    <3>1. Owners' \subseteq Owners
      BY <2>7, <2>8, <2>13, <2>15
    <3>2. k >= Direct
      BY <2>2, <2>7, Sizes
    <3>3. CASE k = Direct
      <4>1. inode'[x].block[Direct] = b
        BY <2>10, <2>11, <3>3, Sizes
      <4>2. \A i \in Owners : b \notin Own(i)
        BY <2>6, OwnedBlocks DEF Ownership
      <4> QED
        BY <2>6, <2>15, <3>1, <4>1, <4>2
    <3>4. CASE k > Direct
      <4>1. inode[x].block[Direct] \in blockBits
            /\ \A i \in Owners : inode[x].block[Direct] \notin Own(i)
        BY <2>1, <2>2, <3>4 DEF Ownership, PointersApart, k
      <4> QED
        BY <2>6, <2>10, <2>15, <3>1, <3>4, <4>1
    <3> QED
      BY <2>2, <3>2, <3>3, <3>4, Sizes
  <2>18. ParentSound'
    <3>1. PICK p : p = tool.parent
      OBVIOUS
    <3>2. p \in Dirs
      BY <2>2, <3>1 DEF Ownership, ParentSound
    <3>3. SameOwn(p) /\ p \in Dirs'
      BY <2>15, <3>2 DEF Owners
    <3> QED
      BY <2>2, <2>7, <3>1, <3>3, ParentKept DEF Ownership
  <2>19. "junk" \notin damage'
    BY <1>2, NoJunk DEF Ownership
  <2> QED
    BY <2>9, <2>15, <2>16, <2>17, <2>18, <2>19 DEF Ownership
<1> QED
  BY <1>1, <1>2, Zenon DEF allocateFileBlocks

LEMMA allocateLinkBlocksOwn ==
    ASSUME TypeOK, damage \subseteq damage', Kept, Ownership, allocateLinkBlocks, Intact'
    PROVE  Ownership'
<1> DEFINE b == FirstEmpty(ClearBlocks)
           i_block == [inode[tool.ino].block EXCEPT ![0] = b]
           written == {i_block[k] : k \in 0 .. Pieces[tool.bytes] - 1}
<1>1. CASE End("failed")
  BY <1>1, QuietEnds, QuietOwn
<1>2. CASE /\ b \in Blocks
           /\ inode' = [inode EXCEPT ![tool.ino].block = i_block]
           /\ content' = [c \in Blocks |-> IF c \in written THEN <<Text>> ELSE content[c]]
           /\ TakesBlock(b)
           /\ damage' = damage \cup Overrun({b}) \cup Spilled(written)
           /\ tool' = [tool EXCEPT !.pc = "entry"]
           /\ UNCHANGED <<inodeBits, freeInodes, usedDirs, exit, runs, losses>>
  <2>1. PICK x : x = tool.ino
    OBVIOUS
  <2>2. tool.pc = "blocks" /\ tool.cmd = "ln -s"
    BY DEF allocateLinkBlocks
  <2>3. /\ x \in Inodes /\ x \in inodeBits /\ x \notin 0 .. Lost /\ x \notin Owners
        /\ Pending = {} /\ inode[x].mode = "lnk" /\ Unfinished
    BY <2>1, <2>2, UnfinishedAlone DEF Unfinished, ModeOf
  <2>4. inode[x].blocks = 1 /\ Later(inode[x])
    BY <2>1, <2>2, <2>3 DEF Ownership, NewSound
  <2>5. {b} \subseteq 0 .. WordBits - 1
    <3>1. Overrun({b}) \subseteq damage'
      BY <1>2
    <3> HIDE DEF b
    <3> QED
      BY <3>1, NoOverrun
  <2>6. /\ b \in Blocks /\ b \notin blockBits /\ b \notin 0 .. MetaBlocks
        /\ blockBits' = blockBits \cup {b}
    BY <1>2, <2>5, BlockTaken
  <2>7. /\ tool'.pc = "entry" /\ tool'.cmd = "ln -s" /\ tool'.ino = x
        /\ tool'.parent = tool.parent /\ tool'.grow = tool.grow /\ tool'.block = tool.block
    BY <1>2, <2>1, <2>2 DEF TypeOK, Tool
  <2>8. inode[x].block \in [0 .. Direct -> Blocks]
    BY <2>3 DEF TypeOK, Inode
  <2>9. Counted'
    <3>1. \A i \in Inodes : inode'[i].mode = inode[i].mode
      BY <1>2, <2>1, <2>3 DEF TypeOK, Inode
    <3> QED
      BY <1>2, <2>5, <3>1, BlockCounted DEF Ownership
  <2> HIDE DEF b
  <2>10. i_block[0] = b /\ \A k \in 1 .. Direct : i_block[k] = 0
    BY <2>1, <2>4, <2>8, Sizes, SMTT(30) DEF Later
  <2>11. written \subseteq {b, 0}
    <3>1. Pieces[tool.bytes] \in 0 .. Direct + 1
      BY <2>2, PathsAssumption DEF Kept, SafeTool
    <3>2. \A k \in 0 .. Pieces[tool.bytes] - 1 : k = 0 \/ k \in 1 .. Direct
      BY <3>1, Sizes
    <3> HIDE DEF i_block
    <3> QED
      BY <2>10, <3>2
  <2> HIDE DEF i_block
  <2>12. /\ inode'[x].mode = "lnk" /\ inode'[x].blocks = 1 /\ inode'[x].block = i_block
         /\ \A i \in Inodes : i # x => inode'[i] = inode[i]
    BY <1>2, <2>1, <2>3, <2>4 DEF TypeOK, Inode
  <2>13. OwnerSound(x)' /\ Own(x)' = {b}
    <3>1. Later(inode'[x]) /\ inode'[x].block[0] = b
      BY <2>10, <2>12 DEF Later
    <3> QED
      BY <1>2, <2>3, <2>6, <2>12, <3>1, FreshOwner
  <2>14. \A c \in Blocks :
           content'[c] = IF c \in written THEN <<Text>> ELSE content[c]
    <3>1. content' = [c \in Blocks |-> IF c \in written THEN <<Text>> ELSE content[c]]
      BY <1>2
    <3>2. \A c \in Blocks : content'[c] = IF c \in written THEN <<Text>> ELSE content[c]
      BY <3>1
    <3> QED
      BY <3>2, Zenon
  <2>15. \A j \in Owners : written \cap Own(j) = {}
    <3>1. 0 \in 0 .. MetaBlocks
      BY Sizes
    <3> QED
      BY <2>6, <2>11, <3>1, OwnedBlocks DEF Ownership
  <2> HIDE DEF written
  <2>16. Pending' = {x}
    BY <2>7 DEF Pending
  <2>17. /\ Image' /\ Dirs' = Dirs /\ Linked' \subseteq Linked
         /\ \A i \in Owners : SameOwn(i)
    <3>1. /\ inode[x].mode # "dir" /\ inode'[x].mode = inode[x].mode
          /\ ~ (tool.pc = "text" /\ tool.bytes = 0)
      BY <2>2, <2>3, <2>12
    <3>2. blockBits \subseteq blockBits' /\ UNCHANGED inodeBits
      BY <1>2, <2>6
    <3>3. \A i \in Inodes : i # x => inode'[i] = inode[i]
      BY <2>12
    <3>4. x \in Pending' => OwnerSound(x)' /\ Own(x)' = {b}
      BY <2>13
    <3>5. Pending' \subseteq {x} /\ tool'.ino = x /\ b \notin blockBits /\ Unfinished
      BY <2>3, <2>6, <2>7, <2>16
    <3>6. PICK W, y : W = written /\ y = b
      OBVIOUS
    <3>7. /\ \A j \in Owners : W \cap Own(j) = {}
          /\ \A c \in Blocks : content'[c] = IF c \in W THEN <<Text>> ELSE content[c]
      BY <2>14, <2>15, <3>6
    <3>8. y \notin blockBits /\ (x \in Pending' => OwnerSound(x)' /\ Own(x)' = {y})
      BY <3>4, <3>5, <3>6
    <3> HIDE DEF written, b
    <3> QED
      BY <2>1, <3>1, <3>2, <3>3, <3>5, <3>7, <3>8, TextImage
  <2>18. NewSound'
    BY <1>2, <2>3, <2>7, <2>12 DEF NewSound, HoldsInode, Unfinished, ModeOf
  <2>19. PointersApart'
    BY <2>7 DEF PointersApart
  <2>20. ParentSound'
    <3>1. PICK p : p = tool.parent
      OBVIOUS
    <3>2. p \in Dirs
      BY <2>2, <3>1 DEF Ownership, ParentSound
    <3>3. SameOwn(p) /\ p \in Dirs'
      BY <2>17, <3>2 DEF Owners
    <3> QED
      BY <2>2, <2>7, <3>1, <3>3, ParentKept DEF Ownership
  <2>21. "junk" \notin damage'
    BY <1>2, NoJunk DEF Ownership
  <2> QED
    BY <2>9, <2>17, <2>18, <2>19, <2>20, <2>21 DEF Ownership
<1> QED
  BY <1>1, <1>2, Zenon DEF allocateLinkBlocks

-----------------------------------------------------------------------------
(* The entry is written. *)

\* A tool that has ended owes nothing.
LEMMA QuietSound ==
    ASSUME tool'.pc \in {"idle", "hung"}
    PROVE  NewSound' /\ PointersApart' /\ ParentSound' /\ Pending' = {} /\ ~ Unfinished'
  BY DEF NewSound, PointersApart, ParentSound, Pending, Unfinished, HoldsInode

\* An append leaves the first entry's name and inode.
LEMMA AppendedStart ==
    ASSUME TypeOK, NEW b \in Blocks, NEW e \in Entry, ~ Stuck(b)
    PROVE  /\ Appended(b, e)[b][1].name = content[b][1].name
           /\ Appended(b, e)[b][1].inode = content[b][1].inode
           /\ content[b] # <<Zero>>
<1> DEFINE chain == Appended(b, e)[b]
           old == LastOf(b)
           n == Len(content[b])
<1>1. /\ n \in Nat \ {0}
      /\ \A j \in 1 .. n - 1 : chain[j] = content[b][j]
      /\ chain[n] = [old EXCEPT !.rec = 1, !.ended = @ /\ old.name \notin Aligned]
  BY AppendedParts
<1>2. old \in Entry
  BY LastTyped
<1>3. chain[n].name = old.name /\ chain[n].inode = old.inode
  BY <1>1, <1>2 DEF Entry
<1>4. old = content[b][n]
  BY DEF LastOf
<1>5. content[b] # <<Zero>>
  <2>1. SUFFICES ASSUME content[b] = <<Zero>> PROVE FALSE
    OBVIOUS
  <2>2. LastOf(b) = Zero
    BY <2>1 DEF LastOf
  <2>3. Zero.rec = 0
    BY DEF Zero, NewEntry
  <2> QED
    BY <2>2, <2>3 DEF Stuck
<1> HIDE DEF chain, old
<1>6. chain[1].name = content[b][1].name /\ chain[1].inode = content[b][1].inode
  <2>1. CASE n = 1
    BY <2>1, <1>3, <1>4
  <2>2. CASE n # 1
    <3>1. 1 \in 1 .. n - 1
      <4>1. n \in Nat \ {0}
        BY <1>1
      <4> HIDE DEF n
      <4> QED
        BY <2>2, <4>1
    <3>2. chain[1] = content[b][1]
      BY <1>1, <3>1
    <3> QED
      BY <3>2
  <2> QED
    BY <2>1, <2>2
<1> QED
  BY <1>5, <1>6 DEF chain

\* The tables that the tools leave: only counts of links change.
SameTable(table) ==
    \A i \in Inodes : /\ table[i].mode = inode[i].mode
                      /\ table[i].blocks = inode[i].blocks
                      /\ table[i].block = inode[i].block

LEMMA AppendOwn ==
    ASSUME TypeOK, damage \subseteq damage', Kept, Ownership, tool.pc = "entry", NEW type \in Types,
           Fitting(tool.ino, type), SameTable(inode'),
           NEW b, b = tool.block, ~ Stuck(b),
           RunsOver(b) /\ content[b + 1] # <<Zero>> => "padded" \in damage',
           content' = Appended(b, NewEntry(tool.name, tool.ino, type, 0, Capacity)),
           tool' = Idle, "junk" \notin damage',
           UNCHANGED <<blockBits, inodeBits, freeBlocks, freeInodes, usedDirs>>
    PROVE  Ownership'
<1> DEFINE e == NewEntry(tool.name, tool.ino, type, 0, Capacity)
<1>1. PICK x, none, y : x = -1 /\ none = -1 /\ y = tool.ino
  OBVIOUS
<1>2. b \in Blocks /\ y \in Inodes
  BY <1>1 DEF TypeOK, Tool
<1>3. e \in Entry /\ e.inode = y /\ e.type = type
  BY <1>1, NewEntryShape
<1> HIDE DEF e
<1>4. content' = Appended(b, e)
  BY DEF e
<1>5. /\ content'[b] = Appended(b, e)[b]
      /\ \A c \in Blocks : c # b =>
           \/ content'[c] = content[c]
           \/ content'[c] = <<Zero>> /\ ("padded" \in damage' \/ content[c] = <<Zero>>)
  BY <1>4 DEF Appended
<1>6. \A i \in Inodes : SameOwn(i)
  BY DEF SameTable, SameOwn
<1>7. tool'.pc = "idle"
  BY DEF Idle
<1>8. NewSound' /\ PointersApart' /\ ParentSound' /\ Pending' = {} /\ ~ Unfinished'
  BY <1>7, QuietSound
<1>9. \A c \in Blocks : KeepsDots(c) /\ KeepsStart(c)
  <2>1. KeepsDots(b) /\ KeepsStart(b)
    BY <1>2, <1>3, <1>5, AppendedStart DEF KeepsDots, KeepsStart
  <2>2. Zero.name = ""
    BY DEF Zero, NewEntry
  <2>3. ASSUME NEW c \in Blocks, content'[c] = <<Zero>>,
               "padded" \in damage' \/ content[c] = <<Zero>>
        PROVE  KeepsDots(c) /\ KeepsStart(c)
    <3>1. content'[c][1].name # "."
      <4>1. content'[c][1] = Zero
        BY <2>3
      <4> QED
        BY <2>2, <4>1
    <3> QED
      BY <2>3, <3>1 DEF KeepsDots, KeepsStart
  <2>4. ASSUME NEW c \in Blocks, content'[c] = content[c]
        PROVE  KeepsDots(c) /\ KeepsStart(c)
    BY <2>4, SameStart
  <2> QED
    BY <1>5, <2>1, <2>3, <2>4
<1>10. x \notin Inodes /\ x \notin Dirs' /\ none \notin Blocks
  <2>1. x \notin Inodes /\ none \notin Blocks
    BY <1>1, Sizes
  <2>2. Dirs' \subseteq Inodes
    BY DEF Dirs, TypeOK
  <2> QED
    BY <2>1, <2>2
<1>11. Dirs' \subseteq Dirs /\ DirBlocks' \subseteq DirBlocks
  <2>1. PICK B : B = {}
    OBVIOUS
  <2>2. /\ \A i \in Inodes : inode'[i].mode = inode[i].mode /\ (i # x => SameOwn(i))
        /\ inodeBits' \subseteq inodeBits
        /\ \A c \in Blocks : KeepsDots(c) \/ content'[c][1].inode = x
    BY <1>6, <1>9 DEF SameOwn
  <2>3. x \in Dirs' => \A c \in Owned(x)' : c \in B \/ (x \in Dirs /\ c \in Owned(x))
    BY <1>10
  <2>4. Dirs' \subseteq Dirs \cup {x} /\ DirBlocks' \subseteq DirBlocks \cup B
    BY <2>2, <2>3, DirsStep
  <2> QED
    BY <1>10, <2>1, <2>4
<1>12. Linked' \subseteq Linked \cup {y} /\ Agreed'
  <2>1. Agreed /\ \A i \in Linked : inode'[i].mode = inode[i].mode
    BY <1>6 DEF Ownership, Image, SameOwn, Linked
  <2>2. Fitting(y, type)'
    BY <1>1, <1>2, <1>6 DEF Fitting, SameOwn
  <2>3. \A c \in DirBlocks', i \in Inodes, t \in Types :
          Lists(content'[c], i, t) =>
             \/ c \in DirBlocks /\ Lists(content[c], i, t)
             \/ i \in {y} /\ Fitting(i, t)'
    <3> SUFFICES ASSUME NEW c \in DirBlocks', NEW i \in Inodes, NEW t \in Types,
                        Lists(content'[c], i, t)
                 PROVE  \/ c \in DirBlocks /\ Lists(content[c], i, t)
                        \/ i \in {y} /\ Fitting(i, t)'
      OBVIOUS
    <3>1. c \in DirBlocks /\ c \in Blocks
      BY <1>11, DirBlocksTyped
    <3>2. CASE c = b
      <4>1. Lists(content[b], i, t) \/ (e.inode = i /\ e.type = t)
        BY <1>2, <1>3, <1>5, <3>2, ListsAppended
      <4>2. CASE Lists(content[b], i, t)
        BY <3>1, <3>2, <4>2
      <4>3. CASE e.inode = i /\ e.type = t
        <5>1. i = y /\ t = type
          BY <1>3, <4>3
        <5> QED
          BY <2>2, <5>1
      <4> QED
        BY <4>1, <4>2, <4>3
    <3>3. CASE c # b
      <4>1. content'[c] # <<Zero>>
        BY ListsNone
      <4>2. content'[c] = content[c]
        BY <1>5, <3>1, <3>3, <4>1
      <4> QED
        BY <3>1, <4>2
    <3> QED
      BY <3>2, <3>3
  <2> QED
    BY <2>1, <2>3, NamesStep
<1>13. Owners' \subseteq Owners
  <2>1. y \in Pending
    BY <1>1 DEF Pending
  <2> QED
    BY <1>8, <1>11, <1>12, <2>1 DEF Owners
<1>14. FreeClean'
  <2>1. \A i \in Inodes : inode'[i].block = inode[i].block
    BY <1>6 DEF SameOwn
  <2> QED
    BY <2>1 DEF Ownership, Image, FreeClean, Later
<1>15. Image'
  <2>1. \A j \in Owners : none \notin Own(j)
    BY <1>10, OwnedBlocks DEF Ownership
  <2>2. Root \in Inodes /\ inode'[Root].mode = "dir"
    BY <1>6, Sizes DEF SameOwn, Ownership, Image
  <2>3. x \notin Owners'
    BY <1>10, <1>13, OwnerTyped
  <2>4. \A i \in Owners :
           /\ SameOwn(i) /\ i \in inodeBits' /\ Own(i) \subseteq blockBits'
           /\ inode[i].mode = "dir" => KeepsStart(inode[i].block[0])
    <3> SUFFICES ASSUME NEW i \in Owners
                 PROVE  /\ SameOwn(i) /\ i \in inodeBits' /\ Own(i) \subseteq blockBits'
                        /\ KeepsStart(inode[i].block[0])
      OBVIOUS
    <3>1. i \in Inodes /\ inode[i].block[0] \in Blocks
      BY OwnerTyped
    <3>2. i \in inodeBits /\ Own(i) \subseteq blockBits
      BY OwnedBlocks DEF Ownership, Image, OwnerSound
    <3> QED
      BY <1>6, <1>9, <3>1, <3>2
  <2>5. \A i \in inodeBits :
          inode[i].mode = "dir" /\ (i = tool.ino => ~ Unfinished) =>
            /\ i \in inodeBits' /\ inode'[i].mode = "dir"
            /\ inode'[i].block[0] = inode[i].block[0]
            /\ i = tool'.ino => ~ Unfinished'
    <3>1. inodeBits \subseteq Inodes
      BY DEF TypeOK
    <3> QED
      BY <1>6, <1>8, <3>1 DEF SameOwn
  <2>6. \A c \in Blocks :
             \/ KeepsDots(c)
             \/ /\ content'[c][1].inode = x /\ x \in inodeBits'
                /\ inode'[x].mode = "dir" /\ inode'[x].block[0] = c
                /\ x = tool'.ino => ~ Unfinished'
    BY <1>9
  <2>7. Image
    BY DEF Ownership
  <2>8. Owners' \subseteq Owners \cup {x}
    BY <1>13
  <2>9. x \in Owners' =>
          /\ OwnerSound(x)'
          /\ \A c \in Own(x)' : c = none \/ (x \in Owners /\ c \in Own(x))
    BY <2>3
  <2> QED
    BY <1>12, <1>14, <2>1, <2>2, <2>4, <2>5, <2>6, <2>7, <2>8, <2>9, ImageStep
<1>16. Counted'
  <2>1. \A i \in inodeBits : inode'[i].mode = inode[i].mode
    BY <1>6 DEF SameOwn, TypeOK
  <2>2. {i \in inodeBits' : inode'[i].mode = "dir"} = {i \in inodeBits : inode[i].mode = "dir"}
    BY <2>1, SameDirCount
  <2> QED
    BY <2>2 DEF Ownership, Counted, ClearBlocks, ClearInodes
<1> QED
  BY <1>8, <1>15, <1>16 DEF Ownership

-----------------------------------------------------------------------------
(* A directory grows by a block. *)


\* Block b becomes the block number k of directory d, with entry e in it.
Grown(d, k, b, e) ==
    /\ k = inode[d].blocks /\ inode'[d].blocks = k + 1 /\ inode'[d].block[k] = b
    /\ \A j \in 0 .. Direct : j # k => inode'[d].block[j] = inode[d].block[j]
    /\ \A i \in Inodes : /\ inode'[i].mode = inode[i].mode
                         /\ i # d => SameOwn(i)
    /\ content'[b] = <<e>>
    /\ \A c \in Blocks : c # b => content'[c] = content[c]

LEMMA GrowOwn ==
    ASSUME TypeOK, damage \subseteq damage', Kept, Ownership, Intact', tool.pc = "entry", NEW type \in Types,
           Fitting(tool.ino, type), tool.grow, NEW d, d = tool.parent,
           NEW b, b = FirstEmpty(ClearBlocks), b \in Blocks,
           NEW k, Grown(d, k, b, NewEntry(tool.name, tool.ino, type, 0, Capacity)),
           TakesBlock(b), Overrun({b}) \subseteq damage', "junk" \notin damage',
           tool' = Idle, UNCHANGED <<inodeBits, freeInodes, usedDirs>>
    PROVE  Ownership'
<1> DEFINE e == NewEntry(tool.name, tool.ino, type, 0, Capacity)
<1>1. PICK y : y = tool.ino
  OBVIOUS
<1>2. /\ b \notin blockBits /\ b \notin 0 .. MetaBlocks
      /\ blockBits' = blockBits \cup {b}
  <2>1. {b} \subseteq 0 .. WordBits - 1
    BY NoOverrun
  <2> QED
    BY <2>1, BlockTaken
<1>3. /\ e \in Entry /\ e.inode = y /\ e.type = type /\ e.name # "."
  BY <1>1, NewEntryShape
<1> HIDE DEF e
<1>4. Grown(d, k, b, e)
  BY DEF e
<1>5. content'[b] = <<e>> /\ \A c \in Blocks : c # b => content'[c] = content[c]
  BY <1>4 DEF Grown
<1>6. d \in Dirs /\ d \in Owners /\ d \in Inodes /\ d \in inodeBits /\ inode[d].mode = "dir"
  <2>1. d \in Dirs
    BY DEF Ownership, ParentSound
  <2> QED
    BY <2>1, DirsOwn
<1>7. k \in Nat /\ 0 < k /\ k < Direct /\ Direct \in Nat
  <2>1. k < Direct
    BY <1>4 DEF Grown, Ownership, ParentSound
  <2>2. k \in Nat /\ 0 < k
    BY <1>4, <1>6, OwnerFirst DEF Grown, Ownership
  <2> QED
    BY <2>1, <2>2, Sizes
<1>8. inode[d] \in Inode /\ inode[d].block \in [0 .. Direct -> Blocks]
  BY <1>6 DEF TypeOK, Inode
<1>10. /\ \A i \in Inodes : i # d => SameOwn(i)
       /\ \A i \in Inodes : inode'[i].mode = inode[i].mode
  BY <1>4 DEF Grown, SameOwn
<1>11. inode'[d].block[0] = inode[d].block[0] /\ inode'[d].block[k] = b
  <2>1. 0 \in 0 .. Direct /\ 0 # k
    BY <1>7
  <2> QED
    BY <1>4, <2>1 DEF Grown
<1>12. NewSound' /\ PointersApart' /\ ParentSound' /\ Pending' = {} /\ ~ Unfinished'
  <2>1. tool'.pc = "idle"
    BY DEF Idle
  <2> QED
    BY <2>1, QuietSound
<1>13. Owned(d)' = Owned(d) \cup {b}
  <2>1. Owned(d)' = {inode'[d].block[j] : j \in {j \in 0 .. Direct - 1 : j < k + 1}}
    BY <1>4 DEF Grown, Owned
  <2>2. Owned(d) = {inode[d].block[j] : j \in {j \in 0 .. Direct - 1 : j < k}}
    BY <1>4 DEF Grown, Owned
  <2>3. \A j \in 0 .. Direct - 1 : j < k => inode'[d].block[j] = inode[d].block[j]
    BY <1>4, <1>7 DEF Grown
  <2>4. \A j \in 0 .. Direct - 1 : j < k + 1 <=> j < k \/ j = k
    BY <1>7
  <2>5. k \in 0 .. Direct - 1
    BY <1>7
  <2> QED
    BY <1>11, <2>1, <2>2, <2>3, <2>4, <2>5
<1>14. Own(d) \subseteq Own(d)' /\ Own(d)' \subseteq Own(d) \cup {b}
  BY <1>13 DEF Own
<1>15. \A j \in Owners : b \notin Own(j)
  BY <1>2, OwnedBlocks DEF Ownership
<1>16. \A i \in Owners : /\ inode[i].block[0] \in Blocks
                         /\ inode[i].block[0] # b
                         /\ content'[inode[i].block[0]] = content[inode[i].block[0]]
  <2> SUFFICES ASSUME NEW i \in Owners
               PROVE  /\ inode[i].block[0] \in Blocks
                      /\ inode[i].block[0] # b
                      /\ content'[inode[i].block[0]] = content[inode[i].block[0]]
    OBVIOUS
  <2>1. inode[i].block[0] \in Own(i) /\ inode[i].block[0] \in Blocks
    BY OwnerTyped, OwnerFirst DEF Ownership
  <2>2. inode[i].block[0] # b
    BY <1>15, <2>1
  <2> QED
    BY <1>5, <2>1, <2>2
<1>17. \A c \in Blocks : KeepsDots(c)
  <2>1. KeepsDots(b)
    BY <1>3, <1>5 DEF KeepsDots
  <2>2. ASSUME NEW c \in Blocks, c # b PROVE KeepsDots(c)
    BY <1>5, <2>2, SameStart
  <2> QED
    BY <2>1, <2>2
<1>18. Dirs' \subseteq Dirs /\ DirBlocks' \subseteq DirBlocks \cup {b}
  <2>1. /\ \A i \in Inodes : inode'[i].mode = inode[i].mode /\ (i # d => SameOwn(i))
        /\ inodeBits' \subseteq inodeBits
        /\ \A c \in Blocks : KeepsDots(c) \/ content'[c][1].inode = d
    BY <1>10, <1>17
  <2>2. PICK B : B = {b}
    OBVIOUS
  <2>3. d \in Dirs' => \A c \in Owned(d)' : c \in B \/ (d \in Dirs /\ c \in Owned(d))
    BY <1>6, <1>13, <2>2
  <2>4. Dirs' \subseteq Dirs \cup {d} /\ DirBlocks' \subseteq DirBlocks \cup B
    BY <2>1, <2>3, DirsStep
  <2> QED
    BY <1>6, <2>2, <2>4
<1>19. d \in Dirs'
  <2>1. PICK c : c = inode[d].block[0]
    OBVIOUS
  <2>2. content[c][1].name = "." /\ content[c][1].inode = d
    BY <1>6, <2>1 DEF Dirs
  <2>3. content'[c] = content[c] /\ inode'[d].block[0] = c
    BY <1>6, <1>11, <1>16, <2>1
  <2>4. content'[inode'[d].block[0]][1] = content[c][1]
    BY <2>3
  <2>5. d \in inodeBits' /\ inode'[d].mode = "dir"
    BY <1>6, <1>10
  <2> QED
    BY <2>2, <2>4, <2>5 DEF Dirs
<1>20. Linked' \subseteq Linked \cup {y} /\ Agreed'
  <2>1. Agreed /\ \A i \in Linked : inode'[i].mode = inode[i].mode
    BY <1>10 DEF Ownership, Image, Linked
  <2>2. Fitting(y, type)'
    <3>1. inode'[y].mode = inode[y].mode
      BY <1>1, <1>10 DEF TypeOK, Tool
    <3> QED
      BY <1>1, <3>1 DEF Fitting
  <2>3. \A c \in DirBlocks', i \in Inodes, t \in Types :
          Lists(content'[c], i, t) =>
             \/ c \in DirBlocks /\ Lists(content[c], i, t)
             \/ i \in {y} /\ Fitting(i, t)'
    <3> SUFFICES ASSUME NEW c \in DirBlocks', NEW i \in Inodes, NEW t \in Types,
                        Lists(content'[c], i, t)
                 PROVE  \/ c \in DirBlocks /\ Lists(content[c], i, t)
                        \/ i \in {y} /\ Fitting(i, t)'
      OBVIOUS
    <3>1. CASE c = b
      <4>1. Lists(<<e>>, i, t)
        BY <1>5, <3>1
      <4>2. i = y /\ t = type
        BY <1>3, <4>1, ListsOne
      <4> QED
        BY <2>2, <4>2
    <3>2. CASE c # b
      <4>1. c \in DirBlocks /\ c \in Blocks
        BY <1>18, <3>2, DirBlocksTyped
      <4>2. content'[c] = content[c]
        BY <1>5, <3>2, <4>1
      <4> QED
        BY <4>1, <4>2
    <3> QED
      BY <3>1, <3>2
  <2> QED
    BY <2>1, <2>3, NamesStep
<1>21. Owners' \subseteq Owners
  <2>1. y \in Pending
    BY <1>1 DEF Pending
  <2> QED
    BY <1>12, <1>18, <1>20, <2>1 DEF Owners
<1>22. FreeClean'
  <2>1. \A i \in Inodes \ inodeBits : inode'[i].block = inode[i].block
    BY <1>6, <1>10 DEF SameOwn
  <2> QED
    <3>1. \A i \in Inodes \ inodeBits : Later(inode[i])
      BY DEF Ownership, Image, FreeClean
    <3>2. \A i \in Inodes \ inodeBits : Later(inode'[i])
      BY <2>1, <3>1 DEF Later
    <3> QED
      BY <3>2 DEF FreeClean
<1>23. OwnerSound(d)'
  <2>1. inode[d].block[0] \in Own(d) /\ Own(d) \subseteq blockBits /\ Own(d) \cap 0 .. MetaBlocks = {}
    BY <1>6, OwnerFirst, OwnedBlocks DEF Ownership
  <2>2. Own(d)' \subseteq blockBits' \ 0 .. MetaBlocks
    BY <1>2, <1>14, <2>1
  <2>3. inode'[d].block[0] \in Own(d)'
    BY <1>11, <1>14, <2>1
  <2> QED
    BY <1>6, <1>10, <1>19, <2>2, <2>3 DEF OwnerSound
<1>24. Image'
  <2>1. Image
    BY DEF Ownership
  <2>2. inode'[Root].mode = "dir"
    BY <1>10, Sizes DEF Ownership, Image
  <2>3. d \in Owners' =>
          /\ OwnerSound(d)'
          /\ \A c \in Own(d)' : c = b \/ (d \in Owners /\ c \in Own(d))
    BY <1>6, <1>14, <1>23
  <2>4. \A i \in Owners \ {d} :
           /\ SameOwn(i) /\ i \in inodeBits' /\ Own(i) \subseteq blockBits'
           /\ inode[i].mode = "dir" => KeepsStart(inode[i].block[0])
    <3> SUFFICES ASSUME NEW i \in Owners, i # d
                 PROVE  /\ SameOwn(i) /\ i \in inodeBits' /\ Own(i) \subseteq blockBits'
                        /\ KeepsStart(inode[i].block[0])
      OBVIOUS
    <3>1. i \in Inodes /\ i \in inodeBits /\ Own(i) \subseteq blockBits
      BY OwnerTyped, OwnedBlocks DEF Ownership, Image, OwnerSound
    <3>2. KeepsStart(inode[i].block[0])
      BY <1>16, SameStart
    <3> QED
      BY <1>2, <1>10, <3>1, <3>2
  <2>5. \A i \in inodeBits :
          inode[i].mode = "dir" /\ (i = tool.ino => ~ Unfinished) =>
            /\ i \in inodeBits' /\ inode'[i].mode = "dir"
            /\ inode'[i].block[0] = inode[i].block[0]
            /\ i = tool'.ino => ~ Unfinished'
    <3>1. inodeBits \subseteq Inodes
      BY DEF TypeOK
    <3>2. \A i \in Inodes : inode'[i].block[0] = inode[i].block[0]
      BY <1>10, <1>11 DEF SameOwn
    <3> QED
      BY <1>10, <1>12, <3>1, <3>2
  <2>6. \A c \in Blocks :
             \/ KeepsDots(c)
             \/ /\ content'[c][1].inode = d /\ d \in inodeBits'
                /\ inode'[d].mode = "dir" /\ inode'[d].block[0] = c
                /\ d = tool'.ino => ~ Unfinished'
    BY <1>17
  <2>7. Owners' \subseteq Owners \cup {d}
    BY <1>21
  <2> QED
    <3>1. Agreed'
      BY <1>20
    <3> QED
      BY <1>15, <1>22, <2>1, <2>2, <2>3, <2>4, <2>5, <2>6, <2>7, <3>1, ImageStep, ZenonT(180)
<1>25. Counted'
  <2>1. b \in 0 .. WordBits - 1 /\ Counted
    BY NoOverrun DEF Ownership
  <2> QED
    BY <1>10, <2>1, BlockCounted
<1> QED
  BY <1>12, <1>24, <1>25 DEF Ownership

LEMMA GrownTable ==
    ASSUME TypeOK, NEW d \in Inodes, NEW k, k = inode[d].blocks, k \in 0 .. Direct,
           NEW b \in Blocks, NEW e, NEW table \in [Inodes -> Inode], SameTable(table),
           inode' = [table EXCEPT ![d].block[inode[d].blocks] = b, ![d].blocks = @ + 1],
           content' = [content EXCEPT ![b] = <<e>>]
    PROVE  Grown(d, k, b, e)
<1>1. /\ table[d] \in Inode /\ table[d].mode = inode[d].mode
      /\ table[d].blocks = k /\ table[d].block = inode[d].block
  BY DEF SameTable
<1>2. table[d].block \in [0 .. Direct -> Blocks]
  BY <1>1 DEF Inode
<1>3. inode' = [table EXCEPT ![d].block[k] = b, ![d].blocks = @ + 1]
  OBVIOUS
<1>4. /\ inode'[d].mode = table[d].mode /\ inode'[d].blocks = table[d].blocks + 1
      /\ inode'[d].block = [table[d].block EXCEPT ![k] = b]
      /\ \A i \in Inodes : i # d => inode'[i] = table[i]
  BY <1>1, <1>3 DEF Inode
<1>5. inode'[d].block[k] = b /\ \A j \in 0 .. Direct : j # k => inode'[d].block[j] = inode[d].block[j]
  <2>1. PICK old, new : old = table[d].block /\ new = inode'[d].block
    OBVIOUS
  <2>2. old \in [0 .. Direct -> Blocks] /\ new = [old EXCEPT ![k] = b] /\ old = inode[d].block
    BY <1>1, <1>2, <1>4, <2>1
  <2>3. new[k] = b /\ \A j \in 0 .. Direct : j # k => new[j] = old[j]
    BY <2>2
  <2> QED
    BY <2>1, <2>2, <2>3
<1>6. \A i \in Inodes : inode'[i].mode = inode[i].mode /\ (i # d => SameOwn(i))
  <2>1. ASSUME NEW i \in Inodes, i # d PROVE SameOwn(i)
    BY <1>4, <2>1 DEF SameTable, SameOwn
  <2>2. inode'[d].mode = inode[d].mode
    BY <1>1, <1>4
  <2> QED
    BY <2>1, <2>2 DEF SameOwn
<1>7. content'[b] = <<e>> /\ \A c \in Blocks : c # b => content'[c] = content[c]
  BY DEF TypeOK
<1>8. inode'[d].blocks = k + 1
  BY <1>1, <1>4
<1> QED
  BY <1>5, <1>6, <1>7, <1>8 DEF Grown

LEMMA AddsEntryOwn ==
    ASSUME TypeOK, damage \subseteq damage', Kept, Ownership, Intact', tool.pc = "entry", NEW type \in Types,
           Fitting(tool.ino, type), NEW table \in [Inodes -> Inode], SameTable(table),
           AddsEntry(type, table)
    PROVE  Ownership'
<1> DEFINE e == NewEntry(tool.name, tool.ino, type, 0, Capacity)
           b == IF tool.grow THEN FirstEmpty(ClearBlocks) ELSE tool.block
           d == tool.parent
<1>1. CASE ~ tool.grow /\ Stuck(b) /\ Spin
  BY <1>1, QuietEnds, QuietOwn
<1>2. CASE /\ ~ tool.grow
           /\ ~ Stuck(b)
           /\ content' = Appended(b, e)
           /\ inode' = table
           /\ tool' = Idle
           /\ exit' = "ok"
           /\ damage' = damage
                \cup (IF RunsOver(b) /\ content[b + 1] # <<Zero>> THEN {"padded"} ELSE {})
                \cup Twin
           /\ UNCHANGED <<blockBits, inodeBits, freeBlocks, freeInodes, usedDirs, runs, losses>>
  <2>1. PICK c : c = tool.block
    OBVIOUS
  <2>2. ~ Stuck(c) /\ content' = Appended(c, e)
    BY <1>2, <2>1
  <2>3. "junk" \notin damage'
    BY <1>2, NoJunk DEF Ownership
  <2>4. SameTable(inode')
    BY <1>2
  <2>5. /\ tool' = Idle
        /\ UNCHANGED <<blockBits, inodeBits, freeBlocks, freeInodes, usedDirs>>
    BY <1>2
  <2>6. RunsOver(c) /\ content[c + 1] # <<Zero>> => "padded" \in damage'
    BY <1>2, <2>1
  <2> QED
    BY <2>1, <2>2, <2>3, <2>4, <2>5, <2>6, AppendOwn
<1>3. CASE tool.grow /\ b \notin Blocks /\ End("failed")
  BY <1>3, QuietEnds, QuietOwn
<1>4. CASE /\ tool.grow
           /\ b \in Blocks
           /\ inode' = [table EXCEPT ![d].block[inode[d].blocks] = b, ![d].blocks = @ + 1]
           /\ content' = [content EXCEPT ![b] = <<e>>]
           /\ TakesBlock(b)
           /\ damage' = damage \cup Overrun({b}) \cup Reused(b) \cup Twin
           /\ tool' = Idle
           /\ exit' = "ok"
           /\ UNCHANGED <<inodeBits, freeInodes, usedDirs, runs, losses>>
  <2>1. PICK c, p, k : c = FirstEmpty(ClearBlocks) /\ p = tool.parent /\ k = inode[p].blocks
    OBVIOUS
  <2>2. b = c /\ c \in Blocks
    BY <1>4, <2>1
  <2>3. p \in Inodes /\ k \in Nat /\ k < Direct
    BY <1>4, <2>1 DEF Ownership, ParentSound, TypeOK, Tool, Inode
  <2>4. k \in 0 .. Direct
    BY <2>3, Sizes
  <2>5. /\ inode' = [table EXCEPT ![p].block[inode[p].blocks] = c, ![p].blocks = @ + 1]
        /\ content' = [content EXCEPT ![c] = <<e>>]
    BY <1>4, <2>1, <2>2
  <2>6. "junk" \notin damage' /\ Overrun({c}) \subseteq damage'
    <3>1. damage' = damage \cup Overrun({c}) \cup Reused(c) \cup Twin
      BY <1>4, <2>2
    <3> QED
      BY <3>1, NoJunk DEF Ownership
  <2>7. TakesBlock(c) /\ tool' = Idle /\ UNCHANGED <<inodeBits, freeInodes, usedDirs>>
    BY <1>4, <2>2
  <2>8. tool.grow
    BY <1>4
  <2> HIDE DEF e
  <2>9. Grown(p, k, c, e)
    BY <2>1, <2>2, <2>3, <2>4, <2>5, GrownTable
  <2> USE DEF e
  <2> QED
    BY <2>1, <2>2, <2>6, <2>7, <2>8, <2>9, GrowOwn
<1> QED
  BY <1>1, <1>2, <1>3, <1>4, Zenon DEF AddsEntry

LEMMA newEntriesOwn ==
    ASSUME TypeOK, damage \subseteq damage', Kept, Ownership, Intact',
           \/ addNewDirToParentDirEntList \/ addNewFileToParentDirEntList
           \/ addSymbolicLink \/ addHardLink
    PROVE  Ownership'
<1>1. inode \in [Inodes -> Inode] /\ SameTable(inode) /\ {"dir", "reg", "lnk"} \subseteq Types
  BY DEF TypeOK, SameTable, Types
<1>2. ASSUME tool.pc = "entry", tool.cmd # "ln" PROVE inode[tool.ino].mode = ModeOf(tool.cmd)
  BY <1>2 DEF Ownership, NewSound, HoldsInode
<1>3. CASE addNewDirToParentDirEntList
  <2>1. tool.pc = "entry" /\ tool.cmd = "mkdir" /\ AddsEntry("dir", inode)
    BY <1>3 DEF addNewDirToParentDirEntList
  <2>2. Fitting(tool.ino, "dir")
    BY <1>2, <2>1 DEF Fitting, ModeOf
  <2> QED
    BY <1>1, <2>1, <2>2, AddsEntryOwn
<1>4. CASE addNewFileToParentDirEntList
  <2>1. tool.pc = "entry" /\ tool.cmd = "cp" /\ AddsEntry("reg", inode)
    BY <1>4 DEF addNewFileToParentDirEntList
  <2>2. Fitting(tool.ino, "reg")
    BY <1>2, <2>1 DEF Fitting, ModeOf
  <2> QED
    BY <1>1, <2>1, <2>2, AddsEntryOwn
<1>5. CASE addSymbolicLink
  <2>1. tool.pc = "entry" /\ tool.cmd = "ln -s" /\ AddsEntry("lnk", inode)
    BY <1>5 DEF addSymbolicLink
  <2>2. Fitting(tool.ino, "lnk")
    BY <1>2, <2>1 DEF Fitting, ModeOf
  <2> QED
    BY <1>1, <2>1, <2>2, AddsEntryOwn
<1>6. CASE addHardLink
  <2> DEFINE i == tool.ino
             mode == inode[i].mode
             type == CASE mode \in {"reg", "lnk"} -> "reg"
                       [] mode = "dir" -> "dir"
                       [] OTHER -> "unknown"
             table == [inode EXCEPT ![i].links = @ + 1]
  <2>1. tool.pc = "entry" /\ AddsEntry(type, table)
    BY <1>6 DEF addHardLink
  <2>2. i \in Inodes /\ inode[i] \in Inode
    BY DEF TypeOK, Tool
  <2>3. [inode[i] EXCEPT !.links = @ + 1] \in Inode
    BY <2>2 DEF Inode
  <2>4. table \in [Inodes -> Inode] /\ SameTable(table)
    BY <2>2, <2>3 DEF TypeOK, SameTable, Inode
  <2>5. mode \in {"reg", "dir", "lnk"}
    <3>1. i \in Owners
      BY <2>1 DEF Owners, Pending
    <3> QED
      BY <3>1 DEF Ownership, Image, OwnerSound
  <2>6. type \in Types /\ Fitting(i, type)
    BY <2>5 DEF Fitting, Types
  <2> HIDE DEF type, table
  <2> QED
    BY <2>1, <2>4, <2>6, AddsEntryOwn
<1> QED
  BY <1>3, <1>4, <1>5, <1>6

LEMMA newInodesOwn ==
    ASSUME TypeOK, damage \subseteq damage', Kept, Ownership,
           allocateNewDirInode \/ allocateNewFileInode \/ allocateNewLinkInode
    PROVE  Ownership'
<1>1. CASE End("failed")
  BY <1>1, QuietEnds, QuietOwn
<1>2. CASE allocateNewDirInode /\ ~ End("failed")
  <2>1. /\ tool.pc = "inode" /\ tool.cmd = "mkdir" /\ CanTakeInode(1)
        /\ TakesInode("dir", 2, 1) /\ usedDirs' = usedDirs + 1
    BY <1>2 DEF allocateNewDirInode
  <2> QED
    BY <2>1, TakesInodeOwn DEF CanTakeInode, ModeOf
<1>3. CASE allocateNewFileInode /\ ~ End("failed")
  <2>1. PICK n : n = BlockCalc(tool.bytes)
    OBVIOUS
  <2>2. /\ tool.pc = "inode" /\ tool.cmd = "cp" /\ CanTakeInode(n)
        /\ TakesInode("reg", 1, n) /\ UNCHANGED usedDirs
    BY <1>3, <2>1 DEF allocateNewFileInode
  <2> QED
    BY <2>1, <2>2, TakesInodeOwn DEF CanTakeInode, ModeOf
<1>4. CASE allocateNewLinkInode /\ ~ End("failed")
  <2>1. /\ tool.pc = "inode" /\ tool.cmd = "ln -s" /\ CanTakeInode(1)
        /\ TakesInode("lnk", 0, 1) /\ UNCHANGED usedDirs
    BY <1>4 DEF allocateNewLinkInode
  <2> QED
    BY <2>1, TakesInodeOwn DEF CanTakeInode, ModeOf
<1> QED
  BY <1>1, <1>2, <1>3, <1>4

-----------------------------------------------------------------------------
(* An entry is removed, with its inode. *)

\* Directories do not share the boot block, so that all their entries are spots.
LEMMA EntrySpots ==
    ASSUME TypeOK, AllFit, Image, NEW c \in DirBlocks, NEW k \in 1 .. Len(content[c])
    PROVE  <<c, k>> \in Spots
<1>1. PICK d \in Dirs : c \in Owned(d)
  BY DEF DirBlocks
<1>2. d \in Owners
  BY DEF Owners
<1>3. Own(d) \cap 0 .. MetaBlocks = {}
  BY <1>2, OwnedBlocks
<1>4. LostLast # 0 /\ 0 \in 0 .. MetaBlocks
  BY Sizes DEF LostLast, RootBlock
<1>5. c # 0
  BY <1>1, <1>3, <1>4 DEF Own
<1>6. c \in Blocks
  BY DirBlocksTyped
<1>7. content[c] \in Chain /\ Fits(content[c])
  BY <1>5, <1>6 DEF TypeOK, AllFit
<1>8. Len(content[c]) \in 1 .. Capacity
  BY <1>7, FitsShort
<1>9. k \in 1 .. Capacity /\ k <= Len(content[c])
  BY <1>8, Sizes
<1> QED
  BY <1>9 DEF Spots

LEMMA UnlinkedKeeps ==
    ASSUME NEW chain \in Chain, NEW j \in 1 .. Len(chain), j # 1
    PROVE  LET e == Unlinked(chain, j)[1] IN e.name = chain[1].name /\ e.inode = chain[1].inode
<1> DEFINE new == Unlinked(chain, j)
<1>1. /\ Len(chain) \in Nat \ {0}
      /\ \A k \in 1 .. Len(chain) - 1 :
           /\ k < j - 1 => new[k] = chain[k]
           /\ k > j - 1 => new[k] = chain[k + 1]
           /\ k = j - 1 => new[k] = [chain[k] EXCEPT !.rec = @ + chain[j].rec]
  BY UnlinkedParts
<1>2. 1 \in 1 .. Len(chain) - 1 /\ ~ 1 > j - 1 /\ (1 < j - 1 \/ 1 = j - 1)
  BY <1>1
<1>3. chain[1] \in Entry
  BY <1>1 DEF Chain
<1> HIDE DEF new
<1>4. CASE 1 < j - 1
  <2>1. new[1] = chain[1]
    BY <1>1, <1>2, <1>4
  <2> QED
    BY <2>1 DEF new
<1>5. CASE 1 = j - 1
  <2>1. new[1] = [chain[1] EXCEPT !.rec = @ + chain[j].rec]
    BY <1>1, <1>2, <1>5
  <2>2. new[1].name = chain[1].name /\ new[1].inode = chain[1].inode
    BY <1>3, <2>1 DEF Entry
  <2> QED
    BY <2>2 DEF new
<1> QED
  BY <1>2, <1>4, <1>5

\* Entry j of block b is removed, and the inode i that it names; its only block is f.
Removed(b, j, i, f) ==
    /\ b \in DirBlocks /\ j \in 1 .. Len(content[b])
    /\ content[b][j].inode = i /\ content[b][j].type \in {"reg", "lnk"}
    /\ i \in Owners /\ inode[i].mode \in {"reg", "lnk"} /\ OneBlock(inode[i])
    /\ f \in Own(i)
    /\ \A k \in Inodes : SameOwn(k)
    /\ content'[b] = Unlinked(content[b], j)
    /\ \A c \in Blocks : c # b => content'[c] = content[c]
    /\ inodeBits' = inodeBits \ {i} /\ freeInodes' = freeInodes + 1
    /\ blockBits' = blockBits \ {f} /\ freeBlocks' = freeBlocks + 1
    /\ UNCHANGED <<usedDirs, tool>>
    /\ \A s \in Spots : s # <<b, j>> => Named(s).inode # i

\* The first entries of the blocks that directories start in stay.
LEMMA RemovedStarts ==
    ASSUME TypeOK, Image, tool.pc = "idle", NEW b, NEW j, NEW i, NEW f, Removed(b, j, i, f)
    PROVE  /\ content[b] # <<Zero>> /\ content[b] \in Chain /\ b \in Blocks
           /\ \A c \in Blocks : KeepsDots(c) /\ (content[c][1].name = "." => KeepsStart(c))
<1>1. b \in Blocks /\ j \in 1 .. Len(content[b])
  BY DirBlocksTyped DEF Removed
<1>2. content[b] \in Chain /\ content'[b] = Unlinked(content[b], j)
  BY <1>1 DEF TypeOK, Removed
<1>3. content[b] # <<Zero>>
  <2>1. SUFFICES ASSUME content[b] = <<Zero>> PROVE FALSE
    OBVIOUS
  <2>2. j = 1
    BY <1>1, <2>1
  <2>3. content[b][j] = Zero
    BY <2>1, <2>2
  <2>4. Zero.type = "unknown"
    BY DEF Zero, NewEntry
  <2> QED
    BY <2>3, <2>4 DEF Removed
<1>4. j = 1 => content[b][1].name # "."
  <2>1. SUFFICES ASSUME j = 1, content[b][1].name = "." PROVE FALSE
    OBVIOUS
  <2>2. content[b][1].inode = i
    BY <2>1 DEF Removed
  <2>3. inode[i].mode = "dir"
    BY <1>1, <2>1, <2>2 DEF Image, DotsOwned
  <2> QED
    BY <2>3 DEF Removed
<1>5. content'[b][1].name = content[b][1].name
  BY <1>1, <1>2, UnlinkedFirst
<1>6. j # 1 => content'[b][1].inode = content[b][1].inode
  BY <1>1, <1>2, UnlinkedKeeps
<1>7. KeepsDots(b) /\ (content[b][1].name = "." => KeepsStart(b))
  BY <1>3, <1>4, <1>5, <1>6 DEF KeepsDots, KeepsStart
<1>8. ASSUME NEW c \in Blocks, c # b PROVE KeepsDots(c) /\ KeepsStart(c)
  BY <1>8, SameStart DEF Removed
<1> QED
  BY <1>1, <1>2, <1>3, <1>7, <1>8

LEMMA RemovedNames ==
    ASSUME TypeOK, AllFit, Image, tool.pc = "idle",
           NEW b, NEW j, NEW i, NEW f, Removed(b, j, i, f)
    PROVE  /\ Dirs' \subseteq Dirs /\ Linked' \subseteq Linked /\ Agreed'
           /\ i \notin Owners' /\ Owners' \subseteq Owners
<1>1. /\ content[b] \in Chain /\ b \in Blocks
      /\ \A c \in Blocks : KeepsDots(c)
  BY RemovedStarts
<1>2. /\ \A k \in Inodes : SameOwn(k)
      /\ j \in 1 .. Len(content[b]) /\ b \in DirBlocks
      /\ content'[b] = Unlinked(content[b], j)
      /\ \A c \in Blocks : c # b => content'[c] = content[c]
      /\ inodeBits' = inodeBits \ {i}
      /\ UNCHANGED tool
  BY DEF Removed
<1>3. i \in Inodes /\ inode[i].mode # "dir"
  BY OwnerTyped DEF Removed
<1>4. Dirs' \subseteq Dirs /\ DirBlocks' \subseteq DirBlocks
  <2>1. PICK B, x : B = {} /\ x = -1
    OBVIOUS
  <2>2. x \notin Dirs'
    <3>1. inodeBits' \subseteq Inodes
      BY <1>2 DEF TypeOK
    <3>2. x \notin Inodes
      BY <2>1, Sizes
    <3> QED
      BY <3>1, <3>2 DEF Dirs
  <2>3. \A k \in Inodes : inode'[k].mode = inode[k].mode /\ (k # x => SameOwn(k))
    BY <1>2 DEF SameOwn
  <2>4. inodeBits' \subseteq inodeBits
    BY <1>2
  <2>5. Dirs' \subseteq Dirs \cup {x} /\ DirBlocks' \subseteq DirBlocks \cup B
    BY <1>1, <2>2, <2>3, <2>4, DirsStep
  <2> QED
    BY <2>1, <2>2, <2>5
<1>5. \A c \in DirBlocks', k \in Inodes, t \in Types :
        Lists(content'[c], k, t) => c \in DirBlocks /\ Lists(content[c], k, t) /\ k # i
  <2> SUFFICES ASSUME NEW c \in DirBlocks', NEW k \in Inodes, NEW t \in Types,
                      Lists(content'[c], k, t)
               PROVE  c \in DirBlocks /\ Lists(content[c], k, t) /\ k # i
    OBVIOUS
  <2>1. c \in DirBlocks /\ c \in Blocks
    BY <1>4, DirBlocksTyped
  <2>2. \A n \in 1 .. Len(content[c]) :
          <<c, n>> # <<b, j>> => content[c][n].inode # i
    <3> SUFFICES ASSUME NEW n \in 1 .. Len(content[c]), <<c, n>> # <<b, j>>
                 PROVE  content[c][n].inode # i
      OBVIOUS
    <3>1. <<c, n>> \in Spots
      BY <2>1, EntrySpots
    <3>2. Named(<<c, n>>) = content[c][n]
      BY DEF Named
    <3>3. Named(<<c, n>>).inode # i
      BY <3>1 DEF Removed
    <3> QED
      BY <3>2, <3>3
  <2>3. CASE c = b
    <3>1. PICK n \in 1 .. Len(content[b]) :
             n # j /\ content[b][n].inode = k /\ content[b][n].type = t
      BY <1>1, <1>2, <2>3, ListsUnlinked
    <3>2. k # i
      BY <2>2, <2>3, <3>1
    <3> QED
      BY <2>1, <2>3, <3>1, <3>2 DEF Lists
  <2>4. CASE c # b
    <3>1. content'[c] = content[c]
      BY <1>2, <2>1, <2>4
    <3>2. PICK n \in 1 .. Len(content[c]) : content[c][n].inode = k /\ content[c][n].type = t
      BY <3>1 DEF Lists
    <3>3. <<c, n>> # <<b, j>>
      BY <2>4
    <3>4. k # i
      BY <2>2, <3>2, <3>3
    <3> QED
      BY <2>1, <3>1, <3>4
  <2> QED
    BY <2>3, <2>4
<1>6. Linked' \subseteq Linked /\ Agreed'
  <2>1. PICK X : X = {}
    OBVIOUS
  <2>2. Agreed /\ \A k \in Linked : inode'[k].mode = inode[k].mode
    BY <1>2 DEF Image, SameOwn, Linked
  <2>3. \A c \in DirBlocks', k \in Inodes, t \in Types :
          Lists(content'[c], k, t) =>
             \/ c \in DirBlocks /\ Lists(content[c], k, t)
             \/ k \in X /\ Fitting(k, t)'
    BY <1>5
  <2>4. Linked' \subseteq Linked \cup X /\ Agreed'
    BY <2>2, <2>3, NamesStep
  <2> QED
    BY <2>1, <2>4
<1>7. i \notin Linked'
  BY <1>5 DEF Linked
<1>8. Pending' = {} /\ Pending = {}
  BY <1>2 DEF Pending
<1>9. i \notin Dirs /\ i # Root
  BY <1>3 DEF Dirs, Image
<1> QED
  BY <1>4, <1>6, <1>7, <1>8, <1>9 DEF Owners

LEMMA RemovedCounts ==
    ASSUME TypeOK, Image, Counted, NEW b, NEW j, NEW i, NEW f, Removed(b, j, i, f)
    PROVE  Counted'
<1>1. /\ i \in Owners /\ inode[i].mode \in {"reg", "lnk"} /\ f \in Own(i)
      /\ \A k \in Inodes : inode'[k].mode = inode[k].mode
      /\ inodeBits' = inodeBits \ {i} /\ freeInodes' = freeInodes + 1
      /\ blockBits' = blockBits \ {f} /\ freeBlocks' = freeBlocks + 1
      /\ usedDirs' = usedDirs
  BY DEF Removed, SameOwn
<1>2. f \in Blocks /\ f \in blockBits /\ i \in Inodes /\ i \in inodeBits
  BY <1>1, OwnedBlocks, OwnerTyped DEF Image, OwnerSound
<1>3. f \notin ClearBlocks /\ ClearBlocks' = ClearBlocks \cup {f}
  BY <1>1, <1>2 DEF ClearBlocks
<1>4. i \notin ClearInodes /\ ClearInodes' = ClearInodes \cup {i}
  BY <1>1, <1>2 DEF ClearInodes
<1>5. /\ Cardinality(ClearBlocks') = Cardinality(ClearBlocks) + 1
      /\ Cardinality(ClearInodes') = Cardinality(ClearInodes) + 1
  BY <1>3, <1>4, FiniteDisk, OneMore
<1>6. {k \in inodeBits' : inode'[k].mode = "dir"} = {k \in inodeBits : inode[k].mode = "dir"}
  BY <1>1 DEF TypeOK
<1> QED
  BY <1>1, <1>5, <1>6 DEF Counted

LEMMA RemovedOwn ==
    ASSUME TypeOK, damage \subseteq damage', AllFit, Ownership, tool.pc = "idle", "junk" \notin damage',
           NEW b, NEW j, NEW i, NEW f, Removed(b, j, i, f)
    PROVE  Ownership'
<1>1. /\ Dirs' \subseteq Dirs /\ Linked' \subseteq Linked /\ Agreed'
      /\ i \notin Owners' /\ Owners' \subseteq Owners
  BY RemovedNames DEF Ownership
<1>2. \A c \in Blocks : KeepsDots(c) /\ (content[c][1].name = "." => KeepsStart(c))
  BY RemovedStarts DEF Ownership
<1>3. content[b] # <<Zero>> /\ b \in Blocks
  BY RemovedStarts DEF Ownership
<1>4. /\ \A k \in Inodes : SameOwn(k)
      /\ i \in Owners /\ inode[i].mode \in {"reg", "lnk"} /\ OneBlock(inode[i]) /\ f \in Own(i)
      /\ inodeBits' = inodeBits \ {i} /\ blockBits' = blockBits \ {f}
      /\ tool' = tool
      /\ \A c \in Blocks : c # b => content'[c] = content[c]
  BY DEF Removed
<1>5. NewSound' /\ PointersApart' /\ ParentSound' /\ ~ Unfinished'
  BY <1>4, QuietSound
<1>6. Counted'
  BY RemovedCounts DEF Ownership
<1>7. Image
  BY DEF Ownership
<1>8. i \in Inodes /\ i \in inodeBits
  BY <1>4, <1>7, OwnerTyped DEF Image, OwnerSound
<1>9. \A k \in Owners \ {i} :
         /\ SameOwn(k) /\ k \in inodeBits' /\ Own(k) \subseteq blockBits'
         /\ inode[k].mode = "dir" => KeepsStart(inode[k].block[0])
  <2> SUFFICES ASSUME NEW k \in Owners, k # i
               PROVE  /\ SameOwn(k) /\ k \in inodeBits' /\ Own(k) \subseteq blockBits'
                      /\ inode[k].mode = "dir" => KeepsStart(inode[k].block[0])
    OBVIOUS
  <2>1. k \in Inodes /\ inode[k].block[0] \in Blocks /\ OwnerSound(k)
    BY <1>7, OwnerTyped DEF Image
  <2>2. k \in inodeBits' /\ Own(k) \subseteq blockBits
    BY <1>4, <1>7, <2>1, OwnedBlocks DEF OwnerSound
  <2>3. f \notin Own(k)
    BY <1>4, <1>7 DEF Image, Apart
  <2>4. ASSUME inode[k].mode = "dir" PROVE KeepsStart(inode[k].block[0])
    <3>1. PICK c : c = inode[k].block[0]
      OBVIOUS
    <3>2. CASE c = b
      <4>1. ~ Zeroed(k)
        BY <1>3, <3>1, <3>2 DEF Zeroed
      <4>2. k \in Dirs
        BY <2>1, <2>4, <4>1 DEF OwnerSound
      <4>3. content[c][1].name = "."
        BY <3>1, <4>2, InDirs
      <4> QED
        BY <1>2, <2>1, <3>1, <4>3
    <3>3. CASE c # b
      BY <1>4, <2>1, <3>1, <3>3, SameStart
    <3> QED
      BY <3>2, <3>3
  <2>5. Own(k) \subseteq blockBits'
    BY <1>4, <2>2, <2>3
  <2> QED
    BY <1>4, <2>1, <2>2, <2>4, <2>5
<1>10. FreeClean'
  <2>1. \A k \in Inodes : Later(inode[k]) => Later(inode'[k])
    BY <1>4 DEF SameOwn, Later
  <2>2. \A k \in Inodes \ inodeBits' : Later(inode[k])
    BY <1>4, <1>7 DEF Image, FreeClean, OneBlock
  <2> QED
    BY <2>1, <2>2 DEF FreeClean
<1>11. Image'
  <2>1. PICK none : none = -1
    OBVIOUS
  <2>2. \A k \in Owners : none \notin Own(k)
    <3>1. none \notin Blocks
      BY <2>1, Sizes
    <3> QED
      BY <1>7, <3>1, OwnedBlocks
  <2>3. Owners' \subseteq Owners \cup {i}
    BY <1>1
  <2>4. i \in Owners' =>
          /\ OwnerSound(i)'
          /\ \A c \in Own(i)' : c = none \/ (i \in Owners /\ c \in Own(i))
    BY <1>1
  <2>5. \A c \in Blocks :
             \/ KeepsDots(c)
             \/ /\ content'[c][1].inode = i /\ i \in inodeBits'
                /\ inode'[i].mode = "dir" /\ inode'[i].block[0] = c
                /\ i = tool'.ino => ~ Unfinished'
    BY <1>2
  <2>6. \A k \in inodeBits :
          inode[k].mode = "dir" /\ (k = tool.ino => ~ Unfinished) =>
            /\ k \in inodeBits' /\ inode'[k].mode = "dir"
            /\ inode'[k].block[0] = inode[k].block[0]
            /\ k = tool'.ino => ~ Unfinished'
    <3>1. inodeBits \subseteq Inodes
      BY DEF TypeOK
    <3> QED
      BY <1>4, <1>5, <3>1 DEF SameOwn
  <2>7. inode'[Root].mode = "dir"
    BY <1>4, <1>7, Sizes DEF Image, SameOwn
  <2>8. Agreed'
    BY <1>1
  <2> QED
    BY <1>7, <1>9, <1>10, <2>2, <2>3, <2>4, <2>5, <2>6, <2>7, <2>8, ImageStep
<1> QED
  BY <1>5, <1>6, <1>11 DEF Ownership

\* delEntry, with what it has found: entry j of block b names inode i of n blocks.
Frees(b, j, i, n, freed) ==
    /\ inodeBits' = inodeBits \ {i}
    /\ freeInodes' = freeInodes + 1
    /\ blockBits' = blockBits \ {Bit(c) : c \in freed}
    /\ freeBlocks' = freeBlocks + n
    /\ inode' = [inode EXCEPT ![i].links = 0]
    /\ content' = [content EXCEPT ![b] = Unlinked(content[b], j)]
    /\ damage' = damage
         \cup Overrun(freed)
         \cup (IF n <= Direct /\ 0 \notin freed THEN {} ELSE {"junk"})
         \cup (IF \E s \in Spots : s # <<b, j>> /\ Named(s).inode = i
               THEN {"dangling"} ELSE {})
    /\ UNCHANGED <<usedDirs, tool>>

\* What rm removes has one block, its own.
LEMMA delEntryRemoves ==
    ASSUME TypeOK, Ownership, Starts, Intact', NEW q \in Requests,
           Matches("file", q.name, Hit(Walk(q.dirs), "file", q.name)),
           Walk(q.dirs) \in Inodes, Hit(Walk(q.dirs), "file", q.name).inode >= 0,
           delEntry(Walk(q.dirs), q.name)
    PROVE  /\ tool.pc = "idle" /\ "junk" \notin damage'
           /\ \E b, j, i, f : Removed(b, j, i, f) /\ inode' = [inode EXCEPT ![i].links = 0]
<1>1. PICK d, e : d = Walk(q.dirs) /\ e = Hit(Walk(q.dirs), "file", q.name)
  OBVIOUS
<1>2. PICK p : p = First(Stops(d, "file", q.name))
  OBVIOUS
<1>3. /\ p \in Places(d) /\ EntryAt(d, p) = e
      /\ e.type \in {"reg", "lnk"} /\ e.inode >= 0
  BY <1>1, <1>2, rmoveFinds, Zenon
<1>4. PICK b, j, i : b = inode[d].block[p[1]] /\ j = p[2] /\ i = e.inode
  OBVIOUS
<1>5. Image /\ d \in Inodes /\ tool.pc = "idle"
  <2>1. tool.pc = "idle"
    BY Zenon DEF Starts
  <2> QED
    BY <1>1, <2>1 DEF Ownership
<1>6. d \in Dirs
  <2>1. d \in Reached
    BY <1>1, <1>5, WalkReached
  <2>2. SUFFICES ASSUME Zeroed(d), d \in Owners PROVE FALSE
    BY <1>5, <2>1, DirsOrZeroed
  <2>3. e = Zero
    BY <1>1, <1>5, <2>2, ZeroedHit
  <2>4. Zero.type = "unknown"
    BY DEF Zero, NewEntry
  <2> QED
    BY <1>3, <2>3, <2>4
<1>7. /\ p[1] \in 0 .. Direct - 1 /\ j \in 1 .. Len(content[b]) /\ b \in Blocks
      /\ e \in Entry /\ p[1] < inode[d].blocks
  BY <1>3, <1>4, <1>5, PlaceTyped DEF Places
<1>8. b \in DirBlocks
  BY <1>4, <1>6, <1>7 DEF DirBlocks, Owned
<1>9. content[b][j] = e
  BY <1>3, <1>4 DEF EntryAt
<1>10. i \in Inodes /\ i \in Linked /\ Fitting(i, e.type)
  <2>1. e.inode # -1
    BY <1>3
  <2> QED
    BY <1>1, <1>4, <1>5, <1>6, <2>1, HitLinked DEF Linked
<1>11. i \in Owners /\ inode[i].mode \in {"reg", "lnk"} /\ OwnerSound(i)
  BY <1>3, <1>5, <1>10 DEF Owners, Fitting, Image
<1>12. OneBlock(inode[i]) /\ inode[i].blocks = 1
  BY <1>11 DEF OwnerSound, OneBlock
<1>13. PICK f : f = inode[i].block[0]
  OBVIOUS
<1>14. f \in Own(i) /\ f \notin 0 .. MetaBlocks /\ f \in Nat
  <2>1. f \in Own(i) /\ f \in Blocks
    BY <1>11, <1>13, OwnerTyped DEF OwnerSound
  <2> QED
    BY <1>5, <1>11, <2>1, OwnedBlocks, Sizes
<1>15. 1 < Direct /\ ~ (1 > Direct) /\ 1 <= Direct
  BY NumbersAssumption
<1>16. PICK junk \in 0 .. WordBits - 1 :
          Frees(b, j, i, 1, {inode[i].block[k] : k \in 0 .. (IF 1 < Direct THEN 1 ELSE Direct) - 1}
                            \cup (IF 1 > Direct THEN {junk} ELSE {}))
  <2> DEFINE At == First(Stops(d, "file", q.name))
             Ino == EntryAt(d, At).inode
             Freed(y, n, junk) ==
               {inode[y].block[k] : k \in 0 .. (IF n < Direct THEN n ELSE Direct) - 1}
               \cup (IF n > Direct THEN {junk} ELSE {})
  <2>1. delEntry(d, q.name)
    BY <1>1
  <2>2. \E junk \in 0 .. WordBits - 1 :
           Frees(inode[d].block[At[1]], At[2], Ino, inode[Ino].blocks,
                 Freed(Ino, inode[Ino].blocks, junk))
    BY <2>1, Zenon DEF delEntry, Frees
  <2>3. Ino = i /\ At = p /\ inode[Ino].blocks = 1
    BY <1>2, <1>3, <1>4, <1>12
  <2> HIDE DEF At, Ino, Freed
  <2>4. \E junk \in 0 .. WordBits - 1 : Frees(b, j, i, 1, Freed(i, 1, junk))
    BY <1>4, <2>2, <2>3
  <2> QED
    BY <2>4 DEF Freed
<1>17. {inode[i].block[k] : k \in 0 .. (IF 1 < Direct THEN 1 ELSE Direct) - 1}
         \cup (IF 1 > Direct THEN {junk} ELSE {}) = {f}
  BY <1>13, <1>15
<1>18. /\ inodeBits' = inodeBits \ {i}
       /\ freeInodes' = freeInodes + 1
       /\ blockBits' = blockBits \ {Bit(c) : c \in {f}}
       /\ freeBlocks' = freeBlocks + 1
       /\ inode' = [inode EXCEPT ![i].links = 0]
       /\ content' = [content EXCEPT ![b] = Unlinked(content[b], j)]
       /\ damage' = damage
            \cup Overrun({f})
            \cup (IF 1 <= Direct /\ 0 \notin {f} THEN {} ELSE {"junk"})
            \cup (IF \E s \in Spots : s # <<b, j>> /\ Named(s).inode = i
                  THEN {"dangling"} ELSE {})
       /\ UNCHANGED <<usedDirs, tool>>
  BY <1>16, <1>17, Zenon DEF Frees
<1>19. blockBits' = blockBits \ {f}
  <2>1. Overrun({f}) \subseteq damage'
    BY <1>18
  <2>2. {f} \subseteq 0 .. WordBits - 1
    BY <2>1, NoOverrun
  <2>3. Bit(f) = f
    BY <1>14, <2>2, Sizes DEF Bit
  <2> QED
    BY <1>18, <2>3
<1>20. "junk" \notin damage'
  <2>1. 0 # f
    BY <1>14, Sizes
  <2>2. damage' = damage \cup Overrun({f}) \cup {} \cup
          (IF \E s \in Spots : s # <<b, j>> /\ Named(s).inode = i THEN {"dangling"} ELSE {})
    BY <1>15, <1>18, <2>1
  <2> QED
    BY <2>2, NoJunk DEF Ownership
<1>21. \A s \in Spots : s # <<b, j>> => Named(s).inode # i
  <2>1. "dangling" \notin damage'
    BY DEF Intact, Without
  <2> QED
    BY <1>18, <2>1
<1>22. \A k \in Inodes : SameOwn(k)
  BY <1>10, <1>18 DEF SameOwn, TypeOK, Inode
<1>23. /\ content'[b] = Unlinked(content[b], j)
       /\ \A c \in Blocks : c # b => content'[c] = content[c]
  BY <1>7, <1>18 DEF TypeOK
<1>24. Removed(b, j, i, f)
  BY <1>3, <1>4, <1>7, <1>8, <1>9, <1>11, <1>12, <1>14, <1>18, <1>19, <1>21, <1>22, <1>23
     DEF Removed
<1> QED
  BY <1>5, <1>18, <1>20, <1>24, Zenon

LEMMA delEntryOwn ==
    ASSUME TypeOK, damage \subseteq damage', AllFit, Ownership, Starts, Intact', NEW q \in Requests,
           Matches("file", q.name, Hit(Walk(q.dirs), "file", q.name)),
           Walk(q.dirs) \in Inodes, Hit(Walk(q.dirs), "file", q.name).inode >= 0,
           delEntry(Walk(q.dirs), q.name)
    PROVE  Ownership'
<1>1. /\ tool.pc = "idle" /\ "junk" \notin damage'
      /\ \E b, j, i, f : Removed(b, j, i, f)
  BY delEntryRemoves, Zenon
<1> QED
  BY <1>1, RemovedOwn

LEMMA rmoveOwn ==
    ASSUME TypeOK, damage \subseteq damage', AllFit, Ownership, Intact', NEW q \in Requests, rmove(q)
    PROVE  Ownership'
<1> DEFINE d == Walk(q.dirs)
           e == Hit(d, "file", q.name)
           finds == d \in Inodes /\ Matches("file", q.name, e)
           spins == d = Endless \/ (d >= 0 /\ ~ finds /\ e.rec = 0)
<1>1. /\ Starts
      /\ \/ spins /\ StartAnd("rm", "hung", exit)
         \/ ~ finds /\ ~ spins /\ StartAnd("rm", "idle", "failed")
         \/ finds /\ e.inode < 0 /\ StartAnd("rm", "idle", "killed")
         \/ finds /\ e.inode >= 0 /\ delEntry(d, q.name)
  BY Zenon DEF rmove
<1> HIDE DEF spins
<1>2. CASE finds /\ e.inode >= 0 /\ delEntry(d, q.name)
  BY <1>1, <1>2, delEntryOwn
<1> HIDE DEF finds
<1>3. CASE \E cmd, how : \E pc \in {"idle", "hung"} : StartAnd(cmd, pc, how)
  BY <1>3, QuietEnds, QuietOwn
<1> QED
  BY <1>1, <1>2, <1>3

-----------------------------------------------------------------------------
(* The image of mke2fs. *)

LEMMA InitBlocks ==
    ASSUME Init
    PROVE  /\ \A c \in Blocks, i \in Inodes : \A t :
                 Lists(content[c], i, t) => i \in {Root, Lost} /\ t = "dir"
           /\ content[RootBlock][1].name = "." /\ content[RootBlock][1].inode = Root
           /\ content[RootBlock + 1][1].name = "." /\ content[RootBlock + 1][1].inode = Lost
           /\ \A c \in Blocks : content[c][1].name = "." => c \in {RootBlock, RootBlock + 1}
<1> DEFINE root == <<NewEntry(".", Root, "dir", 0, 1), NewEntry("..", Root, "dir", 1, 1),
                     NewEntry(LostFound, Lost, "dir", 2, Capacity - 2)>>
           none == <<NewEntry("", -1, "unknown", 0, Capacity)>>
           dots == DotEntries(Lost, Root)
           zero == <<Zero>>
           system == <<System>>
<1>1. content = [b \in Blocks |-> CASE b = RootBlock -> root
                                    [] b = RootBlock + 1 -> dots
                                    [] b \in RootBlock + 2 .. LostLast -> none
                                    [] b \in 1 .. MetaBlocks -> system
                                    [] OTHER -> zero]
  BY Zenon DEF Init, DiskInit
<1>2. /\ \A i \in Inodes : \A t : Lists(root, i, t) => i \in {Root, Lost} /\ t = "dir"
      /\ root[1].name = "." /\ root[1].inode = Root
  <2> DEFINE x == NewEntry(".", Root, "dir", 0, 1)
             y == NewEntry("..", Root, "dir", 1, 1)
             z == NewEntry(LostFound, Lost, "dir", 2, Capacity - 2)
  <2>1. /\ x.name = "." /\ x.inode = Root /\ x.type = "dir"
        /\ y.inode = Root /\ y.type = "dir" /\ z.inode = Lost /\ z.type = "dir"
    BY DEF NewEntry
  <2> HIDE DEF x, y, z
  <2>2. \A i, t : Lists(<<x, y, z>>, i, t) => i \in {Root, Lost} /\ t = "dir"
    BY <2>1 DEF Lists
  <2>3. <<x, y, z>>[1] = x
    OBVIOUS
  <2> QED
    BY <2>1, <2>2, <2>3 DEF x, y, z
<1>3. \A i \in Inodes : \A t : /\ ~ Lists(none, i, t) /\ ~ Lists(zero, i, t)
                                    /\ ~ Lists(system, i, t)
  <2> DEFINE x == NewEntry("", -1, "unknown", 0, Capacity)
  <2>1. x.inode = -1
    BY DEF NewEntry
  <2>2. -1 \notin Inodes /\ System.inode = -1
    BY Sizes DEF System, Text, NewEntry
  <2> HIDE DEF x
  <2>3. \A i \in Inodes : \A t : ~ Lists(<<x>>, i, t) /\ ~ Lists(system, i, t)
    BY <2>1, <2>2, ListsOne
  <2> QED
    BY <2>3, ListsNone DEF x
<1>4. /\ \A i, t : Lists(dots, i, t) => i \in {Root, Lost} /\ t = "dir"
      /\ dots[1].name = "." /\ dots[1].inode = Lost
  <2>1. \A i, t : Lists(dots, i, t) => i \in {Root, Lost} /\ t = "dir"
    BY ListsDots
  <2>2. dots[1].name = "." /\ dots[1].inode = Lost
    BY DEF DotEntries, NewEntry
  <2> QED
    BY <2>1, <2>2
<1>5. none[1].name # "." /\ zero[1].name # "." /\ system[1].name # "."
  BY DEF NewEntry, Zero, System, Text
<1>6. /\ RootBlock \in Blocks /\ RootBlock + 1 \in Blocks /\ RootBlock # RootBlock + 1
      /\ {RootBlock, RootBlock + 1} \cap (RootBlock + 2 .. LostLast \cup 1 .. MetaBlocks) = {}
  BY NumbersAssumption DEF RootBlock, Blocks
<1> HIDE DEF root, none, dots, zero, system
<1>7. ASSUME NEW c \in Blocks, NEW i \in Inodes, NEW t, Lists(content[c], i, t)
      PROVE  i \in {Root, Lost} /\ t = "dir"
  BY <1>1, <1>2, <1>3, <1>4, <1>7
<1>8. content[RootBlock] = root /\ content[RootBlock + 1] = dots
  <2>1. \A c \in {RootBlock, RootBlock + 1} :
          c \notin RootBlock + 2 .. LostLast /\ c \notin 1 .. MetaBlocks
    BY <1>6
  <2> QED
    BY <1>1, <1>6, <2>1
<1>9. \A c \in Blocks : content[c][1].name = "." => c \in {RootBlock, RootBlock + 1}
  BY <1>1, <1>5
<1> QED
  BY <1>2, <1>4, <1>7, <1>8, <1>9

LEMMA InitTable ==
    ASSUME Init
    PROVE  /\ inodeBits = 0 .. Lost /\ Root # Lost /\ Root \in inodeBits /\ Lost \in inodeBits
           /\ \A i \in Inodes : inode[i].mode = IF i \in {Root, Lost} THEN "dir" ELSE "none"
           /\ \A i \in Inodes \ {Root, Lost} : Later(inode[i])
           /\ inode[Root].block[0] = RootBlock /\ Owned(Root) = {RootBlock}
           /\ inode[Lost].block[0] = RootBlock + 1
           /\ Owned(Lost) \subseteq RootBlock + 1 .. LostLast
           /\ RootBlock + 1 \in Owned(Lost)
<1>1. /\ {LostBlocks, Direct, MetaBlocks} \subseteq Nat \ {0} /\ 1 < LostBlocks
      /\ LostBlocks <= Direct
  BY NumbersAssumption
<1>2. inodeBits = 0 .. Lost /\ Root # Lost /\ Root \in inodeBits /\ Lost \in inodeBits
  <2>1. inodeBits = 0 .. Lost
    BY DEF Init, DiskInit
  <2> QED
    BY <2>1 DEF Root, Lost
<1> DEFINE count(i) == CASE i = Root -> 1 [] i = Lost -> LostBlocks [] OTHER -> 0
           start(i) == IF i = Root THEN RootBlock ELSE RootBlock + 1
<1>3. \A i \in Inodes :
        /\ inode[i].mode = IF count(i) = 0 THEN "none" ELSE "dir"
        /\ inode[i].blocks = count(i)
        /\ \A k \in 0 .. Direct :
             inode[i].block[k] = IF k < count(i) THEN start(i) + k ELSE 0
  BY DEF Init, DiskInit
<1>4. /\ count(Root) = 1 /\ count(Lost) = LostBlocks
      /\ \A i \in Inodes \ {Root, Lost} : count(i) = 0
      /\ start(Root) = RootBlock /\ start(Lost) = RootBlock + 1
  BY <1>2
<1> HIDE DEF count, start
<1>5. \A i \in Inodes : inode[i].mode = IF i \in {Root, Lost} THEN "dir" ELSE "none"
  <2>1. LostBlocks # 0
    BY <1>1
  <2>2. \A i \in Inodes : count(i) = 0 <=> i \notin {Root, Lost}
    BY <1>4, <2>1
  <2> QED
    BY <1>3, <2>2
<1>6. \A i \in Inodes \ {Root, Lost} : Later(inode[i])
  <2> SUFFICES ASSUME NEW i \in Inodes \ {Root, Lost}, NEW k \in 1 .. Direct
               PROVE  inode[i].block[k] = 0
    BY DEF Later
  <2>1. k \in 0 .. Direct /\ ~ k < 0
    BY <1>1
  <2> QED
    BY <1>3, <1>4, <2>1
<1>7. /\ \A k \in 0 .. Direct : inode[Root].block[k] = IF k < 1 THEN RootBlock + k ELSE 0
      /\ \A k \in 0 .. Direct :
           inode[Lost].block[k] = IF k < LostBlocks THEN RootBlock + 1 + k ELSE 0
      /\ inode[Root].blocks = 1 /\ inode[Lost].blocks = LostBlocks
  <2>1. Root \in Inodes /\ Lost \in Inodes
    BY Sizes
  <2> QED
    BY <1>3, <1>4, <2>1
<1>8. RootBlock \in Nat /\ LostLast = RootBlock + LostBlocks
  BY <1>1 DEF RootBlock, LostLast
<1>9. 0 \in 0 .. Direct /\ 0 \in 0 .. Direct - 1
  BY <1>1
<1>10. inode[Root].block[0] = RootBlock /\ inode[Lost].block[0] = RootBlock + 1
  BY <1>1, <1>7, <1>8, <1>9
<1>11. Owned(Root) = {RootBlock}
  <2>1. {k \in 0 .. Direct - 1 : k < 1} = {0}
    BY <1>1
  <2>2. Owned(Root) = {inode[Root].block[k] : k \in {0}}
    BY <1>7, <2>1 DEF Owned
  <2> QED
    BY <1>10, <2>2
<1>12. Owned(Lost) \subseteq RootBlock + 1 .. LostLast
  <2> SUFFICES ASSUME NEW k \in 0 .. Direct - 1, k < LostBlocks
               PROVE  inode[Lost].block[k] \in RootBlock + 1 .. LostLast
    BY <1>7 DEF Owned
  <2>1. k \in 0 .. Direct
    BY <1>1
  <2>2. inode[Lost].block[k] = RootBlock + 1 + k
    BY <1>7, <2>1
  <2> QED
    BY <1>1, <1>8, <2>2
<1>13. RootBlock + 1 \in Owned(Lost)
  BY <1>1, <1>7, <1>9, <1>10 DEF Owned
<1> QED
  BY <1>2, <1>5, <1>6, <1>10, <1>11, <1>12, <1>13

LEMMA InitOwners ==
    ASSUME Init
    PROVE  /\ Dirs = {Root, Lost} /\ Owners = {Root, Lost} /\ DirBlocks \subseteq Blocks
           /\ Linked \subseteq {Root, Lost}
<1>1. TypeOK
  BY InitTyped
<1>2. Dirs \subseteq {Root, Lost}
  <2> SUFFICES ASSUME NEW d \in Dirs PROVE d \in {Root, Lost}
    OBVIOUS
  <2>1. d \in Inodes /\ inode[d].mode = "dir"
    BY <1>1, InDirs, DirTyped
  <2> QED
    BY <2>1, InitTable
<1>3. Root \in Dirs /\ Lost \in Dirs
  BY InitTable, InitBlocks, InDirs, Sizes
<1>4. DirBlocks \subseteq Blocks
  BY <1>1, DirBlocksTyped
<1>5. Linked \subseteq {Root, Lost}
  BY <1>4, InitBlocks DEF Linked
<1>6. Pending = {}
  BY DEF Pending, Init, Idle
<1> QED
  BY <1>2, <1>3, <1>4, <1>5, <1>6 DEF Owners

LEMMA InitCounts == Init => Counted
<1> SUFFICES ASSUME Init PROVE Counted
  OBVIOUS
<1>1. /\ {NumBlocks, NumInodes, MetaBlocks, LostBlocks} \subseteq Nat \ {0}
      /\ MetaBlocks + LostBlocks + 2 < NumBlocks /\ 3 <= NumInodes
  BY NumbersAssumption
<1>2. /\ blockBits = 0 .. MetaBlocks + LostBlocks \cup {NumBlocks - 1}
      /\ inodeBits = 0 .. 2
      /\ freeBlocks = NumBlocks - 2 - MetaBlocks - LostBlocks
      /\ freeInodes = NumInodes - 3
      /\ usedDirs = 2
  BY DEF Init, DiskInit, Lost
<1>3. ClearBlocks = MetaBlocks + LostBlocks + 1 .. NumBlocks - 2
  BY <1>1, <1>2 DEF ClearBlocks, Blocks
<1>4. Cardinality(ClearBlocks) = NumBlocks - 2 - MetaBlocks - LostBlocks
  <2>1. PICK a, b : a = MetaBlocks + LostBlocks + 1 /\ b = NumBlocks - 2
    OBVIOUS
  <2>2. a \in Int /\ b \in Int /\ ~ a > b
    BY <1>1, <2>1
  <2>3. Cardinality(a .. b) = b - a + 1
    BY <2>2, FS_Interval
  <2>4. ClearBlocks = a .. b
    BY <1>3, <2>1
  <2>5. Cardinality(ClearBlocks) = b - a + 1
    BY <2>3, <2>4
  <2> QED
    BY <1>1, <2>1, <2>5
<1>5. ClearInodes = 3 .. NumInodes - 1
  BY <1>1, <1>2 DEF ClearInodes, Inodes
<1>6. Cardinality(ClearInodes) = NumInodes - 3
  <2>1. PICK a, b : a = 3 /\ b = NumInodes - 1
    OBVIOUS
  <2>2. a \in Int /\ b \in Int
    BY <1>1, <2>1
  <2>3. Cardinality(a .. b) = IF a > b THEN 0 ELSE b - a + 1
    BY <2>2, FS_Interval
  <2>4. ClearInodes = a .. b
    BY <1>5, <2>1
  <2>5. Cardinality(ClearInodes) = IF a > b THEN 0 ELSE b - a + 1
    BY <2>3, <2>4
  <2> QED
    BY <1>1, <2>1, <2>5
<1>7. {i \in inodeBits : inode[i].mode = "dir"} = {Root} \cup {Lost}
  <2>1. inodeBits \subseteq Inodes
    BY InitTyped DEF TypeOK
  <2> QED
    BY <2>1, InitTable
<1>8. Cardinality({Root} \cup {Lost}) = 2
  <2>1. Lost \notin {Root} /\ IsFiniteSet({Root}) /\ Cardinality({Root}) = 1
    BY InitTable, FS_Singleton
  <2>2. Cardinality({Root} \cup {Lost}) = Cardinality({Root}) + 1
    BY <2>1, OneMore
  <2> QED
    BY <2>1, <2>2
<1> QED
  BY <1>2, <1>4, <1>6, <1>7, <1>8 DEF Counted

LEMMA InitOwn == Init => Ownership
<1> SUFFICES ASSUME Init PROVE Ownership
  OBVIOUS
<1>1. Dirs = {Root, Lost} /\ Owners = {Root, Lost}
  BY InitOwners
<1>2. tool.pc = "idle" /\ damage = {} /\ ~ Unfinished
  BY DEF Init, Idle, Unfinished
<1>3. NewSound /\ PointersApart /\ ParentSound
  BY <1>2 DEF NewSound, PointersApart, ParentSound, HoldsInode, Unfinished
<1>4. /\ RootBlock = MetaBlocks + 1 /\ LostLast = RootBlock + LostBlocks
      /\ MetaBlocks \in Nat /\ LostBlocks \in Nat /\ 1 < LostBlocks
      /\ blockBits = 0 .. MetaBlocks + LostBlocks \cup {NumBlocks - 1}
  BY NumbersAssumption DEF RootBlock, LostLast, Init, DiskInit
<1>5. Own(Root) = {RootBlock}
  BY InitTable DEF Own
<1>6. Own(Lost) \subseteq RootBlock + 1 .. LostLast - 1 /\ RootBlock + 1 \in Own(Lost)
  <2>1. Own(Lost) = Owned(Lost) \ {LostLast}
    BY DEF Own
  <2> QED
    BY <1>4, <2>1, InitTable
<1>7. Own(Root) \cap Own(Lost) = {}
  BY <1>4, <1>5, <1>6
<1>8. Own(Root) \cup Own(Lost) \subseteq blockBits \ 0 .. MetaBlocks
  BY <1>4, <1>5, <1>6
<1>9. Root \in Inodes /\ Lost \in Inodes
  BY Sizes
<1>10. inode[Root].mode = "dir" /\ inode[Lost].mode = "dir"
  BY <1>9, InitTable
<1>11. OwnerSound(Root) /\ OwnerSound(Lost)
  BY <1>1, <1>5, <1>6, <1>8, <1>10, InitTable DEF OwnerSound
<1>12. Apart
  BY <1>1, <1>7 DEF Apart
<1>13. DotsOwned
  <2> SUFFICES ASSUME NEW b \in Blocks, content[b][1].name = "."
               PROVE  LET i == content[b][1].inode IN
                      i \in inodeBits /\ inode[i].mode = "dir" /\ inode[i].block[0] = b
    BY <1>2 DEF DotsOwned, Unfinished
  <2>1. b \in {RootBlock, RootBlock + 1}
    BY InitBlocks
  <2> QED
    BY <1>10, <2>1, InitBlocks, InitTable
<1>14. Agreed
  <2> SUFFICES ASSUME NEW c \in DirBlocks, NEW i \in Inodes, NEW t \in Types,
                      Lists(content[c], i, t)
               PROVE  Fitting(i, t)
    BY DEF Agreed
  <2>1. i \in {Root, Lost} /\ t = "dir"
    BY InitBlocks, InitOwners
  <2> QED
    BY <1>10, <2>1 DEF Fitting
<1>15. FreeClean
  BY InitTable DEF FreeClean
<1>16. Counted
  BY InitCounts
<1> QED
  BY <1>1, <1>2, <1>3, <1>10, <1>11, <1>12, <1>13, <1>14, <1>15, <1>16 DEF Ownership, Image

-----------------------------------------------------------------------------
(* Every step keeps the invariant. *)

LEMMA startsOwn ==
    ASSUME TypeOK, damage \subseteq damage', AllFit, Ownership, Intact', Start
    PROVE  Ownership'
<1>1. ASSUME NEW q \in Requests, makedir(q) PROVE Ownership'
  BY <1>1, makedirOwn
<1>2. ASSUME NEW q \in Requests, rmove(q) PROVE Ownership'
  BY <1>2, rmoveOwn
<1>3. ASSUME NEW q \in Requests, NEW local \in Names, copy(q, local) PROVE Ownership'
  BY <1>3, copyOwn
<1>4. ASSUME NEW q1 \in Requests, NEW q2 \in Requests, lnk(q1, q2) PROVE Ownership'
  BY <1>4, lnkOwn
<1> QED
  BY <1>1, <1>2, <1>3, <1>4, Zenon DEF Start

LEMMA StutterOwn == Ownership /\ UNCHANGED vars => Ownership'
<1> SUFFICES ASSUME Ownership, UNCHANGED vars PROVE Ownership'
  OBVIOUS
<1>1. UNCHANGED <<tool, damage, disk>>
  BY DEF vars
<1>2. UNCHANGED <<blockBits, inodeBits, freeBlocks, freeInodes, usedDirs, inode, content>>
  BY <1>1 DEF disk
<1>3. /\ Dirs' = Dirs /\ DirBlocks' = DirBlocks /\ Linked' = Linked
      /\ \A i : Owned(i)' = Owned(i) /\ Own(i)' = Own(i)
  BY <1>2, SameOwners
<1>4. Owners' = Owners
  BY <1>1, <1>3 DEF Owners, Pending
<1>5. Counted'
  BY <1>2, SameCounts DEF Ownership
<1>6. Image'
  <2>1. \A i \in Owners : OwnerSound(i)'
    BY <1>1, <1>2, <1>3 DEF Ownership, Image, OwnerSound, Zeroed, OneBlock, Later
  <2>2. Apart'
    BY <1>3, <1>4 DEF Ownership, Image, Apart
  <2>3. DotsOwned'
    BY <1>1, <1>2 DEF Ownership, Image, DotsOwned
  <2>4. Agreed' /\ FreeClean'
    BY <1>2, <1>3 DEF Ownership, Image, Agreed, FreeClean, Fitting, Lists, Later
  <2> QED
    BY <1>2, <1>4, <2>1, <2>2, <2>3, <2>4 DEF Ownership, Image
<1>7. NewSound' /\ PointersApart' /\ ParentSound'
  BY <1>1, <1>2, <1>3, <1>4
     DEF Ownership, NewSound, PointersApart, ParentSound, HoldsInode, Unfinished, Later
<1> QED
  BY <1>1, <1>5, <1>6, <1>7 DEF Ownership

LEMMA StepOwn ==
    ASSUME OwnInv, KeptInv', FitsInv', [Next]_vars PROVE OwnInv'
<1> SUFFICES ASSUME Intact' PROVE Ownership'
  BY DEF OwnInv
<1>1. damage \subseteq damage'
  BY DamageStays
<1>2. Intact
  BY <1>1 DEF Intact, Without
<1>3. TypeOK /\ AllFit /\ Ownership
  BY <1>2 DEF OwnInv, FitsInv
<1>4. Kept
  <2>1. Undamaged
    BY <1>2, <1>3 DEF Intact, Without, Undamaged, Ownership
  <2> QED
    BY <2>1 DEF OwnInv, KeptInv
<1>5. CASE Start
  BY <1>1, <1>3, <1>5, startsOwn
<1>6. CASE Mkdir
  BY <1>1, <1>3, <1>4, <1>6, newInodesOwn, allocateDirBlocksOwn, newEntriesOwn DEF Mkdir
<1>7. CASE Cp
  BY <1>1, <1>3, <1>4, <1>7, newInodesOwn, checksOwn, allocateFileBlocksOwn, newEntriesOwn DEF Cp
<1>8. CASE Ln
  BY <1>1, <1>3, <1>4, <1>8, newInodesOwn, allocateLinkBlocksOwn, newEntriesOwn DEF Ln
<1>9. CASE Interrupt
  <2>1. tool'.pc \in {"idle", "hung"} /\ UNCHANGED <<disk, damage>>
    BY <1>3, <1>9, QuietEnds
  <2> QED
    BY <1>1, <1>3, <2>1, QuietOwn
<1>10. CASE UNCHANGED vars
  BY <1>3, <1>10, StutterOwn
<1> QED
  BY <1>5, <1>6, <1>7, <1>8, <1>9, <1>10, Zenon DEF Next

LEMMA OwnInductive == Spec => []OwnInv
<1>1. Init => (Intact => Ownership)
  BY InitOwn
<1>2. OwnInv /\ KeptInv' /\ FitsInv' /\ [Next]_vars => OwnInv'
  BY StepOwn
<1>3. OwnInv <=> KeptInv /\ FitsInv /\ (Intact => Ownership)
  BY DEF OwnInv
<1> QED
  BY <1>1, <1>2, <1>3, KeptInductive, FitsInductive, PTL DEF Spec

-----------------------------------------------------------------------------
(* What the invariant says of the entries. *)

LEMMA SpotLinked ==
    ASSUME TypeOK, NEW s \in Spots, Named(s).inode # -1
    PROVE  /\ Named(s).inode \in Linked
           /\ Lists(content[s[1]], Named(s).inode, Named(s).type)
           /\ s[1] \in DirBlocks /\ Named(s).inode \in Inodes /\ Named(s).type \in Types
<1>1. s[1] \in DirBlocks /\ s[2] \in 1 .. Capacity /\ s[2] <= Len(content[s[1]])
  BY DEF Spots
<1>2. s[1] \in Blocks
  BY <1>1, DirBlocksTyped
<1> DEFINE chain == content[s[1]]
           e == chain[s[2]]
<1>3. chain \in Seq(Entry)
  BY <1>2 DEF TypeOK, Chain
<1>4. s[2] \in 1 .. Len(chain)
  BY <1>1, <1>3
<1>5. e \in Entry /\ Named(s) = e
  BY <1>3, <1>4 DEF Named
<1>6. Lists(chain, e.inode, e.type)
  BY <1>4 DEF Lists
<1>7. e.inode \in Inodes /\ e.type \in Types
  BY <1>5 DEF Entry
<1> HIDE DEF chain, e
<1>8. e.inode \in Linked
  BY <1>1, <1>6, <1>7 DEF Linked, chain
<1> QED
  BY <1>1, <1>5, <1>6, <1>7, <1>8 DEF chain

LEMMA NamedLinked == TypeOK => NamedInodes \subseteq Linked
<1> SUFFICES ASSUME TypeOK, NEW i \in NamedInodes PROVE i \in Linked
  OBVIOUS
<1>1. PICK s \in Spots : i = Named(s).inode
  BY DEF NamedInodes
<1>2. i # -1
  BY DEF NamedInodes
<1> QED
  BY <1>1, <1>2, SpotLinked

-----------------------------------------------------------------------------
(* The theorems. *)

LEMMA IntactWhen == ASSUME Without({"overrun", "dangling", "spilled"}) PROVE Intact
  BY DEF Without, Intact

\* As long as no block beyond the bitmap's word is taken or freed, rm leaves no
\* second name of what it frees, and no bytes that are no entries are written
\* into a directory or the boot block, the superblock's and the descriptor's
\* counts of free blocks, free inodes and directories are those of the bitmaps
\* and the inode table, between any two steps of mkdir, cp, ln and rm, also of
\* tools that fail halfway, hang or are killed.
THEOREM CountersAgree == Spec => []FreeCounts
<1>1. OwnInv => FreeCounts
  BY IntactWhen DEF OwnInv, Ownership, Counted, FreeCounts
<1> QED
  BY <1>1, OwnInductive, PTL

\* Under the same condition no two named inodes have a block in common, nor
\* one that the bitmap calls free, but for the last block of lost+found.
THEOREM NoBlockIsShared == Spec => []BlocksOwned
<1>1. OwnInv => BlocksOwned
  <2> SUFFICES ASSUME OwnInv, Intact,
                      NEW i \in NamedInodes, NEW j \in NamedInodes \ {i}
               PROVE  /\ Owned(i) \ {LostLast} \subseteq blockBits
                      /\ Owned(i) \cap Owned(j) \subseteq {LostLast}
    <3>1. ASSUME OwnInv, Intact, NEW i \in NamedInodes
          PROVE  Owned(i) \ {LostLast} \subseteq blockBits
      <4>1. TypeOK /\ Image
        BY <3>1 DEF OwnInv, FitsInv, Ownership
      <4>2. i \in Owners
        BY <4>1, NamedLinked DEF Owners
      <4> QED
        BY <4>1, <4>2 DEF Image, OwnerSound, Own
    <3> QED
      BY <3>1, IntactWhen, Zenon DEF BlocksOwned
  <2>1. TypeOK /\ Image
    BY DEF OwnInv, FitsInv, Ownership
  <2>2. i \in Owners /\ j \in Owners
    BY <2>1, NamedLinked DEF Owners
  <2>3. Own(i) \subseteq blockBits /\ Own(i) \cap Own(j) = {}
    BY <2>1, <2>2 DEF Image, OwnerSound, Apart
  <2>4. \A k : Owned(k) \subseteq Own(k) \cup {LostLast}
    BY DEF Own
  <2> QED
    BY <2>3, <2>4
<1> QED
  BY <1>1, OwnInductive, PTL

\* Under the same condition every entry that is in use names an inode that is
\* in use, and carries the file type of that inode.
THEOREM EntriesMatchInodes == Spec => []EntriesAgree
<1>1. OwnInv => EntriesAgree
  <2> SUFFICES ASSUME OwnInv, Intact, NEW s \in Spots, Named(s).inode >= 0
               PROVE  LET e == Named(s)
                          mode == inode[e.inode].mode
                      IN  /\ e.inode \in inodeBits
                          /\ e.type = "dir" <=> mode = "dir"
                          /\ e.type = "lnk" => mode = "lnk"
                          /\ e.type = "reg" => mode \in {"reg", "lnk"}
    BY IntactWhen, Zenon DEF EntriesAgree
  <2>1. TypeOK /\ Image
    BY DEF OwnInv, FitsInv, Ownership
  <2>2. Named(s).inode # -1
    OBVIOUS
  <2>3. /\ Named(s).inode \in Linked
        /\ Lists(content[s[1]], Named(s).inode, Named(s).type)
        /\ s[1] \in DirBlocks /\ Named(s).inode \in Inodes /\ Named(s).type \in Types
    BY <2>1, <2>2, SpotLinked
  <2>4. Named(s).inode \in inodeBits
    BY <2>1, <2>3 DEF Image, OwnerSound, Owners
  <2>5. Fitting(Named(s).inode, Named(s).type)
    BY <2>1, <2>3 DEF Image, Agreed
  <2> QED
    BY <2>4, <2>5 DEF Fitting
<1> QED
  BY <1>1, OwnInductive, PTL

-----------------------------------------------------------------------------
(* A healthy image: none of its directories was written over. *)

Harm == {"overrun", "padded", "dangling", "spilled"}
Healthy == TypeOK /\ Kept /\ Chains /\ AllFit /\ Ownership /\ Without(Harm)

LEMMA HarmStays == ASSUME [Next]_vars, Without(Harm)' PROVE Without(Harm)
  BY DamageStays DEF Without

LEMMA HealthyWhen ==
    ASSUME OwnInv, ChainInv, Without(Harm) PROVE Healthy
<1>1. Intact
  BY DEF Without, Harm, Intact
<1>2. TypeOK /\ AllFit /\ Ownership
  BY <1>1 DEF OwnInv, FitsInv
<1>3. Undamaged /\ Unspoilt
  BY <1>2 DEF Ownership, Without, Harm, Undamaged, Unspoilt
<1> QED
  BY <1>2, <1>3 DEF Healthy, ChainInv, KeptInv

LEMMA ReachedDirs ==
    ASSUME Healthy, NEW d \in Inodes, d \in Reached PROVE d \in Dirs
<1>1. d \in Dirs \/ Zeroed(d)
  BY DirsOrZeroed DEF Healthy, Ownership
<1>2. "padded" \notin damage
  BY DEF Healthy, Without, Harm
<1> QED
  BY <1>1, <1>2 DEF Zeroed

\* No scan of a directory stands still at an entry.
LEMMA EntryMoves ==
    ASSUME Healthy, NEW d \in Dirs, NEW p \in Places(d)
    PROVE  EntryAt(d, p).rec # 0
<1>1. TypeOK /\ WholeContent /\ WholeDirs /\ d \in Inodes
  BY DirTyped DEF Healthy, Chains
<1> DEFINE c == inode[d].block[p[1]]
           k == p[1]
           j == p[2]
<1>2. /\ k \in 0 .. Direct - 1 /\ k < inode[d].blocks
      /\ j \in 1 .. Len(content[c]) /\ c \in Blocks
  BY <1>1, PlaceTyped DEF Places
<1>3. Whole(content[c])
  <2> HIDE DEF k
  <2>1. Whole(content[inode[d].block[k]])
    BY <1>1, <1>2, ChainsGiveWhole
  <2> QED
    BY <2>1 DEF k
<1>4. EntryAt(d, p) = content[c][j]
  BY DEF EntryAt
<1>5. Len(content[c]) \in Nat
  BY <1>1, <1>2, LastTyped
<1> HIDE DEF c, j, k
<1>6. content[c][j].rec > 0
  BY <1>2, <1>3, <1>5, WholeParts
<1> QED
  BY <1>4, <1>6

LEMMA ScansEnd ==
    ASSUME Healthy, NEW d \in Dirs, NEW how, NEW n
    PROVE  Hit(d, how, n).rec # 0
<1> DEFINE S == Stops(d, how, n)
<1>1. Missing.rec = 1
  BY DEF Missing, NewEntry
<1>2. CASE S = {}
  BY <1>1, <1>2 DEF Hit
<1>3. CASE S # {}
  <2>1. First(S) \in Places(d)
    BY <1>3, DirTyped, FirstStop DEF Healthy
  <2>2. Hit(d, how, n) = EntryAt(d, First(S))
    BY <1>3 DEF Hit
  <2> HIDE DEF S
  <2> QED
    BY <2>1, <2>2, EntryMoves
<1> QED
  BY <1>2, <1>3

LEMMA RoomFound ==
    ASSUME Healthy, NEW d \in Dirs
    PROVE  /\ \A b \in Owned(d) : b \in Blocks /\ b # 0 /\ b \in DirBlocks /\ Whole(content[b]) /\ ~ Stuck(b)
           /\ ~ RoomSpins(d)
<1>1. TypeOK /\ Kept /\ WholeContent /\ WholeDirs /\ Ownership
  BY DEF Healthy, Chains
<1>2. ASSUME NEW b \in Owned(d)
      PROVE  b \in Blocks /\ b # 0 /\ b \in DirBlocks /\ Whole(content[b]) /\ ~ Stuck(b)
  <2>1. PICK k \in 0 .. Direct - 1 : k < inode[d].blocks /\ b = inode[d].block[k]
    BY DEF Owned
  <2>2. Whole(content[b]) /\ b \in DirBlocks
    BY <1>1, <2>1, ChainsGiveWhole DEF DirBlocks
  <2>3. b \in Blocks
    BY <1>1, <2>2, DirBlocksTyped
  <2>4. b \in Own(d) \/ b = LostLast
    BY DEF Own
  <2>5. d \in Owners
    BY DEF Owners
  <2>6. b # 0
    <3>1. 0 \in 0 .. MetaBlocks /\ LostLast # 0
      BY Sizes DEF LostLast, RootBlock
    <3>2. Own(d) \cap 0 .. MetaBlocks = {}
      BY <1>1, <2>5, OwnedBlocks DEF Ownership
    <3> QED
      BY <2>4, <3>1, <3>2
  <2>7. Len(content[b]) \in Nat \ {0}
    BY <1>1, <2>3, LastTyped
  <2>8. content[b][Len(content[b])].rec > 0
    <3> DEFINE n == Len(content[b])
    <3>1. n \in 1 .. n /\ n \in Nat /\ Len(content[b]) = n
      BY <2>7
    <3> HIDE DEF n
    <3>2. content[b][n].rec > 0
      BY <2>2, <3>1, WholeParts
    <3> QED
      BY <3>2 DEF n
  <2>9. ~ Stuck(b)
    BY <2>8 DEF Stuck, LastOf
  <2> QED
    BY <2>2, <2>3, <2>6, <2>9
<1>3. ~ RoomSpins(d)
  <2> DEFINE S == RoomIndexes(d)
  <2> SUFFICES ASSUME S # {} PROVE ~ Stuck(RoomBlock(d, S))
    BY DEF RoomSpins
  <2>1. S \in SUBSET Nat /\ \A k \in S : k \in 0 .. Direct - 1 /\ k < inode[d].blocks
    BY Sizes DEF RoomIndexes
  <2> HIDE DEF S
  <2>2. Min(S) \in S
    BY <2>1, MinOfSet
  <2>3. RoomBlock(d, S) \in Owned(d)
    BY <2>1, <2>2 DEF RoomBlock, Owned
  <2> QED
    BY <1>2, <2>3
<1> QED
  BY <1>2, <1>3

-----------------------------------------------------------------------------
(* A path leads to a directory or nowhere, but not round and round. *)

Found == {NoPath} \cup Dirs

LEMMA IntoFound ==
    ASSUME Healthy, NEW d \in Found, NEW how \in {"component", "exact"}, NEW n
    PROVE  Into(d, how, n) \in Found
<1>1. TypeOK /\ Image
  BY DEF Healthy, Ownership
<1>2. CASE d = NoPath
  <2>1. d < 0 /\ ~ d >= 0
    BY <1>2 DEF NoPath
  <2>2. Into(d, how, n) = d
    BY <2>1, Zenon DEF Into
  <2> QED
    BY <2>2
<1>3. CASE d \in Dirs
  <2>1. d \in Inodes /\ d >= 0 /\ d # NoPath
    <3>1. \A i \in Inodes : i >= 0 /\ i # -1
      BY Sizes
    <3>2. d \in Inodes
      BY <1>1, <1>3, DirTyped
    <3> QED
      BY <3>1, <3>2 DEF NoPath
  <2>2. d \in Reached
    <3>1. d \in Owners /\ inode[d].mode = "dir"
      BY <1>3, DirsOwn DEF Healthy
    <3> QED
      BY <3>1 DEF Reached
  <2>3. Into(d, how, n) \in Reached
    BY <1>1, <2>2, IntoReached
  <2>4. Into(d, how, n) # Endless
    <3> DEFINE e == Hit(d, how, n)
    <3>1. e.rec # 0
      BY <1>3, ScansEnd
    <3>2. e.inode \in Inodes \cup {-1}
      BY <1>1, <2>1, HitTyped DEF Entry
    <3>3. e.inode # Endless
      <4>1. \A i \in Inodes : i # -2
        BY Sizes
      <4> QED
        BY <3>2, <4>1 DEF Endless
    <3> HIDE DEF e
    <3> DEFINE found == Matches(how, n, e)
    <3>4. Into(d, how, n) = CASE d < 0 -> d
                              [] d >= 0 /\ found /\ e.type = "dir" -> e.inode
                              [] d >= 0 /\ ~ found /\ e.rec = 0 -> Endless
                              [] OTHER -> NoPath
      BY Zenon DEF Into, e
    <3> HIDE DEF found
    <3>5. d \in Int /\ ~ d < 0
      BY <2>1, Sizes
    <3>6. Into(d, how, n) = e.inode \/ Into(d, how, n) = NoPath
      BY <2>1, <3>1, <3>4, <3>5
    <3> QED
      BY <3>3, <3>6 DEF NoPath, Endless
  <2>5. Into(d, how, n) = NoPath \/ Into(d, how, n) \in Inodes
    BY <1>1, <2>3, <2>4, OwnerTyped DEF Reached
  <2> QED
    BY <2>3, <2>5, ReachedDirs DEF Found
<1> QED
  BY <1>2, <1>3 DEF Found

LEMMA WalkFound ==
    ASSUME Healthy, NEW q \in Requests
    PROVE  Walk(q.dirs) \in Found /\ Walk(q.dirs) # Endless
<1> PICK R : R = Found
  OBVIOUS
<1>1. Root \in R
  <2>1. Root \in Reached
    BY DEF Reached, Owners, Image, Healthy, Ownership
  <2> QED
    BY <2>1, Sizes, ReachedDirs DEF Found
<1>2. \A d \in R, how \in {"component", "exact"} : \A n : Into(d, how, n) \in R
  BY IntoFound
<1>3. Walk(q.dirs) \in R
  BY <1>1, <1>2, WalkStays
<1>4. Endless \notin R
  <2>1. \A i \in Inodes : i # -2
    BY Sizes
  <2>2. \A d \in Dirs : d \in Inodes
    BY DirTyped DEF Healthy
  <2> QED
    BY <2>1, <2>2 DEF Found, Endless, NoPath
<1> QED
  BY <1>3, <1>4

-----------------------------------------------------------------------------
(* When a tool does not return. *)

NoRoom == tool.name # "" /\ RoomIndexes(tool.parent) = {}
DirectoryNamed(d, n) ==
    \E s \in Spots : s[1] \in Owned(d) /\ Named(s).name = n /\ Named(s).type = "dir"
NamesDirectory == DirectoryNamed(tool.parent, tool.name)
HangFacts ==
    /\ tool.pc \notin {"idle", "hung"} /\ ~ tool.grow /\ tool.block = 0 => NoRoom
    /\ tool.pc = "hung" => (tool.cmd = "cp" /\ NamesDirectory) \/ (~ tool.grow /\ NoRoom)
HangInv == OwnInv /\ ChainInv /\ (Without(Harm) /\ "reused" \notin damage => HangFacts)

LEMMA IdleHang == ASSUME tool'.pc = "idle" PROVE HangFacts'
  BY DEF HangFacts

LEMMA StartAndHang ==
    ASSUME NEW cmd, NEW how, StartAnd(cmd, "idle", how) PROVE HangFacts'
<1>1. tool'.pc = "idle"
  BY DEF StartAnd, Idle
<1> QED
  BY <1>1, IdleHang

LEMMA SameRoom ==
    ASSUME TypeOK, NEW p \in Dirs, inode'[p] = inode[p],
           \A c \in Owned(p) : content'[c] = content[c]
    PROVE  RoomIndexes(p)' = RoomIndexes(p)
<1> DEFINE Ends(c) == Stuck(c) \/ HasRoom(c)
<1>1. ASSUME NEW c \in Owned(p) PROVE Ends(c)' <=> Ends(c)
  BY <1>1 DEF Stuck, HasRoom, LastOf
<1>2. ASSUME NEW k \in 0 .. Direct - 1, k < inode[p].blocks
      PROVE  Ends(inode[p].block[k])' <=> Ends(inode[p].block[k])
  <2>1. PICK c : c = inode[p].block[k]
    OBVIOUS
  <2>2. c \in Owned(p)
    BY <1>2, <2>1 DEF Owned
  <2>3. inode'[p].block[k] = c
    BY <2>1
  <2> HIDE DEF Ends
  <2> QED
    BY <1>1, <2>1, <2>2, <2>3
<1>3. RoomIndexes(p) = {k \in 0 .. Direct - 1 : k < inode[p].blocks /\ Ends(inode[p].block[k])}
  BY DEF RoomIndexes
<1>4. RoomIndexes(p)' =
        {k \in 0 .. Direct - 1 : k < inode'[p].blocks /\ Ends(inode[p].block[k])'}
  BY DEF RoomIndexes
<1> HIDE DEF Ends
<1> QED
  BY <1>2, <1>3, <1>4

LEMMA StartInHang ==
    ASSUME Healthy, NEW cmd, NEW pc \in {"inode", "entry"}, NEW d \in Dirs, NEW n \in Names,
           NEW ino, NEW bytes, NEW free, StartIn(cmd, pc, d, n, ino, bytes, free)
    PROVE  HangFacts'
<1> DEFINE room == checkParentDirEntListSpaceExists(d, free)
           S == RoomIndexes(d)
<1>1. /\ tool'.pc = pc /\ tool'.parent = d /\ tool'.name = n
      /\ tool'.grow = room.grow /\ tool'.block = room.block
      /\ UNCHANGED disk
  BY DEF StartIn
<1>2. RoomIndexes(d)' = S
  BY <1>1 DEF RoomIndexes, Stuck, HasRoom, LastOf, disk
<1>3. n # ""
  BY NamesAssumption
<1>4. CASE S = {}
  <2>1. NoRoom'
    BY <1>1, <1>2, <1>3, <1>4 DEF NoRoom
  <2>2. tool'.pc # "hung"
    BY <1>1
  <2> QED
    BY <2>1, <2>2 DEF HangFacts
<1>5. CASE S # {}
  <2>1. S \in SUBSET Nat /\ \A k \in S : k \in 0 .. Direct - 1 /\ k < inode[d].blocks
    BY Sizes DEF RoomIndexes
  <2>2. room.block = RoomBlock(d, S)
    BY <1>5 DEF checkParentDirEntListSpaceExists
  <2> HIDE DEF S, room
  <2>3. Min(S) \in S
    BY <1>5, <2>1, MinOfSet
  <2>4. RoomBlock(d, S) \in Owned(d)
    BY <2>1, <2>3 DEF RoomBlock, Owned
  <2>5. tool'.block # 0
    BY <1>1, <2>2, <2>4, RoomFound
  <2>6. tool'.pc # "hung"
    BY <1>1
  <2> QED
    BY <2>5, <2>6 DEF HangFacts
<1> QED
  BY <1>4, <1>5

LEMMA FoundDirs ==
    ASSUME Healthy, NEW d \in Found, d >= 0 PROVE d \in Dirs /\ d \in Inodes
  BY DirTyped DEF Found, NoPath, Healthy

LEMMA makedirHang ==
    ASSUME Healthy, NEW q \in Requests, makedir(q) PROVE HangFacts'
<1> DEFINE d == Walk(q.dirs)
           e == Hit(d, "whole", q.name)
           exists == d >= 0 /\ Matches("whole", q.name, e)
           spins == d = Endless \/ (d >= 0 /\ ~ exists /\ (e.rec = 0 \/ RoomSpins(d)))
<1>1. d \in Found /\ d # Endless
  BY WalkFound
<1>2. q.name \in Names
  BY RequestTyped
<1>3. \/ spins /\ StartAnd("mkdir", "hung", exit)
      \/ StartAnd("mkdir", "idle", "failed")
      \/ d \in Inodes /\ StartIn("mkdir", "inode", d, q.name, 0, 0, 2)
  BY Zenon DEF makedir
<1> HIDE DEF d
<1>4. d >= 0 => d \in Dirs
  BY <1>1, FoundDirs
<1>5. d \in Inodes => d >= 0
  BY Sizes
<1>6. ~ spins
  BY <1>1, <1>4, ScansEnd, RoomFound
<1> HIDE DEF e, exists, spins
<1>7. CASE StartAnd("mkdir", "idle", "failed")
  BY <1>7, StartAndHang
<1>8. CASE d \in Inodes /\ StartIn("mkdir", "inode", d, q.name, 0, 0, 2)
  BY <1>2, <1>4, <1>5, <1>8, StartInHang
<1> QED
  BY <1>3, <1>6, <1>7, <1>8

\* What the search finds of a name is an entry of the directory.
LEMMA FoundNamed ==
    ASSUME Healthy, NEW d \in Dirs, NEW n,
           Matches("exact", n, Hit(d, "exact", n)), Hit(d, "exact", n).type = "dir"
    PROVE  DirectoryNamed(d, n)
<1>1. TypeOK /\ d \in Inodes
  BY DirTyped DEF Healthy
<1> DEFINE e == Hit(d, "exact", n)
           S == Stops(d, "exact", n)
<1>2. e.name = n /\ e.type = "dir"
  BY DEF Matches
<1>3. S # {} /\ e = EntryAt(d, First(S))
  <2>1. Missing.type = "unknown"
    BY DEF Missing, NewEntry
  <2> QED
    BY <1>2, <2>1 DEF Hit
<1>4. PICK p : p = First(S)
  OBVIOUS
<1>5. p \in Places(d) /\ e = EntryAt(d, p)
  BY <1>1, <1>3, <1>4, FirstStop
<1> HIDE DEF e, S
<1>6. PICK b, j : b = inode[d].block[p[1]] /\ j = p[2]
  OBVIOUS
<1>7. b \in Owned(d) /\ b \in DirBlocks
  <2>1. p[1] \in 0 .. Direct - 1 /\ p[1] < inode[d].blocks
    BY <1>5 DEF Places
  <2>2. b \in Owned(d)
    BY <1>6, <2>1 DEF Owned
  <2> QED
    BY <2>2 DEF DirBlocks
<1>8. b \in Blocks /\ j \in 1 .. Len(content[b])
  BY <1>1, <1>5, <1>6, PlaceTyped
<1>9. <<b, j>> \in Spots
  BY <1>7, <1>8, <1>5, <1>6 DEF Spots, Places
<1>10. Named(<<b, j>>) = e
  BY <1>5, <1>6 DEF Named, EntryAt
<1> QED
  BY <1>2, <1>7, <1>9, <1>10 DEF DirectoryNamed

LEMMA StartInDirectoryHang ==
    ASSUME NEW d, NEW n, DirectoryNamed(d, n), StartInDirectory(d, n) PROVE HangFacts'
<1>1. tool' = [Idle EXCEPT !.cmd = "cp", !.pc = "hung", !.parent = d, !.name = n]
      /\ UNCHANGED disk
  BY DEF StartInDirectory
<1>2. tool'.cmd = "cp" /\ tool'.pc = "hung" /\ tool'.parent = d /\ tool'.name = n
  BY <1>1 DEF Idle
<1>3. UNCHANGED <<inodeBits, inode, content>>
  BY <1>1 DEF disk
<1>4. DirectoryNamed(d, n)'
  BY <1>3 DEF DirectoryNamed, Spots, Named, Owned, DirBlocks, Dirs
<1>5. NamesDirectory'
  BY <1>2, <1>4 DEF NamesDirectory, DirectoryNamed
<1> QED
  BY <1>2, <1>5 DEF HangFacts

LEMMA copyHang ==
    ASSUME Healthy, NEW q \in Requests, NEW local, copy(q, local) PROVE HangFacts'
<1> DEFINE d == Walk(q.dirs)
           e == Hit(d, "exact", q.name)
           finds == d >= 0 /\ Matches("exact", q.name, e)
           first == content[inode[e.inode].block[0]][1]
           exists == finds /\ IF e.type = "dir" THEN Matches("whole", local, first) ELSE TRUE
           spins == d = Endless \/ (d >= 0 /\ ~ finds /\ (e.rec = 0 \/ RoomSpins(d)))
<1>1. d \in Found /\ d # Endless
  BY WalkFound
<1>2. q.name \in Names
  BY RequestTyped
<1>3. \/ spins /\ StartAnd("cp", "hung", exit)
      \/ d \in Inodes /\ finds /\ ~ exists /\ StartInDirectory(d, q.name)
      \/ StartAnd("cp", "idle", "failed")
      \/ /\ d \in Inodes
         /\ \E bytes \in FileSizes : StartIn("cp", "inode", d, q.name, 0, bytes, BlockCalc(bytes) + 1)
  BY Zenon DEF copy
<1> HIDE DEF d
<1>4. d >= 0 => d \in Dirs
  BY <1>1, FoundDirs
<1>5. d \in Inodes => d >= 0
  BY Sizes
<1>6. ~ spins
  BY <1>1, <1>4, ScansEnd, RoomFound
<1> HIDE DEF spins
<1>7. CASE d \in Inodes /\ finds /\ ~ exists /\ StartInDirectory(d, q.name)
  <2>1. e.type = "dir" /\ Matches("exact", q.name, e)
    BY <1>7
  <2> HIDE DEF finds, exists
  <2>2. DirectoryNamed(d, q.name)
    BY <1>4, <1>5, <1>7, <2>1, FoundNamed
  <2> QED
    BY <1>7, <2>2, StartInDirectoryHang
<1> HIDE DEF finds, exists
<1>8. CASE StartAnd("cp", "idle", "failed")
  BY <1>8, StartAndHang
<1>9. ASSUME NEW bytes, d \in Inodes, StartIn("cp", "inode", d, q.name, 0, bytes, BlockCalc(bytes) + 1)
      PROVE  HangFacts'
  BY <1>2, <1>4, <1>5, <1>9, StartInHang
<1> QED
  BY <1>3, <1>6, <1>7, <1>8, <1>9

LEMMA goodPathFound ==
    ASSUME Healthy, NEW q \in Requests
    PROVE  goodPathExists(q) \in Found /\ goodPathExists(q) # Endless
<1> DEFINE d == Walk(q.dirs)
           e == Hit(d, "entry", q.name)
           finds == Matches("entry", q.name, e)
<1>1. d \in Found /\ d # Endless
  BY WalkFound
<1>2. goodPathExists(q) = CASE d < 0 -> d
                            [] d >= 0 /\ finds /\ e.type # "dir" -> d
                            [] d >= 0 /\ ~ finds /\ e.rec = 0 -> Endless
                            [] OTHER -> NoPath
  BY Zenon DEF goodPathExists
<1> HIDE DEF d, finds
<1>3. d >= 0 => e.rec # 0
  BY <1>1, FoundDirs, ScansEnd
<1>4. d \in Int
  BY <1>1, DirTyped, Sizes DEF Found, NoPath, Healthy
<1> HIDE DEF e
<1>5. goodPathExists(q) = d \/ goodPathExists(q) = NoPath
  BY <1>2, <1>3, <1>4
<1> QED
  BY <1>1, <1>5 DEF Found, NoPath, Endless

LEMMA lnkHang ==
    ASSUME Healthy, NEW q1 \in Requests, NEW q2 \in Requests, lnk(q1, q2) PROVE HangFacts'
<1> DEFINE d1 == goodPathExists(q1)
           d2 == goodPathExists(q2)
           source == Hit(d1, "entry", q1.name).inode
<1>1. d2 \in Found /\ d1 # Endless /\ d2 # Endless
  BY goodPathFound
<1>2. q2.name \in Names
  BY RequestTyped
<1>3. \/ /\ Endless \in {d1, d2} \/ (d2 \in Inodes /\ RoomSpins(d2))
         /\ StartAnd("ln", "hung", exit)
      \/ StartAnd("ln", "idle", "failed")
      \/ /\ d2 \in Inodes
         /\ \/ StartIn("ln", "entry", d2, q2.name, source, 0, 2)
            \/ \E bytes \in PathSizes : StartIn("ln -s", "inode", d2, q2.name, 0, bytes, 2)
  BY DEF lnk
<1> HIDE DEF d1, d2, source
<1>4. d2 \in Inodes => d2 \in Dirs
  <2>1. d2 \in Inodes => d2 >= 0
    BY Sizes
  <2> QED
    BY <1>1, <2>1, FoundDirs
<1>5. CASE /\ Endless \in {d1, d2} \/ (d2 \in Inodes /\ RoomSpins(d2))
           /\ StartAnd("ln", "hung", exit)
  BY <1>1, <1>4, <1>5, RoomFound
<1>6. CASE StartAnd("ln", "idle", "failed")
  BY <1>6, StartAndHang
<1>7. CASE d2 \in Inodes /\ StartIn("ln", "entry", d2, q2.name, source, 0, 2)
  BY <1>2, <1>4, <1>7, StartInHang
<1>8. ASSUME NEW bytes, d2 \in Inodes, StartIn("ln -s", "inode", d2, q2.name, 0, bytes, 2)
      PROVE  HangFacts'
  BY <1>2, <1>4, <1>8, StartInHang
<1> QED
  BY <1>3, <1>5, <1>6, <1>7, <1>8

LEMMA rmoveHang ==
    ASSUME Healthy, NEW q \in Requests, rmove(q) PROVE HangFacts'
<1> DEFINE d == Walk(q.dirs)
           e == Hit(d, "file", q.name)
           finds == d \in Inodes /\ Matches("file", q.name, e)
           spins == d = Endless \/ (d >= 0 /\ ~ finds /\ e.rec = 0)
<1>1. d \in Found /\ d # Endless
  BY WalkFound
<1>2. /\ Starts
      /\ \/ spins /\ StartAnd("rm", "hung", exit)
         \/ StartAnd("rm", "idle", "failed")
         \/ StartAnd("rm", "idle", "killed")
         \/ delEntry(d, q.name)
  BY Zenon DEF rmove
<1> HIDE DEF d
<1>3. ~ spins
  BY <1>1, FoundDirs, ScansEnd
<1> HIDE DEF e, finds, spins
<1>4. CASE StartAnd("rm", "idle", "failed") \/ StartAnd("rm", "idle", "killed")
  BY <1>4, StartAndHang
<1>5. CASE delEntry(d, q.name)
  <2>1. tool' = tool
    BY <1>5 DEF delEntry
  <2>2. tool.pc = "idle"
    BY <1>2, Zenon DEF Starts
  <2> QED
    BY <1>2, <2>1, <2>2, IdleHang
<1> QED
  BY <1>2, <1>3, <1>4, <1>5

\* A step that does not end the tool leaves its directory and its choice.
LEMMA WritesHang ==
    ASSUME Healthy, HangFacts, tool.pc \notin {"idle", "hung"},
           tool'.pc # "hung", tool'.parent = tool.parent, tool'.name = tool.name,
           tool'.grow = tool.grow, tool'.block = tool.block,
           NEW p, p = tool.parent, inode'[p] = inode[p],
           RoomIndexes(p) = {} => \A c \in Owned(p) : content'[c] = content[c]
    PROVE  HangFacts'
<1>1. p \in Dirs
  BY DEF Healthy, Ownership, ParentSound
<1>2. RoomIndexes(p) = {} => RoomIndexes(p)' = {}
  BY <1>1, SameRoom DEF Healthy
<1>3. tool'.pc \notin {"idle", "hung"} /\ ~ tool'.grow /\ tool'.block = 0 => NoRoom'
  BY <1>2 DEF HangFacts, NoRoom
<1> QED
  BY <1>3 DEF HangFacts

\* A full block of a directory has an entry that names an inode, so that it
\* is not handed out unnoticed.
LEMMA FullBlock ==
    ASSUME Healthy, NEW d \in Dirs, NEW b \in Owned(d), ~ HasRoom(b)
    PROVE  Reused(b) = {"reused"}
<1>1. TypeOK /\ AllFit /\ Image
  BY DEF Healthy, Ownership
<1>2. b \in Blocks /\ b # 0 /\ b \in DirBlocks /\ Whole(content[b])
  BY RoomFound
<1>3. Fits(content[b])
  BY <1>1, <1>2 DEF AllFit
<1> DEFINE n == Len(content[b])
           e == content[b][n]
<1>4. n \in Nat \ {0} /\ e \in Entry /\ e.off + 1 >= Capacity
  <2>1. n \in Nat \ {0} /\ LastOf(b) \in Entry /\ LastOf(b) = e
    BY <1>1, <1>2, LastTyped DEF LastOf
  <2>2. e.off \in Int /\ Capacity \in Int
    BY <2>1, Sizes DEF Entry
  <2> HIDE DEF n, e
  <2>3. ~ e.off + 1 < Capacity
    BY <2>1, Zenon DEF HasRoom
  <2> QED
    BY <2>1, <2>2, <2>3
<1>5. content[b][1].off = 0
  BY <1>2 DEF Whole
<1>6. n # 1
  <2>1. 3 < Capacity /\ Capacity \in Nat
    BY NumbersAssumption
  <2>2. n = 1 => e.off = 0
    BY <1>5
  <2> HIDE DEF e, n
  <2> QED
    BY <1>4, <2>1, <2>2
<1>7. n \in 2 .. n /\ n \in 1 .. n
  <2> HIDE DEF n
  <2> QED
    BY <1>4, <1>6
<1>8. e.inode # -1
  BY <1>3, <1>7 DEF Fits, Filled
<1>9. e.inode >= 0
  <2>1. \A i \in Inodes : i >= 0
    BY Sizes
  <2>2. e.inode \in Inodes
    BY <1>4, <1>8 DEF Entry
  <2> QED
    BY <2>1, <2>2
<1>10. <<b, n>> \in Spots /\ Named(<<b, n>>).inode = e.inode
  BY <1>1, <1>2, <1>7, EntrySpots DEF Named
<1>11. \E s \in Spots : s[1] = b /\ Named(s).inode >= 0
  <2> HIDE DEF n, e
  <2> QED
    BY <1>9, <1>10
<1> QED
  BY <1>11 DEF Reused

LEMMA ToolOther ==
    ASSUME Healthy, Unfinished PROVE tool.parent # tool.ino /\ tool.parent \in Dirs /\ tool.parent \in Inodes
<1>1. tool.parent \in Dirs
  BY DEF Healthy, Ownership, ParentSound, Unfinished
<1>2. tool.ino \notin Dirs
  BY DEF Healthy, Ownership, NewSound
<1> QED
  BY <1>1, <1>2, DirTyped DEF Healthy

LEMMA newInodesHang ==
    ASSUME Healthy, HangFacts,
           allocateNewDirInode \/ allocateNewFileInode \/ allocateNewLinkInode
    PROVE  HangFacts'
<1>1. ASSUME NEW how, End(how) PROVE HangFacts'
  BY <1>1, IdleHang DEF End, Idle
<1>2. ASSUME NEW mode, NEW links, NEW blocks, ClearInodes # {}, tool.pc = "inode",
             TakesInode(mode, links, blocks)
      PROVE  HangFacts'
  <2> PICK x : x = FirstEmpty(ClearInodes)
    OBVIOUS
  <2> PICK p : p = tool.parent
    OBVIOUS
  <2>1. x \in ClearInodes
    <3>1. ClearInodes \in SUBSET Nat
      BY Sizes DEF ClearInodes
    <3> QED
      BY <1>2, <3>1, FirstEmptyClear
  <2>2. p \in Dirs /\ p \in inodeBits /\ p \in Inodes
    BY <1>2, DirTyped DEF Healthy, Ownership, ParentSound, Dirs
  <2>3. p # x
    BY <2>1, <2>2 DEF ClearInodes
  <2>4. inode'[p] = inode[p] /\ content' = content
    BY <1>2, <2>2, <2>3 DEF TakesInode, Healthy, TypeOK
  <2>5. tool' = [tool EXCEPT !.ino = x, !.pc = "blocks"]
    BY <1>2 DEF TakesInode
  <2>6. /\ tool'.pc = "blocks" /\ tool'.parent = tool.parent /\ tool'.name = tool.name
        /\ tool'.grow = tool.grow /\ tool'.block = tool.block
    BY <2>5, MovedOn DEF Healthy
  <2> QED
    BY <1>2, <2>4, <2>6, WritesHang
<1> QED
  BY <1>1, <1>2
     DEF allocateNewDirInode, allocateNewFileInode, allocateNewLinkInode, CanTakeInode

LEMMA allocateDirBlocksHang ==
    ASSUME Healthy, "reused" \notin damage', HangFacts, allocateDirBlocks PROVE HangFacts'
<1> PICK b : b = FirstEmpty(ClearBlocks)
  OBVIOUS
<1> PICK p : p = tool.parent
  OBVIOUS
<1> PICK dots : dots = DotEntries(tool.ino, p)
  OBVIOUS
<1>1. tool.pc = "blocks" /\ Unfinished
  BY DEF allocateDirBlocks, Unfinished
<1>2. CASE End("failed")
  BY <1>2, IdleHang DEF End, Idle
<1>3. CASE /\ b \in Blocks
           /\ inode' = [inode EXCEPT ![tool.ino].block[0] = b]
           /\ content' = [content EXCEPT ![b] = dots]
           /\ Reused(b) \subseteq damage'
           /\ tool' = [tool EXCEPT !.pc = "entry"]
  <2>1. p # tool.ino /\ p \in Dirs /\ p \in Inodes
    BY <1>1, ToolOther
  <2>2. inode'[p] = inode[p]
    BY <1>3, <2>1 DEF Healthy, TypeOK
  <2>3. /\ tool'.pc = "entry" /\ tool'.parent = tool.parent /\ tool'.name = tool.name
        /\ tool'.grow = tool.grow /\ tool'.block = tool.block
    BY <1>3, MovedOn DEF Healthy
  <2>4. ASSUME RoomIndexes(p) = {}, NEW c \in Owned(p) PROVE content'[c] = content[c]
    <3>1. PICK k \in 0 .. Direct - 1 : k < inode[p].blocks /\ c = inode[p].block[k]
      BY DEF Owned
    <3>2. ~ HasRoom(c)
      BY <2>4, <3>1 DEF RoomIndexes
    <3>3. Reused(c) = {"reused"}
      BY <2>1, <3>2, FullBlock
    <3>4. c # b
      BY <1>3, <3>3
    <3>5. c \in Blocks
      BY <2>1, RoomFound
    <3> QED
      BY <1>3, <3>4, <3>5 DEF Healthy, TypeOK
  <2> QED
    BY <1>1, <2>2, <2>3, <2>4, WritesHang
<1> QED
  BY <1>2, <1>3 DEF allocateDirBlocks

LEMMA checksHang ==
    ASSUME Healthy, HangFacts, checkFileBlocks \/ copyFileBytes PROVE HangFacts'
<1>1. ASSUME NEW how, End(how) PROVE HangFacts'
  BY <1>1, IdleHang DEF End, Idle
<1>2. ASSUME NEW pc \in {"take", "entry"}, tool.pc \in {"blocks", "text"},
             tool' = [tool EXCEPT !.pc = pc], UNCHANGED disk
      PROVE  HangFacts'
  <2> PICK p : p = tool.parent
    OBVIOUS
  <2>1. inode'[p] = inode[p] /\ content' = content
    BY <1>2 DEF disk
  <2>2. /\ tool'.pc = pc /\ tool'.parent = tool.parent /\ tool'.name = tool.name
        /\ tool'.grow = tool.grow /\ tool'.block = tool.block
    BY <1>2, MovedOn DEF Healthy
  <2> QED
    BY <1>2, <2>1, <2>2, WritesHang
<1> QED
  BY <1>1, <1>2 DEF checkFileBlocks, copyFileBytes

\* What is written over no directory's block changes none of them.
LEMMA TextHang ==
    ASSUME Healthy, Without(Harm)', HangFacts, Unfinished,
           tool'.pc # "hung", tool'.parent = tool.parent, tool'.name = tool.name,
           tool'.grow = tool.grow, tool'.block = tool.block,
           \A i \in Inodes : i # tool.ino => inode'[i] = inode[i],
           NEW W, Spilled(W) \subseteq damage',
           \A c \in Blocks : c \notin W => content'[c] = content[c]
    PROVE  HangFacts'
<1> PICK p : p = tool.parent
  OBVIOUS
<1>1. p # tool.ino /\ p \in Dirs /\ p \in Inodes
  BY ToolOther
<1>2. W \cap DirBlocks = {}
  BY DEF Spilled, Without, Harm
<1>3. \A c \in Owned(p) : content'[c] = content[c]
  BY <1>1, <1>2, RoomFound
<1>4. tool.pc \notin {"idle", "hung"}
  BY DEF Unfinished
<1> QED
  BY <1>1, <1>3, <1>4, WritesHang

LEMMA allocateFileBlocksHang ==
    ASSUME Healthy, Without(Harm)', HangFacts, allocateFileBlocks PROVE HangFacts'
<1> DEFINE k == tool.taken
           b == FirstEmpty(ClearBlocks)
           W == IF k <= Direct THEN {} ELSE {inode[tool.ino].block[Direct]}
           pc == IF k + 1 = FileBlocks(tool.bytes) THEN "text" ELSE "take"
<1>1. Unfinished
  BY DEF allocateFileBlocks, Unfinished
<1>2. CASE End("failed")
  BY <1>2, IdleHang DEF End, Idle
<1>3. CASE /\ inode' = IF k <= Direct THEN [inode EXCEPT ![tool.ino].block[k] = b] ELSE inode
           /\ tool' = [tool EXCEPT !.taken = k + 1, !.pc = pc]
           /\ IF k <= Direct THEN UNCHANGED content
              ELSE content' = [content EXCEPT ![inode[tool.ino].block[Direct]] = <<Text>>]
           /\ (IF k <= Direct THEN {} ELSE Spilled({inode[tool.ino].block[Direct]})) \subseteq damage'
  <2>1. /\ tool'.pc = pc /\ tool'.parent = tool.parent /\ tool'.name = tool.name
        /\ tool'.grow = tool.grow /\ tool'.block = tool.block
    BY <1>3, MovedOn DEF Healthy
  <2>2. \A i \in Inodes : i # tool.ino => inode'[i] = inode[i]
    BY <1>3 DEF Healthy, TypeOK
  <2>3. \A c \in Blocks : c \notin W => content'[c] = content[c]
    BY <1>3 DEF Healthy, TypeOK
  <2>4. Spilled(W) \subseteq damage'
    <3>1. Spilled({}) = {}
      BY DEF Spilled
    <3> QED
      BY <1>3, <3>1
  <2>5. pc # "hung"
    OBVIOUS
  <2> HIDE DEF W, pc
  <2> QED
    BY <1>1, <2>1, <2>2, <2>3, <2>4, <2>5, TextHang
<1> QED
  BY <1>2, <1>3 DEF allocateFileBlocks

LEMMA allocateLinkBlocksHang ==
    ASSUME Healthy, Without(Harm)', HangFacts, allocateLinkBlocks PROVE HangFacts'
<1> DEFINE b == FirstEmpty(ClearBlocks)
           i_block == [inode[tool.ino].block EXCEPT ![0] = b]
           W == {i_block[k] : k \in 0 .. Pieces[tool.bytes] - 1}
<1>1. Unfinished
  BY DEF allocateLinkBlocks, Unfinished
<1>2. CASE End("failed")
  BY <1>2, IdleHang DEF End, Idle
<1>3. CASE /\ inode' = [inode EXCEPT ![tool.ino].block = i_block]
           /\ content' = [c \in Blocks |-> IF c \in W THEN <<Text>> ELSE content[c]]
           /\ Spilled(W) \subseteq damage'
           /\ tool' = [tool EXCEPT !.pc = "entry"]
  <2> HIDE DEF W, i_block
  <2>1. /\ tool'.pc = "entry" /\ tool'.parent = tool.parent /\ tool'.name = tool.name
        /\ tool'.grow = tool.grow /\ tool'.block = tool.block
    BY <1>3, MovedOn DEF Healthy
  <2>2. \A i \in Inodes : i # tool.ino => inode'[i] = inode[i]
    BY <1>3 DEF Healthy, TypeOK
  <2>3. \A c \in Blocks : c \notin W => content'[c] = content[c]
    BY <1>3
  <2> QED
    BY <1>1, <1>3, <2>1, <2>2, <2>3, TextHang
<1> QED
  BY <1>2, <1>3, Zenon DEF allocateLinkBlocks

LEMMA AddsEntryHang ==
    ASSUME Healthy, HangFacts, tool.pc = "entry", NEW type, NEW table, AddsEntry(type, table)
    PROVE  HangFacts'
<1>1. CASE tool' = Idle
  BY <1>1, IdleHang DEF Idle
<1>2. CASE End("failed")
  BY <1>2, IdleHang DEF End, Idle
<1>3. CASE ~ tool.grow /\ Stuck(tool.block) /\ Spin
  <2> PICK p : p = tool.parent
    OBVIOUS
  <2>1. p \in Dirs
    BY DEF Healthy, Ownership, ParentSound
  <2>2. tool.block # 0 => tool.block \in Owned(p)
    BY <1>3 DEF Healthy, Ownership, ParentSound
  <2>3. tool.block = 0
    BY <1>3, <2>1, <2>2, RoomFound
  <2>4. NoRoom
    BY <1>3, <2>3 DEF HangFacts
  <2>5. tool' = [tool EXCEPT !.pc = "hung"] /\ UNCHANGED disk
    BY <1>3 DEF Spin
  <2>6. /\ tool'.pc = "hung" /\ tool'.parent = p /\ tool'.name = tool.name
        /\ tool'.grow = tool.grow
    BY <2>5, MovedOn DEF Healthy
  <2>7. RoomIndexes(p)' = RoomIndexes(p)
    BY <2>1, <2>5, SameRoom DEF disk, Healthy
  <2>8. NoRoom'
    BY <2>4, <2>6, <2>7 DEF NoRoom
  <2> QED
    BY <1>3, <2>6, <2>8 DEF HangFacts
<1> QED
  BY <1>1, <1>2, <1>3, Zenon DEF AddsEntry

LEMMA newEntriesHang ==
    ASSUME Healthy, HangFacts,
           \/ addNewDirToParentDirEntList \/ addNewFileToParentDirEntList
           \/ addSymbolicLink \/ addHardLink
    PROVE  HangFacts'
  BY AddsEntryHang, Zenon
     DEF addNewDirToParentDirEntList, addNewFileToParentDirEntList, addSymbolicLink, addHardLink

LEMMA InterruptHang == ASSUME Interrupt PROVE HangFacts'
  BY IdleHang DEF Interrupt, Idle

LEMMA StutterHang == ASSUME HangFacts, UNCHANGED vars PROVE HangFacts'
<1>1. UNCHANGED <<tool, inodeBits, inode, content>>
  BY DEF vars, disk
<1>2. NoRoom' = NoRoom
  BY <1>1 DEF NoRoom, RoomIndexes, Stuck, HasRoom, LastOf
<1>3. NamesDirectory' = NamesDirectory
  BY <1>1 DEF NamesDirectory, DirectoryNamed, Spots, Named, Owned, DirBlocks, Dirs
<1> QED
  BY <1>1, <1>2, <1>3 DEF HangFacts

LEMMA StepHang ==
    ASSUME HangInv, OwnInv', ChainInv', [Next]_vars PROVE HangInv'
<1> SUFFICES ASSUME Without(Harm)', "reused" \notin damage' PROVE HangFacts'
  BY DEF HangInv
<1>1. Without(Harm) /\ "reused" \notin damage
  BY HarmStays, DamageStays
<1>2. Healthy /\ HangFacts
  BY <1>1, HealthyWhen DEF HangInv
<1>3. CASE Start
  <2>1. ASSUME NEW q \in Requests, makedir(q) \/ rmove(q) PROVE HangFacts'
    BY <1>2, <2>1, makedirHang, rmoveHang
  <2>2. ASSUME NEW q \in Requests, NEW local, copy(q, local) PROVE HangFacts'
    BY <1>2, <2>2, copyHang
  <2>3. ASSUME NEW q1 \in Requests, NEW q2 \in Requests, lnk(q1, q2) PROVE HangFacts'
    BY <1>2, <2>3, lnkHang
  <2> QED
    BY <1>3, <2>1, <2>2, <2>3, Zenon DEF Start
<1>4. CASE Mkdir
  BY <1>2, <1>4, newInodesHang, allocateDirBlocksHang, newEntriesHang DEF Mkdir
<1>5. CASE Cp
  BY <1>2, <1>5, newInodesHang, checksHang, allocateFileBlocksHang, newEntriesHang DEF Cp
<1>6. CASE Ln
  BY <1>2, <1>6, newInodesHang, allocateLinkBlocksHang, newEntriesHang DEF Ln
<1>7. CASE Interrupt
  BY <1>7, InterruptHang
<1>8. CASE UNCHANGED vars
  BY <1>2, <1>8, StutterHang
<1> QED
  BY <1>3, <1>4, <1>5, <1>6, <1>7, <1>8, Zenon DEF Next

LEMMA HangInductive == Spec => []HangInv
<1>1. Init => HangFacts
  <2>1. Init => tool = Idle
    BY Zenon DEF Init
  <2>2. Idle.pc = "idle"
    BY DEF Idle
  <2> QED
    BY <2>1, <2>2 DEF HangFacts
<1>2. HangInv /\ OwnInv' /\ ChainInv' /\ [Next]_vars => HangInv'
  BY StepHang
<1>3. HangInv <=> OwnInv /\ ChainInv /\ (Without(Harm) /\ "reused" \notin damage => HangFacts)
  BY DEF HangInv
<1> QED
  BY <1>1, <1>2, <1>3, OwnInductive, ChainsInductive, PTL DEF Spec

\* As long as no block beyond the bitmap's word is taken or freed, no inode that
\* has another name is freed, and nothing is written over a directory, a tool
\* that never returns is cp, given a name that its directory has for another
\* directory, or a tool whose directory is full, and still is: no path, no
\* search of a name and no search for room is endless otherwise.
THEOREM OnlyFullDirectoriesHang == Spec => []HangsExplained
<1>1. HangInv => HangsExplained
  BY DEF HangInv, HangFacts, NoRoom, NamesDirectory, DirectoryNamed, HangsExplained,
         Without, Harm
<1> QED
  BY <1>1, HangInductive, PTL
=============================================================================
