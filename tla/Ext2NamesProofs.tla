------------------------- MODULE Ext2NamesProofs -------------------------
(***************************************************************************)
(* What the directories of an ext2 image name: link counts are the numbers *)
(* of names (LinksCounted), no directory has a name twice (NamesUnique),   *)
(* inodes without a name were lost by tools that ended (UnnamedAreLost)    *)
(* and a step changes one entry at most (OneEntryChanges), for every size  *)
(* of the image and any number of tools, by the inductive invariant        *)
(* NamesInv.  The proofs go through the kinds of steps (Kind) that a       *)
(* healthy image sees, in place of the actions themselves.                 *)
(***************************************************************************)
EXTENDS Ext2OwnershipProofs

-----------------------------------------------------------------------------
(* What each step does to an image that stays healthy. *)

SameTool ==
    /\ tool'.cmd = tool.cmd /\ tool'.parent = tool.parent /\ tool'.name = tool.name
    /\ tool'.grow = tool.grow /\ tool'.block = tool.block

\* A tool ends or spins, before or after it wrote something.
Ends ==
    /\ tool'.pc \in {"idle", "hung"} /\ UNCHANGED <<disk, damage>>
    /\ losses' = IF HoldsInode THEN losses + 1 ELSE losses
    /\ ~ EntryAdded

\* A tool has found its directory, and not its name there.
Unfound(how, d, n) ==
    \A c \in Owned(d) : \A k \in 1 .. Len(content[c]) : ~ Matches(how, n, content[c][k])
Begins ==
    /\ tool.pc = "idle" /\ UNCHANGED <<disk, damage, losses>>
    /\ tool'.name \in Names
    /\ \/ tool'.pc = "inode"
       \/ tool'.pc = "entry" /\ tool'.cmd = "ln" /\ tool'.ino \in Linked
    /\ tool'.cmd = "mkdir" => Unfound("whole", tool'.parent, tool'.name)
    /\ tool'.cmd = "cp" => Unfound("exact", tool'.parent, tool'.name)

\* Inode x is taken.
Takes(x) ==
    /\ tool.pc = "inode" /\ tool'.pc = "blocks" /\ SameTool /\ tool'.ino = x
    /\ x \in Inodes \ inodeBits /\ inodeBits' = inodeBits \cup {x}
    /\ \A i \in Inodes : i # x => inode'[i] = inode[i]
    /\ tool.cmd = "cp" => inode'[x].links = 1
    /\ UNCHANGED <<content, losses>>

\* A file or a link gets its blocks.
Works(x) ==
    /\ Unfinished /\ tool'.pc \in {"take", "text", "entry"} /\ SameTool
    /\ tool.ino = x /\ tool'.ino = x
    /\ \A i \in Inodes : i # x => inode'[i] = inode[i]
    /\ inode[x].mode # "dir" /\ inode'[x].mode # "dir" /\ inode'[x].links = inode[x].links
    /\ \A c \in DirBlocks : content'[c] = content[c]
    /\ \A c \in Blocks : content'[c] = content[c] \/ content'[c] = <<Text>>
    /\ UNCHANGED <<inodeBits, losses>>

\* The new directory x gets block b.
Makes(x, b) ==
    /\ tool.pc = "blocks" /\ tool.cmd = "mkdir" /\ tool'.pc = "entry" /\ SameTool
    /\ tool.ino = x /\ tool'.ino = x
    /\ b \in Blocks \ blockBits /\ Reused(b) \subseteq damage'
    /\ \A i \in Inodes : i # x => inode'[i] = inode[i]
    /\ inode'[x].mode = "dir" /\ inode'[x].blocks = 1 /\ inode'[x].block[0] = b
    /\ content'[b] = DotEntries(x, tool.parent)
    /\ \A c \in Blocks : c # b => content'[c] = content[c]
    /\ UNCHANGED <<inodeBits, losses>>

\* The entry of the tool is written, into block b of its directory.
Added(type) == NewEntry(tool.name, tool.ino, type, 0, Capacity)
Done(type) ==
    /\ tool.pc = "entry" /\ tool' = Idle /\ exit' = "ok"
    /\ type \in Types
    /\ \A i \in Inodes :
         /\ inode'[i].mode = inode[i].mode
         /\ inode'[i].links =
              inode[i].links + IF tool.cmd = "ln" /\ i = tool.ino THEN 1 ELSE 0
    /\ Twin \subseteq damage'
    /\ UNCHANGED <<inodeBits, losses>>
Appends(type, b) ==
    /\ Done(type) /\ ~ tool.grow /\ b = tool.block /\ b \in Owned(tool.parent)
    /\ \A i \in Inodes : SameOwn(i)
    /\ content'[b] = Appended(b, Added(type))[b]
    /\ \A c \in Blocks : c # b => content'[c] = content[c]
Grows(type, b) ==
    /\ Done(type) /\ tool.grow /\ b \in Blocks \ blockBits /\ Reused(b) \subseteq damage'
    /\ Grown(tool.parent, inode[tool.parent].blocks, b, Added(type))

\* rm removes entry j of block b.
Deletes(b, j, i, f) ==
    /\ Removed(b, j, i, f) /\ tool.pc = "idle" /\ runs' # runs
    /\ \A k \in Inodes : k # i => inode'[k] = inode[k]
    /\ UNCHANGED losses

Kind ==
    \/ UNCHANGED vars \/ Ends \/ Begins
    \/ \E x : Takes(x) \/ Works(x) \/ \E b : Makes(x, b)
    \/ \E type, b : Appends(type, b) \/ Grows(type, b)
    \/ \E b, j, i, f : Deletes(b, j, i, f)

-----------------------------------------------------------------------------
(* Every step is one of these. *)

LEMMA EndKind == ASSUME NEW how \in {"failed", "killed"}, End(how) PROVE Ends
<1>1. tool'.pc = "idle" /\ exit' # "ok"
  BY DEF End, Idle
<1> QED
  BY <1>1 DEF End, Ends, EntryAdded

LEMMA SpinKind == ASSUME TypeOK, Spin PROVE Ends
<1>1. tool' = [tool EXCEPT !.pc = "hung"]
  BY DEF Spin
<1>2. tool'.pc = "hung"
  BY <1>1, MovedOn
<1> QED
  BY <1>2 DEF Spin, Ends, EntryAdded

LEMMA InterruptKind == ASSUME Interrupt PROVE Ends
<1>1. tool'.pc = "idle" /\ exit' # "ok"
  BY DEF Interrupt, Idle
<1>2. ~ HoldsInode
  BY DEF Interrupt, HoldsInode
<1> QED
  BY <1>1, <1>2 DEF Interrupt, Ends, EntryAdded

LEMMA StartAndKind ==
    ASSUME tool.pc = "idle", NEW cmd, NEW pc \in {"idle", "hung"}, NEW how, StartAnd(cmd, pc, how)
    PROVE  Ends
<1>1. tool'.pc = pc
  BY DEF StartAnd, Idle
<1>2. ~ HoldsInode /\ ~ EntryAdded
  BY DEF HoldsInode, EntryAdded
<1> QED
  BY <1>1, <1>2 DEF StartAnd, Ends

LEMMA StartInDirectoryKind ==
    ASSUME tool.pc = "idle", NEW d, NEW n, StartInDirectory(d, n) PROVE Ends
<1>1. tool'.pc = "hung"
  BY DEF StartInDirectory, Idle
<1>2. ~ HoldsInode /\ ~ EntryAdded
  BY DEF HoldsInode, EntryAdded
<1> QED
  BY <1>1, <1>2 DEF StartInDirectory, Ends

LEMMA StartInKind ==
    ASSUME tool.pc = "idle", NEW cmd, NEW pc, NEW d, NEW n \in Names, NEW ino, NEW bytes,
           NEW free, StartIn(cmd, pc, d, n, ino, bytes, free),
           \/ pc = "inode"
           \/ pc = "entry" /\ cmd = "ln" /\ ino \in Linked,
           cmd = "mkdir" => Unfound("whole", d, n), cmd = "cp" => Unfound("exact", d, n)
    PROVE  Begins
<1>1. /\ tool'.pc = pc /\ tool'.parent = d /\ tool'.name = n /\ tool'.cmd = cmd
      /\ tool'.ino = ino /\ UNCHANGED <<disk, damage, losses>>
  BY DEF StartIn
<1> QED
  BY <1>1 DEF Begins

\* A scan that finds nothing saw every entry.
LEMMA NotFound ==
    ASSUME Healthy, NEW d \in Dirs, NEW how \in {"whole", "exact"}, NEW n,
           ~ Matches(how, n, Hit(d, how, n))
    PROVE  Unfound(how, d, n)
<1> DEFINE S == Stops(d, how, n)
<1>1. TypeOK /\ AllFit /\ d \in Inodes
  BY DirTyped DEF Healthy
<1>2. S = {}
  <2> SUFFICES ASSUME S # {} PROVE FALSE
    OBVIOUS
  <2>1. Hit(d, how, n) = EntryAt(d, First(S))
    BY DEF Hit
  <2>2. First(S) \in S
    <3>1. S \subseteq Places(d) /\ Places(d) \subseteq Nat \X Nat
      BY <1>1, PlaceTyped DEF Stops
    <3> HIDE DEF S
    <3> QED
      BY <3>1, FirstIsOneOfThem
  <2>3. First(S) \in Places(d)
    BY <2>2 DEF Stops
  <2>4. Matches(how, n, EntryAt(d, First(S)))
    <3>1. EntryAt(d, First(S)).rec # 0
      BY <2>3, EntryMoves
    <3>2. Matches(how, n, EntryAt(d, First(S))) \/ EntryAt(d, First(S)).rec = 0
      BY <2>2 DEF Stops
    <3> QED
      BY <3>1, <3>2
  <2> QED
    BY <2>1, <2>4
<1>3. ASSUME NEW c \in Owned(d), NEW k \in 1 .. Len(content[c])
      PROVE  ~ Matches(how, n, content[c][k])
  <2>1. PICK m \in 0 .. Direct - 1 : m < inode[d].blocks /\ c = inode[d].block[m]
    BY <1>3 DEF Owned
  <2>2. c \in Blocks /\ c # 0 /\ c \in DirBlocks
    BY <1>3, RoomFound
  <2>3. k \in 1 .. Capacity /\ k <= Len(content[c])
    <3>1. <<c, k>> \in Spots
      BY <1>1, <1>3, <2>2, EntrySpots DEF Healthy, Ownership
    <3> QED
      BY <3>1 DEF Spots
  <2>4. <<m, k>> \in Places(d)
    BY <2>1, <2>3 DEF Places
  <2>5. EntryAt(d, <<m, k>>) = content[c][k]
    BY <2>1 DEF EntryAt
  <2>6. \A p \in Places(d) : ~ Matches(how, n, EntryAt(d, p))
    BY <1>2, Zenon DEF Stops
  <2> QED
    BY <2>4, <2>5, <2>6
<1> QED
  BY <1>3, Zenon DEF Unfound

LEMMA makedirKind ==
    ASSUME Healthy, NEW q \in Requests, makedir(q) PROVE Kind
<1> DEFINE d == Walk(q.dirs)
           e == Hit(d, "whole", q.name)
           exists == d >= 0 /\ Matches("whole", q.name, e)
           spins == d = Endless \/ (d >= 0 /\ ~ exists /\ (e.rec = 0 \/ RoomSpins(d)))
<1>1. d \in Found
  BY WalkFound
<1>2. q.name \in Names
  BY RequestTyped
<1>3. /\ Starts
      /\ \/ StartAnd("mkdir", "hung", exit)
         \/ StartAnd("mkdir", "idle", "failed")
         \/ d \in Inodes /\ ~ exists /\ StartIn("mkdir", "inode", d, q.name, 0, 0, 2)
  BY Zenon DEF makedir
<1>4. tool.pc = "idle"
  BY <1>3, Zenon DEF Starts
<1> HIDE DEF d
<1>5. d \in Inodes => d >= 0
  BY Sizes
<1>6. d \in Inodes => d \in Dirs
  BY <1>1, <1>5, FoundDirs
<1>7. CASE StartAnd("mkdir", "hung", exit) \/ StartAnd("mkdir", "idle", "failed")
  BY <1>4, <1>7, StartAndKind DEF Kind
<1>8. CASE d \in Inodes /\ ~ exists /\ StartIn("mkdir", "inode", d, q.name, 0, 0, 2)
  <2>1. ~ Matches("whole", q.name, e)
    BY <1>5, <1>8
  <2>2. Unfound("whole", d, q.name)
    BY <1>6, <1>8, <2>1, NotFound
  <2>3. Begins
    BY <1>2, <1>4, <1>8, <2>2, StartInKind
  <2> QED
    BY <2>3 DEF Kind
<1> QED
  BY <1>3, <1>7, <1>8

LEMMA copyKind ==
    ASSUME Healthy, NEW q \in Requests, NEW local, copy(q, local) PROVE Kind
<1> DEFINE d == Walk(q.dirs)
           e == Hit(d, "exact", q.name)
           finds == d >= 0 /\ Matches("exact", q.name, e)
<1>1. d \in Found
  BY WalkFound
<1>2. q.name \in Names
  BY RequestTyped
<1>3. /\ Starts
      /\ \/ StartAnd("cp", "hung", exit)
         \/ StartAnd("cp", "idle", "failed")
         \/ StartInDirectory(d, q.name)
         \/ /\ d \in Inodes /\ ~ finds
            /\ \E bytes \in FileSizes : StartIn("cp", "inode", d, q.name, 0, bytes, BlockCalc(bytes) + 1)
  BY Zenon DEF copy
<1>4. tool.pc = "idle"
  BY <1>3, Zenon DEF Starts
<1> HIDE DEF d
<1>5. d \in Inodes => d >= 0
  BY Sizes
<1>6. d \in Inodes => d \in Dirs
  BY <1>1, <1>5, FoundDirs
<1>7. CASE StartAnd("cp", "hung", exit) \/ StartAnd("cp", "idle", "failed")
  BY <1>4, <1>7, StartAndKind DEF Kind
<1>9. CASE StartInDirectory(d, q.name)
  BY <1>4, <1>9, StartInDirectoryKind DEF Kind
<1>8. ASSUME NEW bytes, d \in Inodes, ~ finds,
             StartIn("cp", "inode", d, q.name, 0, bytes, BlockCalc(bytes) + 1)
      PROVE  Kind
  <2>1. ~ Matches("exact", q.name, e)
    BY <1>5, <1>8
  <2>2. Unfound("exact", d, q.name)
    BY <1>6, <1>8, <2>1, NotFound
  <2>3. Begins
    BY <1>2, <1>4, <1>8, <2>2, StartInKind
  <2> QED
    BY <2>3 DEF Kind
<1> HIDE DEF finds
<1> QED
  BY <1>3, <1>7, <1>8, <1>9

LEMMA lnkKind ==
    ASSUME Healthy, NEW q1 \in Requests, NEW q2 \in Requests, lnk(q1, q2) PROVE Kind
<1> DEFINE d1 == goodPathExists(q1)
           d2 == goodPathExists(q2)
           source == Hit(d1, "entry", q1.name).inode
<1>1. q2.name \in Names
  BY RequestTyped
<1>2. /\ Starts
      /\ \/ StartAnd("ln", "hung", exit)
         \/ StartAnd("ln", "idle", "failed")
         \/ /\ d1 \in Inodes /\ source >= 0
            /\ \/ StartIn("ln", "entry", d2, q2.name, source, 0, 2)
               \/ \E bytes \in PathSizes : StartIn("ln -s", "inode", d2, q2.name, 0, bytes, 2)
  BY DEF lnk
<1>3. tool.pc = "idle"
  BY <1>2, Zenon DEF Starts
<1>4. d1 \in Inodes /\ source >= 0 => source \in Linked
  BY sourceLinked DEF Healthy, Ownership
<1> HIDE DEF d1, d2, source
<1>5. CASE StartAnd("ln", "hung", exit) \/ StartAnd("ln", "idle", "failed")
  BY <1>3, <1>5, StartAndKind DEF Kind
<1>6. CASE /\ d1 \in Inodes /\ source >= 0
           /\ StartIn("ln", "entry", d2, q2.name, source, 0, 2)
  <2>1. Begins
    BY <1>1, <1>3, <1>4, <1>6, StartInKind
  <2> QED
    BY <2>1 DEF Kind
<1>7. ASSUME NEW bytes, StartIn("ln -s", "inode", d2, q2.name, 0, bytes, 2) PROVE Kind
  <2>1. "ln -s" # "mkdir" /\ "ln -s" # "cp"
    OBVIOUS
  <2>2. Begins
    BY <1>1, <1>3, <1>7, <2>1, StartInKind
  <2> QED
    BY <2>2 DEF Kind
<1> QED
  BY <1>2, <1>5, <1>6, <1>7

LEMMA rmoveKind ==
    ASSUME Healthy, Intact', NEW q \in Requests, rmove(q) PROVE Kind
<1> DEFINE d == Walk(q.dirs)
           e == Hit(d, "file", q.name)
           finds == d \in Inodes /\ Matches("file", q.name, e)
<1>1. /\ Starts
      /\ \/ StartAnd("rm", "hung", exit)
         \/ StartAnd("rm", "idle", "failed")
         \/ StartAnd("rm", "idle", "killed")
         \/ finds /\ e.inode >= 0 /\ delEntry(d, q.name)
  BY Zenon DEF rmove
<1>2. tool.pc = "idle"
  BY <1>1, Zenon DEF Starts
<1>3. CASE finds /\ e.inode >= 0 /\ delEntry(d, q.name)
  <2>1. \E b, j, i, f : Removed(b, j, i, f) /\ inode' = [inode EXCEPT ![i].links = 0]
    BY <1>1, <1>3, delEntryRemoves DEF Healthy
  <2>2. PICK b, j, i, f : Removed(b, j, i, f) /\ inode' = [inode EXCEPT ![i].links = 0]
    BY <2>1
  <2>3. \A k \in Inodes : k # i => inode'[k] = inode[k]
    BY <2>2 DEF Healthy, TypeOK
  <2>4. runs' = runs + 1 /\ UNCHANGED losses
    BY <1>3 DEF delEntry
  <2>5. runs' # runs
    <3>1. runs \in Nat
      BY SizesAssumption DEF Healthy, TypeOK
    <3> QED
      BY <2>4, <3>1
  <2>6. Deletes(b, j, i, f)
    BY <1>2, <2>2, <2>3, <2>4, <2>5 DEF Deletes
  <2> QED
    BY <2>6, Zenon DEF Kind
<1> HIDE DEF d, e, finds
<1>4. CASE \/ StartAnd("rm", "hung", exit)
           \/ StartAnd("rm", "idle", "failed")
           \/ StartAnd("rm", "idle", "killed")
  BY <1>2, <1>4, StartAndKind DEF Kind
<1> QED
  BY <1>1, <1>3, <1>4

LEMMA newInodesKind ==
    ASSUME Healthy, allocateNewDirInode \/ allocateNewFileInode \/ allocateNewLinkInode
    PROVE  Kind
<1>1. CASE End("failed")
  BY <1>1, EndKind DEF Kind
<1>2. ASSUME NEW mode, NEW links, NEW blocks, ClearInodes # {}, tool.pc = "inode",
             tool.cmd = "cp" => links = 1, TakesInode(mode, links, blocks)
      PROVE  Kind
  <2> PICK x : x = FirstEmpty(ClearInodes)
    OBVIOUS
  <2>1. x \in Inodes \ inodeBits
    <3>1. ClearInodes \in SUBSET Nat
      BY Sizes DEF ClearInodes
    <3> QED
      BY <1>2, <3>1, FirstEmptyClear DEF ClearInodes
  <2>2. inode' = [inode EXCEPT ![x] = [mode |-> mode, links |-> links, blocks |-> blocks,
                                       block |-> inode[x].block]]
    BY <1>2 DEF TakesInode
  <2>3. /\ \A i \in Inodes : i # x => inode'[i] = inode[i]
        /\ inode'[x].links = links
    BY <2>1, <2>2 DEF Healthy, TypeOK
  <2>4. tool' = [tool EXCEPT !.ino = x, !.pc = "blocks"] /\ UNCHANGED <<content, losses>>
        /\ inodeBits' = inodeBits \cup {x}
    BY <1>2 DEF TakesInode
  <2>5. tool'.pc = "blocks" /\ SameTool
    BY <2>4, MovedOn DEF Healthy, SameTool
  <2>6. tool'.ino = x
    BY <2>4 DEF Healthy, TypeOK, Tool
  <2>7. Takes(x)
    BY <1>2, <2>1, <2>3, <2>4, <2>5, <2>6 DEF Takes
  <2> QED
    BY <2>7 DEF Kind
<1>3. CASE allocateNewDirInode
  BY <1>1, <1>2, <1>3 DEF allocateNewDirInode, CanTakeInode
<1>4. CASE allocateNewFileInode
  BY <1>1, <1>2, <1>4 DEF allocateNewFileInode, CanTakeInode
<1>5. CASE allocateNewLinkInode
  BY <1>1, <1>2, <1>5 DEF allocateNewLinkInode, CanTakeInode
<1> QED
  BY <1>3, <1>4, <1>5

LEMMA allocateDirBlocksKind ==
    ASSUME Healthy, allocateDirBlocks PROVE Kind
<1> PICK b : b = FirstEmpty(ClearBlocks)
  OBVIOUS
<1> PICK x : x = tool.ino
  OBVIOUS
<1> PICK dots : dots = DotEntries(x, tool.parent)
  OBVIOUS
<1>1. tool.pc = "blocks" /\ tool.cmd = "mkdir"
  BY DEF allocateDirBlocks
<1>2. CASE End("failed")
  BY <1>2, EndKind DEF Kind
<1>3. CASE /\ b \in Blocks
           /\ inode' = [inode EXCEPT ![x].block[0] = b]
           /\ content' = [content EXCEPT ![b] = dots]
           /\ damage' = damage \cup Overrun({b}) \cup Reused(b)
           /\ tool' = [tool EXCEPT !.pc = "entry"]
           /\ UNCHANGED <<inodeBits, losses>>
  <2>1. b \in Blocks \ blockBits
    <3>1. ClearBlocks \in SUBSET Nat
      BY Sizes DEF ClearBlocks
    <3>2. b \in ClearBlocks \/ b = -2
      BY <3>1, FirstEmptyClear
    <3>3. -2 \notin Blocks
      BY Sizes
    <3> QED
      BY <1>3, <3>2, <3>3 DEF ClearBlocks
  <2>2. x \in Inodes /\ inode \in [Inodes -> Inode] /\ content \in [Blocks -> Chain]
    BY DEF Healthy, TypeOK, Tool
  <2>3. inode[x].mode = "dir" /\ inode[x].blocks = 1
    BY <1>1 DEF Healthy, Ownership, NewSound, HoldsInode, ModeOf, Unfinished
  <2>4. /\ \A i \in Inodes : i # x => inode'[i] = inode[i]
        /\ inode'[x].mode = "dir" /\ inode'[x].blocks = 1
    BY <1>3, <2>2, <2>3 DEF Inode
  <2>5. inode'[x].block[0] = b
    <3>1. 0 \in 0 .. Direct
      BY Sizes
    <3> QED
      BY <1>3, <2>2, <3>1 DEF Inode
  <2>6. content'[b] = dots /\ \A c \in Blocks : c # b => content'[c] = content[c]
    BY <1>3, <2>2
  <2>7. tool'.pc = "entry" /\ SameTool
    BY <1>3, MovedOn DEF Healthy, SameTool
  <2>8. tool'.ino = x
    BY <1>3 DEF Healthy, TypeOK, Tool
  <2>9. Makes(x, b)
    BY <1>1, <1>3, <2>1, <2>4, <2>5, <2>6, <2>7, <2>8 DEF Makes
  <2> QED
    BY <2>9 DEF Kind
<1> QED
  BY <1>2, <1>3 DEF allocateDirBlocks

\* A step of cp or ln -s that does not end the tool.
LEMMA WorksKind ==
    ASSUME Healthy, NEW x, x = tool.ino, Unfinished, tool.cmd \in {"cp", "ln -s"},
           tool'.pc \in {"take", "text", "entry"}, SameTool, tool'.ino = x,
           \A i \in Inodes : i # x => inode'[i] = inode[i],
           inode'[x].mode = inode[x].mode, inode'[x].links = inode[x].links,
           NEW W, W \cap DirBlocks = {},
           \A c \in Blocks : content'[c] = IF c \in W THEN <<Text>> ELSE content[c],
           UNCHANGED <<inodeBits, losses>>
    PROVE  Kind
<1>1. inode[x].mode # "dir"
  BY DEF Healthy, Ownership, NewSound, HoldsInode, ModeOf, Unfinished
<1>2. DirBlocks \subseteq Blocks
  BY DirBlocksTyped DEF Healthy
<1>3. /\ \A c \in DirBlocks : content'[c] = content[c]
      /\ \A c \in Blocks : content'[c] = content[c] \/ content'[c] = <<Text>>
  BY <1>2
<1>4. Works(x)
  BY <1>1, <1>3 DEF Works
<1> QED
  BY <1>4 DEF Kind

LEMMA checksKind ==
    ASSUME Healthy, checkFileBlocks \/ copyFileBytes PROVE Kind
<1>1. CASE End("failed") \/ End("killed")
  BY <1>1, EndKind DEF Kind
<1>2. ASSUME NEW pc \in {"take", "entry"}, tool.pc \in {"blocks", "text"}, tool.cmd = "cp",
             tool' = [tool EXCEPT !.pc = pc], UNCHANGED disk, UNCHANGED losses
      PROVE  Kind
  <2> PICK x : x = tool.ino
    OBVIOUS
  <2>1. tool'.pc = pc /\ SameTool
    BY <1>2, MovedOn DEF Healthy, SameTool
  <2>2. tool'.ino = x
    BY <1>2 DEF Healthy, TypeOK, Tool
  <2>3. UNCHANGED <<inode, content, inodeBits, losses>>
    BY <1>2 DEF disk
  <2>4. Unfinished
    BY <1>2 DEF Unfinished
  <2> PICK W : W = {}
    OBVIOUS
  <2>5. \A c \in Blocks : content'[c] = IF c \in W THEN <<Text>> ELSE content[c]
    BY <2>3
  <2> QED
    BY <1>2, <2>1, <2>2, <2>3, <2>4, <2>5, WorksKind
<1>3. CASE checkFileBlocks
  BY <1>1, <1>2, <1>3 DEF checkFileBlocks
<1>4. CASE copyFileBytes
  <2>1. tool.pc = "text" => tool.cmd = "cp"
    BY DEF Healthy, Ownership, NewSound
  <2> QED
    BY <1>1, <1>2, <1>4, <2>1 DEF copyFileBytes
<1> QED
  BY <1>3, <1>4

LEMMA allocateFileBlocksKind ==
    ASSUME Healthy, Without(Harm)', allocateFileBlocks PROVE Kind
<1> DEFINE k == tool.taken
           b == FirstEmpty(ClearBlocks)
           pointers == inode[tool.ino].block[Direct]
           W == IF k <= Direct THEN {} ELSE {pointers}
           pc == IF k + 1 = FileBlocks(tool.bytes) THEN "text" ELSE "take"
<1>1. tool.pc = "take" /\ tool.cmd = "cp" /\ Unfinished
  BY DEF allocateFileBlocks, Unfinished, Healthy, Ownership, NewSound
<1>2. CASE End("failed")
  BY <1>2, EndKind DEF Kind
<1>3. CASE /\ inode' = IF k <= Direct THEN [inode EXCEPT ![tool.ino].block[k] = b] ELSE inode
           /\ tool' = [tool EXCEPT !.taken = k + 1, !.pc = pc]
           /\ IF k <= Direct THEN UNCHANGED content
              ELSE content' = [content EXCEPT ![pointers] = <<Text>>]
           /\ (IF k <= Direct THEN {} ELSE Spilled({pointers})) \subseteq damage'
           /\ UNCHANGED <<inodeBits, losses>>
  <2> PICK x : x = tool.ino
    OBVIOUS
  <2>1. tool'.pc = pc /\ SameTool
    BY <1>3, MovedOn DEF Healthy, SameTool
  <2>2. tool'.ino = x
    BY <1>3 DEF Healthy, TypeOK, Tool
  <2>3. /\ \A i \in Inodes : i # x => inode'[i] = inode[i]
        /\ inode'[x].mode = inode[x].mode /\ inode'[x].links = inode[x].links
    <3>1. x \in Inodes /\ inode[x] \in Inode /\ inode \in [Inodes -> Inode]
      BY DEF Healthy, TypeOK, Tool
    <3> QED
      BY <1>3, <3>1 DEF Inode
  <2>4. \A c \in Blocks : content'[c] = IF c \in W THEN <<Text>> ELSE content[c]
    <3> HIDE DEF k, pointers
    <3>1. CASE k <= Direct
      BY <1>3, <3>1
    <3>2. CASE ~ k <= Direct
      <4>1. content' = [content EXCEPT ![pointers] = <<Text>>]
        BY <1>3, <3>2
      <4>2. \A c \in Blocks : content'[c] = IF c \in W THEN <<Text>> ELSE content[c]
        BY <3>2, <4>1 DEF Healthy, TypeOK
      <4> QED
        BY <4>2
    <3> QED
      BY <3>1, <3>2
  <2>5. W \cap DirBlocks = {}
    BY <1>3 DEF Spilled, Without, Harm
  <2>6. pc \in {"take", "text", "entry"} /\ UNCHANGED <<inodeBits, losses>>
    BY <1>3
  <2> HIDE DEF W, pc
  <2> QED
    BY <1>1, <2>1, <2>2, <2>3, <2>4, <2>5, <2>6, WorksKind
<1> QED
  BY <1>2, <1>3 DEF allocateFileBlocks

LEMMA allocateLinkBlocksKind ==
    ASSUME Healthy, Without(Harm)', allocateLinkBlocks PROVE Kind
<1> DEFINE b == FirstEmpty(ClearBlocks)
           i_block == [inode[tool.ino].block EXCEPT ![0] = b]
           W == {i_block[k] : k \in 0 .. Pieces[tool.bytes] - 1}
<1>1. tool.cmd = "ln -s" /\ Unfinished
  BY DEF allocateLinkBlocks, Unfinished
<1>2. CASE End("failed")
  BY <1>2, EndKind DEF Kind
<1>3. CASE /\ inode' = [inode EXCEPT ![tool.ino].block = i_block]
           /\ content' = [c \in Blocks |-> IF c \in W THEN <<Text>> ELSE content[c]]
           /\ Spilled(W) \subseteq damage'
           /\ tool' = [tool EXCEPT !.pc = "entry"]
           /\ UNCHANGED <<inodeBits, losses>>
  <2> HIDE DEF W, i_block
  <2> PICK x : x = tool.ino
    OBVIOUS
  <2>1. tool'.pc = "entry" /\ SameTool
    BY <1>3, MovedOn DEF Healthy, SameTool
  <2>2. tool'.ino = x
    BY <1>3 DEF Healthy, TypeOK, Tool
  <2>3. /\ \A i \in Inodes : i # x => inode'[i] = inode[i]
        /\ inode'[x].mode = inode[x].mode /\ inode'[x].links = inode[x].links
    <3>1. x \in Inodes /\ inode[x] \in Inode /\ inode \in [Inodes -> Inode]
      BY DEF Healthy, TypeOK, Tool
    <3> QED
      BY <1>3, <3>1 DEF Inode
  <2>4. \A c \in Blocks : content'[c] = IF c \in W THEN <<Text>> ELSE content[c]
    BY <1>3
  <2>5. W \cap DirBlocks = {}
    BY <1>3 DEF Spilled, Without, Harm
  <2>6. UNCHANGED <<inodeBits, losses>>
    BY <1>3
  <2> QED
    BY <1>1, <2>1, <2>2, <2>3, <2>4, <2>5, <2>6, WorksKind
<1> QED
  BY <1>2, <1>3, Zenon DEF allocateLinkBlocks

LEMMA AddsEntryKind ==
    ASSUME Healthy, Without(Harm)', tool.pc = "entry", NEW type \in Types,
           NEW table \in [Inodes -> Inode], SameTable(table),
           \A i \in Inodes : table[i].links =
             inode[i].links + IF tool.cmd = "ln" /\ i = tool.ino THEN 1 ELSE 0,
           AddsEntry(type, table)
    PROVE  Kind
<1> DEFINE e == NewEntry(tool.name, tool.ino, type, 0, Capacity)
           b == IF tool.grow THEN FirstEmpty(ClearBlocks) ELSE tool.block
           d == tool.parent
<1>1. CASE ~ tool.grow /\ Stuck(b) /\ Spin
  BY <1>1, SpinKind DEF Kind, Healthy
<1>2. CASE /\ ~ tool.grow
           /\ ~ Stuck(b)
           /\ content' = Appended(b, e)
           /\ inode' = table
           /\ tool' = Idle
           /\ exit' = "ok"
           /\ damage' = damage
                \cup (IF RunsOver(b) /\ content[b + 1] # <<Zero>> THEN {"padded"} ELSE {})
                \cup Twin
           /\ UNCHANGED <<blockBits, inodeBits, freeBlocks, freeInodes, usedDirs, runs, losses>>
  <2>1. PICK c : c = tool.block
    OBVIOUS
  <2>2. ~ tool.grow /\ ~ Stuck(c) /\ content' = Appended(c, e) /\ inode' = table
    BY <1>2, <2>1
  <2>3. c # 0
    BY <2>2, BootStuck DEF Healthy
  <2>4. c \in Owned(tool.parent) /\ tool.parent \in Dirs
    BY <2>1, <2>2, <2>3 DEF Healthy, Ownership, ParentSound
  <2>5. c \in Blocks
    BY <2>4, RoomFound
  <2>6. RunsOver(c) => content[c + 1] = <<Zero>>
    <3>1. "padded" \notin damage'
      BY DEF Without, Harm
    <3> QED
      BY <1>2, <2>1, <3>1
  <2>7. /\ content'[c] = Appended(c, Added(type))[c]
        /\ \A k \in Blocks : k # c => content'[k] = content[k]
    BY <2>2, <2>5, <2>6, AppendedElsewhere DEF Added
  <2>8. \A i \in Inodes : SameOwn(i)
    BY <2>2 DEF SameTable, SameOwn
  <2>9. Done(type)
    BY <1>2, <2>2 DEF Done, SameTable
  <2>10. Appends(type, c)
    BY <2>1, <2>2, <2>4, <2>7, <2>8, <2>9 DEF Appends
  <2> QED
    BY <2>10 DEF Kind
<1>3. CASE tool.grow /\ b \notin Blocks /\ End("failed")
  BY <1>3, EndKind DEF Kind
<1>4. CASE /\ tool.grow
           /\ b \in Blocks
           /\ inode' = [table EXCEPT ![d].block[inode[d].blocks] = b, ![d].blocks = @ + 1]
           /\ content' = [content EXCEPT ![b] = <<e>>]
           /\ TakesBlock(b)
           /\ damage' = damage \cup Overrun({b}) \cup Reused(b) \cup Twin
           /\ tool' = Idle
           /\ exit' = "ok"
           /\ UNCHANGED <<inodeBits, freeInodes, usedDirs, runs, losses>>
  <2>1. PICK c, p, k : c = FirstEmpty(ClearBlocks) /\ p = tool.parent /\ k = inode[p].blocks
    OBVIOUS
  <2>2. b = c /\ c \in Blocks
    BY <1>4, <2>1
  <2>3. p \in Inodes /\ k \in Nat /\ k < Direct
    BY <1>4, <2>1 DEF Healthy, Ownership, ParentSound, TypeOK, Tool, Inode
  <2>4. k \in 0 .. Direct
    BY <2>3, Sizes
  <2>5. /\ inode' = [table EXCEPT ![p].block[inode[p].blocks] = c, ![p].blocks = @ + 1]
        /\ content' = [content EXCEPT ![c] = <<e>>]
    BY <1>4, <2>1, <2>2
  <2>6. damage' = damage \cup Overrun({c}) \cup Reused(c) \cup Twin /\ tool.grow
    BY <1>4, <2>2
  <2>7. c \in Blocks \ blockBits
    <3>1. ClearBlocks \in SUBSET Nat
      BY Sizes DEF ClearBlocks
    <3>2. c \in ClearBlocks \/ c = -2
      BY <2>1, <3>1, FirstEmptyClear
    <3>3. -2 \notin Blocks
      BY Sizes
    <3> QED
      BY <2>2, <3>2, <3>3 DEF ClearBlocks
  <2>8. \A i \in Inodes : inode'[i].links = table[i].links /\ inode'[i].mode = table[i].mode
    BY <2>3, <2>5 DEF Inode
  <2>9. Done(type)
    BY <1>4, <2>6, <2>8 DEF Done, SameTable
  <2> HIDE DEF e
  <2>10. Grown(p, k, c, e)
    BY <2>1, <2>2, <2>3, <2>4, <2>5, GrownTable DEF Healthy
  <2> USE DEF e
  <2>11. Grows(type, c)
    BY <2>1, <2>6, <2>7, <2>9, <2>10 DEF Grows, Added
  <2> QED
    BY <2>11 DEF Kind
<1> QED
  BY <1>1, <1>2, <1>3, <1>4, Zenon DEF AddsEntry

LEMMA newEntriesKind ==
    ASSUME Healthy, Without(Harm)',
           \/ addNewDirToParentDirEntList \/ addNewFileToParentDirEntList
           \/ addSymbolicLink \/ addHardLink
    PROVE  Kind
<1>1. /\ inode \in [Inodes -> Inode] /\ SameTable(inode) /\ {"dir", "reg", "lnk"} \subseteq Types
      /\ \A i \in Inodes : inode[i].links \in Int
  BY DEF Healthy, TypeOK, SameTable, Types, Inode
<1>2. ASSUME NEW type \in Types, tool.pc = "entry", tool.cmd # "ln", AddsEntry(type, inode)
      PROVE  Kind
  <2>1. \A i \in Inodes : inode[i].links =
          inode[i].links + IF tool.cmd = "ln" /\ i = tool.ino THEN 1 ELSE 0
    BY <1>1, <1>2
  <2> QED
    BY <1>1, <1>2, <2>1, AddsEntryKind
<1>3. CASE addNewDirToParentDirEntList
  BY <1>1, <1>2, <1>3 DEF addNewDirToParentDirEntList
<1>4. CASE addNewFileToParentDirEntList
  BY <1>1, <1>2, <1>4 DEF addNewFileToParentDirEntList
<1>5. CASE addSymbolicLink
  BY <1>1, <1>2, <1>5 DEF addSymbolicLink
<1>6. CASE addHardLink
  <2> DEFINE i == tool.ino
             mode == inode[i].mode
             type == CASE mode \in {"reg", "lnk"} -> "reg"
                       [] mode = "dir" -> "dir"
                       [] OTHER -> "unknown"
             table == [inode EXCEPT ![i].links = @ + 1]
  <2>1. tool.pc = "entry" /\ tool.cmd = "ln" /\ AddsEntry(type, table)
    BY <1>6 DEF addHardLink
  <2>2. i \in Inodes /\ inode[i] \in Inode
    BY DEF Healthy, TypeOK, Tool
  <2>3. [inode[i] EXCEPT !.links = @ + 1] \in Inode
    BY <2>2 DEF Inode
  <2>4. table \in [Inodes -> Inode] /\ SameTable(table)
    BY <2>2, <2>3 DEF Healthy, TypeOK, SameTable, Inode
  <2>5. type \in Types
    BY DEF Types
  <2>6. \A k \in Inodes : table[k].links =
          inode[k].links + IF tool.cmd = "ln" /\ k = i THEN 1 ELSE 0
    BY <1>1, <2>1, <2>2 DEF Inode
  <2> HIDE DEF type, table
  <2> QED
    BY <2>1, <2>4, <2>5, <2>6, AddsEntryKind
<1> QED
  BY <1>3, <1>4, <1>5, <1>6

LEMMA StepKind ==
    ASSUME Healthy, Without(Harm)', [Next]_vars PROVE Kind
<1>1. CASE Start
  <2>1. Intact'
    BY DEF Without, Harm, Intact
  <2>2. ASSUME NEW q \in Requests, makedir(q) \/ rmove(q) PROVE Kind
    BY <2>1, <2>2, makedirKind, rmoveKind
  <2>3. ASSUME NEW q \in Requests, NEW local, copy(q, local) PROVE Kind
    BY <2>3, copyKind
  <2>4. ASSUME NEW q1 \in Requests, NEW q2 \in Requests, lnk(q1, q2) PROVE Kind
    BY <2>4, lnkKind
  <2> QED
    BY <1>1, <2>2, <2>3, <2>4, Zenon DEF Start
<1>2. CASE Mkdir
  BY <1>2, newInodesKind, allocateDirBlocksKind, newEntriesKind DEF Mkdir
<1>3. CASE Cp
  BY <1>3, newInodesKind, checksKind, allocateFileBlocksKind, newEntriesKind DEF Cp
<1>4. CASE Ln
  BY <1>4, newInodesKind, allocateLinkBlocksKind, newEntriesKind DEF Ln
<1>5. CASE Interrupt
  BY <1>5, InterruptKind DEF Kind
<1>6. CASE UNCHANGED vars
  BY <1>6 DEF Kind
<1> QED
  BY <1>1, <1>2, <1>3, <1>4, <1>5, <1>6, Zenon DEF Next

-----------------------------------------------------------------------------
(* The entries of a healthy image, by block and place. *)

SpotsAre ==
    /\ \A c, k : <<c, k>> \in Spots <=> c \in DirBlocks /\ k \in 1 .. Len(content[c])
    /\ \A s \in Spots : /\ s = <<s[1], s[2]>> /\ s[1] \in DirBlocks
                        /\ s[2] \in 1 .. Len(content[s[1]])

LEMMA SpotsKnown == Healthy => SpotsAre
<1> SUFFICES ASSUME Healthy PROVE SpotsAre
  OBVIOUS
<1>1. TypeOK /\ AllFit /\ Image
  BY DEF Healthy, Ownership
<1>2. ASSUME NEW c, NEW k, <<c, k>> \in Spots
      PROVE  c \in DirBlocks /\ k \in 1 .. Len(content[c])
  <2>1. c \in DirBlocks /\ k \in 1 .. Capacity /\ k <= Len(content[c])
    BY <1>2 DEF Spots
  <2>2. content[c] \in Seq(Entry)
    BY <1>1, <2>1, DirBlocksTyped DEF TypeOK, Chain
  <2> QED
    BY <2>1, <2>2
<1>3. \A c, k : <<c, k>> \in Spots <=> c \in DirBlocks /\ k \in 1 .. Len(content[c])
  BY <1>1, <1>2, EntrySpots
<1>4. ASSUME NEW s \in Spots PROVE s = <<s[1], s[2]>>
  BY DEF Spots
<1>5. ASSUME NEW s \in Spots PROVE s[1] \in DirBlocks /\ s[2] \in 1 .. Len(content[s[1]])
  BY <1>3, <1>4
<1> QED
  BY <1>3, <1>4, <1>5 DEF SpotsAre

\* The places of the entries that name inode i.
Uses(i) == {s \in Spots : Named(s).inode = i}

LinkedAreUsed == \A i \in Inodes : i \in Linked <=> Uses(i) # {}

LEMMA LinkedUses == Healthy => LinkedAreUsed
<1> SUFFICES ASSUME Healthy, NEW i \in Inodes PROVE i \in Linked <=> Uses(i) # {}
  BY DEF LinkedAreUsed
<1>1. TypeOK /\ SpotsAre
  BY SpotsKnown DEF Healthy
<1>2. i # -1
  BY Sizes
<1>3. ASSUME NEW s \in Uses(i) PROVE i \in Linked
  BY <1>1, <1>2, <1>3, SpotLinked DEF Uses
<1>4. ASSUME i \in Linked PROVE Uses(i) # {}
  <2>1. PICK c \in DirBlocks : \E t \in Types : Lists(content[c], i, t)
    BY <1>4 DEF Linked
  <2>2. PICK k \in 1 .. Len(content[c]) : content[c][k].inode = i
    BY <2>1 DEF Lists
  <2>3. <<c, k>> \in Spots /\ Named(<<c, k>>).inode = i
    BY <1>1, <2>2 DEF SpotsAre, Named
  <2> QED
    BY <2>3 DEF Uses
<1> QED
  BY <1>3, <1>4

LEMMA NamedAreLinked == Healthy => NamedInodes = Linked
<1> SUFFICES ASSUME Healthy PROVE NamedInodes = Linked
  OBVIOUS
<1>1. NamedInodes \subseteq Linked
  BY NamedLinked DEF Healthy
<1>2. ASSUME NEW i \in Linked PROVE i \in NamedInodes
  <2>1. i \in Inodes /\ i # -1
    BY Sizes DEF Linked
  <2>2. Uses(i) # {}
    BY <2>1, LinkedUses DEF LinkedAreUsed
  <2> QED
    BY <2>1, <2>2 DEF Uses, NamedInodes
<1> QED
  BY <1>1, <1>2

LEMMA FiniteUses == TypeOK => \A i : IsFiniteSet(Uses(i))
<1> SUFFICES ASSUME TypeOK, NEW i PROVE IsFiniteSet(Uses(i))
  OBVIOUS
<1>1. IsFiniteSet(1 .. Capacity) /\ IsFiniteSet(Blocks)
  BY Sizes, FiniteDisk, FS_Interval
<1>2. IsFiniteSet(Blocks \X (1 .. Capacity))
  BY <1>1, FS_Product
<1>3. Uses(i) \subseteq Blocks \X (1 .. Capacity)
  BY DirBlocksTyped DEF Uses, Spots
<1> QED
  BY <1>2, <1>3, FS_Subset

-----------------------------------------------------------------------------
(* What each kind of step does to the directories. *)

KeepsDirs == Dirs' = Dirs /\ \A d \in Dirs : Owned(d)' = Owned(d)

\* The directories and their entries stay what they were.
Stays == KeepsDirs /\ \A c \in DirBlocks : content'[c] = content[c]

\* Directory d, which may be new, has one more block, b.
Gains(d, b) ==
    /\ b \in Blocks \ blockBits /\ Reused(b) \subseteq damage'
    /\ Dirs' = Dirs \cup {d}
    /\ \A e \in Dirs \ {d} : Owned(e)' = Owned(e)
    /\ Owned(d)' = {b} \cup (IF d \in Dirs THEN Owned(d) ELSE {})
    /\ \A c \in Blocks : c # b => content'[c] = content[c]

\* The entries of block b of a directory are others.
Edits(b) == KeepsDirs /\ b \in DirBlocks /\ \A c \in Blocks : c # b => content'[c] = content[c]

LEMMA FirstBlock ==
    ASSUME TypeOK, NEW d \in Inodes PROVE inode[d].block[0] \in Blocks
<1>1. inode[d] \in Inode /\ 0 \in 0 .. Direct
  BY Sizes DEF TypeOK
<1>2. inode[d].block \in [0 .. Direct -> Blocks]
  BY <1>1 DEF Inode
<1> QED
  BY <1>1, <1>2

LEMMA HealthyDirs ==
    ASSUME Healthy, NEW d \in Dirs
    PROVE  /\ d \in Inodes /\ d \in inodeBits /\ d \in Owners /\ inode[d].mode = "dir"
           /\ inode[d].block[0] \in Own(d) /\ inode[d].block[0] \in Blocks
           /\ inode[d].block[0] \in blockBits /\ inode[d].block[0] \in DirBlocks
           /\ content[inode[d].block[0]][1].name = "."
           /\ content[inode[d].block[0]][1].inode = d
<1>1. TypeOK /\ Ownership /\ Image
  BY DEF Healthy, Ownership
<1>2. /\ d \in Owners /\ d \in Inodes /\ d \in inodeBits /\ inode[d].mode = "dir"
      /\ inode[d].block[0] \in Own(d) /\ inode[d].block[0] \in Blocks
  BY <1>1, DirsOwn
<1>3. inode[d].block[0] \in blockBits
  BY <1>1, <1>2, OwnedBlocks
<1>4. inode[d].block[0] \in DirBlocks
  BY <1>2, Zenon DEF DirBlocks, Own
<1> QED
  BY <1>2, <1>3, <1>4 DEF Dirs

LEMMA DirWhen ==
    ASSUME NEW d \in inodeBits, inode[d].mode = "dir",
           content[inode[d].block[0]][1].name = ".", content[inode[d].block[0]][1].inode = d
    PROVE  d \in Dirs
  BY DEF Dirs

LEMMA SameStays ==
    ASSUME UNCHANGED <<inodeBits, inode, content>> PROVE Stays
  BY SameOwners DEF Stays, KeepsDirs

LEMMA OthersStay ==
    ASSUME Healthy, inodeBits \subseteq inodeBits', NEW x,
           x \notin Dirs, x \notin Dirs',
           \A i \in Inodes : i # x => (i \in inodeBits' <=> i \in inodeBits),
           \A i \in Inodes : i # x => inode'[i] = inode[i],
           \A c \in DirBlocks : content'[c] = content[c],
           \A c \in Blocks : content'[c] = content[c] \/ content'[c][1].name # ".",
           inodeBits' \subseteq Inodes
    PROVE  Stays
<1>1. TypeOK
  BY DEF Healthy
<1>2. ASSUME NEW d \in Dirs PROVE d \in Dirs' /\ Owned(d)' = Owned(d)
  <2>1. /\ d \in Inodes /\ d \in inodeBits /\ inode[d].mode = "dir"
        /\ inode[d].block[0] \in DirBlocks
        /\ content[inode[d].block[0]][1].name = "."
        /\ content[inode[d].block[0]][1].inode = d
    BY HealthyDirs
  <2>2. inode'[d] = inode[d] /\ d \in inodeBits'
    BY <2>1
  <2> QED
    BY <2>1, <2>2, SMTT(30) DEF Dirs, Owned
<1>3. ASSUME NEW d \in Dirs' PROVE d \in Dirs
  <2>1. /\ d \in inodeBits' /\ inode'[d].mode = "dir"
        /\ content'[inode'[d].block[0]][1].name = "."
        /\ content'[inode'[d].block[0]][1].inode = d
    BY DEF Dirs
  <2>2. d \in Inodes /\ d # x
    BY <2>1
  <2>3. inode'[d] = inode[d] /\ d \in inodeBits
    BY <2>1, <2>2
  <2>4. inode[d].block[0] \in Blocks
    BY <1>1, <2>2, FirstBlock
  <2>5. content'[inode[d].block[0]] = content[inode[d].block[0]]
    BY <2>1, <2>3, <2>4
  <2> QED
    BY <2>1, <2>3, <2>5, DirWhen
<1> QED
  BY <1>2, <1>3 DEF Stays, KeepsDirs

LEMMA TakesStays ==
    ASSUME Healthy, Healthy', NEW x, Takes(x) PROVE Stays
<1>1. tool'.pc = "blocks" /\ tool'.ino = x /\ x \in Inodes \ inodeBits
      /\ inodeBits' = inodeBits \cup {x} /\ content' = content
      /\ \A i \in Inodes : i # x => inode'[i] = inode[i]
  BY DEF Takes
<1>2. Unfinished' /\ NewSound' /\ TypeOK'
  BY <1>1 DEF Unfinished, Healthy, Ownership
<1>3. x \notin Dirs'
  BY <1>1, <1>2 DEF NewSound
<1>4. x \notin Dirs
  BY <1>1 DEF Dirs
<1>5. inodeBits' \subseteq Inodes
  BY <1>2 DEF TypeOK
<1> QED
  BY <1>1, <1>3, <1>4, <1>5, OthersStay

LEMMA WorksStays ==
    ASSUME Healthy, Healthy', NEW x, Works(x) PROVE Stays
<1>1. /\ inodeBits' = inodeBits /\ inode[x].mode # "dir" /\ inode'[x].mode # "dir"
      /\ \A i \in Inodes : i # x => inode'[i] = inode[i]
      /\ \A c \in DirBlocks : content'[c] = content[c]
      /\ \A c \in Blocks : content'[c] = content[c] \/ content'[c] = <<Text>>
  BY DEF Works
<1>2. x \notin Dirs /\ x \notin Dirs'
  BY <1>1 DEF Dirs
<1>3. <<Text>>[1].name # "."
  BY DEF Text, NewEntry
<1>4. \A c \in Blocks : content'[c] = content[c] \/ content'[c][1].name # "."
  BY <1>1, <1>3
<1>5. inodeBits' \subseteq Inodes
  BY DEF TypeOK, Healthy
<1> QED
  BY <1>1, <1>2, <1>4, <1>5, OthersStay

LEMMA MakesGains ==
    ASSUME Healthy, NEW x, NEW b, Makes(x, b)
    PROVE  Gains(x, b) /\ x \notin Dirs /\ x \in Inodes
<1>1. /\ tool.pc = "blocks" /\ tool.cmd = "mkdir" /\ tool.ino = x
      /\ b \in Blocks \ blockBits /\ Reused(b) \subseteq damage'
      /\ \A i \in Inodes : i # x => inode'[i] = inode[i]
      /\ inode'[x].mode = "dir" /\ inode'[x].blocks = 1 /\ inode'[x].block[0] = b
      /\ content'[b] = DotEntries(x, tool.parent)
      /\ \A c \in Blocks : c # b => content'[c] = content[c]
      /\ inodeBits' = inodeBits
  BY DEF Makes
<1>2. Unfinished /\ HoldsInode /\ NewSound /\ TypeOK
  BY <1>1 DEF Unfinished, HoldsInode, Healthy, Ownership
<1>3. x \notin Dirs /\ x \in inodeBits /\ x \in Inodes
  BY <1>1, <1>2 DEF NewSound, TypeOK
<1>4. content'[b][1].name = "." /\ content'[b][1].inode = x
  BY <1>1 DEF DotEntries, NewEntry
<1>5. ASSUME NEW d \in Dirs PROVE d \in Dirs' /\ Owned(d)' = Owned(d)
  <2>1. /\ d \in Inodes /\ d \in inodeBits /\ inode[d].mode = "dir"
        /\ inode[d].block[0] \in blockBits /\ inode[d].block[0] \in Blocks
        /\ content[inode[d].block[0]][1].name = "."
        /\ content[inode[d].block[0]][1].inode = d
    BY HealthyDirs
  <2>2. inode'[d] = inode[d] /\ content'[inode[d].block[0]] = content[inode[d].block[0]]
    BY <1>1, <1>3, <2>1
  <2> QED
    BY <1>1, <2>1, <2>2 DEF Dirs, Owned
<1>6. ASSUME NEW d \in Dirs', d # x PROVE d \in Dirs
  <2>1. /\ d \in inodeBits /\ inode'[d].mode = "dir"
        /\ content'[inode'[d].block[0]][1].name = "."
        /\ content'[inode'[d].block[0]][1].inode = d
    BY <1>1 DEF Dirs
  <2>2. d \in Inodes
    BY <1>2, <2>1 DEF TypeOK
  <2>3. inode'[d] = inode[d]
    BY <1>1, <1>6, <2>2
  <2>4. inode[d].block[0] \in Blocks
    BY <1>2, <2>2, FirstBlock
  <2>5. inode[d].block[0] # b
    BY <1>4, <1>6, <2>1, <2>3
  <2>6. content'[inode[d].block[0]] = content[inode[d].block[0]]
    BY <1>1, <2>4, <2>5
  <2> QED
    BY <2>1, <2>3, <2>6, DirWhen
<1>7. x \in Dirs'
  BY <1>1, <1>3, <1>4 DEF Dirs
<1>8. Owned(x)' = {b}
  <2>1. 0 \in 0 .. Direct - 1 /\ \A k \in 0 .. Direct - 1 : k < 1 => k = 0
    BY Sizes
  <2> QED
    BY <1>1, <2>1 DEF Owned
<1>9. Dirs' = Dirs \cup {x}
  BY <1>5, <1>6, <1>7
<1> QED
  BY <1>1, <1>3, <1>5, <1>8, <1>9 DEF Gains

LEMMA AppendsEdits ==
    ASSUME Healthy, NEW type, NEW b, Appends(type, b)
    PROVE  /\ Edits(b) /\ b = tool.block /\ b \in Owned(tool.parent) /\ tool.parent \in Dirs
           /\ Added(type) \in Entry
<1>1. /\ tool.pc = "entry" /\ b = tool.block /\ b \in Owned(tool.parent) /\ type \in Types
      /\ inodeBits' = inodeBits
      /\ \A i \in Inodes : SameOwn(i)
      /\ content'[b] = Appended(b, Added(type))[b]
      /\ \A c \in Blocks : c # b => content'[c] = content[c]
  BY DEF Appends, Done
<1>2. TypeOK /\ Ownership
  BY DEF Healthy
<1>3. tool.parent \in Dirs
  BY <1>1, <1>2 DEF Ownership, ParentSound
<1>4. b \in DirBlocks /\ b \in Blocks /\ ~ Stuck(b)
  BY <1>1, <1>3, RoomFound
<1>5. Added(type) \in Entry
  BY <1>1, <1>2, NewEntryShape, Zenon DEF Added
<1>6. content'[b][1].name = content[b][1].name /\ content'[b][1].inode = content[b][1].inode
  BY <1>1, <1>2, <1>4, <1>5, AppendedStart
<1>7. \A c \in Blocks : /\ content'[c][1].name = content[c][1].name
                        /\ content'[c][1].inode = content[c][1].inode
  BY <1>1, <1>6
<1>8. \A d \in Inodes : /\ inode[d].block[0] \in Blocks
                        /\ inode'[d].mode = inode[d].mode /\ inode'[d].block = inode[d].block
                        /\ Owned(d)' = Owned(d)
  BY <1>1, <1>2, FirstBlock, OwnSame DEF SameOwn
<1>9. inodeBits \subseteq Inodes
  BY <1>2 DEF TypeOK
<1>10. \A d \in Dirs : d \in Inodes
  BY <1>9 DEF Dirs
<1>11. ASSUME NEW d \in Inodes PROVE d \in Dirs <=> d \in Dirs'
  <2>1. PICK c \in Blocks : c = inode[d].block[0] /\ c = inode'[d].block[0]
    BY <1>8
  <2>2. /\ content'[c][1].name = content[c][1].name
        /\ content'[c][1].inode = content[c][1].inode
        /\ inode'[d].mode = inode[d].mode
    BY <1>7, <1>8
  <2>3. d \in Dirs <=> /\ d \in inodeBits /\ inode[d].mode = "dir"
                       /\ content[c][1].name = "." /\ content[c][1].inode = d
    BY <2>1 DEF Dirs
  <2>4. d \in Dirs' <=> /\ d \in inodeBits' /\ inode'[d].mode = "dir"
                        /\ content'[c][1].name = "." /\ content'[c][1].inode = d
    BY <2>1 DEF Dirs
  <2> QED
    BY <1>1, <2>2, <2>3, <2>4
<1>12. \A d \in Dirs' : d \in Inodes
  BY <1>1, <1>9 DEF Dirs
<1> QED
  BY <1>1, <1>3, <1>4, <1>5, <1>8, <1>10, <1>11, <1>12 DEF Edits, KeepsDirs

LEMMA GrowsGains ==
    ASSUME Healthy, NEW type, NEW b, Grows(type, b), NEW p, p = tool.parent
    PROVE  /\ Gains(p, b) /\ p \in Dirs
           /\ content'[b] = <<Added(type)>>
           /\ Added(type).name = tool.name /\ Added(type).inode = tool.ino
<1> PICK k : k = inode[p].blocks
  OBVIOUS
<1>1. /\ tool.pc = "entry" /\ tool.grow /\ type \in Types
      /\ b \in Blocks \ blockBits /\ Reused(b) \subseteq damage'
      /\ inodeBits' = inodeBits
      /\ Grown(p, k, b, Added(type))
  BY DEF Grows, Done
<1>2. TypeOK /\ Ownership /\ Image
  BY DEF Healthy, Ownership
<1>3. p \in Dirs /\ k < Direct
  BY <1>1, <1>2 DEF Ownership, ParentSound
<1>4. p \in Inodes /\ p \in Owners
  BY <1>3, HealthyDirs
<1>5. k \in Nat /\ 0 < k
  BY <1>2, <1>4, OwnerFirst
<1>6. /\ inode'[p].blocks = k + 1 /\ inode'[p].block[k] = b
      /\ \A j \in 0 .. Direct : j # k => inode'[p].block[j] = inode[p].block[j]
      /\ \A i \in Inodes : /\ inode'[i].mode = inode[i].mode
                           /\ i # p => SameOwn(i)
      /\ content'[b] = <<Added(type)>>
      /\ \A c \in Blocks : c # b => content'[c] = content[c]
  BY <1>1 DEF Grown
<1>7. Added(type).name = tool.name /\ Added(type).inode = tool.ino /\ Added(type).name # "."
  BY <1>1, <1>2, NewEntryShape, Zenon DEF Added
<1>8. ASSUME NEW d \in Inodes
      PROVE  inode'[d].block[0] = inode[d].block[0] /\ inode[d].block[0] \in Blocks
  <2>1. inode[d].block[0] \in Blocks
    BY <1>2, FirstBlock
  <2>2. 0 \in 0 .. Direct /\ 0 # k
    BY <1>5, Sizes
  <2>3. CASE d = p
    BY <1>6, <2>1, <2>2, <2>3
  <2>4. CASE d # p
    BY <1>6, <2>1, <2>4 DEF SameOwn
  <2> QED
    BY <2>3, <2>4
<1>9. inodeBits \subseteq Inodes
  BY <1>2 DEF TypeOK
<1>10. ASSUME NEW d \in Dirs PROVE d \in Dirs' /\ (d # p => Owned(d)' = Owned(d))
  <2>1. /\ d \in Inodes /\ d \in inodeBits /\ inode[d].mode = "dir"
        /\ inode[d].block[0] \in blockBits /\ inode[d].block[0] \in Blocks
        /\ content[inode[d].block[0]][1].name = "."
        /\ content[inode[d].block[0]][1].inode = d
    BY HealthyDirs
  <2>2. content'[inode[d].block[0]] = content[inode[d].block[0]]
    BY <1>1, <1>6, <2>1
  <2>3. d \in Dirs'
    BY <1>1, <1>6, <1>8, <2>1, <2>2 DEF Dirs
  <2> QED
    BY <1>6, <2>1, <2>3, OwnSame
<1>11. ASSUME NEW d \in Dirs' PROVE d \in Dirs
  <2>1. /\ d \in inodeBits /\ inode'[d].mode = "dir"
        /\ content'[inode'[d].block[0]][1].name = "."
        /\ content'[inode'[d].block[0]][1].inode = d
    BY <1>1 DEF Dirs
  <2>2. d \in Inodes /\ inode[d].mode = "dir" /\ inode'[d].block[0] = inode[d].block[0]
    BY <1>6, <1>8, <1>9, <2>1
  <2>3. inode[d].block[0] # b
    BY <1>6, <1>7, <2>1, <2>2
  <2>4. content'[inode[d].block[0]] = content[inode[d].block[0]]
    BY <1>6, <1>8, <2>2, <2>3
  <2> QED
    BY <2>1, <2>2, <2>4, DirWhen
<1>12. Owned(p)' = {b} \cup Owned(p)
  <2>1. Owned(p)' = {inode'[p].block[j] : j \in {j \in 0 .. Direct - 1 : j < k + 1}}
    BY <1>6 DEF Owned
  <2>2. Owned(p) = {inode[p].block[j] : j \in {j \in 0 .. Direct - 1 : j < k}}
    BY DEF Owned
  <2>3. /\ k \in 0 .. Direct - 1 /\ k < k + 1
        /\ \A j \in 0 .. Direct - 1 : j \in 0 .. Direct /\ (j < k + 1 <=> j < k \/ j = k)
        /\ ~ (k < k)
    BY <1>3, <1>5, Sizes
  <2>4. \A j \in 0 .. Direct - 1 : inode'[p].block[j] = IF j = k THEN b ELSE inode[p].block[j]
    BY <1>6, <2>3
  <2>5. ASSUME NEW c \in Owned(p)' PROVE c = b \/ c \in Owned(p)
    <3>1. PICK j \in 0 .. Direct - 1 : j < k + 1 /\ c = inode'[p].block[j]
      BY <2>1
    <3> QED
      BY <2>2, <2>3, <2>4, <3>1
  <2>6. b \in Owned(p)'
    BY <2>1, <2>3, <2>4
  <2>7. ASSUME NEW c \in Owned(p) PROVE c \in Owned(p)'
    <3>1. PICK j \in 0 .. Direct - 1 : j < k /\ c = inode[p].block[j]
      BY <2>2
    <3>2. j # k /\ j < k + 1
      BY <2>3, <3>1
    <3> QED
      BY <2>1, <2>4, <3>1, <3>2
  <2> QED
    BY <2>5, <2>6, <2>7
<1>13. Dirs' = Dirs \cup {p}
  BY <1>3, <1>10, <1>11
<1> QED
  BY <1>1, <1>3, <1>6, <1>7, <1>10, <1>12, <1>13, Zenon DEF Gains

LEMMA DeletesEdits ==
    ASSUME Healthy, NEW b, NEW j, NEW i, NEW f, Deletes(b, j, i, f)
    PROVE  /\ Edits(b) /\ j \in 1 .. Len(content[b]) /\ content[b][j].inode = i
           /\ i \in Inodes /\ inode[i].mode # "dir"
           /\ content'[b] = Unlinked(content[b], j)
           /\ \A s \in Spots : s # <<b, j>> => Named(s).inode # i
<1>1. TypeOK /\ AllFit /\ Image
  BY DEF Healthy, Ownership
<1>2. Removed(b, j, i, f) /\ tool.pc = "idle"
  BY DEF Deletes
<1>3. /\ b \in DirBlocks /\ j \in 1 .. Len(content[b])
      /\ content[b][j].inode = i /\ i \in Owners /\ inode[i].mode \in {"reg", "lnk"}
      /\ \A k \in Inodes : SameOwn(k)
      /\ content'[b] = Unlinked(content[b], j)
      /\ \A c \in Blocks : c # b => content'[c] = content[c]
      /\ inodeBits' = inodeBits \ {i}
      /\ \A s \in Spots : s # <<b, j>> => Named(s).inode # i
  BY <1>2 DEF Removed
<1>4. inode[i].mode # "dir" /\ i \in Inodes
  BY <1>1, <1>3, OwnerTyped
<1>5. content[b] \in Chain
  BY <1>1, <1>3, DirBlocksTyped DEF TypeOK
<1>6. ASSUME NEW d \in Dirs PROVE d \in Dirs' /\ Owned(d)' = Owned(d)
  <2>1. /\ d \in Inodes /\ d \in inodeBits /\ inode[d].mode = "dir"
        /\ inode[d].block[0] \in Blocks
        /\ content[inode[d].block[0]][1].name = "."
        /\ content[inode[d].block[0]][1].inode = d
    BY HealthyDirs
  <2>2. SameOwn(d) /\ d \in inodeBits'
    BY <1>3, <1>4, <2>1
  <2>3. CASE inode[d].block[0] = b
    <3>1. j # 1
      BY <1>3, <1>4, <2>1, <2>3
    <3>2. content'[b][1].name = "." /\ content'[b][1].inode = d
      BY <1>3, <1>5, <2>1, <2>3, <3>1, UnlinkedKeeps
    <3> QED
      BY <2>1, <2>2, <2>3, <3>2, OwnSame DEF Dirs, SameOwn
  <2>4. CASE inode[d].block[0] # b
    BY <1>3, <2>1, <2>2, <2>4, OwnSame DEF Dirs, SameOwn
  <2> QED
    BY <2>3, <2>4
<1>7. Dirs' \subseteq Dirs
  BY <1>1, <1>2, RemovedNames
<1> QED
  BY <1>3, <1>4, <1>6, <1>7 DEF Edits, KeepsDirs

-----------------------------------------------------------------------------
(* And to the places that name an inode. *)

LEMMA SpotsNow ==
    ASSUME Healthy, Healthy' PROVE SpotsAre /\ SpotsAre'
  BY SpotsKnown, PTL

LEMMA UsesNow ==
    ASSUME NEW i, NEW s, Healthy'
    PROVE  s \in Uses(i)' <=> s \in Spots' /\ content'[s[1]][s[2]].inode = i
  BY DEF Uses, Named

LEMMA KeepsBlocks == ASSUME KeepsDirs PROVE DirBlocks' = DirBlocks
<1>1. \A c : c \in DirBlocks' <=> c \in DirBlocks
  BY DEF KeepsDirs, DirBlocks
<1> QED
  BY <1>1

LEMMA StaysUses ==
    ASSUME Healthy, Healthy', Stays
    PROVE  /\ Spots' = Spots /\ DirBlocks' = DirBlocks
           /\ \A s \in Spots : content'[s[1]] = content[s[1]]
           /\ \A i : Uses(i)' = Uses(i)
<1>1. SpotsAre /\ SpotsAre'
  BY SpotsNow
<1>2. DirBlocks' = DirBlocks /\ \A c \in DirBlocks : content'[c] = content[c]
  BY KeepsBlocks DEF Stays
<1>3. \A s : s \in Spots' <=> s \in Spots
  BY <1>1, <1>2 DEF SpotsAre
<1>4. \A s \in Spots : content'[s[1]] = content[s[1]]
  BY <1>1, <1>2 DEF SpotsAre
<1>5. ASSUME NEW i, NEW s PROVE s \in Uses(i)' <=> s \in Uses(i)
  BY <1>3, <1>4 DEF Uses, Named
<1>6. ASSUME NEW i PROVE Uses(i)' = Uses(i)
  BY <1>5
<1> QED
  BY <1>2, <1>3, <1>4, <1>6

LEMMA GainsBlocks ==
    ASSUME NEW d, NEW b, Gains(d, b)
    PROVE  DirBlocks' = DirBlocks \cup {b}
<1>1. \A c : c \in DirBlocks' <=> c \in DirBlocks \/ c = b
  BY DEF Gains, DirBlocks
<1> QED
  BY <1>1

LEMMA GainsSpots ==
    ASSUME Healthy, Healthy', NEW d, NEW b, Gains(d, b)
    PROVE  /\ \A s \in Spots : s[1] # b => s \in Spots' /\ content'[s[1]] = content[s[1]]
           /\ \A s \in Spots' : s[1] # b => s \in Spots /\ content'[s[1]] = content[s[1]]
           /\ \A k : <<b, k>> \in Spots' <=> k \in 1 .. Len(content'[b])
<1>1. SpotsAre /\ SpotsAre'
  BY SpotsNow
<1>2. DirBlocks' = DirBlocks \cup {b} /\ DirBlocks \subseteq Blocks
  BY GainsBlocks, DirBlocksTyped DEF Healthy
<1>3. \A c \in DirBlocks : c # b => content'[c] = content[c]
  BY <1>2 DEF Gains
<1>4. ASSUME NEW s \in Spots, s[1] # b PROVE s \in Spots' /\ content'[s[1]] = content[s[1]]
  BY <1>1, <1>2, <1>3, <1>4 DEF SpotsAre
<1>5. ASSUME NEW s \in Spots', s[1] # b PROVE s \in Spots /\ content'[s[1]] = content[s[1]]
  BY <1>1, <1>2, <1>3, <1>5 DEF SpotsAre
<1>6. \A k : <<b, k>> \in Spots' <=> k \in 1 .. Len(content'[b])
  BY <1>1, <1>2 DEF SpotsAre
<1> QED
  BY <1>4, <1>5, <1>6

LEMMA GainsUses ==
    ASSUME Healthy, Healthy', NEW d, NEW b, Gains(d, b), "reused" \notin damage', NEW i \in Inodes
    PROVE  /\ \A s \in Uses(i) : s[1] # b
           /\ \A s : s \in Uses(i)' <=>
                \/ s \in Uses(i)
                \/ \E k \in 1 .. Len(content'[b]) : s = <<b, k>> /\ content'[b][k].inode = i
<1>1. SpotsAre /\ SpotsAre'
  BY SpotsNow
<1>2. Reused(b) = {}
  BY DEF Gains, Reused
<1>3. i >= 0
  BY Sizes
<1>4. ASSUME NEW s \in Uses(i) PROVE s[1] # b
  <2>1. s \in Spots /\ Named(s).inode >= 0
    BY <1>3 DEF Uses
  <2>2. ~ \E t \in Spots : t[1] = b /\ Named(t).inode >= 0
    BY <1>2 DEF Reused
  <2> QED
    BY <2>1, <2>2
<1>5. ASSUME NEW s \in Uses(i) PROVE s \in Uses(i)'
  BY <1>4, GainsSpots, UsesNow DEF Uses, Named
<1>6. ASSUME NEW k \in 1 .. Len(content'[b]), content'[b][k].inode = i
      PROVE  <<b, k>> \in Uses(i)'
  <2>1. <<b, k>> \in Spots'
    BY GainsSpots
  <2> QED
    BY <1>6, <2>1, UsesNow
<1>7. ASSUME NEW s \in Uses(i)'
      PROVE  \/ s \in Uses(i)
             \/ \E k \in 1 .. Len(content'[b]) : s = <<b, k>> /\ content'[b][k].inode = i
  <2>1. s \in Spots' /\ content'[s[1]][s[2]].inode = i
    BY UsesNow
  <2>2. CASE s[1] # b
    BY <2>1, <2>2, GainsSpots DEF Uses, Named
  <2>3. CASE s[1] = b
    <3>1. s = <<b, s[2]>>
      BY <1>1, <2>1, <2>3 DEF SpotsAre
    <3>2. s[2] \in 1 .. Len(content'[b])
      BY <2>1, <3>1, GainsSpots
    <3> QED
      BY <2>1, <2>3, <3>1, <3>2
  <2> QED
    BY <2>2, <2>3
<1> QED
  BY <1>4, <1>5, <1>6, <1>7

LEMMA EditsSpots ==
    ASSUME Healthy, Healthy', NEW b, Edits(b)
    PROVE  /\ DirBlocks' = DirBlocks /\ b \in Blocks
           /\ \A s \in Spots : s[1] # b => s \in Spots' /\ content'[s[1]] = content[s[1]]
           /\ \A s \in Spots' : s[1] # b => s \in Spots /\ content'[s[1]] = content[s[1]]
           /\ \A k : <<b, k>> \in Spots <=> k \in 1 .. Len(content[b])
           /\ \A k : <<b, k>> \in Spots' <=> k \in 1 .. Len(content'[b])
<1>1. SpotsAre /\ SpotsAre'
  BY SpotsNow
<1>2. DirBlocks' = DirBlocks /\ DirBlocks \subseteq Blocks /\ b \in DirBlocks
  BY KeepsBlocks, DirBlocksTyped DEF Edits, Healthy
<1>3. \A c \in DirBlocks : c # b => content'[c] = content[c]
  BY <1>2 DEF Edits
<1>4. ASSUME NEW s \in Spots, s[1] # b PROVE s \in Spots' /\ content'[s[1]] = content[s[1]]
  BY <1>1, <1>2, <1>3, <1>4 DEF SpotsAre
<1>5. ASSUME NEW s \in Spots', s[1] # b PROVE s \in Spots /\ content'[s[1]] = content[s[1]]
  BY <1>1, <1>2, <1>3, <1>5 DEF SpotsAre
<1>6. \A k : <<b, k>> \in Spots <=> k \in 1 .. Len(content[b])
  BY <1>1, <1>2 DEF SpotsAre
<1>7. \A k : <<b, k>> \in Spots' <=> k \in 1 .. Len(content'[b])
  BY <1>1, <1>2 DEF SpotsAre
<1> QED
  BY <1>2, <1>4, <1>5, <1>6, <1>7

LEMMA EndedKept ==
    ASSUME NEW r \in Entry, NEW w, r.name \notin Aligned, r.ended
    PROVE  [r EXCEPT !.rec = w, !.ended = @ /\ r.name \notin Aligned].ended
<1> DEFINE v == r.ended /\ r.name \notin Aligned
<1>1. [r EXCEPT !.rec = w, !.ended = v].ended = v
  BY DEF Entry
<1>2. v
  OBVIOUS
<1> HIDE DEF v
<1>3. [r EXCEPT !.rec = w, !.ended = v].ended
  BY <1>1, <1>2
<1> QED
  BY <1>3 DEF v

LEMMA AppendedNames ==
    ASSUME TypeOK, NEW b \in Blocks, NEW e \in Entry
    PROVE  LET n == Len(content[b])
               f == Appended(b, e)[b]
           IN  /\ n \in Nat \ {0} /\ Len(f) = n + 1
               /\ \A k \in 1 .. n : /\ f[k].name = content[b][k].name
                                    /\ f[k].inode = content[b][k].inode
                                    /\ f[k].type = content[b][k].type
                                    /\ content[b][k].name \notin Aligned
                                         /\ content[b][k].ended => f[k].ended
               /\ f[n + 1].name = e.name /\ f[n + 1].inode = e.inode
               /\ f[n + 1].type = e.type /\ f[n + 1].ended = e.ended
<1> DEFINE n == Len(content[b])
           old == LastOf(b)
           f == Appended(b, e)[b]
           last == [old EXCEPT !.rec = 1, !.ended = @ /\ old.name \notin Aligned]
           new == [e EXCEPT !.off = old.off + 1, !.rec = Capacity - (old.off + 1)]
<1>1. /\ n \in Nat \ {0} /\ Len(f) = n + 1
      /\ \A j \in 1 .. n - 1 : f[j] = content[b][j]
      /\ f[n] = last /\ f[n + 1] = new
  BY AppendedParts
<1>2. old = content[b][n]
  BY DEF LastOf
<1>3. old \in Entry
  BY LastTyped
<1>4. last.name = old.name /\ last.inode = old.inode /\ last.type = old.type
  BY <1>3 DEF Entry
<1>5. old.name \notin Aligned /\ old.ended => last.ended
  BY <1>3, EndedKept
<1>6. /\ new.name = e.name /\ new.inode = e.inode
      /\ new.type = e.type /\ new.ended = e.ended
  BY DEF Entry
<1> HIDE DEF n, old, f, last, new
<1>7. \A k \in 1 .. n : k \in 1 .. n - 1 \/ k = n
  BY <1>1
<1>8. \A k \in 1 .. n : /\ f[k].name = content[b][k].name
                        /\ f[k].inode = content[b][k].inode
                        /\ f[k].type = content[b][k].type
                        /\ content[b][k].name \notin Aligned
                             /\ content[b][k].ended => f[k].ended
  BY <1>1, <1>2, <1>4, <1>5, <1>7
<1>9. /\ f[n + 1].name = e.name /\ f[n + 1].inode = e.inode
      /\ f[n + 1].type = e.type /\ f[n + 1].ended = e.ended
  BY <1>1, <1>6
<1> QED
  BY <1>1, <1>8, <1>9 DEF n, f

LEMMA AppendsParts ==
    ASSUME Healthy, NEW type, NEW b, Appends(type, b)
    PROVE  LET n == Len(content[b])
               f == content'[b]
           IN  /\ n \in Nat \ {0} /\ Len(f) = n + 1
               /\ \A k \in 1 .. n : /\ f[k].name = content[b][k].name
                                    /\ f[k].inode = content[b][k].inode
                                    /\ f[k].type = content[b][k].type
                                    /\ content[b][k].name \notin Aligned
                                         /\ content[b][k].ended => f[k].ended
               /\ f[n + 1].name = tool.name /\ f[n + 1].inode = tool.ino
               /\ f[n + 1].type = type /\ f[n + 1].ended
<1>1. TypeOK /\ content'[b] = Appended(b, Added(type))[b]
  BY DEF Healthy, Appends
<1>2. b \in Blocks /\ Added(type) \in Entry
  BY <1>1, AppendsEdits, DirBlocksTyped DEF Edits
<1>3. /\ Added(type).name = tool.name /\ Added(type).inode = tool.ino
      /\ Added(type).type = type /\ Added(type).ended = TRUE
  BY DEF Added, NewEntry
<1>4. PICK e : e = Added(type)
  OBVIOUS
<1>5. e \in Entry /\ content'[b] = Appended(b, e)[b]
  BY <1>1, <1>2, <1>4
<1> QED
  BY <1>1, <1>2, <1>3, <1>4, <1>5, AppendedNames

\* One more entry names inode x, at place s, and all others stay.
UsedOnce(x, s) ==
    /\ s \notin Uses(x)
    /\ \A i \in Inodes : \A t : t \in Uses(i)' <=> t \in Uses(i) \/ (i = x /\ t = s)

LEMMA AppendsUses ==
    ASSUME Healthy, Healthy', NEW type, NEW b, Appends(type, b), NEW x, x = tool.ino
    PROVE  UsedOnce(x, <<b, Len(content[b]) + 1>>)
<1>1. PICK n : n = Len(content[b])
  OBVIOUS
<1>2. /\ n \in Nat \ {0} /\ Len(content'[b]) = n + 1
      /\ \A k \in 1 .. n : content'[b][k].inode = content[b][k].inode
      /\ content'[b][n + 1].inode = x
  BY <1>1, AppendsParts
<1>3. SpotsAre /\ SpotsAre' /\ Edits(b)
  BY SpotsNow, AppendsEdits
<1>4. <<b, n + 1>> \notin Spots
  BY <1>1, <1>2, <1>3 DEF SpotsAre
<1>5. \A k : k \in 1 .. n + 1 <=> k \in 1 .. n \/ k = n + 1
  BY <1>2
<1>6. ASSUME NEW i \in Inodes, NEW t
      PROVE  t \in Uses(i)' <=> t \in Uses(i) \/ (i = x /\ t = <<b, n + 1>>)
  <2>1. t \in Uses(i)' <=> t \in Spots' /\ content'[t[1]][t[2]].inode = i
    BY UsesNow
  <2>2. t \in Uses(i) <=> t \in Spots /\ content[t[1]][t[2]].inode = i
    BY DEF Uses, Named
  <2>3. CASE t[1] # b
    BY <1>3, <2>1, <2>2, <2>3, EditsSpots
  <2>4. CASE t[1] = b /\ t = <<b, t[2]>>
    <3>1. t \in Spots <=> t[2] \in 1 .. n
      BY <1>1, <1>3, <2>4, EditsSpots
    <3>2. t \in Spots' <=> t[2] \in 1 .. n + 1
      BY <1>2, <1>3, <2>4, EditsSpots
    <3>3. CASE t[2] = n + 1
      <4>1. t[2] \notin 1 .. n /\ t[2] \in 1 .. n + 1 /\ t = <<b, n + 1>>
        BY <1>2, <2>4, <3>3
      <4> QED
        BY <1>2, <2>1, <2>2, <2>4, <3>1, <3>2, <3>3, <4>1
    <3>4. CASE t[2] # n + 1
      <4>1. t # <<b, n + 1>>
        BY <3>4
      <4> QED
        BY <1>2, <1>5, <2>1, <2>2, <2>4, <3>1, <3>2, <3>4, <4>1
    <3> QED
      BY <3>3, <3>4
  <2>5. CASE t # <<t[1], t[2]>>
    BY <1>3, <2>1, <2>2, <2>5 DEF SpotsAre
  <2> QED
    BY <2>3, <2>4, <2>5
<1> QED
  BY <1>1, <1>4, <1>6 DEF UsedOnce, Uses

LEMMA GrowsUses ==
    ASSUME Healthy, Healthy', NEW type, NEW b, Grows(type, b), "reused" \notin damage',
           NEW x, x = tool.ino
    PROVE  UsedOnce(x, <<b, 1>>)
<1>1. PICK p : p = tool.parent
  OBVIOUS
<1>2. Gains(p, b) /\ content'[b] = <<Added(type)>> /\ Added(type).inode = x
  BY <1>1, GrowsGains
<1>3. Len(content'[b]) = 1 /\ content'[b][1].inode = x /\ 1 .. 1 = {1}
  BY <1>2
<1>4. ASSUME NEW i \in Inodes, NEW t
      PROVE  t \in Uses(i)' <=> t \in Uses(i) \/ (i = x /\ t = <<b, 1>>)
  BY <1>2, <1>3, GainsUses
<1>5. x \in Inodes
  BY DEF Healthy, TypeOK, Tool
<1>6. <<b, 1>> \notin Uses(x)
  BY <1>2, <1>5, GainsUses
<1> QED
  BY <1>4, <1>6 DEF UsedOnce

\* Where entry k of a block was before entry j was removed: the first entry
\* keeps its place and loses its inode, another one is skipped.
From(j, k) == IF j # 1 /\ k >= j THEN k + 1 ELSE k
Source(b, j, s) == IF s[1] = b THEN <<b, From(j, s[2])>> ELSE s

LEMMA UnlinkedFrom ==
    ASSUME NEW chain \in Chain, NEW j \in 1 .. Len(chain), NEW new, new = Unlinked(chain, j)
    PROVE  /\ Len(chain) \in Nat /\ Len(new) \in Nat
           /\ \A k \in 1 .. Len(new) :
                /\ From(j, k) \in 1 .. Len(chain)
                /\ new[k].name = chain[From(j, k)].name
                /\ new[k].type = chain[From(j, k)].type
                /\ new[k].ended = chain[From(j, k)].ended
                /\ \/ From(j, k) # j /\ new[k].inode = chain[From(j, k)].inode
                   \/ From(j, k) = j /\ new[k].inode = -1
           /\ \A m \in 1 .. Len(chain) : m # j => \E k \in 1 .. Len(new) : From(j, k) = m
<1>1. Len(chain) \in Nat \ {0} /\ \A k \in 1 .. Len(chain) : chain[k] \in Entry
  BY DEF Chain
<1>2. CASE j = 1
  <2>1. new = [chain EXCEPT ![1].inode = -1]
    BY <1>2 DEF Unlinked
  <2>2. Len(new) = Len(chain) /\ \A k \in 1 .. Len(chain) : k # 1 => new[k] = chain[k]
    BY <1>1, <2>1 DEF Chain
  <2>3. /\ new[1].inode = -1 /\ new[1].name = chain[1].name
        /\ new[1].type = chain[1].type /\ new[1].ended = chain[1].ended
    <3>1. chain[1] \in Entry /\ 1 \in DOMAIN chain
      BY <1>1 DEF Chain
    <3>2. new[1] = [chain[1] EXCEPT !.inode = -1]
      BY <2>1, <3>1
    <3> QED
      BY <3>1, <3>2 DEF Entry
  <2>4. \A k : From(j, k) = k
    BY <1>2 DEF From
  <2> QED
    BY <1>1, <1>2, <2>2, <2>3, <2>4
<1>3. CASE j # 1
  <2>1. /\ Len(new) = Len(chain) - 1
        /\ \A k \in 1 .. Len(chain) - 1 :
             /\ k < j - 1 => new[k] = chain[k]
             /\ k > j - 1 => new[k] = chain[k + 1]
             /\ k = j - 1 => new[k] = [chain[k] EXCEPT !.rec = @ + chain[j].rec]
    BY <1>3, UnlinkedParts
  <2>2. \A k : From(j, k) = IF k >= j THEN k + 1 ELSE k
    BY <1>3 DEF From
  <2>3. ASSUME NEW k \in 1 .. Len(new)
        PROVE  /\ From(j, k) \in 1 .. Len(chain) /\ From(j, k) # j
               /\ new[k].name = chain[From(j, k)].name
               /\ new[k].type = chain[From(j, k)].type
               /\ new[k].ended = chain[From(j, k)].ended
               /\ new[k].inode = chain[From(j, k)].inode
    <3> k \in 1 .. Len(chain) - 1 /\ j \in Nat
      BY <1>1, <2>1
    <3>1. CASE k < j - 1
      <4>1. From(j, k) = k /\ k \in 1 .. Len(chain) /\ k # j
        BY <1>1, <2>2, <3>1
      <4>2. new[k] = chain[k]
        BY <2>1, <3>1
      <4> QED
        BY <4>1, <4>2
    <3>2. CASE k > j - 1
      <4>1. From(j, k) = k + 1 /\ k + 1 \in 1 .. Len(chain) /\ k + 1 # j
        BY <1>1, <2>2, <3>2
      <4>2. new[k] = chain[k + 1]
        BY <2>1, <3>2
      <4> QED
        BY <4>1, <4>2
    <3>3. CASE k = j - 1
      <4>1. chain[k] \in Entry /\ new[k] = [chain[k] EXCEPT !.rec = @ + chain[j].rec]
        BY <1>1, <2>1, <3>3
      <4>2. /\ new[k].name = chain[k].name /\ new[k].type = chain[k].type
            /\ new[k].ended = chain[k].ended /\ new[k].inode = chain[k].inode
        BY <4>1 DEF Entry
      <4> QED
        BY <1>1, <2>1, <2>2, <3>3, <4>2
    <3> QED
      BY <1>1, <2>1, <3>1, <3>2, <3>3
  <2>4. ASSUME NEW m \in 1 .. Len(chain), m # j
        PROVE  \E k \in 1 .. Len(new) : From(j, k) = m
    <3>1. CASE m < j
      <4>1. m \in 1 .. Len(new) /\ From(j, m) = m
        BY <1>1, <2>1, <2>2, <3>1
      <4> QED
        BY <4>1
    <3>2. CASE m > j
      <4>1. m - 1 \in 1 .. Len(new) /\ From(j, m - 1) = m
        BY <1>1, <1>3, <2>1, <2>2, <3>2
      <4> QED
        BY <4>1
    <3> QED
      BY <1>1, <2>4, <3>1, <3>2
  <2> QED
    BY <1>1, <2>1, <2>3, <2>4
<1> QED
  BY <1>2, <1>3

LEMMA FromOnce ==
    ASSUME NEW j \in Nat, NEW k \in Nat, NEW m \in Nat, From(j, k) = From(j, m) PROVE k = m
  BY DEF From

LEMMA DeletesParts ==
    ASSUME Healthy, Healthy', NEW b, NEW j, NEW i, NEW f, Deletes(b, j, i, f)
    PROVE  /\ \A s \in Spots' :
                LET t == Source(b, j, s)
                    e == content'[s[1]][s[2]]
                IN  /\ t \in Spots /\ t[1] = s[1]
                    /\ e.name = Named(t).name /\ e.type = Named(t).type
                    /\ e.ended = Named(t).ended
                    /\ \/ t # <<b, j>> /\ e.inode = Named(t).inode
                       \/ t = <<b, j>> /\ e.inode = -1
           /\ \A s, u \in Spots' : Source(b, j, s) = Source(b, j, u) => s = u
           /\ \A t \in Spots : t # <<b, j>> => \E s \in Spots' : Source(b, j, s) = t
<1>1. /\ Edits(b) /\ j \in 1 .. Len(content[b]) /\ content'[b] = Unlinked(content[b], j)
  BY DeletesEdits
<1>2. SpotsAre /\ SpotsAre' /\ DirBlocks' = DirBlocks /\ b \in DirBlocks
  BY <1>1, SpotsNow, KeepsBlocks DEF Edits
<1>3. content[b] \in Chain
  BY <1>2, DirBlocksTyped DEF Healthy, TypeOK
<1>4. /\ \A s \in Spots : s[1] # b => s \in Spots' /\ content'[s[1]] = content[s[1]]
      /\ \A s \in Spots' : s[1] # b => s \in Spots /\ content'[s[1]] = content[s[1]]
      /\ \A k : <<b, k>> \in Spots <=> k \in 1 .. Len(content[b])
      /\ \A k : <<b, k>> \in Spots' <=> k \in 1 .. Len(content'[b])
  BY <1>1, EditsSpots
<1> PICK new : new = content'[b]
  OBVIOUS
<1> PICK old : old = content[b]
  OBVIOUS
<1>5. /\ Len(old) \in Nat /\ Len(new) \in Nat
      /\ \A k \in 1 .. Len(new) :
           /\ From(j, k) \in 1 .. Len(old)
           /\ new[k].name = old[From(j, k)].name
           /\ new[k].type = old[From(j, k)].type
           /\ new[k].ended = old[From(j, k)].ended
           /\ \/ From(j, k) # j /\ new[k].inode = old[From(j, k)].inode
              \/ From(j, k) = j /\ new[k].inode = -1
      /\ \A m \in 1 .. Len(old) : m # j => \E k \in 1 .. Len(new) : From(j, k) = m
  BY <1>1, <1>3, UnlinkedFrom
<1>6. \A s \in Spots' : s[1] = b => s = <<b, s[2]>> /\ s[2] \in 1 .. Len(new)
  BY <1>2, <1>4 DEF SpotsAre
<1>7. ASSUME NEW s \in Spots'
      PROVE  LET t == Source(b, j, s)
                 e == content'[s[1]][s[2]]
             IN  /\ t \in Spots /\ t[1] = s[1]
                 /\ e.name = Named(t).name /\ e.type = Named(t).type
                 /\ e.ended = Named(t).ended
                 /\ \/ t # <<b, j>> /\ e.inode = Named(t).inode
                    \/ t = <<b, j>> /\ e.inode = -1
  <2>1. CASE s[1] # b
    <3>1. s \in Spots /\ content'[s[1]] = content[s[1]] /\ Source(b, j, s) = s
      BY <1>4, <2>1 DEF Source
    <3>2. s # <<b, j>>
      BY <2>1
    <3> QED
      BY <3>1, <3>2 DEF Named
  <2>2. CASE s[1] = b
    <3>1. PICK k : k = s[2]
      OBVIOUS
    <3>2. k \in 1 .. Len(new) /\ Source(b, j, s) = <<b, From(j, k)>>
      BY <1>6, <2>2, <3>1 DEF Source
    <3>3. <<b, From(j, k)>> \in Spots
      BY <1>4, <1>5, <3>2
    <3>4. content'[s[1]][s[2]] = new[k] /\ Named(<<b, From(j, k)>>) = old[From(j, k)]
      BY <2>2, <3>1 DEF Named
    <3>5. <<b, From(j, k)>> = <<b, j>> <=> From(j, k) = j
      OBVIOUS
    <3> QED
      BY <1>5, <2>2, <3>2, <3>3, <3>4, <3>5
  <2> QED
    BY <2>1, <2>2
<1>8. ASSUME NEW s \in Spots', NEW u \in Spots', Source(b, j, s) = Source(b, j, u) PROVE s = u
  <2>1. s[1] = u[1]
    BY <1>8 DEF Source
  <2>2. CASE s[1] # b
    BY <1>8, <2>1, <2>2 DEF Source
  <2>3. CASE s[1] = b
    <3>1. /\ s = <<b, s[2]>> /\ u = <<b, u[2]>>
          /\ s[2] \in 1 .. Len(new) /\ u[2] \in 1 .. Len(new)
      BY <1>6, <2>1, <2>3
    <3>2. From(j, s[2]) = From(j, u[2])
      BY <1>8, <2>1, <2>3 DEF Source
    <3>3. j \in Nat /\ s[2] \in Nat /\ u[2] \in Nat
      BY <1>1, <3>1
    <3> QED
      BY <3>1, <3>2, <3>3, FromOnce
  <2> QED
    BY <2>2, <2>3
<1>9. ASSUME NEW t \in Spots, t # <<b, j>> PROVE \E s \in Spots' : Source(b, j, s) = t
  <2>1. CASE t[1] # b
    BY <1>4, <2>1 DEF Source
  <2>2. CASE t[1] = b
    <3>1. t = <<b, t[2]>> /\ t[2] \in 1 .. Len(old) /\ t[2] # j
      BY <1>2, <1>9, <2>2 DEF SpotsAre
    <3>2. PICK k \in 1 .. Len(new) : From(j, k) = t[2]
      BY <1>5, <3>1
    <3>3. <<b, k>> \in Spots' /\ Source(b, j, <<b, k>>) = t
      BY <1>4, <3>1, <3>2 DEF Source
    <3> QED
      BY <3>3
  <2> QED
    BY <2>1, <2>2
<1> QED
  BY <1>7, <1>8, <1>9

LEMMA FiniteUsesNow == ASSUME Healthy', NEW k PROVE IsFiniteSet(Uses(k)')
<1>1. TypeOK'
  BY DEF Healthy
<1>2. (\A i : IsFiniteSet(Uses(i)))'
  BY <1>1, FiniteUses, PTL
<1> QED
  BY <1>2

LEMMA DeletesUses ==
    ASSUME Healthy, Healthy', NEW b, NEW j, NEW i, NEW f, Deletes(b, j, i, f)
    PROVE  /\ Uses(i)' = {}
           /\ \A k \in Inodes : k # i =>
                /\ Cardinality(Uses(k)') = Cardinality(Uses(k))
                /\ Uses(k)' = {} <=> Uses(k) = {}
<1>1. /\ i \in Inodes /\ content[b][j].inode = i
      /\ \A s \in Spots : s # <<b, j>> => Named(s).inode # i
  BY DeletesEdits
<1>2. /\ \A s \in Spots' :
           LET t == Source(b, j, s)
               e == content'[s[1]][s[2]]
           IN  /\ t \in Spots
               /\ \/ t # <<b, j>> /\ e.inode = Named(t).inode
                  \/ t = <<b, j>> /\ e.inode = -1
      /\ \A s, u \in Spots' : Source(b, j, s) = Source(b, j, u) => s = u
      /\ \A t \in Spots : t # <<b, j>> => \E s \in Spots' : Source(b, j, s) = t
  BY DeletesParts
<1>3. \A k \in Inodes : k # -1
  BY Sizes
<1>4. \A s, k : s \in Uses(k)' <=> s \in Spots' /\ content'[s[1]][s[2]].inode = k
  BY UsesNow
<1>5. Uses(i)' = {}
  BY <1>1, <1>2, <1>3, <1>4
<1>6. ASSUME NEW k \in Inodes, k # i
      PROVE  /\ Cardinality(Uses(k)') = Cardinality(Uses(k))
             /\ Uses(k)' = {} <=> Uses(k) = {}
  <2> PICK S : S = Uses(k)'
    OBVIOUS
  <2> PICK T : T = Uses(k)
    OBVIOUS
  <2>1. \A s \in S : s \in Spots' /\ Source(b, j, s) \in T
    BY <1>2, <1>3, <1>4 DEF Uses
  <2>2. <<b, j>> \notin T
    BY <1>1, <1>6 DEF Uses, Named
  <2>3. \A t \in T : \E s \in S : Source(b, j, s) = t
    <3> SUFFICES ASSUME NEW t \in T PROVE \E s \in S : Source(b, j, s) = t
      OBVIOUS
    <3>1. t \in Spots /\ Named(t).inode = k /\ t # <<b, j>>
      BY <2>2 DEF Uses
    <3>2. PICK s \in Spots' : Source(b, j, s) = t
      BY <1>2, <3>1
    <3>3. content'[s[1]][s[2]].inode = k
      BY <1>2, <3>1, <3>2
    <3> QED
      BY <1>4, <3>2, <3>3
  <2> DEFINE g == [s \in S |-> Source(b, j, s)]
  <2>4. g \in Bijection(S, T)
    BY <1>2, <2>1, <2>3 DEF Bijection, Injection, Surjection, IsInjective
  <2>5. IsFiniteSet(S)
    BY FiniteUsesNow
  <2>6. ExistsBijection(S, T)
    BY <2>4 DEF ExistsBijection
  <2>7. Cardinality(S) = Cardinality(T)
    BY <2>5, <2>6, FS_Bijection
  <2>8. S = {} <=> T = {}
    BY <2>1, <2>3
  <2> QED
    BY <2>7, <2>8
<1> QED
  BY <1>5, <1>6

-----------------------------------------------------------------------------
(* What a tool knows of its name and its inode. *)

\* Its name was asked for; the inode of cp has no entry and one link, which the
\* entry will be; the inode of ln has an entry already.
ToolFacts ==
    /\ tool.pc \notin {"idle", "hung"} => tool.name \in Names
    /\ tool.cmd = "cp" /\ HoldsInode => tool.ino \notin Linked /\ inode[tool.ino].links = 1
    /\ tool.cmd = "ln" /\ tool.pc = "entry" => tool.ino \in Linked

LEMMA LinkedNow ==
    ASSUME Healthy, Healthy', NEW k \in Inodes
    PROVE  /\ k \in Linked <=> Uses(k) # {}
           /\ k \in Linked' <=> Uses(k)' # {}
<1>1. LinkedAreUsed /\ LinkedAreUsed'
  BY LinkedUses, PTL
<1> QED
  BY <1>1 DEF LinkedAreUsed

LEMMA StaysLinked ==
    ASSUME Healthy, Healthy', Stays PROVE Linked' = Linked
<1>1. Linked \subseteq Inodes /\ Linked' \subseteq Inodes
  BY DEF Linked
<1>2. \A i \in Inodes : i \in Linked' <=> i \in Linked
  BY StaysUses, LinkedNow
<1> QED
  BY <1>1, <1>2

LEMMA LinkedInUse ==
    ASSUME Healthy, NEW i \in Linked
    PROVE  i \in Inodes /\ i \in inodeBits
  BY DEF Linked, Healthy, Ownership, Image, Owners, OwnerSound

LEMMA UnfinishedNew ==
    ASSUME Healthy, Unfinished
    PROVE  /\ HoldsInode /\ tool.cmd \in {"mkdir", "cp", "ln -s"}
           /\ tool.ino \in Inodes /\ tool.ino \in inodeBits
           /\ tool.ino \notin Linked /\ tool.ino \notin Dirs
<1>1. NewSound /\ TypeOK
  BY DEF Healthy, Ownership
<1>2. HoldsInode
  BY DEF Unfinished, HoldsInode
<1>3. tool.cmd \in {"mkdir", "cp", "ln -s"}
  BY <1>1 DEF NewSound, Unfinished
<1>4. tool.ino \in Inodes
  BY <1>1 DEF TypeOK, Tool
<1> QED
  BY <1>1, <1>2, <1>3, <1>4 DEF NewSound

LEMMA WorksHolds ==
    ASSUME Healthy, Healthy', NEW x, Works(x) \/ \E b : Makes(x, b)
    PROVE  /\ Unfinished /\ HoldsInode /\ HoldsInode' /\ tool.ino = x /\ tool'.ino = x
           /\ tool'.cmd = tool.cmd /\ tool.cmd # "ln" /\ tool'.name = tool.name
           /\ tool.pc \notin {"idle", "hung"}
<1>1. /\ Unfinished /\ tool.ino = x /\ tool'.ino = x
      /\ tool'.cmd = tool.cmd /\ tool'.name = tool.name
      /\ tool'.pc \in {"take", "text", "entry"}
  BY DEF Works, Makes, SameTool, Unfinished
<1>2. HoldsInode /\ tool.cmd \in {"mkdir", "cp", "ln -s"}
  BY <1>1, UnfinishedNew
<1>3. tool.cmd # "ln"
  BY <1>2
<1>4. HoldsInode'
  BY <1>1, <1>3 DEF HoldsInode
<1> QED
  BY <1>1, <1>2, <1>3, <1>4 DEF Unfinished

LEMMA ToolFactsStep ==
    ASSUME Healthy, Healthy', ToolFacts, Kind PROVE ToolFacts'
<1>1. CASE UNCHANGED vars
  <2>1. UNCHANGED <<inodeBits, inode, content, tool>>
    BY <1>1 DEF vars, disk
  <2>2. Linked' = Linked
    BY <2>1, SameStays, StaysLinked
  <2> QED
    BY <2>1, <2>2 DEF ToolFacts, HoldsInode
<1>2. CASE tool'.pc \in {"idle", "hung"}
  BY <1>2 DEF ToolFacts, HoldsInode
<1>3. CASE Begins
  <2>1. /\ UNCHANGED <<inodeBits, inode, content>> /\ tool'.name \in Names
        /\ \/ tool'.pc = "inode"
           \/ tool'.pc = "entry" /\ tool'.cmd = "ln" /\ tool'.ino \in Linked
    BY <1>3 DEF Begins, disk
  <2>2. Linked' = Linked
    BY <2>1, SameStays, StaysLinked
  <2>3. ~ HoldsInode'
    BY <2>1 DEF HoldsInode
  <2> QED
    BY <2>1, <2>2, <2>3 DEF ToolFacts
<1>4. ASSUME NEW x, Takes(x) PROVE ToolFacts'
  <2>1. /\ tool.pc = "inode" /\ tool'.pc = "blocks" /\ tool'.ino = x /\ x \notin inodeBits
        /\ tool'.name = tool.name /\ tool'.cmd = tool.cmd
        /\ tool.cmd = "cp" => inode'[x].links = 1
    BY <1>4 DEF Takes, SameTool
  <2>2. Linked' = Linked
    BY <1>4, TakesStays, StaysLinked
  <2>3. x \notin Linked
    BY <2>1, LinkedInUse
  <2> QED
    BY <2>1, <2>2, <2>3 DEF ToolFacts
<1>5. ASSUME NEW x, Works(x) PROVE ToolFacts'
  <2>1. Linked' = Linked
    BY <1>5, WorksStays, StaysLinked
  <2>2. /\ HoldsInode /\ tool.ino = x /\ tool'.ino = x /\ tool'.cmd = tool.cmd
        /\ tool.cmd # "ln" /\ tool'.name = tool.name /\ tool.pc \notin {"idle", "hung"}
    BY <1>5, WorksHolds
  <2>3. inode'[x].links = inode[x].links
    BY <1>5 DEF Works
  <2> QED
    BY <2>1, <2>2, <2>3 DEF ToolFacts
<1>6. ASSUME NEW x, NEW b, Makes(x, b) PROVE ToolFacts'
  <2>1. tool'.cmd = tool.cmd /\ tool'.name = tool.name /\ tool.pc \notin {"idle", "hung"}
    BY <1>6, WorksHolds
  <2>2. tool.cmd = "mkdir"
    BY <1>6 DEF Makes
  <2> QED
    BY <2>1, <2>2 DEF ToolFacts
<1>7. ASSUME NEW type, NEW b, Appends(type, b) \/ Grows(type, b) PROVE tool'.pc = "idle"
  <2>1. tool' = Idle
    BY <1>7 DEF Appends, Grows, Done
  <2> QED
    BY <2>1 DEF Idle
<1>8. ASSUME NEW b, NEW j, NEW i, NEW f, Deletes(b, j, i, f) PROVE tool'.pc = "idle"
  BY <1>8 DEF Deletes, Removed
<1>9. Ends => tool'.pc \in {"idle", "hung"}
  BY DEF Ends
<1>10. CASE \E x : Takes(x) \/ Works(x) \/ \E b : Makes(x, b)
  BY <1>4, <1>5, <1>6, <1>10, Zenon
<1>11. CASE \E type, b : Appends(type, b) \/ Grows(type, b)
  BY <1>2, <1>7, <1>11
<1>12. CASE \E b, j, i, f : Deletes(b, j, i, f)
  BY <1>2, <1>8, <1>12
<1> QED
  BY <1>1, <1>2, <1>3, <1>9, <1>10, <1>11, <1>12, Zenon DEF Kind

-----------------------------------------------------------------------------
(* Link counts. *)

LinksRight == \A i \in Linked : inode[i].mode = "reg" => inode[i].links = Cardinality(Uses(i))

LEMMA LinksStay ==
    ASSUME Healthy, Healthy', LinksRight, Stays,
           \A i \in Linked : inode'[i].mode = inode[i].mode /\ inode'[i].links = inode[i].links
    PROVE  LinksRight'
  BY StaysUses, StaysLinked DEF LinksRight

LEMMA MakesLinks ==
    ASSUME Healthy, Healthy', LinksRight, "reused" \notin damage', NEW x, NEW b, Makes(x, b)
    PROVE  LinksRight'
<1>1. PICK p : p = tool.parent
  OBVIOUS
<1>2. /\ \A i \in Inodes : i # x => inode'[i] = inode[i]
      /\ inode'[x].mode = "dir" /\ content'[b] = DotEntries(x, p) /\ Unfinished
      /\ tool.ino = x
  BY <1>1 DEF Makes, Unfinished
<1>3. p # x /\ p \in Dirs
  BY <1>1, <1>2, ToolOther
<1>4. inode[p].mode = "dir" /\ inode'[p] = inode[p]
  BY <1>2, <1>3, HealthyDirs
<1>5. Len(content'[b]) = 2 /\ content'[b][1].inode = x /\ content'[b][2].inode = p
  BY <1>2 DEF DotEntries, NewEntry
<1>6. Gains(x, b)
  BY MakesGains
<1> SUFFICES ASSUME NEW i \in Linked', inode'[i].mode = "reg"
             PROVE  inode'[i].links = Cardinality(Uses(i)')
  BY DEF LinksRight
<1>7. i \in Inodes /\ i # x /\ i # p
  BY <1>2, <1>4 DEF Linked
<1>8. \A s : s \in Uses(i)' <=> s \in Uses(i)
  <2>1. \A k \in 1 .. Len(content'[b]) : content'[b][k].inode # i
    <3>1. \A k \in 1 .. 2 : k = 1 \/ k = 2
      OBVIOUS
    <3> QED
      BY <1>5, <1>7, <3>1
  <2> QED
    BY <1>6, <1>7, <2>1, GainsUses
<1>9. Uses(i)' = Uses(i)
  BY <1>8
<1>10. i \in Linked
  BY <1>7, <1>9, LinkedNow
<1> QED
  BY <1>2, <1>7, <1>9, <1>10 DEF LinksRight

LEMMA AddsLinks ==
    ASSUME Healthy, Healthy', ToolFacts, LinksRight, NEW type, Done(type),
           NEW x, x = tool.ino, NEW s, UsedOnce(x, s)
    PROVE  LinksRight'
<1>1. TypeOK /\ NewSound
  BY DEF Healthy, Ownership
<1>2. /\ tool.pc = "entry"
      /\ \A i \in Inodes :
           /\ inode'[i].mode = inode[i].mode
           /\ inode'[i].links = inode[i].links + IF tool.cmd = "ln" /\ i = x THEN 1 ELSE 0
  BY DEF Done
<1>3. x \in Inodes /\ tool.cmd \in Commands
  BY <1>1 DEF TypeOK, Tool
<1> SUFFICES ASSUME NEW i \in Linked', inode'[i].mode = "reg"
             PROVE  inode'[i].links = Cardinality(Uses(i)')
  BY DEF LinksRight
<1>4. i \in Inodes /\ inode[i].mode = "reg"
  BY <1>2 DEF Linked
<1>5. inode[i].links \in Int
  BY <1>1, <1>4 DEF TypeOK, Inode
<1>6. CASE i # x
  <2>1. \A t : t \in Uses(i)' <=> t \in Uses(i)
    BY <1>4, <1>6 DEF UsedOnce
  <2>2. Uses(i)' = Uses(i)
    BY <2>1
  <2>3. i \in Linked
    BY <1>4, <2>2, LinkedNow
  <2>4. inode'[i].links = inode[i].links
    BY <1>2, <1>4, <1>5, <1>6
  <2> QED
    BY <1>4, <2>2, <2>3, <2>4 DEF LinksRight
<1>7. CASE i = x
  <2>1. s \notin Uses(x) /\ \A t : t \in Uses(x)' <=> t \in Uses(x) \/ t = s
    BY <1>3 DEF UsedOnce
  <2>2. Uses(x)' = Uses(x) \cup {s}
    BY <2>1
  <2>3. IsFiniteSet(Uses(x))
    BY <1>1, FiniteUses
  <2>4. Cardinality(Uses(x)') = Cardinality(Uses(x)) + 1
    BY <2>1, <2>2, <2>3, OneMore
  <2>5. CASE tool.cmd = "ln"
    <3>1. x \in Linked
      BY <1>2, <2>5 DEF ToolFacts
    <3>2. inode'[x].links = inode[x].links + 1
      BY <1>2, <1>3, <2>5
    <3> QED
      BY <1>4, <1>7, <2>4, <3>1, <3>2 DEF LinksRight
  <2>6. CASE tool.cmd # "ln"
    <3>1. HoldsInode
      BY <1>2, <2>6 DEF HoldsInode
    <3>2. inode[x].mode = ModeOf(tool.cmd) /\ tool.cmd # "rm"
      BY <1>1, <1>2, <3>1 DEF NewSound
    <3>3. tool.cmd = "cp"
      <4>1. CASE tool.cmd = "mkdir"
        BY <1>4, <1>7, <3>2, <4>1 DEF ModeOf
      <4>2. CASE tool.cmd = "ln -s"
        BY <1>4, <1>7, <3>2, <4>2 DEF ModeOf
      <4> QED
        BY <1>3, <2>6, <3>2, <4>1, <4>2 DEF Commands
    <3>4. x \notin Linked /\ inode[x].links = 1
      BY <3>1, <3>3 DEF ToolFacts
    <3>5. Uses(x) = {}
      BY <1>3, <3>4, LinkedNow
    <3>6. Cardinality(Uses(x)) = 0
      BY <3>5, FS_EmptySet
    <3>7. inode'[x].links = 1
      BY <1>2, <1>3, <2>6, <3>4
    <3> QED
      BY <1>7, <2>4, <3>6, <3>7
  <2> QED
    BY <2>5, <2>6
<1> QED
  BY <1>6, <1>7

LEMMA DeletesLinks ==
    ASSUME Healthy, Healthy', LinksRight, NEW b, NEW j, NEW x, NEW f, Deletes(b, j, x, f)
    PROVE  LinksRight'
<1> SUFFICES ASSUME NEW i \in Linked', inode'[i].mode = "reg"
             PROVE  inode'[i].links = Cardinality(Uses(i)')
  BY DEF LinksRight
<1>1. i \in Inodes /\ Uses(i)' # {}
  BY LinkedNow DEF Linked
<1>2. i # x
  BY <1>1, DeletesUses
<1>3. Cardinality(Uses(i)') = Cardinality(Uses(i)) /\ Uses(i) # {}
  BY <1>1, <1>2, DeletesUses
<1>4. i \in Linked
  BY <1>1, <1>3, LinkedNow
<1>5. inode'[i] = inode[i]
  BY <1>1, <1>2 DEF Deletes
<1> QED
  BY <1>3, <1>4, <1>5 DEF LinksRight

LEMMA LinksStep ==
    ASSUME Healthy, Healthy', ToolFacts, LinksRight, "reused" \notin damage', Kind
    PROVE  LinksRight'
<1>1. CASE UNCHANGED vars \/ Ends \/ Begins
  <2>1. UNCHANGED <<inodeBits, inode, content>>
    BY <1>1 DEF vars, disk, Ends, Begins
  <2> QED
    BY <2>1, SameStays, LinksStay
<1>2. ASSUME NEW x, Takes(x) PROVE LinksRight'
  <2>1. x \notin Linked
    BY <1>2, LinkedInUse DEF Takes
  <2>2. \A i \in Linked : inode'[i] = inode[i]
    BY <1>2, <2>1, LinkedInUse DEF Takes
  <2> QED
    BY <1>2, <2>2, TakesStays, LinksStay
<1>3. ASSUME NEW x, Works(x) PROVE LinksRight'
  <2>1. x \notin Linked
    BY <1>3, UnfinishedNew DEF Works
  <2>2. \A i \in Linked : inode'[i] = inode[i]
    BY <1>3, <2>1, LinkedInUse DEF Works
  <2> QED
    BY <1>3, <2>2, WorksStays, LinksStay
<1>4. ASSUME NEW type, NEW b, Appends(type, b) \/ Grows(type, b) PROVE LinksRight'
  <2>1. PICK x : x = tool.ino
    OBVIOUS
  <2>2. Done(type)
    BY <1>4 DEF Appends, Grows
  <2>3. \E s : UsedOnce(x, s)
    BY <1>4, <2>1, AppendsUses, GrowsUses
  <2> QED
    BY <2>1, <2>2, <2>3, AddsLinks
<1>5. CASE \E x : Takes(x) \/ Works(x) \/ \E b : Makes(x, b)
  BY <1>2, <1>3, <1>5, MakesLinks, Zenon
<1>6. CASE \E type, b : Appends(type, b) \/ Grows(type, b)
  BY <1>4, <1>6
<1>7. CASE \E b, j, i, f : Deletes(b, j, i, f)
  BY <1>7, DeletesLinks
<1> QED
  BY <1>1, <1>5, <1>6, <1>7, Zenon DEF Kind

-----------------------------------------------------------------------------
(* Lost inodes. *)

LossesRight == Cardinality(Unnamed) <= losses

\* An inode in use that nothing names.
Alone(i) == i \in inodeBits \ 0 .. Lost /\ i \notin Linked

LEMMA UnnamedAlone ==
    Healthy => \A i : i \in Unnamed <=> Alone(i) /\ ~ (HoldsInode /\ tool.ino = i)
  BY NamedAreLinked DEF Unnamed, Alone

LEMMA UnnamedNow ==
    ASSUME Healthy, Healthy', NEW k
    PROVE  /\ k \in Unnamed <=> Alone(k) /\ ~ (HoldsInode /\ tool.ino = k)
           /\ k \in Unnamed' <=> Alone(k)' /\ ~ (HoldsInode' /\ tool'.ino = k)
<1>1. \A i : i \in Unnamed <=> Alone(i) /\ ~ (HoldsInode /\ tool.ino = i)
  BY UnnamedAlone
<1>2. (\A i : i \in Unnamed <=> Alone(i) /\ ~ (HoldsInode /\ tool.ino = i))'
  BY UnnamedAlone, PTL
<1> QED
  BY <1>1, <1>2

LEMMA UnnamedFinite ==
    ASSUME Healthy, Healthy'
    PROVE  IsFiniteSet(Unnamed) /\ IsFiniteSet(Unnamed') /\ Cardinality(Unnamed) \in Nat
<1>1. Unnamed \subseteq Inodes /\ Unnamed' \subseteq Inodes
  BY DEF Unnamed, Healthy, TypeOK
<1> QED
  BY <1>1, FiniteDisk, FS_CardinalityType

\* No step but an end adds to them.
LEMMA NoneLost ==
    ASSUME Healthy, Healthy', LossesRight, losses' = losses,
           \A i : i \in Unnamed' => i \in Unnamed
    PROVE  LossesRight'
<1>1. Cardinality(Unnamed') <= Cardinality(Unnamed)
  BY UnnamedFinite, FS_Subset
<1>2. Cardinality(Unnamed') \in Nat /\ Cardinality(Unnamed) \in Nat
  BY UnnamedFinite, FS_CardinalityType
<1>3. losses \in Nat
  BY DEF Healthy, TypeOK
<1> QED
  BY <1>1, <1>2, <1>3 DEF LossesRight

LEMMA EndsLose ==
    ASSUME Healthy, Healthy', LossesRight, Ends PROVE LossesRight'
<1>1. /\ tool'.pc \in {"idle", "hung"} /\ UNCHANGED <<inodeBits, inode, content>>
      /\ losses' = IF HoldsInode THEN losses + 1 ELSE losses
  BY DEF Ends, disk
<1>2. Linked' = Linked
  BY <1>1, SameStays, StaysLinked
<1>3. \A i : Alone(i)' <=> Alone(i)
  BY <1>1, <1>2 DEF Alone
<1>4. ~ HoldsInode'
  BY <1>1 DEF HoldsInode
<1>5. CASE ~ HoldsInode
  <2>1. \A i : i \in Unnamed' => i \in Unnamed
    BY <1>3, <1>4, <1>5, UnnamedNow
  <2> QED
    BY <1>1, <1>5, <2>1, NoneLost
<1>6. CASE HoldsInode
  <2>1. PICK x : x = tool.ino
    OBVIOUS
  <2>2. x \notin Unnamed
    BY <1>6, <2>1, UnnamedNow
  <2>3. \A i : i \in Unnamed' => i \in Unnamed \cup {x}
    BY <1>3, <1>4, <2>1, UnnamedNow
  <2>4. PICK S : S = Unnamed \cup {x}
    OBVIOUS
  <2>5. Cardinality(S) = Cardinality(Unnamed) + 1 /\ IsFiniteSet(S)
    BY <2>2, <2>4, UnnamedFinite, OneMore, FS_AddElement
  <2>6. Cardinality(Unnamed') <= Cardinality(S)
    BY <2>3, <2>4, <2>5, FS_Subset
  <2>7. Cardinality(Unnamed') \in Nat /\ Cardinality(Unnamed) \in Nat /\ losses \in Nat
    BY UnnamedFinite, FS_CardinalityType DEF Healthy, TypeOK
  <2>8. losses' = losses + 1
    BY <1>1, <1>6
  <2> QED
    BY <2>5, <2>6, <2>7, <2>8 DEF LossesRight
<1> QED
  BY <1>5, <1>6

LEMMA AddsLosses ==
    ASSUME Healthy, Healthy', ToolFacts, LossesRight, NEW type, Done(type),
           NEW x, x = tool.ino, NEW s, UsedOnce(x, s)
    PROVE  LossesRight'
<1>1. tool'.pc = "idle" /\ tool.pc = "entry" /\ inodeBits' = inodeBits /\ losses' = losses
  <2>1. tool' = Idle /\ tool.pc = "entry" /\ inodeBits' = inodeBits /\ losses' = losses
    BY DEF Done
  <2> QED
    BY <2>1 DEF Idle
<1>2. ~ HoldsInode'
  BY <1>1 DEF HoldsInode
<1>3. x \in Inodes
  BY DEF Healthy, TypeOK, Tool
<1>4. ASSUME NEW i \in Inodes, i \in Linked \/ i = x PROVE i \in Linked'
  <2>1. Uses(i)' # {}
    BY <1>4, LinkedNow DEF UsedOnce
  <2> QED
    BY <2>1, LinkedNow
<1>5. ASSUME NEW i, i \in Unnamed' PROVE i \in Unnamed
  <2>1. Alone(i)'
    BY <1>5, UnnamedNow
  <2>2. i \in inodeBits \ 0 .. Lost /\ i \notin Linked'
    BY <1>1, <2>1 DEF Alone
  <2>3. i \in Inodes
    BY <2>2 DEF Healthy, TypeOK
  <2>4. i \notin Linked /\ i # x
    BY <1>4, <2>2, <2>3
  <2> QED
    BY <2>2, <2>4, UnnamedNow DEF Alone
<1> QED
  BY <1>1, <1>5, NoneLost

LEMMA DeletesLosses ==
    ASSUME Healthy, Healthy', LossesRight, NEW b, NEW j, NEW x, NEW f, Deletes(b, j, x, f)
    PROVE  LossesRight'
<1>1. /\ inodeBits' = inodeBits \ {x} /\ tool' = tool /\ tool.pc = "idle" /\ losses' = losses
  BY DEF Deletes, Removed
<1>2. ~ HoldsInode /\ ~ HoldsInode'
  BY <1>1 DEF HoldsInode
<1>3. ASSUME NEW i, i \in Unnamed' PROVE i \in Unnamed
  <2>1. Alone(i)'
    BY <1>3, UnnamedNow
  <2>2. i \in inodeBits \ 0 .. Lost /\ i # x /\ i \notin Linked'
    BY <1>1, <2>1 DEF Alone
  <2>3. i \in Inodes
    BY <2>2 DEF Healthy, TypeOK
  <2>4. i \notin Linked
    BY <2>2, <2>3, DeletesUses, LinkedNow
  <2> QED
    BY <1>2, <2>2, <2>4, UnnamedNow DEF Alone
<1> QED
  BY <1>1, <1>3, NoneLost

\* A step of a tool that holds its inode, or takes one.
LEMMA HeldLosses ==
    ASSUME Healthy, Healthy', LossesRight, losses' = losses, NEW x,
           HoldsInode', tool'.ino = x, HoldsInode => tool.ino = x,
           inodeBits' \subseteq inodeBits \cup {x}, Linked \subseteq Linked'
    PROVE  LossesRight'
<1>1. ASSUME NEW i, i \in Unnamed' PROVE i \in Unnamed
  <2>1. Alone(i)' /\ i # x
    BY <1>1, UnnamedNow
  <2>2. Alone(i)
    BY <2>1 DEF Alone
  <2> QED
    BY <2>1, <2>2, UnnamedNow
<1> QED
  BY <1>1, NoneLost

LEMMA LossesStep ==
    ASSUME Healthy, Healthy', ToolFacts, LossesRight, "reused" \notin damage', Kind
    PROVE  LossesRight'
<1>1. CASE UNCHANGED vars \/ Begins
  <2>1. /\ UNCHANGED <<inodeBits, inode, content, losses>>
        /\ tool' = tool \/ (~ HoldsInode' /\ ~ HoldsInode)
    BY <1>1 DEF vars, disk, Begins, HoldsInode
  <2>2. Linked' = Linked
    BY <2>1, SameStays, StaysLinked
  <2>3. \A i : Alone(i)' <=> Alone(i)
    BY <2>1, <2>2 DEF Alone
  <2>4. \A i : HoldsInode' /\ tool'.ino = i <=> HoldsInode /\ tool.ino = i
    BY <2>1 DEF HoldsInode
  <2>5. \A i : i \in Unnamed' => i \in Unnamed
    BY <2>3, <2>4, UnnamedNow
  <2> QED
    BY <2>1, <2>5, NoneLost
<1>2. ASSUME NEW x, Takes(x) PROVE LossesRight'
  <2>1. /\ tool.pc = "inode" /\ tool'.pc = "blocks" /\ tool'.ino = x
        /\ inodeBits' = inodeBits \cup {x} /\ losses' = losses
    BY <1>2 DEF Takes
  <2>2. ~ HoldsInode /\ HoldsInode'
    BY <2>1 DEF HoldsInode
  <2>3. Linked' = Linked
    BY <1>2, TakesStays, StaysLinked
  <2> QED
    BY <2>1, <2>2, <2>3, HeldLosses
<1>3. ASSUME NEW x, Works(x) PROVE LossesRight'
  <2>1. Linked' = Linked
    BY <1>3, WorksStays, StaysLinked
  <2>2. inodeBits' = inodeBits /\ losses' = losses
    BY <1>3 DEF Works
  <2>3. HoldsInode' /\ tool.ino = x /\ tool'.ino = x
    BY <1>3, WorksHolds
  <2> QED
    BY <2>1, <2>2, <2>3, HeldLosses
<1>4. ASSUME NEW x, NEW b, Makes(x, b) PROVE LossesRight'
  <2>1. Linked \subseteq Linked'
    <3> SUFFICES ASSUME NEW i \in Linked PROVE i \in Linked'
      OBVIOUS
    <3>1. i \in Inodes /\ Uses(i) # {}
      BY LinkedNow DEF Linked
    <3>2. \A s \in Uses(i) : s \in Uses(i)'
      BY <1>4, <3>1, MakesGains, GainsUses
    <3> QED
      BY <3>1, <3>2, LinkedNow
  <2>2. inodeBits' = inodeBits /\ losses' = losses
    BY <1>4 DEF Makes
  <2>3. HoldsInode' /\ tool.ino = x /\ tool'.ino = x
    BY <1>4, WorksHolds
  <2> QED
    BY <2>1, <2>2, <2>3, HeldLosses
<1>5. ASSUME NEW type, NEW b, Appends(type, b) \/ Grows(type, b) PROVE LossesRight'
  <2>1. PICK x : x = tool.ino
    OBVIOUS
  <2>2. Done(type)
    BY <1>5 DEF Appends, Grows
  <2>3. \E s : UsedOnce(x, s)
    BY <1>5, <2>1, AppendsUses, GrowsUses
  <2> QED
    BY <2>1, <2>2, <2>3, AddsLosses
<1>6. CASE \E x : Takes(x) \/ Works(x) \/ \E b : Makes(x, b)
  BY <1>2, <1>3, <1>4, <1>6, Zenon
<1>7. CASE \E type, b : Appends(type, b) \/ Grows(type, b)
  BY <1>5, <1>7
<1>8. CASE \E b, j, i, f : Deletes(b, j, i, f)
  BY <1>8, DeletesLosses
<1> QED
  BY <1>1, <1>6, <1>7, <1>8, EndsLose, Zenon DEF Kind

-----------------------------------------------------------------------------
(* Names. *)

\* Names whose end every comparison finds.
Plain == Names \ Aligned
Ended(e) == e.name \in Plain => e.ended
AllEnded == \A c \in Blocks : \A k \in 1 .. Len(content[c]) : Ended(content[c][k])

LEMMA EndedEntries ==
    /\ Ended(Text)
    /\ \A self, up : \A k \in 1 .. Len(DotEntries(self, up)) :
         DotEntries(self, up)[k].name \notin Names
    /\ "" \notin Names /\ "?" \notin Names
<1>1. {"", ".", "..", "?"} \cap Names = {}
  BY NamesAssumption
<1>2. Text.name = "?"
  BY DEF Text, NewEntry
<1>3. ASSUME NEW self, NEW up
      PROVE  \A k \in 1 .. Len(DotEntries(self, up)) : DotEntries(self, up)[k].name \notin Names
  <2> DEFINE dots == DotEntries(self, up)
  <2>1. Len(dots) = 2 /\ dots[1].name = "." /\ dots[2].name = ".."
    BY DEF DotEntries, NewEntry
  <2> HIDE DEF dots
  <2>2. \A k \in 1 .. 2 : k = 1 \/ k = 2
    OBVIOUS
  <2>3. \A k \in 1 .. Len(dots) : dots[k].name \notin Names
    BY <1>1, <2>1, <2>2
  <2> QED
    BY <2>3 DEF dots
<1>4. Text.name \notin Plain
  BY <1>1, <1>2 DEF Plain
<1>5. Ended(Text)
  BY <1>4 DEF Ended
<1>6. "" \notin Names /\ "?" \notin Names
  BY <1>1
<1> QED
  BY <1>3, <1>5, <1>6, Zenon

LEMMA DoneTool ==
    ASSUME Healthy, NEW type, Done(type)
    PROVE  /\ tool.pc = "entry" /\ tool'.pc = "idle"
           /\ tool.cmd \in {"mkdir", "cp", "ln", "ln -s"}
<1>1. tool.pc = "entry" /\ tool' = Idle
  BY DEF Done
<1>2. TypeOK /\ NewSound
  BY DEF Healthy, Ownership
<1>3. tool.cmd # "rm" /\ tool.cmd \in Commands
  BY <1>1, <1>2 DEF NewSound, TypeOK, Tool
<1>4. tool'.pc = "idle"
  BY <1>1 DEF Idle
<1> QED
  BY <1>1, <1>3, <1>4 DEF Commands

LEMMA EndedStep ==
    ASSUME Healthy, Healthy', AllEnded, Kind PROVE AllEnded'
<1> SUFFICES ASSUME NEW c \in Blocks
             PROVE  \A k \in 1 .. Len(content'[c]) : Ended(content'[c][k])
  BY DEF AllEnded
<1>1. \A k \in 1 .. Len(content[c]) : Ended(content[c][k])
  BY DEF AllEnded
<1>2. CASE content'[c] = content[c]
  BY <1>1, <1>2
<1>3. CASE UNCHANGED vars \/ Ends \/ Begins
  <2>1. content' = content
    BY <1>3 DEF vars, disk, Ends, Begins
  <2> QED
    BY <1>2, <2>1
<1>4. ASSUME NEW x, Takes(x) PROVE \A k \in 1 .. Len(content'[c]) : Ended(content'[c][k])
  BY <1>2, <1>4 DEF Takes
<1>5. ASSUME NEW x, Works(x) PROVE \A k \in 1 .. Len(content'[c]) : Ended(content'[c][k])
  <2>1. CASE content'[c] = <<Text>>
    <3>1. Len(content'[c]) = 1 /\ content'[c][1] = Text /\ 1 .. 1 = {1}
      BY <2>1
    <3> QED
      BY <3>1, EndedEntries
  <2> QED
    BY <1>2, <1>5, <2>1 DEF Works
<1>6. ASSUME NEW x, NEW b, Makes(x, b)
      PROVE  \A k \in 1 .. Len(content'[c]) : Ended(content'[c][k])
  <2>1. CASE c = b
    <3>1. PICK p : p = tool.parent
      OBVIOUS
    <3>2. content'[c] = DotEntries(x, p)
      BY <1>6, <2>1, <3>1 DEF Makes
    <3> QED
      BY <3>2, EndedEntries DEF Ended, Plain
  <2> QED
    BY <1>2, <1>6, <2>1 DEF Makes
<1>7. ASSUME NEW type, NEW b, Appends(type, b)
      PROVE  \A k \in 1 .. Len(content'[c]) : Ended(content'[c][k])
  <2>2. CASE c = b
    <3> PICK n : n = Len(content[c])
      OBVIOUS
    <3>1. /\ n \in Nat \ {0} /\ Len(content'[c]) = n + 1
          /\ \A k \in 1 .. n : /\ content'[c][k].name = content[c][k].name
                               /\ content[c][k].name \notin Aligned
                                    /\ content[c][k].ended => content'[c][k].ended
          /\ content'[c][n + 1].ended
      BY <1>7, <2>2, AppendsParts
    <3>2. \A k \in 1 .. n + 1 : k \in 1 .. n \/ k = n + 1
      BY <3>1
    <3>3. ASSUME NEW k \in 1 .. n PROVE Ended(content'[c][k])
      BY <1>1, <3>1 DEF Ended, Plain
    <3>4. Ended(content'[c][n + 1])
      BY <3>1 DEF Ended
    <3> QED
      BY <3>1, <3>2, <3>3, <3>4
  <2> QED
    BY <1>2, <1>7, <2>2 DEF Appends
<1>8. ASSUME NEW type, NEW b, Grows(type, b)
      PROVE  \A k \in 1 .. Len(content'[c]) : Ended(content'[c][k])
  <2>2. CASE c = b
    <3>1. content'[c] = <<Added(type)>>
      BY <1>8, <2>2, GrowsGains
    <3>2. Len(content'[c]) = 1 /\ content'[c][1] = Added(type) /\ 1 .. 1 = {1}
      BY <3>1
    <3>3. Added(type).ended = TRUE
      BY DEF Added, NewEntry
    <3>4. Ended(content'[c][1])
      BY <3>2, <3>3 DEF Ended
    <3> QED
      BY <3>2, <3>4
  <2>3. c # b => content'[c] = content[c]
    BY <1>8, GrowsGains DEF Grows, Grown
  <2> QED
    BY <1>2, <2>2, <2>3
<1>9. ASSUME NEW b, NEW j, NEW i, NEW f, Deletes(b, j, i, f)
      PROVE  \A k \in 1 .. Len(content'[c]) : Ended(content'[c][k])
  <2>1. CASE c = b
    <3>1. /\ j \in 1 .. Len(content[c]) /\ content'[c] = Unlinked(content[c], j)
      BY <1>9, <2>1, DeletesEdits
    <3>2. content[c] \in Chain
      BY DEF Healthy, TypeOK
    <3>3. \A k \in 1 .. Len(content'[c]) :
                /\ From(j, k) \in 1 .. Len(content[c])
                /\ content'[c][k].name = content[c][From(j, k)].name
                /\ content'[c][k].ended = content[c][From(j, k)].ended
      BY <3>1, <3>2, UnlinkedFrom
    <3> QED
      BY <1>1, <3>3 DEF Ended
  <2>2. c # b => content'[c] = content[c]
    BY <1>9, DeletesEdits DEF Edits
  <2> QED
    BY <1>2, <2>1, <2>2
<1>10. CASE \E x : Takes(x) \/ Works(x) \/ \E b : Makes(x, b)
  BY <1>4, <1>5, <1>6, <1>10, Zenon
<1>11. CASE \E type, b : Appends(type, b) \/ Grows(type, b)
  BY <1>7, <1>8, <1>11, Zenon
<1>12. CASE \E b, j, i, f : Deletes(b, j, i, f)
  BY <1>9, <1>12, Zenon
<1> QED
  BY <1>3, <1>10, <1>11, <1>12, Zenon DEF Kind

\* The entries that have the tool's name already are those that its search
\* passes over: mkdir has none, cp only what is neither a file nor a directory.
Passed(e, cmd, n) == e.name = n => cmd = "cp" /\ e.type \notin {"reg", "dir"}
NotYet ==
    tool.pc \notin {"idle", "hung"} /\ tool.cmd \in {"mkdir", "cp"} /\ tool.name \in Plain =>
        \A c \in Owned(tool.parent) : \A k \in 1 .. Len(content[c]) :
            Passed(content[c][k], tool.cmd, tool.name)

LEMMA NotYetNow ==
    ASSUME NEW p, p = tool'.parent,
           (tool'.pc \notin {"idle", "hung"} /\ tool'.cmd \in {"mkdir", "cp"}
              /\ tool'.name \in Plain)
             => \A c \in Owned(p)' : \A k \in 1 .. Len(content'[c]) :
                  Passed(content'[c][k], tool'.cmd, tool'.name)
    PROVE  NotYet'
<1>1. PICK R : R = tool'
  OBVIOUS
<1>2. Owned(p)' = {inode'[R.parent].block[k] : k \in {k \in 0 .. Direct - 1 : k < inode'[R.parent].blocks}}
  BY <1>1 DEF Owned
<1> QED
  BY <1>1, <1>2 DEF NotYet, Owned, Plain, Passed

LEMMA BeginsNotYet ==
    ASSUME Healthy, Healthy', AllEnded, Begins PROVE NotYet'
<1>1. PICK p : p = tool'.parent
  OBVIOUS
<1>2. PICK n : n = tool'.name
  OBVIOUS
<1>3. /\ UNCHANGED <<inode, content>>
      /\ tool'.cmd = "mkdir" => Unfound("whole", p, n)
      /\ tool'.cmd = "cp" => Unfound("exact", p, n)
  BY <1>1, <1>2 DEF Begins, disk
<1>4. Owned(p)' = Owned(p) /\ p \in Dirs
  <2>1. UNCHANGED inodeBits /\ tool'.pc \notin {"idle", "hung"}
    BY DEF Begins, disk
  <2>2. Dirs' = Dirs
    BY <1>3, <2>1 DEF Dirs
  <2>3. p \in Dirs'
    BY <1>1, <2>1 DEF Healthy, Ownership, ParentSound
  <2> QED
    BY <1>3, <2>2, <2>3 DEF Owned
<1>5. ASSUME tool'.cmd \in {"mkdir", "cp"}, n \in Plain,
             NEW c \in Owned(p)', NEW k \in 1 .. Len(content'[c])
      PROVE  Passed(content'[c][k], tool'.cmd, n)
  <2>1. c \in Owned(p) /\ content'[c] = content[c] /\ k \in 1 .. Len(content[c])
    BY <1>3, <1>4, <1>5
  <2>2. c \in Blocks
    BY <1>4, <2>1, RoomFound
  <2>3. content[c][k].name = n => content[c][k].ended
    BY <1>5, <2>1, <2>2 DEF AllEnded, Ended
  <2>4. CASE tool'.cmd = "mkdir"
    <3>1. ~ Matches("whole", n, content[c][k])
      BY <1>3, <2>1, <2>4 DEF Unfound
    <3> QED
      BY <2>1, <2>3, <3>1 DEF Matches, Passed
  <2>5. CASE tool'.cmd = "cp"
    <3>1. ~ Matches("exact", n, content[c][k])
      BY <1>3, <2>1, <2>5 DEF Unfound
    <3> QED
      BY <2>1, <2>3, <2>5, <3>1 DEF Matches, Passed
  <2> QED
    BY <1>5, <2>4, <2>5
<1> QED
  BY <1>1, <1>2, <1>5, NotYetNow

LEMMA SameNotYet ==
    ASSUME NotYet, SameTool, tool.pc \notin {"idle", "hung"}, NEW p, p = tool.parent,
           Owned(p)' = Owned(p), \A c \in Owned(p) : content'[c] = content[c]
    PROVE  NotYet'
<1>3. /\ tool.cmd \in {"mkdir", "cp"} /\ tool.name \in Plain
        => \A c \in Owned(p) : \A k \in 1 .. Len(content[c]) :
             Passed(content[c][k], tool.cmd, tool.name)
  BY DEF NotYet
<1>4. (tool'.pc \notin {"idle", "hung"} /\ tool'.cmd \in {"mkdir", "cp"}
         /\ tool'.name \in Plain)
        => \A c \in Owned(p)' : \A k \in 1 .. Len(content'[c]) :
             Passed(content'[c][k], tool'.cmd, tool'.name)
  BY <1>3 DEF SameTool
<1>5. p = tool'.parent
  BY DEF SameTool
<1> QED
  BY <1>4, <1>5, NotYetNow

LEMMA NotYetStep ==
    ASSUME Healthy, Healthy', AllEnded, NotYet, Kind PROVE NotYet'
<1>1. CASE UNCHANGED vars
  BY <1>1 DEF vars, disk, NotYet, Owned, Passed
<1>2. CASE tool'.pc \in {"idle", "hung"}
  BY <1>2 DEF NotYet
<1>3. CASE Ends
  BY <1>2, <1>3 DEF Ends
<1>4. CASE Begins
  BY <1>4, BeginsNotYet
<1>5. PICK p : p = tool.parent
  OBVIOUS
<1>6. tool.pc \notin {"idle", "hung"} => p \in Dirs
  BY <1>5 DEF Healthy, Ownership, ParentSound
<1>7. Stays => (p \in Dirs => Owned(p)' = Owned(p) /\ \A c \in Owned(p) : content'[c] = content[c])
  BY DEF Stays, KeepsDirs, DirBlocks
<1>8. ASSUME NEW x, Takes(x) PROVE NotYet'
  BY <1>5, <1>6, <1>7, <1>8, TakesStays, SameNotYet DEF Takes
<1>9. ASSUME NEW x, Works(x) PROVE NotYet'
  <2>1. Stays /\ SameTool /\ tool.pc \notin {"idle", "hung"}
    BY <1>9, WorksStays DEF Works, Unfinished
  <2> QED
    BY <1>5, <1>6, <1>7, <2>1, SameNotYet
<1>10. ASSUME NEW x, NEW b, Makes(x, b) PROVE NotYet'
  <2>1. SameTool /\ tool.pc \notin {"idle", "hung"} /\ Unfinished /\ tool.ino = x
    BY <1>10 DEF Makes, Unfinished
  <2>2. p # x /\ p \in Dirs
    BY <1>5, <2>1, ToolOther
  <2>3. Gains(x, b) /\ b \notin blockBits
    BY <1>10, MakesGains DEF Makes
  <2>4. Owned(p)' = Owned(p)
    BY <2>2, <2>3 DEF Gains
  <2>5. ASSUME tool'.cmd \in {"mkdir", "cp"}, tool'.name \in Plain,
               NEW c \in Owned(p)', NEW k \in 1 .. Len(content'[c])
        PROVE  Passed(content'[c][k], tool'.cmd, tool'.name)
    <3>1. c \in Blocks /\ c \in Owned(p)
      BY <2>2, <2>4, RoomFound
    <3>2. CASE c # b
      BY <1>5, <2>1, <2>3, <2>5, <3>1, <3>2 DEF Gains, NotYet, SameTool
    <3>3. CASE c = b
      <4>1. content'[c] = DotEntries(x, p)
        BY <1>5, <1>10, <3>3 DEF Makes
      <4>2. content'[c][k].name \notin Names
        BY <2>5, <4>1, EndedEntries
      <4> QED
        BY <2>5, <4>2 DEF Plain, Passed
    <3> QED
      BY <3>2, <3>3
  <2>6. p = tool'.parent
    BY <1>5, <2>1 DEF SameTool
  <2> QED
    BY <2>5, <2>6, NotYetNow
<1>11. ASSUME NEW type, Done(type) PROVE NotYet'
  BY <1>2, <1>11, DoneTool
<1>12. ASSUME NEW b, NEW j, NEW i, NEW f, Deletes(b, j, i, f) PROVE NotYet'
  <2>1. tool'.pc = "idle"
    BY <1>12 DEF Deletes, Removed
  <2> QED
    BY <1>2, <2>1
<1>13. CASE \E x : Takes(x) \/ Works(x) \/ \E b : Makes(x, b)
  BY <1>8, <1>9, <1>10, <1>13, Zenon
<1>14. CASE \E type, b : Appends(type, b) \/ Grows(type, b)
  <2>1. PICK type, b : Appends(type, b) \/ Grows(type, b)
    BY <1>14
  <2>2. Done(type)
    BY <2>1 DEF Appends, Grows
  <2> QED
    BY <1>11, <2>2
<1>15. CASE \E b, j, i, f : Deletes(b, j, i, f)
  BY <1>12, <1>15, Zenon
<1> QED
  BY <1>1, <1>3, <1>4, <1>13, <1>14, <1>15, Zenon DEF Kind

\* No directory has a name twice.
Distinct ==
    \A s, t \in Spots :
        Named(s).name \in Plain /\ s # t /\ SameDirectory(s[1], t[1]) =>
            Named(s).name # Named(t).name

LEMMA DistinctKnown ==
    ASSUME Distinct, NEW s \in Spots, NEW t \in Spots, Named(s).name \in Plain, s # t,
           SameDirectory(s[1], t[1])
    PROVE  Named(s).name # Named(t).name
  BY DEF Distinct

LEMMA DistinctNow ==
    ASSUME ASSUME NEW s \in Spots', NEW t \in Spots', s # t, SameDirectory(s[1], t[1])',
                  content'[s[1]][s[2]].name \in Plain,
                  content'[s[1]][s[2]].name = content'[t[1]][t[2]].name
           PROVE  FALSE
    PROVE  Distinct'
  BY DEF Distinct, Named, Plain

LEMMA TogetherNow ==
    ASSUME NEW b, NEW c
    PROVE  /\ SameDirectory(b, c)' <=>
                b = c \/ \E d \in Dirs' : {b, c} \subseteq Owned(d)' \ {LostLast}
           /\ SameDirectory(b, c) = SameDirectory(c, b)
           /\ SameDirectory(b, c)' = SameDirectory(c, b)'
<1>1. {b, c} = {c, b}
  OBVIOUS
<1> QED
  BY <1>1 DEF SameDirectory

LEMMA KeepsTogether ==
    ASSUME KeepsDirs, NEW b, NEW c, SameDirectory(b, c)' PROVE SameDirectory(b, c)
  BY TogetherNow DEF KeepsDirs, SameDirectory

LEMMA GainsTogether ==
    ASSUME NEW d, NEW b, Gains(d, b), NEW c, NEW e, c # b, e # b, SameDirectory(c, e)'
    PROVE  SameDirectory(c, e)
<1>1. CASE c = e
  BY <1>1 DEF SameDirectory
<1>2. CASE c # e
  <2>1. PICK f \in Dirs' : {c, e} \subseteq Owned(f)' \ {LostLast}
    BY <1>2, TogetherNow
  <2>2. Dirs' = Dirs \cup {d} /\ (f \in Dirs \ {d} => Owned(f)' = Owned(f))
        /\ Owned(d)' = {b} \cup (IF d \in Dirs THEN Owned(d) ELSE {})
    BY DEF Gains
  <2>3. f \in Dirs /\ {c, e} \subseteq Owned(f) \ {LostLast}
    BY <2>1, <2>2
  <2> QED
    BY <2>3 DEF SameDirectory
<1> QED
  BY <1>1, <1>2

LEMMA StaysDistinct ==
    ASSUME Healthy, Healthy', Distinct, Stays PROVE Distinct'
<1>1. /\ Spots' = Spots /\ KeepsDirs
      /\ \A s \in Spots : content'[s[1]] = content[s[1]]
  BY StaysUses DEF Stays
<1>2. ASSUME NEW s \in Spots', NEW t \in Spots', s # t, SameDirectory(s[1], t[1])',
             content'[s[1]][s[2]].name \in Plain,
             content'[s[1]][s[2]].name = content'[t[1]][t[2]].name
      PROVE  FALSE
  <2>1. SameDirectory(s[1], t[1])
    BY <1>1, <1>2, KeepsTogether
  <2>2. /\ s \in Spots /\ t \in Spots
        /\ Named(s).name \in Plain /\ Named(s).name = Named(t).name
    BY <1>1, <1>2 DEF Named
  <2> QED
    BY <1>2, <2>1, <2>2, DistinctKnown
<1> QED
  BY <1>2, DistinctNow

LEMMA MakesDistinct ==
    ASSUME Healthy, Healthy', Distinct, NEW x, NEW b, Makes(x, b) PROVE Distinct'
<1>1. Gains(x, b)
  BY MakesGains
<1>2. /\ \A s \in Spots' : s[1] # b => s \in Spots /\ content'[s[1]] = content[s[1]]
      /\ \A k : <<b, k>> \in Spots' <=> k \in 1 .. Len(content'[b])
  BY <1>1, GainsSpots
<1>3. PICK p : p = tool.parent
  OBVIOUS
<1>4. content'[b] = DotEntries(x, p)
  BY <1>3 DEF Makes
<1>5. ASSUME NEW s \in Spots', content'[s[1]][s[2]].name \in Plain PROVE s[1] # b
  <2>1. SUFFICES ASSUME s[1] = b PROVE FALSE
    OBVIOUS
  <2>2. s = <<b, s[2]>>
    BY <2>1, SpotsNow DEF SpotsAre
  <2>3. s[2] \in 1 .. Len(content'[b])
    BY <1>2, <2>2
  <2>4. content'[s[1]][s[2]].name \notin Names
    BY <1>4, <2>1, <2>3, EndedEntries
  <2> QED
    BY <1>5, <2>4 DEF Plain
<1>6. ASSUME NEW s \in Spots', NEW t \in Spots', s # t, SameDirectory(s[1], t[1])',
             content'[s[1]][s[2]].name \in Plain,
             content'[s[1]][s[2]].name = content'[t[1]][t[2]].name
      PROVE  FALSE
  <2>1. s[1] # b /\ t[1] # b
    BY <1>5, <1>6
  <2>2. SameDirectory(s[1], t[1])
    BY <1>1, <1>6, <2>1, GainsTogether
  <2>3. /\ s \in Spots /\ t \in Spots
        /\ Named(s).name \in Plain /\ Named(s).name = Named(t).name
    BY <1>2, <1>6, <2>1 DEF Named
  <2> QED
    BY <1>6, <2>2, <2>3, DistinctKnown
<1> QED
  BY <1>6, DistinctNow

LEMMA NewDistinct ==
    ASSUME NEW u,
           ASSUME NEW s \in Spots' \ {u}, NEW t \in Spots' \ {u}, s # t,
                  SameDirectory(s[1], t[1])', content'[s[1]][s[2]].name \in Plain,
                  content'[s[1]][s[2]].name = content'[t[1]][t[2]].name
           PROVE  FALSE,
           ASSUME NEW t \in Spots' \ {u}, SameDirectory(u[1], t[1])',
                  content'[u[1]][u[2]].name \in Plain,
                  content'[u[1]][u[2]].name = content'[t[1]][t[2]].name
           PROVE  FALSE
    PROVE  Distinct'
<1>1. ASSUME NEW s \in Spots', NEW t \in Spots', s # t, SameDirectory(s[1], t[1])',
             content'[s[1]][s[2]].name \in Plain,
             content'[s[1]][s[2]].name = content'[t[1]][t[2]].name
      PROVE  FALSE
  <2>1. CASE s = u
    BY <1>1, <2>1
  <2>2. CASE t = u
    <3>1. SameDirectory(t[1], s[1])'
      BY <1>1, TogetherNow
    <3> QED
      BY <1>1, <2>2, <3>1
  <2>3. CASE s # u /\ t # u
    BY <1>1, <2>3
  <2> QED
    BY <2>1, <2>2, <2>3
<1> QED
  BY <1>1, DistinctNow

\* What a tool adds without "twin" is a new name of its directory.
LEMMA NewName ==
    ASSUME Healthy, "twin" \notin damage', NotYet, NEW type, Done(type), tool.name \in Plain,
           NEW p, p = tool.parent, NEW c \in Owned(p), NEW k \in 1 .. Len(content[c])
    PROVE  content[c][k].name # tool.name
<1>1. /\ tool.pc = "entry" /\ tool.cmd \in {"mkdir", "cp", "ln", "ln -s"}
      /\ Twin \subseteq damage'
  BY DoneTool DEF Done
<1>2. c \in DirBlocks
  <2>1. p \in Dirs
    BY <1>1 DEF Healthy, Ownership, ParentSound
  <2> QED
    BY <2>1 DEF DirBlocks
<1>3. PICK s : s = <<c, k>>
  OBVIOUS
<1>4. s \in Spots /\ s[1] \in Owned(tool.parent) /\ Named(s) = content[c][k]
  BY <1>2, <1>3, SpotsKnown DEF SpotsAre, Named
<1>5. SUFFICES ASSUME content[c][k].name = tool.name PROVE Twin = {"twin"}
  BY <1>1
<1>6. CASE tool.cmd \in {"ln", "ln -s"}
  BY <1>4, <1>5, <1>6 DEF Twin
<1>7. CASE tool.cmd \in {"mkdir", "cp"}
  <2>1. tool.cmd = "cp" /\ content[c][k].type \notin {"reg", "dir"}
    BY <1>1, <1>5, <1>7 DEF NotYet, Passed
  <2> QED
    BY <1>4, <1>5, <2>1 DEF Twin
<1> QED
  BY <1>1, <1>6, <1>7

\* Only lost+found has a block that is free.
LEMMA OwnMarked ==
    ASSUME Healthy, NEW d \in Dirs, NEW b \in Owned(d) \ {LostLast}
    PROVE  b \in blockBits /\ b \in Own(d)
<1>1. d \in Owners /\ OwnerSound(d)
  BY DEF Owners, Healthy, Ownership, Image
<1>2. b \in Own(d)
  BY DEF Own
<1> QED
  BY <1>1, <1>2 DEF OwnerSound

LEMMA OneOwner ==
    ASSUME Healthy, NEW d \in Dirs, NEW e \in Dirs, NEW b, b \in Owned(d) \ {LostLast}, b \in Owned(e)
    PROVE  d = e
<1>1. b \in Own(d) /\ b \in Own(e)
  BY OwnMarked
<1>2. d \in Owners /\ e \in Owners /\ Apart
  BY DEF Owners, Healthy, Ownership, Image
<1> QED
  BY <1>1, <1>2 DEF Apart

LEMMA GrowsDistinct ==
    ASSUME Healthy, Healthy', "twin" \notin damage', Distinct, NotYet,
           NEW type, NEW b, Grows(type, b)
    PROVE  Distinct'
<1>1. PICK p : p = tool.parent
  OBVIOUS
<1>2. /\ Gains(p, b) /\ p \in Dirs /\ b \notin blockBits
      /\ Dirs' = Dirs \cup {p} /\ \A e \in Dirs \ {p} : Owned(e)' = Owned(e)
      /\ Owned(p)' = {b} \cup Owned(p)
      /\ Len(content'[b]) = 1 /\ content'[b][1].name = tool.name
  BY <1>1, GrowsGains DEF Gains
<1>3. /\ \A s \in Spots' : s[1] # b => s \in Spots /\ content'[s[1]] = content[s[1]]
      /\ \A k : <<b, k>> \in Spots' <=> k \in 1 .. Len(content'[b])
  BY <1>2, GainsSpots
<1>4. Done(type)
  BY DEF Grows
<1>5. ASSUME NEW s \in Spots', s # <<b, 1>> PROVE s[1] # b
  <2>1. s = <<s[1], s[2]>> /\ 1 .. 1 = {1}
    BY SpotsNow DEF SpotsAre
  <2> QED
    BY <1>2, <1>3, <1>5, <2>1
<1>6. ASSUME NEW s \in Spots' \ {<<b, 1>>}, NEW t \in Spots' \ {<<b, 1>>}, s # t,
             SameDirectory(s[1], t[1])', content'[s[1]][s[2]].name \in Plain,
             content'[s[1]][s[2]].name = content'[t[1]][t[2]].name
      PROVE  FALSE
  <2>1. s[1] # b /\ t[1] # b
    BY <1>5, <1>6
  <2>2. SameDirectory(s[1], t[1])
    BY <1>2, <1>6, <2>1, GainsTogether
  <2>3. /\ s \in Spots /\ t \in Spots
        /\ Named(s).name \in Plain /\ Named(s).name = Named(t).name
    BY <1>3, <1>6, <2>1 DEF Named
  <2> QED
    BY <1>6, <2>2, <2>3, DistinctKnown
<1>7. ASSUME NEW t \in Spots' \ {<<b, 1>>}, SameDirectory(b, t[1])',
             content'[b][1].name \in Plain,
             content'[b][1].name = content'[t[1]][t[2]].name
      PROVE  FALSE
  <2>1. t[1] # b
    BY <1>5, <1>7
  <2>2. PICK d \in Dirs' : {b, t[1]} \subseteq Owned(d)' \ {LostLast}
    BY <1>7, <2>1, TogetherNow
  <2>3. d = p
    BY <1>2, <2>2, OwnMarked
  <2>4. t[1] \in Owned(p)
    BY <1>2, <2>1, <2>2, <2>3
  <2>5. t[2] \in 1 .. Len(content[t[1]]) /\ content'[t[1]] = content[t[1]]
    BY <1>3, <2>1, SpotsNow DEF SpotsAre
  <2>6. content[t[1]][t[2]].name # tool.name
    BY <1>1, <1>2, <1>4, <1>7, <2>4, <2>5, NewName
  <2> QED
    BY <1>2, <1>7, <2>5, <2>6
<1>8. PICK u : u = <<b, 1>>
  OBVIOUS
<1>9. u[1] = b /\ u[2] = 1
  BY <1>8
<1> QED
  BY <1>6, <1>7, <1>8, <1>9, NewDistinct

LEMMA AppendsDistinct ==
    ASSUME Healthy, Healthy', "twin" \notin damage', Distinct, NotYet,
           NEW type, NEW b, Appends(type, b)
    PROVE  Distinct'
<1>1. PICK p : p = tool.parent
  OBVIOUS
<1>2. Edits(b) /\ KeepsDirs /\ p \in Dirs /\ b \in Owned(p)
  BY <1>1, AppendsEdits DEF Edits
<1>3. PICK n : n = Len(content[b])
  OBVIOUS
<1>4. /\ n \in Nat \ {0} /\ Len(content'[b]) = n + 1
      /\ \A k \in 1 .. n : content'[b][k].name = content[b][k].name
      /\ content'[b][n + 1].name = tool.name
  BY <1>3, AppendsParts
<1>5. /\ \A s \in Spots' : s[1] # b => s \in Spots /\ content'[s[1]] = content[s[1]]
      /\ \A k : <<b, k>> \in Spots <=> k \in 1 .. Len(content[b])
      /\ \A k : <<b, k>> \in Spots' <=> k \in 1 .. Len(content'[b])
  BY <1>2, EditsSpots
<1>6. Done(type)
  BY DEF Appends
<1>7. PICK u : u = <<b, n + 1>>
  OBVIOUS
<1>8. ASSUME NEW s \in Spots' \ {u}
      PROVE  /\ s \in Spots /\ content'[s[1]][s[2]].name = Named(s).name
             /\ s[2] \in 1 .. Len(content[s[1]])
  <2>1. s = <<s[1], s[2]>>
    BY SpotsNow DEF SpotsAre
  <2>2. CASE s[1] # b
    BY <1>5, <2>2, SpotsNow DEF SpotsAre, Named
  <2>3. CASE s[1] = b
    <3>1. s[2] \in 1 .. n + 1 /\ s[2] # n + 1
      BY <1>4, <1>5, <1>7, <2>1, <2>3
    <3>2. s[2] \in 1 .. n
      BY <1>4, <3>1
    <3> QED
      BY <1>3, <1>4, <1>5, <2>1, <2>3, <3>2 DEF Named
  <2> QED
    BY <2>2, <2>3
<1>9. ASSUME NEW s \in Spots' \ {u}, NEW t \in Spots' \ {u}, s # t,
             SameDirectory(s[1], t[1])', content'[s[1]][s[2]].name \in Plain,
             content'[s[1]][s[2]].name = content'[t[1]][t[2]].name
      PROVE  FALSE
  <2>1. SameDirectory(s[1], t[1])
    BY <1>2, <1>9, KeepsTogether
  <2> QED
    BY <1>8, <1>9, <2>1, DistinctKnown
<1>10. ASSUME NEW t \in Spots' \ {u}, SameDirectory(b, t[1])', content'[b][n + 1].name \in Plain,
              content'[b][n + 1].name = content'[t[1]][t[2]].name
       PROVE  FALSE
  <2>1. SameDirectory(b, t[1])
    BY <1>2, <1>10, KeepsTogether
  <2>2. t[1] \in Owned(p)
    BY <1>2, <2>1, OneOwner DEF SameDirectory
  <2>3. Named(t).name # tool.name
    BY <1>1, <1>4, <1>6, <1>8, <1>10, <2>2, NewName DEF Named
  <2> QED
    BY <1>4, <1>8, <1>10, <2>3
<1>11. u[1] = b /\ u[2] = n + 1
  BY <1>7
<1> QED
  BY <1>9, <1>10, <1>11, NewDistinct

LEMMA DeletesDistinct ==
    ASSUME Healthy, Healthy', Distinct, NEW b, NEW j, NEW i, NEW f, Deletes(b, j, i, f)
    PROVE  Distinct'
<1>1. KeepsDirs
  BY DeletesEdits DEF Edits
<1>2. /\ \A s \in Spots' : /\ Source(b, j, s) \in Spots /\ Source(b, j, s)[1] = s[1]
                           /\ content'[s[1]][s[2]].name = Named(Source(b, j, s)).name
      /\ \A s, u \in Spots' : Source(b, j, s) = Source(b, j, u) => s = u
  BY DeletesParts
<1>3. ASSUME NEW s \in Spots', NEW t \in Spots', s # t, SameDirectory(s[1], t[1])',
             content'[s[1]][s[2]].name \in Plain,
             content'[s[1]][s[2]].name = content'[t[1]][t[2]].name
      PROVE  FALSE
  <2>1. SameDirectory(s[1], t[1])
    BY <1>1, <1>3, KeepsTogether
  <2>2. PICK x : x = Source(b, j, s)
    OBVIOUS
  <2>3. PICK y : y = Source(b, j, t)
    OBVIOUS
  <2>4. /\ x \in Spots /\ y \in Spots /\ x # y
        /\ x[1] = s[1] /\ y[1] = t[1]
        /\ Named(x).name \in Plain /\ Named(x).name = Named(y).name
    BY <1>2, <1>3, <2>2, <2>3
  <2> QED
    BY <2>1, <2>4, DistinctKnown
<1> QED
  BY <1>3, DistinctNow

LEMMA DistinctStep ==
    ASSUME Healthy, Healthy', "twin" \notin damage', NotYet, Distinct, Kind PROVE Distinct'
<1>1. CASE UNCHANGED vars \/ Ends \/ Begins
  <2>1. UNCHANGED <<inodeBits, inode, content>>
    BY <1>1 DEF vars, disk, Ends, Begins
  <2> QED
    BY <2>1, SameStays, StaysDistinct
<1>2. ASSUME NEW x, Takes(x) PROVE Distinct'
  BY <1>2, TakesStays, StaysDistinct
<1>3. ASSUME NEW x, Works(x) PROVE Distinct'
  BY <1>3, WorksStays, StaysDistinct
<1>4. ASSUME NEW x, NEW b, Makes(x, b) PROVE Distinct'
  BY <1>4, MakesDistinct
<1>5. ASSUME NEW type, NEW b, Appends(type, b) PROVE Distinct'
  BY <1>5, AppendsDistinct
<1>6. ASSUME NEW type, NEW b, Grows(type, b) PROVE Distinct'
  BY <1>6, GrowsDistinct
<1>7. ASSUME NEW b, NEW j, NEW i, NEW f, Deletes(b, j, i, f) PROVE Distinct'
  BY <1>7, DeletesDistinct
<1>8. CASE \E x : Takes(x) \/ Works(x) \/ \E b : Makes(x, b)
  BY <1>2, <1>3, <1>4, <1>8, Zenon
<1>9. CASE \E type, b : Appends(type, b) \/ Grows(type, b)
  BY <1>5, <1>6, <1>9, Zenon
<1>10. CASE \E b, j, i, f : Deletes(b, j, i, f)
  BY <1>7, <1>10, Zenon
<1> QED
  BY <1>1, <1>8, <1>9, <1>10, Zenon DEF Kind

-----------------------------------------------------------------------------
(* The invariant, one conjunct for each kind of damage that a part survives. *)

NamesOnce == AllEnded /\ NotYet /\ Distinct
NamesInv ==
    /\ OwnInv /\ ChainInv
    /\ Without(Harm) => ToolFacts
    /\ Without(Harm) /\ "reused" \notin damage => LinksRight /\ LossesRight
    /\ Without(Harm) /\ "twin" \notin damage => NamesOnce

LEMMA InitNames ==
    ASSUME Init, NEW c \in Blocks, NEW k \in 1 .. Len(content[c])
    PROVE  /\ Ended(content[c][k])
           /\ content[c][k].name \in Names => c = RootBlock /\ k = 3
<1>1. {"", ".", "..", "?"} \cap Names = {}
  BY NamesAssumption
<1> DEFINE root == <<NewEntry(".", Root, "dir", 0, 1), NewEntry("..", Root, "dir", 1, 1),
                     NewEntry(LostFound, Lost, "dir", 2, Capacity - 2)>>
           spare == <<NewEntry("", -1, "unknown", 0, Capacity)>>
<1>2. \/ c = RootBlock /\ content[c] = root
      \/ content[c] = DotEntries(Lost, Root)
      \/ content[c] = spare \/ content[c] = <<Zero>> \/ content[c] = <<System>>
  <2>1. content[c] = CASE c = RootBlock -> root
                       [] c = RootBlock + 1 -> DotEntries(Lost, Root)
                       [] c \in RootBlock + 2 .. LostLast -> spare
                       [] c \in 1 .. MetaBlocks -> <<System>>
                       [] OTHER -> <<Zero>>
    BY DEF Init, DiskInit
  <2> HIDE DEF root, spare
  <2>2. CASE c = RootBlock
    BY <2>1, <2>2
  <2>3. CASE c # RootBlock /\ c = RootBlock + 1
    BY <2>1, <2>3
  <2>4. CASE c # RootBlock /\ c # RootBlock + 1 /\ c \in RootBlock + 2 .. LostLast
    BY <2>1, <2>4
  <2>5. CASE /\ c # RootBlock /\ c # RootBlock + 1 /\ c \notin RootBlock + 2 .. LostLast
             /\ c \in 1 .. MetaBlocks
    BY <2>1, <2>5
  <2>6. CASE /\ c # RootBlock /\ c # RootBlock + 1 /\ c \notin RootBlock + 2 .. LostLast
             /\ c \notin 1 .. MetaBlocks
    BY <2>1, <2>6
  <2>7. RootBlock \notin 1 .. MetaBlocks /\ RootBlock + 1 \notin 1 .. MetaBlocks
        /\ \A b \in RootBlock + 2 .. LostLast : b \notin 1 .. MetaBlocks
    BY NumbersAssumption DEF RootBlock
  <2> QED
    BY <2>2, <2>3, <2>4, <2>5, <2>6
<1>3. CASE c = RootBlock /\ content[c] = root
  <2>1. k \in {1, 2, 3}
    BY <1>3
  <2>2. /\ root[1].name = "." /\ root[2].name = ".." /\ root[3].ended = TRUE /\ root[3].type = "dir"
    BY DEF NewEntry
  <2> HIDE DEF root
  <2> QED
    BY <1>1, <1>3, <2>1, <2>2 DEF Ended, Plain
<1>4. CASE content[c] = DotEntries(Lost, Root)
  BY <1>4, EndedEntries DEF Ended, Plain
<1>5. CASE content[c] = spare \/ content[c] = <<Zero>> \/ content[c] = <<System>>
  <2> DEFINE gap == NewEntry("", -1, "unknown", 0, Capacity)
  <2>1. gap.name = "" /\ Zero.name = "" /\ System.name = "?"
    BY DEF Zero, System, Text, NewEntry
  <2> HIDE DEF gap
  <2>2. PICK e : content[c] = <<e>> /\ e \in {gap, Zero, System}
    BY <1>5 DEF gap
  <2>3. content[c][k] = e
    <3>1. Len(content[c]) = 1 /\ content[c][1] = e /\ 1 .. 1 = {1}
      BY <2>2
    <3> QED
      BY <3>1
  <2> QED
    BY <1>1, <2>1, <2>2, <2>3 DEF Ended, Plain
<1> QED
  BY <1>2, <1>3, <1>4, <1>5

LEMMA NamesInit ==
    ASSUME Init, OwnInv, ChainInv PROVE NamesInv
<1>1. /\ tool = Idle /\ damage = {} /\ losses = 0 /\ inodeBits = 0 .. Lost
      /\ \A i \in Inodes : inode[i].mode # "reg"
  BY DEF Init, DiskInit
<1>2. tool.cmd = "rm" /\ tool.pc = "idle"
  BY <1>1 DEF Idle
<1>3. Healthy
  BY <1>1, HealthyWhen DEF Without
<1>4. ToolFacts
  BY <1>2 DEF ToolFacts
<1>5. LinksRight
  BY <1>1, <1>3, LinkedInUse DEF LinksRight
<1>6. LossesRight
  <2>1. Unnamed = {}
    BY <1>1 DEF Unnamed
  <2> QED
    BY <1>1, <2>1, FS_EmptySet DEF LossesRight
<1>7. AllEnded
  BY InitNames DEF AllEnded
<1>8. NotYet
  BY <1>2 DEF NotYet
<1>9. ASSUME NEW s \in Spots, Named(s).name \in Plain PROVE s = <<RootBlock, 3>>
  <2>1. s = <<s[1], s[2]>> /\ s[1] \in Blocks /\ s[2] \in 1 .. Len(content[s[1]])
    BY <1>3, SpotsKnown, DirBlocksTyped DEF SpotsAre, Healthy
  <2> QED
    BY <1>9, <2>1, InitNames DEF Named, Plain
<1>10. Distinct
  <2> SUFFICES ASSUME NEW s \in Spots, NEW t \in Spots, Named(s).name \in Plain, s # t
               PROVE  Named(s).name # Named(t).name
    BY DEF Distinct
  <2> QED
    BY <1>9
<1> QED
  BY <1>4, <1>5, <1>6, <1>7, <1>8, <1>10 DEF NamesInv, NamesOnce

LEMMA NamesHold ==
    ASSUME NamesInv, OwnInv', ChainInv', [Next]_vars PROVE NamesInv'
<1>1. ASSUME Without(Harm)' PROVE Healthy /\ Healthy' /\ Kind /\ Without(Harm)
  <2>1. Without(Harm)
    BY <1>1, HarmStays
  <2>2. Healthy
    BY <2>1, HealthyWhen DEF NamesInv
  <2>3. Healthy'
    <3>1. OwnInv /\ ChainInv /\ Without(Harm) => Healthy
      BY HealthyWhen
    <3>2. (OwnInv /\ ChainInv /\ Without(Harm) => Healthy)'
      BY HealthyWhen, PTL
    <3> QED
      BY <1>1, <3>2
  <2>4. Kind
    BY <1>1, <2>2, StepKind
  <2> QED
    BY <2>1, <2>2, <2>3, <2>4
<1>2. damage \subseteq damage'
  BY DamageStays
<1>3. ASSUME Without(Harm)' PROVE ToolFacts'
  BY <1>1, <1>3, ToolFactsStep DEF NamesInv
<1>4. ASSUME Without(Harm)', "reused" \notin damage' PROVE LinksRight' /\ LossesRight'
  <2>1. ToolFacts /\ LinksRight /\ LossesRight
    BY <1>1, <1>2, <1>4 DEF NamesInv
  <2> QED
    BY <1>1, <1>4, <2>1, LinksStep, LossesStep
<1>5. ASSUME Without(Harm)', "twin" \notin damage' PROVE NamesOnce'
  <2>1. AllEnded /\ NotYet /\ Distinct
    BY <1>1, <1>2, <1>5 DEF NamesInv, NamesOnce
  <2>2. AllEnded' /\ NotYet' /\ Distinct'
    BY <1>1, <1>5, <2>1, EndedStep, NotYetStep, DistinctStep
  <2> QED
    BY <2>2 DEF NamesOnce
<1> QED
  BY <1>3, <1>4, <1>5 DEF NamesInv

LEMMA NamesInductive == Spec => []NamesInv
<1>1. Init /\ OwnInv /\ ChainInv => NamesInv
  BY NamesInit
<1>2. NamesInv /\ OwnInv' /\ ChainInv' /\ [Next]_vars => NamesInv'
  BY NamesHold
<1> QED
  BY <1>1, <1>2, OwnInductive, ChainsInductive, PTL DEF Spec

LEMMA NamesHealthy ==
    ASSUME NamesInv, Without(Harm)
    PROVE  Healthy /\ NamedInodes = Linked /\ ToolFacts
  BY HealthyWhen, NamedAreLinked DEF NamesInv

\* Unless a block beyond the word is taken or freed, a directory is written
\* over, rm frees an inode that has another name, or a directory is given the
\* last block of lost+found with entries in it, i_links_count of a file is the
\* number of its names: the inode that a finished tool names is new or, for
\* ln, one that is named, and rm takes the last name of the inode it frees.
THEOREM LinkCountsCorrect == Spec => []LinksCounted
<1>1. NamesInv => LinksCounted
  <2> SUFFICES ASSUME NamesInv, Without(Harm), "reused" \notin damage,
                      NEW i \in NamedInodes, inode[i].mode = "reg"
               PROVE  inode[i].links = Cardinality({s \in Spots : Named(s).inode = i})
    BY DEF LinksCounted, Without, Harm
  <2>1. i \in Linked /\ LinksRight
    BY NamesHealthy DEF NamesInv
  <2> QED
    BY <2>1 DEF LinksRight, Uses
<1> QED
  BY <1>1, NamesInductive, PTL

\* Under the first three of these conditions no directory has a name twice,
\* removed entries included, but one whose length is a multiple of four, unless
\* ln added a name that the directory had or cp the name of a symbolic link:
\* what ln adds of new names, and every name of mkdir and cp otherwise, is one
\* that no entry of the directory has when the tool writes its own.
THEOREM NamesAreUnique == Spec => []NamesUnique
<1>1. NamesInv => NamesUnique
  BY Zenon DEF NamesInv, NamesOnce, Distinct, NamesUnique, Without, Harm, Plain
<1> QED
  BY <1>1, NamesInductive, PTL

\* Under the conditions of LinkCountsCorrect, an inode without a name is the
\* one that the tool holds, or one of those lost by the tools that ended
\* between their inode and their entry, each of which lost no more than one.
THEOREM OnlyEndsLoseInodes == Spec => []UnnamedAreLost
<1>1. NamesInv => UnnamedAreLost
  BY DEF NamesInv, LossesRight, UnnamedAreLost, Without, Harm
<1> QED
  BY <1>1, NamesInductive, PTL

-----------------------------------------------------------------------------
(* What the directories name, from one step to the next. *)

Binds(d, n, i) ==
    \E s \in Spots : /\ s[1] \in Owned(d)
                     /\ Named(s).inode >= 0 /\ Named(s).name \in Names
                     /\ n = Named(s).name /\ i = Named(s).inode
BindingsAre ==
    \A x : x \in Bindings <=> \E d \in Dirs \ {Lost} : \E n, i : x = <<d, n, i>> /\ Binds(d, n, i)
LEMMA BindingsKnown == BindingsAre
  BY DEF BindingsAre, Bindings, Binds

LEMMA BindsNow ==
    ASSUME NEW d, NEW n, NEW i
    PROVE  Binds(d, n, i)' <=>
             \E s \in Spots' : /\ s[1] \in Owned(d)'
                               /\ content'[s[1]][s[2]].inode >= 0
                               /\ content'[s[1]][s[2]].name \in Names
                               /\ n = content'[s[1]][s[2]].name
                               /\ i = content'[s[1]][s[2]].inode
  BY DEF Binds, Named

LEMMA BindingsNow ==
    ASSUME NEW x
    PROVE  /\ x \in Bindings <=>
                \E d \in Dirs \ {Lost} : \E n, i : x = <<d, n, i>> /\ Binds(d, n, i)
           /\ x \in Bindings' <=>
                \E d \in Dirs' \ {Lost} : \E n, i : x = <<d, n, i>> /\ Binds(d, n, i)'
<1>1. BindingsAre /\ BindingsAre'
  BY BindingsKnown, PTL
<1> QED
  BY <1>1, Zenon DEF BindingsAre

\* One step of OneEntryChanges.
OneEntry ==
    LET added == IF EntryAdded THEN {<<d, tool.name, tool.ino>> : d \in Holders} ELSE {}
    IN  /\ added \subseteq Bindings'
        /\ Bindings' \subseteq Bindings \cup added
        /\ Cardinality(Bindings \ Bindings') <= IF EntryRemoved THEN 1 ELSE 0

LEMMA NoEntry ==
    ASSUME ~ EntryAdded, Bindings' = Bindings PROVE OneEntry
<1>1. Bindings \ Bindings' = {} /\ Cardinality({}) = 0
  BY FS_EmptySet
<1> QED
  BY <1>1 DEF OneEntry

LEMMA NewEntryOnly ==
    ASSUME EntryAdded, NEW p, p = tool.name, NEW y, y = tool.ino,
           NEW H, H = Holders,
           \A x : x \in Bindings' <=> x \in Bindings \/ \E d \in H : x = <<d, p, y>>
    PROVE  OneEntry
<1> DEFINE added == {<<d, tool.name, tool.ino>> : d \in Holders}
<1>1. \A x : x \in added <=> \E d \in H : x = <<d, p, y>>
  OBVIOUS
<1> HIDE DEF added
<1>2. added \subseteq Bindings' /\ Bindings' \subseteq Bindings \cup added /\ Bindings \ Bindings' = {}
  BY <1>1
<1>3. Cardinality({}) = 0
  BY FS_EmptySet
<1>4. Cardinality(Bindings \ Bindings') <= IF EntryRemoved THEN 1 ELSE 0
  BY <1>2, <1>3
<1> QED
  BY <1>2, <1>4 DEF OneEntry, added

LEMMA StaysBindings ==
    ASSUME Healthy, Healthy', Stays PROVE Bindings' = Bindings
<1>1. /\ Spots' = Spots /\ Dirs' = Dirs /\ \A d \in Dirs : Owned(d)' = Owned(d)
      /\ \A s \in Spots : content'[s[1]] = content[s[1]]
  BY StaysUses DEF Stays, KeepsDirs
<1>2. ASSUME NEW d \in Dirs, NEW n, NEW i PROVE Binds(d, n, i)' <=> Binds(d, n, i)
  BY <1>1, BindsNow DEF Binds, Named
<1>3. \A x : x \in Bindings' <=> x \in Bindings
  BY <1>1, <1>2, BindingsNow
<1> QED
  BY <1>3

LEMMA NotLost ==
    ASSUME Healthy, NEW d \in Dirs \ {Lost}
    PROVE  Own(d) = Owned(d) /\ Owned(d) \subseteq blockBits /\ d \in Owners
<1>1. d \in Owners /\ OwnerSound(d)
  BY DEF Owners, Healthy, Ownership, Image
<1> QED
  BY <1>1 DEF OwnerSound, Own

LEMMA GainsBindings ==
    ASSUME Healthy, Healthy', NEW d, NEW b, Gains(d, b)
    PROVE  \A x : x \in Bindings' <=>
                \/ x \in Bindings
                \/ /\ d # Lost
                   /\ \E k \in 1 .. Len(content'[b]) :
                        LET e == content'[b][k] IN
                        e.inode >= 0 /\ e.name \in Names /\ x = <<d, e.name, e.inode>>
<1>1. /\ Dirs' = Dirs \cup {d} /\ \A e \in Dirs \ {d} : Owned(e)' = Owned(e)
      /\ Owned(d)' = {b} \cup (IF d \in Dirs THEN Owned(d) ELSE {})
      /\ b \notin blockBits
  BY DEF Gains
<1>2. /\ \A s \in Spots : s[1] # b => s \in Spots' /\ content'[s[1]] = content[s[1]]
      /\ \A s \in Spots' : s[1] # b => s \in Spots /\ content'[s[1]] = content[s[1]]
      /\ \A k : <<b, k>> \in Spots' <=> k \in 1 .. Len(content'[b])
  BY GainsSpots
<1>3. \A e \in Dirs \ {Lost} : b \notin Owned(e)
  BY <1>1, NotLost
<1>4. ASSUME NEW e \in Dirs \ {Lost}, NEW n, NEW i, Binds(e, n, i) PROVE Binds(e, n, i)'
  <2>1. PICK s \in Spots : /\ s[1] \in Owned(e)
                           /\ Named(s).inode >= 0 /\ Named(s).name \in Names
                           /\ n = Named(s).name /\ i = Named(s).inode
    BY <1>4 DEF Binds
  <2>2. s[1] # b /\ s[1] \in Owned(e)'
    BY <1>1, <1>3, <2>1
  <2> QED
    BY <1>2, <2>1, <2>2, BindsNow DEF Named
<1>5. ASSUME NEW e \in Dirs' \ {Lost}, NEW n, NEW i, Binds(e, n, i)'
      PROVE  \/ e \in Dirs /\ Binds(e, n, i)
             \/ /\ d # Lost
                /\ \E k \in 1 .. Len(content'[b]) :
                     LET f == content'[b][k] IN
                     f.inode >= 0 /\ f.name \in Names /\ <<e, n, i>> = <<d, f.name, f.inode>>
  <2>1. PICK s \in Spots' : /\ s[1] \in Owned(e)'
                            /\ content'[s[1]][s[2]].inode >= 0
                            /\ content'[s[1]][s[2]].name \in Names
                            /\ n = content'[s[1]][s[2]].name
                            /\ i = content'[s[1]][s[2]].inode
    BY <1>5, BindsNow
  <2>2. CASE s[1] # b
    <3>1. s \in Spots /\ e \in Dirs /\ s[1] \in Owned(e)
      BY <1>1, <1>2, <1>5, <2>1, <2>2
    <3> QED
      BY <1>2, <2>1, <2>2, <3>1 DEF Binds, Named
  <2>3. CASE s[1] = b
    <3>1. e = d
      BY <1>1, <1>3, <1>5, <2>1, <2>3
    <3>2. s = <<b, s[2]>>
      BY <2>3, SpotsNow DEF SpotsAre
    <3>3. s[2] \in 1 .. Len(content'[b])
      BY <1>2, <3>2
    <3> QED
      BY <1>5, <2>1, <2>3, <3>1, <3>3
  <2> QED
    BY <2>2, <2>3
<1>6. ASSUME d # Lost, NEW k \in 1 .. Len(content'[b]),
             content'[b][k].inode >= 0, content'[b][k].name \in Names,
             NEW n, n = content'[b][k].name, NEW i, i = content'[b][k].inode
      PROVE  Binds(d, n, i)'
  <2>3. PICK s \in Spots' : s = <<b, k>>
    BY <1>2
  <2>4. s[1] = b /\ s[2] = k /\ b \in Owned(d)'
    BY <1>1, <2>3
  <2> QED
    BY <1>6, <2>3, <2>4, BindsNow
<1>7. ASSUME NEW x \in Bindings PROVE x \in Bindings'
  BY <1>1, <1>4, BindingsNow
<1>8. ASSUME NEW x \in Bindings'
      PROVE  \/ x \in Bindings
             \/ /\ d # Lost
                /\ \E k \in 1 .. Len(content'[b]) :
                     LET e == content'[b][k] IN
                     e.inode >= 0 /\ e.name \in Names /\ x = <<d, e.name, e.inode>>
  <2>1. PICK e \in Dirs' \ {Lost} : \E n, i : x = <<e, n, i>> /\ Binds(e, n, i)'
    BY BindingsNow
  <2>2. PICK n, i : x = <<e, n, i>> /\ Binds(e, n, i)'
    BY <2>1
  <2>3. CASE e \in Dirs /\ Binds(e, n, i)
    BY <2>1, <2>2, <2>3, BindingsNow
  <2> QED
    BY <1>5, <2>1, <2>2, <2>3
<1>9. ASSUME d # Lost, NEW k \in 1 .. Len(content'[b]), NEW x,
             content'[b][k].inode >= 0, content'[b][k].name \in Names,
             x = <<d, content'[b][k].name, content'[b][k].inode>>
      PROVE  x \in Bindings'
  <2>1. PICK n, i : n = content'[b][k].name /\ i = content'[b][k].inode
    OBVIOUS
  <2>2. Binds(d, n, i)' /\ x = <<d, n, i>> /\ d \in Dirs' \ {Lost}
    BY <1>1, <1>6, <1>9, <2>1
  <2> QED
    BY <2>2, BindingsNow
<1> QED
  BY <1>7, <1>8, <1>9

LEMMA MakesBindings ==
    ASSUME Healthy, Healthy', NEW x, NEW b, Makes(x, b) PROVE Bindings' = Bindings
<1>1. Gains(x, b)
  BY MakesGains
<1>2. PICK p : p = tool.parent
  OBVIOUS
<1>3. content'[b] = DotEntries(x, p)
  BY <1>2 DEF Makes
<1>4. \A k \in 1 .. Len(content'[b]) : content'[b][k].name \notin Names
  BY <1>3, EndedEntries
<1>5. \A y : y \in Bindings' <=> y \in Bindings
  BY <1>1, <1>4, GainsBindings
<1> QED
  BY <1>5

LEMMA DoneAdds ==
    ASSUME Healthy, ToolFacts, NEW type, Done(type)
    PROVE  EntryAdded /\ tool.name \in Names /\ tool.ino \in Inodes
<1>1. EntryAdded
  BY DEF Done, EntryAdded, Idle
<1>2. tool.name \in Names
  BY DEF Done, ToolFacts
<1>3. tool.ino \in Inodes
  BY DEF Healthy, TypeOK, Tool
<1> QED
  BY <1>1, <1>2, <1>3

LEMMA GrowsEntry ==
    ASSUME Healthy, Healthy', ToolFacts, NEW type, NEW b, Grows(type, b) PROVE OneEntry
<1>1. PICK p : p = tool.parent
  OBVIOUS
<1>2. PICK n : n = tool.name
  OBVIOUS
<1>3. PICK y : y = tool.ino
  OBVIOUS
<1>4. PICK e : e = Added(type)
  OBVIOUS
<1>5. EntryAdded /\ n \in Names /\ y \in Inodes /\ tool.grow
  BY <1>2, <1>3, DoneAdds DEF Grows
<1>6. Gains(p, b) /\ content'[b] = <<e>> /\ e.name = n /\ e.inode = y
  BY <1>1, <1>2, <1>3, <1>4, GrowsGains
<1>7. PICK H : H = {p} \ {Lost}
  OBVIOUS
<1>8. H = Holders
  BY <1>1, <1>5, <1>7 DEF Holders
<1>9. Len(content'[b]) = 1 /\ content'[b][1] = e /\ 1 .. 1 = {1} /\ y >= 0
  BY <1>5, <1>6 DEF Inodes
<1>10. \A x : x \in Bindings' <=> x \in Bindings \/ \E d \in H : x = <<d, n, y>>
  <2>1. \A x : x \in Bindings' <=>
                \/ x \in Bindings
                \/ /\ p # Lost
                   /\ \E k \in 1 .. Len(content'[b]) :
                        LET r == content'[b][k] IN
                        r.inode >= 0 /\ r.name \in Names /\ x = <<p, r.name, r.inode>>
    BY <1>6, GainsBindings
  <2>2. ASSUME NEW x
        PROVE  (\E k \in 1 .. Len(content'[b]) :
                  LET r == content'[b][k] IN
                  r.inode >= 0 /\ r.name \in Names /\ x = <<p, r.name, r.inode>>)
               <=> x = <<p, n, y>>
    BY <1>5, <1>6, <1>9
  <2>3. ASSUME NEW x PROVE (p # Lost /\ x = <<p, n, y>>) <=> \E d \in H : x = <<d, n, y>>
    BY <1>7
  <2> QED
    BY <2>1, <2>2, <2>3, Zenon
<1> QED
  BY <1>2, <1>3, <1>5, <1>8, <1>10, NewEntryOnly

LEMMA AppendsEntry ==
    ASSUME Healthy, Healthy', ToolFacts, NEW type, NEW b, Appends(type, b) PROVE OneEntry
<1>2. PICK m : m = tool.name
  OBVIOUS
<1>3. PICK y : y = tool.ino
  OBVIOUS
<1>4. EntryAdded /\ m \in Names /\ y \in Inodes /\ ~ tool.grow /\ b = tool.block
  BY <1>2, <1>3, DoneAdds DEF Appends
<1>5. Edits(b) /\ Dirs' = Dirs /\ \A d \in Dirs : Owned(d)' = Owned(d)
  BY AppendsEdits DEF Edits, KeepsDirs
<1>6. PICK n : n = Len(content[b])
  OBVIOUS
<1>7. /\ n \in Nat \ {0} /\ Len(content'[b]) = n + 1
      /\ \A k \in 1 .. n : /\ content'[b][k].name = content[b][k].name
                           /\ content'[b][k].inode = content[b][k].inode
      /\ content'[b][n + 1].name = m /\ content'[b][n + 1].inode = y
  BY <1>2, <1>3, <1>6, AppendsParts
<1>8. /\ \A s \in Spots : s[1] # b => s \in Spots' /\ content'[s[1]] = content[s[1]]
      /\ \A s \in Spots' : s[1] # b => s \in Spots /\ content'[s[1]] = content[s[1]]
      /\ \A k : <<b, k>> \in Spots <=> k \in 1 .. n
      /\ \A k : <<b, k>> \in Spots' <=> k \in 1 .. n + 1
  BY <1>5, <1>6, <1>7, EditsSpots
<1>9. PICK H : H = {d \in Dirs : b \in Owned(d)} \ {Lost}
  OBVIOUS
<1>10. H = Holders
  BY <1>4, <1>9 DEF Holders
<1>11. /\ \A s \in Spots : s = <<s[1], s[2]>>
       /\ \A s \in Spots' : s = <<s[1], s[2]>>
  BY SpotsNow DEF SpotsAre
<1>12. ASSUME NEW s \in Spots
       PROVE  /\ s \in Spots' /\ content'[s[1]][s[2]].name = Named(s).name
              /\ content'[s[1]][s[2]].inode = Named(s).inode
  <2>1. CASE s[1] # b
    BY <1>8, <2>1 DEF Named
  <2>2. CASE s[1] = b
    <3>1. s[2] \in 1 .. n /\ s[2] \in 1 .. n + 1
      BY <1>7, <1>8, <1>11, <2>2
    <3> QED
      BY <1>7, <1>8, <1>11, <2>2, <3>1 DEF Named
  <2> QED
    BY <2>1, <2>2
<1>13. ASSUME NEW s \in Spots', s \notin Spots
       PROVE  s[1] = b /\ s[2] = n + 1
  <2>1. s[1] = b
    BY <1>8, <1>13
  <2>2. s[2] \in 1 .. n + 1 /\ s[2] \notin 1 .. n
    BY <1>8, <1>11, <1>13, <2>1
  <2> QED
    BY <1>7, <2>1, <2>2
<1>14. ASSUME NEW d \in Dirs, NEW k, NEW i
       PROVE  Binds(d, k, i)' <=> Binds(d, k, i) \/ (b \in Owned(d) /\ k = m /\ i = y)
  <2>1. ASSUME Binds(d, k, i) PROVE Binds(d, k, i)'
    <3>1. PICK s \in Spots : /\ s[1] \in Owned(d)
                             /\ Named(s).inode >= 0 /\ Named(s).name \in Names
                             /\ k = Named(s).name /\ i = Named(s).inode
      BY <2>1 DEF Binds
    <3> QED
      BY <1>5, <1>12, <3>1, BindsNow
  <2>2. ASSUME b \in Owned(d), k = m, i = y PROVE Binds(d, k, i)'
    <3>0. n + 1 \in 1 .. n + 1
      BY <1>7
    <3>1. PICK s \in Spots' : s = <<b, n + 1>>
      <4>1. <<b, n + 1>> \in Spots'
        BY <1>8, <3>0
      <4> QED
        BY <4>1, Zenon
    <3>2. s[1] = b /\ s[2] = n + 1 /\ y >= 0
      BY <1>4, <3>1 DEF Inodes
    <3> QED
      BY <1>4, <1>5, <1>7, <2>2, <3>2, BindsNow
  <2>3. ASSUME Binds(d, k, i)' PROVE Binds(d, k, i) \/ (b \in Owned(d) /\ k = m /\ i = y)
    <3>1. PICK s \in Spots' : /\ s[1] \in Owned(d)'
                              /\ content'[s[1]][s[2]].inode >= 0
                              /\ content'[s[1]][s[2]].name \in Names
                              /\ k = content'[s[1]][s[2]].name
                              /\ i = content'[s[1]][s[2]].inode
      BY <2>3, BindsNow
    <3>2. CASE s \in Spots
      BY <1>5, <1>12, <3>1, <3>2 DEF Binds
    <3>3. CASE s \notin Spots
      BY <1>5, <1>7, <1>13, <3>1, <3>3
    <3> QED
      BY <3>2, <3>3
  <2> QED
    BY <2>1, <2>2, <2>3
<1>15. \A x : x \in Bindings' <=> x \in Bindings \/ \E d \in H : x = <<d, m, y>>
  <2>1. ASSUME NEW x PROVE x \in Bindings' <=> x \in Bindings \/ \E d \in H : x = <<d, m, y>>
    <3>1. x \in Bindings' <=>
            \E d \in Dirs \ {Lost} : \E k, i : /\ x = <<d, k, i>>
              /\ (Binds(d, k, i) \/ (b \in Owned(d) /\ k = m /\ i = y))
      BY <1>5, <1>14, BindingsNow
    <3>2. x \in Bindings <=>
            \E d \in Dirs \ {Lost} : \E k, i : x = <<d, k, i>> /\ Binds(d, k, i)
      BY BindingsNow
    <3> QED
      BY <1>9, <3>1, <3>2
  <2> QED
    BY <2>1
<1> QED
  BY <1>2, <1>3, <1>4, <1>10, <1>15, NewEntryOnly

LEMMA DeletesEntry ==
    ASSUME Healthy, Healthy', NEW b, NEW j, NEW i, NEW f, Deletes(b, j, i, f) PROVE OneEntry
<1>1. Dirs' = Dirs /\ \A d \in Dirs : Owned(d)' = Owned(d)
  BY DeletesEdits DEF Edits, KeepsDirs
<1>2. tool.pc = "idle" /\ tool' = tool /\ runs' # runs
  BY DEF Deletes, Removed
<1>3. EntryRemoved /\ ~ EntryAdded
  BY <1>2 DEF EntryRemoved, EntryAdded
<1>4. /\ \A s \in Spots' :
           LET t == Source(b, j, s)
               e == content'[s[1]][s[2]]
           IN  /\ t \in Spots /\ t[1] = s[1]
               /\ e.name = Named(t).name
               /\ \/ t # <<b, j>> /\ e.inode = Named(t).inode
                  \/ t = <<b, j>> /\ e.inode = -1
      /\ \A t \in Spots : t # <<b, j>> => \E s \in Spots' : Source(b, j, s) = t
  BY DeletesParts
<1>5. ASSUME NEW d \in Dirs, NEW n, NEW k, Binds(d, n, k)' PROVE Binds(d, n, k)
  <2>1. PICK s \in Spots' : /\ s[1] \in Owned(d)'
                            /\ content'[s[1]][s[2]].inode >= 0
                            /\ content'[s[1]][s[2]].name \in Names
                            /\ n = content'[s[1]][s[2]].name
                            /\ k = content'[s[1]][s[2]].inode
    BY <1>5, BindsNow
  <2>2. PICK t : t = Source(b, j, s)
    OBVIOUS
  <2>3. /\ t \in Spots /\ t[1] \in Owned(d) /\ Named(t).name = n /\ Named(t).inode = k
    BY <1>1, <1>4, <2>1, <2>2
  <2> QED
    BY <2>1, <2>3 DEF Binds
<1>6. ASSUME NEW d \in Dirs, NEW n, NEW k, Binds(d, n, k), ~ Binds(d, n, k)'
      PROVE  b \in Owned(d) /\ n = content[b][j].name /\ k = content[b][j].inode
  <2>1. PICK t \in Spots : /\ t[1] \in Owned(d)
                           /\ Named(t).inode >= 0 /\ Named(t).name \in Names
                           /\ n = Named(t).name /\ k = Named(t).inode
    BY <1>6 DEF Binds
  <2>2. CASE t = <<b, j>>
    <3>1. t[1] = b /\ t[2] = j
      BY <2>2
    <3> QED
      BY <2>1, <3>1 DEF Named
  <2>3. CASE t # <<b, j>>
    <3>1. PICK s \in Spots' : Source(b, j, s) = t
      BY <1>4, <2>3
    <3>2. /\ s[1] \in Owned(d)' /\ content'[s[1]][s[2]].name = n
          /\ content'[s[1]][s[2]].inode = k
      BY <1>1, <1>4, <2>1, <2>3, <3>1
    <3> QED
      BY <1>6, <2>1, <3>2, BindsNow
  <2> QED
    BY <2>2, <2>3
<1>7. Bindings' \subseteq Bindings
  BY <1>1, <1>5, BindingsNow
<1>8. ASSUME NEW x \in Bindings \ Bindings', NEW y \in Bindings \ Bindings' PROVE x = y
  <2>1. PICK d \in Dirs \ {Lost} : \E n, k : x = <<d, n, k>> /\ Binds(d, n, k)
    BY BindingsNow
  <2>2. PICK n, k : x = <<d, n, k>> /\ Binds(d, n, k)
    BY <2>1
  <2>3. PICK e \in Dirs \ {Lost} : \E o, l : y = <<e, o, l>> /\ Binds(e, o, l)
    BY BindingsNow
  <2>4. PICK o, l : y = <<e, o, l>> /\ Binds(e, o, l)
    BY <2>3
  <2>5. ~ Binds(d, n, k)' /\ ~ Binds(e, o, l)'
    BY <1>1, <2>1, <2>2, <2>3, <2>4, BindingsNow
  <2>6. /\ b \in Owned(d) /\ n = content[b][j].name /\ k = content[b][j].inode
        /\ b \in Owned(e) /\ o = content[b][j].name /\ l = content[b][j].inode
    BY <1>6, <2>2, <2>4, <2>5
  <2>7. d = e
    <3>1. b \in Own(d) /\ b \in Own(e) /\ d \in Owners /\ e \in Owners
      BY <2>6, NotLost
    <3>2. Apart
      BY DEF Healthy, Ownership, Image
    <3> QED
      BY <3>1, <3>2 DEF Apart
  <2> QED
    BY <2>2, <2>4, <2>6, <2>7
<1>9. Cardinality(Bindings \ Bindings') <= 1
  <2>1. CASE Bindings \ Bindings' = {}
    BY <2>1, FS_EmptySet
  <2>2. ASSUME NEW x \in Bindings \ Bindings' PROVE Cardinality(Bindings \ Bindings') <= 1
    <3>1. Bindings \ Bindings' = {x}
      BY <1>8, <2>2
    <3>2. Cardinality({x}) = 1
      BY FS_Singleton
    <3> QED
      BY <3>1, <3>2
  <2> QED
    BY <2>1, <2>2
<1> QED
  BY <1>3, <1>7, <1>9 DEF OneEntry

LEMMA OneEntryStep ==
    ASSUME Healthy, Healthy', ToolFacts, Kind PROVE OneEntry
<1>1. CASE UNCHANGED vars \/ Ends \/ Begins
  <2>1. UNCHANGED <<inodeBits, inode, content>> /\ ~ EntryAdded
    BY <1>1 DEF vars, disk, Ends, Begins, EntryAdded
  <2> QED
    BY <2>1, SameStays, StaysBindings, NoEntry
<1>2. ASSUME NEW x, Takes(x) PROVE OneEntry
  <2>1. ~ EntryAdded
    BY <1>2 DEF Takes, EntryAdded
  <2> QED
    BY <1>2, <2>1, TakesStays, StaysBindings, NoEntry
<1>3. ASSUME NEW x, Works(x) PROVE OneEntry
  <2>1. ~ EntryAdded
    BY <1>3 DEF Works, EntryAdded
  <2> QED
    BY <1>3, <2>1, WorksStays, StaysBindings, NoEntry
<1>4. ASSUME NEW x, NEW b, Makes(x, b) PROVE OneEntry
  <2>1. ~ EntryAdded
    BY <1>4 DEF Makes, EntryAdded
  <2> QED
    BY <1>4, <2>1, MakesBindings, NoEntry
<1>5. ASSUME NEW type, NEW b, Appends(type, b) PROVE OneEntry
  BY <1>5, AppendsEntry
<1>6. ASSUME NEW type, NEW b, Grows(type, b) PROVE OneEntry
  BY <1>6, GrowsEntry
<1>7. ASSUME NEW b, NEW j, NEW i, NEW f, Deletes(b, j, i, f) PROVE OneEntry
  BY <1>7, DeletesEntry
<1>8. CASE \E x : Takes(x) \/ Works(x) \/ \E b : Makes(x, b)
  BY <1>2, <1>3, <1>4, <1>8, Zenon
<1>9. CASE \E type, b : Appends(type, b) \/ Grows(type, b)
  BY <1>5, <1>6, <1>9, Zenon
<1>10. CASE \E b, j, i, f : Deletes(b, j, i, f)
  BY <1>7, <1>10, Zenon
<1> QED
  BY <1>1, <1>8, <1>9, <1>10, Zenon DEF Kind

\* While nothing is damaged, the last step of a successful tool, of ln included,
\* adds its name to its directory, rm removes at most one name, and no other step of a tool,
\* of one that fails or is killed included, changes what a directory names.
THEOREM OneEntryAtATime == Spec => OneEntryChanges
<1>1. ASSUME NamesInv, OwnInv', ChainInv', [Next]_vars, damage' = {} PROVE OneEntry
  <2>1. Without(Harm)' /\ Without(Harm)
    BY <1>1, HarmStays DEF Without
  <2>2. Healthy /\ ToolFacts
    BY <1>1, <2>1, NamesHealthy
  <2>3. Healthy'
    <3>1. (OwnInv /\ ChainInv /\ Without(Harm) => Healthy)'
      BY HealthyWhen, PTL
    <3> QED
      BY <1>1, <2>1, <3>1
  <2>4. Kind
    BY <1>1, <2>1, <2>2, StepKind
  <2> QED
    BY <2>2, <2>3, <2>4, OneEntryStep
<1>2. NamesInv /\ OwnInv' /\ ChainInv' /\ [Next]_vars => [damage' = {} => OneEntry]_vars
  BY <1>1
<1> QED
  BY <1>2, NamesInductive, OwnInductive, ChainsInductive, PTL DEF Spec, OneEntryChanges, OneEntry
=============================================================================
