------------------------------ MODULE Ext2Tools ------------------------------
(***************************************************************************)
(* ext2_mkdir, ext2_cp, ext2_ln and ext2_rm, run one after the other on    *)
(* one image.  A tool first resolves its path and looks for room, then     *)
(* allocates an inode, then blocks, and writes the directory entry last:   *)
(* each of these functions is a step, and each of them can end the tool.   *)
(***************************************************************************)
EXTENDS DiskImage

CONSTANTS
    Requests,      \* paths: [dirs |-> names of directories, name |-> last name]
    FileSizes,     \* bytes of the files that are copied in
    PathSizes,     \* bytes of the paths that symbolic links hold
    BlockBytes,    \* EXT2_BLOCK_SIZE, in the unit of the two sets above
    PointerBytes,  \* sizeof(indirectBlock), the bytes of a pointer
    MaxRuns        \* bound on the number of tools that get as far as writing

ASSUME SizesAssumption ==
    /\ {BlockBytes, PointerBytes, MaxRuns} \subseteq Nat \ {0}
    /\ FileSizes \subseteq 0 .. (Direct + 1) * BlockBytes  \* one block behind i_block[12]
    /\ PathSizes \subseteq 1 .. BlockBytes - 1     \* no path fills a block
    /\ \A q \in Requests : q.name \in Names /\ q.dirs \in Seq(Names \cup {LostFound})

VARIABLES
    tool,     \* the tool that runs: its step and its local variables
    exit,     \* how the last one ended
    runs,     \* number of tools that got as far as writing
    damage,   \* history: what has gone wrong so far
    losses    \* history: tools that ended between their inode and their entry

vars == <<disk, tool, exit, runs, damage, losses>>

Steps == {"idle", "inode", "blocks", "take", "text", "entry", "hung"}
Commands == {"mkdir", "cp", "ln", "ln -s", "rm"}
Idle == [cmd |-> "rm", pc |-> "idle", parent |-> 0, name |-> "", grow |-> FALSE,
         block |-> 0, ino |-> 0, bytes |-> 0, taken |-> 0]

Init ==
    /\ DiskInit
    /\ tool = Idle
    /\ exit = "ok"
    /\ runs = 0
    /\ damage = {}
    /\ losses = 0

-----------------------------------------------------------------------------
(* Steps that several tools share. *)

BlockCalc(bytes) == IF bytes = 0 THEN 1 ELSE (bytes - 1) \div BlockBytes + 1

\* The tool holds an inode that no entry names yet.
HoldsInode == tool.pc \in {"blocks", "take", "text"}
              \/ (tool.pc = "entry" /\ tool.cmd # "ln")

\* An exit with an error, or a kill: what was allocated stays so.
End(how) ==
    /\ tool' = Idle
    /\ exit' = how
    /\ losses' = IF HoldsInode THEN losses + 1 ELSE losses
    /\ UNCHANGED <<disk, runs, damage>>

Spin ==
    /\ tool' = [tool EXCEPT !.pc = "hung"]
    /\ losses' = IF HoldsInode THEN losses + 1 ELSE losses
    /\ UNCHANGED <<disk, exit, runs, damage>>

\* A tool that never returns is interrupted.
Interrupt ==
    /\ tool.pc = "hung"
    /\ tool' = Idle
    /\ exit' = "killed"
    /\ UNCHANGED <<disk, runs, damage, losses>>

\* A tool is started and ends, or spins, before it has written anything.
StartAnd(cmd, pc, how) ==
    /\ tool' = IF pc = "idle" THEN Idle ELSE [Idle EXCEPT !.cmd = cmd, !.pc = pc]
    /\ exit' = how
    /\ UNCHANGED <<disk, runs, damage, losses>>

\* cp is started and scans the directory that d has under name n for ever.
StartInDirectory(d, n) ==
    /\ tool' = [Idle EXCEPT !.cmd = "cp", !.pc = "hung", !.parent = d, !.name = n]
    /\ UNCHANGED <<disk, exit, runs, damage, losses>>

\* A tool is started, and has found directory d and room in it.
StartIn(cmd, pc, d, n, ino, bytes, free) ==
    LET room == checkParentDirEntListSpaceExists(d, free) IN
    /\ tool' = [cmd |-> cmd, pc |-> pc, parent |-> d, name |-> n, grow |-> room.grow,
                block |-> room.block, ino |-> ino, bytes |-> bytes, taken |-> 0]
    /\ runs' = runs + 1
    /\ UNCHANGED <<disk, exit, damage, losses>>

\* The directories: inodes whose first block starts with their own entry ".".
Owned(i) == {inode[i].block[k] : k \in {k \in 0 .. Direct - 1 : k < inode[i].blocks}}
Dirs == {d \in inodeBits :
           /\ inode[d].mode = "dir"
           /\ LET e == content[inode[d].block[0]][1] IN e.name = "." /\ e.inode = d}
DirBlocks == UNION {Owned(d) : d \in Dirs}

\* The entries of the image, as <<block, place>>.
Spots == {s \in DirBlocks \X (1 .. Capacity) : s[2] <= Len(content[s[1]])}
Named(s) == content[s[1]][s[2]]

\* The blocks that a search can come to: those of the root directory and of
\* every directory that has a name, and the boot block.
Searched ==
    LET below == {s \in Spots : Named(s).type = "dir" /\ Named(s).inode >= 0}
    IN  {0} \cup UNION {Owned(d) : d \in {Root} \cup {Named(s).inode : s \in below}}

\* A bound: an image is followed until bytes that are no entries lie where the
\* next tool would take them for entries.
Starts == tool.pc = "idle" /\ runs < MaxRuns /\ \A b \in Searched : content[b] # <<Text>>

\* Kinds of damage: blocks marked or freed beyond the word, other bytes written
\* into directories or the boot block, new entries written over those of a
\* directory that has the block, and a second entry of a name.
Overrun(blocks) == IF blocks \subseteq 0 .. WordBits - 1 THEN {} ELSE {"overrun"}
Spilled(blocks) == IF blocks \cap (DirBlocks \cup {0}) = {} THEN {} ELSE {"spilled"}
Reused(b) == IF \E s \in Spots : s[1] = b /\ Named(s).inode >= 0 THEN {"reused"} ELSE {}

\* ln takes names that exist as well as new ones, and the search of cp passes
\* over what is neither a file nor a directory.
Twin ==
    IF \E s \in Spots :
         /\ s[1] \in Owned(tool.parent)
         /\ Named(s).name = tool.name
         /\ \/ tool.cmd \in {"ln", "ln -s"}
            \/ tool.cmd = "cp" /\ Named(s).type \notin {"reg", "dir"}
    THEN {"twin"} ELSE {}

(* Mutant: the counter stays. *)
TakesBlockUncounted(b) ==
    /\ blockBits' = blockBits \cup {Bit(b)}
    /\ freeBlocks' = freeBlocks

\* The block of FirstEmpty is handed out: its bit is set, the counters go down.
TakesBlock(b) ==
    /\ blockBits' = blockBits \cup {Bit(b)}
    /\ freeBlocks' = freeBlocks - 1

\* The first free inode is taken, when the first NumInodes bits of the block
\* bitmap have n clear ones.  i_block keeps what it held.
CanTakeInode(n) ==
    ClearInodes # {} /\ Cardinality(ClearBlocks \cap 0 .. NumInodes - 1) >= n
TakesInode(mode, links, blocks) ==
    LET i == FirstEmpty(ClearInodes) IN
    /\ inodeBits' = inodeBits \cup {i}
    /\ freeInodes' = freeInodes - 1
    /\ inode' = [inode EXCEPT ![i] = [mode |-> mode, links |-> links, blocks |-> blocks,
                                      block |-> inode[i].block]]
    /\ tool' = [tool EXCEPT !.ino = i, !.pc = "blocks"]
    /\ UNCHANGED <<blockBits, freeBlocks, content, exit, runs, damage, losses>>

-----------------------------------------------------------------------------
(* The entry, written last. *)

\* The name is padded with zeros to 255 bytes: near the end of a block they
\* run into the next one.
RunsOver(b) ==
    /\ LastOf(b).off + 1 + (IF tool.name \in Longest THEN 1 ELSE Padded) > Capacity
    /\ b + 1 \in Blocks

(* Mutant: the old last entry still reaches the end of the block. *)
AppendedInside(b, e) ==
    LET old == LastOf(b)
        new == [e EXCEPT !.off = old.off + 1, !.rec = Capacity - (old.off + 1)]
    IN  [content EXCEPT ![b] = Append(@, new)]

(* Mutant: the new entry takes the place of the last one. *)
AppendedOver(b, e) ==
    LET old == LastOf(b)
        new == [e EXCEPT !.off = old.off, !.rec = Capacity - old.off]
    IN  [content EXCEPT ![b][Len(content[b])] = new]

\* The new entry's inode follows the old last name.
Appended(b, e) ==
    LET old == LastOf(b)
        new == [e EXCEPT !.off = old.off + 1, !.rec = Capacity - (old.off + 1)]
        chain == [content[b] EXCEPT ![Len(content[b])] =
                    [old EXCEPT !.rec = 1, !.ended = @ /\ old.name \notin Aligned]]
    IN  [c \in Blocks |-> CASE c = b -> Append(chain, new)
                            [] c = b + 1 /\ RunsOver(b) -> <<Zero>>
                            [] OTHER -> content[c]]

\* inode' is what the entry's own tool leaves of the table.  A tool that comes
\* to the bytes it wrote over its own directory is followed no further: it
\* counts as one that spins.
AddsEntry(type, table) ==
    LET e == NewEntry(tool.name, tool.ino, type, 0, Capacity)
        b == IF tool.grow THEN FirstEmpty(ClearBlocks) ELSE tool.block
        d == tool.parent
    IN
    \/ /\ ~ tool.grow
       /\ Stuck(b)
       /\ Spin
    \/ /\ ~ tool.grow
       /\ ~ Stuck(b)
       /\ content' = Appended(b, e)
       /\ inode' = table
       /\ tool' = Idle
       /\ exit' = "ok"
       /\ damage' = damage
            \cup (IF RunsOver(b) /\ content[b + 1] # <<Zero>> THEN {"padded"} ELSE {})
            \cup Twin
       /\ UNCHANGED <<blockBits, inodeBits, freeBlocks, freeInodes, usedDirs, runs, losses>>
    \/ /\ tool.grow
       /\ b \notin Blocks
       /\ End("failed")
    \/ /\ tool.grow
       /\ b \in Blocks
       /\ inode' = [table EXCEPT ![d].block[inode[d].blocks] = b, ![d].blocks = @ + 1]
       /\ content' = [content EXCEPT ![b] = <<e>>]
       /\ TakesBlock(b)
       /\ damage' = damage \cup Overrun({b}) \cup Reused(b) \cup Twin
       /\ tool' = Idle
       /\ exit' = "ok"
       /\ UNCHANGED <<inodeBits, freeInodes, usedDirs, runs, losses>>
-----------------------------------------------------------------------------
(* ext2_mkdir *)

makedir(q) ==
    LET d == Walk(q.dirs)
        e == Hit(d, "whole", q.name)
        exists == d >= 0 /\ Matches("whole", q.name, e)
        spins == d = Endless \/ (d >= 0 /\ ~ exists /\ (e.rec = 0 \/ RoomSpins(d)))
    IN
    /\ Starts
    /\ \/ /\ spins
          /\ StartAnd("mkdir", "hung", exit)
       \/ /\ d = NoPath \/ exists
          /\ StartAnd("mkdir", "idle", "failed")
       \/ /\ d \in Inodes
          /\ ~ exists /\ ~ spins
          /\ StartIn("mkdir", "inode", d, q.name, 0, 0, 2)

allocateNewDirInode ==
    /\ tool.pc = "inode" /\ tool.cmd = "mkdir"
    /\ \/ ~ CanTakeInode(1) /\ End("failed")
       \/ /\ CanTakeInode(1)
          /\ TakesInode("dir", 2, 1)
          /\ usedDirs' = usedDirs + 1

allocateDirBlocks ==
    LET b == FirstEmpty(ClearBlocks) IN
    /\ tool.pc = "blocks" /\ tool.cmd = "mkdir"
    /\ \/ b \notin Blocks /\ End("failed")
       \/ /\ b \in Blocks
          /\ inode' = [inode EXCEPT ![tool.ino].block[0] = b]
          /\ content' = [content EXCEPT ![b] = DotEntries(tool.ino, tool.parent)]
          /\ TakesBlock(b)
          /\ damage' = damage \cup Overrun({b}) \cup Reused(b)
          /\ tool' = [tool EXCEPT !.pc = "entry"]
          /\ UNCHANGED <<inodeBits, freeInodes, usedDirs, exit, runs, losses>>

addNewDirToParentDirEntList ==
    /\ tool.pc = "entry" /\ tool.cmd = "mkdir"
    /\ AddsEntry("dir", inode)

-----------------------------------------------------------------------------
(* ext2_cp *)

\* The file is named as on the local disk when its path is a directory; the
\* scan of that directory compares its first entry for ever.
copy(q, local) ==
    LET d == Walk(q.dirs)
        e == Hit(d, "exact", q.name)
        finds == d >= 0 /\ Matches("exact", q.name, e)
        first == content[inode[e.inode].block[0]][1]
        exists == finds /\ IF e.type = "dir" THEN Matches("whole", local, first) ELSE TRUE
        spins == \/ d = Endless
                 \/ d >= 0 /\ ~ finds /\ (e.rec = 0 \/ RoomSpins(d))
    IN
    /\ Starts
    /\ \/ /\ spins
          /\ StartAnd("cp", "hung", exit)
       \/ /\ d \in Inodes
          /\ finds /\ ~ exists
          /\ StartInDirectory(d, q.name)
       \/ /\ d = NoPath \/ exists
          /\ StartAnd("cp", "idle", "failed")
       \/ /\ d \in Inodes
          /\ ~ finds /\ ~ spins
          /\ \E bytes \in FileSizes :
               StartIn("cp", "inode", d, q.name, 0, bytes, BlockCalc(bytes) + 1)

allocateNewFileInode ==
    LET n == BlockCalc(tool.bytes) IN
    /\ tool.pc = "inode" /\ tool.cmd = "cp"
    /\ \/ ~ CanTakeInode(n) /\ End("failed")
       \/ CanTakeInode(n) /\ TakesInode("reg", 1, n) /\ UNCHANGED usedDirs

\* A file that needs the indirect block is given one block too many behind it.
FileBlocks(bytes) ==
    LET n == BlockCalc(bytes) IN IF n <= Direct THEN n ELSE n + 2

(* Mutant: checked again and again. *)
checkFileBlocksForever ==
    LET n == BlockCalc(tool.bytes)
        free == IF n <= Direct THEN n ELSE n + 1
    IN
    /\ tool.pc = "blocks" /\ tool.cmd = "cp"
    /\ \/ Cardinality(ClearBlocks) < free /\ End("failed")
       \/ /\ Cardinality(ClearBlocks) >= free
          /\ UNCHANGED vars

\* The first check of allocateFileBlocks: free bits for all blocks but one.
checkFileBlocks ==
    LET n == BlockCalc(tool.bytes)
        free == IF n <= Direct THEN n ELSE n + 1
    IN
    /\ tool.pc = "blocks" /\ tool.cmd = "cp"
    /\ \/ Cardinality(ClearBlocks) < free /\ End("failed")
       \/ /\ Cardinality(ClearBlocks) >= free
          /\ tool' = [tool EXCEPT !.pc = "take"]
          /\ UNCHANGED <<disk, exit, runs, damage, losses>>

\* One turn of its loops: a direct block, the indirect block, or a block that
\* the indirect block points to, which is taken unseen.  The counter that the
\* blocks behind it are compared with is unsigned.
allocateFileBlocks ==
    LET k == tool.taken
        b == FirstEmpty(ClearBlocks)
        pointers == inode[tool.ino].block[Direct]
        behind == BlockCalc(tool.bytes) + 1 - Direct
        tooMany == k = Direct + 1 /\ (behind >= PointerBytes \/ freeBlocks \in 0 .. behind)
        full == k <= Direct /\ b \notin Blocks
    IN
    /\ tool.pc = "take"
    /\ \/ (full \/ tooMany) /\ End("failed")
       \/ /\ ~ full /\ ~ tooMany
          /\ TakesBlock(b)
          /\ inode' = IF k <= Direct THEN [inode EXCEPT ![tool.ino].block[k] = b] ELSE inode
          /\ tool' = [tool EXCEPT !.taken = k + 1,
                        !.pc = IF k + 1 = FileBlocks(tool.bytes) THEN "text" ELSE "take"]
          /\ IF k <= Direct THEN UNCHANGED content
             ELSE content' = [content EXCEPT ![pointers] = <<Text>>]
          /\ damage' = damage \cup Overrun({b})
                              \cup (IF k <= Direct THEN {} ELSE Spilled({pointers}))
          /\ UNCHANGED <<inodeBits, freeInodes, usedDirs, exit, runs, losses>>

\* The local file was opened for reading only, so that its shared writable
\* mapping failed, and another variable was tested: copying a byte is fatal.
copyFileBytes ==
    /\ tool.pc = "text"
    /\ \/ tool.bytes > 0 /\ End("killed")
       \/ /\ tool.bytes = 0
          /\ tool' = [tool EXCEPT !.pc = "entry"]
          /\ UNCHANGED <<disk, exit, runs, damage, losses>>

(* Mutant: with the file type that mkdir writes. *)
addNewFileAsDir ==
    /\ tool.pc = "entry" /\ tool.cmd = "cp"
    /\ AddsEntry("dir", inode)

addNewFileToParentDirEntList ==
    /\ tool.pc = "entry" /\ tool.cmd = "cp"
    /\ AddsEntry("reg", inode)

-----------------------------------------------------------------------------
(* ext2_ln *)

\* The directory of an existing name that is not a directory.
goodPathExists(q) ==
    LET d == Walk(q.dirs)
        e == Hit(d, "entry", q.name)
        finds == Matches("entry", q.name, e)
    IN CASE d < 0 -> d
         [] d >= 0 /\ finds /\ e.type # "dir" -> d
         [] d >= 0 /\ ~ finds /\ e.rec = 0 -> Endless
         [] OTHER -> NoPath

\* Both names must exist: path1 is linked to, path2 is where the link goes.
lnk(path1, path2) ==
    LET d1 == goodPathExists(path1)
        d2 == goodPathExists(path2)
        found == {d1, d2} \subseteq Inodes
        source == Hit(d1, "entry", path1.name).inode
    IN
    /\ Starts
    /\ \/ /\ Endless \in {d1, d2} \/ (found /\ source >= 0 /\ RoomSpins(d2))
          /\ StartAnd("ln", "hung", exit)
       \/ /\ Endless \notin {d1, d2}
          /\ ~ found \/ (found /\ source < 0)
          /\ StartAnd("ln", "idle", "failed")
       \/ /\ found /\ source >= 0 /\ ~ RoomSpins(d2)
          /\ \/ StartIn("ln", "entry", d2, path2.name, source, 0, 2)
             \/ \E bytes \in PathSizes :
                  StartIn("ln -s", "inode", d2, path2.name, 0, bytes, 2)

(* Mutant: i_links_count stays. *)
addHardLinkUncounted ==
    /\ tool.pc = "entry" /\ tool.cmd = "ln"
    /\ AddsEntry("reg", inode)

\* i_mode & EXT2_S_IFREG holds for a symbolic link as well.
addHardLink ==
    LET i == tool.ino IN
    /\ tool.pc = "entry" /\ tool.cmd = "ln"
    /\ AddsEntry(CASE inode[i].mode \in {"reg", "lnk"} -> "reg"
                   [] inode[i].mode = "dir" -> "dir"
                   [] OTHER -> "unknown",
                 [inode EXCEPT ![i].links = @ + 1])

allocateNewLinkInode ==
    /\ tool.pc = "inode" /\ tool.cmd = "ln -s"
    /\ \/ ~ CanTakeInode(1) /\ End("failed")
       \/ CanTakeInode(1) /\ TakesInode("lnk", 0, 1) /\ UNCHANGED usedDirs

\* A last piece of n bytes is written as BlockBytes - n: more than the path,
\* or less, and then the rest goes to what i_block holds next.
Pieces[n \in Int] ==
    IF n <= 0 THEN 0
    ELSE 1 + Pieces[n - (IF n >= BlockBytes THEN BlockBytes ELSE BlockBytes - n)]

\* With blocks of 1024 bytes there are at most ten pieces, and i_block has more places.
ASSUME PathsAssumption == \A n \in PathSizes : Pieces[n] \in 0 .. Direct + 1

\* What follows the path in memory is written too.
allocateLinkBlocks ==
    LET b == FirstEmpty(ClearBlocks)
        i_block == [inode[tool.ino].block EXCEPT ![0] = b]
        written == {i_block[k] : k \in 0 .. Pieces[tool.bytes] - 1}
    IN
    /\ tool.pc = "blocks" /\ tool.cmd = "ln -s"
    /\ \/ b \notin Blocks /\ End("failed")
       \/ /\ b \in Blocks
          /\ inode' = [inode EXCEPT ![tool.ino].block = i_block]
          /\ content' = [c \in Blocks |-> IF c \in written THEN <<Text>> ELSE content[c]]
          /\ TakesBlock(b)
          /\ damage' = damage \cup Overrun({b}) \cup Spilled(written)
          /\ tool' = [tool EXCEPT !.pc = "entry"]
          /\ UNCHANGED <<inodeBits, freeInodes, usedDirs, exit, runs, losses>>

addSymbolicLink ==
    /\ tool.pc = "entry" /\ tool.cmd = "ln -s"
    /\ AddsEntry("lnk", inode)

-----------------------------------------------------------------------------
(* ext2_rm *)

(* Mutant: the entries behind it are skipped too. *)
UnlinkedTail(chain, j) ==
    IF j = 1 THEN [chain EXCEPT ![1].inode = -1]
    ELSE [k \in 1 .. j - 1 |->
            IF k < j - 1 THEN chain[k] ELSE [chain[k] EXCEPT !.rec = Capacity - chain[k].off]]

\* An entry that is not the first of its block is skipped by the one before it.
Unlinked(chain, j) ==
    IF j = 1 THEN [chain EXCEPT ![1].inode = -1]
    ELSE [k \in 1 .. Len(chain) - 1 |->
            CASE k < j - 1 -> chain[k]
              [] k = j - 1 -> [chain[k] EXCEPT !.rec = @ + chain[j].rec]
              [] k > j - 1 -> chain[k + 1]]

\* The inode and its blocks are freed whatever i_links_count says.  Behind the
\* direct blocks the list has one number that nothing was assigned to.
delEntry(d, n) ==
    LET p == First(Stops(d, "file", n))
        b == inode[d].block[p[1]]
        i == EntryAt(d, p).inode
        blocks == inode[i].blocks
    IN
    \E junk \in 0 .. WordBits - 1 :
      LET freed == {inode[i].block[k] : k \in 0 .. (IF blocks < Direct THEN blocks ELSE Direct) - 1}
                   \cup (IF blocks > Direct THEN {junk} ELSE {})
      IN
      /\ blocks <= Direct => junk = 0
      /\ inodeBits' = inodeBits \ {i}
      /\ freeInodes' = freeInodes + 1
      /\ blockBits' = blockBits \ {Bit(c) : c \in freed}
      /\ freeBlocks' = freeBlocks + blocks
      /\ inode' = [inode EXCEPT ![i].links = 0]
      /\ content' = [content EXCEPT ![b] = Unlinked(content[b], p[2])]
      /\ damage' = damage
           \cup Overrun(freed)
           \cup (IF blocks <= Direct /\ 0 \notin freed THEN {} ELSE {"junk"})
           \cup (IF \E s \in Spots : s # <<b, p[2]>> /\ Named(s).inode = i
                 THEN {"dangling"} ELSE {})
      /\ exit' = "ok"
      /\ runs' = runs + 1
      /\ UNCHANGED <<usedDirs, tool, losses>>

\* A removed entry that is found again stands for inode -1, whose bytes are
\* padding of the inode bitmap: 2^31 - 1 blocks, and the list of them does not
\* fit on the stack.
rmove(q) ==
    LET d == Walk(q.dirs)
        e == Hit(d, "file", q.name)
        finds == d \in Inodes /\ Matches("file", q.name, e)
        spins == d = Endless \/ (d >= 0 /\ ~ finds /\ e.rec = 0)
    IN
    /\ Starts
    /\ \/ spins /\ StartAnd("rm", "hung", exit)
       \/ ~ finds /\ ~ spins /\ StartAnd("rm", "idle", "failed")
       \/ finds /\ e.inode < 0 /\ StartAnd("rm", "idle", "killed")
       \/ finds /\ e.inode >= 0 /\ delEntry(d, q.name)

-----------------------------------------------------------------------------
Start == \/ \E q \in Requests : makedir(q) \/ rmove(q)
         \/ \E q \in Requests, local \in Names : copy(q, local)
         \/ \E q1, q2 \in Requests : lnk(q1, q2)

Mkdir == allocateNewDirInode \/ allocateDirBlocks \/ addNewDirToParentDirEntList
Cp == \/ allocateNewFileInode \/ checkFileBlocks \/ allocateFileBlocks
      \/ copyFileBytes \/ addNewFileToParentDirEntList
Ln == addHardLink \/ allocateNewLinkInode \/ allocateLinkBlocks \/ addSymbolicLink

Next == Start \/ Mkdir \/ Cp \/ Ln \/ Interrupt
Spec == Init /\ [][Next]_vars /\ WF_vars(Mkdir \/ Cp \/ Ln)
=============================================================================
