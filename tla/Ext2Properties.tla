---------------------------- MODULE Ext2Properties ----------------------------
(***************************************************************************)
(* What a sequence of ext2 tools keeps true of the image.  The tools do    *)
(* damage that a property cannot exclude; each property names the kinds it *)
(* does not survive and says that there is no other way to break it.  None *)
(* speaks of an image whose directories or boot block hold bytes that are  *)
(* no entries (spilled): what a tool makes of those is not modelled.       *)
(*   overrun   a block beyond the first word was marked or freed           *)
(*   padded    the padding of a name ran into a block in use               *)
(*   dangling  an inode was freed that another entry names                 *)
(*   spilled   bytes of a path or pointers went into a directory's block   *)
(*             or the boot block                                           *)
(*   junk      rm freed a block number that was never assigned             *)
(*   reused    the last block of lost+found was handed out to a directory  *)
(*             while it held entries                                       *)
(*   twin      ln added a name that its directory had, or cp one that a    *)
(*             symbolic link of the directory had                          *)
(***************************************************************************)
EXTENDS Ext2Tools

Kinds == {"overrun", "padded", "dangling", "spilled", "junk", "reused", "twin"}
Without(kinds) == damage \cap kinds = {}

NamedInodes == {Named(s).inode : s \in Spots} \ {-1}

Tool == [cmd : Commands, pc : Steps, parent : Inodes, name : Names \cup {""},
         grow : BOOLEAN, block : Blocks, ino : Inodes, bytes : Nat, taken : Nat]
Chain == Seq(Entry) \ {<<>>}

\* The bitmaps stay within their bits, the inode table holds numbers of blocks
\* that exist, and so do the entries that the tools write: a directory names
\* other inodes only where bytes that are no entries lie, which the model
\* represents by Text and does not read.
TypeOK ==
    /\ blockBits \subseteq Blocks
    /\ inodeBits \subseteq Inodes
    /\ {freeBlocks, freeInodes, usedDirs} \subseteq Int
    /\ inode \in [Inodes -> Inode]
    /\ content \in [Blocks -> Chain]
    /\ tool \in Tool
    /\ exit \in {"ok", "failed", "killed"}
    /\ runs \in 0 .. MaxRuns
    /\ damage \subseteq Kinds
    /\ losses \in Nat

\* The free counters of the superblock agree with the bitmaps, and the count
\* of directories with the inode table, between any two steps of a tool and
\* after every exit, failed or killed ones included.
FreeCounts ==
    Without({"overrun", "dangling", "spilled"}) =>
        /\ freeBlocks = Cardinality(ClearBlocks)
        /\ freeInodes = Cardinality(ClearInodes)
        /\ usedDirs = Cardinality({i \in inodeBits : inode[i].mode = "dir"})

\* The blocks of an inode that has a name are marked in the bitmap, and no
\* other named inode has them.  Only the last block of lost+found is handed
\* out a second time: bit i is taken for block i, where it stands for i + 1.
BlocksOwned ==
    Without({"overrun", "dangling", "spilled"}) =>
        \A i \in NamedInodes :
            /\ Owned(i) \ {LostLast} \subseteq blockBits
            /\ \A j \in NamedInodes \ {i} : Owned(i) \cap Owned(j) \subseteq {LostLast}

\* An entry names an inode that is in use, and its file type is that of the
\* inode.  Only a hard link to a symbolic link is called a regular file.
EntriesAgree ==
    Without({"overrun", "dangling", "spilled"}) =>
        \A s \in Spots :
            LET e == Named(s)
                mode == inode[e.inode].mode
            IN  e.inode >= 0 =>
                  /\ e.inode \in inodeBits
                  /\ e.type = "dir" <=> mode = "dir"
                  /\ e.type = "lnk" => mode = "lnk"
                  /\ e.type = "reg" => mode \in {"reg", "lnk"}

\* i_links_count of a file is the number of entries that name it: cp gives it
\* one, ln counts up, and rm is the last that removes an entry of it.
LinksCounted ==
    Without({"overrun", "padded", "dangling", "spilled", "reused"}) =>
        \A i \in NamedInodes :
            inode[i].mode = "reg" =>
                inode[i].links = Cardinality({s \in Spots : Named(s).inode = i})

\* The entries of a directory block follow one another without a gap, and the
\* last one reaches the end of the block (the note on ext2_mkdir.c:249), after
\* appends, removals and unfinished tools in any order.
ChainsWhole ==
    Without({"overrun", "junk", "padded", "spilled"}) =>
        \A b \in DirBlocks :
            LET chain == content[b] IN
            /\ chain[1].off = 0
            /\ \A j \in 1 .. Len(chain) :
                 LET next == IF j < Len(chain) THEN chain[j + 1].off ELSE Capacity
                 IN  chain[j].rec > 0 /\ chain[j].off + chain[j].rec = next

\* No directory gets a second entry of a name, removed entries included, but
\* by ln, which takes names that exist, and by cp of the name of a symbolic
\* link, which its search passes over (twin).  Names whose length is a multiple
\* of four are left out: no zero need follow them, and the comparisons of mkdir
\* and cp then miss them.
SameDirectory(b, c) == b = c \/ \E d \in Dirs : {b, c} \subseteq Owned(d) \ {LostLast}
NamesUnique ==
    Without({"overrun", "padded", "dangling", "spilled", "twin"}) =>
        \A s, t \in {s \in Spots : Named(s).name \in Names \ Aligned} :
            s # t /\ SameDirectory(s[1], t[1]) => Named(s).name # Named(t).name

\* An inode that is in use without a name belongs to a tool that still runs,
\* or was lost by one that ended between its inode and its entry: a full disk
\* or a fatal copy costs one inode and no tool loses more.
Unnamed == {i \in inodeBits \ 0 .. Lost :
              i \notin NamedInodes /\ ~ (HoldsInode /\ tool.ino = i)}
UnnamedAreLost ==
    Without({"overrun", "padded", "dangling", "spilled", "reused"}) =>
        Cardinality(Unnamed) <= losses

\* The superblock, the descriptors, the bitmaps, the inode table and the
\* directories of the fresh image are never handed out: their bits stay set,
\* and neither an entry nor the padding of a name, from a full directory's
\* search of the boot block either, is written over the blocks before the root
\* directory.
MetadataKept ==
    Without({"overrun", "junk", "spilled"}) =>
        /\ 0 .. MetaBlocks + LostBlocks \subseteq blockBits
        /\ \A b \in 1 .. MetaBlocks : content[b] = <<System>>

\* A tool that never returns is cp, given a name that its parent has for a
\* directory, or a tool that found its parent directory full: the -1 that
\* reports this is not the one that makedir, copy and lnk test, and the boot
\* block is searched.
HangsExplained ==
    tool.pc = "hung" /\ Without({"overrun", "padded", "dangling", "spilled", "reused"}) =>
        \/ /\ tool.cmd = "cp"
           /\ \E s \in Spots : /\ s[1] \in Owned(tool.parent)
                               /\ Named(s).name = tool.name
                               /\ Named(s).type = "dir"
        \/ tool.name # "" /\ ~ tool.grow /\ RoomIndexes(tool.parent) = {}

\* The names of the directories, but those of lost+found, whose last block
\* another directory shares.
Bindings ==
    UNION {{<<d, Named(s).name, Named(s).inode>> :
              s \in {s \in Spots : /\ s[1] \in Owned(d)
                                   /\ Named(s).inode >= 0
                                   /\ Named(s).name \in Names}} : d \in Dirs \ {Lost}}
EntryAdded == tool.pc = "entry" /\ tool'.pc = "idle" /\ exit' = "ok"
EntryRemoved == tool.pc = "idle" /\ tool'.pc = "idle" /\ runs' # runs
Holders == (IF tool.grow THEN {tool.parent} ELSE {d \in Dirs : tool.block \in Owned(d)})
             \ {Lost}

\* While nothing is damaged, the last step of a successful tool adds its name
\* to its directory, rm removes at most one, and no other step, of a tool that
\* fails or is killed included, changes what any directory names.
OneEntryChanges ==
    [][ damage' = {} =>
          LET added == IF EntryAdded THEN {<<d, tool.name, tool.ino>> : d \in Holders} ELSE {}
          IN  /\ added \subseteq Bindings'
              /\ Bindings' \subseteq Bindings \cup added
              /\ Cardinality(Bindings \ Bindings') <= IF EntryRemoved THEN 1 ELSE 0 ]_vars

\* A tool that has begun to write comes to its end, or to one of the scans
\* that never return.
ToolsEnd == tool.pc \notin {"idle", "hung"} ~> tool.pc \in {"idle", "hung"}
=============================================================================
