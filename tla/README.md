# A verification project for os-int

TLA+ models of the programs in this repository, TLC configurations that check
them on small instances, and TLAPS proofs of the properties that matter most
for every value of the constants. Paths below are relative to the repository.

- [1. The system](#1-the-system)
- [2. What is modelled, and how](#2-what-is-modelled-and-how)
- [3. The runs](#3-the-runs)
- [4. The proofs](#4-the-proofs)
- [5. What the checks found](#5-what-the-checks-found)
- [6. What is not modelled](#6-what-is-not-modelled)
- [7. Plan](#7-plan)

Run a check with `tlc -config <run>.cfg <module>` and a proof with
`tlapm <module>`; `PROJECT.json` lists the runs, the code lines behind every
definition (`map`), the places of the code that are hard to test (`hazards`)
and, for every property, a bug of the code that breaks it (`mutants`). The
definitions commented "Mutant" in the modules are those bugs; nothing else
refers to them.

## 1. The system

The repository holds three independent programs of an operating systems course,
and a reader of disk images. They share no code and no state.

### a1: the system-call interceptor (`src/a1/interceptor.c`)

A kernel module. `init_function` (583) puts `my_syscall` and `my_exit_group`
into `sys_call_table`; from then on every process of the machine runs the
module's code, concurrently.

| part | state | operations |
|---|---|---|
| kernel table | `sys_call_table`, the write protection of its page, `orig_custom_syscall`, `orig_exit_group` | `set_addr_rw`, `set_addr_ro`, hijack, restore |
| `table[NR_syscalls]` | `f` (the saved handler), `intercepted`, `monitored` (0 none, 1 some, 2 all), `listcount`, `my_list` of `pid_list` objects | `add_pid_sysc`, `del_pid_sysc`, `del_pid`, `destroy_list`, `check_pid_monitored` |
| locks | `sys_call_table_lock`, `my_table_lock` | taken on each path by hand |
| commands | arguments of the call | `my_syscall`: INTERCEPT, RELEASE, START, STOP; different checks for root and users |
| handlers | - | `interceptor` (log, then call `f`), `my_exit_group` (`del_pid`, then exit) |
| loader | - | `init_function`, `exit_function` |

Interaction is through shared memory only. What is hard: flags are read before
a lock is taken and written after it is dropped; lists are scanned without a
lock; the pid that START checks may exit before it is added; more than ten
return paths must each drop the right lock; a `kmalloc` can fail half-way; the
handlers are visible before the lists are initialised and after they are
destroyed. It is correct if the locks exclude and are always dropped, counters
match lists, objects are neither lost nor used twice, an intercepted call still
reaches its original handler, only the authorised change anything, an exited
process is in no list, and unloading leaves no trace.

### a3: the paging simulator (`src/a3/a3`)

A sequential program that replays a trace of memory references. `sim.c` reads
it; `access_mem` calls `find_physpage` (`pagetable.c`), which on a miss calls
`allocate_frame`, which calls the eviction algorithm through `evict_fcn` and
`swap_pageout` (`swap.c`); `ref_fcn` tells the algorithm of each reference.

| part | state | operations |
|---|---|---|
| page table | flags, frame number and `swap_off` per page | `find_physpage`, `init_second_level` |
| frames | `coremap` (owner, `in_use`, `count`), `physmem` | `allocate_frame`, `init_frame` |
| swap | bitmap of slots, swap file | `swap_pageout`, `swap_pagein`, `bitmap_alloc` |
| counters | hits, misses, references, clean and dirty evictions | updated on each path |
| algorithms | `headIndex`, `clockHand`, `count`, `opt.c`'s list | rand, lru, fifo, clock, opt |

What is hard: one page's state is spread over its entry, its frame's `coremap`
entry, a swap slot and four flag bits, all updated by hand; a bug shows only
after a page went out, in and out again; the swap file may be full or failing;
the algorithms' indices must follow what `allocate_frame` does. It is correct if
the three tables agree, slots are not shared, a page dropped without writing is
on swap, the program reads back what it wrote, and each algorithm evicts the
page its name says.

### a4: the ext2 tools (`src/a4/group_0514/A4`)

`ext2_mkdir`, `ext2_cp`, `ext2_ln`, `ext2_rm` each map an image, do one
operation and exit; `ext2_checker` recomputes counters; `ext2_restore` is a
stub. They interact only through the image: superblock and group counters, the
two bitmaps, the inode table and the directory blocks. Each operation is a
sequence path walk - space check - allocate inode - allocate blocks - add entry,
with an exit on each failure.

What is hard: a failure in the middle of the sequence; the limits (12 direct
blocks, one indirect block, 32-bit bitmap words, entries that fill a block);
states that only a sequence of tools reaches (a hard link, then a removal). An
image is correct if the bitmaps mark exactly what is reachable, no block has
two owners, counters equal the bitmaps, every entry names an allocated inode,
link counts equal the number of entries, and a failed tool changes nothing.

| part | state | operations |
|---|---|---|
| superblock, group descriptor | free blocks, free inodes, used directories | each allocation and `delEntry` |
| bitmaps | one bit per block and per inode | `firstEmptyInBitmap`, `1 << n` in each allocation, `delEntry` |
| inode table | mode, links, blocks, `i_block` | `allocateNew...Inode`, `allocate...Blocks`, `addHardLink`, `delEntry` |
| directory blocks | chains of entries (name, inode, `rec_len`, type) | `dirPathExists` and its relatives, `checkParentDirEntListSpaceExists`, `add...ToParentDirEntList`, `delEntry` |

### te: the image reader (`src/te/readimage.c`)

Prints an image. It changes nothing.

## 2. What is modelled, and how

```
a1  InterceptService         abstract: table commands that take effect in one step
       ^ refinement (TLC and TLAPS)
    Interceptor              the module's code, step by step
    InterceptorProperties    its properties          <- MCInterceptor
    InterceptorProofs  <- InterceptorServiceProofs

a3  PageStore                abstract: a version counter per page
       ^ refinement (TLC and TLAPS)
    VirtualMemory            memory and swap, any victim  <- MCVirtualMemory
       ^ extended by              VirtualMemoryProofs
    PageReplacement          rand, lru, fifo, clock       <- MCPageReplacement
                                  PageReplacementProofs
    OptimalReplacement       opt                          <- MCOptimalReplacement
                                  OptimalReplacementProofs

a4  DiskImage                the image, its searches and free bits
       ^ extended by
    Ext2Tools                mkdir, cp, ln, rm, one after the other on one image
    Ext2Properties           their properties             <- MCExt2Tools
    Ext2ToolsProofs  <- Ext2OwnershipProofs  <- Ext2NamesProofs
```

### Interceptor

`pc[p]` is where process `p` is in the module's code; a label stands for the
code between two accesses that other processes can see. A lock, an unlock, a
read of a flag outside the locks, a scan of a list, and each write are separate
steps. A critical section in which only one write can be seen is shortened:
`SaveOriginal` takes and drops `my_table_lock` in the step that writes `f`
(369-373), because nothing else happens under that lock. The loader is one more
actor with labels of its own.

| definition | code |
|---|---|
| `CallMySyscall`, `EntryInvalid`, `EntryRoot`, `EntryUser`, `CheckPid`, `CheckOwner` | the checks of `my_syscall`, in order, with each early return |
| `InterceptCommand`, `ReleaseCommand` | 362-410; the flag is written after both locks are dropped, as in the code |
| `StartCommand`, `StopCommand` | 419-480, and their copies for users, 495-552 |
| `CallIntercepted`, `InterceptorRun` | `interceptor`, which scans without a lock, then calls `f` |
| `CallExitGroup`, `MyExitGroup` | `my_exit_group` |
| `InitFunction`, `ExitFunction` | insmod, rmmod, entry by entry |
| `ReusePid` | the kernel gives a pid to a new process, of any owner (external) |

`uid[p]` is the owner of the process that has pid `p`. A new process with that
pid may have any owner of `Uids[p]`, so a user's call may go on with a pid that
has become another user's. `reused[p]` records, for the properties only, that
this happened to the pid of p's call after `check_pids_same_owner` (493) looked
at it.

A scan that runs while another process frees a node of its list is marked
`torn`: it may find the pid, not find it, fault, or, when the node is in another
list by then, go round that list for ever. The last is a scan whose step is
never taken: `FairSpec` asks for nothing of a process with `torn`.

`kmalloc(GFP_KERNEL)` (100) is called under `my_table_lock` and may sleep: the
caller goes to `asleep` with the lock held, and comes back only while some of
the `CPUs` is not taken by a process that spins for a lock (`AllSpin`). A fault
(a NULL list head, a NULL task at 209, freed text) puts the process at `"oops"`,
keeping its locks. `Node` is the pool `kmalloc` allocates from; when it is
exhausted, and also at any other time, `kmalloc` may fail.

A process that is redirected by `interceptor` and finds no handler but
`interceptor` loops through `icp`, as the code's recursion does.

`Init`/`Spec` start before insmod; `LoadedInit`/`ServiceSpec` start after
`init_function`, with no rmmod, which is the window in which most of the
comments' promises are meant.

### VirtualMemory, PageReplacement, OptimalReplacement

One action is one line of the trace, with all that `find_physpage` does for it:
choice of the frame, eviction, swap out, swap in or zero-fill, the page table
entry, `coremap`, the bytes, the counters and the write of `access_mem`. The
program is sequential, so nothing can come between. `swap_pageout` runs before
the read of `swap_pagein`, so `MissSwapped` reads `swapfile'`.

A page's bytes are the version counter and the address that `init_frame` and
`access_mem` keep in them. Slots and frames are numbers, since their order decides
which one is given out.

A page is identified with one full address. The code finds a page by the two
indices of an address, but `init_frame` (pagetable.c:129), the check in
`access_mem` (sim.c:54) and `opt_evict` (opt.c:62) keep and compare the whole of
it. The models, and `PageHoldsItsAddress` and `OptIsOptimal` with them, are about
traces that name each page by one address, as the assignment's do; with two
addresses in a page, `access_mem` reports an error that is none and `opt_evict`
misses the next use.

`VirtualMemory` leaves the victim open: `evict_fcn` may return any frame, and
may clear any reference bits. What is proved of it therefore holds for every
algorithm. `PageReplacement` puts rand, lru, fifo and clock there, with their
own variables, and `queue`, `recency` and `idle`, which only record history for
the properties. `OptimalReplacement` adds the trace file as `opt_init` and as
`replay_trace` read it.

`PageStore` is what the traced program is promised: its own last version of each
page, untouched by accesses to others, except that a page may be forgotten (read
as zero) while another is served. The exception is there because the code needs
it (finding 4). Also a page whose write to swap failed is forgotten, after the
simulator complained.

### DiskImage, Ext2Tools, Ext2Properties

`DiskImage` is what an image is to the tools: the two bitmaps as sets of bits,
the counters, the inode table, and `content`, what each block holds when it is
read as a chain of directory entries. A file's own bytes are left out, but a
block that such bytes (or zeros) are written into holds `Text` (or `Zero`),
because the tools do write them into directories.

What `Text` is read as depends on every byte of a path and of the memory behind
it, and the model does not say: `Starts` lets no tool begin once a block that its
searches can come to (`Searched`: the blocks of the named directories and the
boot block) holds `Text`, and a running tool that comes to it counts as hung.
`Text` is a constant whose fields mean nothing, and every property exempts
*spilled*, the damage that puts it into a directory; `TypeOK` is about the
numbers that tools store as inodes and blocks, and not about those bytes. The
metadata blocks hold `System`, for the same reason: what they contain is not read
as entries, and a write over one shows as another content. The four tools carry
copies of the same helpers; where the copies differ, the module has the
difference: `Matches` lists their five ways to compare a name, `Appended` the
one way in which all four append an entry.

| definition | code |
|---|---|
| `DiskInit` | the image of mke2fs that the assignment hands out (external); its bit i stands for block i + 1, while the tools take bit i for block i |
| `Bit` | `1 << n` on a 32-bit word: n is taken modulo 32, as x86 does |
| `Hit`, `Stops`, `Walk` | the scans of `goodPath`, `goodPathRM`, `goodPathExists`: they end at a match or never leave an entry with `rec_len` 0 |
| `checkParentDirEntListSpaceExists`, `RoomSpins` | the search for room, with its -1 in the wrong flag |
| `makedir`, `copy`, `lnk`, `rmove` | a tool up to its first write: bad path, existing name, endless scan, or a start |
| `allocateNewDirInode`, `...FileInode`, `...LinkInode` | the inode, after the check of free blocks |
| `allocateDirBlocks`, `checkFileBlocks`, `allocateFileBlocks`, `copyFileBytes`, `allocateLinkBlocks` | the blocks, one step per block of a file |
| `addNewDir...`, `addNewFile...`, `addHardLink`, `addSymbolicLink` | the entry, written last: appended, or in a new block (`AddsEntry`) |
| `delEntry` | rm in one step |

`tool` is the program that runs, with its local variables; every step may end it
(`End`) and leaves what it wrote, which is how the code handles an error. Tools
follow one another, as a shell runs them: none of them locks the image, but the
assignment runs one at a time. `rm` needs one step only, because it has no exit
after its first write. In a scan that never ends a tool is `hung` until it is
interrupted.

Two history variables record what the image alone no longer shows. `losses`
counts the tools that ended with an inode that no entry names. `damage` collects
the kinds of damage that the code does to an image (section 5); each property
names those it does not survive. After such damage nothing is claimed: exempting
it says that the code does it, not that it is harmless. So a property is not
"the image is correct", which is false after two or three tools, but "these are
the only ways in which it becomes incorrect".

## 3. The runs

All runs set `CHECK_DEADLOCK FALSE`. In a1 all processes may be dead or faulted,
or wait for a lock that a faulted process keeps, after which the system stops;
in a3 a trace ends, or the simulator has exited; in a4 `MaxRuns` is reached.

| run | instance | what it shows |
|---|---|---|
| `interceptor_races` | module loaded, two pids, each of root or of a user, every command on one system call, pid arguments: one process, all; 2 nodes | `LockDiscipline`, `CountMatchesList`, `NodesAccounted`, `ExitCleansLists`, `SavedBeforeReplaced` and `Authorised`, with exits and pids that pass between root and a user |
| `interceptor_loading` | insmod, calls, rmmod; root and a user; a valid and an invalid number | the locks, the protection of the table and the counters, also when processes fault inside |
| `interceptor_one_root` | module loaded, root and a user, pid arguments: the user, all, a bad one | `OriginalReachable`, `FlagsTellRouting`; the table commands refine `InterceptService`; `EveryCallEnds` under fairness, on one processor |
| `paging_memory` | 3 pages, 2 frames, 2 slots, loads and stores, 8 references, failing disk, any victim | the six invariants of the tables, the counters, and the refinement of `PageStore` |
| `paging_policies` | 4 pages, 3 frames, 4 slots, 11 references, failing disk, the four algorithms | fifo is a queue, clock evicts what is idle, lru counts every reference |
| `paging_opt` | every trace of 7 lines over 4 pages and header lines, 2 frames, 4 slots, failing disk | OPT never costs a miss on a trace without headers; the list is never exhausted early |
| `ext2_tools` | two names, one the start of the other; 9 blocks, 7 inodes, 5 tools that get as far as writing, and any number that do not | ten invariants, `OneEntryChanges`, `ToolsEnd` |

What the properties of `ext2_tools` say, with the hazard they are aimed at:

- `FreeCounts`: bitmaps and counters agree after every exit, killed tools
  included (shifts beyond the word, exits half-way).
- `BlocksOwned`: the blocks of a named inode are marked and are nobody else's,
  except the last block of lost+found (finding 6).
- `EntriesAgree`, `LinksCounted`: entries name inodes in use, of their type, and
  a file's link count is the number of its names (rm after ln, paddings and
  paths that overwrite directories).
- `ChainsWhole`: the entries of a block follow each other up to its end, after
  appends, removals and unfinished tools in any order.
- `NamesUnique`: no directory has a name twice, but for names that four divides
  the length of, which the comparison misses, and for *twin*: ln adds a name that
  its directory has, or cp that of a symbolic link, which it does not look at.
  `Twin` asks for such an entry, so a new name that ln takes because of a prefix
  or a nameless entry is covered.
- `UnnamedAreLost`: each failure loses at most one inode.
- `MetadataKept`: superblock, bitmaps and inode table are never handed out, and
  no entry or padding is written over them (full directories, whose adds search
  the boot block).
- `HangsExplained`: the only endless scans are cp's of a directory that its
  parent has under the name asked for, and that of the boot block for a full
  parent, as long as the parent does not get room again while the tool hangs,
  which *reused* would give it. A path walk or a search for room that is
  endless for another reason, of cp too, would violate it.
- `OneEntryChanges`: over the whole image, only the last step of a successful
  tool changes what directories name, and by exactly its own entry.
- `ToolsEnd`: whatever has begun to write ends or is in such a scan.

The five runs that expect a violation are in section 5.

### The bounds and why they are enough

*a1.* A race of this code is between one access outside a lock and one other
process; two processes interleave them in every order, and each repeats
commands without a bound (the state space is finite without one). `NR` is 2 or
3: `MY_CUSTOM_SYSCALL`, `exit_group` and one more, because the table's entries
interact only through `del_pid` and the loader, which visit all. Two nodes allow
a pid twice in a list; one node makes `kmalloc` fail often. In
`interceptor_loading` the system call intercepted is `exit_group` itself, where
`interceptor` and `my_exit_group` meet. The module is loaded and unloaded once:
a second load starts with fresh static data.
One processor is the worst case for a `kmalloc` that sleeps: one process that
spins then keeps it from waking. That pids pass between owners is in
`interceptor_races`; the other runs fix the owners, because their properties
speak of processes of root.
With two processes of root `OriginalReachable` fails (finding 1); the run that
checks it has one, and shows that the rest of the code keeps it.

*a3.* With one frame a write is lost at the fourth reference, and two pages can
share a slot after two evictions; with 2 frames, 3 pages and 8 references every
page goes out, in and out again, and with 2 slots the swap file is full with a
page still to write. The runs about the algorithms have a slot for every page,
so that no trace is cut short by a full swap file, and let the disk fail, which
the algorithms must not notice. With 3 frames and 11 references there are up to
8 evictions, in which the fifo index and the clock hand go round more than
twice. Optimality is a statement over complete traces, so `paging_opt` has
loads only; whether an access writes does not enter `opt_evict`.

Symmetry is used for nodes and pages, whose values the code never orders. It is
not used in a run with a liveness property.

*a4.* A directory block has four units, each as long as the longest entry: the
fresh root has three entries, so the first new name fills it, the second needs a
new block and, with two direct blocks, a third and a fourth find the parent
full. Nine blocks and a word of seven bits let two allocations pass the word's
end; seven inodes are four free ones, so that the inode table fills as well as
the disk. File sizes are empty, one block, and more than the direct blocks with
one block behind the indirect one; path sizes those whose last piece is too
short and too long. One of the two names has a length that four divides and
fills a unit, the other is its prefix; paths go through the root, a directory of
that name, and lost+found. Five tools are a mkdir, two that work in it, and two
that meet the result; six tools on this image, and five tools on one of
eleven blocks of five units, were explored as well (without `ToolsEnd`) and
change no answer. The real sizes (128 blocks,
32 inodes, 12 direct blocks, 1024 bytes) differ in number only. An image is not
followed further once path or pointer bytes lie where the next tool would search
(`Starts`, section 2).

### Fairness

`FairSpec` has strong fairness of each process's steps inside the module. A
process inside the module runs kernel code that the scheduler resumes, so its
steps are taken if they stay enabled. A step that takes a spinlock is enabled
only while the lock is free, and may be disabled again by another process:
strong fairness says that a process which finds its lock free again and again
gets it, as the kernel's ticket spinlocks guarantee. Nothing is assumed of
processes outside the module: they need not call, exit or come back; nor of a
scan that is torn, which may be endless. A sleeping `kmalloc` wakes only when a
processor is free, whatever the fairness. `EveryCallEnds` therefore excludes two
outcomes and says that there is no third: a process whose scan is torn, and
`Stalled`, in which the one that sleeps holds `my_table_lock` and all processors
spin. A process that faulted in the kernel counts as ended; with its lock taken,
others wait for it only if it faulted under a lock, which needs lists that are
not initialised, and this run starts with the module loaded.
In a4, `WF_vars(Mkdir \/ Cp \/ Ln)`: a process that was started is given the
processor again, and nothing but itself disables its next step; no fairness is
assumed of the shell that starts tools, nor of an interrupt.
`InterceptService` and a3 state no fairness: the first is a safety
specification, the second a sequential program that reads its input when there
is any.

## 4. The proofs

TLAPS checks the theorems below for all values of the constants that satisfy the
`ASSUME` of the component's module (`ConstantsAssumption`: the pids and marker
values differ, `exit_group`'s number is in the table; `MemoryAssumption`: at
least one frame, any number of slots; `TraceAssumption`: for opt, more than one;
`AlgorithmsAssumption`; `NumbersAssumption`, `NamesAssumption`,
`SizesAssumption`, `PathsAssumption`: an image on which mke2fs's own blocks fit,
one block behind the indirect block, paths shorter than a block). No other
assumption is made but one: three theorems about root's table commands are
stated for `OneRoot`, at most one pid that root's processes have, and name it as
their hypothesis. No bound of section 3 enters: any number of processes, nodes,
pages, frames, slots, blocks, inodes, names and tools.

### Interceptor

`TypeCorrect` comes first and every other proof uses it.

`LocksCorrect`, `TableProtected`. `LockDiscipline` says both "code under a lock
runs in its holder" and "who is out of that code has dropped it"; only the two
together survive a step, because an unlock is safe only if the one who does it
is the holder. A lemma per kind of step (control only, lock, unlock, under lock)
carries the argument; the actions then only say which kind they are.

`CountCorrect`, `NodesCorrect`. Neither is inductive. `listcount - 1` is the new
size only if the node was in the list, and in no other; and `init_function`
zeroes the counters while processes already run in the module, which loses
nothing only because a list that is not initialised is empty. The invariant
`Lists` is `CallChecked` (a call past the checks has a valid number) together
with both properties, the emptiness of lists not yet initialised, and which
those are.

`HandlersCorrect`. `SavedBeforeReplaced` needs, besides, that `f` is saved
whenever `intercepted` is set, and on every step between saving and using it
(`Past`), also for a process that was overtaken by another one.

`ExitCleans`. That no list holds the pid when `my_exit_group` drops the lock is
not inductive: it holds from `del_pid` on because START adds only under the lock
that the exiting process holds, and because list 0, which `del_pid` leaves out,
is always empty (the checks let no call name it). `Cleaned` is the two together.

`AuthorisedCorrect` proves the action property `Authorised`. Who is root or
owner is checked at the entry, the table is changed and the node added much
later; the invariant `Callers` says for each label what has been established of
the arguments by then (`Admitted`): which command it runs, that INTERCEPT and
RELEASE are root's, and that past `check_pids_same_owner` the pid is the
caller's to name. It needs no lock, since only the caller changes its arguments;
that the right lock is held comes from `Locking`. Other processes may take over
the pid that was checked at any time; `OwnersStep` says that whoever does leaves
`reused` set for those who checked it, and `Authorised` claims nothing of their
insertions. So the theorem is that this is the only window: a pid is added by
root, by a process of its present owner, or after it changed hands since 493.

Each of these is stated for `Spec` (insmod to rmmod) and for `ServiceSpec`.

`OriginalsReached`, `FlagsCorrect` and `ServiceImplemented` hold for
`ServiceSpec` with one process of root. The hypothesis is needed: with two,
`interceptor_double_intercept` shows `OriginalReachable` violated. The invariant
`Routed` has both properties and what root's command knows at each of its
labels: before it sets the handler the flag is as it was tested, and the saved
pointer is the original one; after it the table holds what it set. By `Alone` no
other process is at such a label, so only its own steps can disturb this.
`ServiceImplemented` is the refinement: every step is one of Ask, CarryOut,
Refuse, Confirm or Leave of the same client, or shows the client nothing. A
request is carried out where the handler is set; EBUSY and EINVAL are given on
the flag, outside every lock, and are justified because by `RootSees` the flag
then equals what the table holds.

### Paging

`MemoryInv` is type correctness with the four parts proved as
`MappingCorrect`, `SlotsCorrect`, `AddressesCorrect` and `CleanCorrect`. None is
inductive alone: that a frame holds its page's address depends on no other page
mapping the frame, that a slot holds it on no other page having the slot, and
that a clean page may be dropped on both. `CountersCorrect` adds the cardinality
of the frames in use, `AssertionCorrect` that an invalid slot in an entry marked
ONSWAP comes only from a complaint.

`StoreCorrect` is the refinement `MemorySpec => PageStore`: the initial states
agree, a hit touches its page, a miss touches its page and forgets at most the
victim, and dying changes nothing. Forgetting is exactly a victim that was clean
(and lost its bit) or whose write failed.

`AlgorithmsImplementMemory` shows that `PageReplacement` implements
`MemorySpec`, so that all the theorems above hold under rand, lru, fifo and
clock; `PolicyTypeCorrect` adds that the index of fifo and the hand of clock
stay in `coremap` for every number of frames.

`LruCountsCorrect`. That the counts add up to the references needs that the
search of `lru_ref` finds its page, which is `CoremapMatchesPageTable`, and what
one more in one place does to a sum over the frames. The sum is a recursive
function; that there is one, and that adding one raises it by one, is proved by
induction on the number of frames.

`FifoCorrect`. `Queued` says what `FifoIsAQueue` does, and also that until the
first eviction the frames in use are the first ones, as many as the queue is
long: `FirstFree` and `Append` then agree, and an eviction turns both the ring
and the queue by one.

`ClockCorrect`. The invariant `Aging` weighs, for each page in memory, the
evictions it sat through against the way the hand still has to go to it: less
than a round together if it has the REF bit, less than two if not. When the hand
passes over a page it takes the bit and the page loses at most what it gains;
that the page under the hand is always the one just loaded is why the sum is
never exceeded by one.

`OptImplementsMemory` and `ListLasts` hold on any trace; the second counts the
headers read. `OptCorrect` is Belady's theorem for opt.c. `Fewest` is a function
defined from the last line backwards; `FewestAt` shows that its definition has a
solution, and then, by induction from the end of the trace, for all sets of
pages that fit in memory: it is a number, more pages in memory never cost a miss
(`Monotone`), one page less costs at most one (`OneMore`), and of two pages the
one used sooner is the one to keep (`Exchange`). Each of the three is needed for
the next. `LastUsedIsBest` then says that a victim whose next use is last, or
that has none, attains the minimum; `VictimUsedLast` that `opt_evict` returns
such a frame, because without headers the list's head is the line being replayed
and the frames hold the addresses of their pages; and `Optimal`, the property
itself, is inductive together with `MemoryInv` and `ListInv`.

The library's induction theorems take operators, which the provers cannot
instantiate. `Induction` in `VirtualMemoryProofs` is the same for sets: a set of
numbers with 0, and with n + 1 whenever it has n, has them all; it rests on
`WFMin` of the library.

### Ext2 tools

`Ext2TypeCorrect` says a little more than that variables have types: no tool
ever stores a number as a block, or as the inode of an entry, that names none,
even where the code computes one (a first free bit of -1, a list of freed blocks
with numbers that were not assigned). It makes no claim for the bytes of paths
and pointers that land in directories, which may read as any inode. One lemma
for each way in which a step ends, then one for each action.

`MetadataOutlivesTools` proves `MetadataKept`. That the bits of the metadata
stay set is not inductive: rm clears the bits of whatever an inode lists. The
invariant `KeptInv` adds what protects them: no `i_block` holds a number of the
metadata, not even one that a freed inode leaves behind, and new inodes none of
the fresh directories (`SafeTable`); what rm takes for a file, an entry of type
regular or link, never names one of the reserved inodes, in no block of the disk
(`SafeContent`); a tool that has an inode of its own has a new one (`SafeTool`).
That a path is written over at most the places of `i_block` is
`PathsAssumption`, which TLC evaluates. The content of the metadata is `System`
because the boot block, where a full directory's add would append, has a
`rec_len` of 0 until a path lies in it, and padding runs only from a block that
is appended to. All holds as long as `damage` has neither *overrun* nor *junk*;
the property exempts *spilled* as well, since what the boot block reads as with
a path in it is not modelled. And `DamageStays` says that damage is never
forgotten. TLC agreed that `KeptInv` is an invariant of `ext2_tools` before it
was proved.

`DirectoriesStayWhole` proves `ChainsWhole`. A new inode keeps the block numbers
of the old one, which may be another's by now; but a directory is known by its
first entry `.`, and that makes the proof one about all blocks, which needs no
ownership. The invariant `ChainInv`
says that every block that starts with `.`, in use or not, is whole
(`WholeContent`), and with it every later block of a directory (`WholeDirs`).
Three facts protect them from what is written: the block that a tool chose when
it started still has room when the entry is appended at the end (`RoomStays`);
a new inode is a file or a link, or has one block (`OwnInode`); and the boot
block, which a full directory is reported as, holds zeros, so that the search
for its last entry spins and nothing is written there. TLC found no state of
`ext2_tools` that violates `ChainInv`.

Who owns which block is the invariant `OwnInv` of `Ext2OwnershipProofs`. The
owners are the named inodes, the directories, root, and the inode that a tool
has finished and is about to name. `Image` says of them: each is allocated, of a
known mode, its blocks are marked and none is metadata (`OwnerSound`); no two
share a block but the last of lost+found (`Apart`); a block that starts with `.`
is the first one of an allocated directory of that number (`DotsOwned`); entries
have the file type of their inode (`Agreed`); and what a free inode holds behind
`i_block[0]` is zero (`FreeClean`), which is why a reused inode of one block
does not bring back another's blocks. The tools add what they know at each step:
`NewSound`, that an inode being written is nobody's yet; `PointersApart`, that
the indirect block is the file's own; `ParentSound`, that the parent is still a
directory and the chosen block its own. `FitsInv` bounds every chain on the disk
by the units of its block, without any exclusion. `Counted` is `FreeCounts`
itself. None of these is inductive without the others, and all of them hold as
long as `damage` has neither *overrun* nor *dangling* (after *spilled* too, but
only because `Text` lists no inode, so the properties exempt that as well); that
*junk* cannot happen before those two is part of the invariant. TLC checked it
with the configuration of `ext2_tools` before it was proved. From it follow
`CountersAgree` (`FreeCounts`), `NoBlockIsShared` (`BlocksOwned`) and
`EntriesMatchInodes` (`EntriesAgree`).

`OnlyFullDirectoriesHang` proves `HangsExplained` from `OwnInv` and `ChainInv`
together: on an image without damage no scan of a directory meets a `rec_len` of
zero, every path leads to a directory, and the parent that had no room when the
tool started has none when it hangs, because nothing else writes into its
blocks (`HangFacts`).

`Ext2NamesProofs` is about what the directories name. `Healthy` is `OwnInv` and
`ChainInv` on an image with none of *overrun*, *padded*, *dangling* and
*spilled*. There every step is one of nine kinds (`StepKind`): a tool ends,
begins, takes an inode, works on it, makes the first block of a directory,
appends an entry, adds a block with one to its directory, removes an entry, or
nothing changes. The rest of the proofs go through the kinds, each of which says
what happens to the directories (`Stays`, `Gains`, `Edits`) and with that to
`Uses(i)`, the places that name inode i: an added entry is one more place of its
inode (`UsedOnce`); after a removal a map from new places to old ones
(`Source`), one to one, shows that the other inodes keep the number of theirs.
`NamesInv` adds, for images without the damage that each part does not survive:

- `ToolFacts`: cp's inode has no name yet and one link, that of ln has a name;
- `LinksRight` and `LossesRight`, which are `LinksCounted` and `UnnamedAreLost`.
  Without *reused* no block that is handed out takes names with it;
- `AllEnded`, `NotYet`, `Distinct`: names of a length that four does not divide
  end in a zero in entries of type file or directory, so that cp's comparison,
  the narrowest, cannot miss them; the directory that mkdir or cp chose did not
  have the name when it was searched, and still does not, while for ln, and for
  cp of a symbolic link's name, this is what the absence of *twin* says
  (`NewName`); no directory has a name twice.

From it follow `LinkCountsCorrect`, `NamesAreUnique` and `OnlyEndsLoseInodes`.
`OneEntryAtATime` proves the action property `OneEntryChanges`, for ln as for
the others, for each kind of step: a directory but lost+found has only blocks
that are marked, so a block that is handed out was none of its own, and by
`Apart` a removed entry was in one directory only. TLC checked `NamesInv` with
the configuration of `ext2_tools` before it was proved.

### Only model-checked

`EveryCallEnds` of `interceptor_one_root` and `ToolsEnd` of `ext2_tools`:
liveness under fairness is out of the prover's reach. Every other property of a
passing run has a theorem.

## 5. What the checks found

1. **Two intercepts at once** (`interceptor_double_intercept`). `intercepted` is
   tested at interceptor.c:363 before the locks and set at 381 after them. Two
   processes of root both pass; the second saves `interceptor` as the original
   handler, and a call then loops in `interceptor`. The comment at 346 asks to
   save the original.
2. **Exit during START** (`interceptor_exit_race`). The pid is checked at 412 and
   added at 428 or 447; a process that exits in between stays listed, and its pid's
   next owner is monitored. The comment at 236-239 promises its removal from
   all lists.
3. **Unload** (`interceptor_unload`). `exit_function` does not restore the system
   calls that are still intercepted, although 631 asks for it; the table then
   points into freed memory.
4. **A forgotten page** (`paging_forgets`). Bringing a page in clears ONSWAP
   (pagetable.c:187); if it is then evicted clean, nothing sets it again, and the
   next reference takes the page for a new one and zeroes it (173), against the
   comment at 137-142.
5. **LRU** (`paging_lru`). `lru_evict` returns the frame with the fewest
   references so far, not the least recently used; lru.c:16 says "accurate LRU".

6. **The ext2 tools.** `damage` names what they do to an image; the run
   `ext2_tools` shows that there is nothing else. Each kind but *reused* is
   reached in it:
   - *overrun*: `1 << n` marks a bit of the first word, so that the blocks from
     32 on are marked as others and handed out again (ext2_mkdir.c:370).
   - *padded*: `strncpy` pads a name to 255 bytes; near the end of a block the
     zeros run into the next block (190), and a directory there is scanned for
     ever.
   - *dangling*: rm frees the inode of a file that has another name (ext2_rm.c:290).
   - *spilled*: the copying loop of a path or of pointers writes into blocks that
     were not allocated for it (ext2_ln.c:264, ext2_cp.c:405).
   - *junk*: rm frees block 0 or a number that was never assigned (ext2_rm.c:275);
     only on an image with *overrun* or *dangling*, as the invariant of section 4
     shows.
   - *reused*: mke2fs's bit i stands for block i + 1, the tools take it for block i,
     so the last block of lost+found is free to them. If it holds entries when it
     is handed out as a block of another directory, they are overwritten
     (ext2_mkdir.c:355). With the sizes of the run that takes six tools, one more
     than it allows; the kind was met in a proof and then found by simulating
     longer runs.
   - *twin*: `ln` asks that the new name exists, and then adds it again
     (ext2_ln.c:902, where a prefix of it or a nameless entry will do as well); cp
     passes over a symbolic link of the name it makes (ext2_cp.c:785).

   Besides, the first mkdir on a fresh image takes the last block of lost+found;
   cp of a file that is not empty is killed by its first byte, with inode and
   blocks allocated; cp into an existing directory never ends; an add to a full
   directory searches the boot block for ever; a second rm of the first entry of
   a block works on inode -1 and crashes.

Other differences met while modelling, which no run reports:

- STOP for a pid that is not in the list answers ENOMEM (464, 538), where the
  comment at 329 says EINVAL.
- INTERCEPT and RELEASE also check the pid argument after they took effect, and
  may answer EINVAL for a command that was carried out (`Confirm` in
  `InterceptService` allows for it).
- START for all pids, when some pid is monitored, adds pid 0 to the list and
  leaves `monitored` at 1.
- When the swap file is full, a dirty page is marked ONSWAP with no slot; the
  next reference to it ends in the assertion of `swap_pagein` (swap.c:193).
  `NoSilentAssertion` shows that a message always precedes it.
- With lines that start with '=' in the trace, the list of `opt_init` runs behind
  the trace and OPT is no longer optimal; `OptIsOptimal` is stated for traces
  without them.
- A slot is never freed, not even that of a page that was forgotten; the page's
  next eviction reuses its own slot.

## 6. What is not modelled

*a1.* A process that dies without calling `exit_group`, or that changes its own uid
(`setuid`); command numbers
other than the four; stores that other processors see out of order. System call
bodies and the log are outside the module's state.

*a3.* The split of an address into directory and table index; the words of the
bitmap and its leftover bits, `bitmap_mark`, `bitmap_unmark` and
`bitmap_isset` (nothing calls the last three); OPT with one frame (its index may
be used uninitialised, opt.c:31) and without `-f` (an uninitialised FILE
pointer); argument parsing and printing.

*a4.* `ext2_checker.c` does not compile (`bg_Free_inodes_count`, 181, is no field
of the group descriptor), so it has no behaviour; `FreeCounts` and
`EntriesAgree` state what it was to repair. `ext2_restore.c` does nothing, and
`src/a4/backups.c` is compiled by no build file. Of the tools: the bytes of
files, times, owners and sizes; files with two or more blocks behind the
indirect block (the loop only repeats); paths as long as a block; an image that
two tools change at once; what a tool makes of bytes of paths or pointers in a
directory or the boot block (section 2); a kill by a signal in the middle of a
step. Error paths that the order of the checks makes unreachable (no block left
after the space was checked) are in the model as the code has them, and are
never taken. The list of a removed file with more than 12 blocks is an array on
the stack that is written one place too far; the model frees an arbitrary number
there and does not model what else the write changes.

*te.* Pure output.

## 7. Plan

In order of what a team would want to know next. Each module with a theorem
stays free of RECURSIVE operators, takes its sizes as CONSTANTS with a named
assumption, and has one action per operation.

1. **`SwapBitmap`** (a3): swap.c's words and leftover bits against a set of
   slots; the set is what `VirtualMemory` uses.
2. **`FileTree`** (a4): an abstract tree of names that `Ext2Tools` implements
   while `damage` is empty. `OneEntryChanges` and `LinksCounted` say most of what
   it would.

A run is added only for a new question; an a4 finding with a run of its own
would take the place of `paging_lru`.
