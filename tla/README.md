# A TLA+ model of agnova

agnova is the installer of AGNOS. It turns a configuration into a *plan* (phases
of operations), and on request carries the plan out: it partitions a disk, makes
file systems, unpacks the base system, writes the configuration and installs a
boot loader. It does so with the tools of a Linux host (the *shell* backend) or
with writers of its own for GPT, FAT32 and ext2 (the *native* backends).

This directory holds TLA+ modules of the parts whose correctness depends on the
order of many steps, configurations for TLC, and proofs for TLAPS. Paths below
are relative to the repository; its code is in `src/`.

The installer was ported to Cyrius (`src/*.cyr`) from a Rust library, which the
repository keeps in `rust-old/src/`. The library plans, validates and keeps the
record of an installation; it was written to be driven by a client program. Both
are modelled, and the port is compared with what it was ported from.

## 1. The system

| Part | Source | State | Operations |
|---|---|---|---|
| Command line | `cli.cyr`, `main.cyr` | flags | `plan`, `validate`, `execute`; makes the configuration, chooses the backend and the plan |
| Validation | `validation.cyr` | none | `validate_config`: a configuration is refused or accepted |
| Planners | `partitioning.cyr`, `rootfs.cyr`, `disk_plan.cyr` | none | one `plan_*_ops` for each phase; `full_execution_plan`, `plan_native_disk_ops` |
| Orchestrator | `orchestrator.cyr` | current phase, completed phases, errors, log | `agnova_set_phase`, `agnova_fail_phase`, `agnova_advance_phase` (tests only), `agnova_result` |
| Executor | `executor.cyr` | position in the plan | `execute_all`, `execute_phase`, `execute_op`; `_exec_*` for each kind of operation |
| Native backend | `disk_backend.cyr` | target device, source paths | `native_partition`, `native_format`, `native_stage`, `native_ext2_*` |
| GPT writer | `diskfmt.cyr` | sector buffers | build and write MBR, headers, entries; verify |
| FAT32 writer | `diskfmt.cyr` | next free cluster, directory buffers | `df_format_esp`, `df_stage_file` |
| ext2 writer | `diskfmt.cyr` | geometry, next inode and block, free counts in all and by group, scratch buffers; the disk | `df_format_ext2`, `_stage`, `_write_mem`, `_mkdir_p`, `_symlink_p`, `_untar` |
| Helpers, types | `helpers.cyr`, `types.cyr` | none | text of `fstab` and the like; operation and phase kinds |
| Rust planners | `rust-old/src/partitioning.rs`, `rootfs.rs`, `helpers.rs` | none | one `plan_*_ops` for each phase, `full_execution_plan` |
| Rust validation | `rust-old/src/validation.rs` | none | `validate_config` |
| AgnovaInstaller | `rust-old/src/lib.rs`, `types.rs` | phase, completed phases, errors | `new`, `advance_phase`, `fail_phase`, `is_complete`, `result`, `kernel_cmdline` |

How they interact. `_cmd_execute` validates the configuration, asks the planners
for a plan and hands it to `execute_all`, which for each entry sets the
orchestrator's phase and runs the operations in order. `execute_op` passes an
operation to a host command, a system call or a native writer. The parts share
three things: the plan (fixed once made), the orchestrator's record, and the
disk. All of it is one process with no threads. What is hard is not concurrency
but *where a run may stop and what it leaves*, *what earlier steps make of later
ones*, and *bounds*:

- any operation may fail, before or after it has had its effect, and the process
  may be killed between any two block writes; nothing is journalled and nothing
  is rolled back;
- the plan is written by independent planners that must agree on what exists,
  what is mounted and what is in use when an operation's turn comes;
- the ext2 writer keeps its counters in memory and copies of them in every block
  group on disk, grows in one direction, has directories of one block and files
  of three levels of pointers;
- `--until` cuts a plan at a phase; plans differ between backends;
- a table has two copies and an array each, a FAT volume two FATs and two counts,
  written one after the other over what an earlier run may have left half done;
- the Rust library keeps a record that a client it does not know updates, in an
  order that failures decide, and hands out plans whose operations agree on
  devices, labels and ranges only because every planner applies the same rules.

What makes each part correct:

- *ext2 writer*: a block has one owner; what a name leads to was written before
  the name; bitmaps and counters err only on the safe side, at every write, and
  are exact between requests; published files do not change; nothing is written
  outside the partition; a request ends.
- *planners and executor*: each operation is possible when its turn comes; what
  is installed lands on the file system it belongs to; success is reported only
  for a system that can boot; a failure is attributed to its phase and stops the
  run; the run stops where it was told to.
- *GPT and FAT writers*: at every write a reader finds the old or the new table;
  what is written later leaves it alone; every name leads over a complete chain to
  what the file has; FATs and counts lag by the write in progress and no more.
- *validation*: the port answers what the library it replaces answers; whatever is
  accepted has disjoint ranges, an `fstab` of what is mounted, and a `root=` that
  exists.
- *AgnovaInstaller*: the completed phases are those before the current one; a
  failure belongs to one phase; one that is final ends the installation whatever
  the client does; success is reported only for a system that is installed.
- *process handling*: the result of an operation is its command's result.

`PROJECT.json` lists the parts with what is modelled of each, and the hazards of
this code at their lines, with the properties that cover them.

## 2. Modules

| Module | What it is |
|---|---|
| `Ext2Format` | the arithmetic of `df_format_ext2`: sectors to geometry, with the sizes of the code |
| `Ext2Layout` | where the ext2 writer keeps what: groups, metadata heads, inode tables, descriptors |
| `Ext2Writer` | the ext2 writer, one block write a step |
| `Ext2WriterProps` | its type invariant and properties |
| `Ext2Writer_proofs`, `Ext2Clean_proofs` | theorems about these, the second on the first |
| `MCExt2` | small request sets for TLC |
| `Gpt` | the table writer: MBR, headers, arrays, the order of their writes; a reader |
| `FatEsp` | the FAT32 writer: the writes of `df_format_esp` and `df_stage_file` in their order |
| `NativeBoot` | a native install over a disk, one write a step, stopped anywhere and run again |
| `NativeBootProps`, `NativeBoot_proofs`, `NativeEsp_proofs`, `MCNativeBoot` | its properties, theorems about the table and, on these, about the ESP's contents, and a disk for TLC |
| `InstallPlan`, `InstallPlan_proofs` | the port's planners for both backends: configuration to plan; lemmas about the lists they make and the commands they use |
| `Installer` | executor, orchestrator and the machine a plan changes |
| `InstallerProps`, `Installer_proofs`, `MCInstaller` | properties of a run, theorems, configurations for TLC |
| `RsTypes` | the Rust library's configuration, defaults, phases and operations |
| `RsPlan` | its planners, with the arguments that must agree |
| `RsValidation`, `Validation` | `validate_config` of the library and of the port |
| `Ladder` | an abstract record of an installation |
| `RsInstaller` | AgnovaInstaller, driven by clients that carry a plan out |
| `RsInstallerProps`, `MCRs` | its properties; configurations and clients for TLC |
| `RsInstaller_proofs`, `RsRun_proofs` | theorems about its record, verdicts and plans; about what a client's run leaves on the machine, with those of `Installer_proofs` |

`Ext2Writer` extends `Ext2Layout`, `Installer` extends `InstallPlan`. `Installer`
has the native writers' operations as single steps (with failure before or after
the effect); `Ext2Writer` and `NativeBoot` (which extends `FatEsp` and `Gpt`) are
what these steps look like from inside. `RsInstaller` composes the Rust library
with the machine of `Installer` (`INSTANCE InstallerProps` with the library's
configuration put in the port's terms, `Ported`), so that what a plan does to a
machine is said once. `Ext2Format` instantiates `Ext2Layout` with what mkfs makes
of a partition.

### Ext2Layout and Ext2Writer

The constants are the sizes in the code (32768 blocks and 8192 inodes a group, 12
direct pointers, 1024 pointers a block, ...), so that TLC can use small ones and
the proofs hold for all. The assumptions are what `df_format_ext2` establishes
before it keeps a geometry: whole blocks of inodes, a descriptor for every group,
the reserved inodes in group 0 (`LayoutFits`), and a tail group no smaller than
its metadata, since a smaller one is dropped (`LayoutTail`). That it does establish
them, for every size of partition it accepts, is a theorem about `Ext2Format`.

`Init` is the state `df_format_ext2` leaves: the root and `lost+found`. A behaviour
is a sequence of requests. A request (`Begin`) is a file, a symlink or a directory
with a path, from a planner (`via |-> "api"`) or from an archive (`"tar"`); the
two differ in what they check of the path and the target.

| Code | Actions |
|---|---|
| `df_ext2_resolve` | `Descend` for each component (enter or make), `Stray` when the parent is no directory |
| the callers' ends | `NameRoot`, `LastDir`, `LastLeaf` |
| `df_ext2_alloc_inode`, `df_ext2_alloc_block` | `AllocInode`, `AllocBlock`, `NoBlockLeft` |
| `df_ext2_add_file_sz` | `Put` with `PutDirect`, `PutSingle`, `PutSingleRoot`, `PutDouble`, `PutInner`, `PutDoubleRoot`; `WriteInode` |
| `df_ext2_mkdir` | `AllocInode`, `AllocBlock`, `PutDirBlock`, `WriteInode`, `Link`, `CountParent` |
| `df_ext2_add_symlink` | `AllocInode`, `WriteInode`, `Link` |
| `df_ext2_link_dirent` | `Link` |
| `df_ext2_flush_meta` | `FlushSuper`, `FlushGdt`, for each group |
| a failed write, a killed process | `Stop` at any point |

The memory of the code (`next_ino`, `next_block`, the counters `gfb`, `gfi`, `gud`)
and the disk are separate variables: `bbmp` and `ibmp` are the bitmaps, `inodes`
the inode tables, `ptr` the pointer blocks, `ents` the directory blocks, `body` the
blocks with data, `sb[c]` and `gdt[c]` the superblock and descriptors as copy `c`
has them. `trampled` is a history variable: blocks written behind the end. Since a
step is a block write, *every reachable state is a disk that a stopped run can
leave*; invariants that hold in all states are crash invariants.

Data is abstracted to what the properties tell apart: a file is a number of blocks;
an inode has the set of blocks in its array, a pointer block the set of blocks it
lists; a directory block is a sequence of entries with a capacity in entries
instead of bytes; names are not spelt. Times, modes, owners and labels are out.

### InstallPlan and Installer

`InstallPlan` translates each planner to a function from a configuration to a
sequence of operations. An operation keeps what others depend on: the command, the
partition it is for, what it puts at which path below the target root, and whether
its failure is fatal. The planners' own order is kept, ties of their sorts
included.

`Installer` carries a plan out. `Enter`, `Leave` and `Finish` are the loop of
`execute_all`; `OpSucceeds`, `OpFails` and `OpFailsLate` the loop of `execute_phase`
with an operation that succeeds, fails with no effect, and fails after its effect
(a command that did its work and returned an error, a crash of a child). `Possible`
is what the machine refuses: a partition in use is not formatted, a file system
that is not there is not mounted, a mount point with mounts below it is not
unmounted. `Effect` is what an operation does to the partition table, the contents
of partitions, the mounts and the files. `Possible` and the mount table are the
environment (marked external in the map); everything else is translated.

### Gpt, FatEsp and NativeBoot

A disk is a function from sectors to contents; a content keeps what a reader looks
at (the ranges in an array, the links in a FAT sector, the entries of a directory
cluster, the free count of FSInfo), and a CRC is what it is computed over.
`df_write_gpt`, `df_format_esp` and `df_stage_file` are translated to the sequence
of their writes, each a first sector and its contents; `NativeBoot` makes them one
by one. `Begin` enters an operation of the native plan, after the checks that let
the code return before a write (`Refused`); `MakeWrite` makes a write; `StopIn` is
a write that falls short, at any sector, or a process that ends before it; `End` is
the return, which updates the FAT writer's globals; `Again` runs the installer anew
with any job on the disk as it is, with none of the globals left. `native_format`
reads the ranges back from the disk, and so does the model. What `Ext2Writer`
writes is one write over the root partition here. The reader (`Table`) is external:
primary copy if good, else backup.

### The Rust library

A text is a sequence of classes of characters and words that the code looks for;
limits on lengths are constants. `RsValidation` lists the checks in the order of
the code, so that the head of the list is the answer; `Validation` does so for the
port, on what the port keeps of a configuration. `RsPlan` has for every operation
the command, place and fatality (as in `InstallPlan`) and the argument others must
agree with.

In `RsInstaller` the record is the library's: `advance_phase`, `fail_phase` and
`result` with their early returns. The client is external, there being none in the
repository. It validates, takes the phases in order of `InstallPhase::ALL` and in
each runs the plan's entries of that phase; on a failure it calls `fail_phase`.
A client is a number, that of the failures it puts up with by calling
`advance_phase` all the same, or `Asks`, which only wants the verdict.

`Ladder` is what such a record promises whoever keeps it: rungs are climbed one at
a time, a rung fails once at most, and after a fatal failure neither changes.
`ClimbsLadder` is the refinement: the rung is `index(phase)`, the failed rungs are
those of the recorded errors.

## 3. Runs

`tlc -config X.cfg M`; modules are in `PROJECT.json`. Small sizes are chosen so
that every boundary of the code is crossed:

- *groups*: `Ext2Tree` has 2 groups, a tail group of one data block among them, with 2 GDT blocks each and one descriptor a
  block (both loops of the flush go round twice); inode 5 is in group 1, so that
  three requests cross a group of inodes. `Ext2Files` has 3 groups and a tail
  group with few data blocks; the larger files cross from group to group and run
  out of blocks.
- *file shapes*: with `ND = 1`, `NP = 2` a file may have 7 blocks; sizes 0, 1, 2,
  3, 4, 5 and 8 are empty, direct, single indirect partial and full, double
  indirect with a partial and a full inner block, and too large.
- *directories*: `DirCap = 5` entries fill up within three requests in the root
  (three entries after mkfs, which is why the theorems assume room for three).
- *paths*: three deep, shared prefixes, the root itself, files used as parents.
- *requests*: three a run (`MaxOps`); what a request leaves behind is fully
  described by `CleanWhenIdle`, so that a fourth begins from a state like the ones
  after one, two and three. `Ext2Inodes` uses eight to run out of inodes.

`Install` takes 77 configurations: both backends, each with every phase for
`--until`; an account or none; every boot loader with and without UEFI; every mode;
network and security choices; other partition layouts of the planners' tests;
encryption. Each runs with every operation failing in both ways. A plan is finite
and is walked once: nothing is bounded beyond the set of configurations.

`NativeBoot` has a disk of 50 sectors with a MiB of 5, arrays of 2 sectors, 6 FAT
entries a sector and batches of 4 sectors, so that files have several batches, a
FAT several sectors, and a chain begins and ends inside one. Eight jobs: files that
fit exactly, one cluster too many, one file empty; an ESP too small, one too large
for the disk, none. The disk is blank or has another system and its table. Two runs
(`MaxRuns`): what a run meets is a disk, and two reach every kind a stop leaves.

`RsInstall` asks about every configuration that differs from the default in at most
two fields, with a value for each branch of the checks, under limits of one or two
pieces of text and sums of sizes modulo 2048; it installs some of them with clients
that put up with no failure and with one. The layouts installed have nested mounts,
and also three that are accepted and of little use: the root listed before a file
system below it (the library's clean-up has the tie of `InstallHome`), two partitions
at the root, a swap partition at the root.

| Run | Expect | What it shows |
|---|---|---|
| `Ext2Tree` | pass | `CountersCoverBitmaps`, `OneTornCopyAtMost`: wherever a run stops, no copy of the counters claims too little free space and, while inodes last, all but one are consistent in themselves; `LinksLagByOne`; `SubdirsUnique`; `PublishedStays`: published entries, inodes and pointer blocks do not change; `StaysInside`; `CleanWhenIdle`: between requests e2fsck would find nothing |
| `Ext2Files` | pass | `BlocksOwnedOnce`; `NothingDangles`: a name on disk leads to a marked, complete inode; `CleanWhenIdle` for large files; `RequestsEnd` (liveness) |
| `Install` | pass | `PlanPossible` (but for encryption, and for layouts with the tie of `InstallHome` at the unmounting), `FilesGoHome`, `SuccessMeansInstalled` (of sound layouts), `FailureAttributed`, `HaltedWhereAsked`, `NothingAfterFailure` |
| `NativeBoot` | pass | `OldOrNewTable`: at every write a reader finds the table the run found or the new one, if what it found was backed up; `TableSurvives`, `StaysInPartition`; `NamesWhole`, `LagsByOne`: a name leads to its file by either FAT, FATs and counts lag by the write and the file in progress; `CleanWhenIdle`; `DoneMeansBootable` |
| `RsInstall` | pass | `PortValidatesAlike`, `PortPlansAlike`: the port against the library; `RangesDisjoint`, `FstabMatchesMounts`, `BootsItsRoot`: accepted configurations have plans that agree with themselves; `ClimbsLadder` (refinement), `CompletedIsPrefix`, `ErrorsInOrder`, `NothingAfterFatal`: the record; `PhaseOrderPossible` (but for encryption and the tie at the unmounting), `CarefulGoesHome`, `SuccessMeansInstalled` (of sound layouts): a plan carried out by phases, with any operation failing |
| `Ext2Inodes` | violation | the inode allocator has no bound and writes behind the partition |
| `Ext2Names` | violation | writing an existing path adds a second entry that is never found |
| `Ext2Parents` | violation | a path through a file is walked as if it were a directory |
| `InstallUntil` | violation | `--until configure` halts in the middle of the phase; `--until` with a phase the plan lacks runs everything |
| `InstallHome` | violation | cleanup unmounts `/` before `/home` if the layout lists it first |
| `InstallLuks` | violation | an encrypted plan formats the partition its mapping holds open |
| `RsMounts` | violation | a failed mount counts as recoverable; a client that goes on unpacks into the running system |

The violations are disagreements of the code with its own comments, changelog and
documentation; `PROJECT.json` quotes the lines under "findings".

Why `OldOrNewTable` has a condition: the primary copy is written first. After a run
that stopped in between, the two copies may differ, or the one in front alone be
good; a further run with another layout then has a moment with a table neither old
nor new, or none. A run over a table that is backed up has no such moment.

`InstallUntil` has one property for both ways in which `--until` misses what the
changelog says of it ("stops the install after a named phase"). TLC prints the
shorter trace: `execute_all` compares after each plan entry, and `configure` has two,
so the run halts after the network files with the phase on its list of completed ones
and without locale, machine-id and fstab. A phase that the plan lacks (a native
`--until mount`) matches no entry and the run goes on to the end; its trace comes up
when `c.until # CONFIGURE` is added to the set `Interrupted` of `MCInstaller`.
`HaltedWhereAsked` states what does hold: unless it fails, a run halts if the plan has the
phase and only then, with all of it done for every phase but `configure`.

Noted on the way, with no run of their own: plans let the phase go back (`configure`
after `bootloader`), which `agnova_advance_phase` would refuse but nobody calls it; `validate_config` accepts a swap partition at `/`, and partitions
with equal labels, for which fstab and kernel name more than one device or none
(hence `SwapIsRoot`, `DistinctLabels` and `RootAloneLabelled` in the properties);
packages added to a configuration are counted and never installed
(`rootfs.rs:158`); `root=` names the default label whatever the layout says
(`BootsItsRoot` is stated of layouts whose root alone has that label, and
`RangesDisjoint` of sizes whose sum fits in 64 bits); loop
devices get partition names without a `p` in the Rust library; while an ESP is
formatted the root directory of the new volume is on disk before the directories it
names (the properties of the ESP are stated of a volume whose format is over); a
volume filled to the last cluster has an FSInfo hint just behind it; a file of 4 GiB
or a little more is accepted, with a size that the inode does not hold (`SizesKept`).

Every property of a passing run has a mutant: a definition of the model with a
plausible mistake of the code in it (a bound too short, a buffer not cleared, a
result dropped), under which TLC finds the property violated. The mutated forms
stand before the definitions they replace, with a comment.

Fairness. `RequestsEnd` is checked under `WF_vars(Work)`. One process runs the
writer, no step of it waits for anything but a system call, and `Work` is exactly
the steps the process takes by itself: weak fairness says that a process that is
not killed goes on. `Stop`, `Begin` and `Finish` are not in it: nothing says that a
run is killed, or that another request comes. All other properties are safety and
use no fairness.

`NativeBoot` and `RsInstaller` have loops over finite lists only and state no
liveness: what is hard about them is where they stop.

Deadlock is checked in every run; a run that has ended stutters by an action of its
own (`Over`, `Exited`).

## 4. Theorems

The proofs are for all values of the constants that satisfy the named assumptions:
`LayoutTypes`, `LayoutFits`, `LayoutTail`, `RequestTypes`, `WriterBounds` for the
ext2 writer; `ArrayLength`, `FatSizes`, `DiskSize`, `DiskTypes`, `JobTypes`,
`Bounds` for `NativeBoot`; `ConfigTypes` of `Installer` (the backend, the file
systems and paths of the partitions, and the one layout that a native backend is
given); `Width`, `LimitTypes` and `ConfigTypes` (a configuration has the types of
`types.rs`) for the Rust library. TLC
evaluates the assumptions in every run of a module that has them.

- Of mkfs, at the end of `Ext2Writer_proofs`: `FormatMakesLayout`, every partition that `df_format_ext2`
  accepts gives a geometry with the properties that `Ext2Layout` assumes, with the
  sizes of the code, so that the theorems about the writer hold of it;
  `FormatFillsPartition`, the file system is inside the partition and gives up less
  than 272 blocks of it; `FormatCountsGroups`, what each group's counters start
  with is what mkfs leaves free, and fits 16 bits; `SizesKept`.
- The first part of `Ext2Writer_proofs`: block and inode numbers stay in their groups,
  metadata blocks of a group are inside the file system and are no data blocks, every
  descriptor has its GDT block.
- `Typing`: `Spec => []TypeOK`. The type invariant is not inductive by itself: that
  the block a pointer buffer takes is a data block needs that a block is held while
  it is put, and that a directory request's path is not exhausted when its last
  component is made. `TypeInv` adds what the control point says of the file in
  progress.
- `OwnedOnce`: `Spec => []BlocksOwnedOnce`, by itself inductive once three facts are
  at hand: types; `Writing`, which says what the buffers hold at each control point
  (a block is held only between its allocation and its write; nothing is held when
  no file is in progress); and that the allocator only hands out blocks at or
  beyond `next_block`, so that a new block is no one's.
- `Inside`: `Spec => []StaysInside`. Needs `InodesBelow` (inodes in use are below
  `next_ino`) and the layout lemmas: while inodes last, each block the writer
  touches is in a group, and a group's metadata is in the file system, the tail
  group's too.
- `Published`: `Spec => PublishedStays`. All that is written in place is nameless:
  blocks never handed out hold no entries, nor does the one at hand (`Unwritten`),
  and no entry leads to the inode in progress (`Unnamed`). Both need the invariants
  above: the block at hand is nobody else's, entries are below `next_ino`.
- `NamesLeadToWhole`: `Spec => []NothingDangles`. What a name leads to is complete
  before there is the name. Inodes that were not handed out are blank and used ones
  marked (`InodesReady`); the blocks of inodes, of pointer blocks and in the buffers
  hold data or pointers (`BlocksBacked`, `BuffersBacked`); a directory in progress has
  its dots before its inode is written (`DirInProgress`); directories on disk keep
  their dots and entries of the kind of their inode (`Directories`).
- `SubdirsStayUnique`: `Spec => []SubdirsUnique`. The name that was looked up in vain is
  still missing from the directory when it is linked there (`NewName`).
- `LinksLag`: `Spec => []LinksLagByOne`. Counts are exact but for the parent's, between
  the entry of a new subdirectory and the parent's inode, or where a request failed in
  between (`LinksCounted`).
- `CleanAlways`, `CountersCover`, `OneTornAtMost`: `Spec => []CleanWhenIdle`,
  `Spec => []CountersCoverBitmaps`, `Spec => []OneTornCopyAtMost`, from one inductive
  invariant, `Clean`. To what the theorems above need it adds
  - of the blocks (`Blocked`): pointer blocks list data blocks and no block is lost, a
    marked one is metadata, padding, reached from an inode or from what the writer
    still holds (`Accounted`); that the buffers are empty when the inode is written
    needs to know what they hold at each logical block number (`BuffersFit`);
  - of the names (`NamedWell`): an inode has one name, in an older directory, but for
    the one about to be linked; the `..` of a directory is the one that names it;
  - of the counters in memory (`Counted`): they are what the bitmaps and the inode
    table say, but for a directory still to be counted;
  - of the copies (`Copied`): how far the flush has come (`Flushed`); no copy claims
    less than the bitmaps show, as bits are only ever set; every copy but the one being
    written tells of one moment, some sets of free blocks and inodes.

  `MapThenSumSet` is a recursive function, chosen. What its value is needs no induction
  over data: sizes of unions of disjoint sets satisfy its recursion, and any two
  functions that do are the same, by a smallest subset on which they differ
  (`SumIs`). With it the sum of the groups' counts is the superblock's, and mkfs's
  first counts are right (`FreshGroups`, `FreshBlocks`).
- `Attributed` and `Still`: `Spec => []FailureAttributed` and
  `Spec => NothingAfterFailure`, for every set of configurations and with no
  assumption: what the planners make of a configuration and what the machine does
  are left open. `FailureAttributed` is not inductive: that an error bears the phase
  of its entry needs that the orchestrator's phase is the entry's as soon as the
  entry has been entered (`Position`), and that the lists are what they should be
  while the run goes on (`Record`). `Walk` is both; it does not mention the machine.
- `HaltsWhereAsked`: `Spec => []HaltedWhereAsked`. Needs that a plan is a list, with or
  without the account's entry, in which every phase but `CONFIGURE` occurs once
  (`PlanListed`, `Once`), and that no entry left behind is of the phase asked for
  (`NotAskedYet`), which the run compares with the orchestrator's phase. The
  exception is no weakness of the proof: `InstallUntil` refutes the statement without it.
- `RunTypes`, `FilesAlwaysHome`, `SuccessIsEarned`: `Spec => []TypeOK`,
  `Spec => []FilesGoHome`, `Spec => []SuccessMeansInstalled`, for every layout and
  whatever fails. What the machine has is known from what the executor has behind it
  (`Ran`): `Kept` says that each operation that must not fail and ran still has its
  effect, because no later operation of the plan takes it back (`Takes`, `Stays`, by
  what precedes what in a plan); `MountsInOrder` that only what a mount of the plan
  mounted is mounted, and in the order of the depths. So when a file
  is put somewhere every file system above its path is mounted, and the last one
  mounted is the deepest, the one the path belongs to (`PutsHome`); a mount point is
  made when exactly the file systems above it are mounted (`MountsPlanned`,
  `MountedSoFar`). A run that is complete has run all of its plan, and for each part of
  `Installed` some operation that must not fail puts it there (`EndsInstalled`).
  `FilesGoHome` and `SuccessMeansInstalled` are of sound layouts (`SoundLayout`): a file
  system at the root and no two at one mount point. `validate_config` asks for less, a
  partition at the root, which may be a swap partition or one of two; such a layout has
  no partition, or no one partition, that a path belongs to.
- `NextIsPossible`: `Spec => []PlanPossible`, for every layout and whatever has failed
  before. It is the other side of `Kept`: what an operation needs is made by one that
  comes before it, in an earlier entry or in the same one (`Turns`, of each planner:
  partitions are made by number, their flags set behind that, mount points made right
  before the mounts, file systems unmounted by slashes). And nothing is there that must
  not be: `TableMade`, a partition exists only if its operation ran, and no mapping is
  open; `MountsStay`, what was mounted is mounted until its own unmount ran; `PutsStay`,
  what was put behind the mounts would still be put into the same volume, because the
  mounts do not change before the clean-up. For the unmounts, `InsideOut`: of two file
  systems one of which is mounted inside the other, the one inside comes later in the
  order of `mount_depth` and earlier in that of `plan_cleanup`. This needs the condition
  `Unmountable`: `plan_cleanup` takes `/` for as deep as `/home`, so a root listed in
  front of such a partition is unmounted first, which is the finding of `InstallHome`.
  With encryption the property is false (`InstallLuks`).
- `CompletedPrefix`, `FailuresInOrder`, `FatalIsFinal`, `ImplementsLadder`: the record
  of AgnovaInstaller, for every configuration, plan and client. `NothingAfterFatal`
  needs that a failure that is not recoverable is one of the current phase, so that the
  record cannot have left it; that no phase fails twice needs that a client carries out
  operations of the current phase only, and only as long as that has not failed.
  `RecInv` is the record (`Record`) and what
  the client is about (`Client`); the refinement maps a step to a climb, a stumble
  or a stutter with it.
- `VerdictsAlike`: `Spec => []PortValidatesAlike`, for every configuration: the checks
  of the two programs one by one, then that lists of refusals with the same first one,
  put together, have the same first one (`SameHeadJoined`), over loops too
  (`ParamsAlike`, `LabelsAlike`, `GroupsAlike`). Where the port makes one check of two,
  or checks a missing field as an empty one, that is a lemma (`FullNamesAlike`,
  `OptionIs`).
- `PlansAlike`: `Spec => []PortPlansAlike`, for every configuration. Each of the
  thirteen planners makes the operations its port makes (`PartitionAlike` ...
  `CleanupAlike`, all of the form `Makes`). Loops are concatenations that
  `FlattenSeq` makes, the mounts and unmounts a stable sort. Both need
  `InstallPlan_proofs`: what `FlattenSeq` does to a list one longer
  (`FlattenAppend`), by a least index at which two functions with its recursion
  differ; induction on lists, by a shortest list without the property
  (`ListInduction`); doing the same to each element commutes with joining
  (`FlattenMapped`); a sort exists (`SortExists`), has every item once (`SortIsOnto`)
  and is the only one (`SortIsOnly`), so that two planners that sort by equal keys
  agree.
- `FstabLeadsHome`: `Spec => []FstabMatchesMounts`, `BootsRoot`:
  `Spec => []BootsItsRoot`, `RangesApart`: `Spec => []RangesDisjoint`, for every
  configuration. They look arguments up in the plan, by command and partition, so all
  three need that a command is used by one planner only and once for a partition: the
  port's planners are gone through once (`Uses`, of `InstallPlan_proofs`: which
  commands, and that those about partitions are about partitions of the layout), and
  what the library's planners make is what the port's make (`PlansAlike`'s lemmas), so
  an operation with a given command comes from one planner (`Origins`), whose loop says
  what its argument is (`FormatArg`, `PartitionArg`, `MountArg`, `FstabArg`). For the
  ranges, the sum that wraps at 2^64 and the sum that does not are both folds;
  `MapThenFoldSet` under `FoldLeft` is a chosen recursive function again
  (`WrapsExist`, `TotalsExist`), and while the last plain sum is below 2^64 none of the
  wrapping ones has wrapped (`NothingWraps`). `validate_config` is what makes only the
  last partition fill the disk.
- `FatCoversClusters`, `WritesStayHome`, `TableOutlivesTheRest`, `OldOrNew`: for every
  disk, job and number of runs, with every write cut short anywhere. The invariant
  (`Inv`) says of each operation what is laid already (`Laid(k)`: the first `k` writes
  of the table are on disk), what is left (`Left(k)`, `Confined`), and once there is a
  volume that it is the partition's (`VolumeIn`). For the table in the middle of its
  writes, `Readable` says what a reader finds after each of them: the old table as
  long as the backup is untouched, the new one from the moment its array is there.

- `NamesLeadToFiles`, `FatsLagByOne`, `CleanBetween`, `DoneIsBootable`, `Typed`, of
  `NativeEsp_proofs`: what is on the ESP, at every write, for every disk, ESP and pair
  of files. The ESP's properties are about the contents of single sectors, the
  program's state is a list of writes still to be made; `EspInv` joins the two. The
  disk is what the writes made so far make of the disk before the operation (`Made`,
  `Rest`, `OnTheWay`); the writes of a format and of a file are known one by one
  (`FormatShape`, `StageShape`), hence every sector of the FATs, the directories and
  FSInfo, between two files (`Shows`) and after any number of writes of one (`Under`).
  The operations done give the next free cluster (`EspAt`), and that the last file
  fits is what the code checks before its first write (`FilesThere`). For the types,
  every write has a kind and a filling (`Kinds`, `Filled`), and what the volume shows
  (`Shows`, `Under`) has FATs that link inside it, an FSInfo that fits it and proper
  directories (`ShownFits`, `StagingFits`).

- `ClientTypes`, `PhasesPossible`, `CarefulHome`, `SuccessIsEarned`, of `RsRun_proofs`:
  `Spec => []TypeOK`, `Spec => []PhaseOrderPossible`, `Spec => []CarefulGoesHome`,
  `Spec => []SuccessMeansInstalled` of `RsInstallerProps`, for every configuration and
  every client. Nothing about the machine is proved twice. The lemmas behind
  `RunTypes`, `FilesAlwaysHome`, `SuccessIsEarned` and `NextIsPossible` of
  `Installer_proofs` are about any executor whose steps are those of `Acts` (an
  operation done or skipped, a run broken off over one, another entry, a stop) and
  whose plan has the properties that the planners are shown to give it. A client of
  the library is one as long as no failure is on record, of another plan: the port's,
  with the phases in the order of `InstallPhase::ALL` (`RunPlan`), which has the same
  properties (`TurnedPlan`, of `InstallPlan_proofs`: what a later entry needs still
  comes before it). `RsRun_proofs` instantiates `Installer_proofs` with that plan,
  with the client's entry as the position in it (`Pos`), and with a failure as its end
  (`Stat`), and shows that the client takes the entries of the plan in that order, all
  of them, by the numbers of their phases (`EntryNumber`, `FirstIs`, `LaterIs`,
  `ProceedGoes`), so that each of its steps is one of `Acts` (`ClientActs`). Behind a
  failure the executor is over and only the types are kept. `Stand` is what the client
  needs beyond `RecInv`: it is without an entry only before the first phase and behind
  the last, unless it has passed over a failure, and one that puts up with none has
  stopped. `RunInv` is all of this; `Over` carries what a run that came to its end has
  installed (`Comes`) past the end, `Home` where the files are past the failure.
  Three conditions are those of `Installer_proofs`, for the same reasons: no
  encryption, `Unmountable` for the unmounts, `SoundLayout`.

The proofs have a step for each action, and where an action cannot disturb a
conjunct, they say so by the variables it leaves unchanged.

Every type invariant, safety property and action property that a run checks is
proved, for all values of the constants. `RequestsEnd` is model-checked only: liveness
and ENABLED are beyond the prover.

## 5. Not modelled

- *Reads that fail.* `Ext2Writer` takes reads to succeed. The code ignores the
  result of several (see the hazards at `diskfmt.cyr:625` and `673`).
- *Write order below the process.* There is no `fsync`; a power failure can persist
  writes in another order. The model's crashes are of the process: writes already
  made are on disk in order.
- *The order of mkfs's own writes*: its arithmetic is `Ext2Format`, its result `Init`.
  A stop in the middle of it leaves no file system, which nothing reads.
- *Processes*: an operation fails or succeeds, before or after its effect. The pipe
  and the wait of `_exec_with_stdin`, signals and hangs are left out.
- *The text of files other than `fstab` and the kernel's command line*; in native
  installs the contents of `fstab` too. Modes, owners, times, labels on disk.
- *A second run of a shell install* over the mounts a first one left. `NativeBoot`
  does run again.
- *The CLI's parsing and printing, backend selection, `--disk-sectors`*; Display,
  progress fractions, time estimates, the log and the ISO configuration.
- `agnova_advance_phase` and `df_self_verify` of the port, which only tests call.
- `lib/` is a vendored library. The tar reader is external: an archive is the stream
  of its members.

## 6. Plan

What a next step would add, most useful first:

1. A directory tree with atomic requests as an abstract specification that
   `Ext2Writer` implements, the tree being what a reader finds on disk. It needs the
   code to refuse a name that exists (`Ext2Names`) before it is true.
2. Failing reads and the shared scratch buffers of the ext2 writer, once the code
   looks at the results of its reads.
3. `Installer` from a machine a former run left (mounts, mapping).
4. The pipe of `_exec_with_stdin`: parent, child, short writes and waits.
