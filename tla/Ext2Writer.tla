------------------------------ MODULE Ext2Writer ------------------------------
(***************************************************************************)
(* The ext2 root-file-system writer of src/diskfmt.cyr, from the state     *)
(* df_format_ext2 leaves: path resolution, the block and inode allocators, *)
(* files with direct, single- and double-indirect blocks, symlinks,        *)
(* directories and the superblock/GDT flush.  A step is one block write    *)
(* (with the memory updates that come with it) or one decision between     *)
(* writes, so that every state is also what an installer that is killed,   *)
(* or whose next write fails, leaves on disk.  Reads are taken to succeed. *)
(*                                                                         *)
(* A file's logical block order, names' lengths and contents are           *)
(* abstracted: an inode has the SET of blocks in its i_block array, a      *)
(* pointer block the SET of blocks it lists, a directory block a sequence  *)
(* of entries.                                                             *)
(***************************************************************************)
EXTENDS Ext2Layout, Sequences, FiniteSetsExt

CONSTANTS
    Names,      \* file names
    ND,         \* direct pointers of an inode (12 in the code)
    NP,         \* pointers per pointer block (1024)
    DirCap,     \* entries that fit a directory's one block
    MaxTarget,  \* a symlink target this long does not fit the inode (60)
    Requests,   \* what the install plan or an archive may ask for
    MaxIno,     \* bound on inode numbers, past the table's end
    MaxOps      \* bound on the number of requests of a run

\* A request: an entry of a config planner or of a staged file (via "api"),
\* or one member of an archive (via "tar").  size is a file's number of
\* blocks or the length of a symlink's target.
ASSUME RequestTypes ==
    Requests \subseteq [kind : {"file", "symlink", "dir"}, via : {"api", "tar"},
                        path : Seq(Names), size : Nat]

ASSUME WriterBounds ==
    /\ {ND, NP} \subseteq Nat \ {0} /\ {DirCap, MaxTarget, MaxOps} \subseteq Nat
    /\ DirCap >= 3     \* the root's block has room for its first three entries
    /\ MaxIno \in Nat /\ MaxIno >= IPG * G
    /\ {".", "..", "lost+found"} \cap Names = {}

VARIABLES
    \* allocation state in memory
    next_ino, next_block, free_blocks, free_inodes, gfb, gfi, gud,
    \* on disk: bitmaps, inode table, pointer blocks, directory blocks, blocks
    \* that hold file data, superblock and GDT copies; blocks written past B
    bbmp, ibmp, inodes, ptr, ents, body, sb, gdt, trampled,
    \* the request in progress: directory reached, path components left, what
    \* is being made and its inode
    req, cur, rest, making, ino,
    \* the file in progress: logical blocks done, block just allocated, and
    \* the pointers gathered for the inode and the two pointer buffers
    L, blk, direct, ind, ind2, ib12, ib13,
    \* flush cursor (group, GDT block), control, requests answered
    g, t, pc, ops

mem == <<next_ino, next_block, free_blocks, free_inodes, gfb, gfi, gud>>
tree == <<inodes, ptr, ents, body>>
disk == <<bbmp, ibmp, tree, sb, gdt, trampled>>
call == <<req, cur, rest, making, ino>>
file == <<L, blk, direct, ind, ind2, ib12, ib13>>
vars == <<mem, disk, call, file, g, t, pc, ops>>

AllInodes == 1 .. MaxIno
Kinds == {"none", "file", "symlink", "dir"}
Inode == [kind : Kinds, links : Nat, blocks : SUBSET DataBlocks]
NoInode == [kind |-> "none", links |-> 0, blocks |-> {}]
Entry == [name : Names \cup {".", "..", "lost+found"}, ino : AllInodes, kind : Kinds]

\* The per-group counter arrays have slots past the last group (512 in all).
Slots == 0 .. IF GroupOfInode(MaxIno) > G THEN GroupOfInode(MaxIno) ELSE G

MaxFileBlocks == ND + NP + NP * NP
Least(a, b) == IF a < b THEN a ELSE b

DirBlock(i) == CHOOSE b \in inodes[i].blocks : TRUE
IsDir(i) == i \in AllInodes /\ inodes[i].kind = "dir"

\* A bug to catch: the scan ends one entry early.
LookupShort(d, name) ==
    LET es == ents[DirBlock(d)]
        hits == {k \in 1 .. Len(es) - 1 : es[k].name = name}
    IN  IF hits = {} THEN 0 ELSE es[Min(hits)].ino

\* df_ext2_lookup: the first entry of that name; 0 if there is none.
Lookup(d, name) ==
    LET es == ents[DirBlock(d)]
        hits == {k \in DOMAIN es : es[k].name = name}
    IN  IF hits = {} THEN 0 ELSE es[Min(hits)].ino

\* Block bn was written: it is someone else's when the file system ends before.
Touch(bn) == trampled' = trampled \cup ({bn} \ Blocks)

DotEntries(self, parent) ==
    <<[name |-> ".", ino |-> self, kind |-> "dir"],
      [name |-> "..", ino |-> parent, kind |-> "dir"]>>

\* What df_format_ext2 leaves, in memory and on disk.
RootEntries ==
    <<[name |-> ".", ino |-> RootIno, kind |-> "dir"],
      [name |-> "..", ino |-> RootIno, kind |-> "dir"],
      [name |-> "lost+found", ino |-> LostFoundIno, kind |-> "dir"]>>

FreeBlocksOf(h) ==
    Cardinality(GroupBlocks(h)) - Metapg - (IF h = 0 THEN 2 ELSE 0)
FreeInodesOf(h) == IPG - (IF h = 0 THEN LostFoundIno ELSE 0)
UsedDirsOf(h) == IF h = 0 THEN 2 ELSE 0

Init ==
    /\ next_ino = LostFoundIno + 1
    /\ next_block = Metapg + 2
    /\ free_blocks = B - G * Metapg - 2
    /\ free_inodes = IPG * G - LostFoundIno
    /\ gfb = [h \in Slots |-> IF h \in Groups THEN FreeBlocksOf(h) ELSE 0]
    /\ gfi = [h \in Slots |-> IF h \in Groups THEN FreeInodesOf(h) ELSE 0]
    /\ gud = [h \in Slots |-> IF h \in Groups THEN UsedDirsOf(h) ELSE 0]
    /\ bbmp = FormatBlocks
    /\ ibmp = 1 .. LostFoundIno
    /\ inodes = [i \in AllInodes |->
           IF i = RootIno THEN [kind |-> "dir", links |-> 3, blocks |-> {RootBlock}]
           ELSE IF i = LostFoundIno
                THEN [kind |-> "dir", links |-> 2, blocks |-> {LostFoundBlock}]
                ELSE NoInode]
    /\ ptr = [b \in DataBlocks |-> {}]
    /\ ents = [b \in DataBlocks |->
           IF b = RootBlock THEN RootEntries
           ELSE IF b = LostFoundBlock THEN DotEntries(LostFoundIno, RootIno) ELSE <<>>]
    /\ body = {}
    /\ sb = [c \in Groups |-> [blocks |-> free_blocks, inodes |-> free_inodes]]
    /\ gdt = [c \in Groups |-> [h \in Groups |->
           [blocks |-> gfb[h], inodes |-> gfi[h], dirs |-> gud[h]]]]
    /\ trampled = {}
    /\ req = [kind |-> "dir", via |-> "api", path |-> <<>>, size |-> 0]
    /\ cur = RootIno /\ rest = <<>> /\ making = "none" /\ ino = 0
    /\ L = 0 /\ blk = 0 /\ direct = {} /\ ind = {} /\ ind2 = {} /\ ib12 = 0 /\ ib13 = 0
    /\ g = 0 /\ t = 0 /\ pc = "idle" /\ ops = 0
-----------------------------------------------------------------------------
(* Requests: df_ext2_stage, _write_mem, _mkdir_p, _symlink_p, _untar_mem.  *)

Goto(label) == pc' = label
Fail == Goto("failed")
Answer == Goto("idle") /\ ops' = ops + 1

\* A request starts at the root; df_ext2_symlink_p refuses a long target first.
Begin ==
    /\ pc = "idle" /\ ops < MaxOps
    /\ req' \in Requests
    /\ cur' = RootIno /\ rest' = req'.path /\ making' = "none" /\ ino' = 0
    /\ IF req'.kind = "symlink" /\ req'.via = "api" /\ req'.size >= MaxTarget
       THEN Fail ELSE Goto("resolve")
    /\ UNCHANGED <<mem, disk, file, g, t, ops>>

\* Make a new inode of this kind under cur with name Head(rest).
Make(kind) ==
    /\ making' = kind
    /\ L' = 0 /\ blk' = 0 /\ direct' = {} /\ ib12' = 0 /\ ib13' = 0
    /\ ind' = {} /\ ind2' = {}
    /\ Goto("alloc_ino")

MakeDir == Make("dir")

\* df_ext2_resolve, one component before the last: enter it or mkdir it.
Descend ==
    /\ pc = "resolve" /\ Len(rest) > 1 /\ IsDir(cur)
    /\ IF Lookup(cur, Head(rest)) # 0
       THEN /\ cur' = Lookup(cur, Head(rest)) /\ rest' = Tail(rest)
            /\ UNCHANGED <<file, making, pc>>
       ELSE MakeDir /\ UNCHANGED <<cur, rest>>
    /\ UNCHANGED <<mem, disk, req, ino, g, t, ops>>

\* The path named the root itself: only making a directory, or a member of an
\* archive that is not a file, may do that.
NameRoot ==
    /\ pc = "resolve" /\ rest = <<>>
    /\ IF req.kind = "dir" \/ (req.kind = "symlink" /\ req.via = "tar")
       THEN Answer ELSE Fail /\ ops' = ops
    /\ UNCHANGED <<mem, disk, call, file, g, t>>

\* The last component of a directory request is made only if it is not there.
LastDir ==
    /\ pc = "resolve" /\ Len(rest) = 1 /\ req.kind = "dir" /\ IsDir(cur)
    /\ IF Lookup(cur, Head(rest)) # 0
       THEN Answer /\ UNCHANGED <<making, file>>
       ELSE MakeDir /\ ops' = ops
    /\ UNCHANGED <<mem, disk, req, cur, rest, ino, g, t>>

\* df_ext2_add_file_sz and df_ext2_add_symlink check the size, not the name.
LastLeaf ==
    /\ pc = "resolve" /\ Len(rest) = 1 /\ req.kind # "dir"
    /\ IF \/ req.kind = "file" /\ req.size > MaxFileBlocks
          \/ req.kind = "symlink" /\ req.size >= MaxTarget
       THEN Fail /\ UNCHANGED <<making, file>>
       ELSE Make(req.kind)
    /\ UNCHANGED <<mem, disk, req, cur, rest, ino, g, t, ops>>

\* Looking a name up in the blocks of a file or symlink: the code reads them
\* as directory entries, and what follows depends on their bytes.
Stray ==
    /\ \/ pc = "resolve" /\ (Len(rest) > 1 \/ (Len(rest) = 1 /\ req.kind = "dir"))
       \/ pc = "link"
    /\ ~IsDir(cur)
    /\ Goto("astray")
    /\ UNCHANGED <<mem, disk, call, file, g, t, ops>>
-----------------------------------------------------------------------------
(* The allocators.                                                         *)

\* df_ext2_mark_inode and df_ext2_mark_block read, set one bit and write back;
\* the bugs to catch shift the bit, or forget to read.
MarkInodeBefore(i) == ibmp \cup {i - 1}
MarkInode(i) == ibmp \cup {i}

MarkBlockAlone(bn) == (bbmp \ GroupBlocks(GroupOfBlock(bn))) \cup {bn}
MarkBlock(bn) == bbmp \cup {bn}

\* df_ext2_alloc_inode: the next inode, with no check against the last one.
AllocInode ==
    /\ pc = "alloc_ino" /\ next_ino <= MaxIno
    /\ ino' = next_ino
    /\ next_ino' = next_ino + 1
    /\ ibmp' = MarkInode(next_ino)
    /\ Touch(InodeBitmap(GroupOfInode(next_ino)))
    /\ gfi' = [gfi EXCEPT ![GroupOfInode(next_ino)] = @ - 1]
    /\ free_inodes' = free_inodes - 1
    /\ Goto("fill")
    /\ UNCHANGED <<next_block, free_blocks, gfb, gud, bbmp, tree, sb, gdt,
                   req, cur, rest, making, file, g, t, ops>>

\* Every block the inode needs is written.
Filled ==
    \/ making = "symlink"
    \/ making = "dir" /\ direct # {}
    \/ making = "file" /\ L = req.size /\ (L > ND => ib12 # 0)
                       /\ (L > ND + NP => ib13 # 0)

Candidates == {bn \in DataBlocks : bn >= next_block}

\* The group that pays for block bn; the bug to catch takes the one after it.
ChargeNext(bn) == [gfb EXCEPT ![GroupOfBlock(bn + 1)] = @ - 1]
Charge(bn) == [gfb EXCEPT ![GroupOfBlock(bn)] = @ - 1]

\* df_ext2_alloc_block: the next data block; metadata heads are skipped.
AllocBlock ==
    /\ pc = "fill" /\ ~Filled /\ Candidates # {}
    /\ blk' = Min(Candidates)
    /\ next_block' = blk' + 1
    /\ bbmp' = MarkBlock(blk')
    /\ Touch(BlockBitmap(GroupOfBlock(blk')))
    /\ gfb' = Charge(blk')
    /\ free_blocks' = free_blocks - 1
    /\ Goto("put")
    /\ UNCHANGED <<next_ino, free_inodes, gfi, gud, ibmp, tree, sb, gdt, call,
                   L, direct, ind, ind2, ib12, ib13, g, t, ops>>

NoBlockLeft ==
    /\ pc = "fill" /\ ~Filled /\ Candidates = {}
    /\ next_block' = IF next_block > B THEN next_block ELSE B
    /\ Fail
    /\ UNCHANGED <<next_ino, free_blocks, free_inodes, gfb, gfi, gud,
                   disk, call, file, g, t, ops>>
-----------------------------------------------------------------------------
(* Writing the block just allocated (df_ext2_add_file_sz, df_ext2_mkdir).  *)

\* The pointer buffers in memory keep the numbers of blocks already written.
PutData ==
    /\ body' = body \cup {blk} /\ L' = L + 1
    /\ UNCHANGED <<inodes, ptr, ents>>

PutPointers(buffer) ==
    /\ ptr' = [ptr EXCEPT ![blk] = buffer]
    /\ UNCHANGED <<inodes, ents, body, L>>

PutDirect ==
    /\ making = "file" /\ L < Least(req.size, ND)
    /\ PutData /\ direct' = direct \cup {blk}
    /\ UNCHANGED <<ind, ind2, ib12, ib13>>

PutSingle ==
    /\ making = "file" /\ ND <= L /\ L < Least(req.size, ND + NP)
    /\ PutData /\ ind' = ind \cup {blk}
    /\ UNCHANGED <<direct, ind2, ib12, ib13>>

\* A bug to catch: the pointer buffer is not zeroed for its next use.
PutSingleRootKeeps ==
    /\ making = "file" /\ ND < L /\ L = Least(req.size, ND + NP) /\ ib12 = 0
    /\ PutPointers(ind) /\ ib12' = blk
    /\ UNCHANGED <<direct, ind, ind2, ib13>>

PutSingleRoot ==
    /\ making = "file" /\ ND < L /\ L = Least(req.size, ND + NP) /\ ib12 = 0
    /\ PutPointers(ind) /\ ib12' = blk /\ ind' = {}
    /\ UNCHANGED <<direct, ind2, ib13>>

\* A bug to catch: the last, partial inner block is never written.
InnerFullOnly == Cardinality(ind) = NP
InnerFull == Cardinality(ind) = NP \/ (ind # {} /\ L = req.size)

PutDouble ==
    /\ making = "file" /\ ib12 # 0 /\ L < req.size /\ ~InnerFull
    /\ PutData /\ ind' = ind \cup {blk}
    /\ UNCHANGED <<direct, ind2, ib12, ib13>>

PutInner ==
    /\ making = "file" /\ ib12 # 0 /\ InnerFull
    /\ PutPointers(ind) /\ ind2' = ind2 \cup {blk} /\ ind' = {}
    /\ UNCHANGED <<direct, ib12, ib13>>

PutDoubleRoot ==
    /\ making = "file" /\ ib12 # 0 /\ L = req.size /\ ind = {}
    /\ PutPointers(ind2) /\ ib13' = blk /\ ind2' = {}
    /\ UNCHANGED <<direct, ind, ib12>>

PutDirBlock ==
    /\ making = "dir"
    /\ ents' = [ents EXCEPT ![blk] = DotEntries(ino, cur)]
    /\ direct' = {blk}
    /\ UNCHANGED <<inodes, ptr, body, L, ind, ind2, ib12, ib13>>

Put ==
    /\ pc = "put"
    /\ \/ PutDirect \/ PutSingle \/ PutSingleRoot \/ PutDouble
       \/ PutInner \/ PutDoubleRoot \/ PutDirBlock
    /\ Touch(blk)
    /\ blk' = 0
    /\ Goto("fill")
    /\ UNCHANGED <<mem, bbmp, ibmp, sb, gdt, call, g, t, ops>>
-----------------------------------------------------------------------------
(* The inode, its name and the parent's link count.                        *)

NewInode ==
    [kind |-> making, links |-> IF making = "dir" THEN 2 ELSE 1,
     blocks |-> direct \cup ({ib12, ib13} \ {0})]

WriteInode ==
    /\ pc = "fill" /\ Filled
    /\ inodes' = [inodes EXCEPT ![ino] = NewInode]
    /\ Touch(InodeBlock(ino))
    /\ direct' = {} /\ ib12' = 0 /\ ib13' = 0
    /\ Goto("link")
    /\ UNCHANGED <<mem, bbmp, ibmp, ptr, ents, body, sb, gdt, call,
                   L, blk, ind, ind2, g, t, ops>>

\* The slack split: the new entry takes the room behind the last one; the bug
\* to catch takes the last one's place.
PublishOver(es, e) == Append(SubSeq(es, 1, Len(es) - 1), e)
Publish(es, e) == Append(es, e)

\* A bug to catch: the parent's link count is forgotten.
AfterLinkAlways == "sb"
AfterLink == IF making = "dir" THEN "parent" ELSE "sb"

\* df_ext2_link_dirent: append to the parent's only block, if there is room.
Link ==
    /\ pc = "link" /\ IsDir(cur)
    /\ LET d == DirBlock(cur)
       IN  IF Len(ents[d]) < DirCap
           THEN /\ ents' = [ents EXCEPT ![d] = Publish(@,
                       [name |-> Head(rest), ino |-> ino, kind |-> making])]
                /\ Touch(d)
                /\ Goto(AfterLink)
           ELSE Fail /\ UNCHANGED <<ents, trampled>>
    /\ g' = 0 /\ t' = 0
    /\ UNCHANGED <<mem, bbmp, ibmp, inodes, ptr, body, sb, gdt, call, file, ops>>

\* A bug to catch: the new directory is counted up, not its parent.
CountChild ==
    /\ pc = "parent"
    /\ inodes' = [inodes EXCEPT ![ino].links = @ + 1]
    /\ Touch(InodeBlock(ino))
    /\ gud' = [gud EXCEPT ![GroupOfInode(ino)] = @ + 1]
    /\ Goto("sb")
    /\ UNCHANGED <<next_ino, next_block, free_blocks, free_inodes, gfb, gfi,
                   bbmp, ibmp, ptr, ents, body, sb, gdt, call, file, g, t, ops>>

\* df_ext2_mkdir: the parent gains the link of the new directory's "..".
CountParent ==
    /\ pc = "parent"
    /\ inodes' = [inodes EXCEPT ![cur].links = @ + 1]
    /\ Touch(InodeBlock(cur))
    /\ gud' = [gud EXCEPT ![GroupOfInode(ino)] = @ + 1]
    /\ Goto("sb")
    /\ UNCHANGED <<next_ino, next_block, free_blocks, free_inodes, gfb, gfi,
                   bbmp, ibmp, ptr, ents, body, sb, gdt, call, file, g, t, ops>>
-----------------------------------------------------------------------------
(* df_ext2_flush_meta: superblock, then GDT, group after group.            *)

Descriptor(h) == [blocks |-> gfb[h], inodes |-> gfi[h], dirs |-> gud[h]]

FlushSuper ==
    /\ pc = "sb"
    /\ sb' = [sb EXCEPT ![g] = [blocks |-> free_blocks, inodes |-> free_inodes]]
    /\ Touch(SuperBlock(g))
    /\ Goto("gdt")
    /\ UNCHANGED <<mem, bbmp, ibmp, tree, gdt, call, file, g, t, ops>>

\* A directory made on the way is entered; else the request is answered.
Return ==
    IF making = "dir" /\ Len(rest) > 1
    THEN cur' = ino /\ rest' = Tail(rest) /\ Goto("resolve") /\ ops' = ops
    ELSE Answer /\ UNCHANGED <<cur, rest>>

\* GDT blocks of this copy still to write; bugs to catch: none or one too many.
GdtLeftNone == FALSE
GdtLeftOneMore == t + 1 <= GD
GdtLeft == t + 1 < GD

FlushGdt ==
    /\ pc = "gdt"
    /\ gdt' = [gdt EXCEPT ![g] = [h \in Groups |->
                   IF h \in DescriptorsIn(t) THEN Descriptor(h) ELSE @[h]]]
    /\ Touch(GdtBlock(g, t))
    /\ IF GdtLeft
       THEN t' = t + 1 /\ UNCHANGED <<g, pc, cur, rest, ops>>
       ELSE /\ t' = 0
            /\ IF g + 1 < G
               THEN g' = g + 1 /\ Goto("sb") /\ UNCHANGED <<cur, rest, ops>>
               ELSE g' = 0 /\ Return
    /\ UNCHANGED <<mem, bbmp, ibmp, tree, sb, req, making, ino, file>>

\* The process is killed or its next write fails: nothing more is written,
\* and the executor, for which such an operation is fatal, runs nothing more.
Stop ==
    /\ pc \notin {"idle", "failed", "astray", "done"}
    /\ Fail
    /\ UNCHANGED <<mem, disk, call, file, g, t, ops>>

\* The plan is over.
Finish ==
    /\ pc = "idle" /\ Goto("done")
    /\ UNCHANGED <<mem, disk, call, file, g, t, ops>>

Over == pc \in {"failed", "astray", "done"} /\ UNCHANGED vars

\* The steps of the code on a request it has begun.
Work ==
    \/ Descend \/ NameRoot \/ LastDir \/ LastLeaf \/ Stray
    \/ AllocInode \/ AllocBlock \/ NoBlockLeft \/ Put
    \/ WriteInode \/ Link \/ CountParent \/ FlushSuper \/ FlushGdt

Next == Begin \/ Work \/ Stop \/ Finish \/ Over

Spec == Init /\ [][Next]_vars

\* One process runs the writer and nothing in it waits: it keeps taking steps.
FairSpec == Spec /\ WF_vars(Work)
=============================================================================
