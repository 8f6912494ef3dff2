---------------------------- MODULE Ext2WriterProps ----------------------------
(***************************************************************************)
(* What the ext2 writer must keep true: at every step (a run that stops    *)
(* there leaves that disk), whenever a request is answered, of every step, *)
(* and eventually.                                                         *)
(***************************************************************************)
EXTENDS Ext2Writer

Labels == {"idle", "resolve", "alloc_ino", "fill", "put", "link", "parent",
           "sb", "gdt", "failed", "astray", "done"}

\* The variables hold what the code can put there.
MemTypes ==
    /\ next_ino \in Nat \ {0} /\ next_block \in Nat
    /\ free_blocks \in Int /\ free_inodes \in Int
    /\ gfb \in [Slots -> Int] /\ gfi \in [Slots -> Int] /\ gud \in [Slots -> Int]

DiskTypes ==
    /\ bbmp \subseteq Nat /\ ibmp \subseteq AllInodes
    /\ inodes \in [AllInodes -> Inode]
    /\ ptr \in [DataBlocks -> SUBSET DataBlocks]
    /\ ents \in [DataBlocks -> Seq(Entry)]
    /\ body \subseteq DataBlocks
    /\ sb \in [Groups -> [blocks : Int, inodes : Int]]
    /\ gdt \in [Groups -> [Groups -> [blocks : Int, inodes : Int, dirs : Int]]]
    /\ trampled \subseteq Nat

CallTypes ==
    /\ req \in [kind : {"file", "symlink", "dir"}, via : {"api", "tar"},
                path : Seq(Names), size : Nat]
    /\ cur \in AllInodes /\ rest \in Seq(Names) /\ making \in Kinds
    /\ ino \in 0 .. MaxIno

FileTypes ==
    /\ L \in Nat /\ blk \in {0} \cup DataBlocks
    /\ direct \subseteq DataBlocks /\ ind \subseteq DataBlocks /\ ind2 \subseteq DataBlocks
    /\ ib12 \in {0} \cup DataBlocks /\ ib13 \in {0} \cup DataBlocks

ControlTypes == g \in Groups /\ t \in 0 .. GD - 1 /\ pc \in Labels /\ ops \in Nat

TypeOK == MemTypes /\ DiskTypes /\ CallTypes /\ FileTypes /\ ControlTypes
-----------------------------------------------------------------------------
(* Which blocks an inode reaches, and which inodes are named.              *)

\* Through the inode's own array, a pointer block, or a pointer block's
\* pointer blocks.  A data block lists nothing.
Listed(S) == UNION {ptr[b] : b \in S}
Reach(i) ==
    LET own == inodes[i].blocks
    IN  own \cup Listed(own) \cup Listed(Listed(own))

Used == {i \in AllInodes : inodes[i].kind # "none"}
Dirs == {i \in AllInodes : inodes[i].kind = "dir"}
EntriesOf(d) == ents[DirBlock(d)]
Entries == {e \in Dirs \X (1 .. DirCap) : e[2] \in DOMAIN EntriesOf(e[1])}
At(e) == EntriesOf(e[1])[e[2]]
Dots(e) == At(e).name \in {".", ".."}
Subdirs(d) ==
    {k \in DOMAIN EntriesOf(d) : EntriesOf(d)[k].kind = "dir" /\ ~Dots(<<d, k>>)}
-----------------------------------------------------------------------------
(* Safety at every step.                                                   *)

\* No block has two owners - inodes, pointer blocks, the pointers the writer
\* still holds in memory - and every owned block is a data block the bitmap
\* has marked and the allocator has passed.
Held == direct \cup ind \cup ind2 \cup ({blk, ib12, ib13} \ {0})

DisjointInMemory ==
    /\ direct \cap ind = {} /\ direct \cap ind2 = {} /\ ind \cap ind2 = {}
    /\ {blk, ib12, ib13} \cap (direct \cup ind \cup ind2) = {}
    /\ blk # 0 => blk \notin {ib12, ib13}
    /\ ib12 # 0 => ib12 # ib13

DisjointOnDisk ==
    /\ \A i, j \in AllInodes : i # j => inodes[i].blocks \cap inodes[j].blocks = {}
    /\ \A b, c \in DataBlocks : b # c => ptr[b] \cap ptr[c] = {}
    /\ \A i \in AllInodes, b \in DataBlocks : inodes[i].blocks \cap ptr[b] = {}

DisjointAcross ==
    /\ \A i \in AllInodes : inodes[i].blocks \cap Held = {}
    /\ \A b \in DataBlocks : ptr[b] \cap Held = {}

Taken == {b \in DataBlocks : b \in bbmp /\ b < next_block}

OwnedAreTaken ==
    /\ \A i \in AllInodes : inodes[i].blocks \subseteq Taken
    /\ \A b \in DataBlocks : ptr[b] \subseteq Taken
    /\ Held \subseteq Taken

BlocksOwnedOnce ==
    DisjointInMemory /\ DisjointOnDisk /\ DisjointAcross /\ OwnedAreTaken

\* Whatever a name on disk leads to was written before the name: a marked
\* inode of the kind the entry says, all of its blocks marked, a file's
\* blocks holding data or pointers, a directory's block its two dots.
NothingDangles ==
    \A e \in Entries :
        LET i == At(e).ino
        IN  /\ i \in ibmp /\ inodes[i].kind = At(e).kind
            /\ Reach(i) \subseteq bbmp
            /\ At(e).kind = "file" =>
                   \A b \in Reach(i) : b \in body \/ ptr[b] # {}
            /\ At(e).kind = "dir" =>
                   /\ EntriesOf(i)[1] = DotEntries(i, i)[1]
                   /\ EntriesOf(i)[2].name = ".."

\* A copy of the counters may lag behind the bitmaps but never claims less
\* free space than there is: allocation marks the bitmap first.
FreeBits(h) == Cardinality(GroupBlocks(h) \ bbmp)
FreeInodeBits(h) == Cardinality(GroupInodes(h) \ ibmp)
CountersCoverBitmaps ==
    \A c \in Groups :
        /\ sb[c].blocks >= MapThenSumSet(FreeBits, Groups)
        /\ \A h \in Groups : gdt[c][h].blocks >= FreeBits(h)
                             /\ gdt[c][h].inodes >= FreeInodeBits(h)

\* Wherever a run stops, the superblock and the descriptors of every group but
\* one agree with each other: a whole copy is left to repair from.  Once inodes
\* have run out that is so no more: free_inodes counts on below the table, the
\* groups' counts do not.
Whole(c) ==
    LET blocksIn(h) == gdt[c][h].blocks
        inodesIn(h) == gdt[c][h].inodes
    IN  /\ sb[c].blocks = MapThenSumSet(blocksIn, Groups)
        /\ sb[c].inodes = MapThenSumSet(inodesIn, Groups)
OneTornCopyAtMost ==
    next_ino <= IPG * G + 1 => Cardinality({c \in Groups : ~Whole(c)}) <= 1

\* While inodes last, the writer never writes behind the file system's end.
StaysInside == next_ino <= IPG * G + 1 => trampled = {}

\* mkdir looks before it makes: no directory holds two subdirectories of one name.
SubdirsUnique ==
    \A d \in Dirs : \A j, k \in Subdirs(d) :
        EntriesOf(d)[j].name = EntriesOf(d)[k].name => j = k

\* A directory's link count is what e2fsck counts; one directory at most, the
\* parent of a new entry whose inode is not rewritten yet, has one too few.
Lag(d) == 2 + Cardinality(Subdirs(d)) - inodes[d].links
LinksLagByOne ==
    /\ \A d \in Dirs : Lag(d) \in {0, 1}
    /\ Cardinality({d \in Dirs : Lag(d) = 1}) <= 1

\* When a request has been answered e2fsck has nothing to say: the bitmaps are
\* exactly what is reachable, every inode but the root has one name, in an
\* older directory, links are exact, and all copies of the counters are exact.
Named(i) == {e \in Entries : ~Dots(e) /\ At(e).ino = i}

BitmapsExact ==
    /\ bbmp = MetaBlocks \cup TailPadding \cup UNION {Reach(i) : i \in Used}
    /\ ibmp = (1 .. LostFoundIno) \cup Used

NamesExact ==
    /\ \A i \in Used \ {RootIno} : \E e \in Named(i) : Named(i) = {e} /\ e[1] < i
    /\ \A d \in Dirs : EntriesOf(d)[2].ino \in
           IF d = RootIno THEN {RootIno} ELSE {e[1] : e \in Named(d)}
    /\ \A d \in Dirs : inodes[d].links = 2 + Cardinality(Subdirs(d))

CountersExact ==
    \A c, h \in Groups :
        /\ sb[c] = [blocks |-> MapThenSumSet(FreeBits, Groups),
                    inodes |-> MapThenSumSet(FreeInodeBits, Groups)]
        /\ gdt[c][h] = [blocks |-> FreeBits(h), inodes |-> FreeInodeBits(h),
                        dirs |-> Cardinality(Dirs \cap GroupInodes(h))]

CleanWhenIdle ==
    pc = "idle" /\ next_ino <= IPG * G + 1 => BitmapsExact /\ NamesExact /\ CountersExact
-----------------------------------------------------------------------------
(* Steps and liveness.                                                     *)

\* What is on disk under a name stays: entries are only ever appended, and an
\* inode that has a name changes in nothing but a directory's link count.
PublishedStays ==
    [][/\ \A b \in DataBlocks :
             SubSeq(ents'[b], 1, Len(ents[b])) = ents[b]
       /\ \A e \in Entries : LET i == At(e).ino IN
             /\ inodes'[i].blocks = inodes[i].blocks
             /\ inodes'[i].kind = inodes[i].kind
             /\ \A b \in Reach(i) : ptr'[b] = ptr[b]]_vars

\* Every request comes to an end.
RequestsEnd == (pc = "resolve") ~> (pc \in {"idle", "failed"})
-----------------------------------------------------------------------------
(* What the source says of itself and the code does not keep.              *)

\* "mkdir_p'ing every parent directory, and set df_ext2_rp_parent": the parent
\* of a name is a directory.
ParentIsDirectory == pc # "astray"

\* "Write an in-memory blob into the ext2 root at absolute path dst": the path
\* then leads to what was written.
PathLeadsToLatest ==
    pc = "idle" /\ making \in {"file", "symlink"} => Lookup(cur, Head(rest)) = ino

\* "Allocate the next free inode ... Returns ino / -1": nothing is written
\* behind the end of the file system.
NeverTramples == trampled = {}
=============================================================================
