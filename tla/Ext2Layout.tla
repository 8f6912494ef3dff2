------------------------------ MODULE Ext2Layout ------------------------------
(***************************************************************************)
(* Where the ext2 writer of src/diskfmt.cyr keeps things.  A file system   *)
(* of B blocks is G groups of BPG blocks.  Every group starts with the     *)
(* same metadata: superblock copy, GD descriptor blocks, block bitmap,     *)
(* inode bitmap and ITPG blocks of inode table; data blocks follow.  Block *)
(* numbers and inode numbers are those of the code (blocks from 0, inodes  *)
(* from 1); the sizes (32768, 8192, 32, 128 in the code) are constants.    *)
(***************************************************************************)
EXTENDS Integers, FiniteSets

CONSTANTS
    B,      \* df_ext2_B: number of blocks
    G,      \* df_ext2_G: number of groups
    BPG,    \* df_ext2_bpg: blocks per group
    IPG,    \* df_ext2_ipg: inodes per group
    IPB,    \* inodes per inode-table block (32 in the code)
    ITPG,   \* df_ext2_itpg: inode-table blocks per group
    DPB,    \* group descriptors per GDT block (128 in the code)
    GD,     \* df_ext2_gd: GDT blocks per group
    RootIno,       \* 2 in the code
    LostFoundIno   \* 11 in the code: the last inode mkfs takes

Metapg == GD + ITPG + 3

Groups == 0 .. G - 1
Blocks == 0 .. B - 1
Inodes == 1 .. IPG * G

\* What df_format_ext2 establishes before it keeps a geometry (Ext2Format).
LayoutSizes ==
    /\ {B, G, BPG, IPG, IPB, ITPG, DPB, GD} \subseteq Nat \ {0}
    /\ RootIno \in Nat \ {0} /\ LostFoundIno \in Nat

\* Inode tables are whole blocks, the GDT has a descriptor for every group,
\* the reserved inodes are in group 0 and group 0 holds the two directories.
GroupsFit ==
    /\ IPG = ITPG * IPB
    /\ G <= GD * DPB
    /\ RootIno < LostFoundIno /\ LostFoundIno <= IPG
    /\ Metapg + 2 <= BPG /\ Metapg + 2 <= B

\* The tail group is never smaller than its own metadata: a smaller one is
\* dropped.
TailUsable == (G - 1) * BPG + Metapg < B /\ B <= G * BPG

ASSUME LayoutTypes == LayoutSizes
ASSUME LayoutFits == GroupsFit
ASSUME LayoutTail == TailUsable

-----------------------------------------------------------------------------
GroupOfBlock(bn) == bn \div BPG
GroupOfInode(i) == (i - 1) \div IPG

\* A block past its group's metadata head.
IsData(bn) == bn % BPG >= Metapg
DataBlocks == {bn \in Blocks : IsData(bn)}

SuperBlock(g) == g * BPG
GdtBlock(g, t) == g * BPG + 1 + t
BlockBitmap(g) == g * BPG + 1 + GD
InodeBitmap(g) == g * BPG + 2 + GD

\* A bug to catch: the index is not taken relative to the group.
InodeBlockFlat(i) == GroupOfInode(i) * BPG + 3 + GD + (i - 1) \div IPB

\* df_ext2_iloc: the inode-table block that holds inode i.
InodeBlock(i) ==
    GroupOfInode(i) * BPG + 3 + GD + ((i - 1) % IPG) \div IPB

\* The descriptors that GDT block t of a copy holds.
DescriptorsIn(t) == {g \in Groups : g \div DPB = t}

\* mkfs: the two directories sit in group 0's first two data blocks.
RootBlock == Metapg
LostFoundBlock == Metapg + 1

\* Bits of the block bitmaps that are set by mkfs: every group's metadata,
\* the two directory blocks and the padding behind the end of the tail group.
MetaBlocks == {bn \in Blocks : ~IsData(bn)}
TailPadding == B .. G * BPG - 1
FormatBlocks == MetaBlocks \cup {RootBlock, LostFoundBlock} \cup TailPadding

GroupBlocks(g) == {bn \in Blocks : GroupOfBlock(bn) = g}
GroupInodes(g) == {i \in Inodes : GroupOfInode(i) = g}
=============================================================================
