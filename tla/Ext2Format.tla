------------------------------ MODULE Ext2Format ------------------------------
(***************************************************************************)
(* The arithmetic of df_format_ext2 (src/diskfmt.cyr): from the sectors of *)
(* a partition to the geometry that the ext2 writer then keeps, with the   *)
(* sizes of the code.  Ext2Layout and Ext2Writer take any geometry with    *)
(* the properties of LayoutOf(sectors).                                    *)
(***************************************************************************)
EXTENDS Integers

BlocksPerGroup == 32768     \* the bits of a block
InodesPerGroup == 8192
InodesPerBlock == 32
DescriptorsPerBlock == 128
TablePerGroup == InodesPerGroup \div InodesPerBlock
MaxGroups == 512            \* slots of df_ext2_gfb and the other two

\* Blocks of the descriptors of g groups, and the metadata of each group.
DescriptorBlocks(g) == (g + DescriptorsPerBlock - 1) \div DescriptorsPerBlock
Metadata(g) == DescriptorBlocks(g) + TablePerGroup + 3

\* The groups that b blocks begin, and whether the last of them is too small
\* to be kept.
GroupsBegun(b) == (b + BlocksPerGroup - 1) \div BlocksPerGroup
DropsTail(b) == b - (GroupsBegun(b) - 1) * BlocksPerGroup < Metadata(GroupsBegun(b)) + 8

Geometry(sectors) ==
    LET b == sectors \div 8
        g == GroupsBegun(b)
    IN  IF DropsTail(b) THEN [blocks |-> (g - 1) * BlocksPerGroup, groups |-> g - 1]
        ELSE [blocks |-> b, groups |-> g]

Formats(sectors) ==
    /\ sectors \div 8 >= TablePerGroup + 16
    /\ Geometry(sectors).groups \in 1 .. MaxGroups

\* Blocks of group g, and what its counters of free blocks and inodes begin
\* with: group 0 has spent the two directories and the reserved inodes.
BlocksOf(geo, g) ==
    IF g = geo.groups - 1 THEN geo.blocks - g * BlocksPerGroup ELSE BlocksPerGroup
FreeBlocks(geo, g) == BlocksOf(geo, g) - Metadata(geo.groups) - (IF g = 0 THEN 2 ELSE 0)
FreeInodes(g) == IF g = 0 THEN InodesPerGroup - 11 ELSE InodesPerGroup
Field16 == 0 .. 65535       \* of a descriptor

\* The layout that df_format_ext2 leaves.
LayoutOf(sectors) == INSTANCE Ext2Layout WITH
    B <- Geometry(sectors).blocks, G <- Geometry(sectors).groups,
    BPG <- BlocksPerGroup, IPG <- InodesPerGroup, IPB <- InodesPerBlock,
    ITPG <- TablePerGroup, DPB <- DescriptorsPerBlock,
    GD <- DescriptorBlocks(Geometry(sectors).groups),
    RootIno <- 2, LostFoundIno <- 11
-----------------------------------------------------------------------------
(* Sizes of files in bytes, which Ext2Writer counts in blocks.             *)

BlockSize == 4096
AcceptsFile(size) ==
    (size + BlockSize - 1) \div BlockSize <= 12 + 1024 + 1024 * 1024
i_size(size) == size % 4294967296    \* store32
=============================================================================
