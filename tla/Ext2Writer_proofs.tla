-------------------------- MODULE Ext2Writer_proofs --------------------------
(***************************************************************************)
(* What holds of the ext2 writer for every geometry, set of requests and   *)
(* bound: its typing, that no block gets two owners, that it stays inside  *)
(* the file system while inodes last; and what the directories on disk     *)
(* are, at every write: what is under a name stays as it is, a name leads  *)
(* to what was complete before there was the name, no directory has two    *)
(* subdirectories of one name, and counts of links lag by one at most.     *)
(* And that what df_format_ext2 leaves is such a geometry.                 *)
(***************************************************************************)
EXTENDS Ext2WriterProps, Ext2Format, WellFoundedInduction, FiniteSetTheorems, SequenceTheorems,
        TLAPS

-----------------------------------------------------------------------------
(* The layout, for every geometry: what the writer computes as the place   *)
(* of metadata is inside the file system.                                  *)

LEMMA LayoutNats ==
    /\ B \in Nat \ {0} /\ G \in Nat \ {0} /\ BPG \in Nat \ {0} /\ IPG \in Nat \ {0}
    /\ IPB \in Nat \ {0} /\ ITPG \in Nat \ {0} /\ GD \in Nat \ {0}
    /\ DPB \in Nat \ {0} /\ RootIno \in Nat \ {0} /\ LostFoundIno \in Nat
    /\ Metapg \in Nat /\ Metapg + 2 <= BPG
  BY LayoutTypes, LayoutFits DEF Metapg, LayoutSizes, GroupsFit

\* Multiplication and division by a positive size.
LEMMA MulMono ==
    ASSUME NEW a \in Nat, NEW b \in Nat, NEW k \in Nat, a <= b
    PROVE  a * k \in Nat /\ b * k \in Nat /\ a * k <= b * k
  OBVIOUS

LEMMA DivBound ==
    ASSUME NEW x \in Nat, NEW n \in Nat, NEW k \in Nat \ {0}, x < n * k
    PROVE  x \div k \in 0 .. n - 1
  <1>1. x = (x \div k) * k + (x % k) /\ x \div k \in Nat /\ x % k \in 0 .. k - 1
    OBVIOUS
  <1>2. ASSUME x \div k >= n PROVE FALSE
    <2>1. n * k <= (x \div k) * k
      BY <1>1, <1>2, MulMono
    <2>2. QED
      BY <1>1, <2>1
  <1>3. QED
    BY <1>1, <1>2

\* The group of a block or of an inode of the file system is one of its groups.
LEMMA BlockHasGroup ==
    ASSUME NEW bn \in Blocks
    PROVE  GroupOfBlock(bn) \in Groups
  <1>1. bn \in Nat /\ bn < G * BPG
    BY LayoutNats, LayoutTail DEF Blocks, TailUsable
  <1>2. QED
    BY <1>1, DivBound, LayoutNats DEF GroupOfBlock, Groups

LEMMA InodeHasGroup ==
    ASSUME NEW i \in Inodes
    PROVE  GroupOfInode(i) \in Groups
  <1>1. i - 1 \in Nat /\ i - 1 < G * IPG
    BY LayoutNats DEF Inodes
  <1>2. QED
    BY <1>1, DivBound, LayoutNats DEF GroupOfInode, Groups

\* The metadata head of every group, the last included, ends before B.
LEMMA MetadataInside ==
    ASSUME NEW h \in Groups, NEW k \in 0 .. Metapg - 1
    PROVE  h * BPG + k \in Blocks
  <1>1. h \in Nat /\ G - 1 \in Nat /\ h <= G - 1
    BY LayoutNats DEF Groups
  <1>2. h * BPG \in Nat /\ h * BPG <= (G - 1) * BPG /\ (G - 1) * BPG \in Nat
    BY <1>1, MulMono, LayoutNats
  <1>3. QED
    BY <1>2, LayoutNats, LayoutTail DEF Blocks, TailUsable

LEMMA BitmapsInside ==
    ASSUME NEW h \in Groups
    PROVE  BlockBitmap(h) \in Blocks /\ InodeBitmap(h) \in Blocks /\ SuperBlock(h) \in Blocks
  <1>1. 0 \in 0 .. Metapg - 1 /\ 1 + GD \in 0 .. Metapg - 1 /\ 2 + GD \in 0 .. Metapg - 1
    BY LayoutNats DEF Metapg
  <1>2. h * BPG + 0 \in Blocks /\ h * BPG + (1 + GD) \in Blocks /\ h * BPG + (2 + GD) \in Blocks
    BY <1>1, MetadataInside
  <1>3. h * BPG \in Nat
    BY LayoutNats DEF Groups
  <1>4. QED
    BY <1>2, <1>3, LayoutNats DEF BlockBitmap, InodeBitmap, SuperBlock

LEMMA GdtInside ==
    ASSUME NEW h \in Groups, NEW k \in 0 .. GD - 1
    PROVE  GdtBlock(h, k) \in Blocks
  <1>1. 1 + k \in 0 .. Metapg - 1
    BY LayoutNats DEF Metapg
  <1>2. h * BPG + (1 + k) \in Blocks
    BY <1>1, MetadataInside
  <1>3. h * BPG \in Nat
    BY LayoutNats DEF Groups
  <1>4. QED
    BY <1>2, <1>3, LayoutNats DEF GdtBlock

LEMMA InodeBlockInside ==
    ASSUME NEW i \in Inodes
    PROVE  InodeBlock(i) \in Blocks
  <1> DEFINE idx == (i - 1) % IPG
             slot == idx \div IPB
  <1>1. i - 1 \in Nat
    BY LayoutNats DEF Inodes
  <1>2. idx \in Nat /\ idx < IPG
    BY <1>1, LayoutNats
  <1>3. slot \in 0 .. ITPG - 1
    BY <1>2, DivBound, LayoutNats, LayoutFits DEF GroupsFit
  <1>4. 3 + GD + slot \in 0 .. Metapg - 1
    BY <1>3, LayoutNats DEF Metapg
  <1>5. GroupOfInode(i) \in Groups
    BY InodeHasGroup
  <1>6. GroupOfInode(i) * BPG + (3 + GD + slot) \in Blocks
    BY <1>4, <1>5, MetadataInside
  <1>7. GroupOfInode(i) * BPG \in Nat
    BY <1>5, LayoutNats DEF Groups
  <1>8. QED
    BY <1>3, <1>6, <1>7, LayoutNats DEF InodeBlock

\* The two directories of a fresh file system are in data blocks.
LEMMA FirstDirBlocks == RootBlock \in DataBlocks /\ LostFoundBlock \in DataBlocks
  <1>1. Metapg \in Blocks /\ Metapg + 1 \in Blocks
    BY LayoutNats, LayoutFits DEF Blocks, GroupsFit
  <1>2. Metapg % BPG = Metapg /\ (Metapg + 1) % BPG = Metapg + 1
    BY LayoutNats
  <1>3. QED
    BY <1>1, <1>2, LayoutNats DEF RootBlock, LostFoundBlock, DataBlocks, IsData

\* Past the table's end the writer still computes natural numbers.
LEMMA InodePlacesAreNats ==
    ASSUME NEW i \in Nat \ {0}
    PROVE  /\ GroupOfInode(i) \in Nat
           /\ InodeBitmap(GroupOfInode(i)) \in Nat
           /\ InodeBlock(i) \in Nat
  <1>1. GroupOfInode(i) \in Nat
    BY LayoutNats DEF GroupOfInode
  <1>2. (i - 1) % IPG \in Nat
    BY LayoutNats
  <1>3. ((i - 1) % IPG) \div IPB \in Nat
    BY <1>2, LayoutNats
  <1>4. GroupOfInode(i) * BPG \in Nat
    BY <1>1, LayoutNats
  <1>5. QED
    BY <1>1, <1>3, <1>4, LayoutNats DEF InodeBitmap, InodeBlock

-----------------------------------------------------------------------------
(* Helpers and types.                                                      *)

\* The least element of a set of natural numbers exists.
LEMMA MinOfNats ==
    ASSUME NEW S \in SUBSET Nat, S # {}
    PROVE  Min(S) \in S /\ \A y \in S : Min(S) <= y
  <1>1. PICK x \in S : \A y \in S : ~(<<y, x>> \in OpToRel(<, Nat))
    BY WFMin, NatLessThanWellFounded
  <1>2. ASSUME NEW y \in S PROVE x <= y
    <2>1. x \in Nat /\ y \in Nat
      OBVIOUS
    <2>2. ASSUME y < x PROVE FALSE
      <3>1. <<y, x>> \in Nat \X Nat /\ <<y, x>>[1] < <<y, x>>[2]
        BY <2>1, <2>2
      <3>2. <<y, x>> \in OpToRel(<, Nat)
        BY <3>1 DEF OpToRel
      <3>3. QED
        BY <1>1, <3>2
    <2>3. QED
      BY <2>1, <2>2
  <1>3. QED
    BY <1>2 DEF Min

LEMMA SeqElement ==
    ASSUME NEW T, NEW s \in Seq(T), NEW k \in DOMAIN s
    PROVE  s[k] \in T
  OBVIOUS

LEMMA SeqHeadTail ==
    ASSUME NEW T, NEW s \in Seq(T), s # <<>>
    PROVE  Head(s) \in T /\ Tail(s) \in Seq(T)
  OBVIOUS

LEMMA WriterNats ==
    /\ ND \in Nat \ {0} /\ NP \in Nat \ {0} /\ DirCap \in Nat /\ MaxTarget \in Nat
    /\ MaxOps \in Nat /\ MaxIno \in Nat /\ Inodes \subseteq AllInodes
    /\ RootIno \in Inodes /\ LostFoundIno \in Inodes /\ LostFoundIno + 1 \in Nat \ {0}
    /\ RootIno \in AllInodes /\ LostFoundIno \in AllInodes /\ LostFoundIno <= MaxIno
  <1>1. IPG * 1 <= IPG * G
    BY LayoutNats, MulMono
  <1>2. QED
    BY <1>1, WriterBounds, LayoutNats, LayoutFits DEF Inodes, AllInodes, GroupsFit

LEMMA GroupsHaveSlots == Groups \subseteq Slots
  <1>1. GroupOfInode(MaxIno) \in Nat
    BY WriterNats, LayoutNats, InodePlacesAreNats DEF AllInodes
  <1>2. QED
    BY <1>1, LayoutNats DEF Groups, Slots

LEMMA DataBlockTypes ==
    /\ DataBlocks \subseteq Blocks /\ Blocks \subseteq Nat /\ DataBlocks \subseteq Nat
    /\ 0 \notin DataBlocks
  <1>1. 0 % BPG = 0 /\ Metapg > 0
    BY LayoutNats DEF Metapg
  <1>2. QED
    BY <1>1, LayoutNats DEF DataBlocks, Blocks, IsData
-----------------------------------------------------------------------------
(* Typing needs to know what is being made while it is made, and that a    *)
(* directory's inode has its block.                                        *)
Busy == {"alloc_ino", "fill", "put", "link", "parent", "sb", "gdt"}

CallOK ==
    /\ pc \in Busy => rest # <<>> /\ making \in {"file", "symlink", "dir"}
    /\ pc \in Busy \ {"alloc_ino"} => ino \in AllInodes

DirsHaveBlocks ==
    \A i \in AllInodes : inodes[i].kind = "dir" => inodes[i].blocks # {}

TypeInv == TypeOK /\ CallOK /\ DirsHaveBlocks

LEMMA DirBlockType ==
    ASSUME TypeInv, NEW d, IsDir(d)
    PROVE  DirBlock(d) \in DataBlocks /\ DirBlock(d) \in inodes[d].blocks
  <1>1. inodes[d] \in Inode /\ inodes[d].blocks # {}
    BY DEF TypeInv, TypeOK, DiskTypes, DirsHaveBlocks, IsDir
  <1>2. DirBlock(d) \in inodes[d].blocks
    BY <1>1 DEF DirBlock
  <1>3. QED
    BY <1>1, <1>2 DEF Inode

LEMMA LookupType ==
    ASSUME TypeInv, NEW d, IsDir(d), NEW name, Lookup(d, name) # 0
    PROVE  /\ Lookup(d, name) \in AllInodes
           /\ \E k \in DOMAIN ents[DirBlock(d)] :
                 Lookup(d, name) = ents[DirBlock(d)][k].ino
  <1> DEFINE es == ents[DirBlock(d)]
             hits == {k \in DOMAIN es : es[k].name = name}
  <1>1. es \in Seq(Entry)
    BY DirBlockType DEF TypeInv, TypeOK, DiskTypes
  <1>2. hits # {}
    BY DEF Lookup
  <1>3. hits \in SUBSET Nat
    BY <1>1
  <1>4. Min(hits) \in hits
    BY <1>2, <1>3, MinOfNats
  <1>5. Lookup(d, name) = es[Min(hits)].ino
    BY <1>2 DEF Lookup
  <1>6. PICK k \in DOMAIN es : k = Min(hits)
    BY <1>4
  <1>7. es[k] \in Entry
    BY <1>1, <1>6, SeqElement
  <1>8. es[k].ino \in AllInodes
    BY <1>7 DEF Entry
  <1>9. QED
    BY <1>5, <1>6, <1>8

\* What is allocated is a data block not passed before.
LEMMA NextCandidate ==
    ASSUME next_block \in Nat, Candidates # {}
    PROVE  /\ Min(Candidates) \in DataBlocks /\ Min(Candidates) >= next_block
           /\ Min(Candidates) \in Nat
  <1>1. Candidates \in SUBSET Nat
    BY DataBlockTypes DEF Candidates
  <1>2. Min(Candidates) \in Candidates
    BY <1>1, MinOfNats
  <1>3. QED
    BY <1>2, DataBlockTypes DEF Candidates

LEMMA InitTypes == Init => TypeInv
  <1> SUFFICES ASSUME Init PROVE TypeInv
    OBVIOUS
  <1>1. \A h \in Groups : FreeBlocksOf(h) \in Int /\ FreeInodesOf(h) \in Int /\ UsedDirsOf(h) \in Int
    <2>1. \A h \in Groups : Cardinality(GroupBlocks(h)) \in Nat
      <3>1. IsFiniteSet(Blocks)
        BY FS_Interval, LayoutNats DEF Blocks
      <3>2. \A h \in Groups : IsFiniteSet(GroupBlocks(h))
        BY <3>1, FS_Subset DEF GroupBlocks
      <3>3. QED
        BY <3>2, FS_CardinalityType
    <2>2. QED
      BY <2>1, LayoutNats DEF FreeBlocksOf, FreeInodesOf, UsedDirsOf
  <1>2. MemTypes
    BY <1>1, LayoutNats, WriterNats DEF Init, MemTypes
  <1>3. /\ inodes \in [AllInodes -> Inode] /\ DirsHaveBlocks
    BY FirstDirBlocks, WriterNats DEF Init, Inode, NoInode, Kinds, DirsHaveBlocks
  <1>4. ents \in [DataBlocks -> Seq(Entry)]
    <2>1. DotEntries(RootIno, RootIno) \in Seq(Entry) /\ DotEntries(LostFoundIno, RootIno) \in Seq(Entry)
      BY WriterNats DEF DotEntries, Entry, Kinds
    <2>2. RootEntries \in Seq(Entry)
      BY WriterNats DEF RootEntries, Entry, Kinds
    <2>3. QED
      BY <2>1, <2>2 DEF Init
  <1>5. bbmp \subseteq Nat /\ ibmp \subseteq AllInodes
    <2>1. TailPadding \subseteq Nat
      BY LayoutNats DEF TailPadding
    <2>2. QED
      <3>1. FormatBlocks \subseteq Nat
        BY <2>1, DataBlockTypes, FirstDirBlocks DEF FormatBlocks, MetaBlocks
      <3>2. 1 .. LostFoundIno \subseteq AllInodes
        BY WriterNats, LayoutNats DEF AllInodes
      <3>3. QED
        BY <3>1, <3>2 DEF Init
  <1>6. sb \in [Groups -> [blocks : Int, inodes : Int]]
    BY <1>2 DEF Init, MemTypes
  <1>7. gdt \in [Groups -> [Groups -> [blocks : Int, inodes : Int, dirs : Int]]]
    <2>1. \A h \in Groups : gfb[h] \in Int /\ gfi[h] \in Int /\ gud[h] \in Int
      BY <1>2, GroupsHaveSlots DEF MemTypes
    <2>2. QED
      BY <2>1 DEF Init
  <1>8. DiskTypes
    BY <1>3, <1>4, <1>5, <1>6, <1>7 DEF DiskTypes, Init
  <1>9. CallTypes
    BY WriterNats DEF Init, CallTypes, Kinds
  <1>10. FileTypes /\ ControlTypes
    BY LayoutNats DEF Init, FileTypes, ControlTypes, Groups, Labels
  <1>11. CallOK
    BY DEF Init, CallOK, Busy
  <1>12. QED
    BY <1>2, <1>3, <1>8, <1>9, <1>10, <1>11 DEF TypeInv, TypeOK
-----------------------------------------------------------------------------
\* What a write does to trampled, whatever block it is.
LEMMA TouchType ==
    ASSUME NEW bn \in Nat, trampled \subseteq Nat, Touch(bn)
    PROVE  trampled' \subseteq Nat
  BY DEF Touch

LEMMA MakeType ==
    ASSUME NEW kind \in {"file", "symlink", "dir"}, Make(kind)
    PROVE  FileTypes' /\ making' = kind /\ pc' = "alloc_ino"
  BY DEF Make, FileTypes, Goto

\* Resolving a path changes nothing but the call, the file to make and pc.
LEMMA ResolveStep ==
    ASSUME TypeInv, Begin \/ Descend \/ NameRoot \/ LastDir \/ LastLeaf \/ Stray
    PROVE  TypeInv'
  <1> USE DEF TypeInv, TypeOK
  <1>1. MemTypes' /\ DiskTypes' /\ DirsHaveBlocks' /\ g' = g /\ t' = t
    BY DEF Begin, Descend, NameRoot, LastDir, LastLeaf, Stray, mem, disk, tree,
       MemTypes, DiskTypes, DirsHaveBlocks
  <1>2. ASSUME Begin PROVE CallTypes' /\ FileTypes' /\ ControlTypes' /\ CallOK'
    <2>1. CallTypes'
      BY <1>2, RequestTypes, WriterNats DEF Begin, CallTypes, Kinds
    <2>2. FileTypes'
      BY <1>2 DEF Begin, FileTypes, file
    <2>3. ControlTypes' /\ CallOK'
      BY <1>2 DEF Begin, ControlTypes, CallOK, Labels, Busy, Goto, Fail
    <2>4. QED
      BY <2>1, <2>2, <2>3
  <1>3. ASSUME Descend PROVE CallTypes' /\ FileTypes' /\ ControlTypes' /\ CallOK'
    <2>1. rest \in Seq(Names) /\ rest # <<>>
      BY <1>3 DEF Descend, CallTypes
    <2>2. CASE Lookup(cur, Head(rest)) # 0
      <3>1. Lookup(cur, Head(rest)) \in AllInodes
        BY <1>3, <2>2, LookupType DEF Descend
      <3>2. CallTypes'
        BY <1>3, <2>1, <2>2, <3>1, SeqHeadTail DEF Descend, CallTypes
      <3>3. FileTypes' /\ ControlTypes' /\ CallOK'
        BY <1>3, <2>2 DEF Descend, FileTypes, file, ControlTypes, CallOK, Busy
      <3>4. QED
        BY <3>2, <3>3
    <2>3. CASE Lookup(cur, Head(rest)) = 0
      <3>1. Make("dir") /\ UNCHANGED <<req, cur, rest, ino, g, t, ops>>
        BY <1>3, <2>3 DEF Descend, MakeDir
      <3>2. FileTypes' /\ making' = "dir" /\ pc' = "alloc_ino"
        BY <3>1, MakeType
      <3>3. QED
        BY <2>1, <3>1, <3>2 DEF CallTypes, ControlTypes, CallOK, Busy, Kinds, Labels
    <2>4. QED
      BY <2>2, <2>3
  <1>4. ASSUME NameRoot PROVE CallTypes' /\ FileTypes' /\ ControlTypes' /\ CallOK'
    BY <1>4 DEF NameRoot, CallTypes, FileTypes, ControlTypes, CallOK, call, file, Labels, Busy,
       Goto, Fail, Answer
  <1>5. ASSUME LastDir PROVE CallTypes' /\ FileTypes' /\ ControlTypes' /\ CallOK'
    <2>1. CASE Lookup(cur, Head(rest)) # 0
      BY <1>5, <2>1 DEF LastDir, CallTypes, FileTypes, ControlTypes, CallOK, file, Labels, Busy,
         Goto, Answer
    <2>2. CASE Lookup(cur, Head(rest)) = 0
      <3>1. Make("dir") /\ UNCHANGED <<req, cur, rest, ino, g, t, ops>> /\ rest # <<>>
        BY <1>5, <2>2 DEF LastDir, MakeDir
      <3>2. FileTypes' /\ making' = "dir" /\ pc' = "alloc_ino"
        BY <3>1, MakeType
      <3>3. QED
        BY <3>1, <3>2 DEF CallTypes, ControlTypes, CallOK, Busy, Kinds, Labels
    <2>3. QED
      BY <2>1, <2>2
  <1>6. ASSUME LastLeaf PROVE CallTypes' /\ FileTypes' /\ ControlTypes' /\ CallOK'
    <2>1. CASE pc' = "failed" /\ UNCHANGED <<making, file>>
      BY <1>6, <2>1 DEF LastLeaf, CallTypes, FileTypes, ControlTypes, CallOK, file, Labels, Busy
    <2>2. CASE Make(req.kind)
      <3>1. req.kind \in {"file", "symlink", "dir"}
        BY DEF CallTypes
      <3>2. FileTypes' /\ making' = req.kind /\ pc' = "alloc_ino"
        BY <2>2, <3>1, MakeType
      <3>3. rest # <<>> /\ UNCHANGED <<req, cur, rest, ino, g, t, ops>>
        BY <1>6 DEF LastLeaf
      <3>4. QED
        BY <3>1, <3>2, <3>3 DEF CallTypes, ControlTypes, CallOK, Busy, Kinds, Labels
    <2>3. QED
      BY <1>6, <2>1, <2>2 DEF LastLeaf, Fail, Goto
  <1>7. ASSUME Stray PROVE CallTypes' /\ FileTypes' /\ ControlTypes' /\ CallOK'
    BY <1>7 DEF Stray, CallTypes, FileTypes, ControlTypes, CallOK, call, file, Labels, Busy, Goto
  <1>8. QED
    BY <1>1, <1>2, <1>3, <1>4, <1>5, <1>6, <1>7
LEMMA CounterType ==
    ASSUME NEW S, NEW f \in [S -> Int], NEW i
    PROVE  [f EXCEPT ![i] = @ - 1] \in [S -> Int] /\ [f EXCEPT ![i] = @ + 1] \in [S -> Int]
  <1>1. \A s \in S : f[s] - 1 \in Int /\ f[s] + 1 \in Int
    OBVIOUS
  <1>2. QED
    BY <1>1

LEMMA AllocInodeType == ASSUME TypeInv, AllocInode PROVE TypeInv'
  <1> USE DEF TypeInv, TypeOK
  <1>1. next_ino \in AllInodes /\ next_ino \in Nat \ {0}
    BY WriterNats DEF AllocInode, MemTypes, AllInodes
  <1>2. MemTypes'
    BY <1>1, CounterType DEF AllocInode, MemTypes
  <1>3. trampled' \subseteq Nat
    BY <1>1, InodePlacesAreNats, TouchType DEF AllocInode, DiskTypes
  <1>4. DiskTypes' /\ DirsHaveBlocks'
    BY <1>1, <1>3 DEF AllocInode, DiskTypes, DirsHaveBlocks, tree, MarkInode
  <1>5. CallTypes' /\ FileTypes'
    BY <1>1, WriterNats DEF AllocInode, CallTypes, FileTypes, file, AllInodes
  <1>6. ControlTypes' /\ CallOK'
    BY <1>1 DEF AllocInode, ControlTypes, CallOK, Goto, Labels, Busy
  <1>7. QED
    BY <1>2, <1>4, <1>5, <1>6

LEMMA AllocBlockType == ASSUME TypeInv, AllocBlock PROVE TypeInv'
  <1> USE DEF TypeInv, TypeOK
  <1>1. blk' \in DataBlocks /\ blk' \in Nat
    BY NextCandidate DEF AllocBlock, MemTypes
  <1>2. MemTypes'
    BY <1>1, CounterType DEF AllocBlock, MemTypes, Charge
  <1>3. trampled' \subseteq Nat
    <2>1. BlockBitmap(GroupOfBlock(blk')) \in Nat
      BY <1>1, BlockHasGroup, BitmapsInside, DataBlockTypes
    <2>2. QED
      BY <2>1, TouchType DEF AllocBlock, DiskTypes
  <1>4. DiskTypes' /\ DirsHaveBlocks'
    BY <1>1, <1>3 DEF AllocBlock, DiskTypes, DirsHaveBlocks, tree, MarkBlock
  <1>5. CallTypes' /\ FileTypes'
    BY <1>1 DEF AllocBlock, CallTypes, FileTypes, call
  <1>6. ControlTypes' /\ CallOK'
    BY DEF AllocBlock, ControlTypes, CallOK, Goto, Labels, Busy, call
  <1>7. QED
    BY <1>2, <1>4, <1>5, <1>6

LEMMA NoBlockLeftType == ASSUME TypeInv, NoBlockLeft PROVE TypeInv'
  <1> USE DEF TypeInv, TypeOK
  <1>1. MemTypes'
    BY LayoutNats DEF NoBlockLeft, MemTypes
  <1>2. DiskTypes' /\ DirsHaveBlocks' /\ CallTypes' /\ FileTypes'
    BY DEF NoBlockLeft, DiskTypes, DirsHaveBlocks, CallTypes, FileTypes, disk, tree, call, file
  <1>3. ControlTypes' /\ CallOK'
    BY DEF NoBlockLeft, ControlTypes, CallOK, Fail, Goto, Labels, Busy, call
  <1>4. QED
    BY <1>1, <1>2, <1>3

\* A block is only ever written while one is allocated.
Writing == pc = "put" => blk \in DataBlocks

LEMMA PutType == ASSUME TypeInv, Writing, Put PROVE TypeInv'
  <1> USE DEF TypeInv, TypeOK
  <1>1. blk \in DataBlocks /\ blk \in Nat
    BY DataBlockTypes DEF Put, Writing
  <1>2. MemTypes' /\ CallTypes' /\ ControlTypes' /\ CallOK'
    BY DEF Put, MemTypes, CallTypes, ControlTypes, CallOK, mem, call, Goto, Labels, Busy
  <1>3. trampled' \subseteq Nat /\ inodes' = inodes
    BY <1>1, TouchType DEF Put, DiskTypes, PutDirect, PutSingle, PutSingleRoot, PutDouble, PutInner,
       PutDoubleRoot, PutDirBlock, PutData, PutPointers
  <1>4. bbmp' = bbmp /\ ibmp' = ibmp /\ sb' = sb /\ gdt' = gdt /\ blk' = 0
    BY DEF Put
  <1>5. body' \subseteq DataBlocks
    BY <1>1 DEF Put, DiskTypes, PutDirect, PutSingle, PutSingleRoot, PutDouble, PutInner,
       PutDoubleRoot, PutDirBlock, PutData, PutPointers
  <1>6. ptr' \in [DataBlocks -> SUBSET DataBlocks]
    BY <1>1 DEF Put, DiskTypes, FileTypes, PutDirect, PutSingle, PutSingleRoot, PutDouble, PutInner,
       PutDoubleRoot, PutDirBlock, PutData, PutPointers
  <1>7. ents' \in [DataBlocks -> Seq(Entry)]
    <2>1. CASE PutDirBlock
      <3>1. ino \in AllInodes /\ cur \in AllInodes
        BY DEF Put, CallOK, CallTypes, Busy
      <3>2. DotEntries(ino, cur) \in Seq(Entry)
        BY <3>1 DEF DotEntries, Entry, Kinds
      <3>3. QED
        BY <2>1, <3>2 DEF PutDirBlock, DiskTypes
    <2>2. CASE ~PutDirBlock
      <3>1. ents' = ents
        BY <2>2 DEF Put, PutDirect, PutSingle, PutSingleRoot, PutDouble, PutInner,
           PutDoubleRoot, PutData, PutPointers
      <3>2. QED
        BY <3>1 DEF DiskTypes
    <2>3. QED
      BY <2>1, <2>2
  <1>8. DiskTypes' /\ DirsHaveBlocks'
    BY <1>3, <1>4, <1>5, <1>6, <1>7 DEF DiskTypes, DirsHaveBlocks
  <1>9. FileTypes'
    <2> SUFFICES ASSUME PutDirect \/ PutSingle \/ PutSingleRoot \/ PutDouble
                        \/ PutInner \/ PutDoubleRoot \/ PutDirBlock
                 PROVE FileTypes'
      BY DEF Put
    <2>1. L' \in Nat
      BY DEF FileTypes, PutDirect, PutSingle, PutSingleRoot, PutDouble, PutInner,
         PutDoubleRoot, PutDirBlock, PutData, PutPointers
    <2>2. direct' \subseteq DataBlocks
      BY <1>1 DEF FileTypes, PutDirect, PutSingle, PutSingleRoot, PutDouble, PutInner,
         PutDoubleRoot, PutDirBlock
    <2>3. ind' \subseteq DataBlocks /\ ind2' \subseteq DataBlocks
      BY <1>1 DEF FileTypes, PutDirect, PutSingle, PutSingleRoot, PutDouble, PutInner,
         PutDoubleRoot, PutDirBlock
    <2>4. ib12' \in {0} \cup DataBlocks /\ ib13' \in {0} \cup DataBlocks
      BY <1>1 DEF FileTypes, PutDirect, PutSingle, PutSingleRoot, PutDouble, PutInner,
         PutDoubleRoot, PutDirBlock
    <2>5. QED
      BY <1>4, <2>1, <2>2, <2>3, <2>4 DEF FileTypes
  <1>10. QED
    BY <1>2, <1>8, <1>9
LEMMA WriteInodeType == ASSUME TypeInv, WriteInode PROVE TypeInv'
  <1> USE DEF TypeInv, TypeOK
  <1>1. ino \in AllInodes /\ ino \in Nat \ {0} /\ making \in {"file", "symlink", "dir"}
    BY DEF WriteInode, CallOK, Busy, AllInodes
  <1>2. NewInode \in Inode
    BY <1>1 DEF NewInode, Inode, Kinds, FileTypes
  <1>3. making = "dir" => NewInode.blocks # {}
    BY DEF WriteInode, Filled, NewInode
  <1>4. trampled' \subseteq Nat
    BY <1>1, InodePlacesAreNats, TouchType DEF WriteInode, DiskTypes
  <1>5. DiskTypes'
    BY <1>1, <1>2, <1>4 DEF WriteInode, DiskTypes
  <1>6. DirsHaveBlocks'
    BY <1>1, <1>3 DEF WriteInode, DiskTypes, DirsHaveBlocks, NewInode
  <1>7. MemTypes' /\ CallTypes' /\ FileTypes'
    BY DEF WriteInode, MemTypes, CallTypes, FileTypes, mem, call
  <1>8. ControlTypes' /\ CallOK'
    BY DEF WriteInode, ControlTypes, CallOK, Goto, Labels, Busy, call
  <1>9. QED
    BY <1>5, <1>6, <1>7, <1>8

LEMMA LinkType == ASSUME TypeInv, Link PROVE TypeInv'
  <1> USE DEF TypeInv, TypeOK
  <1> DEFINE d == DirBlock(cur)
             e == [name |-> Head(rest), ino |-> ino, kind |-> making]
  <1>1. d \in DataBlocks /\ d \in Nat
    BY DirBlockType, DataBlockTypes DEF Link
  <1>2. e \in Entry
    BY SeqHeadTail DEF Link, CallOK, CallTypes, Busy, Entry, Kinds
  <1>3. CASE Len(ents[d]) < DirCap
    <2>1. ents' = [ents EXCEPT ![d] = Append(@, e)] /\ Touch(d) /\ pc' = AfterLink
      BY <1>3 DEF Link, Publish, Goto
    <2>2. ents' \in [DataBlocks -> Seq(Entry)]
      <3> HIDE DEF d, e
      <3>1. ents[d] \in Seq(Entry)
        BY <1>1 DEF DiskTypes
      <3>2. Append(ents[d], e) \in Seq(Entry)
        BY <1>2, <3>1
      <3>3. QED
        BY <2>1, <3>2 DEF DiskTypes
    <2>3. trampled' \subseteq Nat
      BY <1>1, <2>1, TouchType DEF DiskTypes
    <2>4. DiskTypes' /\ DirsHaveBlocks'
      BY <2>2, <2>3 DEF Link, DiskTypes, DirsHaveBlocks
    <2>5. MemTypes' /\ CallTypes' /\ FileTypes'
      BY DEF Link, MemTypes, CallTypes, FileTypes, mem, call, file
    <2>6. ControlTypes' /\ CallOK'
      BY <2>1, LayoutNats DEF Link, ControlTypes, CallOK, AfterLink, Labels, Busy, call, Groups
    <2>7. QED
      BY <2>4, <2>5, <2>6
  <1>4. CASE ~(Len(ents[d]) < DirCap)
    <2>1. pc' = "failed" /\ UNCHANGED <<ents, trampled>>
      BY <1>4 DEF Link, Fail, Goto
    <2>2. MemTypes' /\ DiskTypes' /\ DirsHaveBlocks' /\ CallTypes' /\ FileTypes'
      BY <2>1 DEF Link, MemTypes, DiskTypes, DirsHaveBlocks, CallTypes, FileTypes, mem, call, file
    <2>3. ControlTypes' /\ CallOK'
      BY <2>1, LayoutNats DEF Link, ControlTypes, CallOK, Labels, Busy, call, Groups
    <2>4. QED
      BY <2>2, <2>3
  <1>5. QED
    BY <1>3, <1>4

LEMMA CountParentType == ASSUME TypeInv, CountParent PROVE TypeInv'
  <1> USE DEF TypeInv, TypeOK
  <1>1. cur \in AllInodes /\ cur \in Nat \ {0} /\ inodes[cur] \in Inode
    <2>1. cur \in AllInodes
      BY DEF CallTypes
    <2>2. cur \in Nat \ {0}
      BY <2>1 DEF AllInodes
    <2>3. QED
      BY <2>1, <2>2 DEF DiskTypes
  <1>2. inodes' \in [AllInodes -> Inode] /\ DirsHaveBlocks'
    <2>1. [inodes[cur] EXCEPT !.links = @ + 1] \in Inode
      BY <1>1 DEF Inode
    <2>2. inodes' = [inodes EXCEPT ![cur] = [inodes[cur] EXCEPT !.links = @ + 1]]
      BY DEF CountParent
    <2>3. inodes' \in [AllInodes -> Inode]
      BY <2>1, <2>2 DEF DiskTypes
    <2>4. \A i \in AllInodes :
             inodes'[i].kind = inodes[i].kind /\ inodes'[i].blocks = inodes[i].blocks
      BY <1>1, <2>2 DEF DiskTypes, Inode
    <2>5. QED
      BY <2>3, <2>4 DEF DirsHaveBlocks
  <1>3. trampled' \subseteq Nat
    BY <1>1, InodePlacesAreNats, TouchType DEF CountParent, DiskTypes
  <1>4. DiskTypes'
    BY <1>2, <1>3 DEF CountParent, DiskTypes
  <1>5. MemTypes'
    BY CounterType DEF CountParent, MemTypes
  <1>6. CallTypes' /\ FileTypes' /\ ControlTypes' /\ CallOK'
    BY DEF CountParent, CallTypes, FileTypes, ControlTypes, CallOK, call, file, Goto, Labels, Busy
  <1>7. QED
    BY <1>2, <1>4, <1>5, <1>6

LEMMA FlushSuperType == ASSUME TypeInv, FlushSuper PROVE TypeInv'
  <1> USE DEF TypeInv, TypeOK
  <1>1. SuperBlock(g) \in Nat
    BY BitmapsInside, DataBlockTypes DEF ControlTypes
  <1>2. trampled' \subseteq Nat
    BY <1>1, TouchType DEF FlushSuper, DiskTypes
  <1>3. sb' \in [Groups -> [blocks : Int, inodes : Int]]
    BY DEF FlushSuper, DiskTypes, MemTypes
  <1>4. DiskTypes' /\ DirsHaveBlocks'
    BY <1>2, <1>3 DEF FlushSuper, DiskTypes, DirsHaveBlocks, tree
  <1>5. MemTypes' /\ CallTypes' /\ FileTypes' /\ ControlTypes' /\ CallOK'
    BY DEF FlushSuper, MemTypes, CallTypes, FileTypes, ControlTypes, CallOK, mem, call, file, Goto,
       Labels, Busy
  <1>6. QED
    BY <1>4, <1>5

LEMMA FlushGdtType == ASSUME TypeInv, FlushGdt PROVE TypeInv'
  <1> USE DEF TypeInv, TypeOK
  <1>1. GdtBlock(g, t) \in Nat
    BY GdtInside, DataBlockTypes DEF ControlTypes
  <1>2. trampled' \subseteq Nat
    BY <1>1, TouchType DEF FlushGdt, DiskTypes
  <1>3. gdt' \in [Groups -> [Groups -> [blocks : Int, inodes : Int, dirs : Int]]]
    <2>1. \A h \in Groups : Descriptor(h) \in [blocks : Int, inodes : Int, dirs : Int]
      BY GroupsHaveSlots DEF Descriptor, MemTypes
    <2>2. QED
      BY <2>1, ZenonT(30) DEF FlushGdt, DiskTypes
  <1>4. DiskTypes' /\ DirsHaveBlocks'
    BY <1>2, <1>3 DEF FlushGdt, DiskTypes, DirsHaveBlocks, tree
  <1>5. MemTypes' /\ FileTypes'
    BY DEF FlushGdt, MemTypes, FileTypes, mem, file
  <1>6. rest # <<>> /\ rest \in Seq(Names) /\ ino \in AllInodes
    BY DEF FlushGdt, CallOK, CallTypes, Busy
  <1>7. CallTypes' /\ pc' \in Labels /\ ops' \in Nat /\ CallOK'
    <2>1. UNCHANGED <<req, making, ino>> /\ pc = "gdt"
      BY DEF FlushGdt
    <2>2. CASE UNCHANGED <<pc, cur, rest, ops>> \/ (pc' = "sb" /\ UNCHANGED <<cur, rest, ops>>)
      BY <2>1, <2>2 DEF CallTypes, ControlTypes, CallOK, Labels, Busy
    <2>3. CASE Return
      <3>1. CASE making = "dir" /\ Len(rest) > 1
        BY <1>6, <2>1, <2>3, <3>1, SeqHeadTail, SMTT(30) DEF Return, Goto, CallTypes, ControlTypes, CallOK,
           Labels, Busy
      <3>2. CASE ~(making = "dir" /\ Len(rest) > 1)
        BY <2>1, <2>3, <3>2 DEF Return, Answer, Goto, CallTypes, ControlTypes, CallOK,
           Labels, Busy
      <3>3. QED
        BY <3>1, <3>2
    <2>4. QED
      BY <2>2, <2>3 DEF FlushGdt, Goto
  <1>8. g' \in Groups /\ t' \in 0 .. GD - 1
    BY LayoutNats DEF FlushGdt, GdtLeft, ControlTypes, Groups
  <1>9. QED
    BY <1>4, <1>5, <1>7, <1>8 DEF ControlTypes

LEMMA QuietType == ASSUME TypeInv, Stop \/ Finish \/ UNCHANGED vars PROVE TypeInv'
  <1> USE DEF TypeInv, TypeOK, mem, disk, tree, call, file, vars
  <1>1. MemTypes' /\ DiskTypes' /\ DirsHaveBlocks' /\ CallTypes' /\ FileTypes'
    BY DEF Stop, Finish, MemTypes, DiskTypes, DirsHaveBlocks, CallTypes, FileTypes
  <1>2. ControlTypes' /\ CallOK'
    BY DEF Stop, Finish, ControlTypes, CallOK, Goto, Fail, Labels, Busy
  <1>3. QED
    BY <1>1, <1>2
LEMMA WritingStep == ASSUME TypeInv, Writing, [Next]_vars PROVE Writing'
  <1>1. CASE AllocBlock
    BY <1>1, NextCandidate DEF AllocBlock, Writing, TypeInv, TypeOK, MemTypes
  <1>2. CASE UNCHANGED <<pc, blk>>
    BY <1>2 DEF Writing
  <1>3. CASE pc' # "put"
    BY <1>3 DEF Writing
  <1>4. QED
    BY <1>1, <1>2, <1>3 DEF Next, Work, Begin, Descend, NameRoot, LastDir, LastLeaf, Stray,
       AllocInode, NoBlockLeft, Put, WriteInode, Link, AfterLink, CountParent, FlushSuper, FlushGdt,
       Return, Answer, Stop, Finish, Over, Make, MakeDir, Goto, Fail, vars, call, file

LEMMA TypeStep == ASSUME TypeInv, Writing, [Next]_vars PROVE TypeInv'
  BY ResolveStep, AllocInodeType, AllocBlockType, NoBlockLeftType, PutType, WriteInodeType,
     LinkType, CountParentType, FlushSuperType, FlushGdtType, QuietType DEF Next, Work, Over

\* Every variable keeps its type, whatever is asked of the writer and wherever
\* it stops (df_ext2_* of diskfmt.cyr).
THEOREM Typing == Spec => []TypeOK
  <1>1. Init => TypeInv /\ Writing
    BY InitTypes DEF Init, Writing
  <1>2. TypeInv /\ Writing /\ [Next]_vars => (TypeInv /\ Writing)'
    BY TypeStep, WritingStep
  <1>3. TypeInv => TypeOK
    BY DEF TypeInv
  <1>4. QED
    BY <1>1, <1>2, <1>3, PTL DEF Spec
-----------------------------------------------------------------------------
(* No block has two owners.  BlocksOwnedOnce is inductive as it stands,    *)
(* given the typing: a new block lies past every block taken before, and   *)
(* every other step only moves blocks from one owner to another.           *)
OwnParts == <<direct, ind, ind2, blk, ib12, ib13>>

\* Nothing moves, and the bitmap and the allocator only go forward.
LEMMA OwnersKept ==
    ASSUME TypeInv, BlocksOwnedOnce, UNCHANGED <<ptr, OwnParts>>,
           \A i \in AllInodes : inodes'[i].blocks = inodes[i].blocks,
           bbmp \subseteq bbmp', next_block \in Nat, next_block' \in Nat,
           next_block <= next_block'
    PROVE  BlocksOwnedOnce'
  <1>1. DisjointInMemory' /\ DisjointOnDisk' /\ DisjointAcross'
    BY DEF BlocksOwnedOnce, DisjointInMemory, DisjointOnDisk, DisjointAcross, Held, OwnParts
  <1>2. ASSUME NEW b \in Taken PROVE b \in Taken'
    <2>1. b \in DataBlocks /\ b \in Nat /\ b \in bbmp' /\ b < next_block
      BY DataBlockTypes DEF Taken
    <2>2. b < next_block'
      BY <2>1
    <2>3. QED
      BY <2>1, <2>2 DEF Taken
  <1>3. OwnedAreTaken'
    BY <1>2 DEF BlocksOwnedOnce, OwnedAreTaken, Held, OwnParts
  <1>4. QED
    BY <1>1, <1>3 DEF BlocksOwnedOnce

\* Beginning a new file drops the pointers held in memory.
LEMMA OwnersDropped ==
    ASSUME BlocksOwnedOnce, NEW kind, Make(kind), UNCHANGED <<inodes, ptr, bbmp, next_block>>
    PROVE  BlocksOwnedOnce'
  <1>1. Held' = {}
    BY DEF Make, Held
  <1>2. DisjointInMemory' /\ DisjointOnDisk' /\ DisjointAcross'
    BY <1>1 DEF BlocksOwnedOnce, DisjointInMemory, DisjointOnDisk, DisjointAcross, Make
  <1>3. OwnedAreTaken'
    BY <1>1 DEF BlocksOwnedOnce, OwnedAreTaken, Taken
  <1>4. QED
    BY <1>2, <1>3 DEF BlocksOwnedOnce

LEMMA PastAll ==
    ASSUME NEW m \in Nat, NEW n \in Nat, NEW k, n >= m, k = n + 1
    PROVE  n < k /\ m <= k
  OBVIOUS

LEMMA OwnAllocBlock == ASSUME TypeInv, BlocksOwnedOnce, AllocBlock PROVE BlocksOwnedOnce'
  <1>1. next_block \in Nat /\ next_block' \in Nat
    BY AllocBlockType DEF TypeInv, TypeOK, MemTypes
  <1>2. blk' \in DataBlocks /\ blk' >= next_block /\ blk' \in Nat
    BY <1>1, NextCandidate DEF AllocBlock
  <1>3. /\ next_block' = blk' + 1 /\ blk' < next_block' /\ next_block <= next_block'
        /\ bbmp' = bbmp \cup {blk'}
    <2>1. next_block' = blk' + 1
      BY DEF AllocBlock
    <2>2. blk' < next_block' /\ next_block <= next_block'
      BY <1>1, <1>2, <2>1, PastAll
    <2>3. QED
      BY <2>1, <2>2 DEF AllocBlock, MarkBlock
  <1>4. UNCHANGED <<inodes, ptr, direct, ind, ind2, ib12, ib13>>
    BY DEF AllocBlock, tree
  <1>5. blk' \notin Taken /\ Taken \subseteq Taken' /\ blk' \in Taken'
    <2>1. blk' \in Taken'
      BY <1>2, <1>3 DEF Taken
    <2>0. ASSUME blk' \in Taken PROVE FALSE
      <3>1. blk' < next_block
        BY <2>0 DEF Taken
      <3>2. QED
        BY <1>1, <1>2, <3>1
    <2>2. ASSUME NEW b \in Taken PROVE b \in Taken'
      <3>1. b \in DataBlocks /\ b \in Nat /\ b \in bbmp /\ b < next_block
        BY DataBlockTypes DEF Taken
      <3>2. b < next_block'
        <4>1. next_block <= next_block'
          BY <1>3
        <4>2. QED
          BY <1>1, <3>1, <4>1
      <3>3. QED
        BY <1>3, <3>1, <3>2 DEF Taken
    <2>3. QED
      BY <2>0, <2>1, <2>2
  <1>6. Held \subseteq Taken /\ Held' \subseteq Held \cup {blk'} /\ blk' # 0
    BY <1>2, <1>4, DataBlockTypes DEF BlocksOwnedOnce, OwnedAreTaken, Held
  <1>7. blk' \notin Held
    BY <1>5, <1>6
  <1>8. DisjointInMemory'
    BY <1>4, <1>6, <1>7 DEF BlocksOwnedOnce, DisjointInMemory, Held
  <1>9. DisjointOnDisk'
    BY <1>4 DEF BlocksOwnedOnce, DisjointOnDisk
  <1>10. DisjointAcross'
    BY <1>4, <1>5, <1>6 DEF BlocksOwnedOnce, DisjointAcross, OwnedAreTaken
  <1>11. OwnedAreTaken'
    BY <1>4, <1>5, <1>6 DEF BlocksOwnedOnce, OwnedAreTaken
  <1>12. QED
    BY <1>8, <1>9, <1>10, <1>11 DEF BlocksOwnedOnce
\* A data block moves from blk to one of the sets of pointers in memory.
LEMMA OwnPutData ==
    ASSUME TypeInv, Writing, BlocksOwnedOnce, Put, PutDirect \/ PutSingle \/ PutDouble
    PROVE  BlocksOwnedOnce'
  <1>1. UNCHANGED <<inodes, ptr, bbmp, next_block, ib12, ib13, ind2>> /\ blk' = 0
    BY DEF Put, PutDirect, PutSingle, PutDouble, PutData, mem
  <1>2. \/ direct' = direct \cup {blk} /\ ind' = ind
        \/ direct' = direct /\ ind' = ind \cup {blk}
    BY DEF PutDirect, PutSingle, PutDouble
  <1>3. blk \in DataBlocks /\ blk # 0
    BY DataBlockTypes DEF Put, Writing
  <1>4. Held' = Held
    BY <1>1, <1>2, <1>3 DEF Held
  <1>5. DisjointInMemory'
    BY <1>1, <1>2, <1>3, DataBlockTypes, ZenonT(30)
      DEF BlocksOwnedOnce, DisjointInMemory, TypeInv, TypeOK, FileTypes
  <1>6. DisjointOnDisk' /\ DisjointAcross' /\ OwnedAreTaken'
    BY <1>1, <1>4 DEF BlocksOwnedOnce, DisjointOnDisk, DisjointAcross, OwnedAreTaken, Taken
  <1>7. QED
    BY <1>5, <1>6 DEF BlocksOwnedOnce

\* A buffer of pointers moves from memory into block blk, and blk becomes a
\* pointer itself.
LEMMA OwnPutPointers ==
    ASSUME TypeInv, Writing, BlocksOwnedOnce, Put, PutSingleRoot \/ PutInner \/ PutDoubleRoot
    PROVE  BlocksOwnedOnce'
  <1>1. UNCHANGED <<inodes, bbmp, next_block, direct>> /\ blk' = 0
    BY DEF Put, PutSingleRoot, PutInner, PutDoubleRoot, PutPointers, mem
  <1>2. blk \in DataBlocks /\ blk # 0
    BY DataBlockTypes DEF Put, Writing
  <1>3. PICK buffer : /\ ptr' = [ptr EXCEPT ![blk] = buffer]
                      /\ buffer \subseteq Held /\ blk \notin buffer
                      /\ Held' \subseteq Held \ buffer
                      /\ DisjointInMemory'
    <2>1. CASE PutSingleRoot
      <3>1. /\ ptr' = [ptr EXCEPT ![blk] = ind] /\ ind' = {} /\ ib12' = blk /\ ib12 = 0
            /\ UNCHANGED <<ind2, ib13>>
        BY <2>1 DEF PutSingleRoot, PutPointers
      <3>2. ind \subseteq Held /\ blk \notin ind /\ Held' \subseteq Held \ ind
        BY <1>1, <1>2, <3>1 DEF Held, BlocksOwnedOnce, DisjointInMemory
      <3>3. DisjointInMemory'
        BY <1>1, <1>2, <3>1, DataBlockTypes
          DEF BlocksOwnedOnce, DisjointInMemory, TypeInv, TypeOK, FileTypes
      <3>4. QED
        BY <3>1, <3>2, <3>3
    <2>2. CASE PutInner
      <3>1. /\ ptr' = [ptr EXCEPT ![blk] = ind] /\ ind' = {} /\ ind2' = ind2 \cup {blk}
            /\ UNCHANGED <<ib12, ib13>>
        BY <2>2 DEF PutInner, PutPointers
      <3>2. ind \subseteq Held /\ blk \notin ind /\ Held' \subseteq Held \ ind
        BY <1>1, <1>2, <3>1 DEF Held, BlocksOwnedOnce, DisjointInMemory
      <3>3. DisjointInMemory'
        BY <1>1, <1>2, <3>1, DataBlockTypes
          DEF BlocksOwnedOnce, DisjointInMemory, TypeInv, TypeOK, FileTypes
      <3>4. QED
        BY <3>1, <3>2, <3>3
    <2>3. CASE PutDoubleRoot
      <3>1. /\ ptr' = [ptr EXCEPT ![blk] = ind2] /\ ind2' = {} /\ ib13' = blk
            /\ UNCHANGED <<ind, ib12>>
        BY <2>3 DEF PutDoubleRoot, PutPointers
      <3>2. ind2 \subseteq Held /\ blk \notin ind2 /\ Held' \subseteq Held \ ind2
        BY <1>1, <1>2, <3>1 DEF Held, BlocksOwnedOnce, DisjointInMemory
      <3>3. DisjointInMemory'
        BY <1>1, <1>2, <3>1, DataBlockTypes
          DEF BlocksOwnedOnce, DisjointInMemory, TypeInv, TypeOK, FileTypes
      <3>4. QED
        BY <3>1, <3>2, <3>3
    <2>4. QED
      BY <2>1, <2>2, <2>3
  <1>4. \A b \in DataBlocks : ptr'[b] = IF b = blk THEN buffer ELSE ptr[b]
    BY <1>3 DEF TypeInv, TypeOK, DiskTypes
  <1>5. DisjointOnDisk'
    <2>1. \A b \in DataBlocks : buffer \cap ptr[b] = {}
      BY <1>3 DEF BlocksOwnedOnce, DisjointAcross
    <2>2. \A i \in AllInodes : buffer \cap inodes[i].blocks = {}
      BY <1>3 DEF BlocksOwnedOnce, DisjointAcross
    <2>3. \A b, c \in DataBlocks : b # c => ptr'[b] \cap ptr'[c] = {}
      BY <1>4, <2>1 DEF BlocksOwnedOnce, DisjointOnDisk
    <2>4. \A i \in AllInodes, b \in DataBlocks : inodes'[i].blocks \cap ptr'[b] = {}
      BY <1>1, <1>4, <2>2 DEF BlocksOwnedOnce, DisjointOnDisk
    <2>5. QED
      BY <1>1, <2>3, <2>4 DEF BlocksOwnedOnce, DisjointOnDisk
  <1>6. DisjointAcross'
    BY <1>1, <1>3, <1>4 DEF BlocksOwnedOnce, DisjointAcross
  <1>7. OwnedAreTaken'
    BY <1>1, <1>3, <1>4 DEF BlocksOwnedOnce, OwnedAreTaken, Taken
  <1>8. QED
    BY <1>3, <1>5, <1>6, <1>7 DEF BlocksOwnedOnce

LEMMA OwnPutDirBlock ==
    ASSUME TypeInv, Writing, BlocksOwnedOnce, Put, PutDirBlock
    PROVE  BlocksOwnedOnce'
  <1>1. UNCHANGED <<inodes, ptr, bbmp, next_block, ind, ind2, ib12, ib13>>
        /\ blk' = 0 /\ direct' = {blk}
    BY DEF Put, PutDirBlock, mem
  <1>2. blk \in DataBlocks /\ blk # 0
    BY DataBlockTypes DEF Put, Writing
  <1>3. Held' \subseteq Held
    BY <1>1, <1>2 DEF Held
  <1>4. DisjointInMemory'
    BY <1>1, <1>2, DataBlockTypes
      DEF BlocksOwnedOnce, DisjointInMemory, TypeInv, TypeOK, FileTypes
  <1>5. DisjointOnDisk' /\ DisjointAcross' /\ OwnedAreTaken'
    BY <1>1, <1>3 DEF BlocksOwnedOnce, DisjointOnDisk, DisjointAcross, OwnedAreTaken, Taken
  <1>6. QED
    BY <1>4, <1>5 DEF BlocksOwnedOnce

\* The inode takes over its pointers from memory.
LEMMA OwnWriteInode ==
    ASSUME TypeInv, BlocksOwnedOnce, WriteInode
    PROVE  BlocksOwnedOnce'
  <1>1. /\ UNCHANGED <<ptr, bbmp, next_block, ind, ind2, blk>>
        /\ direct' = {} /\ ib12' = 0 /\ ib13' = 0
        /\ inodes' = [inodes EXCEPT ![ino] = NewInode]
    BY DEF WriteInode, mem
  <1> DEFINE own == direct \cup ({ib12, ib13} \ {0})
  <1>2. \A i \in AllInodes : inodes'[i].blocks = IF i = ino THEN own ELSE inodes[i].blocks
    BY <1>1 DEF NewInode, TypeInv, TypeOK, DiskTypes
  <1>3. own \subseteq Held /\ Held' \subseteq Held \ own
    BY <1>1 DEF Held, BlocksOwnedOnce, DisjointInMemory
  <1> HIDE DEF own
  <1>4. DisjointInMemory'
    BY <1>1, DataBlockTypes DEF BlocksOwnedOnce, DisjointInMemory, TypeInv, TypeOK, FileTypes
  <1>5. DisjointOnDisk'
    <2>1. \A b \in DataBlocks : own \cap ptr[b] = {}
      BY <1>3 DEF BlocksOwnedOnce, DisjointAcross
    <2>2. \A i \in AllInodes : own \cap inodes[i].blocks = {}
      BY <1>3 DEF BlocksOwnedOnce, DisjointAcross
    <2>3. \A i, j \in AllInodes : i # j => inodes'[i].blocks \cap inodes'[j].blocks = {}
      BY <1>2, <2>2 DEF BlocksOwnedOnce, DisjointOnDisk
    <2>4. \A i \in AllInodes, b \in DataBlocks : inodes'[i].blocks \cap ptr'[b] = {}
      BY <1>1, <1>2, <2>1 DEF BlocksOwnedOnce, DisjointOnDisk
    <2>5. QED
      BY <1>1, <2>3, <2>4 DEF BlocksOwnedOnce, DisjointOnDisk
  <1>6. DisjointAcross'
    BY <1>1, <1>2, <1>3 DEF BlocksOwnedOnce, DisjointAcross
  <1>7. OwnedAreTaken'
    BY <1>1, <1>2, <1>3 DEF BlocksOwnedOnce, OwnedAreTaken, Taken
  <1>8. QED
    BY <1>4, <1>5, <1>6, <1>7 DEF BlocksOwnedOnce
LEMMA OwnInit == Init => BlocksOwnedOnce
  <1> SUFFICES ASSUME Init PROVE BlocksOwnedOnce
    OBVIOUS
  <1>1. Held = {}
    BY DEF Init, Held
  <1>2. \A b \in DataBlocks : ptr[b] = {}
    BY DEF Init
  <1>3. \A i \in AllInodes : inodes[i].blocks =
           IF i = RootIno THEN {RootBlock} ELSE IF i = LostFoundIno THEN {LostFoundBlock} ELSE {}
    BY DEF Init, NoInode
  <1>4. RootBlock # LostFoundBlock /\ {RootBlock, LostFoundBlock} \subseteq Taken
    <2>1. RootBlock \in Nat /\ LostFoundBlock = RootBlock + 1 /\ next_block = RootBlock + 2
      BY LayoutNats DEF Init, RootBlock, LostFoundBlock
    <2>2. RootBlock \in bbmp /\ LostFoundBlock \in bbmp
      BY DEF Init, FormatBlocks
    <2>3. QED
      BY <2>1, <2>2, FirstDirBlocks DEF Taken
  <1>5. DisjointInMemory
    BY DEF Init, DisjointInMemory
  <1>6. DisjointOnDisk /\ DisjointAcross
    BY <1>1, <1>2, <1>3, <1>4 DEF DisjointOnDisk, DisjointAcross
  <1>7. OwnedAreTaken
    BY <1>1, <1>2, <1>3, <1>4 DEF OwnedAreTaken
  <1>8. QED
    BY <1>5, <1>6, <1>7 DEF BlocksOwnedOnce

LEMMA OwnMake ==
    ASSUME TypeInv, BlocksOwnedOnce, Descend \/ LastDir \/ LastLeaf
    PROVE  BlocksOwnedOnce'
  <1>1. UNCHANGED <<inodes, ptr, bbmp, next_block>>
    BY DEF Descend, LastDir, LastLeaf, mem, disk, tree
  <1>2. CASE UNCHANGED file
    BY <1>1, <1>2, OwnersKept DEF file, OwnParts, TypeInv, TypeOK, MemTypes
  <1>3. CASE MakeDir
    BY <1>1, <1>3, OwnersDropped DEF MakeDir
  <1>4. CASE Make(req.kind)
    BY <1>1, <1>4, OwnersDropped
  <1>5. QED
    BY <1>2, <1>3, <1>4 DEF Descend, LastDir, LastLeaf

LEMMA OwnStep ==
    ASSUME TypeInv, Writing, BlocksOwnedOnce, [Next]_vars
    PROVE  BlocksOwnedOnce'
  <1>1. next_block \in Nat /\ next_block' \in Nat
    BY TypeStep DEF TypeInv, TypeOK, MemTypes
  <1>2. CASE Begin \/ NameRoot \/ Stray \/ AllocInode \/ Link \/ FlushSuper \/ FlushGdt
              \/ Stop \/ Finish \/ UNCHANGED vars
    <2>1. UNCHANGED <<inodes, ptr, bbmp, next_block, OwnParts>>
      BY <1>2 DEF Begin, NameRoot, Stray, AllocInode, Link, FlushSuper, FlushGdt, Stop, Finish,
         vars, mem, disk, tree, file, OwnParts
    <2>2. QED
      BY <1>1, <2>1, OwnersKept
  <1>3. CASE NoBlockLeft
    <2>1. UNCHANGED <<inodes, ptr, bbmp, OwnParts>>
      BY <1>3 DEF NoBlockLeft, disk, tree, file, OwnParts
    <2>2. next_block <= next_block'
      BY <1>1, <1>3, LayoutNats DEF NoBlockLeft
    <2>3. QED
      BY <1>1, <2>1, <2>2, OwnersKept
  <1>4. CASE CountParent
    <2>1. UNCHANGED <<ptr, bbmp, next_block, OwnParts>>
      BY <1>4 DEF CountParent, file, OwnParts
    <2>2. \A i \in AllInodes : inodes'[i].blocks = inodes[i].blocks
      BY <1>4 DEF CountParent, TypeInv, TypeOK, DiskTypes, Inode
    <2>3. QED
      BY <1>1, <2>1, <2>2, OwnersKept
  <1>5. CASE Put
    BY <1>5, OwnPutData, OwnPutPointers, OwnPutDirBlock DEF Put
  <1>6. QED
    BY <1>2, <1>3, <1>4, <1>5, OwnMake, OwnAllocBlock, OwnWriteInode DEF Next, Work, Over

\* No block is owned twice - by two files, by a file and a directory, by a
\* pointer block and what it lists - and no owned block is metadata, outside
\* the file system or free in the bitmap, at any step of any run of the
\* writer: df_ext2_alloc_block and every user of it in diskfmt.cyr.
THEOREM OwnedOnce == Spec => []BlocksOwnedOnce
  <1>1. Init => TypeInv /\ Writing /\ BlocksOwnedOnce
    BY InitTypes, OwnInit DEF Init, Writing
  <1>2. TypeInv /\ Writing /\ BlocksOwnedOnce /\ [Next]_vars
           => (TypeInv /\ Writing /\ BlocksOwnedOnce)'
    BY TypeStep, WritingStep, OwnStep
  <1>3. QED
    BY <1>1, <1>2, PTL DEF Spec
-----------------------------------------------------------------------------
(* The writer stays inside the file system while inodes last.  Needed for  *)
(* it: every inode number at hand was handed out before.                   *)
EntriesBelow == \A b \in DataBlocks : \A k \in DOMAIN ents[b] : ents[b][k].ino < next_ino

InodesBelow ==
    EntriesBelow /\ cur < next_ino /\ ino < next_ino /\ LostFoundIno < next_ino

LEMMA InodesBelowInit == Init => InodesBelow
  <1> SUFFICES ASSUME Init PROVE InodesBelow
    OBVIOUS
  <1>1. RootIno < next_ino /\ LostFoundIno < next_ino /\ 0 < next_ino
    BY LayoutNats, LayoutFits DEF Init, GroupsFit
  <1>2. ASSUME NEW b \in DataBlocks, NEW k \in DOMAIN ents[b] PROVE ents[b][k].ino < next_ino
    <2>1. CASE b = RootBlock
      <3>1. ents[b] = <<[name |-> ".", ino |-> RootIno, kind |-> "dir"],
                        [name |-> "..", ino |-> RootIno, kind |-> "dir"],
                        [name |-> "lost+found", ino |-> LostFoundIno, kind |-> "dir"]>>
        BY <2>1 DEF Init, RootEntries
      <3>2. QED
        BY <1>1, <3>1
    <2>2. CASE b # RootBlock /\ b = LostFoundBlock
      <3>1. ents[b] = <<[name |-> ".", ino |-> LostFoundIno, kind |-> "dir"],
                        [name |-> "..", ino |-> RootIno, kind |-> "dir"]>>
        BY <2>2 DEF Init, DotEntries
      <3>2. QED
        BY <1>1, <3>1
    <2>3. CASE b # RootBlock /\ b # LostFoundBlock
      <3>1. ents[b] = <<>>
        BY <2>3 DEF Init
      <3>2. QED
        BY <3>1
    <2>4. QED
      BY <2>1, <2>2, <2>3
  <1>3. QED
    BY <1>1, <1>2 DEF InodesBelow, EntriesBelow, Init

LEMMA InodesBelowStep ==
    ASSUME TypeInv, Writing, InodesBelow, [Next]_vars
    PROVE  InodesBelow' /\ next_ino <= next_ino'
  <1>1. next_ino \in Nat \ {0} /\ next_ino' \in Nat
    BY TypeStep DEF TypeInv, TypeOK, MemTypes
  <1>2. CASE UNCHANGED <<next_ino, ents, cur, ino>>
    BY <1>1, <1>2 DEF InodesBelow, EntriesBelow
  <1>3. CASE Begin
    BY <1>1, <1>3, LayoutNats, LayoutFits DEF Begin, InodesBelow, EntriesBelow, mem, disk, tree, GroupsFit
  <1>4. CASE Descend
    <2>1. CASE Lookup(cur, Head(rest)) # 0
      <3>1. PICK k \in DOMAIN ents[DirBlock(cur)] :
               Lookup(cur, Head(rest)) = ents[DirBlock(cur)][k].ino
        BY <1>4, <2>1, LookupType DEF Descend
      <3>2. DirBlock(cur) \in DataBlocks
        BY <1>4, DirBlockType DEF Descend
      <3>3. cur' < next_ino
        BY <1>4, <2>1, <3>1, <3>2 DEF Descend, InodesBelow, EntriesBelow
      <3>4. QED
        BY <1>1, <1>4, <3>3 DEF Descend, InodesBelow, EntriesBelow, mem, disk, tree
    <2>2. CASE Lookup(cur, Head(rest)) = 0
      <3>1. UNCHANGED <<next_ino, ents, cur, ino>>
        BY <1>4, <2>2 DEF Descend, mem, disk, tree
      <3>2. QED
        BY <1>2, <3>1
    <2>3. QED
      BY <2>1, <2>2
  <1>5. CASE AllocInode
    <2>1. next_ino' = next_ino + 1 /\ ino' = next_ino /\ UNCHANGED <<ents, cur>>
      BY <1>5 DEF AllocInode, tree
    <2>2. \A n \in Int : n < next_ino => n < next_ino'
      BY <1>1, <2>1
    <2>3. EntriesBelow'
      <3>1. ASSUME NEW b \in DataBlocks, NEW k \in DOMAIN ents[b]
            PROVE  ents[b][k].ino \in Int
        <4>1. ents[b] \in Seq(Entry)
          BY DEF TypeInv, TypeOK, DiskTypes
        <4>2. ents[b][k] \in Entry
          BY <4>1, SeqElement
        <4>3. QED
          BY <4>2, WriterNats DEF Entry, AllInodes
      <3>2. QED
        BY <2>1, <2>2, <3>1 DEF InodesBelow, EntriesBelow
    <2>4. cur \in Int /\ LostFoundIno \in Int
      BY LayoutNats DEF TypeInv, TypeOK, CallTypes, AllInodes
    <2>5. QED
      BY <1>1, <2>1, <2>2, <2>3, <2>4 DEF InodesBelow
  <1>6. CASE Put
    <2>1. UNCHANGED <<next_ino, cur, ino>>
      BY <1>6 DEF Put, mem, call
    <2>2. CASE PutDirBlock
      <3>1. ents' = [ents EXCEPT ![blk] = DotEntries(ino, cur)]
        BY <2>2 DEF PutDirBlock
      <3>2. ASSUME NEW b \in DataBlocks, NEW k \in DOMAIN ents'[b]
            PROVE  ents'[b][k].ino < next_ino
        <4>1. CASE b = blk
          <5>1. ents'[b] = DotEntries(ino, cur)
            BY <3>1, <4>1 DEF TypeInv, TypeOK, DiskTypes
          <5>2. QED
            BY <5>1 DEF DotEntries, InodesBelow
        <4>2. CASE b # blk
          <5>1. ents'[b] = ents[b]
            BY <3>1, <4>2 DEF TypeInv, TypeOK, DiskTypes
          <5>2. QED
            BY <5>1 DEF InodesBelow, EntriesBelow
        <4>3. QED
          BY <4>1, <4>2
      <3>3. QED
        BY <1>1, <2>1, <3>2 DEF InodesBelow, EntriesBelow
    <2>3. CASE ~PutDirBlock
      <3>1. ents' = ents
        BY <1>6, <2>3 DEF Put, PutDirect, PutSingle, PutSingleRoot, PutDouble, PutInner,
           PutDoubleRoot, PutData, PutPointers
      <3>2. QED
        BY <1>2, <2>1, <3>1
    <2>4. QED
      BY <2>2, <2>3
  <1>7. CASE Link
    <2> DEFINE d == DirBlock(cur)
               e == [name |-> Head(rest), ino |-> ino, kind |-> making]
    <2>1. UNCHANGED <<next_ino, cur, ino>>
      BY <1>7 DEF Link, mem, call
    <2>2. CASE Len(ents[d]) < DirCap
      <3>1. ents' = [ents EXCEPT ![d] = Append(@, e)] /\ e.ino = ino
        BY <1>7, <2>2 DEF Link, Publish
      <3> HIDE DEF d, e
      <3>2. ASSUME NEW b \in DataBlocks, NEW k \in DOMAIN ents'[b]
            PROVE  ents'[b][k].ino < next_ino
        <4>1. ents[b] \in Seq(Entry) /\ DOMAIN ents = DataBlocks
          BY DEF TypeInv, TypeOK, DiskTypes
        <4>2. CASE b = d
          <5>1. ents'[b] = Append(ents[b], e)
            BY <3>1, <4>1, <4>2
          <5>2. k \in 1 .. Len(ents[b]) + 1
            BY <4>1, <5>1
          <5>3. CASE k = Len(ents[b]) + 1
            BY <3>1, <4>1, <5>1, <5>3 DEF InodesBelow
          <5>4. CASE k # Len(ents[b]) + 1
            <6>1. k \in DOMAIN ents[b] /\ ents'[b][k] = ents[b][k]
              BY <4>1, <5>1, <5>2, <5>4
            <6>2. QED
              BY <6>1 DEF InodesBelow, EntriesBelow
          <5>5. QED
            BY <5>3, <5>4
        <4>3. CASE b # d
          <5>1. ents'[b] = ents[b]
            BY <3>1, <4>1, <4>3
          <5>2. QED
            BY <5>1 DEF InodesBelow, EntriesBelow
        <4>4. QED
          BY <4>2, <4>3
      <3>3. QED
        BY <1>1, <2>1, <3>2 DEF InodesBelow, EntriesBelow
    <2>3. CASE ~(Len(ents[d]) < DirCap)
      <3>1. ents' = ents
        BY <1>7, <2>3 DEF Link
      <3>2. QED
        BY <1>2, <2>1, <3>1
    <2>4. QED
      BY <2>2, <2>3
  <1>8. CASE FlushGdt
    <2>1. UNCHANGED <<next_ino, ents, ino>> /\ (cur' = cur \/ cur' = ino)
      BY <1>8 DEF FlushGdt, Return, mem, tree
    <2>2. QED
      BY <1>1, <2>1 DEF InodesBelow, EntriesBelow
  <1>9. CASE NameRoot \/ LastDir \/ LastLeaf \/ Stray \/ AllocBlock \/ NoBlockLeft
              \/ WriteInode \/ CountParent \/ FlushSuper \/ Stop \/ Finish \/ UNCHANGED vars
    <2>1. UNCHANGED <<next_ino, ents, cur, ino>>
      BY <1>9 DEF NameRoot, LastDir, LastLeaf, Stray, AllocBlock, NoBlockLeft, WriteInode,
         CountParent, FlushSuper, Stop, Finish, vars, mem, disk, tree, call
    <2>2. QED
      BY <1>2, <2>1
  <1>10. QED
    BY <1>3, <1>4, <1>5, <1>6, <1>7, <1>8, <1>9 DEF Next, Work, Over

\* A write to a block of the file system tramples nothing.
LEMMA TouchInside ==
    ASSUME NEW bn \in Blocks, trampled = {}, Touch(bn)
    PROVE  trampled' = {}
  BY DEF Touch

LEMMA InsideStep ==
    ASSUME TypeInv, Writing, InodesBelow, StaysInside, [Next]_vars
    PROVE  StaysInside'
  <1>1. next_ino \in Nat \ {0} /\ next_ino' \in Nat /\ next_ino <= next_ino'
    BY TypeStep, InodesBelowStep DEF TypeInv, TypeOK, MemTypes
  <1>2. IPG * G \in Nat
    BY LayoutNats
  <1> SUFFICES ASSUME next_ino' <= IPG * G + 1
               PROVE  trampled' = {}
    BY DEF StaysInside
  <1>3. next_ino <= IPG * G + 1
    BY <1>1, <1>2
  <1>4. trampled = {}
    BY <1>3 DEF StaysInside
  <1>5. ASSUME NEW i \in AllInodes, i < next_ino PROVE InodeBlock(i) \in Blocks
    <2>1. i \in Inodes
      BY <1>1, <1>2, <1>3, <1>5, WriterNats DEF Inodes, AllInodes
    <2>2. QED
      BY <2>1, InodeBlockInside
  <1>6. CASE AllocInode
    <2>1. next_ino' = next_ino + 1
      BY <1>6 DEF AllocInode
    <2>2. next_ino \in Inodes
      BY <1>1, <1>2, <2>1 DEF Inodes
    <2>3. InodeBitmap(GroupOfInode(next_ino)) \in Blocks
      BY <2>2, InodeHasGroup, BitmapsInside
    <2>4. QED
      BY <1>4, <1>6, <2>3, TouchInside DEF AllocInode
  <1>7. CASE AllocBlock
    <2>1. blk' \in Blocks
      BY <1>7, NextCandidate, DataBlockTypes DEF AllocBlock, TypeInv, TypeOK, MemTypes
    <2>2. BlockBitmap(GroupOfBlock(blk')) \in Blocks
      BY <2>1, BlockHasGroup, BitmapsInside
    <2>3. QED
      BY <1>4, <1>7, <2>2, TouchInside DEF AllocBlock
  <1>8. CASE Put
    <2>1. blk \in Blocks
      BY <1>8, DataBlockTypes DEF Put, Writing
    <2>2. QED
      BY <1>4, <1>8, <2>1, TouchInside DEF Put
  <1>9. CASE WriteInode
    <2>1. ino \in AllInodes /\ ino < next_ino
      BY <1>9 DEF WriteInode, TypeInv, CallOK, Busy, InodesBelow
    <2>2. QED
      BY <1>4, <1>5, <1>9, <2>1, TouchInside DEF WriteInode
  <1>10. CASE Link
    <2>1. DirBlock(cur) \in Blocks
      BY <1>10, DirBlockType, DataBlockTypes DEF Link
    <2>2. QED
      BY <1>4, <1>10, <2>1, TouchInside DEF Link
  <1>11. CASE CountParent
    <2>1. cur \in AllInodes /\ cur < next_ino
      BY DEF TypeInv, TypeOK, CallTypes, InodesBelow
    <2>2. QED
      BY <1>4, <1>5, <1>11, <2>1, TouchInside DEF CountParent
  <1>12. CASE FlushSuper
    <2>1. SuperBlock(g) \in Blocks
      BY BitmapsInside DEF TypeInv, TypeOK, ControlTypes
    <2>2. QED
      BY <1>4, <1>12, <2>1, TouchInside DEF FlushSuper
  <1>13. CASE FlushGdt
    <2>1. GdtBlock(g, t) \in Blocks
      BY GdtInside DEF TypeInv, TypeOK, ControlTypes
    <2>2. QED
      BY <1>4, <1>13, <2>1, TouchInside DEF FlushGdt
  <1>14. CASE UNCHANGED trampled
    BY <1>4, <1>14
  <1>15. QED
    BY <1>6, <1>7, <1>8, <1>9, <1>10, <1>11, <1>12, <1>13, <1>14
      DEF Next, Work, Begin, Descend, NameRoot, LastDir, LastLeaf, Stray, NoBlockLeft, Stop, Finish,
          Over, vars, disk

\* Until df_ext2_alloc_inode hands out a number past the table's end, no block
\* behind the file system's last one is written - whatever the geometry, the
\* partial tail group included (df_ext2_iloc, _mark_block, _mark_inode,
\* _flush_meta of diskfmt.cyr).
THEOREM Inside == Spec => []StaysInside
  <1>1. Init => TypeInv /\ Writing /\ InodesBelow /\ StaysInside
    BY InitTypes, InodesBelowInit DEF Init, Writing, StaysInside
  <1>2. TypeInv /\ Writing /\ InodesBelow /\ StaysInside /\ [Next]_vars
           => (TypeInv /\ Writing /\ InodesBelow /\ StaysInside)'
    BY TypeStep, WritingStep, InodesBelowStep, InsideStep
  <1>3. QED
    BY <1>1, <1>2, PTL DEF Spec
-----------------------------------------------------------------------------
(* What is on disk under a name stays as it is.  The reason is that all    *)
(* that is written in place is still nameless: a block that the writer     *)
(* has just taken holds no entries and belongs to nobody else, and no      *)
(* entry leads to the inode in progress before df_ext2_link_dirent.        *)
\* Blocks that were never handed out hold no entries, nor does the one at hand.
Unwritten ==
    /\ \A b \in DataBlocks : ents[b] # <<>> => b < next_block
    /\ pc = "put" => ents[blk] = <<>>

\* No entry leads to the inode in progress.
Unnamed ==
    pc \in {"fill", "put"} =>
        \A d \in Dirs : \A k \in DOMAIN EntriesOf(d) : EntriesOf(d)[k].ino # ino

Hidden == Unwritten /\ Unnamed

\* All that the invariants proved before say.
Sound == TypeInv /\ Writing /\ BlocksOwnedOnce /\ InodesBelow

LEMMA SoundStep == ASSUME Sound, [Next]_vars PROVE Sound'
  BY TypeStep, WritingStep, OwnStep, InodesBelowStep DEF Sound

LEMMA DirTypes ==
    ASSUME TypeInv, NEW d \in Dirs
    PROVE  /\ IsDir(d) /\ DirBlock(d) \in DataBlocks /\ DirBlock(d) \in inodes[d].blocks
           /\ EntriesOf(d) = ents[DirBlock(d)] /\ EntriesOf(d) \in Seq(Entry)
  <1>1. IsDir(d)
    BY DEF Dirs, IsDir
  <1>2. DirBlock(d) \in DataBlocks /\ DirBlock(d) \in inodes[d].blocks
    BY <1>1, DirBlockType
  <1>3. ents[DirBlock(d)] \in Seq(Entry)
    BY <1>2 DEF TypeInv, TypeOK, DiskTypes
  <1> QED
    BY <1>1, <1>2, <1>3 DEF EntriesOf

\* The block at hand is no directory's.
LEMMA HeldIsForeign ==
    ASSUME TypeInv, Writing, BlocksOwnedOnce, pc = "put", NEW i \in AllInodes
    PROVE  /\ blk \in DataBlocks /\ blk \notin inodes[i].blocks
           /\ \A b \in DataBlocks : blk \notin ptr[b]
           /\ blk < next_block
  <1>1. blk \in DataBlocks
    BY DEF Writing
  <1>2. blk \in Held
    BY <1>1, DataBlockTypes, LayoutNats DEF Held, DataBlocks, IsData, Metapg
  <1> QED
    BY <1>1, <1>2 DEF BlocksOwnedOnce, DisjointAcross, OwnedAreTaken, Taken
-----------------------------------------------------------------------------
(* Hidden is invariant.                                                    *)

LEMMA HiddenInit == Init => Hidden
  <1> SUFFICES ASSUME Init PROVE Hidden
    OBVIOUS
  <1>1. RootBlock < next_block /\ LostFoundBlock < next_block
    BY LayoutNats DEF Init, RootBlock, LostFoundBlock
  <1>2. ASSUME NEW b \in DataBlocks, ents[b] # <<>> PROVE b < next_block
    <2>1. b = RootBlock \/ b = LostFoundBlock
      BY <1>2 DEF Init
    <2> QED
      BY <1>1, <2>1
  <1> QED
    BY <1>2 DEF Hidden, Unwritten, Unnamed, Init

LEMMA UnwrittenStep ==
    ASSUME Sound, Unwritten, [Next]_vars
    PROVE  Unwritten'
  <1> USE DEF Sound
  <1>1. /\ next_block \in Nat /\ next_block' \in Nat
        /\ ents \in [DataBlocks -> Seq(Entry)] /\ \A b \in DataBlocks : b \in Nat
    BY TypeStep, DataBlockTypes DEF TypeInv, TypeOK, MemTypes, DiskTypes
  <1>2. CASE AllocBlock
    <2>1. blk' \in DataBlocks /\ blk' >= next_block /\ next_block' = blk' + 1 /\ ents' = ents
      BY <1>1, <1>2, NextCandidate DEF AllocBlock, tree
    <2>2. ents[blk'] = <<>>
      BY <1>1, <2>1 DEF Unwritten
    <2>3. \A b \in DataBlocks : b < next_block => b < next_block'
      BY <1>1, <2>1
    <2> QED
      BY <2>1, <2>2, <2>3 DEF Unwritten
  <1>3. CASE NoBlockLeft
    <2>1. next_block <= next_block' /\ ents' = ents /\ pc' # "put"
      BY <1>1, <1>3, LayoutNats DEF NoBlockLeft, disk, tree, Fail, Goto
    <2>2. \A b \in DataBlocks : b < next_block => b < next_block'
      BY <1>1, <2>1
    <2> QED
      BY <2>1, <2>2 DEF Unwritten
  <1>4. CASE Put
    <2>1. next_block' = next_block /\ pc' = "fill" /\ pc = "put"
      BY <1>4 DEF Put, mem, Goto
    <2>2. CASE ents' = ents
      BY <2>1, <2>2 DEF Unwritten
    <2>3. CASE PutDirBlock
      <3>1. \A b \in DataBlocks : b # blk => ents'[b] = ents[b]
        BY <1>1, <2>3 DEF PutDirBlock
      <3>2. blk < next_block
        BY <2>1, HeldIsForeign, WriterNats DEF AllInodes, TypeInv, TypeOK, CallTypes
      <3> QED
        BY <2>1, <3>1, <3>2 DEF Unwritten
    <2> QED
      BY <1>4, <2>2, <2>3 DEF Put, PutDirect, PutSingle, PutSingleRoot, PutDouble, PutInner,
         PutDoubleRoot, PutData, PutPointers
  <1>5. CASE Link
    <2> DEFINE d == DirBlock(cur)
    <2>1. next_block' = next_block /\ pc' # "put"
      BY <1>5 DEF Link, mem, Goto, Fail, AfterLink
    <2>2. \A b \in DataBlocks : b # d => ents'[b] = ents[b]
      BY <1>1, <1>5 DEF Link
    <2>3. d \in inodes[cur].blocks /\ cur \in AllInodes
      BY <1>5, DirBlockType DEF Link, IsDir
    <2>4. d < next_block
      BY <2>3 DEF BlocksOwnedOnce, OwnedAreTaken, Taken
    <2> HIDE DEF d
    <2> QED
      BY <2>1, <2>2, <2>4 DEF Unwritten
  <1>6. CASE UNCHANGED <<next_block, ents>> /\ pc' # "put"
    BY <1>6 DEF Unwritten
  <1>7. CASE UNCHANGED <<next_block, ents, pc, blk>>
    BY <1>7 DEF Unwritten
  <1> QED
    BY <1>2, <1>3, <1>4, <1>5, <1>6, <1>7 DEF Next, Work, Begin, Descend, NameRoot, LastDir,
       LastLeaf, Stray, AllocInode, WriteInode, CountParent, FlushSuper, FlushGdt,
       Return, Answer, Stop, Finish, Over, Make, MakeDir, Goto, Fail, vars, mem, disk, tree, file

LEMMA UnnamedStep ==
    ASSUME Sound, Unnamed, [Next]_vars
    PROVE  Unnamed'
  <1> USE DEF Sound
  <1>1. CASE AllocInode
    <2>1. ino' = next_ino /\ inodes' = inodes /\ ents' = ents
      BY <1>1 DEF AllocInode, tree
    <2>2. ASSUME NEW d \in Dirs, NEW k \in DOMAIN EntriesOf(d)
          PROVE  EntriesOf(d)[k].ino # next_ino
      <3>1. EntriesOf(d)[k].ino < next_ino
        BY DirTypes DEF InodesBelow, EntriesBelow
      <3>2. next_ino \in Nat
        BY DEF TypeInv, TypeOK, MemTypes
      <3> QED
        BY <3>1, <3>2
    <2> QED
      BY <2>1, <2>2 DEF Unnamed, Dirs, EntriesOf, DirBlock
  <1>2. CASE AllocBlock
    <2>1. UNCHANGED <<inodes, ents, ino>> /\ pc = "fill"
      BY <1>2 DEF AllocBlock, tree, call
    <2> QED
      BY <2>1 DEF Unnamed, Dirs, EntriesOf, DirBlock
  <1>3. CASE Put
    <2>1. UNCHANGED <<inodes, ino>> /\ pc = "put"
      BY <1>3 DEF Put, call, PutDirect, PutSingle, PutSingleRoot, PutDouble, PutInner,
         PutDoubleRoot, PutDirBlock, PutData, PutPointers
    <2>2. ASSUME NEW d \in Dirs PROVE ents'[DirBlock(d)] = ents[DirBlock(d)]
      <3>1. CASE ents' = ents
        BY <3>1
      <3>2. CASE PutDirBlock
        <4>1. DirBlock(d) # blk /\ DirBlock(d) \in DataBlocks
          BY <2>1, DirTypes, HeldIsForeign DEF Dirs
        <4> QED
          BY <3>2, <4>1 DEF PutDirBlock, TypeInv, TypeOK, DiskTypes
      <3> QED
        BY <1>3, <3>1, <3>2 DEF Put, PutDirect, PutSingle, PutSingleRoot, PutDouble, PutInner,
           PutDoubleRoot, PutData, PutPointers
    <2>3. Dirs' = Dirs /\ \A d \in Dirs : EntriesOf(d)' = EntriesOf(d)
      BY <2>1, <2>2 DEF Dirs, EntriesOf, DirBlock
    <2> QED
      BY <2>1, <2>3 DEF Unnamed
  <1>4. CASE pc' \notin {"fill", "put"}
    BY <1>4 DEF Unnamed
  <1>5. CASE UNCHANGED <<pc, inodes, ents, ino>>
    BY <1>5 DEF Unnamed, Dirs, EntriesOf, DirBlock
  <1> QED
    BY <1>1, <1>2, <1>3, <1>4, <1>5 DEF Next, Work, Begin, Descend, NameRoot, LastDir,
       LastLeaf, Stray, NoBlockLeft, WriteInode, Link, AfterLink, CountParent, FlushSuper, FlushGdt,
       Return, Answer, Stop, Finish, Over, Make, MakeDir, Goto, Fail, vars, disk, tree, call
-----------------------------------------------------------------------------
(* What a step does to what is published.                                  *)

AppendsOnly == \A b \in DataBlocks : SubSeq(ents'[b], 1, Len(ents[b])) = ents[b]

LEMMA EntriesStay ==
    ASSUME Sound, Unwritten, [Next]_vars
    PROVE  AppendsOnly
  <1> USE DEF Sound
  <1>1. ents \in [DataBlocks -> Seq(Entry)] /\ ents' \in [DataBlocks -> Seq(Entry)]
    BY TypeStep DEF TypeInv, TypeOK, DiskTypes
  <1>2. ASSUME NEW b \in DataBlocks, ents'[b] = ents[b]
        PROVE  SubSeq(ents'[b], 1, Len(ents[b])) = ents[b]
    BY <1>1, <1>2, SubSeqFull
  <1>3. CASE PutDirBlock /\ pc = "put"
    <2>1. ASSUME NEW b \in DataBlocks, b # blk PROVE ents'[b] = ents[b]
      BY <1>1, <1>3, <2>1 DEF PutDirBlock
    <2>2. blk \in DataBlocks /\ ents[blk] = <<>>
      BY <1>3 DEF Writing, Unwritten
    <2>3. SubSeq(ents'[blk], 1, Len(ents[blk])) = ents[blk]
      <3>1. Len(ents[blk]) = 0
        BY <2>2
      <3> QED
        BY <1>1, <2>2, <3>1, SubSeqEmpty
    <2> QED
      BY <1>2, <2>1, <2>2, <2>3 DEF AppendsOnly
  <1>4. CASE Link
    <2> DEFINE d == DirBlock(cur)
               e == [name |-> Head(rest), ino |-> ino, kind |-> making]
    <2>1. d \in DataBlocks
      BY <1>4, DirBlockType DEF Link
    <2>2. ents' = ents \/ ents' = [ents EXCEPT ![d] = Append(@, e)]
      BY <1>4 DEF Link, Publish
    <2> HIDE DEF d, e
    <2>3. CASE ents' = ents
      BY <1>2, <2>3 DEF AppendsOnly
    <2>4. CASE ents' = [ents EXCEPT ![d] = Append(@, e)]
      <3>1. ents'[d] = Append(ents[d], e) /\ \A b \in DataBlocks : b # d => ents'[b] = ents[b]
        BY <1>1, <2>1, <2>4
      <3>2. ents[d] \in Seq(Entry) /\ ents'[d] \in Seq(Entry)
        BY <1>1, <2>1
      <3>3. SubSeq(ents'[d], 1, Len(ents[d])) = ents[d]
        <4>1. Len(ents'[d]) = Len(ents[d]) + 1 /\ Len(ents[d]) \in Nat
          BY <3>1, <3>2
        <4>2. \A n \in 1 .. Len(ents[d]) : ents'[d][n] = ents[d][n]
          BY <3>1, <3>2
        <4> QED
          BY <3>2, <4>1, <4>2
      <3> QED
        BY <1>2, <2>1, <3>1, <3>3 DEF AppendsOnly
    <2> QED
      BY <2>2, <2>3, <2>4
  <1>5. CASE ents' = ents
    BY <1>2, <1>5 DEF AppendsOnly
  <1> QED
    BY <1>3, <1>4, <1>5 DEF Next, Work, Begin, Descend, NameRoot, LastDir,
       LastLeaf, Stray, AllocInode, AllocBlock, NoBlockLeft, Put, PutDirect, PutSingle,
       PutSingleRoot, PutDouble, PutInner, PutDoubleRoot, PutData, PutPointers, WriteInode,
       CountParent, FlushSuper, FlushGdt, Stop, Finish, Over, vars, disk, tree

\* The inode that an entry names, and what is reached from it.
LEMMA EntryInode ==
    ASSUME TypeInv, NEW e \in Entries
    PROVE  /\ At(e).ino \in AllInodes
           /\ e[1] \in Dirs /\ e[2] \in DOMAIN EntriesOf(e[1])
           /\ inodes[At(e).ino].blocks \subseteq DataBlocks
  <1>1. e[1] \in Dirs /\ e[2] \in DOMAIN EntriesOf(e[1])
    BY DEF Entries
  <1>2. At(e) \in Entry
    BY <1>1, DirTypes, SeqElement DEF At
  <1>3. At(e).ino \in AllInodes
    BY <1>2 DEF Entry
  <1> QED
    BY <1>1, <1>3 DEF TypeInv, TypeOK, DiskTypes, Inode

LEMMA InodesStay ==
    ASSUME Sound, Unnamed, [Next]_vars, NEW e \in Entries
    PROVE  /\ inodes'[At(e).ino].blocks = inodes[At(e).ino].blocks
           /\ inodes'[At(e).ino].kind = inodes[At(e).ino].kind
  <1> USE DEF Sound
  <1>1. PICK i \in AllInodes : i = At(e).ino
    BY EntryInode
  <1>2. inodes \in [AllInodes -> Inode]
    BY DEF TypeInv, TypeOK, DiskTypes
  <1>3. CASE WriteInode
    <2>1. At(e).ino # ino
      BY <1>3, EntryInode DEF WriteInode, Unnamed, At
    <2>2. inodes' = [inodes EXCEPT ![ino] = NewInode]
      BY <1>3 DEF WriteInode
    <2> QED
      BY <1>1, <1>2, <2>1, <2>2
  <1>4. CASE CountParent
    <2>1. inodes' = [inodes EXCEPT ![cur].links = @ + 1]
      BY <1>4 DEF CountParent
    <2> QED
      BY <1>1, <1>2, <2>1 DEF Inode
  <1>5. CASE inodes' = inodes
    BY <1>5
  <1> QED
    BY <1>3, <1>4, <1>5 DEF Next, Work, Begin, Descend, NameRoot, LastDir,
       LastLeaf, Stray, AllocInode, AllocBlock, NoBlockLeft, Put, PutDirect, PutSingle,
       PutSingleRoot, PutDouble, PutInner, PutDoubleRoot, PutDirBlock, PutData, PutPointers,
       Link, FlushSuper, FlushGdt, Stop, Finish, Over, vars, disk, tree

LEMMA PointersStay ==
    ASSUME Sound, [Next]_vars, NEW i \in AllInodes, NEW b \in Reach(i)
    PROVE  ptr'[b] = ptr[b]
  <1> USE DEF Sound
  <1>1. /\ ptr \in [DataBlocks -> SUBSET DataBlocks]
        /\ inodes[i].blocks \subseteq DataBlocks
    BY DEF TypeInv, TypeOK, DiskTypes, Inode
  <1>2. Listed(inodes[i].blocks) \subseteq DataBlocks
    BY <1>1 DEF Listed
  <1>3. b \in DataBlocks /\ (b \in inodes[i].blocks \/ \E c \in DataBlocks : b \in ptr[c])
    BY <1>1, <1>2 DEF Reach, Listed
  <1>4. CASE Put
    <2>1. b # blk
      BY <1>3, <1>4, HeldIsForeign DEF Put
    <2>2. ptr' = ptr \/ \E S : ptr' = [ptr EXCEPT ![blk] = S]
      BY <1>4 DEF Put, PutDirect, PutSingle, PutSingleRoot, PutDouble, PutInner,
         PutDoubleRoot, PutDirBlock, PutData, PutPointers
    <2> QED
      BY <1>1, <1>3, <2>1, <2>2
  <1>5. CASE ptr' = ptr
    BY <1>5
  <1> QED
    BY <1>4, <1>5 DEF Next, Work, Begin, Descend, NameRoot, LastDir,
       LastLeaf, Stray, AllocInode, AllocBlock, NoBlockLeft, WriteInode, CountParent,
       Link, FlushSuper, FlushGdt, Stop, Finish, Over, vars, disk, tree

\* What is on disk under a name stays: directories only grow at their end, and
\* neither the inode that an entry leads to (but for a directory's link count)
\* nor a pointer block reached from it changes, whatever is written later and
\* wherever a run stops (df_ext2_add_file_sz, _mkdir, _link_dirent).
THEOREM Published == Spec => PublishedStays
  <1>1. Init => Sound /\ Hidden
    BY InitTypes, OwnInit, InodesBelowInit, HiddenInit DEF Init, Writing, Sound
  <1>2. Sound /\ Hidden /\ [Next]_vars => (Sound /\ Hidden)'
    BY SoundStep, UnwrittenStep, UnnamedStep DEF Hidden
  <1> DEFINE Stays ==
          /\ \A b \in DataBlocks : SubSeq(ents'[b], 1, Len(ents[b])) = ents[b]
          /\ \A e \in Entries : LET i == At(e).ino IN
                /\ inodes'[i].blocks = inodes[i].blocks
                /\ inodes'[i].kind = inodes[i].kind
                /\ \A b \in Reach(i) : ptr'[b] = ptr[b]
  <1>3. Sound /\ Hidden /\ [Next]_vars => Stays
    BY EntriesStay, EntryInode, InodesStay, PointersStay DEF Hidden, Sound, AppendsOnly
  <1>4. Sound /\ Hidden /\ [Next]_vars => [Stays]_vars
    BY <1>3
  <1> QED
    BY <1>1, <1>2, <1>4, PTL DEF Spec, PublishedStays

-----------------------------------------------------------------------------
(* What a name leads to is complete before there is the name.  Inodes      *)
(* first: those not handed out are blank, those in use are marked, and a   *)
(* directory is only made in a directory.                                  *)
Making == {"alloc_ino", "fill", "put"}

InodesReady ==
    /\ \A i \in AllInodes : i >= next_ino => inodes[i].kind = "none"
    /\ Used \subseteq ibmp
    /\ pc \in {"fill", "put"} => inodes[ino].kind = "none" /\ ino \in ibmp
    /\ pc = "link" => inodes[ino].kind = making
    /\ pc \in Making /\ making = "dir" => IsDir(cur)

LEMMA InodesReadyInit == Init => InodesReady
  <1> SUFFICES ASSUME Init PROVE InodesReady
    OBVIOUS
  <1>1. \A i \in AllInodes : inodes[i].kind # "none" => i = RootIno \/ i = LostFoundIno
    BY DEF Init, NoInode
  <1>2. RootIno \in 1 .. LostFoundIno /\ LostFoundIno \in 1 .. LostFoundIno
        /\ LostFoundIno < LostFoundIno + 1 /\ RootIno < LostFoundIno + 1
    BY LayoutNats, LayoutFits DEF GroupsFit
  <1>3. ASSUME NEW i \in AllInodes, i >= next_ino PROVE inodes[i].kind = "none"
    <2>1. i # RootIno /\ i # LostFoundIno
      BY <1>2, <1>3 DEF Init, AllInodes
    <2> QED
      BY <1>1, <2>1
  <1> QED
    BY <1>1, <1>2, <1>3 DEF InodesReady, Used, Init, Making

LEMMA InodesReadyStep ==
    ASSUME Sound, InodesReady, [Next]_vars
    PROVE  InodesReady'
  <1> USE DEF Sound
  <1>1. /\ inodes \in [AllInodes -> Inode] /\ next_ino \in Nat /\ AllInodes \subseteq Nat
        /\ cur \in AllInodes /\ next_ino \in Nat \ {0}
    BY WriterNats DEF TypeInv, TypeOK, DiskTypes, MemTypes, CallTypes, AllInodes
  <1>2. CASE Descend \/ LastDir \/ LastLeaf
    <2>1. UNCHANGED <<next_ino, inodes, ibmp, ino>> /\ pc' \notin {"fill", "put", "link"}
      BY <1>2 DEF Descend, LastDir, LastLeaf, Make, MakeDir, Answer, Fail, Goto, mem, disk, tree
    <2>2. pc' = "alloc_ino" /\ making' = "dir" => IsDir(cur) /\ cur' = cur
      BY <1>2 DEF Descend, LastDir, LastLeaf, Make, MakeDir, Answer, Fail, Goto
    <2> QED
      BY <2>1, <2>2 DEF InodesReady, Used, IsDir, Making
  <1>3. CASE AllocInode
    <2>1. /\ ino' = next_ino /\ next_ino' = next_ino + 1 /\ ibmp' = ibmp \cup {next_ino}
          /\ pc = "alloc_ino" /\ pc' = "fill"
          /\ UNCHANGED <<inodes, making, cur>> /\ next_ino \in AllInodes
      BY <1>1, <1>3 DEF AllocInode, MarkInode, tree, Goto, AllInodes
    <2>2. \A i \in AllInodes : i >= next_ino' => i >= next_ino
      BY <1>1, <2>1
    <2>3. inodes[next_ino].kind = "none"
      BY <1>1, <2>1 DEF InodesReady
    <2> QED
      BY <2>1, <2>2, <2>3 DEF InodesReady, Used, IsDir, Making
  <1>4. CASE WriteInode
    <2>1. /\ inodes' = [inodes EXCEPT ![ino] = NewInode] /\ pc = "fill" /\ pc' = "link"
          /\ UNCHANGED <<next_ino, ibmp, ino, making, cur>>
      BY <1>4 DEF WriteInode, mem, call, Goto
    <2>2. ino \in AllInodes /\ ino < next_ino /\ ino \in ibmp
      BY <2>1 DEF TypeInv, CallOK, Busy, InodesBelow, InodesReady
    <2>3. inodes'[ino].kind = making /\ \A i \in AllInodes : i # ino => inodes'[i] = inodes[i]
      BY <1>1, <2>1, <2>2 DEF NewInode
    <2>4. \A i \in AllInodes : i >= next_ino => i # ino
      BY <1>1, <2>2
    <2> QED
      BY <2>1, <2>2, <2>3, <2>4 DEF InodesReady, Used, Making
  <1>5. CASE CountParent
    <2>1. /\ inodes' = [inodes EXCEPT ![cur].links = @ + 1] /\ pc' = "sb"
          /\ UNCHANGED <<next_ino, ibmp>>
      BY <1>5 DEF CountParent, Goto
    <2>2. \A i \in AllInodes : inodes'[i].kind = inodes[i].kind
      BY <1>1, <2>1 DEF Inode
    <2> QED
      BY <2>1, <2>2 DEF InodesReady, Used, Making
  <1>6. CASE AllocBlock \/ Put
    <2>1. UNCHANGED <<next_ino, inodes, ibmp, ino, making, cur>>
      BY <1>6 DEF AllocBlock, Put, mem, call, tree, PutDirect, PutSingle, PutSingleRoot, PutDouble,
         PutInner, PutDoubleRoot, PutDirBlock, PutData, PutPointers
    <2>2. pc \in {"fill", "put"} /\ pc' \in {"fill", "put"}
      BY <1>6 DEF AllocBlock, Put, Goto
    <2> QED
      BY <2>1, <2>2 DEF InodesReady, Used, IsDir, Making
  <1>7. CASE UNCHANGED <<next_ino, inodes, ibmp>> /\ pc' \notin Making \cup {"link"}
    BY <1>7 DEF InodesReady, Used, Making
  <1>8. CASE UNCHANGED vars
    BY <1>8 DEF vars, mem, disk, tree, call, InodesReady, Used, IsDir
  <1> QED
    BY <1>2, <1>3, <1>4, <1>5, <1>6, <1>7, <1>8 DEF Next, Work, Begin, NameRoot, Stray,
       NoBlockLeft, Link, AfterLink, FlushSuper, FlushGdt, Return, Answer, Stop, Finish, Over,
       Goto, Fail, mem, disk, tree, Making
-----------------------------------------------------------------------------
(* Files: the blocks of an inode or a pointer block hold data, or pointers *)
(* to blocks that do; so do those that the writer still has in memory, and *)
(* a buffer is not empty when it is written.                               *)
Backed(b) == b \in body \/ ptr[b] # {}

BlocksBacked ==
    /\ \A i \in AllInodes : inodes[i].kind = "file" => \A b \in inodes[i].blocks : Backed(b)
    /\ \A b \in DataBlocks : \A c \in ptr[b] : Backed(c)

BuffersBacked ==
    pc \in Making /\ making = "file" =>
        /\ \A b \in direct \cup ind \cup ind2 \cup ({ib12, ib13} \ {0}) : Backed(b)
        /\ ib12 = 0 /\ L > ND => ind # {}
        /\ ib13 = 0 /\ L > ND + NP => ind \cup ind2 # {}
        /\ pc = "put" => ~Filled

LEMMA BackedInit == Init => BlocksBacked /\ BuffersBacked
  BY DEF Init, BlocksBacked, BuffersBacked, Making, NoInode

\* Backing is not lost when blocks gain data or pointers.
LEMMA BackedGrows ==
    ASSUME body \subseteq body', \A b \in DataBlocks : ptr[b] # {} => ptr'[b] # {},
           NEW b \in DataBlocks, Backed(b)
    PROVE  Backed(b)'
  BY DEF Backed

LEMMA HeldTypes ==
    TypeInv => /\ direct \subseteq DataBlocks /\ ind \subseteq DataBlocks
               /\ ind2 \subseteq DataBlocks /\ {ib12, ib13} \ {0} \subseteq DataBlocks
               /\ L \in Nat /\ req.size \in Nat /\ ptr \in [DataBlocks -> SUBSET DataBlocks]
               /\ ND \in Nat \ {0} /\ NP \in Nat \ {0}
  BY WriterBounds DEF TypeInv, TypeOK, FileTypes, CallTypes, DiskTypes

\* Nothing on disk loses its backing when the block at hand gets pointers to
\* blocks that are backed, and at least one.
LEMMA PointersBacked ==
    ASSUME TypeInv, Writing, BlocksBacked, pc = "put", UNCHANGED <<body, inodes>>,
           NEW buffer \in SUBSET DataBlocks, buffer # {}, \A b \in buffer : Backed(b),
           ptr' = [ptr EXCEPT ![blk] = buffer]
    PROVE  BlocksBacked' /\ \A b \in DataBlocks : Backed(b) \/ b = blk => Backed(b)'
  <1>1. blk \in DataBlocks /\ ptr \in [DataBlocks -> SUBSET DataBlocks]
    BY HeldTypes DEF Writing
  <1>2. ptr'[blk] = buffer /\ \A b \in DataBlocks : b # blk => ptr'[b] = ptr[b]
    BY <1>1
  <1>3. \A b \in DataBlocks : Backed(b) \/ b = blk => Backed(b)'
    BY <1>2 DEF Backed
  <1>4. \A i \in AllInodes : inodes[i].blocks \subseteq DataBlocks
    BY DEF TypeInv, TypeOK, DiskTypes, Inode
  <1>5. \A i \in AllInodes : inodes[i].kind = "file" => \A b \in inodes[i].blocks : Backed(b)'
    BY <1>3, <1>4 DEF BlocksBacked
  <1>6. ASSUME NEW b \in DataBlocks, NEW c \in ptr'[b] PROVE Backed(c)'
    <2>1. CASE b = blk
      BY <1>2, <1>3, <1>6, <2>1
    <2>2. CASE b # blk
      <3>1. c \in ptr[b] /\ c \in DataBlocks
        BY <1>1, <1>2, <1>6, <2>2
      <3> QED
        BY <1>3, <3>1 DEF BlocksBacked
    <2> QED
      BY <2>1, <2>2
  <1> QED
    BY <1>3, <1>5, <1>6 DEF BlocksBacked

LEMMA DataBacked ==
    ASSUME TypeInv, Writing, BlocksBacked, pc = "put", UNCHANGED <<ptr, inodes>>,
           body' = body \cup {blk}
    PROVE  BlocksBacked' /\ \A b \in DataBlocks : Backed(b) \/ b = blk => Backed(b)'
  <1>1. \A b \in DataBlocks : Backed(b) \/ b = blk => Backed(b)'
    BY DEF Backed
  <1> QED
    BY <1>1 DEF BlocksBacked, Backed

LEMMA BackedPut ==
    ASSUME TypeInv, Writing, BlocksBacked, BuffersBacked, Put
    PROVE  BlocksBacked' /\ BuffersBacked'
  <1>1. /\ pc = "put" /\ pc' = "fill" /\ UNCHANGED <<making, req>> /\ blk \in DataBlocks
        /\ blk # 0
    BY LayoutNats, DataBlockTypes DEF Put, Writing, call, Goto, DataBlocks, IsData, Metapg
  <1>2. CASE PutDirBlock
    BY <1>1, <1>2 DEF PutDirBlock, BlocksBacked, BuffersBacked, Backed
  <1>3. CASE ~PutDirBlock
    <2>1. making = "file"
      BY <1>3 DEF Put, PutDirect, PutSingle, PutSingleRoot, PutDouble, PutInner, PutDoubleRoot
    <2>2. /\ \A b \in direct \cup ind \cup ind2 \cup ({ib12, ib13} \ {0}) : Backed(b)
          /\ ib12 = 0 /\ L > ND => ind # {}
          /\ ib13 = 0 /\ L > ND + NP => ind \cup ind2 # {}
          /\ ~Filled
      BY <1>1, <2>1 DEF BuffersBacked, Making
    <2>3. /\ direct \subseteq DataBlocks /\ ind \subseteq DataBlocks
          /\ ind2 \subseteq DataBlocks /\ {ib12, ib13} \ {0} \subseteq DataBlocks
          /\ L \in Nat /\ req.size \in Nat /\ ND \in Nat \ {0} /\ NP \in Nat \ {0}
      BY HeldTypes
    <2>4. Least(req.size, ND) <= ND /\ Least(req.size, ND + NP) <= ND + NP
      BY <2>3 DEF Least
    <2>5. CASE PutDirect
      <3>1. UNCHANGED <<ptr, inodes, ind, ind2, ib12, ib13>> /\ body' = body \cup {blk}
            /\ L' = L + 1 /\ L' <= ND /\ direct' = direct \cup {blk}
        BY <2>3, <2>4, <2>5 DEF PutDirect, PutData, Least
      <3>2. BlocksBacked' /\ \A b \in DataBlocks : Backed(b) \/ b = blk => Backed(b)'
        BY <1>1, <3>1, DataBacked
      <3>3. ASSUME NEW b \in direct' \cup ind \cup ind2 \cup ({ib12, ib13} \ {0}) PROVE Backed(b)'
        <4>1. b \in DataBlocks /\ (Backed(b) \/ b = blk)
          BY <1>1, <2>2, <2>3, <3>1
        <4> QED
          BY <4>1, <3>2
      <3>4. ~(L' > ND) /\ ~(L' > ND + NP)
        BY <2>3, <3>1
      <3> QED
        BY <1>1, <3>1, <3>2, <3>3, <3>4 DEF BuffersBacked
    <2>6. CASE PutSingle \/ PutDouble
      <3>1. UNCHANGED <<ptr, inodes, direct, ind2, ib12, ib13>> /\ body' = body \cup {blk}
            /\ ind' = ind \cup {blk}
        BY <2>6 DEF PutSingle, PutDouble, PutData
      <3>2. BlocksBacked' /\ \A b \in DataBlocks : Backed(b) \/ b = blk => Backed(b)'
        BY <1>1, <3>1, DataBacked
      <3>3. ASSUME NEW b \in direct \cup ind' \cup ind2 \cup ({ib12, ib13} \ {0}) PROVE Backed(b)'
        <4>1. b \in DataBlocks /\ (Backed(b) \/ b = blk)
          BY <1>1, <2>2, <2>3, <3>1
        <4> QED
          BY <4>1, <3>2
      <3>4. ind' # {}
        BY <3>1
      <3> QED
        BY <1>1, <3>1, <3>2, <3>3, <3>4 DEF BuffersBacked
    <2>7. CASE PutSingleRoot
      <3>1. /\ UNCHANGED <<body, inodes, direct, ind2, ib13, L>> /\ ptr' = [ptr EXCEPT ![blk] = ind]
            /\ ib12' = blk /\ ind' = {} /\ ind # {} /\ L <= ND + NP
        BY <2>2, <2>3, <2>4, <2>7 DEF PutSingleRoot, PutPointers
      <3>2. BlocksBacked' /\ \A b \in DataBlocks : Backed(b) \/ b = blk => Backed(b)'
        BY <1>1, <2>2, <2>3, <3>1, PointersBacked
      <3>3. ASSUME NEW b \in direct \cup ind2 \cup ({blk, ib13} \ {0}) PROVE Backed(b)'
        <4>1. b \in DataBlocks /\ (Backed(b) \/ b = blk)
          BY <1>1, <2>2, <2>3, <3>1
        <4> QED
          BY <4>1, <3>2
      <3>4. ~(L > ND + NP)
        BY <2>3, <3>1
      <3> QED
        BY <1>1, <3>1, <3>2, <3>3, <3>4 DEF BuffersBacked
    <2>8. CASE PutInner
      <3>1. /\ UNCHANGED <<body, inodes, direct, ib12, ib13, L>> /\ ptr' = [ptr EXCEPT ![blk] = ind]
            /\ ind2' = ind2 \cup {blk} /\ ind' = {} /\ ib12 # 0
        BY <2>8 DEF PutInner, PutPointers
      <3>2. ind # {}
        BY <2>3, <2>8, FS_EmptySet DEF PutInner, InnerFull
      <3>3. BlocksBacked' /\ \A b \in DataBlocks : Backed(b) \/ b = blk => Backed(b)'
        BY <1>1, <2>2, <2>3, <3>1, <3>2, PointersBacked
      <3>4. ASSUME NEW b \in direct \cup ind2' \cup ({ib12, ib13} \ {0}) PROVE Backed(b)'
        <4>1. b \in DataBlocks /\ (Backed(b) \/ b = blk)
          BY <1>1, <2>2, <2>3, <3>1
        <4> QED
          BY <4>1, <3>3
      <3> QED
        BY <1>1, <3>1, <3>3, <3>4 DEF BuffersBacked
    <2>9. CASE PutDoubleRoot
      <3>1. /\ UNCHANGED <<body, inodes, direct, ind, ib12, L>> /\ ptr' = [ptr EXCEPT ![blk] = ind2]
            /\ ind2' = {} /\ ib13' = blk /\ ib12 # 0 /\ ind = {} /\ L = req.size
        BY <2>9 DEF PutDoubleRoot, PutPointers
      <3>2. ind2 # {}
        BY <2>1, <2>2, <3>1 DEF Filled
      <3>3. BlocksBacked' /\ \A b \in DataBlocks : Backed(b) \/ b = blk => Backed(b)'
        BY <1>1, <2>2, <2>3, <3>1, <3>2, PointersBacked
      <3>4. ASSUME NEW b \in direct \cup ({ib12, blk} \ {0}) PROVE Backed(b)'
        <4>1. b \in DataBlocks /\ (Backed(b) \/ b = blk)
          BY <1>1, <2>2, <2>3, <3>1
        <4> QED
          BY <4>1, <3>3
      <3> QED
        BY <1>1, <3>1, <3>3, <3>4 DEF BuffersBacked
    <2> QED
      BY <1>3, <2>5, <2>6, <2>7, <2>8, <2>9 DEF Put
  <1> QED
    BY <1>2, <1>3

LEMMA BackedStep ==
    ASSUME Sound, BlocksBacked, BuffersBacked, [Next]_vars
    PROVE  BlocksBacked' /\ BuffersBacked'
  <1> USE DEF Sound
  <1>1. inodes \in [AllInodes -> Inode]
    BY DEF TypeInv, TypeOK, DiskTypes
  <1>2. CASE Put
    BY <1>2, BackedPut
  <1>3. CASE WriteInode
    <2>1. /\ inodes' = [inodes EXCEPT ![ino] = NewInode] /\ UNCHANGED <<ptr, body>>
          /\ pc = "fill" /\ pc' = "link" /\ ino \in AllInodes
      BY <1>3 DEF WriteInode, Goto, TypeInv, CallOK, Busy
    <2>2. making = "file" => \A b \in direct \cup ({ib12, ib13} \ {0}) : Backed(b)
      BY <2>1 DEF BuffersBacked, Making
    <2>3. /\ inodes'[ino].kind = making /\ inodes'[ino].blocks = direct \cup ({ib12, ib13} \ {0})
          /\ \A i \in AllInodes : i # ino => inodes'[i] = inodes[i]
      BY <1>1, <2>1 DEF NewInode
    <2> QED
      BY <2>1, <2>2, <2>3 DEF BlocksBacked, BuffersBacked, Backed, Making
  <1>4. CASE CountParent
    <2>1. /\ inodes' = [inodes EXCEPT ![cur].links = @ + 1] /\ pc' = "sb"
          /\ UNCHANGED <<ptr, body>>
      BY <1>4 DEF CountParent, Goto
    <2>2. \A i \in AllInodes : inodes'[i].kind = inodes[i].kind /\ inodes'[i].blocks = inodes[i].blocks
      BY <1>1, <2>1 DEF Inode
    <2> QED
      BY <2>1, <2>2 DEF BlocksBacked, BuffersBacked, Backed, Making
  <1>5. CASE Descend \/ LastDir \/ LastLeaf
    <2>1. UNCHANGED <<inodes, ptr, body>>
      BY <1>5 DEF Descend, LastDir, LastLeaf, disk, tree
    <2>2. BlocksBacked'
      BY <2>1 DEF BlocksBacked, Backed
    <2>3. \/ pc' \notin Making
          \/ pc' = "alloc_ino" /\ L' = 0 /\ direct' = {} /\ ind' = {} /\ ind2' = {}
             /\ ib12' = 0 /\ ib13' = 0
      BY <1>5 DEF Descend, LastDir, LastLeaf, Make, MakeDir, Answer, Fail, Goto, Making
    <2>4. ~(0 > ND) /\ ~(0 > ND + NP)
      BY HeldTypes
    <2> QED
      BY <2>2, <2>3, <2>4 DEF BuffersBacked
  <1>6. CASE AllocInode \/ AllocBlock
    <2>1. /\ UNCHANGED <<inodes, ptr, body, making, req, L, direct, ind, ind2, ib12, ib13>>
          /\ pc \in Making /\ (pc' = "put" => ~Filled)
      <3>1. CASE AllocInode
        <4>1. pc = "alloc_ino" /\ pc' = "fill" /\ UNCHANGED <<tree, file, making, req>>
          BY <3>1 DEF AllocInode, Goto
        <4>2. pc \in Making /\ pc' # "put"
          BY <4>1 DEF Making
        <4>3. UNCHANGED <<inodes, ptr, body, making, req, L, direct, ind, ind2, ib12, ib13>>
          BY <4>1 DEF tree, file
        <4> QED
          BY <4>2, <4>3
      <3>2. CASE AllocBlock
        BY <3>2 DEF AllocBlock, tree, call, Goto, Making
      <3> QED
        BY <1>6, <3>1, <3>2
    <2>2. Filled' = Filled
      BY <2>1 DEF Filled
    <2> QED
      BY <2>1, <2>2 DEF BlocksBacked, BuffersBacked, Backed
  <1>7. CASE UNCHANGED <<inodes, ptr, body>> /\ pc' \notin Making
    BY <1>7 DEF BlocksBacked, BuffersBacked, Backed
  <1>8. CASE UNCHANGED vars
    BY <1>8 DEF vars, disk, tree, call, file, BlocksBacked, BuffersBacked, Backed, Filled
  <1> QED
    BY <1>2, <1>3, <1>4, <1>5, <1>6, <1>7, <1>8 DEF Next, Work, Begin, NameRoot, Stray,
       NoBlockLeft, Link, AfterLink, FlushSuper, FlushGdt, Return, Answer, Stop, Finish, Over,
       Goto, Fail, disk, tree, Making
-----------------------------------------------------------------------------
(* Directories: one that is being made holds its two dots before it has an *)
(* inode; those on disk hold them for good, and what they list is of the   *)
(* kind they say.                                                          *)
DirInProgress ==
    pc \in Making /\ making = "dir" =>
        /\ ib12 = 0 /\ ib13 = 0
        /\ pc \in {"alloc_ino", "put"} => direct = {}
        /\ direct # {} =>
               \E b \in DataBlocks : direct = {b} /\ ents[b] = DotEntries(ino, cur)

LEMMA DirInProgressStep ==
    ASSUME Sound, DirInProgress, [Next]_vars
    PROVE  DirInProgress'
  <1> USE DEF Sound
  <1>1. CASE Put
    <2>1. pc = "put" /\ pc' = "fill" /\ UNCHANGED <<making, ino, cur>> /\ blk \in DataBlocks
      BY <1>1 DEF Put, Writing, call, Goto
    <2>2. CASE making = "dir"
      <3>1. PutDirBlock
        BY <1>1, <2>2 DEF Put, PutDirect, PutSingle, PutSingleRoot, PutDouble, PutInner,
           PutDoubleRoot
      <3>2. /\ ents' = [ents EXCEPT ![blk] = DotEntries(ino, cur)] /\ direct' = {blk}
            /\ UNCHANGED <<ib12, ib13>>
        BY <3>1 DEF PutDirBlock
      <3>3. ents'[blk] = DotEntries(ino, cur)
        BY <2>1, <3>2 DEF TypeInv, TypeOK, DiskTypes
      <3>4. PICK b \in DataBlocks : b = blk
        BY <2>1
      <3>5. direct' = {b} /\ ents'[b] = DotEntries(ino', cur')
        BY <2>1, <3>2, <3>3, <3>4
      <3>6. ib12 = 0 /\ ib13 = 0
        BY <2>1, <2>2 DEF DirInProgress, Making
      <3> QED
        BY <2>1, <3>2, <3>5, <3>6 DEF DirInProgress
    <2> QED
      BY <2>1, <2>2 DEF DirInProgress
  <1>2. CASE AllocInode
    <2>1. pc = "alloc_ino" /\ pc' = "fill" /\ UNCHANGED <<making, file>>
      BY <1>2 DEF AllocInode, Goto
    <2>2. making = "dir" => ib12 = 0 /\ ib13 = 0 /\ direct = {}
      BY <2>1 DEF DirInProgress, Making
    <2> QED
      BY <2>1, <2>2 DEF DirInProgress, file
  <1>3. CASE AllocBlock
    <2>1. /\ pc = "fill" /\ pc' = "put" /\ UNCHANGED <<making, direct, ib12, ib13>>
          /\ making = "dir" => direct = {}
      BY <1>3 DEF AllocBlock, call, Goto, Filled
    <2>2. making = "dir" => ib12 = 0 /\ ib13 = 0
      BY <2>1 DEF DirInProgress, Making
    <2> QED
      BY <2>1, <2>2 DEF DirInProgress
  <1>4. CASE Descend \/ LastDir \/ LastLeaf
    <2>1. \/ pc' \notin Making
          \/ pc' = "alloc_ino" /\ L' = 0 /\ direct' = {} /\ ind' = {} /\ ind2' = {}
             /\ ib12' = 0 /\ ib13' = 0
      BY <1>4 DEF Descend, LastDir, LastLeaf, Make, MakeDir, Answer, Fail, Goto, Making
    <2> QED
      BY <2>1 DEF DirInProgress
  <1>5. CASE pc' \notin Making
    BY <1>5 DEF DirInProgress
  <1>6. CASE UNCHANGED vars
    BY <1>6 DEF vars, disk, tree, call, file, DirInProgress
  <1> QED
    BY <1>1, <1>2, <1>3, <1>4, <1>5, <1>6 DEF Next, Work, Begin, NameRoot, Stray, NoBlockLeft,
       WriteInode, Link, AfterLink, CountParent, FlushSuper, FlushGdt, Return, Answer, Stop,
       Finish, Over, Goto, Fail, Making

\* Inodes change their kind and blocks when they are written and no more.
LEMMA KindsStay ==
    ASSUME Sound, [Next]_vars, NEW i \in AllInodes, ~(WriteInode /\ i = ino)
    PROVE  inodes'[i].kind = inodes[i].kind /\ inodes'[i].blocks = inodes[i].blocks
  <1>1. inodes \in [AllInodes -> Inode]
    BY DEF Sound, TypeInv, TypeOK, DiskTypes
  <1>2. CASE WriteInode
    <2>1. inodes' = [inodes EXCEPT ![ino] = NewInode] /\ i # ino
      BY <1>2 DEF WriteInode
    <2> QED
      BY <1>1, <2>1
  <1>3. CASE CountParent
    <2>1. inodes' = [inodes EXCEPT ![cur].links = @ + 1]
      BY <1>3 DEF CountParent
    <2> QED
      BY <1>1, <2>1 DEF Inode
  <1>4. CASE inodes' = inodes
    BY <1>4
  <1> QED
    BY <1>2, <1>3, <1>4 DEF Next, Work, Begin, Descend, NameRoot, LastDir,
       LastLeaf, Stray, AllocInode, AllocBlock, NoBlockLeft, Put, PutDirect, PutSingle,
       PutSingleRoot, PutDouble, PutInner, PutDoubleRoot, PutDirBlock, PutData, PutPointers,
       Link, FlushSuper, FlushGdt, Stop, Finish, Over, vars, disk, tree

NewEntry == [name |-> Head(rest), ino |-> ino, kind |-> making]

\* A directory block on disk stays or gets an entry at its end.
LEMMA DirBlockStep ==
    ASSUME Sound, [Next]_vars, NEW d \in Dirs, NEW b, b = DirBlock(d)
    PROVE  \/ ents'[b] = ents[b]
           \/ Link /\ Len(ents[b]) < DirCap /\ ents'[b] = Append(ents[b], NewEntry)
  <1> USE DEF Sound
  <1>1. b \in DataBlocks /\ b \in inodes[d].blocks /\ d \in AllInodes
        /\ ents \in [DataBlocks -> Seq(Entry)]
    BY DirTypes DEF Dirs, TypeInv, TypeOK, DiskTypes
  <1>2. CASE PutDirBlock /\ pc = "put"
    <2>1. b # blk
      BY <1>1, <1>2, HeldIsForeign
    <2> QED
      BY <1>1, <1>2, <2>1 DEF PutDirBlock
  <1>3. CASE Link
    <2> DEFINE c == DirBlock(cur)
    <2>1. \/ ents' = ents
          \/ Len(ents[c]) < DirCap /\ ents' = [ents EXCEPT ![c] = Append(@, NewEntry)]
      BY <1>3 DEF Link, Publish, NewEntry
    <2> HIDE DEF c
    <2> QED
      BY <1>1, <1>3, <2>1
  <1>4. CASE ents' = ents
    BY <1>4
  <1> QED
    BY <1>2, <1>3, <1>4 DEF Next, Work, Begin, Descend, NameRoot, LastDir,
       LastLeaf, Stray, AllocInode, AllocBlock, NoBlockLeft, Put, PutDirect, PutSingle,
       PutSingleRoot, PutDouble, PutInner, PutDoubleRoot, PutData, PutPointers, WriteInode,
       CountParent, FlushSuper, FlushGdt, Stop, Finish, Over, vars, disk, tree

\* A directory has what it had, one entry more, or is new.
LEMMA DirectoryStep ==
    ASSUME Sound, InodesReady, DirInProgress, [Next]_vars, NEW d \in Dirs'
    PROVE  \/ d \in Dirs /\ EntriesOf(d)' = EntriesOf(d)
           \/ Link /\ d \in Dirs /\ EntriesOf(d)' = Append(EntriesOf(d), NewEntry)
           \/ /\ WriteInode /\ making = "dir" /\ d = ino
              /\ EntriesOf(d)' = DotEntries(ino, cur)
  <1>1. d \in AllInodes /\ inodes'[d].kind = "dir"
    BY DEF Dirs
  <1>2. CASE WriteInode /\ d = ino
    <2>1. /\ inodes' = [inodes EXCEPT ![ino] = NewInode] /\ ents' = ents /\ pc = "fill" /\ Filled
      BY <1>2 DEF WriteInode
    <2>2. inodes'[d] = NewInode
      BY <1>1, <1>2, <2>1 DEF Sound, TypeInv, TypeOK, DiskTypes
    <2>3. making = "dir"
      BY <1>1, <2>2 DEF NewInode
    <2>4. PICK b \in DataBlocks : direct = {b} /\ ents[b] = DotEntries(ino, cur)
      BY <2>1, <2>3 DEF DirInProgress, Filled, Making
    <2>5. inodes'[d].blocks = {b}
      BY <2>1, <2>2, <2>3, <2>4 DEF DirInProgress, NewInode, Making
    <2>6. EntriesOf(d)' = DotEntries(ino, cur)
      BY <2>1, <2>4, <2>5 DEF EntriesOf, DirBlock
    <2> QED
      BY <1>2, <2>3, <2>6
  <1>3. CASE ~(WriteInode /\ d = ino)
    <2>1. inodes'[d].kind = inodes[d].kind /\ inodes'[d].blocks = inodes[d].blocks
      BY <1>1, <1>3, KindsStay
    <2>2. d \in Dirs
      BY <1>1, <2>1 DEF Dirs
    <2>3. PICK b : b = DirBlock(d)
      OBVIOUS
    <2>4. EntriesOf(d) = ents[b] /\ EntriesOf(d)' = ents'[b]
      BY <2>1, <2>3 DEF EntriesOf, DirBlock
    <2> QED
      BY <2>2, <2>3, <2>4, DirBlockStep
  <1> QED
    BY <1>2, <1>3

\* The two dots in front, and every entry of the kind of its inode.
Dotted(d) ==
    /\ Len(EntriesOf(d)) >= 2
    /\ EntriesOf(d)[1] = DotEntries(d, d)[1] /\ EntriesOf(d)[2].name = ".."
KindsMatch(d) ==
    \A k \in DOMAIN EntriesOf(d) :
        /\ inodes[EntriesOf(d)[k].ino].kind = EntriesOf(d)[k].kind
        /\ EntriesOf(d)[k].kind # "none"
Directories == \A d \in Dirs : Dotted(d) /\ KindsMatch(d)

\* The two directories that df_format_ext2 makes.
LEMMA InitEntries ==
    ASSUME Init
    PROVE  /\ inodes[RootIno].kind = "dir" /\ inodes[LostFoundIno].kind = "dir"
           /\ inodes[RootIno].links = 3 /\ inodes[LostFoundIno].links = 2
           /\ EntriesOf(RootIno) = RootEntries
           /\ EntriesOf(LostFoundIno) = DotEntries(LostFoundIno, RootIno)
           /\ Dirs \subseteq {RootIno, LostFoundIno}
  <1>1. RootIno \in AllInodes /\ LostFoundIno \in AllInodes /\ RootIno # LostFoundIno
    BY WriterNats, LayoutNats, LayoutFits DEF GroupsFit
  <1>2. RootBlock \in DataBlocks /\ LostFoundBlock \in DataBlocks /\ RootBlock # LostFoundBlock
    BY FirstDirBlocks, LayoutNats DEF RootBlock, LostFoundBlock, Metapg
  <1>3. /\ inodes[RootIno] = [kind |-> "dir", links |-> 3, blocks |-> {RootBlock}]
        /\ inodes[LostFoundIno] = [kind |-> "dir", links |-> 2, blocks |-> {LostFoundBlock}]
    BY <1>1 DEF Init
  <1>4. /\ EntriesOf(RootIno) = RootEntries
        /\ EntriesOf(LostFoundIno) = DotEntries(LostFoundIno, RootIno)
    <2>1. inodes[RootIno].blocks = {RootBlock} /\ inodes[LostFoundIno].blocks = {LostFoundBlock}
      BY <1>3
    <2>2. DirBlock(RootIno) = RootBlock /\ DirBlock(LostFoundIno) = LostFoundBlock
      BY <2>1 DEF DirBlock
    <2> QED
      BY <1>2, <2>2 DEF Init, EntriesOf
  <1>5. Dirs \subseteq {RootIno, LostFoundIno}
    BY DEF Init, Dirs, NoInode
  <1> QED
    BY <1>3, <1>4, <1>5

LEMMA DirectoriesInit == Init => Directories /\ DirInProgress
  <1> SUFFICES ASSUME Init PROVE Directories /\ DirInProgress
    OBVIOUS
  <1>1. Dotted(RootIno) /\ KindsMatch(RootIno)
    BY InitEntries DEF Dotted, KindsMatch, RootEntries, DotEntries
  <1>2. Dotted(LostFoundIno) /\ KindsMatch(LostFoundIno)
    BY InitEntries DEF Dotted, KindsMatch, DotEntries
  <1>3. DirInProgress
    BY DEF Init, DirInProgress, Making
  <1> QED
    BY <1>1, <1>2, <1>3, InitEntries DEF Directories

LEMMA DirectoriesStep ==
    ASSUME Sound, Unnamed, InodesReady, DirInProgress, Directories, [Next]_vars
    PROVE  Directories'
  <1> USE DEF Sound
  <1> SUFFICES ASSUME NEW d \in Dirs' PROVE Dotted(d)' /\ KindsMatch(d)'
    BY DEF Directories
  <1>1. ASSUME NEW c \in Dirs, NEW k \in DOMAIN EntriesOf(c),
               NEW e, e = EntriesOf(c)[k]
        PROVE  inodes'[e.ino].kind = e.kind /\ e.kind # "none"
    <2>1. e.ino \in AllInodes
      <3>1. e \in Entry
        BY <1>1, DirTypes, SeqElement
      <3> QED
        BY <3>1 DEF Entry
    <2>2. ~(WriteInode /\ e.ino = ino)
      BY <1>1 DEF WriteInode, Unnamed
    <2>3. inodes[e.ino].kind = e.kind /\ e.kind # "none"
      BY <1>1 DEF Directories, KindsMatch
    <2> QED
      BY <2>1, <2>2, <2>3, KindsStay
  <1>2. CASE d \in Dirs /\ EntriesOf(d)' = EntriesOf(d)
    BY <1>1, <1>2 DEF Directories, Dotted, KindsMatch
  <1>3. CASE Link /\ d \in Dirs /\ EntriesOf(d)' = Append(EntriesOf(d), NewEntry)
    <2>1. PICK es \in Seq(Entry) : es = EntriesOf(d)
      BY <1>3, DirTypes
    <2>2. EntriesOf(d)' = Append(es, NewEntry) /\ Dotted(d)
      BY <1>3, <2>1 DEF Directories
    <2>3. Dotted(d)'
      BY <2>1, <2>2 DEF Dotted
    <2>4. inodes'[NewEntry.ino].kind = NewEntry.kind /\ NewEntry.kind # "none"
      <3>1. pc = "link" /\ inodes' = inodes
        BY <1>3 DEF Link
      <3>2. making # "none" /\ inodes[ino].kind = making
        BY <3>1 DEF InodesReady, TypeInv, CallOK, Busy
      <3> QED
        BY <3>1, <3>2 DEF NewEntry
    <2>5. ASSUME NEW k \in DOMAIN Append(es, NewEntry), NEW e, e = Append(es, NewEntry)[k]
          PROVE  inodes'[e.ino].kind = e.kind /\ e.kind # "none"
      <3>1. CASE k \in DOMAIN es
        <4>1. e = es[k]
          BY <2>1, <2>5, <3>1
        <4> QED
          BY <1>1, <1>3, <2>1, <3>1, <4>1
      <3>2. CASE k \notin DOMAIN es
        <4>1. e = NewEntry
          BY <2>1, <2>5, <3>2
        <4> QED
          BY <2>4, <4>1
      <3> QED
        BY <3>1, <3>2
    <2>6. KindsMatch(d)'
      BY <2>2, <2>5 DEF KindsMatch
    <2> QED
      BY <2>3, <2>6
  <1>4. CASE WriteInode /\ making = "dir" /\ d = ino /\ EntriesOf(d)' = DotEntries(ino, cur)
    <2>1. PICK parent : parent = cur
      OBVIOUS
    <2>2. EntriesOf(d)' = DotEntries(d, parent)
      BY <1>4, <2>1
    <2>3. pc = "fill" /\ inodes' = [inodes EXCEPT ![ino] = NewInode]
      BY <1>4 DEF WriteInode
    <2>4. IsDir(parent) /\ inodes[ino].kind = "none"
      BY <1>4, <2>1, <2>3 DEF InodesReady, Making
    <2>5. d # parent /\ parent \in AllInodes /\ d \in AllInodes
      BY <1>4, <2>4 DEF IsDir, Dirs
    <2>6. inodes'[d].kind = "dir" /\ inodes'[parent].kind = "dir"
      BY <1>4, <2>3, <2>4, <2>5 DEF IsDir, NewInode, TypeInv, TypeOK, DiskTypes
    <2>7. Dotted(d)'
      BY <2>2 DEF Dotted, DotEntries
    <2>8. KindsMatch(d)'
      BY <2>2, <2>6 DEF KindsMatch, DotEntries
    <2> QED
      BY <2>7, <2>8
  <1> QED
    BY <1>2, <1>3, <1>4, DirectoryStep
-----------------------------------------------------------------------------
(* The theorem.                                                            *)

Complete == InodesReady /\ BlocksBacked /\ BuffersBacked /\ DirInProgress /\ Directories

\* What is reached from an inode.
LEMMA ReachBacked ==
    ASSUME TypeInv, BlocksBacked, NEW i \in AllInodes, inodes[i].kind = "file", NEW b \in Reach(i)
    PROVE  Backed(b)
  <1>1. /\ ptr \in [DataBlocks -> SUBSET DataBlocks] /\ inodes[i].blocks \subseteq DataBlocks
    BY DEF TypeInv, TypeOK, DiskTypes, Inode
  <1>2. Listed(inodes[i].blocks) \subseteq DataBlocks
    BY <1>1 DEF Listed
  <1>3. b \in inodes[i].blocks \/ \E c \in DataBlocks : b \in ptr[c]
    BY <1>1, <1>2 DEF Reach, Listed
  <1> QED
    BY <1>3 DEF BlocksBacked

LEMMA ReachMarked ==
    ASSUME TypeInv, BlocksOwnedOnce, NEW i \in AllInodes
    PROVE  Reach(i) \subseteq bbmp
  <1>1. /\ ptr \in [DataBlocks -> SUBSET DataBlocks] /\ inodes[i].blocks \subseteq DataBlocks
    BY DEF TypeInv, TypeOK, DiskTypes, Inode
  <1>2. Listed(inodes[i].blocks) \subseteq DataBlocks
    BY <1>1 DEF Listed
  <1>3. \A b \in Reach(i) : b \in inodes[i].blocks \/ \E c \in DataBlocks : b \in ptr[c]
    BY <1>1, <1>2 DEF Reach, Listed
  <1> QED
    BY <1>3 DEF BlocksOwnedOnce, OwnedAreTaken, Taken

LEMMA CompleteLeads == Sound /\ Complete => NothingDangles
  <1> SUFFICES ASSUME Sound, Complete, NEW e \in Entries, NEW i, i = At(e).ino
               PROVE  /\ i \in ibmp /\ inodes[i].kind = At(e).kind
                      /\ Reach(i) \subseteq bbmp
                      /\ At(e).kind = "file" => \A b \in Reach(i) : b \in body \/ ptr[b] # {}
                      /\ At(e).kind = "dir" =>
                             /\ EntriesOf(i)[1] = DotEntries(i, i)[1]
                             /\ EntriesOf(i)[2].name = ".."
    BY DEF NothingDangles
  <1> USE DEF Sound, Complete
  <1>1. i \in AllInodes /\ e[1] \in Dirs /\ e[2] \in DOMAIN EntriesOf(e[1])
    BY EntryInode
  <1>2. inodes[i].kind = At(e).kind /\ At(e).kind # "none"
    BY <1>1 DEF Directories, KindsMatch, At
  <1>3. i \in ibmp
    BY <1>1, <1>2 DEF InodesReady, Used
  <1>4. At(e).kind = "file" => \A b \in Reach(i) : b \in body \/ ptr[b] # {}
    BY <1>1, <1>2, ReachBacked DEF Backed
  <1>5. At(e).kind = "dir" => EntriesOf(i)[1] = DotEntries(i, i)[1] /\ EntriesOf(i)[2].name = ".."
    BY <1>1, <1>2 DEF Directories, Dotted, Dirs
  <1> QED
    BY <1>1, <1>2, <1>3, <1>4, <1>5, ReachMarked

\* Whatever a name on disk leads to was written before the name, at every
\* write of every request: an inode that the bitmap has marked, of the kind
\* the entry says, all of its blocks marked and filled, a directory's with its
\* two dots (df_ext2_add_file_sz, _add_symlink, _mkdir, _link_dirent).
THEOREM NamesLeadToWhole == Spec => []NothingDangles
  <1>1. Init => Sound /\ Hidden /\ Complete
    BY InitTypes, OwnInit, InodesBelowInit, HiddenInit, InodesReadyInit, BackedInit,
       DirectoriesInit DEF Init, Writing, Sound, Complete
  <1>2. Sound /\ Hidden /\ Complete /\ [Next]_vars => (Sound /\ Hidden /\ Complete)'
    BY SoundStep, UnwrittenStep, UnnamedStep, InodesReadyStep, BackedStep, DirInProgressStep,
       DirectoriesStep DEF Hidden, Complete
  <1>3. Sound /\ Complete => NothingDangles
    BY CompleteLeads
  <1> QED
    BY <1>1, <1>2, <1>3, PTL DEF Spec
-----------------------------------------------------------------------------
(* Subdirectories of a directory, and of one with an entry more.           *)

SubdirsIn(es) == {k \in DOMAIN es : es[k].kind = "dir" /\ es[k].name \notin {".", ".."}}

LEMMA SubdirsAre == \A d : Subdirs(d) = SubdirsIn(EntriesOf(d))
  BY DEF Subdirs, SubdirsIn, Dots, At

LEMMA SubdirsAppend ==
    ASSUME NEW es \in Seq(Entry), NEW e \in Entry, e.name \notin {".", ".."}
    PROVE  /\ e.kind = "dir" => SubdirsIn(Append(es, e)) = SubdirsIn(es) \cup {Len(es) + 1}
           /\ e.kind # "dir" => SubdirsIn(Append(es, e)) = SubdirsIn(es)
           /\ Len(es) + 1 \notin SubdirsIn(es)
           /\ IsFiniteSet(SubdirsIn(es))
  <1>1. /\ DOMAIN Append(es, e) = DOMAIN es \cup {Len(es) + 1}
        /\ Len(es) + 1 \notin DOMAIN es /\ DOMAIN es = 1 .. Len(es) /\ Len(es) \in Nat
        /\ \A k \in DOMAIN es : Append(es, e)[k] = es[k]
        /\ Append(es, e)[Len(es) + 1] = e
    OBVIOUS
  <1>2. SubdirsIn(es) \subseteq 1 .. Len(es)
    BY <1>1 DEF SubdirsIn
  <1>3. IsFiniteSet(SubdirsIn(es))
    <2>1. PICK n \in Nat : n = Len(es)
      BY <1>1
    <2>2. IsFiniteSet(1 .. n)
      BY FS_Interval
    <2> QED
      BY <1>2, <2>1, <2>2, FS_Subset
  <1>4. Len(es) + 1 \notin SubdirsIn(es)
    BY <1>1, <1>2
  <1>5. ASSUME NEW k
        PROVE  k \in SubdirsIn(Append(es, e)) <=>
                   k \in SubdirsIn(es) \/ (k = Len(es) + 1 /\ e.kind = "dir")
    BY <1>1 DEF SubdirsIn
  <1> QED
    BY <1>3, <1>4, <1>5

LEMMA SubdirsOfDots == \A a, b : SubdirsIn(DotEntries(a, b)) = {}
  BY DEF SubdirsIn, DotEntries

\* The entry that a request makes has the name of a request.
LEMMA NewEntryType ==
    ASSUME TypeInv, pc = "link"
    PROVE  NewEntry \in Entry /\ NewEntry.name \notin {".", ".."} /\ NewEntry.kind = making
  <1>1. rest \in Seq(Names) /\ rest # <<>> /\ ino \in AllInodes /\ making \in Kinds
    BY DEF TypeInv, TypeOK, CallTypes, CallOK, Busy
  <1>2. Head(rest) \in Names
    BY <1>1, SeqHeadTail
  <1>3. Head(rest) \notin {".", ".."}
    BY <1>2, WriterBounds
  <1> QED
    BY <1>1, <1>2, <1>3 DEF NewEntry, Entry

\* Two directories have no block in common: only the parent gets the entry.
LEMMA OnlyParent ==
    ASSUME Sound, InodesReady, DirInProgress, [Next]_vars, NEW d \in Dirs', NEW parent,
           parent = cur, Link, d # parent
    PROVE  d \in Dirs /\ EntriesOf(d)' = EntriesOf(d)
  <1> USE DEF Sound
  <1>1. inodes' = inodes /\ IsDir(parent)
    BY DEF Link
  <1>2. d \in Dirs /\ d \in AllInodes /\ parent \in AllInodes
    BY <1>1 DEF Dirs, IsDir
  <1>3. PICK b, c : b = DirBlock(d) /\ c = DirBlock(parent)
    OBVIOUS
  <1>4. b \in inodes[d].blocks /\ c \in inodes[parent].blocks /\ b \in DataBlocks /\ c \in DataBlocks
    BY <1>1, <1>2, <1>3, DirTypes, DirBlockType
  <1>5. b # c
    BY <1>2, <1>4 DEF BlocksOwnedOnce, DisjointOnDisk
  <1>6. ents'[b] = ents[b]
    <2>1. ents' = ents \/ \E s : ents' = [ents EXCEPT ![c] = s]
      BY <1>3 DEF Link
    <2> QED
      BY <1>4, <1>5, <2>1 DEF TypeInv, TypeOK, DiskTypes
  <1> QED
    BY <1>1, <1>2, <1>3, <1>6 DEF EntriesOf, DirBlock
-----------------------------------------------------------------------------
(* df_ext2_mkdir is only called for a name that the parent does not have,  *)
(* and nothing is linked there until it is.                                *)

NewName ==
    pc \in Making \cup {"link"} /\ making = "dir" =>
        \A k \in DOMAIN EntriesOf(cur) : EntriesOf(cur)[k].name # Head(rest)

LEMMA LookupFinds ==
    ASSUME TypeInv, IsDir(cur), Lookup(cur, Head(rest)) = 0
    PROVE  \A k \in DOMAIN EntriesOf(cur) : EntriesOf(cur)[k].name # Head(rest)
  <1> DEFINE es == ents[DirBlock(cur)]
             hits == {k \in DOMAIN es : es[k].name = Head(rest)}
  <1>1. es \in Seq(Entry)
    BY DirBlockType DEF TypeInv, TypeOK, DiskTypes
  <1>2. CASE hits # {}
    <2>1. hits \in SUBSET Nat
      BY <1>1
    <2>2. Min(hits) \in hits
      BY <1>2, <2>1, MinOfNats
    <2>3. es[Min(hits)] \in Entry
      BY <1>1, <2>2, SeqElement
    <2>4. es[Min(hits)].ino # 0
      BY <2>3, WriterNats DEF Entry, AllInodes
    <2> QED
      BY <1>2, <2>4 DEF Lookup
  <1>3. CASE hits = {}
    BY <1>3 DEF EntriesOf
  <1> QED
    BY <1>2, <1>3

LEMMA NewNameStep ==
    ASSUME Sound, InodesReady, NewName, [Next]_vars
    PROVE  NewName'
  <1> USE DEF Sound
  <1>1. CASE Descend \/ LastDir \/ LastLeaf
    <2>1. CASE pc' = "alloc_ino" /\ making' = "dir"
      <3>1. UNCHANGED <<cur, rest, inodes, ents>>
        BY <1>1, <2>1 DEF Descend, LastDir, LastLeaf, Make, MakeDir, Answer, Fail, Goto, disk, tree
      <3>2. IsDir(cur) /\ Lookup(cur, Head(rest)) = 0
        BY <1>1, <2>1 DEF Descend, LastDir, LastLeaf, Make, MakeDir, Answer, Fail, Goto
      <3> QED
        BY <3>1, <3>2, LookupFinds DEF NewName, EntriesOf, DirBlock
    <2>2. pc' = "alloc_ino" \/ pc' \notin Making \cup {"link"}
      BY <1>1 DEF Descend, LastDir, LastLeaf, Make, MakeDir, Answer, Fail, Goto, Making
    <2> QED
      BY <2>1, <2>2 DEF NewName
  <1>2. CASE AllocInode \/ AllocBlock \/ Put \/ WriteInode
    <2>1. pc \in Making /\ UNCHANGED <<making, cur, rest>>
      <3>1. CASE AllocInode
        BY <3>1 DEF AllocInode, Making
      <3>2. CASE AllocBlock \/ Put \/ WriteInode
        BY <3>2 DEF AllocBlock, Put, WriteInode, call, Making
      <3> QED
        BY <1>2, <3>1, <3>2
    <2>2. CASE making = "dir"
      <3>1. PICK d, b : d = cur /\ b = DirBlock(d)
        OBVIOUS
      <3>2. d \in Dirs /\ d \in AllInodes /\ inodes[d].kind = "dir"
        BY <2>1, <2>2, <3>1 DEF InodesReady, IsDir, Dirs
      <3>3. ~Link
        BY <2>1 DEF Link, Making
      <3>4. ~(WriteInode /\ d = ino)
        BY <3>2 DEF WriteInode, InodesReady
      <3>5. inodes'[d].blocks = inodes[d].blocks /\ ents'[b] = ents[b]
        BY <3>1, <3>2, <3>3, <3>4, KindsStay, DirBlockStep
      <3>6. EntriesOf(d)' = EntriesOf(d)
        BY <3>1, <3>5 DEF EntriesOf, DirBlock
      <3>7. \A k \in DOMAIN EntriesOf(d) : EntriesOf(d)[k].name # Head(rest)
        BY <2>1, <2>2, <3>1 DEF NewName
      <3>8. cur' = d /\ rest' = rest
        BY <2>1, <3>1
      <3>9. EntriesOf(cur)' = EntriesOf(d)'
        BY <3>8 DEF EntriesOf, DirBlock
      <3> QED
        BY <3>6, <3>7, <3>8, <3>9 DEF NewName
    <2> QED
      BY <2>1, <2>2 DEF NewName
  <1>3. CASE pc' \notin Making \cup {"link"}
    BY <1>3 DEF NewName
  <1>4. CASE UNCHANGED vars
    BY <1>4 DEF vars, disk, tree, call, NewName, EntriesOf, DirBlock
  <1> QED
    BY <1>1, <1>2, <1>3, <1>4 DEF Next, Work, Begin, NameRoot, Stray, NoBlockLeft, Link,
       AfterLink, CountParent, FlushSuper, FlushGdt, Return, Answer, Stop, Finish, Over,
       Goto, Fail, Making

LEMMA UniqueStep ==
    ASSUME Sound, InodesReady, DirInProgress, NewName, SubdirsUnique, [Next]_vars
    PROVE  SubdirsUnique'
  <1> USE DEF Sound
  <1> SUFFICES ASSUME NEW d \in Dirs', NEW j \in Subdirs(d)', NEW k \in Subdirs(d)',
                      EntriesOf(d)'[j].name = EntriesOf(d)'[k].name
               PROVE  j = k
    BY DEF SubdirsUnique
  <1>1. j \in SubdirsIn(EntriesOf(d)') /\ k \in SubdirsIn(EntriesOf(d)')
    BY DEF Subdirs, SubdirsIn, Dots, At
  <1>2. CASE d \in Dirs /\ EntriesOf(d)' = EntriesOf(d)
    BY <1>1, <1>2, SubdirsAre DEF SubdirsUnique
  <1>3. CASE Link /\ d \in Dirs /\ EntriesOf(d)' = Append(EntriesOf(d), NewEntry)
    <2>1. PICK es \in Seq(Entry) : es = EntriesOf(d)
      BY <1>3, DirTypes
    <2>2. PICK e \in Entry : e = NewEntry /\ e.name \notin {".", ".."} /\ e.kind = making
      BY <1>3, NewEntryType DEF Link
    <2>3. \A m, n \in SubdirsIn(es) : es[m].name = es[n].name => m = n
      BY <1>3, <2>1, SubdirsAre DEF SubdirsUnique
    <2>4. /\ EntriesOf(d)' = Append(es, e) /\ Append(es, e)[Len(es) + 1] = e
          /\ \A n \in SubdirsIn(es) : n \in DOMAIN es /\ Append(es, e)[n] = es[n]
      BY <1>3, <2>1, <2>2 DEF SubdirsIn
    <2>5. CASE making # "dir"
      <3>1. j \in SubdirsIn(es) /\ k \in SubdirsIn(es)
        BY <1>1, <2>2, <2>4, <2>5, SubdirsAppend
      <3> QED
        BY <2>3, <2>4, <3>1
    <2>6. CASE making = "dir"
      <3>1. d = cur
        <4>1. CASE d # cur
          <5>1. EntriesOf(d)' = es
            BY <1>3, <2>1, <4>1, OnlyParent
          <5>2. Len(Append(es, e)) # Len(es)
            OBVIOUS
          <5> QED
            BY <2>4, <5>1, <5>2
        <4> QED
          BY <4>1
      <3>2. \A n \in DOMAIN es : es[n].name # e.name
        BY <1>3, <2>1, <2>2, <2>6, <3>1 DEF NewName, Link, NewEntry
      <3>3. j \in SubdirsIn(es) \cup {Len(es) + 1} /\ k \in SubdirsIn(es) \cup {Len(es) + 1}
        BY <1>1, <2>2, <2>4, <2>6, SubdirsAppend
      <3> QED
        BY <2>3, <2>4, <3>2, <3>3
    <2> QED
      BY <2>5, <2>6
  <1>4. CASE WriteInode /\ making = "dir" /\ d = ino /\ EntriesOf(d)' = DotEntries(ino, cur)
    BY <1>1, <1>4, SubdirsOfDots
  <1> QED
    BY <1>2, <1>3, <1>4, DirectoryStep

LEMMA UniqueInit == Init => NewName /\ SubdirsUnique
  <1> SUFFICES ASSUME Init PROVE NewName /\ SubdirsUnique
    OBVIOUS
  <1>1. NewName
    BY DEF Init, NewName, Making
  <1>2. \A j, k \in SubdirsIn(RootEntries) : j = k
    BY DEF SubdirsIn, RootEntries
  <1>3. /\ Subdirs(RootIno) = SubdirsIn(RootEntries)
        /\ Subdirs(LostFoundIno) = {}
    BY InitEntries, SubdirsAre, SubdirsOfDots
  <1> QED
    BY <1>1, <1>2, <1>3, InitEntries DEF SubdirsUnique

\* No directory ever lists two subdirectories of one name: df_ext2_resolve and
\* df_ext2_mkdir_p look before they make, and what they saw is still so when,
\* several writes later, the new directory is linked.
THEOREM SubdirsStayUnique == Spec => []SubdirsUnique
  <1>1. Init => Sound /\ InodesReady /\ DirInProgress /\ NewName /\ SubdirsUnique
    BY InitTypes, OwnInit, InodesBelowInit, InodesReadyInit, DirectoriesInit, UniqueInit
       DEF Init, Writing, Sound
  <1>2. Sound /\ InodesReady /\ DirInProgress /\ NewName /\ SubdirsUnique /\ [Next]_vars
        => (Sound /\ InodesReady /\ DirInProgress /\ NewName /\ SubdirsUnique)'
    BY SoundStep, InodesReadyStep, DirInProgressStep, NewNameStep, UniqueStep
  <1> QED
    BY <1>1, <1>2, PTL DEF Spec
-----------------------------------------------------------------------------
(* Counts of links: exact, but for the parent of a directory just linked,  *)
(* whose inode is the next to be written; a run that has failed may have   *)
(* stopped before that.                                                    *)

LinksCounted ==
    /\ pc # "failed" =>
           \A d \in Dirs : Lag(d) = IF pc = "parent" /\ d = cur THEN 1 ELSE 0
    /\ pc = "failed" => LinksLagByOne

LEMMA CountedLags == LinksCounted => LinksLagByOne
  <1> SUFFICES ASSUME LinksCounted, pc # "failed" PROVE LinksLagByOne
    BY DEF LinksCounted
  <1>1. \A d \in Dirs : Lag(d) \in {0, 1}
    BY DEF LinksCounted
  <1>2. PICK one : one = cur
    OBVIOUS
  <1>3. {d \in Dirs : Lag(d) = 1} \subseteq {one}
    BY <1>2 DEF LinksCounted
  <1>4. IsFiniteSet({one}) /\ Cardinality({one}) = 1
    BY FS_Singleton
  <1>5. PICK S : S = {d \in Dirs : Lag(d) = 1}
    OBVIOUS
  <1>6. IsFiniteSet(S) /\ Cardinality(S) <= 1
    BY <1>3, <1>4, <1>5, FS_Subset
  <1> QED
    BY <1>1, <1>5, <1>6 DEF LinksLagByOne

LEMMA LinksInit == Init => LinksCounted
  <1> SUFFICES ASSUME Init PROVE LinksCounted
    OBVIOUS
  <1>1. SubdirsIn(RootEntries) = {3}
    BY DEF SubdirsIn, RootEntries
  <1>2. Subdirs(RootIno) = {3} /\ Subdirs(LostFoundIno) = {}
    BY <1>1, InitEntries, SubdirsAre, SubdirsOfDots
  <1>3. Cardinality(Subdirs(RootIno)) = 1 /\ Cardinality(Subdirs(LostFoundIno)) = 0
    BY <1>2, FS_Singleton, FS_EmptySet
  <1>4. Lag(RootIno) = 0 /\ Lag(LostFoundIno) = 0
    BY <1>3, InitEntries DEF Lag
  <1>5. pc = "idle"
    BY DEF Init
  <1> QED
    BY <1>4, <1>5, InitEntries DEF LinksCounted

\* Neither what a directory lists nor its inode changes.
Same(d) == EntriesOf(d)' = EntriesOf(d) /\ inodes'[d].links = inodes[d].links

LEMMA SameLag == ASSUME NEW d, Same(d) PROVE Lag(d)' = Lag(d)
  BY DEF Same, Lag, Subdirs, Dots, At

\* The number of subdirectories is a number.
LEMMA LagType ==
    ASSUME TypeInv, NEW d \in Dirs
    PROVE  /\ IsFiniteSet(Subdirs(d)) /\ Cardinality(Subdirs(d)) \in Nat
           /\ inodes[d].links \in Nat
  <1>1. PICK es \in Seq(Entry) : es = EntriesOf(d)
    BY DirTypes
  <1>2. PICK n \in Nat : n = Len(es)
    BY <1>1
  <1>3. SubdirsIn(es) \subseteq 1 .. n
    BY <1>2 DEF SubdirsIn
  <1>4. IsFiniteSet(SubdirsIn(es))
    <2>1. IsFiniteSet(1 .. n)
      BY FS_Interval
    <2> QED
      BY <1>3, <2>1, FS_Subset
  <1>5. Subdirs(d) = SubdirsIn(es)
    BY <1>1, SubdirsAre
  <1>6. inodes[d] \in Inode
    BY DEF Dirs, TypeInv, TypeOK, DiskTypes
  <1> QED
    BY <1>4, <1>5, <1>6, FS_CardinalityType DEF Inode

LEMMA LinksWriteInode ==
    ASSUME Sound, InodesReady, DirInProgress, LinksCounted, WriteInode
    PROVE  LinksCounted'
  <1> USE DEF Sound
  <1>1. /\ inodes' = [inodes EXCEPT ![ino] = NewInode] /\ pc = "fill" /\ pc' = "link"
        /\ ents' = ents /\ inodes \in [AllInodes -> Inode]
    BY DEF WriteInode, Goto, TypeInv, TypeOK, DiskTypes
  <1> SUFFICES ASSUME NEW d \in Dirs' PROVE Lag(d)' = 0
    BY <1>1 DEF LinksCounted
  <1>2. CASE d = ino
    <2>1. EntriesOf(d)' = DotEntries(ino, cur) /\ making = "dir"
      <3>1. inodes[d].kind = "none"
        BY <1>1, <1>2 DEF InodesReady
      <3>2. d \notin Dirs
        BY <3>1 DEF Dirs
      <3> QED
        BY <3>2, DirectoryStep DEF Next, Work
    <2>2. Subdirs(d)' = SubdirsIn(EntriesOf(d)')
      BY DEF Subdirs, SubdirsIn, Dots, At
    <2>3. Subdirs(d)' = {}
      BY <2>1, <2>2, SubdirsOfDots
    <2>4. inodes'[d].links = 2
      BY <1>1, <1>2, <2>1 DEF NewInode, Dirs
    <2>5. Cardinality(Subdirs(d)') = 0
      BY <2>3, FS_EmptySet
    <2> QED
      BY <2>4, <2>5 DEF Lag
  <1>3. CASE d # ino
    <2>1. inodes'[d] = inodes[d]
      BY <1>1, <1>3
    <2>2. d \in Dirs
      BY <2>1 DEF Dirs
    <2>3. Same(d)
      BY <1>1, <2>1 DEF Same, EntriesOf, DirBlock
    <2>4. Lag(d) = 0
      BY <1>1, <2>2 DEF LinksCounted
    <2> QED
      BY <2>3, <2>4, SameLag
  <1> QED
    BY <1>2, <1>3

LEMMA LinksLink ==
    ASSUME Sound, InodesReady, DirInProgress, LinksCounted, Link
    PROVE  LinksCounted'
  <1> USE DEF Sound
  <1>1. /\ inodes' = inodes /\ cur' = cur /\ making' = making /\ pc = "link" /\ IsDir(cur)
        /\ Dirs' = Dirs
    BY DEF Link, call, Dirs
  <1>2. \A d \in Dirs : Lag(d) = 0
    BY <1>1 DEF LinksCounted
  <1>3. PICK parent, b : parent = cur /\ b = DirBlock(parent)
    OBVIOUS
  <1>4. parent \in Dirs /\ b \in DataBlocks /\ ents \in [DataBlocks -> Seq(Entry)]
    BY <1>1, <1>3, DirBlockType DEF IsDir, Dirs, TypeInv, TypeOK, DiskTypes
  <1>5. \/ ents' = ents /\ pc' = "failed"
        \/ ents'[b] = Append(ents[b], NewEntry) /\ pc' = AfterLink
    BY <1>3, <1>4 DEF Link, Publish, NewEntry, Goto, Fail
  <1>6. \A d \in Dirs : d # parent => Lag(d)' = 0
    <2> TAKE d \in Dirs
    <2> HAVE d # parent
    <2>1. Same(d)
      BY <1>1, <1>3, OnlyParent DEF Same, Next, Work
    <2> QED
      BY <1>2, <2>1, SameLag
  <1>7. CASE ents' = ents /\ pc' = "failed"
    <2>1. \A d \in Dirs : Same(d)
      BY <1>1, <1>7 DEF Same, EntriesOf, DirBlock
    <2>2. \A d \in Dirs' : Lag(d)' = 0
      BY <1>1, <1>2, <2>1, SameLag
    <2>3. {d \in Dirs' : Lag(d)' = 1} = {}
      BY <2>2
    <2>4. Cardinality({d \in Dirs' : Lag(d)' = 1}) = 0
      BY <2>3, FS_EmptySet
    <2>5. LinksLagByOne'
      BY <2>2, <2>4 DEF LinksLagByOne
    <2> QED
      BY <1>7, <2>5 DEF LinksCounted
  <1>8. CASE ents'[b] = Append(ents[b], NewEntry) /\ pc' = AfterLink
    <2>1. PICK es \in Seq(Entry) : es = EntriesOf(parent)
      BY <1>4, DirTypes
    <2>2. PICK e \in Entry : e = NewEntry /\ e.name \notin {".", ".."} /\ e.kind = making
      BY <1>1, NewEntryType
    <2>3. EntriesOf(parent)' = Append(es, e)
      <3>1. DirBlock(parent)' = b /\ es = ents[b]
        BY <1>1, <1>3, <2>1 DEF DirBlock, EntriesOf
      <3> QED
        BY <1>8, <2>2, <3>1 DEF EntriesOf
    <2>4. Subdirs(parent) = SubdirsIn(es) /\ Subdirs(parent)' = SubdirsIn(Append(es, e))
      BY <2>1, <2>3, SubdirsAre DEF Subdirs, SubdirsIn, Dots, At
    <2>5. /\ Cardinality(SubdirsIn(es)) \in Nat /\ inodes[parent].links \in Nat
          /\ Lag(parent) = 0
      BY <1>2, <1>4, <2>4, LagType
    <2>6. Lag(parent)' = IF making = "dir" THEN 1 ELSE 0
      <3>1. CASE making = "dir"
        <4>1. SubdirsIn(Append(es, e)) = SubdirsIn(es) \cup {Len(es) + 1}
              /\ Len(es) + 1 \notin SubdirsIn(es) /\ IsFiniteSet(SubdirsIn(es))
          BY <2>2, <3>1, SubdirsAppend
        <4>2. Cardinality(SubdirsIn(Append(es, e))) = Cardinality(SubdirsIn(es)) + 1
          BY <4>1, FS_AddElement
        <4> QED
          BY <1>1, <2>4, <2>5, <3>1, <4>2 DEF Lag
      <3>2. CASE making # "dir"
        <4>1. SubdirsIn(Append(es, e)) = SubdirsIn(es)
          BY <2>2, <3>2, SubdirsAppend
        <4> QED
          BY <1>1, <2>4, <2>5, <3>2, <4>1 DEF Lag
      <3> QED
        BY <3>1, <3>2
    <2>7. pc' = IF making = "dir" THEN "parent" ELSE "sb"
      BY <1>8 DEF AfterLink
    <2> QED
      BY <1>1, <1>3, <1>6, <2>6, <2>7 DEF LinksCounted
  <1> QED
    BY <1>5, <1>7, <1>8

LEMMA LinksCountParent ==
    ASSUME Sound, LinksCounted, CountParent
    PROVE  LinksCounted'
  <1> USE DEF Sound
  <1>1. /\ inodes' = [inodes EXCEPT ![cur].links = @ + 1] /\ ents' = ents
        /\ pc = "parent" /\ pc' = "sb"
        /\ inodes \in [AllInodes -> Inode] /\ cur \in AllInodes
    BY DEF CountParent, Goto, TypeInv, TypeOK, DiskTypes, CallTypes
  <1>2. ASSUME NEW i \in AllInodes
        PROVE  /\ inodes'[i].kind = inodes[i].kind /\ inodes'[i].blocks = inodes[i].blocks
               /\ inodes'[i].links = IF i = cur THEN inodes[i].links + 1 ELSE inodes[i].links
    BY <1>1 DEF Inode
  <1> SUFFICES ASSUME NEW d \in Dirs' PROVE Lag(d)' = 0
    BY <1>1 DEF LinksCounted
  <1>3. d \in Dirs /\ d \in AllInodes
    BY <1>2 DEF Dirs
  <1>4. EntriesOf(d)' = EntriesOf(d)
    BY <1>1, <1>2, <1>3 DEF EntriesOf, DirBlock
  <1>5. Subdirs(d)' = Subdirs(d)
    BY <1>4 DEF Subdirs, Dots, At
  <1>6. Cardinality(Subdirs(d)) \in Nat /\ inodes[d].links \in Nat
    BY <1>3, LagType
  <1>7. Lag(d) = IF d = cur THEN 1 ELSE 0
    BY <1>1, <1>3 DEF LinksCounted
  <1> QED
    BY <1>2, <1>3, <1>5, <1>6, <1>7 DEF Lag

LEMMA LinksStep ==
    ASSUME Sound, InodesReady, DirInProgress, LinksCounted, [Next]_vars
    PROVE  LinksCounted'
  <1> USE DEF Sound
  <1>1. CASE WriteInode \/ Link \/ CountParent
    BY <1>1, LinksWriteInode, LinksLink, LinksCountParent
  <1>2. CASE ~(WriteInode \/ Link \/ CountParent)
    <2>1. inodes' = inodes
      BY <1>2 DEF Next, Work, Begin, Descend, NameRoot, LastDir,
         LastLeaf, Stray, AllocInode, AllocBlock, NoBlockLeft, Put, PutDirect, PutSingle,
         PutSingleRoot, PutDouble, PutInner, PutDoubleRoot, PutDirBlock, PutData, PutPointers,
         FlushSuper, FlushGdt, Stop, Finish, Over, vars, disk, tree
    <2>2. Dirs' = Dirs /\ \A d \in Dirs : Same(d)
      <3>1. ASSUME NEW d \in Dirs PROVE Same(d)
        <4>1. PICK b : b = DirBlock(d)
          OBVIOUS
        <4>2. ents'[b] = ents[b]
          BY <1>2, <4>1, DirBlockStep
        <4> QED
          BY <2>1, <4>1, <4>2 DEF Same, EntriesOf, DirBlock
      <3> QED
        BY <2>1, <3>1 DEF Dirs
    <2>3. \A d \in Dirs : Lag(d)' = Lag(d)
      BY <2>2, SameLag
    <2>4. LinksLagByOne'
      <3>1. {d \in Dirs : Lag(d) = 1} = {d \in Dirs : Lag(d)' = 1}
        BY <2>3
      <3> QED
        BY <2>2, <2>3, <3>1, CountedLags DEF LinksLagByOne
    <2>5. \/ pc' = "failed"
          \/ UNCHANGED <<pc, cur>>
          \/ pc \notin {"failed", "parent"} /\ pc' # "parent"
      BY <1>2 DEF Next, Work, Begin, Descend, NameRoot, LastDir, LastLeaf, Stray, AllocInode,
         AllocBlock, NoBlockLeft, Put, FlushSuper, FlushGdt, Return, Answer, Make, MakeDir,
         Stop, Finish, Over, Goto, Fail, vars, call
    <2> QED
      BY <2>2, <2>3, <2>4, <2>5 DEF LinksCounted
  <1> QED
    BY <1>1, <1>2

\* At every write of every request the count of links of a directory is what
\* e2fsck counts, but for one directory whose count is one short: the parent
\* that df_ext2_mkdir rewrites after the new directory is linked.
THEOREM LinksLag == Spec => []LinksLagByOne
  <1>1. Init => Sound /\ InodesReady /\ DirInProgress /\ LinksCounted
    BY InitTypes, OwnInit, InodesBelowInit, InodesReadyInit, DirectoriesInit, LinksInit
       DEF Init, Writing, Sound
  <1>2. Sound /\ InodesReady /\ DirInProgress /\ LinksCounted /\ [Next]_vars
        => (Sound /\ InodesReady /\ DirInProgress /\ LinksCounted)'
    BY SoundStep, InodesReadyStep, DirInProgressStep, LinksStep
  <1>3. LinksCounted => LinksLagByOne
    BY CountedLags
  <1> QED
    BY <1>1, <1>2, <1>3, PTL DEF Spec
-----------------------------------------------------------------------------
(* The geometries that df_format_ext2 leaves: for every partition that it  *)
(* accepts, a layout of the kind that the theorems above are about.        *)

LEMMA Numbers ==
    /\ BlocksPerGroup = 32768 /\ InodesPerGroup = 8192 /\ InodesPerBlock = 32
    /\ DescriptorsPerBlock = 128 /\ TablePerGroup = 256 /\ MaxGroups = 512
  BY DEF BlocksPerGroup, InodesPerGroup, InodesPerBlock, DescriptorsPerBlock, TablePerGroup,
         MaxGroups

\* The descriptors and the metadata of a number of groups.
LEMMA MetadataOf ==
    ASSUME NEW groups \in 1 .. MaxGroups
    PROVE  /\ DescriptorBlocks(groups) \in 1 .. 4
           /\ groups <= DescriptorBlocks(groups) * DescriptorsPerBlock
           /\ Metadata(groups) = DescriptorBlocks(groups) + 259
           /\ Metadata(groups) \in 260 .. 263
  BY Numbers DEF DescriptorBlocks, Metadata

\* What is kept: whole groups, and a tail with room for its metadata and 8
\* blocks more.
LEMMA Kept ==
    ASSUME NEW sectors \in Nat, Formats(sectors),
           NEW blocks, blocks = Geometry(sectors).blocks,
           NEW groups, groups = Geometry(sectors).groups
    PROVE  /\ groups \in 1 .. MaxGroups /\ blocks \in Nat
           /\ blocks >= (groups - 1) * BlocksPerGroup + Metadata(groups) + 8
           /\ blocks <= groups * BlocksPerGroup
           /\ 8 * blocks <= sectors
           /\ sectors < 8 * (blocks + 272)
  <1>1. PICK b \in Nat : b = sectors \div 8
    OBVIOUS
  <1>2. PICK h \in Nat : h = GroupsBegun(b)
    BY Numbers DEF GroupsBegun
  <1>3. b >= 272 /\ 8 * b <= sectors /\ sectors < 8 * b + 8
    BY <1>1, Numbers DEF Formats
  <1>4. h >= 1 /\ (h - 1) * BlocksPerGroup < b /\ b <= h * BlocksPerGroup
    BY <1>2, <1>3, Numbers DEF GroupsBegun
  <1>5. groups \in 1 .. MaxGroups
    BY DEF Formats
  <1>6. Metadata(groups) \in 260 .. 263
    BY <1>5, MetadataOf
  <1>7. CASE DropsTail(b)
    <2>1. groups = h - 1 /\ blocks = (h - 1) * BlocksPerGroup
      BY <1>1, <1>2, <1>7 DEF Geometry
    <2>2. b - (h - 1) * BlocksPerGroup < Metadata(h) + 8
      BY <1>2, <1>7 DEF DropsTail
    <2>3. Metadata(h) <= 264
      BY <1>5, <2>1, Numbers DEF Metadata, DescriptorBlocks
    <2>4. b < blocks + 272 /\ blocks < b
      BY <1>4, <1>5, <2>1, <2>2, <2>3, Numbers DEF Metadata, DescriptorBlocks
    <2> QED
      BY <1>3, <1>5, <1>6, <2>1, <2>4, Numbers
  <1>8. CASE ~DropsTail(b)
    <2>1. groups = h /\ blocks = b
      BY <1>1, <1>2, <1>8 DEF Geometry
    <2>2. ~(b - (h - 1) * BlocksPerGroup < Metadata(h) + 8)
      BY <1>2, <1>8 DEF DropsTail
    <2> QED
      BY <1>3, <1>4, <1>5, <1>6, <2>1, <2>2, Numbers
  <1> QED
    BY <1>7, <1>8

\* For every size of partition that df_format_ext2 accepts, the geometry it
\* keeps is one for which the theorems about the ext2 writer hold: the three
\* assumptions of Ext2Layout.
THEOREM FormatMakesLayout ==
    ASSUME NEW sectors \in Nat, Formats(sectors)
    PROVE  /\ LayoutOf(sectors)!LayoutSizes /\ LayoutOf(sectors)!GroupsFit
           /\ LayoutOf(sectors)!TailUsable
  <1>1. PICK blocks, groups :
            blocks = Geometry(sectors).blocks /\ groups = Geometry(sectors).groups
    OBVIOUS
  <1>2. PICK gd : gd = DescriptorBlocks(groups)
    OBVIOUS
  <1>3. /\ groups \in 1 .. MaxGroups /\ blocks \in Nat
        /\ blocks >= (groups - 1) * BlocksPerGroup + Metadata(groups) + 8
        /\ blocks <= groups * BlocksPerGroup
    BY <1>1, Kept
  <1>4. /\ gd \in 1 .. 4 /\ groups <= gd * DescriptorsPerBlock /\ Metadata(groups) = gd + 259
    BY <1>2, <1>3, MetadataOf
  <1>5. LayoutOf(sectors)!LayoutSizes
    <2>1. blocks > 0
      BY <1>3, <1>4, Numbers
    <2>2. {blocks, groups, BlocksPerGroup, InodesPerGroup, InodesPerBlock, TablePerGroup,
           DescriptorsPerBlock, gd} \subseteq Nat \ {0}
      BY <1>3, <1>4, <2>1, Numbers
    <2> QED
      BY <1>1, <1>2, <2>2 DEF LayoutOf!LayoutSizes
  <1>6. LayoutOf(sectors)!Metapg = Metadata(groups)
    BY <1>1 DEF LayoutOf!Metapg, Metadata
  <1>7. LayoutOf(sectors)!GroupsFit
    <2>1. /\ InodesPerGroup = TablePerGroup * InodesPerBlock
          /\ Metadata(groups) + 2 <= BlocksPerGroup /\ Metadata(groups) + 2 <= blocks
          /\ 2 < 11 /\ 11 <= InodesPerGroup
      BY <1>3, <1>4, Numbers
    <2> QED
      BY <1>1, <1>2, <1>4, <1>6, <2>1 DEF LayoutOf!GroupsFit
  <1>8. LayoutOf(sectors)!TailUsable
    <2>1. (groups - 1) * BlocksPerGroup + Metadata(groups) < blocks
      BY <1>3, <1>4, Numbers
    <2> QED
      BY <1>1, <1>3, <1>6, <2>1 DEF LayoutOf!TailUsable
  <1> QED
    BY <1>5, <1>7, <1>8

\* The file system ends inside its partition, and what is given up at the end
\* is less than 272 blocks and a part of one.
THEOREM FormatFillsPartition ==
    ASSUME NEW sectors \in Nat, Formats(sectors)
    PROVE  /\ 8 * Geometry(sectors).blocks <= sectors
           /\ sectors - 8 * Geometry(sectors).blocks < 8 * 272
  BY Kept

\* A group's range of blocks.
LEMMA GroupRange ==
    ASSUME NEW sectors \in Nat, Formats(sectors), NEW h \in LayoutOf(sectors)!Groups,
           NEW n, n = BlocksOf(Geometry(sectors), h)
    PROVE  /\ h \in Nat
           /\ n \in Nat /\ n >= Metadata(Geometry(sectors).groups) + 8 /\ n <= BlocksPerGroup
           /\ Metadata(Geometry(sectors).groups) \in 260 .. 263
           /\ LayoutOf(sectors)!GroupBlocks(h) = h * BlocksPerGroup .. h * BlocksPerGroup + n - 1
  <1>1. PICK blocks, groups, metadata :
            /\ blocks = Geometry(sectors).blocks /\ groups = Geometry(sectors).groups
            /\ metadata = Metadata(groups)
    OBVIOUS
  <1>2. /\ groups \in 1 .. MaxGroups /\ blocks \in Nat
        /\ blocks >= (groups - 1) * BlocksPerGroup + metadata + 8
        /\ blocks <= groups * BlocksPerGroup
    BY <1>1, Kept
  <1>3. metadata \in 260 .. 263
    BY <1>1, <1>2, MetadataOf
  <1>4. h \in 0 .. groups - 1
    BY <1>1 DEF LayoutOf!Groups
  <1>5. n = IF h = groups - 1 THEN blocks - h * BlocksPerGroup ELSE BlocksPerGroup
    BY <1>1 DEF BlocksOf
  <1>6. LayoutOf(sectors)!GroupBlocks(h) = {bn \in 0 .. blocks - 1 : bn \div BlocksPerGroup = h}
    BY <1>1 DEF LayoutOf!GroupBlocks, LayoutOf!Blocks, LayoutOf!GroupOfBlock
  <1>7. /\ n \in Nat /\ n >= metadata + 8 /\ n <= BlocksPerGroup
        /\ h * BlocksPerGroup + n <= blocks
    BY <1>2, <1>3, <1>4, <1>5, Numbers
  <1>8. ASSUME NEW bn \in 0 .. blocks - 1
        PROVE  bn \div BlocksPerGroup = h
               <=> bn \in h * BlocksPerGroup .. h * BlocksPerGroup + n - 1
    <2>1. CASE h = groups - 1
      BY <1>2, <1>4, <1>5, <2>1, Numbers
    <2>2. CASE h # groups - 1
      BY <1>2, <1>4, <1>5, <2>2, Numbers
    <2> QED
      BY <2>1, <2>2
  <1>9. h * BlocksPerGroup .. h * BlocksPerGroup + n - 1 \subseteq 0 .. blocks - 1
    BY <1>2, <1>4, <1>7, Numbers
  <1>10. LayoutOf(sectors)!GroupBlocks(h) = h * BlocksPerGroup .. h * BlocksPerGroup + n - 1
    BY <1>6, <1>8, <1>9
  <1> QED
    BY <1>1, <1>3, <1>4, <1>7, <1>10

\* A descriptor's field has room for all blocks of a group.
LEMMA Room == \E top \in Nat : Field16 = 0 .. top /\ BlocksPerGroup <= top
  <1>1. PICK top : top = 65535
    OBVIOUS
  <1>2. top \in Nat /\ BlocksPerGroup <= top
    BY <1>1, Numbers
  <1>3. Field16 = 0 .. top
    BY <1>1 DEF Field16
  <1> QED
    BY <1>2, <1>3

\* The counters of a group begin with the blocks it has behind its metadata
\* and the two directories, at least six, and fit the descriptor's 16 bits.
THEOREM FormatCountsGroups ==
    ASSUME NEW sectors \in Nat, Formats(sectors), NEW h \in LayoutOf(sectors)!Groups,
           NEW geo, geo = Geometry(sectors)
    PROVE  /\ BlocksOf(geo, h) = Cardinality(LayoutOf(sectors)!GroupBlocks(h))
           /\ FreeBlocks(geo, h) \in Field16 /\ FreeBlocks(geo, h) >= 6
           /\ FreeInodes(h) \in Field16
  <1>1. PICK n, metadata : n = BlocksOf(geo, h) /\ metadata = Metadata(geo.groups)
    OBVIOUS
  <1>2. /\ h \in Nat /\ n \in Nat /\ n >= metadata + 8 /\ n <= BlocksPerGroup
        /\ metadata \in 260 .. 263
        /\ LayoutOf(sectors)!GroupBlocks(h) = h * BlocksPerGroup .. h * BlocksPerGroup + n - 1
    BY <1>1, GroupRange
  <1>3. Cardinality(h * BlocksPerGroup .. h * BlocksPerGroup + n - 1) = n
    BY <1>2, FS_Interval, Numbers
  <1>4. FreeBlocks(geo, h) = n - metadata - (IF h = 0 THEN 2 ELSE 0)
    BY <1>1 DEF FreeBlocks
  <1>5. FreeBlocks(geo, h) \in Field16 /\ FreeBlocks(geo, h) >= 6
    <2>1. PICK spent : spent = IF h = 0 THEN 2 ELSE 0
      OBVIOUS
    <2>2. spent \in {0, 2} /\ FreeBlocks(geo, h) = n - metadata - spent
      BY <1>4, <2>1
    <2>3. PICK top \in Nat : Field16 = 0 .. top /\ BlocksPerGroup <= top
      BY Room
    <2>4. BlocksPerGroup \in Nat
      BY DEF BlocksPerGroup
    <2>5. n - metadata - spent \in 0 .. top /\ n - metadata - spent >= 6
      BY <1>2, <2>2, <2>3, <2>4
    <2> QED
      BY <2>2, <2>3, <2>5
  <1>6. FreeInodes(h) \in Field16
    BY Numbers DEF FreeInodes, Field16
  <1>7. BlocksOf(geo, h) = Cardinality(LayoutOf(sectors)!GroupBlocks(h))
    BY <1>1, <1>2, <1>3
  <1> QED
    BY <1>5, <1>6, <1>7

\* Which files of those df_ext2_add_file_sz accepts get their own size in the
\* inode: those below 4 GiB, though one of 4 GiB is accepted.
THEOREM SizesKept ==
    /\ \A size \in Nat : i_size(size) = size <=> size < 4294967296
    /\ AcceptsFile(4294967296)
  BY DEF i_size, AcceptsFile, BlockSize
=============================================================================
