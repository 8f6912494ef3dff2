--------------------------- MODULE Ext2Clean_proofs ---------------------------
(***************************************************************************)
(* What e2fsck finds.  After every request that was answered, bitmaps,     *)
(* names, counts of links and all copies of the counters are exact; where  *)
(* a run stops in between, no copy claims less free space than there is,   *)
(* and all copies but one agree with themselves.                           *)
(***************************************************************************)
EXTENDS Ext2Writer_proofs

-----------------------------------------------------------------------------
(* Sums over sets.  The sizes of the parts of a finite set satisfy the     *)
(* recursion that MapThenSumSet chooses a solution of, and by well-founded *)
(* induction no other function does.                                       *)

\* Sized(A, s): the size of the union of the sets A[x], x in s.
One(s) == CHOOSE x \in s : TRUE
Union(A, s) == UNION {A[x] : x \in s}
Sized(A, s) == Cardinality(Union(A, s))

LEMMA UnionsFinite ==
    ASSUME NEW S, IsFiniteSet(S), NEW A, \A x \in S : IsFiniteSet(A[x]), NEW s \in SUBSET S
    PROVE  IsFiniteSet(Union(A, s))
  <1>1. IsFiniteSet(s)
    BY FS_Subset
  <1>2. IsFiniteSet({A[x] : x \in s})
    <2>1. [x \in s |-> A[x]] \in Surjection(s, {A[x] : x \in s})
      BY DEF Surjection
    <2> QED
      BY <1>1, <2>1, FS_Surjection
  <1>3. \A T \in {A[x] : x \in s} : IsFiniteSet(T)
    OBVIOUS
  <1> QED
    BY <1>2, <1>3, FS_UNION DEF Union

LEMMA SizedOne ==
    ASSUME NEW S, IsFiniteSet(S), NEW A, \A x \in S : IsFiniteSet(A[x]),
           \A x, y \in S : x # y => A[x] \cap A[y] = {},
           NEW s \in SUBSET S, s # {}
    PROVE  /\ One(s) \in s
           /\ Sized(A, s) = Cardinality(A[One(s)]) + Sized(A, s \ {One(s)})
  <1>1. PICK x : x = One(s)
    OBVIOUS
  <1>2. x \in s
    BY <1>1 DEF One
  <1>3. PICK r \in SUBSET S : r = s \ {x}
    OBVIOUS
  <1>4. Union(A, s) = A[x] \cup Union(A, r)
    BY <1>2, <1>3 DEF Union
  <1>5. A[x] \cap Union(A, r) = {}
    BY <1>2, <1>3 DEF Union
  <1>6. IsFiniteSet(A[x]) /\ IsFiniteSet(Union(A, r))
    BY <1>2, UnionsFinite
  <1>7. Cardinality(A[x]) \in Nat /\ Cardinality(Union(A, r)) \in Nat
    BY <1>6, FS_CardinalityType
  <1>8. Cardinality(A[x] \cup Union(A, r)) = Cardinality(A[x]) + Cardinality(Union(A, r))
    <2>1. Cardinality(A[x] \cap Union(A, r)) = 0
      BY <1>5, FS_EmptySet
    <2>2. Cardinality(A[x] \cup Union(A, r))
            = Cardinality(A[x]) + Cardinality(Union(A, r)) - Cardinality(A[x] \cap Union(A, r))
      BY <1>6, FS_Union
    <2> QED
      BY <1>7, <2>1, <2>2
  <1> QED
    BY <1>1, <1>2, <1>3, <1>4, <1>8 DEF Sized

\* it is a solution of the recursion of a sum over S; with disjoint A[x] of the
\* sizes f[x] the size of unions is one, and the only one.
Sums(it, f, S) ==
    it = [s \in SUBSET S |-> IF s = {} THEN 0 ELSE f[One(s)] + it[s \ {One(s)}]]

LEMMA SumIs ==
    ASSUME NEW S, IsFiniteSet(S), NEW A, \A x \in S : IsFiniteSet(A[x]),
           \A x, y \in S : x # y => A[x] \cap A[y] = {},
           NEW f, \A x \in S : f[x] = Cardinality(A[x])
    PROVE  /\ Sums([s \in SUBSET S |-> Sized(A, s)], f, S)
           /\ \A it : Sums(it, f, S) => it[S] = Sized(A, S)
  <1>1. Sized(A, {}) = 0
    BY FS_EmptySet DEF Sized, Union
  <1>2. ASSUME NEW s \in SUBSET S, s # {}
        PROVE  /\ One(s) \in S /\ s \ {One(s)} \in SUBSET S
               /\ Sized(A, s) = f[One(s)] + Sized(A, s \ {One(s)})
    BY <1>2, SizedOne
  <1>3. Sums([s \in SUBSET S |-> Sized(A, s)], f, S)
    BY <1>1, <1>2 DEF Sums
  <1>4. ASSUME NEW it, Sums(it, f, S) PROVE it[S] = Sized(A, S)
    <2> DEFINE Wrong == {s \in FiniteSubsetsOf(S) : it[s] # Sized(A, s)}
    <2>1. S \in FiniteSubsetsOf(S) /\ \A s \in SUBSET S : s \in FiniteSubsetsOf(S)
      BY FS_Subset DEF FiniteSubsetsOf
    <2>2. CASE Wrong # {}
      <3>1. PICK s \in Wrong : \A r \in Wrong : ~(<<r, s>> \in StrictSubsetOrdering(S))
        <4>1. Wrong \in SUBSET FiniteSubsetsOf(S)
          OBVIOUS
        <4> HIDE DEF Wrong
        <4> QED
          BY <2>2, <4>1, WFMin, FS_StrictSubsetOrderingWellFounded
      <3>2. s \in SUBSET S /\ it[s] # Sized(A, s)
        BY <3>1 DEF FiniteSubsetsOf
      <3>3. s # {}
        BY <1>1, <1>4, <3>2 DEF Sums
      <3>4. PICK x : x = One(s)
        OBVIOUS
      <3>5. x \in s /\ s \ {x} \in SUBSET S
        BY <3>2, <3>3, <3>4, SizedOne
      <3>6. <<s \ {x}, s>> \in StrictSubsetOrdering(S)
        BY <3>2, <3>5 DEF StrictSubsetOrdering
      <3>7. it[s \ {x}] = Sized(A, s \ {x})
        BY <2>1, <3>1, <3>5, <3>6
      <3>8. it[s] = f[x] + it[s \ {x}]
        BY <1>4, <3>2, <3>3, <3>4 DEF Sums
      <3> QED
        BY <1>2, <3>2, <3>3, <3>4, <3>7, <3>8
    <2> QED
      BY <2>1, <2>2
  <1> QED
    BY <1>3, <1>4

-----------------------------------------------------------------------------
(* Blocks and inodes split into groups, so the counters of the groups sum  *)
(* to the superblock's.                                                    *)

LEMMA Finite == IsFiniteSet(Blocks) /\ IsFiniteSet(Inodes) /\ IsFiniteSet(Groups)
  <1>1. B - 1 \in Int /\ IPG * G \in Int /\ G - 1 \in Int
    BY LayoutNats
  <1> QED
    BY <1>1, FS_Interval DEF Blocks, Inodes, Groups

\* Every block and every inode of the file system is in one group.
LEMMA GroupsSplit ==
    ASSUME NEW S, NEW I
    PROVE  /\ UNION {GroupBlocks(h) \cap S : h \in Groups} = Blocks \cap S
           /\ UNION {GroupInodes(h) \cap I : h \in Groups} = Inodes \cap I
           /\ \A h, k \in Groups : h # k =>
                  /\ (GroupBlocks(h) \cap S) \cap (GroupBlocks(k) \cap S) = {}
                  /\ (GroupInodes(h) \cap I) \cap (GroupInodes(k) \cap I) = {}
           /\ \A h \in Groups : /\ IsFiniteSet(GroupBlocks(h) \cap S)
                                /\ IsFiniteSet(GroupInodes(h) \cap I)
  <1>1. \A bn \in Blocks : GroupOfBlock(bn) \in Groups
    BY BlockHasGroup
  <1>2. \A i \in Inodes : GroupOfInode(i) \in Groups
    BY InodeHasGroup
  <1>3. \A h \in Groups : /\ IsFiniteSet(GroupBlocks(h) \cap S)
                          /\ IsFiniteSet(GroupInodes(h) \cap I)
    <2> TAKE h \in Groups
    <2>1. GroupBlocks(h) \cap S \in SUBSET Blocks /\ GroupInodes(h) \cap I \in SUBSET Inodes
      BY DEF GroupBlocks, GroupInodes
    <2> QED
      BY <2>1, Finite, FS_Subset
  <1>4. UNION {GroupBlocks(h) \cap S : h \in Groups} = Blocks \cap S
    BY <1>1 DEF GroupBlocks
  <1>5. UNION {GroupInodes(h) \cap I : h \in Groups} = Inodes \cap I
    BY <1>2 DEF GroupInodes
  <1> QED
    BY <1>3, <1>4, <1>5 DEF GroupBlocks, GroupInodes

LEMMA GroupSum ==
    ASSUME NEW S, NEW I, NEW f
    PROVE  /\ (\A h \in Groups : f[h] = Cardinality(GroupBlocks(h) \cap S)) =>
                  /\ \E it : Sums(it, f, Groups)
                  /\ \A it : Sums(it, f, Groups) => it[Groups] = Cardinality(Blocks \cap S)
           /\ (\A h \in Groups : f[h] = Cardinality(GroupInodes(h) \cap I)) =>
                  /\ \E it : Sums(it, f, Groups)
                  /\ \A it : Sums(it, f, Groups) => it[Groups] = Cardinality(Inodes \cap I)
  <1>1. ASSUME \A h \in Groups : f[h] = Cardinality(GroupBlocks(h) \cap S)
        PROVE  /\ \E it : Sums(it, f, Groups)
               /\ \A it : Sums(it, f, Groups) => it[Groups] = Cardinality(Blocks \cap S)
    <2>1. PICK A : A = [h \in Groups |-> GroupBlocks(h) \cap S]
      OBVIOUS
    <2>2. /\ \A h \in Groups : IsFiniteSet(A[h]) /\ f[h] = Cardinality(A[h])
          /\ \A h, k \in Groups : h # k => A[h] \cap A[k] = {}
      BY <1>1, <2>1, GroupsSplit
    <2>3. Union(A, Groups) = Blocks \cap S
      <3>1. Union(A, Groups) = UNION {GroupBlocks(h) \cap S : h \in Groups}
        BY <2>1 DEF Union
      <3> QED
        BY <3>1, GroupsSplit
    <2> QED
      BY <2>2, <2>3, Finite, SumIs DEF Sized
  <1>2. ASSUME \A h \in Groups : f[h] = Cardinality(GroupInodes(h) \cap I)
        PROVE  /\ \E it : Sums(it, f, Groups)
               /\ \A it : Sums(it, f, Groups) => it[Groups] = Cardinality(Inodes \cap I)
    <2>1. PICK A : A = [h \in Groups |-> GroupInodes(h) \cap I]
      OBVIOUS
    <2>2. /\ \A h \in Groups : IsFiniteSet(A[h]) /\ f[h] = Cardinality(A[h])
          /\ \A h, k \in Groups : h # k => A[h] \cap A[k] = {}
      BY <1>2, <2>1, GroupsSplit
    <2>3. Union(A, Groups) = Inodes \cap I
      <3>1. Union(A, Groups) = UNION {GroupInodes(h) \cap I : h \in Groups}
        BY <2>1 DEF Union
      <3> QED
        BY <3>1, GroupsSplit
    <2> QED
      BY <2>2, <2>3, Finite, SumIs DEF Sized
  <1> QED
    BY <1>1, <1>2

\* The sums of CountersCoverBitmaps and CountersExact.
LEMMA FreeBlocksAre == MapThenSumSet(FreeBits, Groups) = Cardinality(Blocks \ bbmp)
  <1>1. PICK f : f = [h \in Groups |-> FreeBits(h)]
    OBVIOUS
  <1>2. PICK S : S = Blocks \ bbmp
    OBVIOUS
  <1>3. \A h \in Groups : f[h] = Cardinality(GroupBlocks(h) \cap S)
    <2> TAKE h \in Groups
    <2>1. GroupBlocks(h) \cap S = GroupBlocks(h) \ bbmp
      BY <1>2 DEF GroupBlocks
    <2> QED
      BY <1>1, <2>1 DEF FreeBits
  <1>4. Blocks \cap S = Blocks \ bbmp
    BY <1>2
  <1> DEFINE P(it) == it = [s \in SUBSET Groups |-> IF s = {} THEN 0
                 ELSE FreeBits(CHOOSE x \in s : TRUE) + it[s \ {CHOOSE x \in s : TRUE}]]
  <1>5. \A it : Sums(it, f, Groups) <=> P(it)
    <2>1. \A s \in SUBSET Groups : s # {} => (CHOOSE x \in s : TRUE) \in Groups
      OBVIOUS
    <2> QED
      BY <1>1, <2>1 DEF Sums, One
  <1>6. ASSUME NEW it, P(it) PROVE P(CHOOSE i : P(i))
    BY <1>6
  <1>7. MapThenSumSet(FreeBits, Groups) = (CHOOSE it : P(it))[Groups]
    BY DEF MapThenSumSet, MapThenFoldSet
  <1> HIDE DEF P
  <1>8. (\E it : Sums(it, f, Groups))
        /\ \A it : Sums(it, f, Groups) => it[Groups] = Cardinality(Blocks \cap S)
    BY <1>3, GroupSum
  <1> QED
    BY <1>4, <1>5, <1>6, <1>7, <1>8

LEMMA FreeInodesAre == MapThenSumSet(FreeInodeBits, Groups) = Cardinality(Inodes \ ibmp)
  <1>1. PICK f : f = [h \in Groups |-> FreeInodeBits(h)]
    OBVIOUS
  <1>2. PICK I : I = Inodes \ ibmp
    OBVIOUS
  <1>3. \A h \in Groups : f[h] = Cardinality(GroupInodes(h) \cap I)
    <2> TAKE h \in Groups
    <2>1. GroupInodes(h) \cap I = GroupInodes(h) \ ibmp
      BY <1>2 DEF GroupInodes
    <2> QED
      BY <1>1, <2>1 DEF FreeInodeBits
  <1>4. Inodes \cap I = Inodes \ ibmp
    BY <1>2
  <1> DEFINE P(it) == it = [s \in SUBSET Groups |-> IF s = {} THEN 0
                 ELSE FreeInodeBits(CHOOSE x \in s : TRUE) + it[s \ {CHOOSE x \in s : TRUE}]]
  <1>5. \A it : Sums(it, f, Groups) <=> P(it)
    <2>1. \A s \in SUBSET Groups : s # {} => (CHOOSE x \in s : TRUE) \in Groups
      OBVIOUS
    <2> QED
      BY <1>1, <2>1 DEF Sums, One
  <1>6. ASSUME NEW it, P(it) PROVE P(CHOOSE i : P(i))
    BY <1>6
  <1>7. MapThenSumSet(FreeInodeBits, Groups) = (CHOOSE it : P(it))[Groups]
    BY DEF MapThenSumSet, MapThenFoldSet
  <1> HIDE DEF P
  <1>8. (\E it : Sums(it, f, Groups))
        /\ \A it : Sums(it, f, Groups) => it[Groups] = Cardinality(Inodes \cap I)
    BY <1>3, GroupSum
  <1> QED
    BY <1>4, <1>5, <1>6, <1>7, <1>8

\* The counters of copy c say that the blocks of S and the inodes of I are free.
Describes(c, S, I) ==
    /\ sb[c].blocks = Cardinality(S) /\ sb[c].inodes = Cardinality(I)
    /\ \A h \in Groups : /\ gdt[c][h].blocks = Cardinality(GroupBlocks(h) \cap S)
                         /\ gdt[c][h].inodes = Cardinality(GroupInodes(h) \cap I)

LEMMA DescribesWhole ==
    ASSUME NEW c \in Groups, NEW S \in SUBSET Blocks, NEW I \in SUBSET Inodes, Describes(c, S, I)
    PROVE  Whole(c)
  <1>1. PICK f, k : /\ f = [h \in Groups |-> gdt[c][h].blocks]
                    /\ k = [h \in Groups |-> gdt[c][h].inodes]
    OBVIOUS
  <1>2. \A h \in Groups : /\ f[h] = Cardinality(GroupBlocks(h) \cap S)
                          /\ k[h] = Cardinality(GroupInodes(h) \cap I)
    BY <1>1 DEF Describes
  <1>3. Blocks \cap S = S /\ Inodes \cap I = I
    OBVIOUS
  <1> DEFINE P(it) == it = [s \in SUBSET Groups |-> IF s = {} THEN 0
                 ELSE gdt[c][CHOOSE x \in s : TRUE].blocks + it[s \ {CHOOSE x \in s : TRUE}]]
             Q(it) == it = [s \in SUBSET Groups |-> IF s = {} THEN 0
                 ELSE gdt[c][CHOOSE x \in s : TRUE].inodes + it[s \ {CHOOSE x \in s : TRUE}]]
  <1>4. \A it : (Sums(it, f, Groups) <=> P(it)) /\ (Sums(it, k, Groups) <=> Q(it))
    <2>1. \A s \in SUBSET Groups : s # {} => (CHOOSE x \in s : TRUE) \in Groups
      OBVIOUS
    <2> QED
      BY <1>1, <2>1 DEF Sums, One
  <1>5. ASSUME NEW it, P(it) PROVE P(CHOOSE i : P(i))
    BY <1>5
  <1>6. ASSUME NEW it, Q(it) PROVE Q(CHOOSE i : Q(i))
    BY <1>6
  <1>7. Whole(c) <=> /\ sb[c].blocks = (CHOOSE it : P(it))[Groups]
                     /\ sb[c].inodes = (CHOOSE it : Q(it))[Groups]
    BY DEF Whole, MapThenSumSet, MapThenFoldSet
  <1> HIDE DEF P, Q
  <1>8. (CHOOSE it : P(it))[Groups] = Cardinality(S)
    <2>1. (\E it : Sums(it, f, Groups))
          /\ \A it : Sums(it, f, Groups) => it[Groups] = Cardinality(Blocks \cap S)
      BY <1>2, GroupSum
    <2> QED
      BY <1>3, <1>4, <1>5, <2>1
  <1>9. (CHOOSE it : Q(it))[Groups] = Cardinality(I)
    <2>1. (\E it : Sums(it, k, Groups))
          /\ \A it : Sums(it, k, Groups) => it[Groups] = Cardinality(Inodes \cap I)
      BY <1>2, GroupSum
    <2> QED
      BY <1>3, <1>4, <1>6, <2>1
  <1> QED
    BY <1>7, <1>8, <1>9 DEF Describes

-----------------------------------------------------------------------------
(* What the writer holds in its buffers: nothing between files, and no     *)
(* more than the file in progress needs.                                   *)

\* Blocks not handed out, data blocks still in a buffer and the block at hand
\* list nothing; the blocks gathered for the double-indirect block list data
\* blocks.
PointersShallow ==
    /\ \A b \in DataBlocks : b >= next_block => ptr[b] = {}
    /\ \A b \in ind \cup ({blk} \ {0}) : ptr[b] = {}
    /\ \A b \in ind2 : \A c \in ptr[b] : ptr[c] = {}

LEMMA ShallowInit == Init => PointersShallow
  BY DEF Init, PointersShallow

\* A request that makes an inode starts with nothing in memory.
LEMMA StartsEmpty ==
    ASSUME Descend \/ LastDir \/ LastLeaf
    PROVE  /\ UNCHANGED <<mem, disk>> /\ pc = "resolve"
           /\ \/ UNCHANGED file /\ pc' \notin Making
              \/ /\ pc' = "alloc_ino" /\ L' = 0 /\ blk' = 0 /\ direct' = {} /\ ind' = {}
                 /\ ind2' = {} /\ ib12' = 0 /\ ib13' = 0
  <1>1. CASE Descend
    BY <1>1 DEF Descend, Make, MakeDir, Goto, Making
  <1>2. CASE LastDir
    BY <1>2 DEF LastDir, Make, MakeDir, Goto, Answer, Making
  <1>3. CASE LastLeaf
    BY <1>3 DEF LastLeaf, Make, Goto, Fail, Making
  <1> QED
    BY <1>1, <1>2, <1>3

LEMMA ShallowPut ==
    ASSUME Sound, PointersShallow, Put
    PROVE  PointersShallow'
  <1> USE DEF Sound
  <1>1. /\ pc = "put" /\ blk \in DataBlocks /\ blk # 0 /\ ptr[blk] = {} /\ blk' = 0
        /\ next_block' = next_block /\ blk < next_block
        /\ ptr \in [DataBlocks -> SUBSET DataBlocks] /\ next_block \in Nat
        /\ ind \subseteq DataBlocks /\ ind2 \subseteq DataBlocks
    <2>1. pc = "put" /\ blk \in DataBlocks
      BY DEF Put, Writing
    <2>2. blk < next_block
      BY <2>1, WriterNats, HeldIsForeign
    <2> QED
      BY <2>1, <2>2, DataBlockTypes DEF Put, PointersShallow, mem, TypeInv, TypeOK, DiskTypes,
         MemTypes, FileTypes
  <1>2. CASE PutDirect \/ PutSingle \/ PutDouble \/ PutDirBlock
    <2>1. ptr' = ptr /\ ind' \subseteq ind \cup {blk} /\ ind2' = ind2
      BY <1>2 DEF PutDirect, PutSingle, PutDouble, PutDirBlock, PutData
    <2> QED
      BY <1>1, <2>1 DEF PointersShallow
  <1>3. CASE PutSingleRoot \/ PutInner \/ PutDoubleRoot
    <2>1. PICK buffer : /\ ptr' = [ptr EXCEPT ![blk] = buffer] /\ ind' = {}
                        /\ \/ ind2' \subseteq ind2
                           \/ buffer = ind /\ ind2' = ind2 \cup {blk}
      BY <1>3 DEF PutSingleRoot, PutInner, PutDoubleRoot, PutPointers
    <2>2. ptr'[blk] = buffer /\ \A b \in DataBlocks : b # blk => ptr'[b] = ptr[b]
      BY <1>1, <2>1
    <2>3. \A b \in DataBlocks : b >= next_block => ptr'[b] = {}
      BY <1>1, <2>2, DataBlockTypes DEF PointersShallow
    <2>4. ASSUME NEW b \in ind2', NEW c \in ptr'[b] PROVE ptr'[c] = {}
      <3>1. blk \notin ind /\ blk \notin ind2 /\ \A d \in DataBlocks : blk \notin ptr[d]
        BY <1>1, HeldIsForeign, WriterNats DEF BlocksOwnedOnce, DisjointInMemory
      <3>2. CASE b \in ind2
        <4>1. b \in DataBlocks /\ c \in ptr[b] /\ c # blk /\ c \in DataBlocks
          BY <1>1, <2>2, <2>4, <3>1, <3>2
        <4> QED
          BY <2>2, <3>2, <4>1 DEF PointersShallow
      <3>3. CASE b \notin ind2
        <4>1. c \in ind /\ c \in DataBlocks /\ c # blk
          BY <1>1, <2>1, <2>2, <2>4, <3>1, <3>3
        <4> QED
          BY <2>2, <4>1 DEF PointersShallow
      <3> QED
        BY <3>2, <3>3
    <2> QED
      BY <1>1, <2>1, <2>3, <2>4 DEF PointersShallow
  <1> QED
    BY <1>2, <1>3 DEF Put

LEMMA ShallowStep ==
    ASSUME Sound, PointersShallow, [Next]_vars
    PROVE  PointersShallow'
  <1> USE DEF Sound
  <1>1. next_block \in Nat
    BY DEF TypeInv, TypeOK, MemTypes
  <1>2. CASE AllocBlock
    <2>1. /\ blk' \in DataBlocks /\ blk' >= next_block /\ next_block' = blk' + 1
          /\ UNCHANGED <<ptr, ind, ind2>>
      BY <1>1, <1>2, NextCandidate DEF AllocBlock, tree
    <2>2. PICK n \in Nat : n = blk' /\ n >= next_block /\ next_block' = n + 1
      BY <2>1, DataBlockTypes
    <2>3. ASSUME NEW b \in DataBlocks, b >= next_block' PROVE b >= next_block
      <3>1. PICK m \in Nat : m = next_block
        BY <1>1
      <3>2. PICK k \in Nat : k = b
        BY DataBlockTypes
      <3>3. k >= n + 1
        BY <2>2, <2>3, <3>2
      <3>4. n >= m
        BY <2>2, <3>1
      <3>5. k >= m
        BY <3>3, <3>4
      <3> QED
        BY <3>1, <3>2, <3>5
    <2>4. ptr'[blk'] = {}
      BY <2>1 DEF PointersShallow
    <2> QED
      BY <2>1, <2>3, <2>4 DEF PointersShallow
  <1>3. CASE Descend \/ LastDir \/ LastLeaf
    BY <1>3, StartsEmpty DEF PointersShallow, mem, disk, tree, file
  <1>4. CASE NoBlockLeft
    <2>1. UNCHANGED <<ptr, blk, ind, ind2>> /\ next_block' >= next_block /\ next_block' \in Nat
      BY <1>1, <1>4, LayoutNats DEF NoBlockLeft, disk, tree, file
    <2>2. \A b \in DataBlocks : b >= next_block' => b >= next_block
      BY <1>1, <2>1, DataBlockTypes
    <2> QED
      BY <2>1, <2>2 DEF PointersShallow
  <1>5. CASE UNCHANGED <<next_block, ptr, blk, ind, ind2>>
    BY <1>5 DEF PointersShallow
  <1> QED
    BY <1>2, <1>3, <1>4, <1>5, ShallowPut DEF Next, Work, Begin, NameRoot, Stray, AllocInode,
       WriteInode, Link, CountParent, FlushSuper, FlushGdt, Stop, Finish, Over, vars, mem, disk,
       tree, file
-----------------------------------------------------------------------------
\* Whether the run is still going: what is left when it has failed only needs
\* what is said of copies.
Live == pc \notin {"failed", "astray"}

\* The buffers hold what the logical block number says, nothing is left in
\* them when the inode is written, and nothing after that.
BuffersFit ==
    /\ Live /\ pc \notin Making => Held = {}
    /\ pc \in {"alloc_ino", "fill"} => blk = 0
    /\ pc \in Making =>
        /\ making # "file" => ind = {} /\ ind2 = {}
        /\ L <= ND => ind = {}
        /\ L <= ND + NP => ind2 = {} /\ (ib12 # 0 => ind = {})
        /\ ib12 # 0 => L >= Least(req.size, ND + NP)
        /\ ib13 # 0 => ib12 # 0 /\ ind = {} /\ ind2 = {} /\ L = req.size

LEMMA FitInit == Init => BuffersFit
  BY DEF Init, BuffersFit, Making, Held

LEMMA FitPut ==
    ASSUME Sound, BuffersBacked, BuffersFit, Put
    PROVE  BuffersFit'
  <1> USE DEF Sound
  <1>1. /\ pc = "put" /\ pc' = "fill" /\ blk' = 0 /\ UNCHANGED <<making, req>>
        /\ blk \in DataBlocks /\ blk # 0
    BY DataBlockTypes DEF Put, Goto, call, Writing
  <1>2. L \in Nat /\ req.size \in Nat /\ ND \in Nat \ {0} /\ NP \in Nat \ {0}
    BY HeldTypes
  <1>3. /\ making # "file" => ind = {} /\ ind2 = {}
        /\ L <= ND => ind = {}
        /\ L <= ND + NP => ind2 = {} /\ (ib12 # 0 => ind = {})
        /\ ib12 # 0 => L >= Least(req.size, ND + NP)
        /\ ib13 # 0 => ib12 # 0 /\ ind = {} /\ ind2 = {} /\ L = req.size
    BY <1>1 DEF BuffersFit, Making
  <1>4. making = "file" => ib13 = 0
    BY <1>1, <1>3 DEF BuffersBacked, Making, Filled
  <1> SUFFICES /\ making # "file" => ind' = {} /\ ind2' = {}
               /\ L' <= ND => ind' = {}
               /\ L' <= ND + NP => ind2' = {} /\ (ib12' # 0 => ind' = {})
               /\ ib12' # 0 => L' >= Least(req.size, ND + NP)
               /\ ib13' # 0 => ib12' # 0 /\ ind' = {} /\ ind2' = {} /\ L' = req.size
    BY <1>1 DEF BuffersFit, Making
  <1>5. CASE PutDirect
    <2>1. /\ L' = L + 1 /\ L < ND /\ L < req.size /\ UNCHANGED <<ind, ind2, ib12, ib13>>
          /\ making = "file"
      BY <1>2, <1>5 DEF PutDirect, PutData, Least
    <2>2. L <= ND /\ L <= ND + NP /\ L' >= L
      BY <1>2, <2>1
    <2>3. ib12 # 0 => L' >= Least(req.size, ND + NP)
      BY <1>2, <1>3, <2>1 DEF Least
    <2> QED
      BY <1>3, <1>4, <2>1, <2>2, <2>3
  <1>6. CASE PutSingle
    <2>1. /\ L' = L + 1 /\ ND <= L /\ L < ND + NP /\ L < req.size /\ making = "file"
          /\ UNCHANGED <<ind2, ib12, ib13>>
      BY <1>2, <1>6 DEF PutSingle, PutData, Least
    <2>2. ~(L' <= ND) /\ L <= ND + NP /\ ib12 = 0
      BY <1>2, <1>3, <2>1 DEF Least
    <2> QED
      BY <1>3, <1>4, <2>1, <2>2
  <1>7. CASE PutSingleRoot
    BY <1>2, <1>3, <1>4, <1>7 DEF PutSingleRoot, PutPointers, Least
  <1>8. CASE PutDouble
    <2>1. /\ L' = L + 1 /\ L < req.size /\ making = "file" /\ ib12 # 0
          /\ UNCHANGED <<ind2, ib12, ib13>>
      BY <1>8 DEF PutDouble, PutData
    <2>2. ~(L' <= ND) /\ ~(L' <= ND + NP)
      BY <1>2, <1>3, <2>1 DEF Least
    <2>3. L' >= Least(req.size, ND + NP)
      BY <1>2, <1>3, <2>1 DEF Least
    <2> QED
      BY <1>3, <1>4, <2>1, <2>2, <2>3
  <1>9. CASE PutInner
    <2>1. ind # {}
      BY <1>2, <1>9, FS_EmptySet DEF PutInner, InnerFull
    <2>2. ind' = {} /\ UNCHANGED <<L, ib12, ib13>> /\ making = "file" /\ ib12 # 0
      BY <1>9 DEF PutInner, PutPointers
    <2> QED
      BY <1>2, <1>3, <1>4, <2>1, <2>2
  <1>10. CASE PutDoubleRoot
    BY <1>2, <1>3, <1>10 DEF PutDoubleRoot, PutPointers
  <1>11. CASE PutDirBlock
    BY <1>3, <1>11 DEF PutDirBlock
  <1> QED
    BY <1>5, <1>6, <1>7, <1>8, <1>9, <1>10, <1>11 DEF Put

LEMMA FitWriteInode ==
    ASSUME Sound, DirInProgress, BuffersFit, WriteInode
    PROVE  BuffersFit'
  <1> USE DEF Sound
  <1>1. /\ pc = "fill" /\ pc' = "link" /\ Filled /\ UNCHANGED <<blk, ind, ind2>>
        /\ direct' = {} /\ ib12' = 0 /\ ib13' = 0
    BY DEF WriteInode, Goto
  <1>2. L \in Nat /\ ND \in Nat \ {0} /\ NP \in Nat \ {0}
    BY HeldTypes
  <1>3. blk = 0 /\ ind = {} /\ ind2 = {}
    BY <1>1, <1>2 DEF BuffersFit, Making, Filled
  <1> QED
    BY <1>1, <1>3 DEF BuffersFit, Making, Held, Live

LEMMA FitStep ==
    ASSUME Sound, DirInProgress, BuffersBacked, BuffersFit, [Next]_vars
    PROVE  BuffersFit'
  <1> USE DEF Sound
  <1>1. CASE AllocInode \/ AllocBlock
    <2>1. /\ UNCHANGED <<making, req, L, direct, ind, ind2, ib12, ib13>>
          /\ pc \in Making /\ pc' \in Making /\ (pc' = "fill" => blk' = blk /\ pc = "alloc_ino")
          /\ pc' # "alloc_ino"
      BY <1>1 DEF AllocInode, AllocBlock, call, file, Goto, Making
    <2> QED
      BY <2>1 DEF BuffersFit, Making
  <1>2. CASE Descend \/ LastDir \/ LastLeaf
    <2>1. UNCHANGED file /\ pc' \notin Making => Held' = Held
      BY DEF file, Held
    <2>2. 0 <= ND /\ 0 <= ND + NP
      BY HeldTypes
    <2> QED
      BY <1>2, <2>1, <2>2, StartsEmpty DEF BuffersFit, Making, Live
  <1>3. CASE /\ UNCHANGED file /\ pc' \notin Making
             /\ (Live /\ pc \notin Making) \/ ~Live'
    <2>1. Held' = Held
      BY <1>3 DEF file, Held
    <2> QED
      BY <1>3, <2>1 DEF BuffersFit, Making, Live
  <1>4. CASE UNCHANGED vars
    <2>1. Held' = Held
      BY <1>4 DEF vars, file, Held
    <2> QED
      BY <1>4, <2>1 DEF BuffersFit, Live, vars, file, call
  <1> QED
    BY <1>1, <1>2, <1>3, <1>4, FitPut, FitWriteInode DEF Next, Work, Begin, NameRoot, Stray,
       NoBlockLeft, Link, AfterLink, CountParent, FlushSuper, FlushGdt, Return, Answer, Stop,
       Finish, Over, Goto, Fail, Making, Live

-----------------------------------------------------------------------------
(* The bitmaps: a marked block is metadata, padding, reached from an inode *)
(* or held by the file in progress.                                        *)

\* What is reached from the blocks of S: Reach(i) from those of inode i.
TreeOf(S) == S \cup Listed(S) \cup Listed(Listed(S))

\* Every marked data block is reached from an inode or from what the writer
\* still holds: no block is lost while the run goes on.
Accounted ==
    /\ MetaBlocks \cup TailPadding \subseteq bbmp
    /\ bbmp \subseteq MetaBlocks \cup TailPadding \cup DataBlocks
    /\ Live => \A b \in DataBlocks \cap bbmp :
                   b \in TreeOf(Held) \/ \E i \in Used : b \in Reach(i)

LEMMA AccountedInit == Init => Accounted
  <1> SUFFICES ASSUME Init PROVE Accounted
    OBVIOUS
  <1>1. inodes[RootIno].kind = "dir" /\ inodes[LostFoundIno].kind = "dir"
    BY InitEntries
  <1>2. inodes[RootIno].blocks = {RootBlock} /\ inodes[LostFoundIno].blocks = {LostFoundBlock}
    <2>1. RootIno # LostFoundIno
      BY LayoutNats, LayoutFits DEF GroupsFit
    <2> QED
      BY <2>1, WriterNats DEF Init
  <1>3. RootIno \in Used /\ LostFoundIno \in Used
    BY <1>1, WriterNats DEF Used
  <1>4. RootBlock \in Reach(RootIno) /\ LostFoundBlock \in Reach(LostFoundIno)
    BY <1>2 DEF Reach
  <1>5. bbmp = MetaBlocks \cup {RootBlock, LostFoundBlock} \cup TailPadding
    BY DEF Init, FormatBlocks
  <1>6. DataBlocks \cap MetaBlocks = {} /\ DataBlocks \cap TailPadding = {}
    BY LayoutNats DEF DataBlocks, MetaBlocks, TailPadding, Blocks
  <1> QED
    BY <1>3, <1>4, <1>5, <1>6, FirstDirBlocks DEF Accounted

\* Pointer blocks and the blocks of inodes in use only gain.
LEMMA PointersGrow ==
    ASSUME Sound, PointersShallow, [Next]_vars, NEW b \in DataBlocks
    PROVE  ptr[b] \subseteq ptr'[b]
  <1> USE DEF Sound
  <1>1. ptr \in [DataBlocks -> SUBSET DataBlocks]
    BY DEF TypeInv, TypeOK, DiskTypes
  <1>2. CASE Put
    <2>1. blk \in DataBlocks /\ ptr[blk] = {}
      BY <1>2, DataBlockTypes DEF Put, Writing, PointersShallow
    <2>2. ptr' = ptr \/ \E s : ptr' = [ptr EXCEPT ![blk] = s]
      BY <1>2 DEF Put, PutDirect, PutSingle, PutSingleRoot, PutDouble, PutInner, PutDoubleRoot,
         PutDirBlock, PutData, PutPointers
    <2> QED
      BY <1>1, <2>1, <2>2
  <1>3. CASE ptr' = ptr
    BY <1>3
  <1> QED
    BY <1>2, <1>3 DEF Next, Work, Begin, Descend, NameRoot, LastDir, LastLeaf, Stray,
       AllocInode, AllocBlock, NoBlockLeft, WriteInode, Link, CountParent, FlushSuper, FlushGdt,
       Stop, Finish, Over, vars, disk, tree

LEMMA ReachGrows ==
    ASSUME Sound, InodesReady, PointersShallow, [Next]_vars, NEW i \in Used
    PROVE  i \in Used' /\ \A b \in Reach(i) : b \in Reach(i)'
  <1> USE DEF Sound
  <1>1. i \in AllInodes /\ inodes[i].kind # "none"
    BY DEF Used
  <1>2. ~(WriteInode /\ i = ino)
    BY <1>1 DEF WriteInode, InodesReady
  <1>3. PICK own : own = inodes[i].blocks
    OBVIOUS
  <1>4. inodes'[i].kind # "none" /\ inodes'[i].blocks = own
    BY <1>1, <1>2, <1>3, KindsStay
  <1>5. own \subseteq DataBlocks /\ ptr \in [DataBlocks -> SUBSET DataBlocks]
    BY <1>1, <1>3 DEF TypeInv, TypeOK, DiskTypes, Inode
  <1>6. \A b \in DataBlocks : ptr[b] \subseteq ptr'[b]
    BY PointersGrow
  <1>7. \A b : b \in Reach(i) <=> \/ b \in own \/ \E h \in own : b \in ptr[h]
                                  \/ \E h \in own : \E c \in ptr[h] : b \in ptr[c]
    BY <1>3 DEF Reach, Listed
  <1>8. \A b : b \in Reach(i)' <=> \/ b \in own \/ \E h \in own : b \in ptr'[h]
                                   \/ \E h \in own : \E c \in ptr'[h] : b \in ptr'[c]
    BY <1>4 DEF Reach, Listed
  <1>9. i \in Used'
    BY <1>1, <1>4 DEF Used
  <1>10. ASSUME NEW b \in Reach(i) PROVE b \in Reach(i)'
    <2>1. CASE b \in own
      BY <1>8, <2>1
    <2>2. ASSUME NEW h \in own, b \in ptr[h] PROVE b \in Reach(i)'
      <3>1. b \in ptr'[h]
        BY <1>5, <1>6, <2>2
      <3> QED
        BY <1>8, <3>1
    <2>3. ASSUME NEW h \in own, NEW c \in ptr[h], b \in ptr[c] PROVE b \in Reach(i)'
      <3>1. c \in ptr'[h] /\ b \in ptr'[c]
        BY <1>5, <1>6, <2>3
      <3> QED
        BY <1>8, <3>1
    <2> QED
      BY <1>7, <1>10, <2>1, <2>2, <2>3
  <1> QED
    BY <1>9, <1>10

LEMMA InTree ==
    ASSUME NEW S, NEW b
    PROVE  b \in TreeOf(S) <=> \/ b \in S
                               \/ \E h \in S : b \in ptr[h]
                               \/ \E h \in S : \E c \in ptr[h] : b \in ptr[c]
  BY DEF TreeOf, Listed

LEMMA InHeldTree ==
    ASSUME NEW b
    PROVE  b \in TreeOf(Held)' <=> \/ b \in Held'
                                   \/ \E h \in Held' : b \in ptr'[h]
                                   \/ \E h \in Held' : \E c \in ptr'[h] : b \in ptr'[c]
  BY DEF TreeOf, Listed

LEMMA AccountedPut ==
    ASSUME Sound, DirInProgress, BuffersBacked, PointersShallow, BuffersFit, Put,
           NEW b \in TreeOf(Held)
    PROVE  b \in TreeOf(Held)'
  <1> USE DEF Sound
  <1>1. /\ pc = "put" /\ blk \in DataBlocks /\ blk # 0 /\ blk' = 0 /\ ptr[blk] = {}
    BY DataBlockTypes DEF Put, Writing, PointersShallow
  <1>2. ptr \in [DataBlocks -> SUBSET DataBlocks]
    BY DEF TypeInv, TypeOK, DiskTypes
  <1>3. /\ Held \subseteq DataBlocks
    <2>1. blk \in {0} \cup DataBlocks
      BY <1>1
    <2> QED
      BY <2>1, HeldTypes DEF Held
  <1>4. CASE PutDirect \/ PutSingle \/ PutDouble
    <2>1. Held' = Held /\ ptr' = ptr
      BY <1>1, <1>4 DEF PutDirect, PutSingle, PutDouble, PutData, Held
    <2> QED
      BY <2>1, InTree, InHeldTree
  <1>5. CASE PutDirBlock
    <2>1. direct = {} /\ ib12 = 0 /\ ib13 = 0
      BY <1>1, <1>5 DEF PutDirBlock, DirInProgress, Making
    <2>2. Held' = Held /\ ptr' = ptr
      BY <1>1, <1>5, <2>1 DEF PutDirBlock, Held
    <2> QED
      BY <2>2, InTree, InHeldTree
  <1>6. CASE PutSingleRoot \/ PutInner \/ PutDoubleRoot
    <2>1. making = "file"
      BY <1>6 DEF PutSingleRoot, PutInner, PutDoubleRoot
    <2>2. ib13 = 0
      BY <1>1, <2>1 DEF BuffersFit, BuffersBacked, Making, Filled
    <2>3. PICK buffer : /\ ptr' = [ptr EXCEPT ![blk] = buffer] /\ blk \in Held'
                        /\ \A h \in Held : h \in Held' \/ h \in buffer
                        /\ buffer = ind \/ buffer = ind2
      <3>1. CASE PutSingleRoot
        <4>1. ptr' = [ptr EXCEPT ![blk] = ind] /\ ib12 = 0 /\ ib12' = blk /\ ind' = {}
              /\ UNCHANGED <<direct, ind2, ib13>>
          BY <3>1 DEF PutSingleRoot, PutPointers
        <4>2. blk \in Held' /\ \A h \in Held : h \in Held' \/ h \in ind
          BY <1>1, <4>1 DEF Held
        <4> QED
          BY <4>1, <4>2
      <3>2. CASE PutInner
        <4>1. ptr' = [ptr EXCEPT ![blk] = ind] /\ ind2' = ind2 \cup {blk} /\ ind' = {}
              /\ UNCHANGED <<direct, ib12, ib13>>
          BY <3>2 DEF PutInner, PutPointers
        <4>2. blk \in Held' /\ \A h \in Held : h \in Held' \/ h \in ind
          BY <1>1, <4>1 DEF Held
        <4> QED
          BY <4>1, <4>2
      <3>3. CASE PutDoubleRoot
        <4>1. ptr' = [ptr EXCEPT ![blk] = ind2] /\ ib13' = blk /\ ind2' = {}
              /\ UNCHANGED <<direct, ind, ib12>>
          BY <3>3 DEF PutDoubleRoot, PutPointers
        <4>2. blk \in Held' /\ \A h \in Held : h \in Held' \/ h \in ind2
          BY <1>1, <2>2, <4>1 DEF Held
        <4> QED
          BY <4>1, <4>2
      <3> QED
        BY <1>6, <3>1, <3>2, <3>3
    <2>4. ptr'[blk] = buffer /\ \A c \in DataBlocks : ptr[c] \subseteq ptr'[c]
      BY <1>1, <1>2, <2>3
    <2>5. \A h \in buffer : \A c \in ptr[h] : ptr[c] = {}
      <3>1. \A h \in ind : ptr[h] = {}
        BY DEF PointersShallow
      <3> QED
        BY <2>3, <3>1 DEF PointersShallow
    <2>6. CASE b \in Held
      BY <2>3, <2>4, <2>6, InHeldTree
    <2>7. ASSUME NEW h \in Held, b \in ptr[h] PROVE b \in TreeOf(Held)'
      <3>1. b \in ptr'[h]
        BY <1>3, <2>4, <2>7
      <3> QED
        BY <2>3, <2>4, <3>1, InHeldTree
    <2>8. ASSUME NEW h \in Held, NEW c \in ptr[h], b \in ptr[c] PROVE b \in TreeOf(Held)'
      <3>1. h \in Held'
        BY <2>3, <2>5, <2>8
      <3>2. c \in DataBlocks /\ c \in ptr'[h] /\ b \in ptr'[c]
        BY <1>2, <1>3, <2>4, <2>8
      <3> QED
        BY <3>1, <3>2, InHeldTree
    <2> QED
      BY <2>6, <2>7, <2>8, InTree
  <1> QED
    BY <1>4, <1>5, <1>6 DEF Put

LEMMA AccountedWriteInode ==
    ASSUME Sound, WriteInode, NEW b \in TreeOf(Held), NEW i, i = ino
    PROVE  i \in Used' /\ (b \in TreeOf(Held)' \/ b \in Reach(i)')
  <1> USE DEF Sound
  <1>1. /\ inodes' = [inodes EXCEPT ![i] = NewInode] /\ pc = "fill"
        /\ UNCHANGED <<ptr, blk, ind, ind2>>
    BY DEF WriteInode
  <1>2. i \in AllInodes /\ making # "none"
    BY <1>1 DEF TypeInv, CallOK, Busy
  <1>3. inodes'[i] = NewInode
    BY <1>1, <1>2 DEF TypeInv, TypeOK, DiskTypes
  <1>4. PICK own : own = direct \cup ({ib12, ib13} \ {0})
    OBVIOUS
  <1>5. inodes'[i].blocks = own /\ inodes'[i].kind # "none"
    BY <1>2, <1>3, <1>4 DEF NewInode
  <1>6. \A h \in Held : h \in own \/ h \in Held'
    BY <1>1, <1>4 DEF Held
  <1>7. \A c : c \in Reach(i)' <=> \/ c \in own \/ \E h \in own : c \in ptr[h]
                                   \/ \E h \in own : \E d \in ptr[h] : c \in ptr[d]
    BY <1>1, <1>5 DEF Reach, Listed
  <1>8. b \in Reach(i)' \/ b \in TreeOf(Held)'
    BY <1>1, <1>6, <1>7, InTree, InHeldTree
  <1> QED
    BY <1>2, <1>5, <1>8 DEF Used

\* What the writer holds stays held, or becomes an inode's.
LEMMA HeldTreeStep ==
    ASSUME Sound, InodesReady, DirInProgress, BuffersBacked, PointersShallow, BuffersFit,
           [Next]_vars, Live', NEW b \in TreeOf(Held)
    PROVE  b \in TreeOf(Held)' \/ \E i \in Used' : b \in Reach(i)'
  <1> USE DEF Sound
  <1>1. CASE Put
    BY <1>1, AccountedPut
  <1>2. CASE WriteInode
    <2>1. PICK i : i = ino
      OBVIOUS
    <2> QED
      BY <1>2, <2>1, AccountedWriteInode
  <1>3. CASE AllocBlock
    <2>1. ptr' = ptr /\ blk = 0 /\ UNCHANGED <<direct, ind, ind2, ib12, ib13>>
      BY <1>3 DEF AllocBlock, tree, BuffersFit
    <2>2. \A h \in Held : h \in Held'
      BY <2>1 DEF Held
    <2> QED
      BY <2>1, <2>2, InTree, InHeldTree
  <1>4. CASE Begin \/ Descend \/ NameRoot \/ LastDir \/ LastLeaf
    <2>1. pc \in {"idle", "resolve"}
      BY <1>4 DEF Begin, Descend, NameRoot, LastDir, LastLeaf
    <2>2. Held = {}
      BY <2>1 DEF BuffersFit, Live, Making
    <2> QED
      BY <2>2, InTree
  <1>5. CASE UNCHANGED <<ptr, file>>
    <2>1. Held' = Held
      BY <1>5 DEF file, Held
    <2> QED
      BY <1>5, <2>1, InTree, InHeldTree
  <1> QED
    BY <1>1, <1>2, <1>3, <1>4, <1>5 DEF Next, Work, Stray, AllocInode, NoBlockLeft, Link,
       CountParent, FlushSuper, FlushGdt, Stop, Finish, Over, vars, disk, tree

LEMMA LiveStep == ASSUME [Next]_vars, Live' PROVE Live
  BY DEF Live, Next, Work, Begin, Descend, NameRoot, LastDir, LastLeaf, Stray, AllocInode,
     AllocBlock, NoBlockLeft, Put, WriteInode, Link, CountParent, FlushSuper, FlushGdt, Stop,
     Finish, Over, vars

LEMMA AccountedStep ==
    ASSUME Sound, InodesReady, DirInProgress, BuffersBacked, PointersShallow, BuffersFit,
           Accounted, [Next]_vars
    PROVE  Accounted'
  <1> USE DEF Sound
  <1>1. \/ bbmp' = bbmp
        \/ AllocBlock /\ bbmp' = bbmp \cup {blk'} /\ blk' \in DataBlocks
    <2>1. CASE AllocBlock
      BY <2>1, NextCandidate DEF AllocBlock, MarkBlock, TypeInv, TypeOK, MemTypes
    <2> QED
      BY <2>1 DEF Next, Work, Begin, Descend, NameRoot, LastDir, LastLeaf, Stray, AllocInode,
         NoBlockLeft, Put, WriteInode, Link, CountParent, FlushSuper, FlushGdt, Stop, Finish,
         Over, vars, disk
  <1>2. MetaBlocks \cup TailPadding \subseteq bbmp'
        /\ bbmp' \subseteq MetaBlocks \cup TailPadding \cup DataBlocks
    BY <1>1 DEF Accounted
  <1>3. ASSUME Live', NEW b \in DataBlocks, b \in bbmp'
        PROVE  b \in TreeOf(Held)' \/ \E i \in Used' : b \in Reach(i)'
    <2>1. CASE b \in bbmp
      <3>1. b \in TreeOf(Held) \/ \E i \in Used : b \in Reach(i)
        BY <1>3, <2>1, LiveStep DEF Accounted
      <3>2. ASSUME NEW i \in Used, b \in Reach(i) PROVE \E j \in Used' : b \in Reach(j)'
        BY <3>2, ReachGrows
      <3> QED
        BY <1>3, <3>1, <3>2, HeldTreeStep
    <2>2. CASE b \notin bbmp
      <3>1. b = blk' /\ b # 0
        BY <1>1, <1>3, <2>2, DataBlockTypes
      <3> QED
        BY <3>1, InHeldTree DEF Held
    <2> QED
      BY <2>1, <2>2
  <1> QED
    BY <1>2, <1>3 DEF Accounted

\* With nothing held the block bitmap is what the inodes reach.
LEMMA BitmapReached ==
    ASSUME Sound, Accounted, Live, Held = {}
    PROVE  bbmp = MetaBlocks \cup TailPadding \cup UNION {Reach(i) : i \in Used}
  <1> USE DEF Sound
  <1>1. \A b : b \notin TreeOf(Held)
    BY InTree
  <1>2. \A i \in Used : Reach(i) \subseteq bbmp
    BY ReachMarked DEF Used
  <1> QED
    BY <1>1, <1>2 DEF Accounted
-----------------------------------------------------------------------------
\* The inode bitmap is the inodes in use, and the one at hand.
InodesMarked ==
    Live => ibmp = (1 .. LostFoundIno) \cup Used
                   \cup (IF pc \in {"fill", "put"} THEN {ino} ELSE {})

LEMMA MarkedInit == Init => InodesMarked
  <1> SUFFICES ASSUME Init PROVE InodesMarked
    OBVIOUS
  <1>1. \A i \in AllInodes : inodes[i].kind # "none" => i = RootIno \/ i = LostFoundIno
    BY DEF Init, NoInode
  <1>2. Used \subseteq 1 .. LostFoundIno
    BY <1>1, LayoutNats, LayoutFits DEF Used, GroupsFit
  <1> QED
    BY <1>2 DEF Init, InodesMarked

LEMMA MarkedStep ==
    ASSUME Sound, InodesReady, InodesMarked, [Next]_vars
    PROVE  InodesMarked'
  <1> USE DEF Sound
  <1> SUFFICES ASSUME Live' PROVE InodesMarked'
    BY DEF InodesMarked
  <1>1. Live
    BY LiveStep
  <1>2. CASE AllocInode
    <2>1. /\ ino' = next_ino /\ ibmp' = ibmp \cup {next_ino} /\ inodes' = inodes
          /\ pc = "alloc_ino" /\ pc' = "fill"
      BY <1>2 DEF AllocInode, MarkInode, tree, Goto
    <2> QED
      BY <1>1, <2>1 DEF InodesMarked, Used
  <1>3. CASE WriteInode
    <2>1. /\ inodes' = [inodes EXCEPT ![ino] = NewInode] /\ pc = "fill" /\ pc' = "link"
          /\ UNCHANGED <<ibmp, ino>>
      BY <1>3 DEF WriteInode, call, Goto
    <2>2. ino \in AllInodes /\ making # "none"
      BY <2>1 DEF TypeInv, CallOK, Busy
    <2>3. /\ inodes'[ino].kind = making
          /\ \A i \in AllInodes : i # ino => inodes'[i] = inodes[i]
      BY <2>1, <2>2 DEF NewInode, TypeInv, TypeOK, DiskTypes
    <2>4. Used' = Used \cup {ino}
      BY <2>2, <2>3 DEF Used
    <2> QED
      BY <1>1, <2>1, <2>4 DEF InodesMarked
  <1>4. CASE ~AllocInode /\ ~WriteInode
    <2>1. \A i \in AllInodes : inodes'[i].kind = inodes[i].kind
      BY <1>4, KindsStay
    <2>2. Used' = Used
      BY <2>1 DEF Used
    <2>3. ibmp' = ibmp
      BY <1>4 DEF Next, Work, Begin, Descend, NameRoot, LastDir, LastLeaf, Stray, AllocBlock,
         NoBlockLeft, Put, Link, CountParent, FlushSuper, FlushGdt, Stop, Finish, Over, vars, disk
    <2>4. \/ pc \in {"fill", "put"} /\ pc' \in {"fill", "put"} /\ ino' = ino
          \/ pc \notin {"fill", "put"} /\ pc' \notin {"fill", "put"}
      <3>1. CASE AllocBlock \/ Put
        BY <3>1 DEF AllocBlock, Put, call, Goto
      <3>2. CASE Descend \/ LastDir \/ LastLeaf
        BY <3>2, StartsEmpty DEF Making
      <3>3. CASE UNCHANGED vars
        BY <3>3 DEF vars, call
      <3> QED
        BY <1>4, <3>1, <3>2, <3>3 DEF Next, Work, Begin, NameRoot, Stray, NoBlockLeft, Link,
           AfterLink, CountParent, FlushSuper, FlushGdt, Return, Answer, Stop, Finish, Over,
           Goto, Fail, Live
    <2> QED
      BY <1>1, <2>2, <2>3, <2>4 DEF InodesMarked
  <1> QED
    BY <1>2, <1>3, <1>4

-----------------------------------------------------------------------------
(* Names: every inode but the root has one, in an older directory, and a   *)
(* directory's ".." is the directory that names it.                        *)

\* Entry k of es is a name, not a dot, of inode i.
NameAt(es, k, i) ==
    k \in DOMAIN es /\ es[k].name \notin {".", ".."} /\ es[k].ino = i

LEMMA InNamed ==
    ASSUME NEW i, NEW e
    PROVE  /\ e \in Named(i) <=>
                  e \in Dirs \X (1 .. DirCap) /\ NameAt(EntriesOf(e[1]), e[2], i)
           /\ e \in Named(i)' <=>
                  e \in Dirs' \X (1 .. DirCap) /\ NameAt(EntriesOf(e[1])', e[2], i)
  BY DEF Named, Entries, Dots, At, NameAt

LEMMA DotsNameNothing == \A a, b, k, i : ~NameAt(DotEntries(a, b), k, i)
  BY DEF NameAt, DotEntries

\* Directories stay; one that is new names nothing.
LEMMA DirsStay ==
    ASSUME Sound, InodesReady, DirInProgress, [Next]_vars, NEW d \in Dirs
    PROVE  /\ d \in Dirs'
           /\ ~Link => EntriesOf(d)' = EntriesOf(d)
  <1> USE DEF Sound
  <1>1. d \in AllInodes /\ inodes[d].kind = "dir"
    BY DEF Dirs
  <1>2. ~(WriteInode /\ d = ino)
    BY <1>1 DEF WriteInode, InodesReady
  <1>3. d \in Dirs'
    BY <1>1, <1>2, KindsStay DEF Dirs
  <1> QED
    BY <1>2, <1>3, DirectoryStep

LEMMA NamesStay ==
    ASSUME Sound, InodesReady, DirInProgress, [Next]_vars, ~Link, NEW i
    PROVE  Named(i)' = Named(i)
  <1>1. ASSUME NEW e \in Named(i) PROVE e \in Named(i)'
    <2>1. e \in Dirs \X (1 .. DirCap) /\ NameAt(EntriesOf(e[1]), e[2], i)
      BY InNamed
    <2>2. PICK d \in Dirs : d = e[1]
      BY <2>1
    <2>3. d \in Dirs' /\ EntriesOf(d)' = EntriesOf(d)
      BY DirsStay
    <2>4. EntriesOf(e[1])' = EntriesOf(e[1])
      BY <2>2, <2>3
    <2> QED
      BY <2>1, <2>2, <2>3, <2>4, InNamed
  <1>2. ASSUME NEW e \in Named(i)' PROVE e \in Named(i)
    <2>1. e \in Dirs' \X (1 .. DirCap) /\ NameAt(EntriesOf(e[1])', e[2], i)
      BY InNamed
    <2>2. PICK d \in Dirs' : d = e[1]
      BY <2>1
    <2>3. NameAt(EntriesOf(d)', e[2], i)
      BY <2>1, <2>2
    <2>4. EntriesOf(d)' # DotEntries(ino, cur)
      BY <2>3, DotsNameNothing
    <2>5. d \in Dirs /\ EntriesOf(d)' = EntriesOf(d)
      BY <2>4, DirectoryStep
    <2> QED
      BY <2>1, <2>2, <2>3, <2>5, InNamed
  <1> QED
    BY <1>1, <1>2

\* Link gives the inode at hand its name, at the end of its parent.
LEMMA LinkNames ==
    ASSUME Sound, InodesReady, DirInProgress, [Next]_vars, Link, Live',
           NEW p, p = cur, NEW o, o = ino
    PROVE  /\ p \in Dirs
           /\ \A d \in Dirs' : /\ d \in Dirs
                               /\ \/ EntriesOf(d)' = EntriesOf(d)
                                  \/ EntriesOf(d)' = Append(EntriesOf(d), NewEntry)
           /\ \A i : i # o => Named(i)' = Named(i)
           /\ \E k : Named(o)' = Named(o) \cup {<<p, k>>}
  <1> USE DEF Sound
  <1>1. /\ inodes' = inodes /\ pc = "link" /\ IsDir(p)
    BY DEF Link
  <1>2. Dirs' = Dirs /\ p \in Dirs
    BY <1>1 DEF Dirs, IsDir
  <1>3. PICK b : b = DirBlock(p)
    OBVIOUS
  <1>4. b \in DataBlocks /\ ents \in [DataBlocks -> Seq(Entry)] /\ b = DirBlock(cur)
    BY <1>1, <1>3, DirBlockType DEF TypeInv, TypeOK, DiskTypes
  <1>5. Len(ents[b]) < DirCap /\ ents'[b] = Append(ents[b], NewEntry)
    BY <1>4 DEF Link, Publish, NewEntry, Live, Fail, Goto
  <1>6. PICK es \in Seq(Entry) : es = ents[b] /\ es = EntriesOf(p)
    BY <1>3, <1>4 DEF EntriesOf
  <1>7. PICK new \in Entry : new = NewEntry /\ new.name \notin {".", ".."} /\ new.ino = o
    BY <1>1, NewEntryType DEF NewEntry
  <1>8. EntriesOf(p)' = Append(es, new)
    <2>1. DirBlock(p)' = b
      BY <1>1, <1>3 DEF DirBlock
    <2> QED
      BY <1>5, <1>6, <1>7, <2>1 DEF EntriesOf
  <1>9. \A d \in Dirs : d # p => EntriesOf(d)' = EntriesOf(d)
    BY <1>2, OnlyParent
  <1>10. PICK n \in Nat : n = Len(es)
    BY <1>6
  <1>11. n + 1 \in 1 .. DirCap
    BY <1>5, <1>6, <1>10, WriterNats
  <1>12. ASSUME NEW i, NEW e
         PROVE  e \in Named(i)' <=> e \in Named(i) \/ (i = o /\ e = <<p, n + 1>>)
    <2>1. CASE e \in Dirs \X (1 .. DirCap) /\ e[1] = p
      <3>1. e \in Named(i) <=> NameAt(es, e[2], i)
        BY <1>6, <2>1, InNamed
      <3>2. e \in Named(i)' <=> NameAt(Append(es, new), e[2], i)
        BY <1>2, <1>8, <2>1, InNamed
      <3>3. \A k : NameAt(Append(es, new), k, i) <=> NameAt(es, k, i) \/ (k = n + 1 /\ i = o)
        <4>1. /\ DOMAIN Append(es, new) = DOMAIN es \cup {n + 1} /\ n + 1 \notin DOMAIN es
              /\ Append(es, new)[n + 1] = new
              /\ \A k \in DOMAIN es : Append(es, new)[k] = es[k]
          BY <1>10
        <4> QED
          BY <1>7, <4>1 DEF NameAt
      <3>4. e = <<p, n + 1>> <=> e[2] = n + 1
        BY <2>1
      <3> QED
        BY <3>1, <3>2, <3>3, <3>4
    <2>2. CASE e \in Dirs \X (1 .. DirCap) /\ e[1] # p
      <3>1. PICK d \in Dirs : d = e[1] /\ EntriesOf(d)' = EntriesOf(d)
        BY <1>9, <2>2
      <3>2. EntriesOf(e[1])' = EntriesOf(e[1])
        BY <3>1
      <3> QED
        BY <1>2, <2>2, <3>2, InNamed
    <2>3. CASE e \notin Dirs \X (1 .. DirCap)
      <3>1. e # <<p, n + 1>>
        BY <1>2, <1>11, <2>3
      <3> QED
        BY <1>2, <2>3, <3>1, InNamed
    <2> QED
      BY <2>1, <2>2, <2>3
  <1>13. \A d \in Dirs' : /\ d \in Dirs
                          /\ \/ EntriesOf(d)' = EntriesOf(d)
                             \/ EntriesOf(d)' = Append(EntriesOf(d), NewEntry)
    BY <1>2, <1>6, <1>7, <1>8, <1>9
  <1>14. ASSUME NEW i, i # o PROVE Named(i)' = Named(i)
    <2>1. \A e : e \in Named(i)' <=> e \in Named(i)
      BY <1>12, <1>14
    <2> QED
      BY <2>1
  <1>15. Named(o)' = Named(o) \cup {<<p, n + 1>>}
    BY <1>12
  <1> QED
    BY <1>2, <1>13, <1>14, <1>15
-----------------------------------------------------------------------------
\* Every inode in use but the root has one name, in an older directory; the
\* one at hand has none until it is linked.
NamedOnce ==
    Live => \A i \in Used \ {RootIno} :
                IF pc = "link" /\ i = ino THEN Named(i) = {}
                ELSE \E e \in Named(i) : Named(i) = {e} /\ e[1] < i

ParentOlder == pc \in {"fill", "put", "link"} => cur < ino

\* The ".." of a directory leads to the directory that names it.
ParentsNamed ==
    Live =>
        /\ RootIno \in Dirs /\ EntriesOf(RootIno)[2].ino = RootIno
        /\ \A d \in Dirs \ {RootIno} :
               IF pc = "link" /\ d = ino THEN EntriesOf(d)[2].ino = cur
               ELSE \E e \in Named(d) : EntriesOf(d)[2].ino = e[1]

LEMMA NamesInit == Init => NamedOnce /\ ParentOlder /\ ParentsNamed
  <1> SUFFICES ASSUME Init PROVE NamedOnce /\ ParentOlder /\ ParentsNamed
    OBVIOUS
  <1>1. \A i \in AllInodes : inodes[i].kind # "none" => i = RootIno \/ i = LostFoundIno
    BY DEF Init, NoInode
  <1>2. Used \subseteq {RootIno, LostFoundIno}
    BY <1>1 DEF Used
  <1>3. RootIno \in Dirs /\ LostFoundIno \in Dirs /\ RootIno < LostFoundIno
    BY InitEntries, WriterNats, LayoutNats, LayoutFits DEF Dirs, GroupsFit
  <1>4. pc = "idle"
    BY DEF Init
  <1>5. ASSUME NEW e PROVE e \in Named(LostFoundIno) <=> e = <<RootIno, 3>>
    <2>1. \A k : NameAt(RootEntries, k, LostFoundIno) <=> k = 3
      BY DEF NameAt, RootEntries
    <2>2. 3 \in 1 .. DirCap
      BY WriterBounds, WriterNats
    <2>3. CASE e \in Dirs \X (1 .. DirCap) /\ e[1] = RootIno
      <3>1. e \in Named(LostFoundIno) <=> NameAt(RootEntries, e[2], LostFoundIno)
        BY <2>3, InNamed, InitEntries
      <3> QED
        BY <2>1, <2>3, <3>1
    <2>4. CASE e \in Dirs \X (1 .. DirCap) /\ e[1] # RootIno
      <3>1. e[1] = LostFoundIno
        BY <2>4, InitEntries
      <3>2. EntriesOf(e[1]) = DotEntries(LostFoundIno, RootIno)
        BY <3>1, InitEntries
      <3> QED
        BY <2>4, <3>2, InNamed, DotsNameNothing
    <2>5. CASE e \notin Dirs \X (1 .. DirCap)
      BY <1>3, <2>2, <2>5, InNamed
    <2> QED
      BY <2>3, <2>4, <2>5
  <1>6. PICK e : e = <<RootIno, 3>>
    OBVIOUS
  <1>7. Named(LostFoundIno) = {e} /\ e[1] = RootIno
    BY <1>5, <1>6
  <1>8. NamedOnce
    BY <1>2, <1>3, <1>4, <1>7 DEF NamedOnce
  <1>9. ParentsNamed
    <2>1. EntriesOf(RootIno)[2].ino = RootIno /\ EntriesOf(LostFoundIno)[2].ino = RootIno
      BY InitEntries DEF RootEntries, DotEntries
    <2>2. \A d \in Dirs \ {RootIno} : d = LostFoundIno
      BY InitEntries
    <2> QED
      BY <1>3, <1>4, <1>7, <2>1, <2>2 DEF ParentsNamed
  <1> QED
    BY <1>4, <1>8, <1>9 DEF ParentOlder

LEMMA ParentOlderStep ==
    ASSUME Sound, ParentOlder, [Next]_vars
    PROVE  ParentOlder'
  <1>1. CASE AllocInode
    BY <1>1 DEF AllocInode, Sound, InodesBelow, ParentOlder
  <1>2. CASE AllocBlock \/ Put \/ WriteInode
    BY <1>2 DEF AllocBlock, Put, WriteInode, call, ParentOlder
  <1>3. CASE Descend \/ LastDir \/ LastLeaf
    BY <1>3, StartsEmpty DEF ParentOlder, Making, Descend, LastDir, LastLeaf, Goto, Make, MakeDir,
       Answer, Fail
  <1>4. CASE UNCHANGED vars
    BY <1>4 DEF vars, call, ParentOlder
  <1> QED
    BY <1>1, <1>2, <1>3, <1>4 DEF Next, Work, Begin, NameRoot, Stray, NoBlockLeft, Link,
       AfterLink, CountParent, FlushSuper, FlushGdt, Return, Answer, Stop, Finish, Over, Goto,
       Fail, ParentOlder

LEMMA NoLinkPending ==
    ASSUME [Next]_vars, ~Link, ~WriteInode, Live'
    PROVE  \/ pc # "link" /\ pc' # "link"
           \/ UNCHANGED vars
  <1>1. CASE Descend \/ LastDir \/ LastLeaf
    BY <1>1, StartsEmpty DEF Making, Descend, LastDir, LastLeaf, Goto, Make, MakeDir, Answer, Fail
  <1> QED
    BY <1>1 DEF Next, Work, Begin, NameRoot, Stray, AllocInode, AllocBlock, Put, NoBlockLeft,
       CountParent, FlushSuper, FlushGdt, Return, Answer, Stop, Finish, Over, Goto, Fail, Live

LEMMA NamedStep ==
    ASSUME Sound, Unnamed, InodesReady, DirInProgress, ParentOlder, NamedOnce, [Next]_vars
    PROVE  NamedOnce'
  <1> USE DEF Sound
  <1> SUFFICES ASSUME Live', NEW i \in Used', i # RootIno
               PROVE  IF pc' = "link" /\ i = ino' THEN Named(i)' = {}
                      ELSE \E e \in Named(i)' : Named(i)' = {e} /\ e[1] < i
    BY DEF NamedOnce
  <1>1. Live
    BY LiveStep
  <1>2. i \in AllInodes
    BY DEF Used
  <1>3. i \in Used => IF pc = "link" /\ i = ino THEN Named(i) = {}
                      ELSE \E e \in Named(i) : Named(i) = {e} /\ e[1] < i
    BY <1>1 DEF NamedOnce
  <1>4. CASE Link
    <2>1. PICK p, o : p = cur /\ o = ino
      OBVIOUS
    <2>2. /\ pc = "link" /\ pc' # "link" /\ inodes' = inodes
      BY <1>4 DEF Link, AfterLink, Goto, Live, Fail
    <2>3. i \in Used
      BY <2>2 DEF Used
    <2>4. /\ \A j : j # o => Named(j)' = Named(j)
          /\ \E k : Named(o)' = Named(o) \cup {<<p, k>>}
      BY <1>4, <2>1, LinkNames
    <2>5. CASE i # o
      BY <1>3, <2>1, <2>2, <2>3, <2>4, <2>5
    <2>6. CASE i = o
      <3>1. Named(o) = {}
        BY <1>3, <2>1, <2>2, <2>3, <2>6
      <3>2. PICK e : Named(o)' = {e} /\ e[1] = p
        <4>1. PICK k : Named(o)' = Named(o) \cup {<<p, k>>}
          BY <2>4
        <4>2. Named(o)' = {<<p, k>>} /\ <<p, k>>[1] = p
          BY <3>1, <4>1
        <4> QED
          BY <4>2
      <3>3. p < o
        BY <2>1, <2>2 DEF ParentOlder
      <3> QED
        BY <2>2, <2>6, <3>2, <3>3
    <2> QED
      BY <2>5, <2>6
  <1>5. CASE ~Link
    <2>1. Named(i)' = Named(i)
      BY <1>5, NamesStay
    <2>2. CASE WriteInode
      <3>1. pc = "fill" /\ pc' = "link" /\ ino' = ino
        BY <2>2 DEF WriteInode, Goto, call
      <3>2. CASE i = ino
        <4>1. \A e : e \notin Named(i)
          <5>1. \A d \in Dirs : \A k \in DOMAIN EntriesOf(d) : EntriesOf(d)[k].ino # i
            BY <3>1, <3>2 DEF Unnamed
          <5> QED
            BY <5>1, InNamed DEF NameAt
        <4> QED
          BY <2>1, <3>1, <3>2, <4>1
      <3>3. CASE i # ino
        <4>1. i \in Used
          BY <1>2, <3>3, KindsStay DEF Used
        <4> QED
          BY <1>3, <2>1, <3>1, <3>3, <4>1
      <3> QED
        BY <3>2, <3>3
    <2>3. CASE ~WriteInode
      <3>1. i \in Used
        BY <1>2, <2>3, KindsStay DEF Used
      <3>2. \/ pc # "link" /\ pc' # "link"
            \/ UNCHANGED <<pc, ino>>
        BY <1>5, <2>3, NoLinkPending DEF vars, call
      <3> QED
        BY <1>3, <2>1, <3>1, <3>2
    <2> QED
      BY <2>2, <2>3
  <1> QED
    BY <1>4, <1>5

LEMMA ParentsNamedStep ==
    ASSUME Sound, InodesReady, DirInProgress, Directories, NamedOnce, ParentsNamed, [Next]_vars
    PROVE  ParentsNamed'
  <1> USE DEF Sound
  <1> SUFFICES ASSUME Live' PROVE ParentsNamed'
    BY DEF ParentsNamed
  <1>1. Live
    BY LiveStep
  <1>2. RootIno \in Dirs /\ EntriesOf(RootIno)[2].ino = RootIno
    BY <1>1 DEF ParentsNamed
  <1>3. RootIno \in Dirs'
    BY <1>2, DirsStay
  <1>4. CASE Link
    <2>1. PICK p, o : p = cur /\ o = ino
      OBVIOUS
    <2>2. pc = "link" /\ pc' # "link"
      BY <1>4 DEF Link, AfterLink, Goto, Live, Fail
    <2>3. /\ p \in Dirs
          /\ \A d \in Dirs' : /\ d \in Dirs
                              /\ \/ EntriesOf(d)' = EntriesOf(d)
                                 \/ EntriesOf(d)' = Append(EntriesOf(d), NewEntry)
          /\ \A i : i # o => Named(i)' = Named(i)
      BY <1>4, <2>1, LinkNames
    <2>4. PICK k : Named(o)' = Named(o) \cup {<<p, k>>}
      BY <1>4, <2>1, LinkNames
    <2>5. ASSUME NEW d \in Dirs' PROVE d \in Dirs /\ EntriesOf(d)'[2] = EntriesOf(d)[2]
      <3>1. d \in Dirs
        BY <2>3
      <3>2. PICK es \in Seq(Entry) : es = EntriesOf(d) /\ Len(es) >= 2
        BY <3>1, DirTypes DEF Directories, Dotted
      <3>3. \A x : Append(es, x)[2] = es[2]
        BY <3>2
      <3> QED
        BY <2>3, <3>1, <3>2, <3>3
    <2>6. ASSUME NEW d \in Dirs', d # RootIno
          PROVE  \E e \in Named(d)' : EntriesOf(d)'[2].ino = e[1]
      <3>1. d \in Dirs /\ EntriesOf(d)'[2] = EntriesOf(d)[2]
        BY <2>5
      <3>2. CASE d = o
        <4>1. EntriesOf(d)[2].ino = p
          BY <1>1, <2>1, <2>2, <2>6, <3>1, <3>2 DEF ParentsNamed
        <4>2. <<p, k>> \in Named(d)' /\ <<p, k>>[1] = p
          BY <2>4, <3>2
        <4> QED
          BY <3>1, <4>1, <4>2
      <3>3. CASE d # o
        <4>1. \E e \in Named(d) : EntriesOf(d)[2].ino = e[1]
          BY <1>1, <2>1, <2>6, <3>1, <3>3 DEF ParentsNamed
        <4> QED
          BY <2>3, <3>1, <3>3, <4>1
      <3> QED
        BY <3>2, <3>3
    <2>7. EntriesOf(RootIno)'[2].ino = RootIno
      BY <1>2, <1>3, <2>5
    <2> QED
      BY <1>3, <2>2, <2>6, <2>7 DEF ParentsNamed
  <1>5. CASE ~Link
    <2>1. EntriesOf(RootIno)'[2].ino = RootIno
      BY <1>2, <1>5, DirsStay
    <2>2. ASSUME NEW d \in Dirs', d # RootIno
          PROVE  IF pc' = "link" /\ d = ino' THEN EntriesOf(d)'[2].ino = cur'
                 ELSE \E e \in Named(d)' : EntriesOf(d)'[2].ino = e[1]
      <3>1. Named(d)' = Named(d)
        BY <1>5, NamesStay
      <3>2. CASE d \in Dirs /\ EntriesOf(d)' = EntriesOf(d)
        <4>1. IF pc = "link" /\ d = ino THEN EntriesOf(d)[2].ino = cur
              ELSE \E e \in Named(d) : EntriesOf(d)[2].ino = e[1]
          BY <1>1, <2>2, <3>2 DEF ParentsNamed
        <4>2. CASE WriteInode
          <5>1. pc = "fill" /\ ino' = ino /\ d # ino
            BY <3>2, <4>2 DEF WriteInode, call, InodesReady, Dirs
          <5> QED
            BY <3>1, <3>2, <4>1, <5>1
        <4>3. CASE ~WriteInode
          <5>1. \/ pc # "link" /\ pc' # "link"
                \/ UNCHANGED <<pc, ino, cur>>
            BY <1>5, <4>3, NoLinkPending DEF vars, call
          <5> QED
            BY <3>1, <3>2, <4>1, <5>1
        <4> QED
          BY <4>2, <4>3
      <3>3. CASE WriteInode /\ d = ino /\ EntriesOf(d)' = DotEntries(ino, cur)
        <4>1. pc' = "link" /\ ino' = ino /\ cur' = cur
          BY <3>3 DEF WriteInode, Goto, call
        <4>2. EntriesOf(d)'[2].ino = cur
          BY <3>3 DEF DotEntries
        <4> QED
          BY <3>3, <4>1, <4>2
      <3> QED
        BY <1>5, <3>2, <3>3, DirectoryStep
    <2> QED
      BY <1>3, <2>1, <2>2 DEF ParentsNamed
  <1> QED
    BY <1>4, <1>5

-----------------------------------------------------------------------------
(* The counters in memory, one marked bit at a time.                       *)

LEMMA DivMod ==
    ASSUME NEW x \in Nat, NEW k \in Nat \ {0}
    PROVE  /\ x = (x \div k) * k + (x % k) /\ x \div k \in Nat /\ x % k \in 0 .. k - 1
           /\ (x \div k) * k \in Nat
  OBVIOUS

LEMMA DivUnique ==
    ASSUME NEW h \in Nat, NEW k \in Nat \ {0}, NEW r \in 0 .. k - 1
    PROVE  /\ h * k + r \in Nat
           /\ (h * k + r) \div k = h /\ (h * k + r) % k = r
  <1>1. h * k \in Nat
    OBVIOUS
  <1>2. PICK x \in Nat : x = h * k + r
    BY <1>1
  <1>3. PICK q \in Nat, m \in 0 .. k - 1 : q = x \div k /\ m = x % k /\ x = q * k + m
    BY DivMod
  <1>4. q * k \in Nat
    OBVIOUS
  <1>5. ASSUME q < h PROVE FALSE
    <2>1. (q + 1) * k <= h * k
      BY <1>5, MulMono
    <2>2. (q + 1) * k = q * k + k
      OBVIOUS
    <2> QED
      BY <1>1, <1>2, <1>3, <1>4, <2>1, <2>2
  <1>6. ASSUME h < q PROVE FALSE
    <2>1. (h + 1) * k <= q * k
      BY <1>6, MulMono
    <2>2. (h + 1) * k = h * k + k
      OBVIOUS
    <2> QED
      BY <1>1, <1>2, <1>3, <1>4, <2>1, <2>2
  <1>7. q = h
    BY <1>5, <1>6
  <1> QED
    BY <1>1, <1>2, <1>3, <1>7

\* Which inodes are in a group.
LEMMA InodeInGroup ==
    ASSUME NEW h \in Groups
    PROVE  /\ GroupInodes(h) = (h * IPG + 1) .. (h * IPG + IPG)
           /\ \A n \in Nat \ {0} : n \in GroupInodes(h) <=> GroupOfInode(n) = h
  <1>1. h \in Nat /\ h + 1 <= G /\ h * IPG \in Nat /\ G \in Nat /\ IPG \in Nat \ {0}
    BY LayoutNats DEF Groups
  <1>2. (h + 1) * IPG <= G * IPG /\ (h + 1) * IPG = h * IPG + IPG /\ G * IPG = IPG * G
    BY <1>1, MulMono
  <1>3. ASSUME NEW n \in Nat \ {0}, GroupOfInode(n) = h
        PROVE  n \in (h * IPG + 1) .. (h * IPG + IPG) /\ n \in Inodes
    <2>1. PICK x \in Nat : x = n - 1 /\ n = x + 1
      OBVIOUS
    <2>2. x = h * IPG + (x % IPG) /\ x % IPG \in 0 .. IPG - 1
      BY <1>1, <1>3, <2>1, DivMod DEF GroupOfInode
    <2> QED
      BY <1>1, <1>2, <2>1, <2>2 DEF Inodes
  <1>4. ASSUME NEW n \in (h * IPG + 1) .. (h * IPG + IPG) PROVE GroupOfInode(n) = h
    <2>1. PICK r \in 0 .. IPG - 1 : n - 1 = h * IPG + r
      <3>1. n - 1 - h * IPG \in 0 .. IPG - 1
        BY <1>1, <1>4
      <3> QED
        BY <1>1, <3>1
    <2> QED
      BY <1>1, <2>1, DivUnique DEF GroupOfInode
  <1>5. \A n : n \in (h * IPG + 1) .. (h * IPG + IPG) => n \in Nat \ {0}
    BY <1>1
  <1> QED
    BY <1>3, <1>4, <1>5 DEF GroupInodes, Inodes

LEMMA GroupsFinite ==
    ASSUME NEW h \in Groups
    PROVE  /\ IsFiniteSet(GroupBlocks(h)) /\ IsFiniteSet(GroupInodes(h))
  <1>1. GroupBlocks(h) \in SUBSET Blocks /\ GroupInodes(h) \in SUBSET Inodes
    BY DEF GroupBlocks, GroupInodes
  <1> QED
    BY <1>1, Finite, FS_Subset

\* Taking x out of the elements of S that are not in T.
LEMMA OneLess ==
    ASSUME NEW S, IsFiniteSet(S), NEW T, NEW x, x \notin T
    PROVE  /\ Cardinality(S \ T) \in Nat
           /\ Cardinality(S \ (T \cup {x})) =
                  IF x \in S THEN Cardinality(S \ T) - 1 ELSE Cardinality(S \ T)
  <1>1. IsFiniteSet(S \ T)
    BY FS_Difference
  <1>2. S \ (T \cup {x}) = (S \ T) \ {x}
    OBVIOUS
  <1> QED
    BY <1>1, <1>2, FS_RemoveElement, FS_CardinalityType

\* What is marked has been handed out.
LEMMA BlocksAhead ==
    ASSUME Sound, Accounted, Live, NEW b \in DataBlocks, b >= next_block
    PROVE  b \notin bbmp
  <1> USE DEF Sound
  <1>1. ptr \in [DataBlocks -> SUBSET DataBlocks] /\ next_block \in Nat
        /\ \A i \in AllInodes : inodes[i].blocks \subseteq DataBlocks
    BY DEF TypeInv, TypeOK, DiskTypes, MemTypes, Inode
  <1>2. /\ \A c \in DataBlocks : ptr[c] \subseteq Taken /\ Held \subseteq Taken
        /\ \A i \in AllInodes : inodes[i].blocks \subseteq Taken
        /\ Taken \subseteq DataBlocks
    BY DEF BlocksOwnedOnce, OwnedAreTaken, Taken
  <1>3. ASSUME b \in TreeOf(Held) PROVE b \in Taken
    BY <1>1, <1>2, <1>3, InTree
  <1>4. ASSUME NEW i \in Used, b \in Reach(i) PROVE b \in Taken
    <2>1. \/ b \in inodes[i].blocks \/ \E c \in DataBlocks : b \in ptr[c]
      <3>1. i \in AllInodes
        BY DEF Used
      <3>2. Listed(inodes[i].blocks) \subseteq DataBlocks
        BY <1>1, <3>1 DEF Listed
      <3> QED
        BY <1>1, <1>4, <3>1, <3>2 DEF Reach, Listed
    <2> QED
      BY <1>2, <2>1 DEF Used
  <1>5. b \in bbmp => b \in Taken
    BY <1>3, <1>4 DEF Accounted
  <1>6. PICK m, n \in Nat : m = next_block /\ n = b
    BY <1>1, DataBlockTypes
  <1> QED
    BY <1>5, <1>6 DEF Taken

LEMMA InodesAhead ==
    ASSUME Sound, InodesReady, InodesMarked, Live
    PROVE  \A i \in ibmp : i < next_ino
  <1> USE DEF Sound
  <1>1. next_ino \in Nat /\ LostFoundIno \in Nat /\ LostFoundIno < next_ino /\ ino < next_ino
    BY LayoutNats DEF TypeInv, TypeOK, MemTypes, InodesBelow
  <1>2. \A i \in Used : i < next_ino
    BY <1>1 DEF InodesReady, Used, AllInodes
  <1>3. \A i \in 1 .. LostFoundIno : i < next_ino
    BY <1>1
  <1> QED
    BY <1>1, <1>2, <1>3 DEF InodesMarked
-----------------------------------------------------------------------------
\* While the run goes on the counters in memory are what the bitmaps say; the
\* superblock's count of inodes as long as there are inodes.
InTable == next_ino <= IPG * G + 1

CountedBlocks ==
    Live => /\ free_blocks = Cardinality(Blocks \ bbmp)
            /\ \A h \in Groups : gfb[h] = FreeBits(h)

CountedInodes ==
    Live => /\ InTable => free_inodes = Cardinality(Inodes \ ibmp)
            /\ \A h \in Groups : gfi[h] = FreeInodeBits(h)

LEMMA CountedBlocksStep ==
    ASSUME Sound, Accounted, CountedBlocks, [Next]_vars
    PROVE  CountedBlocks'
  <1> USE DEF Sound
  <1> SUFFICES ASSUME Live' PROVE CountedBlocks'
    BY DEF CountedBlocks
  <1>1. Live
    BY LiveStep
  <1>2. CASE AllocBlock
    <2>1. PICK n \in DataBlocks : n = blk' /\ n >= next_block
      BY <1>2, NextCandidate DEF AllocBlock, TypeInv, TypeOK, MemTypes
    <2>2. n \notin bbmp
      BY <1>1, <2>1, BlocksAhead
    <2>3. /\ bbmp' = bbmp \cup {n} /\ free_blocks' = free_blocks - 1
          /\ gfb' = [gfb EXCEPT ![GroupOfBlock(n)] = @ - 1]
      BY <1>2, <2>1 DEF AllocBlock, MarkBlock, Charge
    <2>4. free_blocks' = Cardinality(Blocks \ bbmp')
      <3>1. n \in Blocks
        BY DataBlockTypes
      <3> QED
        BY <1>1, <2>2, <2>3, <3>1, Finite, OneLess DEF CountedBlocks
    <2>5. ASSUME NEW h \in Groups PROVE gfb'[h] = FreeBits(h)'
      <3>1. n \in GroupBlocks(h) <=> GroupOfBlock(n) = h
        BY DataBlockTypes DEF GroupBlocks
      <3>2. gfb'[h] = IF GroupOfBlock(n) = h THEN gfb[h] - 1 ELSE gfb[h]
        BY <2>3, GroupsHaveSlots DEF TypeInv, TypeOK, MemTypes
      <3>3. Cardinality(GroupBlocks(h) \ bbmp') =
                IF n \in GroupBlocks(h) THEN FreeBits(h) - 1 ELSE FreeBits(h)
        BY <2>2, <2>3, GroupsFinite, OneLess DEF FreeBits
      <3> QED
        BY <1>1, <3>1, <3>2, <3>3 DEF CountedBlocks, FreeBits
    <2> QED
      BY <2>4, <2>5 DEF CountedBlocks
  <1>3. CASE ~AllocBlock
    <2>1. UNCHANGED <<free_blocks, gfb, bbmp>>
      BY <1>3 DEF Next, Work, Begin, Descend, NameRoot, LastDir, LastLeaf, Stray, AllocInode,
         NoBlockLeft, Put, WriteInode, Link, CountParent, FlushSuper, FlushGdt, Stop, Finish,
         Over, vars, mem, disk
    <2> QED
      BY <1>1, <2>1 DEF CountedBlocks, FreeBits
  <1> QED
    BY <1>2, <1>3

LEMMA CountedInodesStep ==
    ASSUME Sound, InodesReady, InodesMarked, CountedInodes, [Next]_vars
    PROVE  CountedInodes'
  <1> USE DEF Sound
  <1> SUFFICES ASSUME Live' PROVE CountedInodes'
    BY DEF CountedInodes
  <1>1. Live
    BY LiveStep
  <1>2. CASE AllocInode
    <2>1. PICK n \in Nat \ {0} : n = next_ino
      BY DEF TypeInv, TypeOK, MemTypes
    <2>2. n \notin ibmp
      BY <1>1, <2>1, InodesAhead
    <2>3. /\ ibmp' = ibmp \cup {n} /\ free_inodes' = free_inodes - 1 /\ next_ino' = n + 1
          /\ gfi' = [gfi EXCEPT ![GroupOfInode(n)] = @ - 1]
      BY <1>2, <2>1 DEF AllocInode, MarkInode
    <2>4. ASSUME InTable' PROVE free_inodes' = Cardinality(Inodes \ ibmp')
      <3>1. n \in Inodes /\ InTable
        BY <2>1, <2>3, <2>4, LayoutNats DEF InTable, Inodes
      <3> QED
        BY <1>1, <2>2, <2>3, <3>1, Finite, OneLess DEF CountedInodes
    <2>5. ASSUME NEW h \in Groups PROVE gfi'[h] = FreeInodeBits(h)'
      <3>1. n \in GroupInodes(h) <=> GroupOfInode(n) = h
        BY InodeInGroup
      <3>2. gfi'[h] = IF GroupOfInode(n) = h THEN gfi[h] - 1 ELSE gfi[h]
        BY <2>3, GroupsHaveSlots DEF TypeInv, TypeOK, MemTypes
      <3>3. Cardinality(GroupInodes(h) \ ibmp') =
                IF n \in GroupInodes(h) THEN FreeInodeBits(h) - 1 ELSE FreeInodeBits(h)
        BY <2>2, <2>3, GroupsFinite, OneLess DEF FreeInodeBits
      <3> QED
        BY <1>1, <3>1, <3>2, <3>3 DEF CountedInodes, FreeInodeBits
    <2> QED
      BY <2>4, <2>5 DEF CountedInodes
  <1>3. CASE ~AllocInode
    <2>1. UNCHANGED <<free_inodes, gfi, ibmp, next_ino>>
      BY <1>3 DEF Next, Work, Begin, Descend, NameRoot, LastDir, LastLeaf, Stray, AllocBlock,
         NoBlockLeft, Put, WriteInode, Link, CountParent, FlushSuper, FlushGdt, Stop, Finish,
         Over, vars, mem, disk
    <2> QED
      BY <1>1, <2>1 DEF CountedInodes, FreeInodeBits, InTable
  <1> QED
    BY <1>2, <1>3
-----------------------------------------------------------------------------
\* A group's count of directories is one behind while a new one is linked and
\* its parent rewritten.
DirsOf(h) == Dirs \cap GroupInodes(h)
Pending(h) ==
    IF pc \in {"link", "parent"} /\ making = "dir" /\ GroupOfInode(ino) = h THEN 1 ELSE 0

CountedDirs ==
    Live => /\ pc = "parent" => making = "dir"
            /\ \A h \in Groups : Cardinality(DirsOf(h)) = gud[h] + Pending(h)

LEMMA DirsFinite ==
    ASSUME NEW h \in Groups
    PROVE  IsFiniteSet(DirsOf(h)) /\ Cardinality(DirsOf(h)) \in Nat
  <1>1. DirsOf(h) \in SUBSET GroupInodes(h)
    BY DEF DirsOf
  <1> QED
    BY <1>1, GroupsFinite, FS_Subset, FS_CardinalityType

LEMMA CountedDirsStep ==
    ASSUME Sound, InodesReady, CountedDirs, [Next]_vars
    PROVE  CountedDirs'
  <1> USE DEF Sound
  <1> SUFFICES ASSUME Live' PROVE CountedDirs'
    BY DEF CountedDirs
  <1>1. \A h \in Groups : Cardinality(DirsOf(h)) = gud[h] + Pending(h)
    BY LiveStep DEF CountedDirs
  <1>2. gud \in [Slots -> Int] /\ inodes \in [AllInodes -> Inode]
    BY DEF TypeInv, TypeOK, MemTypes, DiskTypes
  <1>3. CASE WriteInode
    <2>1. PICK o : o = ino
      OBVIOUS
    <2>2. /\ inodes' = [inodes EXCEPT ![o] = NewInode] /\ pc = "fill" /\ pc' = "link"
          /\ UNCHANGED <<gud, making, ino>>
      BY <1>3, <2>1 DEF WriteInode, call, mem, Goto
    <2>3. o \in AllInodes /\ o \in Nat \ {0} /\ inodes[o].kind = "none"
      BY <2>1, <2>2, WriterNats DEF TypeInv, CallOK, Busy, InodesReady, AllInodes
    <2>4. Dirs' = IF making = "dir" THEN Dirs \cup {o} ELSE Dirs
      <3>1. inodes'[o].kind = making /\ \A i \in AllInodes : i # o => inodes'[i] = inodes[i]
        BY <1>2, <2>2, <2>3 DEF NewInode
      <3> QED
        BY <2>3, <3>1 DEF Dirs
    <2>5. o \notin Dirs
      BY <2>3 DEF Dirs
    <2>6. ASSUME NEW h \in Groups PROVE Cardinality(DirsOf(h)') = gud'[h] + Pending(h)'
      <3>1. Cardinality(DirsOf(h)) = gud[h] /\ gud[h] \in Int
        BY <1>1, <1>2, <2>2, DirsFinite, GroupsHaveSlots DEF Pending
      <3>2. o \in GroupInodes(h) <=> GroupOfInode(o) = h
        BY <2>3, InodeInGroup
      <3>3. Pending(h)' = IF making = "dir" /\ GroupOfInode(o) = h THEN 1 ELSE 0
        BY <2>1, <2>2 DEF Pending
      <3>4. CASE making = "dir" /\ GroupOfInode(o) = h
        <4>1. DirsOf(h)' = DirsOf(h) \cup {o} /\ o \notin DirsOf(h)
          BY <2>4, <2>5, <3>2, <3>4 DEF DirsOf
        <4> QED
          BY <2>2, <3>1, <3>3, <3>4, <4>1, DirsFinite, FS_AddElement
      <3>5. CASE ~(making = "dir" /\ GroupOfInode(o) = h)
        <4>1. DirsOf(h)' = DirsOf(h)
          BY <2>4, <2>5, <3>2, <3>5 DEF DirsOf
        <4> QED
          BY <2>2, <3>1, <3>3, <3>5, <4>1
      <3> QED
        BY <3>4, <3>5
    <2> QED
      BY <2>2, <2>6 DEF CountedDirs
  <1>4. ASSUME ~WriteInode, NEW h \in Groups PROVE DirsOf(h)' = DirsOf(h)
    <2>1. \A i \in AllInodes : inodes'[i].kind = inodes[i].kind
      BY <1>4, KindsStay
    <2>2. Dirs' = Dirs
      BY <2>1 DEF Dirs
    <2> QED
      BY <2>2 DEF DirsOf
  <1>5. CASE Link
    <2>1. /\ pc = "link" /\ pc' = (IF making = "dir" THEN "parent" ELSE "sb") /\ ~WriteInode
          /\ UNCHANGED <<gud, making, ino>>
      BY <1>5 DEF Link, AfterLink, Fail, Goto, Live, mem, call, WriteInode
    <2>2. \A h \in Groups : Pending(h)' = Pending(h)
      BY <2>1 DEF Pending
    <2> QED
      BY <1>1, <1>4, <2>1, <2>2 DEF CountedDirs
  <1>6. CASE CountParent
    <2>1. PICK k : k = GroupOfInode(ino)
      OBVIOUS
    <2>2. pc = "parent" /\ pc' = "sb" /\ ~WriteInode
      BY <1>6 DEF CountParent, Goto, WriteInode
    <2>4. making = "dir"
      BY <2>2, LiveStep DEF CountedDirs
    <2>5. gud' = [gud EXCEPT ![k] = @ + 1]
      BY <1>6, <2>1 DEF CountParent
    <2>3. ASSUME NEW h \in Groups PROVE gud[h] + Pending(h) = gud'[h] + Pending(h)'
      <3>1. gud'[h] = (IF h = k THEN gud[h] + 1 ELSE gud[h]) /\ gud[h] \in Int
        BY <1>2, <2>5, GroupsHaveSlots
      <3>2. Pending(h)' = 0 /\ Pending(h) = IF h = k THEN 1 ELSE 0
        BY <2>1, <2>2, <2>4 DEF Pending
      <3> QED
        BY <3>1, <3>2
    <2> QED
      BY <1>1, <1>4, <2>2, <2>3 DEF CountedDirs
  <1>7. CASE ~WriteInode /\ ~Link /\ ~CountParent
    <2>1. gud' = gud
      BY <1>7 DEF Next, Work, Begin, Descend, NameRoot, LastDir, LastLeaf, Stray, AllocBlock,
         AllocInode, NoBlockLeft, Put, FlushSuper, FlushGdt, Stop, Finish, Over, vars, mem
    <2>2. \/ pc \notin {"link", "parent"} /\ pc' \notin {"link", "parent"}
          \/ UNCHANGED <<pc, making, ino>>
      <3>1. CASE Descend \/ LastDir \/ LastLeaf
        BY <3>1, StartsEmpty DEF Making, Descend, LastDir, LastLeaf, Goto, Make, MakeDir, Answer,
           Fail
      <3> QED
        BY <1>7, <3>1 DEF Next, Work, Begin, NameRoot, Stray, AllocInode, AllocBlock, Put,
           NoBlockLeft, FlushSuper, FlushGdt, Return, Answer, Stop, Finish, Over, Goto, Fail,
           Live, vars, call
    <2>3. \A h \in Groups : Pending(h)' = Pending(h)
      BY <2>2 DEF Pending
    <2>4. pc' = "parent" => making' = "dir"
      BY <2>2, LiveStep DEF CountedDirs
    <2>5. ASSUME NEW h \in Groups PROVE Cardinality(DirsOf(h)') = gud'[h] + Pending(h)'
      BY <1>1, <1>4, <1>7, <2>1, <2>3
    <2> QED
      BY <2>4, <2>5 DEF CountedDirs
  <1> QED
    BY <1>3, <1>5, <1>6, <1>7

-----------------------------------------------------------------------------
(* The counters that df_format_ext2 starts from.                           *)

\* What mkfs takes of group h is one run of blocks at its head.
LEMMA MetaOfGroup ==
    ASSUME NEW h \in Groups
    PROVE  GroupBlocks(h) \cap MetaBlocks = (h * BPG) .. (h * BPG + Metapg - 1)
  <1>1. h \in Nat /\ h * BPG \in Nat
    BY LayoutNats DEF Groups
  <1>2. ASSUME NEW bn \in GroupBlocks(h) \cap MetaBlocks
        PROVE  bn \in (h * BPG) .. (h * BPG + Metapg - 1)
    <2>1. bn \in Nat /\ bn \div BPG = h /\ ~(bn % BPG >= Metapg)
      BY LayoutNats DEF GroupBlocks, MetaBlocks, Blocks, GroupOfBlock, IsData
    <2>2. bn = (bn \div BPG) * BPG + (bn % BPG) /\ bn % BPG \in 0 .. BPG - 1
      BY <2>1, LayoutNats, DivMod
    <2>3. bn = h * BPG + (bn % BPG)
      BY <2>1, <2>2
    <2> QED
      BY <1>1, <2>1, <2>2, <2>3, LayoutNats
  <1>3. ASSUME NEW bn \in (h * BPG) .. (h * BPG + Metapg - 1)
        PROVE  bn \in GroupBlocks(h) \cap MetaBlocks
    <2>1. PICK r \in 0 .. Metapg - 1 : bn = h * BPG + r
      <3>1. bn - h * BPG \in 0 .. Metapg - 1
        BY <1>1, LayoutNats
      <3> QED
        BY <1>1, <3>1
    <2>2. bn \in Blocks
      BY <2>1, MetadataInside
    <2>3. bn \div BPG = h /\ bn % BPG = r
      <3>1. r \in 0 .. BPG - 1
        BY LayoutNats
      <3> QED
        BY <1>1, <2>1, <3>1, LayoutNats, DivUnique
    <2> QED
      BY <2>1, <2>2, <2>3, LayoutNats DEF GroupBlocks, MetaBlocks, GroupOfBlock, IsData
  <1> QED
    BY <1>2, <1>3

LEMMA FirstBlocks ==
    /\ GroupOfBlock(RootBlock) = 0 /\ GroupOfBlock(LostFoundBlock) = 0
    /\ RootBlock \notin MetaBlocks /\ LostFoundBlock \notin MetaBlocks /\ RootBlock # LostFoundBlock
    /\ \A S \in SUBSET Blocks : S \cap FormatBlocks =
           (S \cap MetaBlocks) \cup (S \cap {RootBlock}) \cup (S \cap {LostFoundBlock})
  <1>1. GroupOfBlock(RootBlock) = 0 /\ GroupOfBlock(LostFoundBlock) = 0
    BY LayoutNats DEF GroupOfBlock, RootBlock, LostFoundBlock
  <1>2. RootBlock \notin MetaBlocks /\ LostFoundBlock \notin MetaBlocks
    BY FirstDirBlocks DEF DataBlocks, MetaBlocks
  <1>3. RootBlock # LostFoundBlock
    BY LayoutNats DEF RootBlock, LostFoundBlock
  <1>4. Blocks \cap TailPadding = {}
    BY LayoutNats DEF Blocks, TailPadding
  <1> QED
    BY <1>1, <1>2, <1>3, <1>4 DEF FormatBlocks

LEMMA FreshGroups ==
    ASSUME NEW h \in Groups
    PROVE  Cardinality(GroupBlocks(h) \ FormatBlocks) = FreeBlocksOf(h)
  <1>1. h \in Nat /\ h * BPG \in Nat /\ Metapg \in Nat
    BY LayoutNats DEF Groups
  <1>2. GroupBlocks(h) \in SUBSET Blocks
    BY DEF GroupBlocks
  <1>3. IsFiniteSet(GroupBlocks(h)) /\ Cardinality(GroupBlocks(h)) \in Nat
    BY GroupsFinite, FS_CardinalityType
  <1>4. PICK M : M = GroupBlocks(h) \cap MetaBlocks
    OBVIOUS
  <1>5. IsFiniteSet(M) /\ Cardinality(M) = Metapg
    <2>1. M = (h * BPG) .. (h * BPG + Metapg - 1)
      BY <1>4, MetaOfGroup
    <2>2. PICK a \in Nat : a = h * BPG
      BY <1>1
    <2>3. PICK b \in Int : b = a + Metapg - 1
      BY <1>1
    <2>4. IsFiniteSet(a .. b) /\ Cardinality(a .. b) = IF a > b THEN 0 ELSE b - a + 1
      BY FS_Interval
    <2> QED
      BY <1>1, <2>1, <2>2, <2>3, <2>4
  <1>6. PICK F : F = GroupBlocks(h) \cap FormatBlocks
    OBVIOUS
  <1>8. Cardinality(F) = Metapg + (IF h = 0 THEN 2 ELSE 0)
    <2>1. F = M \cup (GroupBlocks(h) \cap {RootBlock}) \cup (GroupBlocks(h) \cap {LostFoundBlock})
      BY <1>2, <1>4, <1>6, FirstBlocks
    <2>2. CASE h = 0
      <3>1. RootBlock \in GroupBlocks(h) /\ LostFoundBlock \in GroupBlocks(h)
        BY <2>2, FirstBlocks, FirstDirBlocks DEF GroupBlocks, DataBlocks
      <3>2. F = (M \cup {RootBlock}) \cup {LostFoundBlock}
        BY <2>1, <3>1
      <3>3. RootBlock \notin M /\ LostFoundBlock \notin M \cup {RootBlock}
        BY <1>4, FirstBlocks
      <3>4. IsFiniteSet(M \cup {RootBlock}) /\ Cardinality(M \cup {RootBlock}) = Metapg + 1
        BY <1>5, <3>3, FS_AddElement
      <3>5. Cardinality((M \cup {RootBlock}) \cup {LostFoundBlock}) = Metapg + 1 + 1
        BY <3>3, <3>4, FS_AddElement
      <3> QED
        BY <1>1, <2>2, <3>2, <3>5
    <2>3. CASE h # 0
      <3>1. RootBlock \notin GroupBlocks(h) /\ LostFoundBlock \notin GroupBlocks(h)
        BY <2>3, FirstBlocks DEF GroupBlocks
      <3>2. F = M
        BY <2>1, <3>1
      <3> QED
        BY <1>1, <1>5, <2>3, <3>2
    <2> QED
      BY <2>2, <2>3
  <1>7. Cardinality(GroupBlocks(h) \ FormatBlocks)
            = Cardinality(GroupBlocks(h)) - Cardinality(GroupBlocks(h) \cap FormatBlocks)
    BY <1>3, FS_Difference
  <1> QED
    BY <1>1, <1>3, <1>6, <1>7, <1>8 DEF FreeBlocksOf

\* One metadata head per group.
LEMMA MetaCount == IsFiniteSet(MetaBlocks) /\ Cardinality(MetaBlocks) = G * Metapg
  <1> DEFINE Heads == Groups \X (0 .. Metapg - 1)
             place == [p \in Heads |-> p[1] * BPG + p[2]]
  <1>1. IsFiniteSet(Groups) /\ Cardinality(Groups) = G
    <2>1. G - 1 \in Int /\ G \in Nat \ {0}
      BY LayoutNats
    <2> QED
      BY <2>1, FS_Interval DEF Groups
  <1>2. IsFiniteSet(0 .. Metapg - 1) /\ Cardinality(0 .. Metapg - 1) = Metapg
    <2>1. PICK m \in Nat : m = Metapg
      BY LayoutNats
    <2>2. IsFiniteSet(0 .. m - 1) /\ Cardinality(0 .. m - 1) = IF 0 > m - 1 THEN 0 ELSE m - 1 - 0 + 1
      BY FS_Interval
    <2> QED
      BY <2>1, <2>2
  <1>3. IsFiniteSet(Heads) /\ Cardinality(Heads) = G * Metapg
    BY <1>1, <1>2, FS_Product
  <1>4. ASSUME NEW h \in Groups, NEW r \in 0 .. Metapg - 1
        PROVE  /\ h * BPG + r \in MetaBlocks
               /\ (h * BPG + r) \div BPG = h /\ (h * BPG + r) % BPG = r
    <2>1. h \in Nat /\ r \in 0 .. BPG - 1 /\ Metapg \in Nat
      BY LayoutNats DEF Groups
    <2>2. (h * BPG + r) \div BPG = h /\ (h * BPG + r) % BPG = r
      BY <2>1, LayoutNats, DivUnique
    <2> QED
      BY <2>1, <2>2, MetadataInside DEF MetaBlocks, IsData
  <1>5. place \in Injection(Heads, MetaBlocks)
    <2>1. place \in [Heads -> MetaBlocks]
      BY <1>4
    <2>2. ASSUME NEW p \in Heads, NEW q \in Heads, place[p] = place[q] PROVE p = q
      <3>1. p[1] = q[1] /\ p[2] = q[2]
        BY <1>4, <2>2
      <3> QED
        BY <3>1
    <2> QED
      BY <2>1, <2>2 DEF Injection, IsInjective
  <1>6. place \in Surjection(Heads, MetaBlocks)
    <2>1. ASSUME NEW bn \in MetaBlocks PROVE \E p \in Heads : place[p] = bn
      <3>1. bn \in Blocks /\ bn \in Nat /\ ~(bn % BPG >= Metapg)
        BY LayoutNats DEF MetaBlocks, IsData, Blocks
      <3>2. bn = (bn \div BPG) * BPG + (bn % BPG) /\ bn % BPG \in 0 .. BPG - 1
        BY <3>1, LayoutNats, DivMod
      <3>3. bn \div BPG \in Groups /\ bn % BPG \in 0 .. Metapg - 1
        BY <3>1, <3>2, BlockHasGroup, LayoutNats DEF GroupOfBlock
      <3>4. PICK p : p = <<bn \div BPG, bn % BPG>>
        OBVIOUS
      <3>5. p \in Heads /\ place[p] = bn
        BY <3>2, <3>3, <3>4
      <3> QED
        BY <3>5
    <2> QED
      BY <1>5, <2>1 DEF Surjection, Injection
  <1>7. ExistsBijection(Heads, MetaBlocks)
    BY <1>5, <1>6 DEF ExistsBijection, Bijection
  <1> QED
    BY <1>3, <1>7, FS_Bijection

LEMMA FreshBlocks == Cardinality(Blocks \ FormatBlocks) = B - G * Metapg - 2
  <1>1. Blocks \cap FormatBlocks = (MetaBlocks \cup {RootBlock}) \cup {LostFoundBlock}
    <2>1. MetaBlocks \subseteq Blocks /\ RootBlock \in Blocks /\ LostFoundBlock \in Blocks
      BY FirstDirBlocks DEF MetaBlocks, DataBlocks
    <2> QED
      BY <2>1, FirstBlocks
  <1>2. PICK m \in Nat : m = G * Metapg
    BY LayoutNats
  <1>3. RootBlock \notin MetaBlocks /\ LostFoundBlock \notin MetaBlocks \cup {RootBlock}
    BY FirstBlocks
  <1>4. IsFiniteSet(MetaBlocks \cup {RootBlock}) /\ Cardinality(MetaBlocks \cup {RootBlock}) = m + 1
    BY <1>2, <1>3, MetaCount, FS_AddElement
  <1>5. Cardinality(Blocks \cap FormatBlocks) = m + 1 + 1
    BY <1>1, <1>3, <1>4, FS_AddElement
  <1>6. IsFiniteSet(Blocks) /\ Cardinality(Blocks) = B
    <2>1. B - 1 \in Int /\ B \in Nat \ {0}
      BY LayoutNats
    <2> QED
      BY <2>1, FS_Interval DEF Blocks
  <1>7. Cardinality(Blocks \ FormatBlocks) = Cardinality(Blocks) - Cardinality(Blocks \cap FormatBlocks)
    BY <1>6, FS_Difference
  <1> QED
    BY <1>2, <1>5, <1>6, <1>7, LayoutNats

LEMMA CountedBlocksInit == Init => CountedBlocks
  <1> SUFFICES ASSUME Init PROVE CountedBlocks
    OBVIOUS
  <1>1. bbmp = FormatBlocks /\ free_blocks = B - G * Metapg - 2
        /\ gfb = [h \in Slots |-> IF h \in Groups THEN FreeBlocksOf(h) ELSE 0]
    BY DEF Init
  <1>2. \A h \in Groups : gfb[h] = FreeBits(h)
    BY <1>1, FreshGroups, GroupsHaveSlots DEF FreeBits
  <1> QED
    BY <1>1, <1>2, FreshBlocks DEF CountedBlocks

LEMMA CountedInodesInit == Init => CountedInodes
  <1> SUFFICES ASSUME Init PROVE CountedInodes
    OBVIOUS
  <1>1. ibmp = 1 .. LostFoundIno /\ free_inodes = IPG * G - LostFoundIno
        /\ gfi = [h \in Slots |-> IF h \in Groups THEN FreeInodesOf(h) ELSE 0]
    BY DEF Init
  <1>2. LostFoundIno \in Nat /\ LostFoundIno <= IPG /\ IPG \in Nat \ {0} /\ G \in Nat \ {0}
    BY LayoutNats, LayoutFits DEF GroupsFit
  <1>3. PICK n \in Nat : n = IPG * G /\ LostFoundIno <= n
    <2>1. 1 * IPG <= G * IPG /\ G * IPG = IPG * G /\ IPG * G \in Nat
      BY <1>2, MulMono
    <2> QED
      BY <1>2, <2>1
  <1>4. free_inodes = Cardinality(Inodes \ ibmp)
    <2>1. PICK S : S = Inodes \ ibmp
      OBVIOUS
    <2>2. PICK a \in Int : a = LostFoundIno + 1
      BY <1>2
    <2>4. S = a .. n
      BY <1>1, <1>2, <1>3, <2>1, <2>2 DEF Inodes
    <2>3. Cardinality(a .. n) = IF a > n THEN 0 ELSE n - a + 1
      BY FS_Interval
    <2>5. Cardinality(S) = n - LostFoundIno
      BY <1>2, <1>3, <2>2, <2>3, <2>4
    <2>6. n - LostFoundIno = free_inodes
      BY <1>1, <1>3
    <2> QED
      BY <2>1, <2>5, <2>6
  <1>5. ASSUME NEW h \in Groups PROVE gfi[h] = FreeInodeBits(h)
    <2>1. PICK k \in Nat : k = h * IPG /\ h \in Nat
      BY <1>2 DEF Groups
    <2>2. GroupInodes(h) = (k + 1) .. (k + IPG)
      BY <2>1, InodeInGroup
    <2>3. gfi[h] = FreeInodesOf(h)
      BY <1>1, GroupsHaveSlots
    <2>6. PICK S : S = GroupInodes(h) \ ibmp
      OBVIOUS
    <2>4. CASE h = 0
      <3>1. k = 0
        BY <1>2, <2>1, <2>4
      <3>3. PICK a \in Int : a = LostFoundIno + 1
        BY <1>2
      <3>2. S = a .. IPG
        BY <1>1, <1>2, <2>2, <2>6, <3>1, <3>3
      <3>4. Cardinality(a .. IPG) = IF a > IPG THEN 0 ELSE IPG - a + 1
        BY <1>2, FS_Interval
      <3> QED
        <4>1. Cardinality(S) = IPG - LostFoundIno
          BY <1>2, <3>2, <3>3, <3>4
        <4>2. gfi[h] = IPG - LostFoundIno
          BY <2>3, <2>4 DEF FreeInodesOf
        <4> QED
          BY <2>6, <4>1, <4>2 DEF FreeInodeBits
    <2>5. CASE h # 0
      <3>1. IPG <= k
        <4>1. 1 * IPG <= h * IPG
          BY <1>2, <2>1, <2>5, MulMono
        <4> QED
          BY <1>2, <2>1, <4>1
      <3>3. PICK a \in Int, b \in Int : a = k + 1 /\ b = k + IPG
        BY <1>2
      <3>2. S = a .. b
        BY <1>1, <1>2, <2>2, <2>6, <3>1, <3>3
      <3>4. Cardinality(a .. b) = IF a > b THEN 0 ELSE b - a + 1
        BY FS_Interval
      <3> QED
        <4>1. Cardinality(S) = IPG
          BY <1>2, <3>2, <3>3, <3>4
        <4>2. gfi[h] = IPG - 0
          BY <2>3, <2>5 DEF FreeInodesOf
        <4> QED
          BY <1>2, <2>6, <4>1, <4>2 DEF FreeInodeBits
    <2> QED
      BY <2>4, <2>5
  <1> QED
    BY <1>4, <1>5 DEF CountedInodes

LEMMA CountedDirsInit == Init => CountedDirs
  <1> SUFFICES ASSUME Init PROVE CountedDirs
    OBVIOUS
  <1>1. pc = "idle" /\ gud = [h \in Slots |-> IF h \in Groups THEN UsedDirsOf(h) ELSE 0]
    BY DEF Init
  <1>2. Dirs = {RootIno, LostFoundIno} /\ RootIno # LostFoundIno
    BY InitEntries, WriterNats, LayoutFits, LayoutNats DEF GroupsFit, Dirs
  <1>3. RootIno \in Nat \ {0} /\ LostFoundIno \in Nat \ {0}
        /\ GroupOfInode(RootIno) = 0 /\ GroupOfInode(LostFoundIno) = 0
    BY LayoutFits, LayoutNats DEF GroupsFit, GroupOfInode
  <1>4. ASSUME NEW h \in Groups PROVE Cardinality(DirsOf(h)) = gud[h]
    <2>1. gud[h] = UsedDirsOf(h)
      BY <1>1, GroupsHaveSlots
    <2>2. CASE h = 0
      <3>1. DirsOf(h) = {RootIno} \cup {LostFoundIno}
        BY <1>2, <1>3, <2>2, InodeInGroup DEF DirsOf
      <3>2. Cardinality({RootIno} \cup {LostFoundIno}) = 2
        <4>1. IsFiniteSet({RootIno}) /\ Cardinality({RootIno}) = 1
          BY FS_Singleton
        <4>2. LostFoundIno \notin {RootIno}
          BY <1>2
        <4> QED
          BY <4>1, <4>2, FS_AddElement
      <3> QED
        BY <2>1, <2>2, <3>1, <3>2 DEF UsedDirsOf
    <2>3. CASE h # 0
      <3>1. DirsOf(h) = {}
        BY <1>2, <1>3, <2>3, InodeInGroup DEF DirsOf
      <3> QED
        BY <2>1, <2>3, <3>1, FS_EmptySet DEF UsedDirsOf
    <2> QED
      BY <2>2, <2>3
  <1>5. \A h \in Groups : Pending(h) = 0 /\ gud[h] \in Int
    BY <1>1, GroupsHaveSlots DEF Pending, UsedDirsOf
  <1> QED
    BY <1>1, <1>4, <1>5 DEF CountedDirs

-----------------------------------------------------------------------------
(* The copies that df_ext2_flush_meta writes, group after group.           *)

\* Copy c says what the counters in memory say.
CopyOf(c) == /\ sb[c] = [blocks |-> free_blocks, inodes |-> free_inodes]
             /\ \A h \in Groups : gdt[c][h] = Descriptor(h)

\* How far df_ext2_flush_meta has come: before a request all copies are those
\* of memory, while it is flushed those before the cursor.
Flushed ==
    /\ pc \in {"idle", "resolve"} => \A c \in Groups : CopyOf(c)
    /\ pc = "parent" => g = 0
    /\ pc \in {"parent", "sb"} => t = 0
    /\ pc \in {"sb", "gdt"} => \A c \in Groups : c < g => CopyOf(c)
    /\ pc = "gdt" => /\ sb[g] = [blocks |-> free_blocks, inodes |-> free_inodes]
                     /\ \A h \in Groups : h \div DPB < t => gdt[g][h] = Descriptor(h)

LEMMA FlushedInit == Init => Flushed
  <1> SUFFICES ASSUME Init PROVE \A c \in Groups : CopyOf(c)
    BY DEF Init, Flushed
  <1> QED
    BY DEF Init, CopyOf, Descriptor

LEMMA DescriptorAt ==
    ASSUME NEW h \in Groups PROVE h \div DPB \in 0 .. GD - 1
  <1>1. h \in Nat /\ h < GD * DPB
    BY LayoutNats, LayoutFits DEF Groups, GroupsFit
  <1> QED
    BY <1>1, LayoutNats, DivBound

LEMMA GdtWritten ==
    ASSUME Sound, Flushed, FlushGdt, NEW k \in Groups, k = g
    PROVE  /\ pc = "gdt" /\ UNCHANGED <<mem, bbmp, ibmp, sb>>
           /\ \A c \in Groups : c # k => gdt'[c] = gdt[c]
           /\ \A h \in Groups :
                  gdt'[k][h] = IF h \div DPB = t THEN Descriptor(h) ELSE gdt[k][h]
           /\ \A h \in Groups : h \div DPB < t + 1 => gdt'[k][h] = Descriptor(h)
           /\ t + 1 >= GD => \A h \in Groups : gdt'[k][h] = Descriptor(h)
  <1>1. /\ pc = "gdt" /\ UNCHANGED <<mem, bbmp, ibmp, sb>>
        /\ gdt' = [gdt EXCEPT ![k] = [h \in Groups |->
                      IF h \in DescriptorsIn(t) THEN Descriptor(h) ELSE gdt[k][h]]]
    BY DEF FlushGdt
  <1>2. /\ gdt \in [Groups -> [Groups -> [blocks : Int, inodes : Int, dirs : Int]]]
        /\ t \in 0 .. GD - 1
    BY DEF Sound, TypeInv, TypeOK, DiskTypes, ControlTypes
  <1>3. \A c \in Groups : c # k => gdt'[c] = gdt[c]
    BY <1>1, <1>2
  <1>4. \A h \in Groups : gdt'[k][h] = IF h \div DPB = t THEN Descriptor(h) ELSE gdt[k][h]
    BY <1>1, <1>2 DEF DescriptorsIn
  <1>5. ASSUME NEW h \in Groups, h \div DPB < t + 1 PROVE gdt'[k][h] = Descriptor(h)
    <2>1. h \div DPB = t \/ h \div DPB < t
      <3>1. PICK q \in Int : q = h \div DPB
        BY DescriptorAt
      <3>2. PICK n \in Int : n = t
        BY <1>2
      <3>3. q < n + 1
        BY <1>5, <3>1, <3>2
      <3>4. q = n \/ q < n
        BY <3>3
      <3> QED
        BY <3>1, <3>2, <3>4
    <2>2. h \div DPB < t => gdt[k][h] = Descriptor(h)
      BY <1>1 DEF Flushed
    <2> QED
      BY <1>4, <2>1, <2>2
  <1>6. t + 1 >= GD => \A h \in Groups : h \div DPB < t + 1
    BY <1>2, DescriptorAt, LayoutNats
  <1> QED
    BY <1>1, <1>3, <1>4, <1>5, <1>6

LEMMA FlushedStep ==
    ASSUME Sound, Flushed, [Next]_vars
    PROVE  Flushed'
  <1> USE DEF Sound
  <1>1. g \in Groups /\ t \in 0 .. GD - 1
        /\ sb \in [Groups -> [blocks : Int, inodes : Int]]
    BY DEF TypeInv, TypeOK, ControlTypes, DiskTypes
  <1>2. PICK k \in Groups : k = g
    BY <1>1
  <1>3. PICK super : super = [blocks |-> free_blocks, inodes |-> free_inodes]
    OBVIOUS
  <1>4. CASE FlushSuper
    <2>1. /\ pc = "sb" /\ pc' = "gdt" /\ UNCHANGED <<mem, gdt, g, t>>
          /\ sb' = [sb EXCEPT ![k] = super]
      BY <1>2, <1>3, <1>4 DEF FlushSuper, Goto
    <2>2. sb'[k] = super /\ \A c \in Groups : c # k => sb'[c] = sb[c]
      BY <1>1, <2>1
    <2>3. t = 0 /\ \A c \in Groups : c < k => CopyOf(c)
      BY <1>2, <2>1 DEF Flushed
    <2>4. ASSUME NEW c \in Groups, c < k PROVE CopyOf(c)'
      <3>1. c # k
        BY <1>2, <2>4, LayoutNats DEF Groups
      <3> QED
        BY <2>1, <2>2, <2>3, <2>4, <3>1 DEF CopyOf, Descriptor, mem
    <2>5. \A h \in Groups : ~(h \div DPB < t')
      BY <2>1, <2>3, DescriptorAt
    <2> QED
      BY <1>2, <1>3, <2>1, <2>2, <2>4, <2>5 DEF Flushed, mem
  <1>5. CASE FlushGdt
    <2>1. /\ pc = "gdt" /\ UNCHANGED <<mem, bbmp, ibmp, sb>>
          /\ \A c \in Groups : c # k => gdt'[c] = gdt[c]
          /\ \A h \in Groups : h \div DPB < t + 1 => gdt'[k][h] = Descriptor(h)
          /\ t + 1 >= GD => \A h \in Groups : gdt'[k][h] = Descriptor(h)
      BY <1>2, <1>5, GdtWritten
    <2>2. /\ sb[k] = super /\ \A c \in Groups : c < k => CopyOf(c)
      BY <1>2, <1>3, <2>1 DEF Flushed
    <2>3. \A h \in Groups : Descriptor(h)' = Descriptor(h)
      BY <2>1 DEF Descriptor, mem
    <2>4. ASSUME NEW c \in Groups, c < k PROVE CopyOf(c)'
      <3>1. c # k
        BY <1>2, <2>4, LayoutNats DEF Groups
      <3> QED
        BY <2>1, <2>2, <2>3, <2>4, <3>1 DEF CopyOf, mem
    <2>5. t + 1 >= GD => CopyOf(k)'
      BY <1>3, <2>1, <2>2, <2>3 DEF CopyOf, mem
    <2>6. CASE GdtLeft
      <3>1. t' = t + 1 /\ g' = g /\ pc' = pc
        BY <1>5, <2>6 DEF FlushGdt
      <3> QED
        BY <1>2, <1>3, <2>1, <2>2, <2>3, <2>4, <3>1 DEF Flushed, mem
    <2>7. CASE ~GdtLeft
      <3>1. t + 1 >= GD /\ t' = 0
        BY <1>1, <1>5, <2>7, LayoutNats DEF FlushGdt, GdtLeft
      <3>2. \A c \in Groups : c < k + 1 => CopyOf(c)'
        <4> TAKE c \in Groups
        <4>1. c < k + 1 => c < k \/ c = k
          BY LayoutNats DEF Groups
        <4> QED
          BY <2>4, <2>5, <3>1, <4>1
      <3>3. CASE k + 1 < G
        <4>1. g' = k + 1 /\ pc' = "sb"
          BY <1>2, <1>5, <2>7, <3>3 DEF FlushGdt, Goto
        <4> QED
          BY <3>1, <3>2, <4>1 DEF Flushed
      <3>4. CASE ~(k + 1 < G)
        <4>1. \A c \in Groups : c < k + 1
          BY <3>4, LayoutNats DEF Groups
        <4>2. pc' \in {"resolve", "idle"}
          BY <1>2, <1>5, <2>7, <3>4 DEF FlushGdt, Return, Answer, Goto
        <4> QED
          BY <3>2, <4>1, <4>2 DEF Flushed
      <3> QED
        BY <3>3, <3>4
    <2> QED
      BY <2>6, <2>7
  <1>6. CASE Link \/ CountParent
    <2>1. pc' \in {"parent", "sb", "failed"} /\ g' = 0 /\ t' = 0
      BY <1>6 DEF Link, CountParent, AfterLink, Goto, Fail, Flushed
    <2>2. \A c \in Groups : ~(c < 0)
      BY LayoutNats DEF Groups
    <2> QED
      BY <2>1, <2>2 DEF Flushed
  <1>7. CASE ~FlushSuper /\ ~FlushGdt /\ ~Link /\ ~CountParent
    <2>1. UNCHANGED <<sb, gdt, g, t>>
      BY <1>7 DEF Next, Work, Begin, Descend, NameRoot, LastDir, LastLeaf, Stray, AllocInode,
         AllocBlock, NoBlockLeft, Put, WriteInode, Stop, Finish, Over, vars, disk
    <2>2. \/ pc' \notin {"idle", "resolve", "parent", "sb", "gdt"}
          \/ UNCHANGED <<pc, mem>>
          \/ pc \in {"idle", "resolve"} /\ pc' \in {"idle", "resolve"} /\ UNCHANGED mem
      BY <1>7 DEF Next, Work, Begin, Descend, NameRoot, LastDir, LastLeaf, Stray, AllocInode,
         AllocBlock, NoBlockLeft, Put, WriteInode, Stop, Finish, Over, Make, MakeDir, Answer,
         Goto, Fail, vars
    <2>3. UNCHANGED mem => \A c \in Groups : CopyOf(c)' <=> CopyOf(c)
      BY <2>1 DEF CopyOf, Descriptor, mem
    <2> QED
      BY <2>1, <2>2, <2>3 DEF Flushed, Descriptor, mem
  <1> QED
    BY <1>4, <1>5, <1>6, <1>7

LEMMA CopyFields ==
    ASSUME NEW c \in Groups, CopyOf(c)
    PROVE  /\ sb[c].blocks = free_blocks /\ sb[c].inodes = free_inodes
           /\ \A h \in Groups : gdt[c][h].blocks = gfb[h] /\ gdt[c][h].inodes = gfi[h]
  <1>1. \A h \in Groups : Descriptor(h).blocks = gfb[h] /\ Descriptor(h).inodes = gfi[h]
    BY DEF Descriptor
  <1>2. \A h \in Groups : gdt[c][h] = Descriptor(h)
    BY DEF CopyOf
  <1>3. sb[c].blocks = free_blocks /\ sb[c].inodes = free_inodes
    BY DEF CopyOf
  <1> QED
    BY <1>1, <1>2, <1>3

\* No copy claims less free space than the bitmaps show.
CopiesCover ==
    \A c \in Groups :
        /\ sb[c].blocks >= Cardinality(Blocks \ bbmp)
        /\ \A h \in Groups : gdt[c][h].blocks >= FreeBits(h)
                             /\ gdt[c][h].inodes >= FreeInodeBits(h)

\* While inodes last every copy but the one being written is of one moment.
CopiesAgree ==
    InTable => \A c \in Groups :
        \/ \E S \in SUBSET Blocks, I \in SUBSET Inodes : Describes(c, S, I)
        \/ c = g /\ pc \in {"gdt", "failed"}

LEMMA FreeTypes ==
    /\ Cardinality(Blocks \ bbmp) \in Nat /\ Cardinality(Inodes \ ibmp) \in Nat
    /\ \A h \in Groups : FreeBits(h) \in Nat /\ FreeInodeBits(h) \in Nat
  <1>1. IsFiniteSet(Blocks \ bbmp) /\ IsFiniteSet(Inodes \ ibmp)
    BY Finite, FS_Difference
  <1>2. \A h \in Groups : IsFiniteSet(GroupBlocks(h) \ bbmp) /\ IsFiniteSet(GroupInodes(h) \ ibmp)
    BY GroupsFinite, FS_Difference
  <1> QED
    BY <1>1, <1>2, FS_CardinalityType DEF FreeBits, FreeInodeBits

\* Bits are only ever set.
LEMMA FreeShrinks ==
    ASSUME [Next]_vars
    PROVE  /\ Cardinality(Blocks \ bbmp') \in Nat
           /\ Cardinality(Blocks \ bbmp') <= Cardinality(Blocks \ bbmp)
           /\ \A h \in Groups : /\ FreeBits(h)' \in Nat /\ FreeInodeBits(h)' \in Nat
                                /\ FreeBits(h)' <= FreeBits(h)
                                /\ FreeInodeBits(h)' <= FreeInodeBits(h)
  <1>1. bbmp \subseteq bbmp' /\ ibmp \subseteq ibmp'
    BY DEF Next, Work, Begin, Descend, NameRoot, LastDir, LastLeaf, Stray, AllocInode,
       AllocBlock, NoBlockLeft, Put, WriteInode, Link, CountParent, FlushSuper, FlushGdt, Stop,
       Finish, Over, MarkBlock, MarkInode, vars, disk
  <1>2. ASSUME NEW S, IsFiniteSet(S), NEW T, NEW U, T \subseteq U
        PROVE  Cardinality(S \ U) \in Nat /\ Cardinality(S \ U) <= Cardinality(S \ T)
    <2>1. IsFiniteSet(S \ T) /\ S \ U \in SUBSET (S \ T)
      BY <1>2, FS_Difference
    <2> QED
      BY <2>1, FS_Subset, FS_CardinalityType
  <1> QED
    BY <1>1, <1>2, Finite, GroupsFinite DEF FreeBits, FreeInodeBits

LEMMA CoverInit == Init => CopiesCover
  <1> SUFFICES ASSUME Init, NEW c \in Groups
               PROVE  /\ sb[c].blocks >= Cardinality(Blocks \ bbmp)
                      /\ \A h \in Groups : gdt[c][h].blocks >= FreeBits(h)
                                           /\ gdt[c][h].inodes >= FreeInodeBits(h)
    BY DEF CopiesCover
  <1>1. Live /\ pc = "idle"
    BY DEF Init, Live
  <1>2. free_blocks = Cardinality(Blocks \ bbmp) /\ \A h \in Groups : gfb[h] = FreeBits(h)
    BY <1>1, CountedBlocksInit DEF CountedBlocks
  <1>3. \A h \in Groups : gfi[h] = FreeInodeBits(h)
    BY <1>1, CountedInodesInit DEF CountedInodes
  <1>4. CopyOf(c)
    BY <1>1, FlushedInit DEF Flushed
  <1> QED
    BY <1>2, <1>3, <1>4, CopyFields, FreeTypes

LEMMA CoverStep ==
    ASSUME Sound, CountedBlocks, CountedInodes, Flushed, CopiesCover, [Next]_vars
    PROVE  CopiesCover'
  <1> USE DEF Sound
  <1>1. /\ sb \in [Groups -> [blocks : Int, inodes : Int]]
        /\ gdt \in [Groups -> [Groups -> [blocks : Int, inodes : Int, dirs : Int]]]
        /\ g \in Groups
    BY DEF TypeInv, TypeOK, DiskTypes, ControlTypes
  <1>2. PICK k \in Groups : k = g
    BY <1>1
  <1> SUFFICES ASSUME NEW c \in Groups
               PROVE  /\ sb'[c].blocks >= Cardinality(Blocks \ bbmp')
                      /\ \A h \in Groups : gdt'[c][h].blocks >= FreeBits(h)'
                                           /\ gdt'[c][h].inodes >= FreeInodeBits(h)'
    BY DEF CopiesCover
  <1>3. /\ sb[c].blocks >= Cardinality(Blocks \ bbmp) /\ sb[c].blocks \in Int
        /\ \A h \in Groups : /\ gdt[c][h].blocks >= FreeBits(h) /\ gdt[c][h].blocks \in Int
                             /\ gdt[c][h].inodes >= FreeInodeBits(h) /\ gdt[c][h].inodes \in Int
    BY <1>1 DEF CopiesCover
  <1>4. CASE FlushSuper
    <2>1. /\ pc = "sb" /\ UNCHANGED <<gdt, bbmp, ibmp>>
          /\ sb' = [sb EXCEPT ![k] = [blocks |-> free_blocks, inodes |-> free_inodes]]
      BY <1>2, <1>4 DEF FlushSuper
    <2>2. sb'[c].blocks = IF c = k THEN free_blocks ELSE sb[c].blocks
      BY <1>1, <2>1
    <2>3. free_blocks = Cardinality(Blocks \ bbmp)
      BY <2>1 DEF CountedBlocks, Live
    <2>4. sb'[c].blocks >= Cardinality(Blocks \ bbmp')
      BY <1>3, <2>1, <2>2, <2>3, FreeTypes
    <2>5. \A h \in Groups : FreeBits(h)' = FreeBits(h) /\ FreeInodeBits(h)' = FreeInodeBits(h)
      BY <2>1 DEF FreeBits, FreeInodeBits
    <2> QED
      BY <1>3, <2>1, <2>4, <2>5
  <1>5. CASE FlushGdt
    <2>1. /\ pc = "gdt" /\ UNCHANGED <<mem, bbmp, ibmp, sb>>
          /\ c # k => gdt'[c] = gdt[c]
          /\ \A h \in Groups :
                 gdt'[k][h] = IF h \div DPB = t THEN Descriptor(h) ELSE gdt[k][h]
      BY <1>2, <1>5, GdtWritten
    <2>2. \A h \in Groups : gfb[h] = FreeBits(h) /\ gfi[h] = FreeInodeBits(h)
      BY <2>1 DEF CountedBlocks, CountedInodes, Live
    <2>3. ASSUME NEW h \in Groups
          PROVE  gdt'[c][h].blocks >= FreeBits(h) /\ gdt'[c][h].inodes >= FreeInodeBits(h)
      <3>1. Descriptor(h).blocks = FreeBits(h) /\ Descriptor(h).inodes = FreeInodeBits(h)
        BY <2>2 DEF Descriptor
      <3>2. gdt'[c][h] = Descriptor(h) \/ gdt'[c][h] = gdt[c][h]
        BY <2>1
      <3> QED
        BY <1>3, <3>1, <3>2, FreeTypes
    <2> QED
      BY <1>3, <2>1, <2>3 DEF FreeBits, FreeInodeBits
  <1>6. CASE ~FlushSuper /\ ~FlushGdt
    <2>1. sb' = sb /\ gdt' = gdt
      BY <1>6 DEF Next, Work, Begin, Descend, NameRoot, LastDir, LastLeaf, Stray, AllocInode,
         AllocBlock, NoBlockLeft, Put, WriteInode, Link, CountParent, Stop, Finish, Over, vars,
         disk
    <2>2. /\ Cardinality(Blocks \ bbmp') \in Nat
          /\ Cardinality(Blocks \ bbmp') <= Cardinality(Blocks \ bbmp)
          /\ Cardinality(Blocks \ bbmp) \in Nat
      BY FreeShrinks, FreeTypes
    <2>3. sb'[c].blocks >= Cardinality(Blocks \ bbmp')
      BY <1>3, <2>1, <2>2
    <2>4. ASSUME NEW h \in Groups
          PROVE  gdt'[c][h].blocks >= FreeBits(h)' /\ gdt'[c][h].inodes >= FreeInodeBits(h)'
      <3>1. /\ FreeBits(h)' \in Nat /\ FreeInodeBits(h)' \in Nat
            /\ FreeBits(h)' <= FreeBits(h) /\ FreeInodeBits(h)' <= FreeInodeBits(h)
            /\ FreeBits(h) \in Nat /\ FreeInodeBits(h) \in Nat
        BY FreeShrinks, FreeTypes
      <3> QED
        BY <1>3, <2>1, <3>1
    <2> QED
      BY <2>3, <2>4
  <1> QED
    BY <1>4, <1>5, <1>6

\* A copy of what is in memory describes the bitmaps.
LEMMA CopyDescribes ==
    ASSUME CountedBlocks, CountedInodes, Live, InTable, NEW c \in Groups, CopyOf(c)
    PROVE  Describes(c, Blocks \ bbmp, Inodes \ ibmp)
  <1>1. \A h \in Groups : /\ GroupBlocks(h) \cap (Blocks \ bbmp) = GroupBlocks(h) \ bbmp
                          /\ GroupInodes(h) \cap (Inodes \ ibmp) = GroupInodes(h) \ ibmp
    BY DEF GroupBlocks, GroupInodes
  <1>2. /\ free_blocks = Cardinality(Blocks \ bbmp) /\ free_inodes = Cardinality(Inodes \ ibmp)
        /\ \A h \in Groups : gfb[h] = FreeBits(h) /\ gfi[h] = FreeInodeBits(h)
    BY DEF CountedBlocks, CountedInodes
  <1> QED
    BY <1>1, <1>2, CopyFields DEF Describes, FreeBits, FreeInodeBits

LEMMA AgreeInit == Init => CopiesAgree
  <1> SUFFICES ASSUME Init, InTable, NEW c \in Groups
               PROVE  \E S \in SUBSET Blocks, I \in SUBSET Inodes : Describes(c, S, I)
    BY DEF CopiesAgree
  <1>1. pc = "idle" /\ Live
    BY DEF Init, Live
  <1>2. CopyOf(c)
    BY <1>1, FlushedInit DEF Flushed
  <1>3. Describes(c, Blocks \ bbmp, Inodes \ ibmp)
    BY <1>1, <1>2, CountedBlocksInit, CountedInodesInit, CopyDescribes
  <1>4. Blocks \ bbmp \in SUBSET Blocks /\ Inodes \ ibmp \in SUBSET Inodes
    OBVIOUS
  <1> QED
    BY <1>3, <1>4

LEMMA InTableStep == ASSUME Sound, [Next]_vars, InTable' PROVE InTable
  <1>1. next_ino' = next_ino \/ next_ino' = next_ino + 1
    BY DEF Next, Work, Begin, Descend, NameRoot, LastDir, LastLeaf, Stray, AllocInode,
       AllocBlock, NoBlockLeft, Put, WriteInode, Link, CountParent, FlushSuper, FlushGdt, Stop,
       Finish, Over, mem, vars
  <1>2. next_ino \in Nat /\ IPG * G \in Nat
    BY LayoutNats DEF Sound, TypeInv, TypeOK, MemTypes
  <1> QED
    BY <1>1, <1>2 DEF InTable

LEMMA AgreeStep ==
    ASSUME Sound, CountedBlocks, CountedInodes, Flushed, CopiesAgree, [Next]_vars
    PROVE  CopiesAgree'
  <1> USE DEF Sound
  <1>1. /\ sb \in [Groups -> [blocks : Int, inodes : Int]]
        /\ gdt \in [Groups -> [Groups -> [blocks : Int, inodes : Int, dirs : Int]]]
        /\ g \in Groups
    BY DEF TypeInv, TypeOK, DiskTypes, ControlTypes
  <1>2. PICK k \in Groups : k = g
    BY <1>1
  <1> SUFFICES ASSUME InTable', NEW c \in Groups, ~(c = g' /\ pc' \in {"gdt", "failed"})
               PROVE  \E S \in SUBSET Blocks, I \in SUBSET Inodes : Describes(c, S, I)'
    BY DEF CopiesAgree
  <1>3. InTable
    BY InTableStep
  <1>4. ASSUME NEW S \in SUBSET Blocks, NEW I \in SUBSET Inodes, Describes(c, S, I),
               sb'[c] = sb[c], gdt'[c] = gdt[c]
        PROVE  \E U \in SUBSET Blocks, J \in SUBSET Inodes : Describes(c, U, J)'
    <2>1. Describes(c, S, I)'
      BY <1>4 DEF Describes
    <2> QED
      BY <2>1
  <1>5. CASE FlushGdt /\ c = k
    <2>1. t + 1 >= GD
      <3>1. ~GdtLeft
        BY <1>2, <1>5 DEF FlushGdt
      <3> QED
        BY <3>1, LayoutNats DEF GdtLeft, TypeInv, TypeOK, ControlTypes
    <2>2. /\ pc = "gdt" /\ UNCHANGED <<mem, bbmp, ibmp, sb>>
          /\ \A h \in Groups : gdt'[k][h] = Descriptor(h)
      BY <1>2, <1>5, <2>1, GdtWritten
    <2>3. sb[k] = [blocks |-> free_blocks, inodes |-> free_inodes]
      BY <1>2, <2>2 DEF Flushed
    <2>4. PICK S \in SUBSET Blocks, I \in SUBSET Inodes : S = Blocks \ bbmp /\ I = Inodes \ ibmp
      OBVIOUS
    <2>5. \A h \in Groups : /\ GroupBlocks(h) \cap S = GroupBlocks(h) \ bbmp
                            /\ GroupInodes(h) \cap I = GroupInodes(h) \ ibmp
      BY <2>4 DEF GroupBlocks, GroupInodes
    <2>6. /\ free_blocks = Cardinality(S) /\ free_inodes = Cardinality(I)
          /\ \A h \in Groups : /\ gfb[h] = Cardinality(GroupBlocks(h) \cap S)
                               /\ gfi[h] = Cardinality(GroupInodes(h) \cap I)
      BY <1>3, <2>2, <2>4, <2>5 DEF CountedBlocks, CountedInodes, Live, FreeBits, FreeInodeBits
    <2>8. sb'[c].blocks = free_blocks /\ sb'[c].inodes = free_inodes
      BY <1>5, <2>2, <2>3
    <2>9. \A h \in Groups : gdt'[c][h].blocks = gfb[h] /\ gdt'[c][h].inodes = gfi[h]
      <3>1. \A h \in Groups : Descriptor(h).blocks = gfb[h] /\ Descriptor(h).inodes = gfi[h]
        BY DEF Descriptor
      <3> QED
        BY <1>5, <2>2, <3>1
    <2>7. Describes(c, S, I)'
      BY <2>6, <2>8, <2>9 DEF Describes
    <2> QED
      BY <2>7
  <1>6. CASE ~(FlushGdt /\ c = k)
    <2>1. sb'[c] = sb[c] /\ gdt'[c] = gdt[c]
      <3>1. CASE FlushSuper
        <4>1. c # k
          BY <1>2, <3>1 DEF FlushSuper, Goto
        <4> QED
          BY <1>1, <1>2, <3>1, <4>1 DEF FlushSuper
      <3>2. CASE FlushGdt
        BY <1>2, <1>6, <3>2, GdtWritten
      <3> QED
        BY <3>1, <3>2 DEF Next, Work, Begin, Descend, NameRoot, LastDir, LastLeaf, Stray,
           AllocInode, AllocBlock, NoBlockLeft, Put, WriteInode, Link, CountParent, Stop,
           Finish, Over, vars, disk
    <2>2. ~(c = g /\ pc \in {"gdt", "failed"})
      <3>1. CASE FlushGdt
        BY <1>2, <1>6, <3>1 DEF FlushGdt
      <3>2. CASE ~FlushGdt /\ pc \in {"gdt", "failed"}
        <4>1. g' = g /\ pc' \in {"gdt", "failed"}
          BY <3>2 DEF Next, Work, Begin, Descend, NameRoot, LastDir, LastLeaf, Stray,
             AllocInode, AllocBlock, NoBlockLeft, Put, WriteInode, Link, CountParent,
             FlushSuper, Stop, Fail, Goto, Finish, Over, vars
        <4> QED
          BY <4>1
      <3> QED
        BY <3>1, <3>2
    <2>3. PICK S \in SUBSET Blocks, I \in SUBSET Inodes : Describes(c, S, I)
      BY <1>3, <2>2 DEF CopiesAgree
    <2> QED
      BY <1>4, <2>1, <2>3
  <1> QED
    BY <1>5, <1>6

-----------------------------------------------------------------------------
(* The inductive invariant and what follows from it.                       *)

\* All that is known of the blocks, the inodes, the names and the counters.
Blocked == PointersShallow /\ BuffersFit /\ Accounted
NamedWell == InodesMarked /\ NamedOnce /\ ParentOlder /\ ParentsNamed /\ LinksCounted
Counted == CountedBlocks /\ CountedInodes /\ CountedDirs
Copied == Flushed /\ CopiesCover /\ CopiesAgree
Clean == Sound /\ Hidden /\ Complete /\ Blocked /\ NamedWell /\ Counted /\ Copied

LEMMA CleanInit == Init => Clean
  <1>1. Init => Sound /\ Hidden /\ Complete
    BY InitTypes, OwnInit, InodesBelowInit, HiddenInit, InodesReadyInit, BackedInit,
       DirectoriesInit DEF Init, Writing, Sound, Complete
  <1>2. Init => Blocked
    BY ShallowInit, FitInit, AccountedInit DEF Blocked
  <1>3. Init => NamedWell
    BY MarkedInit, NamesInit, LinksInit DEF NamedWell
  <1>4. Init => Counted /\ Copied
    BY CountedBlocksInit, CountedInodesInit, CountedDirsInit, FlushedInit, CoverInit, AgreeInit
       DEF Counted, Copied
  <1> QED
    BY <1>1, <1>2, <1>3, <1>4 DEF Clean

LEMMA CleanStep == ASSUME Clean, [Next]_vars PROVE Clean'
  <1>1. /\ Sound /\ Unwritten /\ Unnamed /\ InodesReady /\ BlocksBacked /\ BuffersBacked
        /\ DirInProgress /\ Directories /\ PointersShallow /\ BuffersFit /\ Accounted
        /\ InodesMarked /\ NamedOnce /\ ParentOlder /\ ParentsNamed /\ LinksCounted
        /\ CountedBlocks /\ CountedInodes /\ CountedDirs /\ Flushed /\ CopiesCover /\ CopiesAgree
    BY DEF Clean, Hidden, Complete, Blocked, NamedWell, Counted, Copied
  <1>2. Sound' /\ Hidden'
    BY <1>1, SoundStep, UnwrittenStep, UnnamedStep DEF Hidden
  <1>3. Complete'
    BY <1>1, InodesReadyStep, BackedStep, DirInProgressStep, DirectoriesStep DEF Complete
  <1>4. Blocked'
    BY <1>1, ShallowStep, FitStep, AccountedStep DEF Blocked
  <1>5. NamedWell'
    BY <1>1, MarkedStep, NamedStep, ParentOlderStep, ParentsNamedStep, LinksStep DEF NamedWell
  <1>6. Counted'
    BY <1>1, CountedBlocksStep, CountedInodesStep, CountedDirsStep DEF Counted
  <1>7. Copied'
    BY <1>1, FlushedStep, CoverStep, AgreeStep DEF Copied
  <1> QED
    BY <1>2, <1>3, <1>4, <1>5, <1>6, <1>7 DEF Clean

LEMMA AlwaysClean == Spec => []Clean
  <1>1. Init => Clean
    BY CleanInit
  <1>2. Clean /\ [Next]_vars => Clean'
    BY CleanStep
  <1> QED
    BY <1>1, <1>2, PTL DEF Spec

LEMMA CleanAtIdle == Clean => CleanWhenIdle
  <1> SUFFICES ASSUME Clean, pc = "idle", next_ino <= IPG * G + 1
               PROVE  BitmapsExact /\ NamesExact /\ CountersExact
    BY DEF CleanWhenIdle
  <1> USE DEF Clean, Blocked, NamedWell, Counted, Copied
  <1>1. Live /\ InTable
    BY DEF Live, InTable
  <1>2. BitmapsExact
    <2>1. Held = {}
      BY <1>1 DEF BuffersFit, Making
    <2>2. bbmp = MetaBlocks \cup TailPadding \cup UNION {Reach(i) : i \in Used}
      BY <1>1, <2>1, BitmapReached
    <2>3. ibmp = (1 .. LostFoundIno) \cup Used
      BY <1>1 DEF InodesMarked
    <2> QED
      BY <2>2, <2>3 DEF BitmapsExact
  <1>3. NamesExact
    <2>1. \A i \in Used \ {RootIno} : \E e \in Named(i) : Named(i) = {e} /\ e[1] < i
      BY <1>1 DEF NamedOnce
    <2>2. ASSUME NEW d \in Dirs
          PROVE  EntriesOf(d)[2].ino \in
                     IF d = RootIno THEN {RootIno} ELSE {e[1] : e \in Named(d)}
      BY <1>1 DEF ParentsNamed
    <2>3. ASSUME NEW d \in Dirs PROVE inodes[d].links = 2 + Cardinality(Subdirs(d))
      <3>1. Lag(d) = 0
        BY <2>3 DEF LinksCounted
      <3>2. Cardinality(Subdirs(d)) \in Nat /\ inodes[d].links \in Nat
        BY <2>3, LagType DEF Sound
      <3> QED
        BY <3>1, <3>2 DEF Lag
    <2> QED
      BY <2>1, <2>2, <2>3 DEF NamesExact
  <1>4. CountersExact
    <2> SUFFICES ASSUME NEW c \in Groups, NEW h \in Groups
                 PROVE  /\ sb[c] = [blocks |-> MapThenSumSet(FreeBits, Groups),
                                    inodes |-> MapThenSumSet(FreeInodeBits, Groups)]
                        /\ gdt[c][h] = [blocks |-> FreeBits(h), inodes |-> FreeInodeBits(h),
                                        dirs |-> Cardinality(Dirs \cap GroupInodes(h))]
      BY DEF CountersExact
    <2>1. CopyOf(c)
      BY DEF Flushed
    <2>2. /\ free_blocks = MapThenSumSet(FreeBits, Groups)
          /\ free_inodes = MapThenSumSet(FreeInodeBits, Groups)
      BY <1>1, FreeBlocksAre, FreeInodesAre DEF CountedBlocks, CountedInodes
    <2>3. gfb[h] = FreeBits(h) /\ gfi[h] = FreeInodeBits(h)
      BY <1>1 DEF CountedBlocks, CountedInodes
    <2>4. gud[h] = Cardinality(Dirs \cap GroupInodes(h))
      <3>1. Pending(h) = 0
        BY DEF Pending
      <3>2. gud[h] \in Int
        BY GroupsHaveSlots DEF Sound, TypeInv, TypeOK, MemTypes
      <3>3. Cardinality(DirsOf(h)) = gud[h] + Pending(h)
        BY <1>1 DEF CountedDirs
      <3> QED
        BY <3>1, <3>2, <3>3 DEF DirsOf
    <2> QED
      BY <2>1, <2>2, <2>3, <2>4 DEF CopyOf, Descriptor
  <1> QED
    BY <1>2, <1>3, <1>4

\* After every request that df_ext2_write_mem, _mkdir_p, _symlink_p or
\* _untar_mem has answered, e2fsck has nothing to say while inodes last: the
\* bitmaps mark exactly what is reachable, names and "..", counts of links and
\* all copies of the free and directory counters are exact.
THEOREM CleanAlways == Spec => []CleanWhenIdle
  <1>1. Clean => CleanWhenIdle
    BY CleanAtIdle
  <1> QED
    BY <1>1, AlwaysClean, PTL

\* Wherever a run stops, no copy of the counters that df_ext2_flush_meta wrote
\* claims less free space than the bitmaps show: the allocators mark first.
THEOREM CountersCover == Spec => []CountersCoverBitmaps
  <1>1. Clean => CountersCoverBitmaps
    BY FreeBlocksAre DEF Clean, Copied, CopiesCover, CountersCoverBitmaps
  <1> QED
    BY <1>1, AlwaysClean, PTL

LEMMA AgreeingAreWhole == Clean => OneTornCopyAtMost
  <1> SUFFICES ASSUME Clean, InTable PROVE Cardinality({c \in Groups : ~Whole(c)}) <= 1
    BY DEF OneTornCopyAtMost, InTable
  <1>1. ASSUME NEW c \in Groups, ~Whole(c) PROVE c = g
    <2>1. ASSUME NEW S \in SUBSET Blocks, NEW I \in SUBSET Inodes, Describes(c, S, I)
          PROVE  FALSE
      BY <1>1, <2>1, DescribesWhole
    <2> QED
      BY <2>1 DEF Clean, Copied, CopiesAgree
  <1>2. PICK torn : torn = {c \in Groups : ~Whole(c)}
    OBVIOUS
  <1>3. torn \in SUBSET {g}
    BY <1>1, <1>2
  <1>4. IsFiniteSet({g}) /\ Cardinality({g}) = 1
    BY FS_Singleton
  <1>5. Cardinality(torn) <= 1
    BY <1>3, <1>4, FS_Subset
  <1> QED
    BY <1>2, <1>5

\* Wherever a run stops while inodes last, df_ext2_flush_meta has left the
\* superblock and descriptors of all groups but one at most in agreement: it
\* writes a copy whole before it begins the next.
THEOREM OneTornAtMost == Spec => []OneTornCopyAtMost
  <1>1. Clean => OneTornCopyAtMost
    BY AgreeingAreWhole
  <1> QED
    BY <1>1, AlwaysClean, PTL
=============================================================================
