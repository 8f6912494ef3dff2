-------------------------- MODULE NativeBoot_proofs --------------------------
(***************************************************************************)
(* For every disk, ESP and pair of files: no write of a native install     *)
(* leaves the part of the disk that is its operation's, and so the table   *)
(* written first survives everything after it.                             *)
(***************************************************************************)
EXTENDS NativeBootProps, SequenceTheorems, TLAPS

-----------------------------------------------------------------------------
(* Arithmetic.                                                             *)

\* Multiplication by a natural number.
LEMMA Times ==
    ASSUME NEW a \in Int, NEW b \in Int, NEW k \in Nat, a <= b
    PROVE  a * k \in Int /\ b * k \in Int /\ a * k <= b * k
  OBVIOUS

\* Division leaves a rest below the divisor.
LEMMA Quotient ==
    ASSUME NEW a \in Int, NEW k \in Nat \ {0}
    PROVE  /\ a \div k \in Int
           /\ (a \div k) * k \in Int
           /\ (a \div k) * k <= a
           /\ a <= (a \div k) * k + k - 1
           /\ a \in Nat => a \div k \in Nat
  <1>1. a = (a \div k) * k + (a % k) /\ a \div k \in Int /\ a % k \in 0 .. k - 1
    OBVIOUS
  <1>2. a \in Nat => a \div k \in Nat
    OBVIOUS
  <1>3. (a \div k) * k \in Int
    BY <1>1
  <1>4. QED
    BY <1>1, <1>2, <1>3

\* Counting in batches of k does not overshoot.
LEMMA Batches ==
    ASSUME NEW a \in Nat, NEW k \in Nat \ {0}, NEW b \in Nat \ {0}, b <= a \div k + 1
    PROVE  (b - 1) * k \in Nat /\ (b - 1) * k <= a
  <1> DEFINE q == a \div k
  <1>1. q \in Int /\ q * k \in Int /\ q * k <= a /\ b <= q + 1
    BY Quotient
  <1> HIDE DEF q
  <1>2. (b - 1) * k <= q * k /\ 0 * k <= (b - 1) * k /\ (b - 1) * k \in Int
    BY <1>1, Times
  <1>3. QED
    BY <1>1, <1>2

LEMMA Rounded ==
    ASSUME NEW a \in Nat \ {0}, NEW k \in Nat \ {0}
    PROVE  (a + k - 1) \div k = (a - 1) \div k + 1
  <1> DEFINE p == (a + k - 1) \div k
             q == (a - 1) \div k
  <1>1. p * k <= a + k - 1 /\ a + k - 1 <= p * k + k - 1 /\ p \in Int /\ p * k \in Int
    BY Quotient
  <1>2. q * k <= a - 1 /\ a - 1 <= q * k + k - 1 /\ q \in Int /\ q * k \in Int
    BY Quotient
  <1>3. ASSUME p <= q PROVE FALSE
    <2>1. p * k <= q * k
      BY <1>1, <1>2, <1>3, Times
    <2>2. QED
      BY <1>1, <1>2, <2>1
  <1>4. ASSUME q + 2 <= p PROVE FALSE
    <2>1. (q + 2) * k <= p * k
      BY <1>1, <1>2, <1>4, Times
    <2>2. (q + 2) * k = q * k + 2 * k
      BY <1>2
    <2>3. QED
      BY <1>1, <1>2, <2>1, <2>2
  <1>5. QED
    BY <1>1, <1>2, <1>3, <1>4

-----------------------------------------------------------------------------
(* The volume.                                                             *)

\* A volume that fills lo .. hi, whose FATs have an entry for every cluster.
VolumeIn(v, lo, hi) ==
    /\ v.abs = lo /\ lo \in Nat /\ hi \in Nat
    /\ v.fatsz \in Nat /\ v.root_start = Reserved + 2 * v.fatsz
    /\ v.coc \in Nat /\ v.coc > 5
    /\ lo + v.root_start + v.coc - 1 = hi
    /\ v.fatsz * PerSector \in Nat /\ v.coc + 2 <= v.fatsz * PerSector
    /\ v.nfree \in 6 .. v.coc + 2

\* For every partition that df_format_esp accepts, the FAT that df_fat32_fatsz
\* makes has an entry for every cluster, more than the directories take, and
\* the volume ends where the partition does.
THEOREM FatCoversClusters ==
    ASSUME NEW lo \in Nat, NEW total \in Int, Formats(Geometry(lo, total))
    PROVE  VolumeIn(Geometry(lo, total), lo, lo + total - 1)
  <1> DEFINE k == PerSector + 1
             a == total - Reserved + PerSector
             q == a \div k
             coc == total - (Reserved + 2 * q)
  <1>1. /\ k \in Nat \ {0} /\ a \in Int /\ Reserved \in Nat /\ PerSector \in Nat /\ PerSector > 5
        /\ MinClusters \in Nat /\ MinClusters > PerSector
    BY FatSizes
  <1>2. q \in Int /\ q * k \in Int /\ q * k <= a /\ a <= q * k + k - 1
    <2> HIDE DEF a, k
    <2>1. QED
      BY <1>1, Quotient
  <1>3. coc \in Int /\ coc >= MinClusters
    BY <1>1, <1>2 DEF Formats, Geometry, Esp, df_fat32_fatsz
  <1>4. q * k = q * PerSector + q /\ q * PerSector \in Int
    BY <1>1, <1>2
  <1>5. coc + q <= q * PerSector
    <2> HIDE DEF q
    <2>1. QED
      BY <1>1, <1>2, <1>3, <1>4
  <1>6. ASSUME q <= 1 PROVE FALSE
    <2>1. q * (PerSector - 1) = q * PerSector - q
      BY <1>1, <1>2
    <2>2. q * (PerSector - 1) <= 1 * (PerSector - 1)
      BY <1>1, <1>2, <1>6, Times
    <2>3. QED
      BY <1>1, <1>2, <1>3, <1>4, <1>5, <2>1, <2>2
  <1>7. q \in Nat /\ coc + 2 <= q * PerSector /\ coc > 5
    BY <1>1, <1>2, <1>3, <1>4, <1>5, <1>6
  <1>8. /\ Geometry(lo, total).abs = lo /\ Geometry(lo, total).fatsz = q
        /\ Geometry(lo, total).root_start = Reserved + 2 * q
        /\ Geometry(lo, total).coc = coc /\ Geometry(lo, total).nfree = 6
    BY DEF Geometry, Esp, df_fat32_fatsz
  <1> HIDE DEF q, coc, a
  <1>9. coc = total - (Reserved + 2 * q)
    BY DEF coc
  <1>10. lo + total - 1 \in Nat
    BY <1>1, <1>7, <1>9
  <1>11. QED
    BY <1>1, <1>2, <1>3, <1>4, <1>7, <1>8, <1>9, <1>10 DEF VolumeIn
-----------------------------------------------------------------------------
(* Sequences of writes.                                                    *)

\* A write within lo .. hi, and a sequence of such writes.
In(w, lo, hi) ==
    /\ w.lba \in Int /\ Len(w.sectors) \in Nat
    /\ lo <= w.lba /\ w.lba + Len(w.sectors) - 1 <= hi
Confined(s, lo, hi) == s \in Seq(ToSet(s)) /\ \A w \in ToSet(s) : In(w, lo, hi)

LEMMA WriteIn ==
    ASSUME NEW lba \in Int, NEW sectors, Len(sectors) \in Nat,
           NEW lo \in Int, NEW hi \in Int, lo <= lba, lba + Len(sectors) - 1 <= hi
    PROVE  In(Write(lba, sectors), lo, hi)
  BY DEF In, Write

\* A sector alone.
LEMMA SectorIn ==
    ASSUME NEW lba \in Int, NEW sector, NEW lo \in Int, NEW hi \in Int, lo <= lba, lba <= hi
    PROVE  In(Write(lba, <<sector>>), lo, hi)
  <1>1. Len(<<sector>>) = 1
    OBVIOUS
  <1> DEFINE one == <<sector>>
  <1>2. Len(one) \in Nat /\ lba + Len(one) - 1 <= hi
    BY <1>1
  <1> HIDE DEF one
  <1>3. In(Write(lba, one), lo, hi)
    BY <1>2, WriteIn
  <1>4. QED
    BY <1>3 DEF one

\* A sequence is confined when it is one of confined writes.
LEMMA ConfinedSeq ==
    ASSUME NEW S, NEW s \in Seq(S), NEW lo, NEW hi, \A w \in S : In(w, lo, hi)
    PROVE  Confined(s, lo, hi)
  <1>1. \A i \in 1 .. Len(s) : s[i] \in S /\ s[i] \in ToSet(s)
    BY DEF ToSet
  <1>2. s \in Seq(ToSet(s))
    BY <1>1
  <1>3. \A w \in ToSet(s) : w \in S
    BY <1>1 DEF ToSet
  <1>4. QED
    BY <1>2, <1>3 DEF Confined

LEMMA NothingConfined ==
    ASSUME NEW lo, NEW hi
    PROVE  Confined(<<>>, lo, hi)
  BY DEF Confined, ToSet

LEMMA ConcatConfined ==
    ASSUME NEW s, NEW t, NEW lo, NEW hi, Confined(s, lo, hi), Confined(t, lo, hi)
    PROVE  Confined(s \o t, lo, hi)
  <1> DEFINE S == ToSet(s) \cup ToSet(t)
  <1>1. s \in Seq(S) /\ t \in Seq(S)
    BY DEF Confined
  <1>2. s \o t \in Seq(S)
    BY <1>1, ConcatProperties
  <1>3. \A w \in S : In(w, lo, hi)
    BY DEF Confined
  <1> HIDE DEF S
  <1>4. QED
    BY <1>2, <1>3, ConfinedSeq

LEMMA TailConfined ==
    ASSUME NEW s, NEW lo, NEW hi, Confined(s, lo, hi), s # <<>>
    PROVE  In(Head(s), lo, hi) /\ Confined(Tail(s), lo, hi)
  <1> DEFINE S == ToSet(s)
  <1>1. s \in Seq(S) /\ \A w \in S : In(w, lo, hi)
    BY DEF Confined
  <1> HIDE DEF S
  <1>2. Head(s) \in S /\ Tail(s) \in Seq(S)
    BY <1>1, HeadTailProperties
  <1>3. QED
    BY <1>1, <1>2, ConfinedSeq

LEMMA FunctionConfined ==
    ASSUME NEW n \in Nat, NEW s, s = [b \in 1 .. n |-> s[b]], NEW lo, NEW hi,
           \A b \in 1 .. n : In(s[b], lo, hi)
    PROVE  Confined(s, lo, hi)
  <1> DEFINE S == {s[b] : b \in 1 .. n}
  <1>1. s \in Seq(S)
    OBVIOUS
  <1>2. \A w \in S : In(w, lo, hi)
    OBVIOUS
  <1> HIDE DEF S
  <1>3. QED
    BY <1>1, <1>2, ConfinedSeq

LEMMA PairConfined ==
    ASSUME NEW v, NEW w, NEW lo, NEW hi, In(v, lo, hi), In(w, lo, hi)
    PROVE  Confined(<<v, w>>, lo, hi)
  <1> DEFINE S == {v, w}
             s == <<v, w>>
  <1>1. s \in Seq(S) /\ \A x \in S : In(x, lo, hi)
    OBVIOUS
  <1> HIDE DEF S, s
  <1>2. Confined(s, lo, hi)
    BY <1>1, ConfinedSeq
  <1>3. QED
    BY <1>2 DEF s

LEMMA SingleConfined ==
    ASSUME NEW w, NEW lo, NEW hi, In(w, lo, hi)
    PROVE  Confined(<<w>>, lo, hi)
  <1> DEFINE S == {w}
             s == <<w>>
  <1>1. s \in Seq(S) /\ \A x \in S : In(x, lo, hi)
    OBVIOUS
  <1> HIDE DEF S, s
  <1>2. Confined(s, lo, hi)
    BY <1>1, ConfinedSeq
  <1>3. QED
    BY <1>2 DEF s

LEMMA SixConfined ==
    ASSUME NEW u, NEW v, NEW w, NEW x, NEW y, NEW z, NEW lo, NEW hi,
           In(u, lo, hi), In(v, lo, hi), In(w, lo, hi),
           In(x, lo, hi), In(y, lo, hi), In(z, lo, hi)
    PROVE  Confined(<<u, v, w, x, y, z>>, lo, hi)
  <1> DEFINE S == {u, v, w, x, y, z}
             s == <<u, v, w, x, y, z>>
  <1>1. s \in Seq(S) /\ \A r \in S : In(r, lo, hi)
    OBVIOUS
  <1> HIDE DEF S, s
  <1>2. Confined(s, lo, hi)
    BY <1>1, ConfinedSeq
  <1>3. QED
    BY <1>2 DEF s
-----------------------------------------------------------------------------
(* What df_format_esp and df_stage_file write.                             *)

LEMMA SmallerOf ==
    ASSUME NEW a \in Nat, NEW b \in Nat
    PROVE  Smaller(a, b) \in Nat /\ Smaller(a, b) <= b
  BY DEF Smaller

LEMMA ZerosConfined ==
    ASSUME NEW v, NEW lo, NEW hi, VolumeIn(v, lo, hi)
    PROVE  Confined(ZeroWrites(v), lo, hi)
  <1> DEFINE root == v.root_start
             n == root \div Batch + 1
  <1>1. Batch \in Nat \ {0} /\ root \in Nat /\ lo + root <= hi
        /\ v.abs = lo /\ lo \in Nat /\ hi \in Nat
    BY FatSizes DEF VolumeIn
  <1>2. ZeroWrites(v) = [b \in 1 .. n |->
            Write(lo + (b - 1) * Batch, Zeros(Smaller(Batch, root - (b - 1) * Batch + 1)))]
    BY <1>1 DEF ZeroWrites
  <1> HIDE DEF root
  <1>3. n \in Nat
    BY <1>1, Quotient
  <1>4. ASSUME NEW b \in 1 .. n PROVE In(ZeroWrites(v)[b], lo, hi)
    <2> DEFINE zs == (b - 1) * Batch
               room == root - zs + 1
               len == Smaller(Batch, room)
               sectors == Zeros(len)
               lba == lo + zs
    <2>1. zs \in Nat /\ zs <= root
      <3>1. b \in Nat \ {0} /\ b <= root \div Batch + 1
        BY <1>3
      <3>2. QED
        BY <1>1, <3>1, Batches
    <2>2. ZeroWrites(v)[b] = Write(lba, sectors)
      BY <1>2
    <2> HIDE DEF zs
    <2>3. room \in Nat /\ lba \in Int /\ lo <= lba /\ lba + room - 1 <= hi
      BY <1>1, <2>1
    <2> HIDE DEF room, lba
    <2>4. len \in Nat /\ len <= room
      BY <1>1, <2>3, SmallerOf
    <2> HIDE DEF len
    <2>5. Len(sectors) = len
      BY <2>4 DEF Zeros
    <2> HIDE DEF sectors
    <2>6. Len(sectors) \in Nat /\ lba + Len(sectors) - 1 <= hi
      BY <1>1, <2>3, <2>4, <2>5
    <2>7. lba \in Int /\ lo \in Int /\ hi \in Int /\ lo <= lba
      BY <1>1, <2>3
    <2>8. In(Write(lba, sectors), lo, hi)
      BY <2>6, <2>7, WriteIn
    <2>9. QED
      BY <2>2, <2>8
  <1> HIDE DEF n
  <1>5. ZeroWrites(v) = [b \in 1 .. n |-> ZeroWrites(v)[b]]
    BY <1>2
  <1>6. QED
    BY <1>3, <1>4, <1>5, FunctionConfined

LEMMA InfoConfined ==
    ASSUME NEW v, NEW lo, NEW hi, VolumeIn(v, lo, hi), NEW nfree
    PROVE  Confined(InfoWrites(v, nfree), lo, hi)
  <1>1. /\ v.abs = lo /\ lo \in Int /\ hi \in Int
        /\ lo <= lo + 1 /\ lo + 1 <= hi /\ lo <= lo + 7 /\ lo + 7 <= hi
        /\ lo + 1 \in Int /\ lo + 7 \in Int
    BY FatSizes DEF VolumeIn
  <1>2. In(Write(v.abs + 1, <<Info(v, nfree)>>), lo, hi)
    BY <1>1, SectorIn
  <1>3. In(Write(v.abs + 7, <<Info(v, nfree)>>), lo, hi)
    BY <1>1, SectorIn
  <1>4. QED
    BY <1>2, <1>3, PairConfined DEF InfoWrites

LEMMA FormatConfined ==
    ASSUME NEW v, NEW lo, NEW hi, VolumeIn(v, lo, hi), NEW total
    PROVE  Confined(df_format_esp(v, total), lo, hi)
  <1> DEFINE boot == [is |-> "boot", total |-> total, fatsz |-> v.fatsz]
             fat == Fat([e \in 0 .. PerSector - 1 |-> IF e <= 5 THEN Eoc ELSE 0])
             boots == <<Write(v.abs, <<boot>>), Write(v.abs + 6, <<boot>>)>>
             w1 == Write(FatSector(v, 0, 0), <<fat>>)
             w2 == Write(FatSector(v, 1, 0), <<fat>>)
             w3 == Write(SectorOf(v, 2), <<Dir(<<Dirent("EFI", 3, 0), Dirent("BOOT", 5, 0)>>)>>)
             w4 == Write(SectorOf(v, 3), <<Dir(<<Dirent("BOOT", 4, 0)>>)>>)
             w5 == Write(SectorOf(v, 4), <<Dir(<<>>)>>)
             w6 == Write(SectorOf(v, 5), <<Dir(<<>>)>>)
             rest == <<w1, w2, w3, w4, w5, w6>>
  <1>1. /\ v.abs = lo /\ lo \in Int /\ hi \in Int /\ lo <= hi
        /\ lo <= lo + 6 /\ lo + 6 <= hi /\ lo + 6 \in Int
        /\ FatSector(v, 0, 0) \in lo .. hi /\ FatSector(v, 1, 0) \in lo .. hi
        /\ \A c \in 2 .. 5 : SectorOf(v, c) \in lo .. hi
    BY FatSizes DEF VolumeIn, FatSector, SectorOf
  <1>2. ASSUME NEW lba \in lo .. hi, NEW sector PROVE In(Write(lba, <<sector>>), lo, hi)
    <2>1. lba \in Int /\ lo \in Int /\ hi \in Int /\ lo <= lba /\ lba <= hi
      BY <1>1
    <2>2. QED
      BY <2>1, SectorIn
  <1>3. /\ In(Write(v.abs, <<boot>>), lo, hi) /\ In(Write(v.abs + 6, <<boot>>), lo, hi)
        /\ In(w1, lo, hi) /\ In(w2, lo, hi)
    <2> HIDE DEF boot, fat
    <2>1. v.abs \in lo .. hi /\ v.abs + 6 \in lo .. hi
      BY <1>1
    <2>2. QED
      BY <1>1, <1>2, <2>1
  <1>4. \A c \in 2 .. 5 : \A entries : In(Write(SectorOf(v, c), <<Dir(entries)>>), lo, hi)
    BY <1>1, <1>2
  <1>5. In(w3, lo, hi) /\ In(w4, lo, hi) /\ In(w5, lo, hi) /\ In(w6, lo, hi)
    BY <1>4
  <1> HIDE DEF w1, w2, w3, w4, w5, w6
  <1>6. Confined(boots, lo, hi)
    BY <1>3, PairConfined
  <1>7. Confined(rest, lo, hi)
    BY <1>3, <1>5, SixConfined
  <1>8. Confined(ZeroWrites(v), lo, hi) /\ Confined(InfoWrites(v, 6), lo, hi)
    BY ZerosConfined, InfoConfined
  <1>9. df_format_esp(v, total) = ZeroWrites(v) \o boots \o InfoWrites(v, 6) \o rest
    BY DEF df_format_esp, w1, w2, w3, w4, w5, w6
  <1> HIDE DEF boots, rest
  <1>10. Confined(ZeroWrites(v) \o boots, lo, hi)
    BY <1>6, <1>8, ConcatConfined
  <1>11. Confined(ZeroWrites(v) \o boots \o InfoWrites(v, 6), lo, hi)
    BY <1>8, <1>10, ConcatConfined
  <1>12. QED
    BY <1>7, <1>9, <1>11, ConcatConfined

LEMMA QuotientGrows ==
    ASSUME NEW a \in Nat, NEW b \in Nat, NEW k \in Nat \ {0}, a <= b
    PROVE  a \div k \in Nat /\ b \div k \in Nat /\ a \div k <= b \div k
  <1> DEFINE p == a \div k
             q == b \div k
  <1>1. /\ p \in Nat /\ p * k \in Int /\ p * k <= a
        /\ q \in Nat /\ q * k \in Int /\ b <= q * k + k - 1
    BY Quotient
  <1> HIDE DEF p, q
  <1>2. ASSUME q + 1 <= p PROVE FALSE
    <2>1. (q + 1) * k <= p * k
      BY <1>1, <1>2, Times
    <2>2. (q + 1) * k = q * k + k
      BY <1>1
    <2>3. QED
      BY <1>1, <2>1, <2>2
  <1>3. p <= q
    BY <1>1, <1>2
  <1>4. QED
    BY <1>1, <1>3 DEF p, q

\* The sector of a table with n * k entries that has entry a.
LEMMA QuotientBelow ==
    ASSUME NEW a \in Nat, NEW n \in Nat, NEW k \in Nat \ {0}, a + 1 <= n * k
    PROVE  a \div k \in Nat /\ a \div k + 1 <= n
  <1> DEFINE p == a \div k
  <1>1. p \in Nat /\ p * k \in Int /\ p * k <= a /\ n * k \in Int
    BY Quotient
  <1> HIDE DEF p
  <1>2. ASSUME n <= p PROVE FALSE
    <2>1. n * k <= p * k
      BY <1>1, <1>2, Times
    <2>2. QED
      BY <1>1, <2>1
  <1>3. QED
    BY <1>1, <1>2 DEF p

\* What there is to know of a file that fits: its clusters first .. last.
LEMMA FileFits ==
    ASSUME NEW v, NEW lo, NEW hi, VolumeIn(v, lo, hi), NEW size \in Nat, Fits(v, size)
    PROVE  /\ Clusters(size) \in Nat \ {0}
           /\ v.nfree \in 6 .. v.coc + 1
           /\ v.nfree + Clusters(size) <= v.coc + 2
  <1> DEFINE q == (size - 1) \div SectorSize
  <1>1. size \in Nat \ {0} /\ size - 1 \in Nat /\ SectorSize \in Nat \ {0}
        /\ v.nfree + Clusters(size) <= v.coc + 2 /\ v.coc \in Nat /\ v.nfree \in Nat /\ v.nfree > 5
    BY FatSizes DEF Fits, VolumeIn
  <1>2. q \in Nat
    <2> DEFINE a == size - 1
    <2>1. a \in Nat
      BY <1>1
    <2> HIDE DEF a
    <2>2. a \div SectorSize \in Nat
      BY <1>1, <2>1
    <2>3. QED
      BY <2>2 DEF a
  <1>3. Clusters(size) = q + 1
    BY <1>1, Rounded DEF Clusters
  <1> HIDE DEF q
  <1>4. QED
    BY <1>1, <1>2, <1>3

LEMMA BodyConfined ==
    ASSUME NEW v, NEW lo, NEW hi, VolumeIn(v, lo, hi), NEW nclus \in Nat \ {0},
           v.nfree + nclus <= v.coc + 2, NEW name
    PROVE  Confined(BodyWrites(v, name, nclus), lo, hi)
  <1> DEFINE s == BodyWrites(v, name, nclus)
             base == v.abs + v.root_start + v.nfree - 2
             n == (nclus - 1) \div Batch + 1
             Part(wi) == [c \in 1 .. Smaller(Batch, nclus - wi) |-> Data(name, wi + c)]
  <1>1. /\ Batch \in Nat \ {0} /\ base \in Int /\ lo <= base /\ base + nclus - 1 <= hi
        /\ lo \in Int /\ hi \in Int /\ nclus - 1 \in Nat
    BY FatSizes DEF VolumeIn
  <1>2. n \in Nat
    <2> DEFINE a == nclus - 1
    <2>1. a \in Nat
      BY <1>1
    <2> HIDE DEF a
    <2>2. a \div Batch \in Nat
      BY <1>1, <2>1
    <2>3. QED
      BY <2>2 DEF a
  <1>3. s = [b \in 1 .. n |-> Write(SectorOf(v, v.nfree + (b - 1) * Batch), Part((b - 1) * Batch))]
    <2>1. (nclus + Batch - 1) \div Batch = n
      BY <1>1, Rounded
    <2> HIDE DEF n
    <2>2. QED
      BY <2>1 DEF BodyWrites
  <1>4. ASSUME NEW b \in 1 .. n PROVE In(s[b], lo, hi)
    <2> DEFINE wi == (b - 1) * Batch
               room == nclus - wi
               len == Smaller(Batch, room)
               sectors == Part(wi)
               lba == SectorOf(v, v.nfree + wi)
    <2>1. wi \in Nat /\ wi <= nclus - 1
      <3>1. b \in Nat \ {0} /\ b <= (nclus - 1) \div Batch + 1
        BY <1>2
      <3>2. QED
        BY <1>1, <3>1, Batches
    <2>2. s[b] = Write(lba, sectors)
      BY <1>3
    <2> HIDE DEF wi, s
    <2>3. lba = base + wi
      <3>1. v.abs \in Int /\ v.root_start \in Int /\ v.nfree \in Int
        BY FatSizes DEF VolumeIn
      <3>2. QED
        BY <2>1, <3>1 DEF SectorOf
    <2> HIDE DEF base, lba
    <2>4. room \in Nat /\ lba \in Int /\ lo <= lba /\ lba + room - 1 <= hi
      BY <1>1, <2>1, <2>3
    <2>5. len \in Nat /\ len <= room
      <3> HIDE DEF room
      <3>1. QED
        BY <1>1, <2>4, SmallerOf
    <2>6. Len(sectors) = len
      <3>1. sectors = [c \in 1 .. len |-> Data(name, wi + c)]
        OBVIOUS
      <3> HIDE DEF len, sectors
      <3>2. QED
        BY <2>5, <3>1
    <2> HIDE DEF sectors, len, room
    <2>7. Len(sectors) \in Nat /\ lba + Len(sectors) - 1 <= hi
      BY <1>1, <2>4, <2>5, <2>6
    <2>8. In(Write(lba, sectors), lo, hi)
      BY <1>1, <2>4, <2>7, WriteIn
    <2>9. QED
      BY <2>2, <2>8
  <1>5. s = [b \in 1 .. n |-> s[b]]
    BY <1>3
  <1> HIDE DEF n, s
  <1>6. Confined(s, lo, hi)
    BY <1>2, <1>4, <1>5, FunctionConfined
  <1>7. QED
    BY <1>6 DEF s

LEMMA ChainConfined ==
    ASSUME NEW v, NEW lo, NEW hi, VolumeIn(v, lo, hi), NEW d,
           NEW first \in Nat, NEW last \in Nat, first <= last, last <= v.coc + 1
    PROVE  Confined(df_fat_write_chain(d, v, first, last), lo, hi)
  <1> DEFINE chain == df_fat_write_chain(d, v, first, last)
             from == first \div PerSector
             upto == last \div PerSector
             n == 2 * (upto - from + 1)
  <1>1. from \in Nat /\ upto \in Nat /\ from <= upto /\ upto + 1 <= v.fatsz
    <2>1. PerSector \in Nat \ {0} /\ v.fatsz \in Nat /\ last + 1 <= v.fatsz * PerSector
      BY FatSizes DEF VolumeIn
    <2>2. QED
      BY <2>1, QuotientGrows, QuotientBelow
  <1>2. chain = [w \in 1 .. n |->
            Write(FatSector(v, (w - 1) % 2, from + (w - 1) \div 2),
                  <<Chained(d[FatSector(v, 0, from + (w - 1) \div 2)],
                            from + (w - 1) \div 2, first, last)>>)]
    BY DEF df_fat_write_chain
  <1> HIDE DEF from, upto
  <1>3. n \in Nat
    BY <1>1
  <1>4. ASSUME NEW w \in 1 .. n PROVE In(chain[w], lo, hi)
    <2> DEFINE copy == (w - 1) % 2
               s == from + (w - 1) \div 2
               lba == FatSector(v, copy, s)
               sector == Chained(d[FatSector(v, 0, s)], s, first, last)
    <2>1. copy \in 0 .. 1 /\ s \in 0 .. upto
      BY <1>1
    <2>2. chain[w] = Write(lba, <<sector>>)
      BY <1>2
    <2> HIDE DEF copy, s
    <2>3. lba \in Int /\ lo <= lba /\ lba <= hi /\ lo \in Int /\ hi \in Int
      <3>1. copy * v.fatsz \in {0, v.fatsz}
        BY <2>1 DEF VolumeIn
      <3>2. QED
        BY <1>1, <2>1, <3>1, FatSizes DEF FatSector, VolumeIn
    <2> HIDE DEF lba, sector
    <2>4. In(Write(lba, <<sector>>), lo, hi)
      BY <2>3, SectorIn
    <2>5. QED
      BY <2>2, <2>4
  <1>5. chain = [w \in 1 .. n |-> chain[w]]
    BY <1>2
  <1> HIDE DEF chain, n
  <1>6. Confined(chain, lo, hi)
    BY <1>3, <1>4, <1>5, FunctionConfined
  <1>7. QED
    BY <1>6 DEF chain

LEMMA StageConfined ==
    ASSUME NEW v, NEW lo, NEW hi, VolumeIn(v, lo, hi), NEW size \in Nat, Fits(v, size),
           NEW d, NEW dir \in {4, 5}, NEW name
    PROVE  Confined(df_stage_file(d, v, dir, name, size), lo, hi)
  <1> DEFINE nclus == Clusters(size)
             first == v.nfree
             last == first + nclus - 1
             body == BodyWrites(v, name, nclus)
             chain == df_fat_write_chain(d, v, first, last)
             entry == Dir(<<Dirent(name, first, size)>>)
             names == <<Write(SectorOf(v, dir), <<entry>>)>>
             info == InfoWrites(v, AfterFile(v, size))
  <1>1. /\ nclus \in Nat \ {0} /\ first \in Nat /\ last \in Nat /\ first <= last
        /\ first + nclus <= v.coc + 2 /\ last <= v.coc + 1
    <2>1. v.coc \in Nat
      BY DEF VolumeIn
    <2>2. QED
      BY <2>1, FileFits
  <1>2. df_stage_file(d, v, dir, name, size) = body \o chain \o names \o info
    BY DEF df_stage_file
  <1> HIDE DEF nclus, last
  <1>3. Confined(body, lo, hi)
    BY <1>1, BodyConfined
  <1>4. Confined(chain, lo, hi)
    BY <1>1, ChainConfined
  <1>5. Confined(names, lo, hi)
    <2> DEFINE lba == SectorOf(v, dir)
    <2>1. lba \in Int /\ lo <= lba /\ lba <= hi /\ lo \in Int /\ hi \in Int
      BY FatSizes DEF VolumeIn, SectorOf
    <2> HIDE DEF lba, entry
    <2>2. In(Write(lba, <<entry>>), lo, hi)
      BY <2>1, SectorIn
    <2>3. QED
      BY <2>2, SingleConfined DEF lba
  <1>6. Confined(info, lo, hi)
    BY InfoConfined
  <1> HIDE DEF body, chain, names, info
  <1>7. Confined(body \o chain, lo, hi)
    BY <1>3, <1>4, ConcatConfined
  <1>8. Confined(body \o chain \o names, lo, hi)
    BY <1>5, <1>7, ConcatConfined
  <1>9. QED
    BY <1>2, <1>6, <1>8, ConcatConfined
-----------------------------------------------------------------------------
(* The inductive invariant.                                                *)

PartOf(op) == IF op = 3 THEN RootRange(job) ELSE EspRange(job)

\* What the first k writes of the table leave on the disk.
Laid(k) ==
    /\ k > 1 => disk[1] = df_hdr(N, Array(job))
    /\ k > 2 => \A s \in 1 .. ArrayLen : disk[1 + s] = Array(job)[s]
    /\ k > 3 => \A s \in 1 .. ArrayLen : disk[N - 2 - ArrayLen + s] = Array(job)[s]
    /\ k > 4 => disk[N - 1] = df_bhdr(N, Array(job))

\* All but the first k writes of the table are still to be made.
Left(k) == todo = [i \in 1 .. 5 - k |-> df_write_gpt(N, Array(job))[i + k]]

\* While the table is written.
Writing == \E k \in 0 .. 5 : Left(k) /\ (status = "running" => Laid(k) /\ Partitions(job))

\* What is to be written stays in the part of the operation, which is what the
\* geometry of the volume in the globals, and what was tested before, are for.
Written ==
    /\ Laid(5) /\ Partitions(job)
    /\ Confined(todo, PartOf(at).first, PartOf(at).last)
    /\ esp = Unformatted \/ VolumeIn(esp, EspRange(job).first, EspRange(job).last)
    /\ busy /\ at = 2 => Formats(Geometry(EspRange(job).first, Length(EspRange(job))))
    /\ busy /\ at = 4 => Fits(esp, job.boot)
    /\ busy /\ at = 5 => Fits(esp, job.kernel)

Inv ==
    /\ DOMAIN disk = LBAs /\ job \in Jobs /\ at \in 0 .. 5 /\ busy \in BOOLEAN
    /\ status = "running" /\ ~busy => todo = <<>>
    /\ at = 0 => ~busy /\ todo = <<>>
    /\ at <= 1 => esp = Unformatted
    /\ at = 1 => Writing
    /\ at > 1 => Written

LEMMA PlanIs ==
    /\ Len(Plan) = 5 /\ Plan[1] = "partition" /\ Plan[2] = "format ESP"
    /\ Plan[3] = "format root" /\ Plan[4] = "stage boot" /\ Plan[5] = "stage kernel"
  BY DEF Plan

LEMMA Sizes ==
    /\ N \in Nat /\ ArrayLen \in Nat \ {0} /\ N >= 4 + 2 * ArrayLen
    /\ FirstUsable = 2 + ArrayLen /\ LastUsable(N) = N - 2 - ArrayLen
    /\ MiB \in Nat /\ MiB >= 2 + ArrayLen
  BY DiskSize, ArrayLength, Bounds DEF FirstUsable, LastUsable

LEMMA ArrayShape ==
    ASSUME NEW j
    PROVE  /\ Array(j) = [s \in 1 .. ArrayLen |-> Array(j)[s]]
           /\ Len(Array(j)) = ArrayLen
           /\ Array(j)[1].esp = EspRange(j) /\ Array(j)[1].root = RootRange(j)
  <1> DEFINE entry == [is |-> "entries", esp |-> EspRange(j), root |-> RootRange(j)]
             e == <<entry>>
             z == Zeros(ArrayLen - 1)
             S == {entry, Zero}
  <1>1. entry.esp = EspRange(j) /\ entry.root = RootRange(j)
    OBVIOUS
  <1>2. Array(j) = e \o z
    BY DEF Array, Entries
  <1> HIDE DEF entry
  <1>3. e \in Seq(S) /\ Len(e) = 1 /\ e[1] = entry
    OBVIOUS
  <1>4. z \in Seq(S) /\ Len(z) = ArrayLen - 1
    BY Sizes DEF Zeros
  <1> HIDE DEF e, z, S
  <1> DEFINE t == e \o z
  <1>5. t \in Seq(S) /\ Len(t) = ArrayLen /\ t[1] = entry
    <2>1. t \in Seq(S) /\ Len(t) = Len(e) + Len(z)
      BY <1>3, <1>4, ConcatProperties
    <2>2. Len(t) = ArrayLen
      BY <1>3, <1>4, <2>1, Sizes
    <2>3. 1 \in 1 .. Len(e) + Len(z) /\ 1 <= Len(e)
      BY <1>3, <1>4, Sizes
    <2>4. t[1] = e[1]
      BY <1>3, <1>4, <2>3, ConcatProperties
    <2>5. QED
      BY <1>3, <2>1, <2>2, <2>4
  <1> HIDE DEF t
  <1>6. t = [s \in 1 .. Len(t) |-> t[s]]
    BY <1>5
  <1>7. QED
    BY <1>1, <1>2, <1>5, <1>6 DEF t

\* The parts of the disk a job that is accepted leaves.
LEMMA Ranges ==
    ASSUME NEW j \in Jobs
    PROVE  /\ j.esp * MiB \in Nat
           /\ EspRange(j).first = MiB /\ EspRange(j).last = MiB + j.esp * MiB - 1
           /\ RootRange(j).first = MiB + j.esp * MiB /\ RootRange(j).last = LastUsable(N)
           /\ Length(EspRange(j)) = j.esp * MiB
           /\ EspRange(j).last \in Int /\ LastUsable(N) \in Int
           /\ Partitions(j) => RootRange(j).first <= LastUsable(N)
  <1>1. j.esp \in Nat /\ MiB \in Nat
    BY JobTypes, Bounds
  <1>2. j.esp * MiB \in Nat
    BY <1>1
  <1> DEFINE len == j.esp * MiB
  <1>3. /\ EspRange(j).first = MiB /\ EspRange(j).last = MiB + len - 1
        /\ RootRange(j).last = LastUsable(N)
        /\ RootRange(j).first = EspRange(j).last + 1
    BY DEF EspRange, RootRange
  <1> HIDE DEF len
  <1>4. len \in Nat
    BY <1>2 DEF len
  <1>5. Length(EspRange(j)) = len
    BY <1>1, <1>3, <1>4 DEF Length
  <1>6. QED
    BY <1>1, <1>3, <1>4, <1>5, Sizes DEF Partitions, len

\* What the disk's second sector says once the array is there.
LEMMA ReadBack ==
    ASSUME Laid(5)
    PROVE  disk[2].esp = EspRange(job) /\ disk[2].root = RootRange(job)
  <1>1. disk[1 + 1] = Array(job)[1]
    BY Sizes DEF Laid
  <1>2. QED
    BY <1>1, ArrayShape

-----------------------------------------------------------------------------
(* What the invariant says of the properties.                              *)

LEMMA SurvivesInv == Inv => TableSurvives
  <1> SUFFICES ASSUME Inv, at > 1 PROVE \A lba \in {1, N - 1} :
                    CopyValid(disk, lba) /\ disk[lba].crc = Array(job)
    BY DEF TableSurvives
  <1> DEFINE array == Array(job)
  <1>1. /\ disk[1] = df_hdr(N, array) /\ disk[N - 1] = df_bhdr(N, array)
        /\ \A s \in 1 .. ArrayLen : disk[1 + s] = array[s]
        /\ \A s \in 1 .. ArrayLen : disk[N - 2 - ArrayLen + s] = array[s]
    BY DEF Inv, Written, Laid
  <1>2. array = [s \in 1 .. ArrayLen |-> array[s]]
    BY ArrayShape
  <1> HIDE DEF array
  <1>3. Sectors(disk, 2, ArrayLen) = array
    <2>1. \A s \in 1 .. ArrayLen : 2 + s - 1 = 1 + s
      BY Sizes
    <2>2. QED
      BY <1>1, <1>2, <2>1 DEF Sectors
  <1>4. Sectors(disk, N - 1 - ArrayLen, ArrayLen) = array
    <2>1. \A s \in 1 .. ArrayLen : N - 1 - ArrayLen + s - 1 = N - 2 - ArrayLen + s
      BY Sizes
    <2>2. QED
      BY <1>1, <1>2, <2>1 DEF Sectors
  <1>5. CopyValid(disk, 1) /\ disk[1].crc = array
    BY <1>1, <1>3 DEF CopyValid, df_hdr
  <1>6. CopyValid(disk, N - 1) /\ disk[N - 1].crc = array
    BY <1>1, <1>4 DEF CopyValid, df_bhdr
  <1>7. QED
    BY <1>5, <1>6 DEF array

\* The five writes of the table, and that none is between the partitions' bounds.
LEMMA TableWrites ==
    ASSUME NEW j
    PROVE  LET w == df_write_gpt(N, Array(j))
           IN  /\ w[1].lba = 0 /\ Len(w[1].sectors) = 1
               /\ w[2] = Write(1, <<df_hdr(N, Array(j))>>)
               /\ w[2].lba = 1 /\ Len(w[2].sectors) = 1
               /\ w[3] = Write(2, Array(j))
               /\ w[3].lba = 2 /\ Len(w[3].sectors) = ArrayLen
               /\ w[4] = Write(N - 1 - ArrayLen, Array(j))
               /\ w[4].lba = N - 1 - ArrayLen /\ Len(w[4].sectors) = ArrayLen
               /\ w[5] = Write(N - 1, <<df_bhdr(N, Array(j))>>)
               /\ w[5].lba = N - 1 /\ Len(w[5].sectors) = 1
  BY ArrayShape DEF df_write_gpt, Write

LEMMA TableOutside ==
    ASSUME NEW j, NEW i \in 1 .. 5
    PROVE  Extent(df_write_gpt(N, Array(j))[i]) \subseteq LBAs \ (FirstUsable .. LastUsable(N))
  <1> DEFINE g == df_write_gpt(N, Array(j))
             lba == g[i].lba
             len == Len(g[i].sectors)
  <1>1. /\ g[1].lba = 0 /\ Len(g[1].sectors) = 1
        /\ g[2].lba = 1 /\ Len(g[2].sectors) = 1
        /\ g[3].lba = 2 /\ Len(g[3].sectors) = ArrayLen
        /\ g[4].lba = N - 1 - ArrayLen /\ Len(g[4].sectors) = ArrayLen
        /\ g[5].lba = N - 1 /\ Len(g[5].sectors) = 1
    BY TableWrites
  <1> HIDE DEF g
  <1>2. lba \in Nat /\ len \in Nat /\ lba + len <= N
        /\ (lba + len <= 2 + ArrayLen \/ lba > N - 2 - ArrayLen)
    <2>1. i \in {1, 2, 3, 4, 5}
      OBVIOUS
    <2>2. \/ lba \in {0, 1} /\ len = 1
          \/ lba = 2 /\ len = ArrayLen
          \/ lba = N - 1 - ArrayLen /\ len = ArrayLen
          \/ lba = N - 1 /\ len = 1
      BY <1>1, <2>1
    <2> HIDE DEF lba, len
    <2>3. QED
      BY <2>2, Sizes
  <1>3. Extent(g[i]) = lba .. lba + len - 1
    BY DEF Extent
  <1> HIDE DEF lba, len
  <1>4. ASSUME NEW x \in lba .. lba + len - 1
        PROVE  x \in 0 .. N - 1 /\ x \notin 2 + ArrayLen .. N - 2 - ArrayLen
    BY <1>2, Sizes
  <1>5. QED
    BY <1>3, <1>4, Sizes DEF g, LBAs

LEMMA StaysInv == Inv => StaysInPartition
  <1> SUFFICES ASSUME Inv, NEW w \in ToSet(todo) PROVE Extent(w) \subseteq Allowed(Plan[at])
    BY DEF StaysInPartition
  <1>1. CASE at = 0
    BY <1>1 DEF Inv, ToSet
  <1>2. CASE at = 1
    <2>1. PICK k \in 0 .. 5 : Left(k)
      BY <1>2 DEF Inv, Writing
    <2>2. PICK i \in 1 .. 5 : w = df_write_gpt(N, Array(job))[i]
      <3>1. PICK i \in 1 .. 5 - k : w = df_write_gpt(N, Array(job))[i + k]
        BY <2>1 DEF Left, ToSet
      <3>2. i + k \in 1 .. 5
        OBVIOUS
      <3>3. QED
        BY <3>1, <3>2
    <2>3. QED
      BY <1>2, <2>2, TableOutside, PlanIs DEF Allowed
  <1>3. CASE at > 1
    <2>1. In(w, PartOf(at).first, PartOf(at).last) /\ Laid(5) /\ job \in Jobs /\ at \in 2 .. 5
      BY <1>3 DEF Inv, Written, Confined
    <2>2. PartOf(at).first \in Int /\ PartOf(at).last \in Int
      BY <2>1, Ranges, Sizes DEF PartOf
    <2>3. Extent(w) \subseteq PartOf(at).first .. PartOf(at).last
      BY <2>1, <2>2 DEF In, Extent
    <2>4. Allowed(Plan[at]) = PartOf(at).first .. PartOf(at).last
      <3>1. CASE at = 3
        BY <2>1, <3>1, ReadBack, PlanIs DEF Allowed, PartOf
      <3>2. CASE at \in {2, 4, 5}
        BY <2>1, <3>2, ReadBack, PlanIs DEF Allowed, PartOf
      <3>3. QED
        BY <2>1, <3>1, <3>2
    <2>5. QED
      BY <2>3, <2>4
  <1>4. QED
    BY <1>1, <1>2, <1>3 DEF Inv
-----------------------------------------------------------------------------
(* The steps.                                                              *)

LEMMA InitInv == Init => Inv
  <1> SUFFICES ASSUME Init PROVE Inv
    OBVIOUS
  <1>1. DOMAIN disk = LBAs
    BY DiskTypes DEF Init, LBAs
  <1>2. at = 0 /\ at \in 0 .. 5 /\ ~(at = 1) /\ ~(at > 1)
    BY DEF Init
  <1>3. QED
    BY <1>1, <1>2 DEF Init, Inv

\* A write changes its sectors and no other.
LEMMA Elsewhere ==
    ASSUME DOMAIN disk = LBAs, NEW w, NEW len, disk' = After(w, len)
    PROVE  /\ DOMAIN disk' = LBAs
           /\ \A x \in LBAs : x \notin w.lba .. w.lba + len - 1 => disk'[x] = disk[x]
           /\ \A x \in LBAs : x \in w.lba .. w.lba + len - 1 =>
                disk'[x] = w.sectors[x - w.lba + 1]
  BY DEF After

\* The parts are between the bounds the table leaves.
LEMMA PartBounds ==
    ASSUME job \in Jobs, Partitions(job), NEW w, In(w, PartOf(at).first, PartOf(at).last)
    PROVE  In(w, FirstUsable, LastUsable(N))
  <1>1. /\ PartOf(at).first \in Int /\ PartOf(at).last \in Int
        /\ FirstUsable <= PartOf(at).first /\ PartOf(at).last <= LastUsable(N)
    BY Ranges, Sizes DEF PartOf
  <1>2. QED
    BY <1>1, Sizes DEF In

\* Nothing that stays there touches the table.
LEMMA LaidKept ==
    ASSUME DOMAIN disk = LBAs, Laid(5), NEW w, In(w, FirstUsable, LastUsable(N)),
           NEW len \in Nat, len <= Len(w.sectors), disk' = After(w, len), job' = job
    PROVE  Laid(5)'
  <1>1. ASSUME NEW x \in LBAs, x < 2 + ArrayLen \/ x > N - 2 - ArrayLen
        PROVE  disk'[x] = disk[x]
    <2>1. x \in Int /\ x \notin w.lba .. w.lba + len - 1
      BY <1>1, Sizes, SMTT(30) DEF In, LBAs
    <2>2. QED
      BY <2>1, Elsewhere
  <1>2. /\ 1 \in LBAs /\ N - 1 \in LBAs /\ N - 1 > N - 2 - ArrayLen /\ 1 < 2 + ArrayLen
        /\ \A s \in 1 .. ArrayLen : 1 + s \in LBAs /\ 1 + s < 2 + ArrayLen
        /\ \A s \in 1 .. ArrayLen : N - 2 - ArrayLen + s \in LBAs
                                    /\ N - 2 - ArrayLen + s > N - 2 - ArrayLen
    BY Sizes DEF LBAs
  <1>3. /\ disk'[1] = disk[1] /\ disk'[N - 1] = disk[N - 1]
        /\ \A s \in 1 .. ArrayLen : disk'[1 + s] = disk[1 + s]
        /\ \A s \in 1 .. ArrayLen : disk'[N - 2 - ArrayLen + s] = disk[N - 2 - ArrayLen + s]
    BY <1>1, <1>2
  <1>4. QED
    BY <1>3 DEF Laid

\* One write of the table.
LEMMA LaidMore ==
    ASSUME DOMAIN disk = LBAs, NEW k \in 0 .. 4, Laid(k),
           disk' = After(df_write_gpt(N, Array(job))[k + 1],
                         Len(df_write_gpt(N, Array(job))[k + 1].sectors)),
           job' = job
    PROVE  Laid(k + 1)'
  <1> DEFINE array == Array(job)
             g == df_write_gpt(N, array)
  <1>1. /\ g[2] = Write(1, <<df_hdr(N, array)>>) /\ g[2].lba = 1 /\ Len(g[2].sectors) = 1
        /\ g[3] = Write(2, array) /\ g[3].lba = 2 /\ Len(g[3].sectors) = ArrayLen
        /\ g[4] = Write(N - 1 - ArrayLen, array)
        /\ g[4].lba = N - 1 - ArrayLen /\ Len(g[4].sectors) = ArrayLen
        /\ g[5] = Write(N - 1, <<df_bhdr(N, array)>>) /\ g[5].lba = N - 1 /\ Len(g[5].sectors) = 1
    BY TableWrites
  <1>2. /\ g[2].sectors[1] = df_hdr(N, array) /\ g[3].sectors = array
        /\ g[4].sectors = array /\ g[5].sectors[1] = df_bhdr(N, array)
    BY <1>1 DEF Write
  <1>3. disk' = After(g[k + 1], Len(g[k + 1].sectors)) /\ Array(job') = array
    OBVIOUS
  <1> HIDE DEF g, array
  <1>4. CASE k = 0
    BY <1>4 DEF Laid
  <1>5. CASE k = 1
    <2>1. disk' = After(g[2], 1)
      <3>1. k + 1 = 2
        BY <1>5
      <3>2. QED
        BY <1>1, <1>3, <3>1
    <2>2. 1 \in LBAs /\ 1 \in g[2].lba .. g[2].lba + 1 - 1 /\ 1 - g[2].lba + 1 = 1
      BY <1>1, Sizes DEF LBAs
    <2>3. disk'[1] = g[2].sectors[1]
      BY <2>1, <2>2, Elsewhere
    <2>4. QED
      BY <1>2, <1>3, <1>5, <2>3 DEF Laid, array
  <1>6. CASE k = 2
    <2>1. disk' = After(g[3], ArrayLen)
      BY <1>1, <1>3, <1>6
    <2>3. 1 \in LBAs /\ 1 \notin g[3].lba .. g[3].lba + ArrayLen - 1
      BY <1>1, Sizes, SMTT(30) DEF LBAs
    <2>4. disk'[1] = disk[1]
      BY <2>1, <2>3, Elsewhere
    <2>5. ASSUME NEW s \in 1 .. ArrayLen PROVE disk'[1 + s] = array[s]
      <3> DEFINE x == 1 + s
      <3>1. x \in LBAs /\ x \in g[3].lba .. g[3].lba + ArrayLen - 1 /\ x - g[3].lba + 1 = s
        BY <1>1, Sizes, SMTT(30) DEF LBAs
      <3> HIDE DEF x
      <3>2. disk'[x] = g[3].sectors[x - g[3].lba + 1]
        BY <2>1, <3>1, Elsewhere
      <3>3. QED
        BY <1>2, <3>1, <3>2 DEF x
    <2>6. QED
      BY <1>3, <1>6, <2>4, <2>5 DEF Laid, array
  <1>7. CASE k = 3
    <2>1. disk' = After(g[4], ArrayLen)
      BY <1>1, <1>3, <1>7
    <2>3. /\ 1 \in LBAs /\ 1 \notin g[4].lba .. g[4].lba + ArrayLen - 1
          /\ \A s \in 1 .. ArrayLen : 1 + s \in LBAs
                /\ 1 + s \notin g[4].lba .. g[4].lba + ArrayLen - 1
      BY <1>1, Sizes, SMTT(30) DEF LBAs
    <2>4. disk'[1] = disk[1] /\ \A s \in 1 .. ArrayLen : disk'[1 + s] = disk[1 + s]
      BY <2>1, <2>3, Elsewhere
    <2>5. ASSUME NEW s \in 1 .. ArrayLen PROVE disk'[N - 2 - ArrayLen + s] = array[s]
      <3> DEFINE x == N - 2 - ArrayLen + s
      <3>1. x \in LBAs /\ x \in g[4].lba .. g[4].lba + ArrayLen - 1 /\ x - g[4].lba + 1 = s
        BY <1>1, Sizes DEF LBAs
      <3> HIDE DEF x
      <3>2. disk'[x] = g[4].sectors[x - g[4].lba + 1]
        BY <2>1, <3>1, Elsewhere
      <3>3. QED
        BY <1>2, <3>1, <3>2 DEF x
    <2>6. QED
      BY <1>3, <1>7, <2>4, <2>5 DEF Laid, array
  <1>8. CASE k = 4
    <2>1. disk' = After(g[5], 1)
      <3>1. k + 1 = 5
        BY <1>8
      <3>2. QED
        BY <1>1, <1>3, <3>1
    <2>2. N - 1 \in LBAs /\ N - 1 \in g[5].lba .. g[5].lba + 1 - 1 /\ N - 1 - g[5].lba + 1 = 1
      BY <1>1, Sizes DEF LBAs
    <2>3. /\ 1 \in LBAs /\ 1 \notin g[5].lba .. g[5].lba + 1 - 1
          /\ \A s \in 1 .. ArrayLen : 1 + s \in LBAs /\ 1 + s \notin g[5].lba .. g[5].lba + 1 - 1
          /\ \A s \in 1 .. ArrayLen : N - 2 - ArrayLen + s \in LBAs
                /\ N - 2 - ArrayLen + s \notin g[5].lba .. g[5].lba + 1 - 1
      BY <1>1, Sizes DEF LBAs
    <2>4. /\ disk'[1] = disk[1] /\ \A s \in 1 .. ArrayLen : disk'[1 + s] = disk[1 + s]
          /\ \A s \in 1 .. ArrayLen :
                disk'[N - 2 - ArrayLen + s] = disk[N - 2 - ArrayLen + s]
      BY <2>1, <2>3, Elsewhere
    <2>5. disk'[N - 1] = g[5].sectors[1]
      BY <2>1, <2>2, Elsewhere
    <2>6. QED
      BY <1>2, <1>3, <1>8, <2>4, <2>5 DEF Laid, array
  <1>9. QED
    BY <1>4, <1>5, <1>6, <1>7, <1>8

\* No file fits before the ESP is formatted.
LEMMA NoneFits ==
    ASSUME NEW size \in Nat
    PROVE  ~Fits(Unformatted, size)
  <1> SUFFICES ASSUME Fits(Unformatted, size) PROVE FALSE
    OBVIOUS
  <1> DEFINE q == (size - 1) \div SectorSize
  <1>1. size \in Nat \ {0} /\ size - 1 \in Nat /\ SectorSize \in Nat \ {0}
        /\ 6 + Clusters(size) <= 0 + 2
    BY FatSizes DEF Fits, Unformatted, Esp
  <1>2. q \in Nat
    <2> DEFINE a == size - 1
    <2>1. a \in Nat
      BY <1>1
    <2> HIDE DEF a
    <2>2. a \div SectorSize \in Nat
      BY <1>1, <2>1
    <2>3. QED
      BY <2>2 DEF a
  <1>3. Clusters(size) = q + 1
    BY <1>1, Rounded DEF Clusters
  <1> HIDE DEF q
  <1>4. QED
    BY <1>1, <1>2, <1>3

LEMMA Ops ==
    /\ Writes("partition") = df_write_gpt(N, Array(job))
    /\ Writes("format ESP") = df_format_esp(NewEsp, Length(disk[2].esp))
    /\ Writes("format root") = <<Write(disk[2].root.first, Root(disk[2].root))>>
    /\ Writes("stage boot") = df_stage_file(disk, esp, 4, "BOOTX64.EFI", job.boot)
    /\ Writes("stage kernel") = df_stage_file(disk, esp, 5, "AGNOS", job.kernel)
  BY DEF Writes

\* What the operations after the first are about to write, and what of the
\* tests before them is kept.
LEMMA BeginInv == Inv /\ Begin => Inv'
  <1> SUFFICES ASSUME Inv, Begin PROVE Inv'
    OBVIOUS
  <1> DEFINE range == EspRange(job)
             v == Geometry(range.first, Length(range))
  <1>1. /\ at \in 0 .. 4 /\ at' = at + 1 /\ todo = <<>> /\ busy = FALSE /\ status = "running"
        /\ DOMAIN disk = LBAs /\ job \in Jobs
        /\ disk' = disk /\ job' = job /\ esp' = esp
    <2>1. status = "running" /\ busy = FALSE /\ todo = <<>>
      BY DEF Inv, Begin
    <2>2. at \in 0 .. 5 /\ at < 5 /\ at' = at + 1
      BY PlanIs DEF Inv, Begin
    <2>3. at \in 0 .. 4
      BY <2>2
    <2>4. DOMAIN disk = LBAs /\ job \in Jobs /\ disk' = disk /\ job' = job /\ esp' = esp
      BY DEF Inv, Begin
    <2>5. QED
      BY <2>1, <2>2, <2>3, <2>4
  <1>2. \/ Refused(Plan[at + 1]) /\ status' = "failed" /\ busy' = FALSE /\ todo' = <<>>
        \/ /\ ~Refused(Plan[at + 1]) /\ status' = "running" /\ busy' = TRUE
           /\ todo' = Writes(Plan[at + 1])
    BY <1>1 DEF Begin
  <1>3. CASE at = 0
    <2>1. esp = Unformatted /\ at' = 1
      BY <1>1, <1>3 DEF Inv
    <2>2. Writing'
      <3>1. CASE Refused(Plan[at + 1]) /\ status' = "failed" /\ todo' = <<>>
        <4>1. Left(5)'
          <5>1. \A F : <<>> = [i \in 1 .. 5 - 5 |-> F[i]]
            OBVIOUS
          <5>2. QED
            BY <3>1 DEF Left
        <4>2. QED
          BY <3>1, <4>1 DEF Writing
      <3>2. CASE ~Refused(Plan[at + 1]) /\ todo' = Writes(Plan[at + 1])
        <4>1. Partitions(job) /\ todo' = df_write_gpt(N, Array(job))
          <5>1. Plan[at + 1] = "partition"
            <6>1. at + 1 = 1
              BY <1>3
            <6>2. QED
              BY <6>1, PlanIs
          <5>2. QED
            BY <3>2, <5>1, Ops DEF Refused
        <4>2. Left(0)'
          BY <1>1, <4>1 DEF Left, df_write_gpt
        <4>3. Laid(0)' /\ Partitions(job')
          BY <1>1, <4>1 DEF Laid
        <4>4. QED
          BY <4>2, <4>3 DEF Writing
      <3>3. QED
        BY <1>2, <3>1, <3>2
    <2>3. at' \in 0 .. 5 /\ ~(at' = 0) /\ ~(at' > 1)
      BY <2>1
    <2>4. QED
      BY <1>1, <1>2, <2>1, <2>2, <2>3 DEF Inv
  <1>4. CASE at > 0
    <2>1. Laid(5) /\ Partitions(job)
      <3>1. CASE at = 1
        <4>1. PICK k \in 0 .. 5 : Left(k) /\ Laid(k) /\ Partitions(job)
          BY <1>1, <3>1 DEF Inv, Writing
        <4>2. k = 5
          <5>1. Len([i \in 1 .. 5 - k |-> df_write_gpt(N, Array(job))[i + k]]) = 5 - k
            OBVIOUS
          <5>2. QED
            BY <1>1, <4>1, <5>1 DEF Left
        <4>3. QED
          BY <4>1, <4>2
      <3>2. CASE at > 1
        BY <3>2 DEF Inv, Written
      <3>3. QED
        BY <1>1, <1>4, <3>1, <3>2
    <2>2. esp = Unformatted \/ VolumeIn(esp, range.first, range.last)
      BY <1>1, <1>4 DEF Inv, Written
    <2>3. /\ disk[2].esp = range /\ disk[2].root = RootRange(job) /\ NewEsp = v
          /\ range.first = MiB /\ MiB \in Nat /\ Length(range) \in Int
          /\ range.last = range.first + Length(range) - 1
      BY <1>1, <2>1, ReadBack, Ranges, Sizes DEF NewEsp
    <2> HIDE DEF range, v
    <2>4. /\ Confined(todo', PartOf(at + 1).first, PartOf(at + 1).last)
          /\ busy' /\ at + 1 = 2 => Formats(v)
          /\ busy' /\ at + 1 = 4 => Fits(esp, job.boot)
          /\ busy' /\ at + 1 = 5 => Fits(esp, job.kernel)
      <3>1. CASE busy' = FALSE /\ todo' = <<>>
        BY <3>1, NothingConfined
      <3>2. CASE ~Refused(Plan[at + 1]) /\ todo' = Writes(Plan[at + 1])
        <4>1. CASE at = 1
          <5>1. Formats(v) /\ todo' = df_format_esp(v, Length(range))
            <6>1. Plan[at + 1] = "format ESP"
              <7>1. at + 1 = 2
                BY <4>1
              <7>2. QED
                BY <7>1, PlanIs
            <6>2. QED
              BY <2>3, <3>2, <6>1, Ops DEF Refused
          <5>2. VolumeIn(v, range.first, range.last)
            <6>1. VolumeIn(Geometry(range.first, Length(range)),
                           range.first, range.first + Length(range) - 1)
              BY <2>3, <5>1, FatCoversClusters DEF v
            <6>2. QED
              BY <2>3, <6>1 DEF v
          <5>3. Confined(todo', range.first, range.last)
            BY <5>1, <5>2, FormatConfined
          <5>4. QED
            BY <4>1, <5>1, <5>3 DEF PartOf, range
        <4>2. CASE at = 2
          <5> DEFINE root == RootRange(job)
                     w == Write(root.first, Root(root))
          <5>1. todo' = <<w>>
            <6>1. Plan[at + 1] = "format root"
              <7>1. at + 1 = 3
                BY <4>2
              <7>2. QED
                BY <7>1, PlanIs
            <6>2. QED
              BY <2>3, <3>2, <6>1, Ops DEF Refused
          <5>2. root.first \in Nat /\ root.last \in Nat /\ root.first <= root.last
            BY <1>1, <2>1, Ranges, Sizes
          <5>3. Len(Root(root)) = Length(root) /\ Length(root) = root.last - root.first + 1
            BY <5>2 DEF Root, Length
          <5>4. In(w, root.first, root.last)
            BY <5>2, <5>3 DEF In, Write
          <5>5. Confined(todo', root.first, root.last)
            BY <5>1, <5>4, SingleConfined
          <5>6. QED
            BY <4>2, <5>5 DEF PartOf
        <4>3. CASE at = 3
          <5>1. Fits(esp, job.boot)
                /\ todo' = df_stage_file(disk, esp, 4, "BOOTX64.EFI", job.boot)
            <6>1. Plan[at + 1] = "stage boot"
              <7>1. at + 1 = 4
                BY <4>3
              <7>2. QED
                BY <7>1, PlanIs
            <6>2. QED
              BY <2>3, <3>2, <6>1, Ops DEF Refused
          <5>2. VolumeIn(esp, range.first, range.last) /\ job.boot \in Nat
            BY <1>1, <2>2, <5>1, JobTypes, NoneFits
          <5>3. Confined(todo', range.first, range.last)
            BY <5>1, <5>2, StageConfined
          <5>4. QED
            BY <4>3, <5>1, <5>3 DEF PartOf, range
        <4>4. CASE at = 4
          <5>1. Fits(esp, job.kernel)
                /\ todo' = df_stage_file(disk, esp, 5, "AGNOS", job.kernel)
            <6>1. Plan[at + 1] = "stage kernel"
              <7>1. at + 1 = 5
                BY <4>4
              <7>2. QED
                BY <7>1, PlanIs
            <6>2. QED
              BY <2>3, <3>2, <6>1, Ops DEF Refused
          <5>2. VolumeIn(esp, range.first, range.last) /\ job.kernel \in Nat
            BY <1>1, <2>2, <5>1, JobTypes, NoneFits
          <5>3. Confined(todo', range.first, range.last)
            BY <5>1, <5>2, StageConfined
          <5>4. QED
            BY <4>4, <5>1, <5>3 DEF PartOf, range
        <4>5. QED
          BY <1>1, <1>4, <4>1, <4>2, <4>3, <4>4
      <3>3. QED
        BY <1>2, <3>1, <3>2
    <2>5. Written'
      BY <1>1, <2>1, <2>2, <2>4 DEF Written, Laid, PartOf, range, v
    <2>6. at' \in 0 .. 5 /\ ~(at' = 0) /\ ~(at' <= 1) /\ ~(at' = 1)
      BY <1>1, <1>4
    <2>7. QED
      BY <1>1, <1>2, <2>5, <2>6 DEF Inv
  <1>5. QED
    BY <1>1, <1>3, <1>4

\* The first write of what is left of the table, and what is left then.
LEMMA LeftStep ==
    ASSUME NEW k \in 0 .. 5, Left(k), todo # <<>>
    PROVE  /\ k \in 0 .. 4 /\ Head(todo) = df_write_gpt(N, Array(job))[k + 1]
           /\ todo' = Tail(todo) /\ job' = job => Left(k + 1)'
  <1> DEFINE g == df_write_gpt(N, Array(job))
             S == {g[i + k] : i \in 1 .. 5 - k}
  <1>1. todo = [i \in 1 .. 5 - k |-> g[i + k]]
    BY DEF Left
  <1>2. g = df_write_gpt(N, Array(job)) /\ (job' = job => g = df_write_gpt(N, Array(job')))
    OBVIOUS
  <1> HIDE DEF g
  <1>3. todo \in Seq(S) /\ Len(todo) = 5 - k
    <2> DEFINE n == 5 - k
    <2>1. n \in Nat /\ todo = [i \in 1 .. n |-> g[i + k]] /\ S = {g[i + k] : i \in 1 .. n}
      BY <1>1
    <2> HIDE DEF n, S
    <2>2. todo \in [1 .. n -> S]
      BY <2>1
    <2>3. todo \in Seq(S)
      BY <2>1, <2>2, SeqDef
    <2>4. Len(todo) = n
      BY <2>1, <2>3, LenProperties
    <2>5. QED
      BY <2>3, <2>4 DEF n
  <1>4. k \in 0 .. 4
    <2>1. CASE k = 5
      <3>1. Len(todo) = 0
        BY <1>3, <2>1
      <3>2. QED
        BY <1>3, <3>1, EmptySeq
    <2>2. QED
      BY <2>1
  <1> HIDE DEF S
  <1>5. Head(todo) = todo[1] /\ Len(Tail(todo)) = 5 - k - 1
        /\ \A i \in 1 .. Len(Tail(todo)) : Tail(todo)[i] = todo[i + 1]
    BY <1>3, <1>4, HeadTailProperties
  <1>6. Head(todo) = g[k + 1]
    BY <1>1, <1>4, <1>5
  <1>7. Tail(todo) = [i \in 1 .. 5 - (k + 1) |-> g[i + (k + 1)]]
    <2>1. Tail(todo) \in Seq(S)
      BY <1>3, HeadTailProperties
    <2>2. Tail(todo) = [i \in 1 .. 5 - (k + 1) |-> Tail(todo)[i]]
      <3> DEFINE t == Tail(todo)
      <3>1. t \in Seq(S) /\ Len(t) = 5 - (k + 1)
        BY <1>4, <1>5, <2>1
      <3> HIDE DEF t
      <3>2. t = [i \in 1 .. Len(t) |-> t[i]]
        BY <3>1
      <3>3. QED
        BY <3>1, <3>2 DEF t
    <2>3. ASSUME NEW i \in 1 .. 5 - (k + 1) PROVE Tail(todo)[i] = g[i + (k + 1)]
      <3>1. i \in 1 .. Len(Tail(todo)) /\ i + 1 \in 1 .. 5 - k /\ i + 1 + k = i + (k + 1)
        BY <1>4, <1>5
      <3>2. Tail(todo)[i] = todo[i + 1] /\ todo[i + 1] = g[i + 1 + k]
        BY <1>1, <1>5, <3>1
      <3>3. QED
        BY <3>1, <3>2
    <2>4. QED
      BY <2>2, <2>3
  <1>8. QED
    BY <1>2, <1>4, <1>6, <1>7 DEF Left

LEMMA MakeWriteInv == Inv /\ MakeWrite => Inv'
  <1> SUFFICES ASSUME Inv, MakeWrite PROVE Inv'
    OBVIOUS
  <1> DEFINE w == Head(todo)
             len == Len(w.sectors)
  <1>1. /\ status = "running" /\ todo # <<>> /\ disk' = After(w, len) /\ todo' = Tail(todo)
        /\ DOMAIN disk = LBAs /\ job \in Jobs /\ at \in 0 .. 5 /\ busy = TRUE
        /\ job' = job /\ at' = at /\ busy' = busy /\ esp' = esp /\ status' = status
    BY DEF Inv, MakeWrite
  <1>2. DOMAIN disk' = LBAs
    BY <1>1, Elsewhere
  <1>3. CASE at = 1
    <2>1. PICK k \in 0 .. 5 : Left(k) /\ Laid(k) /\ Partitions(job)
      BY <1>1, <1>3 DEF Inv, Writing
    <2>2. k \in 0 .. 4 /\ w = df_write_gpt(N, Array(job))[k + 1] /\ Left(k + 1)'
      BY <1>1, <2>1, LeftStep
    <2>3. Laid(k + 1)'
      BY <1>1, <2>1, <2>2, LaidMore
    <2>4. k + 1 \in 0 .. 5
      BY <2>2
    <2>5. Writing'
      BY <1>1, <2>1, <2>2, <2>3, <2>4 DEF Writing
    <2>6. ~(at = 0) /\ ~(at > 1) /\ esp = Unformatted
      BY <1>3 DEF Inv
    <2>7. QED
      BY <1>1, <1>2, <2>5, <2>6 DEF Inv
  <1>4. CASE at > 1
    <2>1. Written
      BY <1>4 DEF Inv
    <2>2. In(w, PartOf(at).first, PartOf(at).last)
          /\ Confined(Tail(todo), PartOf(at).first, PartOf(at).last)
      BY <1>1, <2>1, TailConfined DEF Written
    <2>3. In(w, FirstUsable, LastUsable(N))
      BY <1>1, <2>1, <2>2, PartBounds DEF Written
    <2>4. Laid(5)'
      <3>1. len \in Nat /\ len <= len
        BY <2>3 DEF In
      <3>2. QED
        BY <1>1, <2>1, <2>3, <3>1, LaidKept DEF Written
    <2>5. Written'
      BY <1>1, <2>1, <2>2, <2>4 DEF Written, PartOf
    <2>6. ~(at = 0) /\ ~(at = 1) /\ ~(at <= 1)
      BY <1>1, <1>4
    <2>7. QED
      BY <1>1, <1>2, <2>5, <2>6 DEF Inv
  <1>5. at # 0
    BY <1>1 DEF Inv
  <1>6. QED
    BY <1>1, <1>3, <1>4, <1>5

LEMMA StopInInv == Inv /\ StopIn => Inv'
  <1> SUFFICES ASSUME Inv, StopIn PROVE Inv'
    OBVIOUS
  <1> DEFINE w == Head(todo)
  <1>1. /\ todo # <<>> /\ status = "running" /\ status' = "failed"
        /\ DOMAIN disk = LBAs /\ job \in Jobs /\ at \in 0 .. 5 /\ busy = TRUE
        /\ job' = job /\ at' = at /\ busy' = busy /\ esp' = esp /\ todo' = todo
    BY DEF Inv, StopIn
  <1>2. PICK len \in 0 .. Len(w.sectors) - 1 : disk' = After(w, len)
    BY DEF StopIn
  <1>3. DOMAIN disk' = LBAs
    BY <1>1, <1>2, Elsewhere
  <1>4. CASE at = 1
    <2>1. PICK k \in 0 .. 5 : Left(k)
      BY <1>4 DEF Inv, Writing
    <2>2. Left(k)'
      BY <1>1, <2>1 DEF Left
    <2>3. Writing'
      BY <1>1, <2>2 DEF Writing
    <2>4. ~(at = 0) /\ ~(at > 1) /\ esp = Unformatted
      BY <1>4 DEF Inv
    <2>5. QED
      BY <1>1, <1>3, <2>3, <2>4 DEF Inv
  <1>5. CASE at > 1
    <2>1. Written
      BY <1>5 DEF Inv
    <2>2. In(w, PartOf(at).first, PartOf(at).last)
      BY <1>1, <2>1, TailConfined DEF Written
    <2>3. In(w, FirstUsable, LastUsable(N))
      BY <1>1, <2>1, <2>2, PartBounds DEF Written
    <2>4. Laid(5)'
      <3>1. len \in Nat /\ len <= Len(w.sectors)
        BY <1>2, <2>3 DEF In
      <3>2. QED
        BY <1>1, <1>2, <2>1, <2>3, <3>1, LaidKept DEF Written
    <2>5. Written'
      BY <1>1, <2>1, <2>4 DEF Written, PartOf
    <2>6. ~(at = 0) /\ ~(at = 1) /\ ~(at <= 1)
      BY <1>1, <1>5
    <2>7. QED
      BY <1>1, <1>3, <2>5, <2>6 DEF Inv
  <1>6. at # 0
    BY <1>1 DEF Inv
  <1>7. QED
    BY <1>1, <1>4, <1>5, <1>6

\* The volume after a file.
LEMMA VolumeAfter ==
    ASSUME NEW v, NEW lo, NEW hi, VolumeIn(v, lo, hi), NEW size \in Nat, Fits(v, size)
    PROVE  VolumeIn([v EXCEPT !.nfree = AfterFile(v, size)], lo, hi)
  <1>1. /\ Clusters(size) \in Nat \ {0} /\ v.nfree \in 6 .. v.coc + 1
        /\ v.nfree + Clusters(size) <= v.coc + 2 /\ v.coc \in Nat
    BY FileFits DEF VolumeIn
  <1>2. AfterFile(v, size) \in 6 .. v.coc + 2
    BY <1>1 DEF AfterFile
  <1>3. QED
    BY <1>2 DEF VolumeIn

LEMMA EndInv == Inv /\ End => Inv'
  <1> SUFFICES ASSUME Inv, End PROVE Inv'
    OBVIOUS
  <1> DEFINE range == EspRange(job)
             v == Geometry(range.first, Length(range))
  <1>1. /\ todo = <<>> /\ status = "running" /\ DOMAIN disk = LBAs /\ job \in Jobs
        /\ at \in 0 .. 5 /\ busy = TRUE /\ busy' = FALSE /\ esp' = EspAfter(Plan[at])
        /\ job' = job /\ at' = at /\ disk' = disk /\ todo' = todo
    BY DEF Inv, End
  <1>2. CASE at = 1
    <2>1. PICK k \in 0 .. 5 : Left(k) /\ Laid(k) /\ Partitions(job)
      BY <1>1, <1>2 DEF Inv, Writing
    <2>2. Left(k)' /\ Laid(k)' /\ Partitions(job')
      BY <1>1, <2>1 DEF Left, Laid
    <2>3. Writing'
      BY <2>1, <2>2 DEF Writing
    <2>4. esp' = Unformatted
      <3>1. Plan[at] = "partition" /\ esp = Unformatted
        <4>1. at <= 1
          BY <1>2
        <4>2. QED
          BY <1>2, <4>1, PlanIs DEF Inv
      <3>2. QED
        BY <1>1, <3>1 DEF EspAfter
    <2>5. ~(at = 0) /\ ~(at > 1)
      BY <1>2
    <2>6. QED
      BY <1>1, <2>3, <2>4, <2>5 DEF Inv
  <1>3. CASE at > 1
    <2>1. Written /\ at \in 2 .. 5
      BY <1>1, <1>3 DEF Inv
    <2>2. esp' = Unformatted \/ VolumeIn(esp', range.first, range.last)
      <3>1. CASE at = 2
        <4>1. /\ NewEsp = v /\ Formats(v) /\ range.first \in Nat /\ Length(range) \in Int
              /\ range.last = range.first + Length(range) - 1
          BY <1>1, <2>1, <3>1, ReadBack, Ranges, Sizes DEF Written, NewEsp
        <4>2. VolumeIn(v, range.first, range.last)
          <5> HIDE DEF range
          <5>1. VolumeIn(Geometry(range.first, Length(range)),
                         range.first, range.first + Length(range) - 1)
            BY <4>1, FatCoversClusters
          <5>2. QED
            BY <4>1, <5>1
        <4>3. Plan[at] = "format ESP"
          BY <3>1, PlanIs
        <4>4. EspAfter("format ESP") = NewEsp
          BY DEF EspAfter
        <4>5. QED
          BY <1>1, <4>1, <4>2, <4>3, <4>4
      <3>2. CASE at = 3
        <4>1. Plan[at] = "format root"
          BY <3>2, PlanIs
        <4>2. EspAfter("format root") = esp
          BY DEF EspAfter
        <4>3. QED
          BY <1>1, <2>1, <4>1, <4>2 DEF Written
      <3>3. CASE at = 4
        <4>1. Plan[at] = "stage boot"
          BY <3>3, PlanIs
        <4>2. EspAfter("stage boot") = [esp EXCEPT !.nfree = AfterFile(esp, job.boot)]
          BY DEF EspAfter
        <4>3. Fits(esp, job.boot) /\ job.boot \in Nat
          BY <1>1, <2>1, <3>3, JobTypes DEF Written
        <4>4. VolumeIn(esp, range.first, range.last)
          BY <2>1, <4>3, NoneFits DEF Written
        <4>5. VolumeIn([esp EXCEPT !.nfree = AfterFile(esp, job.boot)], range.first, range.last)
          BY <4>3, <4>4, VolumeAfter
        <4>6. QED
          BY <1>1, <4>1, <4>2, <4>5
      <3>4. CASE at = 5
        <4>1. Plan[at] = "stage kernel"
          BY <3>4, PlanIs
        <4>2. EspAfter("stage kernel") = [esp EXCEPT !.nfree = AfterFile(esp, job.kernel)]
          BY DEF EspAfter
        <4>3. Fits(esp, job.kernel) /\ job.kernel \in Nat
          BY <1>1, <2>1, <3>4, JobTypes DEF Written
        <4>4. VolumeIn(esp, range.first, range.last)
          BY <2>1, <4>3, NoneFits DEF Written
        <4>5. VolumeIn([esp EXCEPT !.nfree = AfterFile(esp, job.kernel)], range.first, range.last)
          BY <4>3, <4>4, VolumeAfter
        <4>6. QED
          BY <1>1, <4>1, <4>2, <4>5
      <3>5. QED
        BY <2>1, <3>1, <3>2, <3>3, <3>4
    <2>3. Written'
      BY <1>1, <2>1, <2>2 DEF Written, Laid, PartOf
    <2>4. ~(at = 0) /\ ~(at = 1) /\ ~(at <= 1)
      BY <2>1
    <2>5. QED
      BY <1>1, <2>3, <2>4 DEF Inv
  <1>4. at # 0
    BY <1>1 DEF Inv
  <1>5. QED
    BY <1>1, <1>2, <1>3, <1>4

LEMMA AgainInv == Inv /\ Again => Inv'
  <1> SUFFICES ASSUME Inv, Again PROVE Inv'
    OBVIOUS
  <1>1. /\ DOMAIN disk' = LBAs /\ job' \in Jobs /\ busy' = FALSE /\ todo' = <<>>
        /\ esp' = Unformatted /\ at' = 0
    BY DEF Inv, Again
  <1>2. at' \in 0 .. 5 /\ ~(at' = 1) /\ ~(at' > 1)
    BY <1>1
  <1>3. QED
    BY <1>1, <1>2 DEF Inv

LEMMA StutterInv == Inv /\ UNCHANGED vars => Inv'
  BY DEF vars, Inv, Writing, Written, Laid, Left, PartOf

LEMMA NextInv == Inv /\ [Next]_vars => Inv'
  BY BeginInv, MakeWriteInv, StopInInv, EndInv, AgainInv, StutterInv DEF Next, Over

LEMMA Invariance == Spec => []Inv
  BY InitInv, NextInv, PTL DEF Spec
-----------------------------------------------------------------------------
(* The table while it is written.                                          *)

\* What a reader finds at the end of the disk.
Behind == IF CopyValid(disk, N - 1) THEN disk[N - 1].crc ELSE NoTable

\* After k writes, over what was safe: the old table in front and behind, then
\* behind at least, then the new one in front.
Sound(k) ==
    /\ k <= 1 => BackedUp /\ Table(disk, N) = before.table
    /\ k = 2 => Usual /\ disk[1] = df_hdr(N, Array(job)) /\ Behind = before.table
    /\ k > 2 => CopyValid(disk, 1) /\ disk[1] = df_hdr(N, Array(job))

Readable ==
    /\ at = 0 /\ before.safe => Sound(0)
    /\ at = 1 /\ before.safe => \E k \in 0 .. 5 : Sound(k) /\ (busy => Left(k))

LEMMA SoundReads ==
    ASSUME NEW k \in 0 .. 5, Sound(k)
    PROVE  Table(disk, N) \in {before.table, Array(job)}
  <1>1. CASE k <= 1
    BY <1>1 DEF Sound
  <1>2. CASE k = 2
    <2>1. disk[1].crc = Array(job) /\ Behind = before.table
      BY <1>2 DEF Sound, df_hdr
    <2>2. QED
      BY <2>1 DEF Table, Behind
  <1>3. CASE k > 2
    <2>1. CopyValid(disk, 1) /\ disk[1].crc = Array(job)
      BY <1>3 DEF Sound, df_hdr
    <2>2. QED
      BY <2>1 DEF Table
  <1>4. QED
    BY <1>1, <1>2, <1>3

LEMMA ReadableInv == Inv /\ Readable => OldOrNewTable
  <1> SUFFICES ASSUME Inv, Readable, before.safe
               PROVE  Table(disk, N) \in {before.table, Array(job)}
    BY DEF OldOrNewTable
  <1>1. CASE at = 0
    BY <1>1, SoundReads DEF Readable
  <1>2. CASE at = 1
    BY <1>2, SoundReads DEF Readable
  <1>3. CASE at > 1
    <2>1. CopyValid(disk, 1) /\ disk[1].crc = Array(job)
      BY <1>3, SurvivesInv DEF TableSurvives
    <2>2. QED
      BY <2>1 DEF Table
  <1>4. QED
    BY <1>1, <1>2, <1>3 DEF Inv

\* A table that is backed up is the one behind.
LEMMA BackedUpBehind == BackedUp => Table(disk, N) = Behind
  BY DEF BackedUp, Table, Behind

\* A copy whose header and array are not written stays what it is.
LEMMA CopyKept ==
    ASSUME DOMAIN disk = LBAs, NEW lba, NEW first, NEW w, NEW len, disk' = After(w, len),
           disk[lba].is = "header" => disk[lba].array = first,
           lba \in LBAs, lba \notin w.lba .. w.lba + len - 1,
           first \in Int,
           \A s \in 1 .. ArrayLen :
               first + s - 1 \in LBAs /\ first + s - 1 \notin w.lba .. w.lba + len - 1
    PROVE  CopyValid(disk, lba)' = CopyValid(disk, lba) /\ disk'[lba] = disk[lba]
  <1>1. disk'[lba] = disk[lba]
    BY Elsewhere
  <1>2. Sectors(disk', first, ArrayLen) = Sectors(disk, first, ArrayLen)
    <2>1. \A s \in 1 .. ArrayLen : disk'[first + s - 1] = disk[first + s - 1]
      BY Elsewhere
    <2>2. QED
      BY <2>1 DEF Sectors
  <1>3. CASE disk[lba].is = "header"
    BY <1>1, <1>2, <1>3 DEF CopyValid
  <1>4. CASE disk[lba].is # "header"
    BY <1>1, <1>4 DEF CopyValid
  <1>5. QED
    BY <1>1, <1>3, <1>4

\* A write of a table, and the part of it that reaches the disk.
LEMMA TableWrite ==
    ASSUME NEW k \in 0 .. 4,
           NEW len \in 0 .. Len(df_write_gpt(N, Array(job))[k + 1].sectors)
    PROVE  LET w == df_write_gpt(N, Array(job))[k + 1]
           IN  /\ k = 0 => w.lba = 0 /\ len \in 0 .. 1 /\ Len(w.sectors) = 1
               /\ k = 1 => /\ w.lba = 1 /\ len \in 0 .. 1 /\ Len(w.sectors) = 1
                           /\ w.sectors[1] = df_hdr(N, Array(job))
               /\ k = 2 => /\ w.lba = 2 /\ len \in 0 .. ArrayLen /\ Len(w.sectors) = ArrayLen
                           /\ w.sectors = Array(job)
               /\ k = 3 => w.lba = N - 1 - ArrayLen /\ len \in 0 .. ArrayLen
               /\ k = 4 => w.lba = N - 1 /\ len \in 0 .. 1
  <1> DEFINE array == Array(job)
             g == df_write_gpt(N, array)
  <1>1. /\ g[1].lba = 0 /\ Len(g[1].sectors) = 1
        /\ g[2] = Write(1, <<df_hdr(N, array)>>) /\ g[2].lba = 1 /\ Len(g[2].sectors) = 1
        /\ g[3] = Write(2, array) /\ g[3].lba = 2 /\ Len(g[3].sectors) = ArrayLen
        /\ g[4].lba = N - 1 - ArrayLen /\ Len(g[4].sectors) = ArrayLen
        /\ g[5].lba = N - 1 /\ Len(g[5].sectors) = 1
    BY TableWrites
  <1>2. g[2].sectors[1] = df_hdr(N, array) /\ g[3].sectors = array
    BY <1>1 DEF Write
  <1> HIDE DEF g, array
  <1>3. len \in 0 .. Len(g[k + 1].sectors)
    BY DEF g, array
  <1>4. /\ k = 0 => k + 1 = 1
        /\ k = 1 => k + 1 = 2
        /\ k = 2 => k + 1 = 3
        /\ k = 3 => k + 1 = 4
        /\ k = 4 => k + 1 = 5
    OBVIOUS
  <1>5. /\ k = 0 => g[k + 1].lba = 0 /\ len \in 0 .. 1 /\ Len(g[k + 1].sectors) = 1
        /\ k = 1 => /\ g[k + 1].lba = 1 /\ len \in 0 .. 1 /\ Len(g[k + 1].sectors) = 1
                    /\ g[k + 1].sectors[1] = df_hdr(N, array)
        /\ k = 2 => /\ g[k + 1].lba = 2 /\ len \in 0 .. ArrayLen
                    /\ Len(g[k + 1].sectors) = ArrayLen /\ g[k + 1].sectors = array
        /\ k = 3 => g[k + 1].lba = N - 1 - ArrayLen /\ len \in 0 .. ArrayLen
        /\ k = 4 => g[k + 1].lba = N - 1 /\ len \in 0 .. 1
    BY <1>1, <1>2, <1>3, <1>4
  <1>6. QED
    BY <1>5 DEF g, array

\* A write before the table in front, or of nothing.
LEMMA SoundBefore ==
    ASSUME DOMAIN disk = LBAs, NEW w, NEW len, disk' = After(w, len), before' = before,
           BackedUp /\ Table(disk, N) = before.table,
           w.lba \in Int, len \in Nat, w.lba + len <= 1 \/ len = 0
    PROVE  BackedUp' /\ (Table(disk, N) = before.table)'
  <1>1. ASSUME NEW x \in 1 .. N - 1 PROVE x \notin w.lba .. w.lba + len - 1
    BY Sizes
  <1>2. CopyValid(disk, 1)' = CopyValid(disk, 1) /\ disk'[1] = disk[1]
    <2> DEFINE lba == 1
               first == 2
    <2>1. disk[lba].is = "header" => disk[lba].array = first
      BY DEF BackedUp, Usual
    <2>2. lba \in Int /\ first \in Int /\ lba \in 1 .. N - 1 /\ first >= 1 /\ first + ArrayLen <= N
      BY Sizes
    <2> HIDE DEF lba, first
    <2>3. lba \in LBAs /\ lba \notin w.lba .. w.lba + len - 1
      BY <1>1, <2>2 DEF LBAs
    <2>4. ASSUME NEW s \in 1 .. ArrayLen
          PROVE  first + s - 1 \in LBAs /\ first + s - 1 \notin w.lba .. w.lba + len - 1
      <3>1. first + s - 1 \in LBAs /\ first + s - 1 \in 1 .. N - 1
        BY <2>2, Sizes DEF LBAs
      <3>2. QED
        BY <1>1, <3>1
    <2>5. CopyValid(disk, lba)' = CopyValid(disk, lba) /\ disk'[lba] = disk[lba]
      BY <2>1, <2>2, <2>3, <2>4, CopyKept
    <2>6. QED
      BY <2>5 DEF lba
  <1>3. CopyValid(disk, N - 1)' = CopyValid(disk, N - 1) /\ disk'[N - 1] = disk[N - 1]
    <2> DEFINE lba == N - 1
               first == N - 1 - ArrayLen
    <2>1. disk[lba].is = "header" => disk[lba].array = first
      BY DEF BackedUp, Usual
    <2>2. lba \in Int /\ first \in Int /\ lba \in 1 .. N - 1 /\ first >= 1 /\ first + ArrayLen <= N
      BY Sizes
    <2> HIDE DEF lba, first
    <2>3. lba \in LBAs /\ lba \notin w.lba .. w.lba + len - 1
      BY <1>1, <2>2 DEF LBAs
    <2>4. ASSUME NEW s \in 1 .. ArrayLen
          PROVE  first + s - 1 \in LBAs /\ first + s - 1 \notin w.lba .. w.lba + len - 1
      <3>1. first + s - 1 \in LBAs /\ first + s - 1 \in 1 .. N - 1
        BY <2>2, Sizes DEF LBAs
      <3>2. QED
        BY <1>1, <3>1
    <2>5. CopyValid(disk, lba)' = CopyValid(disk, lba) /\ disk'[lba] = disk[lba]
      BY <2>1, <2>2, <2>3, <2>4, CopyKept
    <2>6. QED
      BY <2>5 DEF lba
  <1>4. QED
    BY <1>2, <1>3 DEF BackedUp, Usual, Table

\* A write before the copy behind leaves that copy; one behind the copy in
\* front leaves that.
LEMMA BehindKept ==
    ASSUME DOMAIN disk = LBAs, Usual, NEW w, NEW len \in Nat, disk' = After(w, len),
           w.lba \in Nat, w.lba + len <= N - 1 - ArrayLen
    PROVE  Behind' = Behind /\ disk'[N - 1] = disk[N - 1]
  <1> DEFINE lba == N - 1
             first == N - 1 - ArrayLen
  <1>1. disk[lba].is = "header" => disk[lba].array = first
    BY DEF Usual
  <1>2. lba \in Int /\ first \in Int /\ lba <= N - 1 /\ w.lba + len <= lba
        /\ w.lba + len <= first /\ lba >= 0 /\ first >= 0 /\ first + ArrayLen <= N
    BY Sizes
  <1> HIDE DEF lba, first
  <1>3. lba \in LBAs /\ lba \notin w.lba .. w.lba + len - 1
    BY <1>2, Sizes DEF LBAs
  <1>4. ASSUME NEW s \in 1 .. ArrayLen
        PROVE  first + s - 1 \in LBAs /\ first + s - 1 \notin w.lba .. w.lba + len - 1
    BY <1>2, Sizes DEF LBAs
  <1>5. CopyValid(disk, lba)' = CopyValid(disk, lba) /\ disk'[lba] = disk[lba]
    BY <1>1, <1>2, <1>3, <1>4, CopyKept
  <1>6. QED
    BY <1>5 DEF lba, Behind

LEMMA FrontKept ==
    ASSUME DOMAIN disk = LBAs, NEW w, NEW len \in Nat, disk' = After(w, len),
           disk[1] = df_hdr(N, Array(job)), w.lba \in Nat, w.lba >= N - 1 - ArrayLen
    PROVE  CopyValid(disk, 1)' = CopyValid(disk, 1) /\ disk'[1] = disk[1]
  <1> DEFINE lba == 1
             first == 2
  <1>1. disk[lba].is = "header" => disk[lba].array = first
    BY DEF df_hdr
  <1>2. lba \in Int /\ first \in Int /\ lba >= 0 /\ lba < w.lba /\ lba < N
        /\ first >= 0 /\ first + ArrayLen <= w.lba /\ first + ArrayLen <= N
    BY Sizes
  <1> HIDE DEF lba, first
  <1>3. lba \in LBAs /\ lba \notin w.lba .. w.lba + len - 1
    BY <1>2, Sizes DEF LBAs
  <1>4. ASSUME NEW s \in 1 .. ArrayLen
        PROVE  first + s - 1 \in LBAs /\ first + s - 1 \notin w.lba .. w.lba + len - 1
    BY <1>2, Sizes DEF LBAs
  <1>5. CopyValid(disk, lba)' = CopyValid(disk, lba) /\ disk'[lba] = disk[lba]
    BY <1>1, <1>2, <1>3, <1>4, CopyKept
  <1>6. QED
    BY <1>5 DEF lba

LEMMA SoundStep ==
    ASSUME DOMAIN disk = LBAs, NEW k \in 0 .. 4, Sound(k),
           NEW len \in 0 .. Len(df_write_gpt(N, Array(job))[k + 1].sectors),
           disk' = After(df_write_gpt(N, Array(job))[k + 1], len),
           job' = job, before' = before
    PROVE  /\ len < Len(df_write_gpt(N, Array(job))[k + 1].sectors) => Sound(k)'
           /\ len = Len(df_write_gpt(N, Array(job))[k + 1].sectors) => Sound(k + 1)'
  <1> DEFINE array == Array(job)
             w == df_write_gpt(N, array)[k + 1]
             n == Len(w.sectors)
  <1>1. /\ k = 0 => w.lba = 0 /\ len \in 0 .. 1 /\ n = 1
        /\ k = 1 => w.lba = 1 /\ len \in 0 .. 1 /\ n = 1 /\ w.sectors[1] = df_hdr(N, array)
        /\ k = 2 => w.lba = 2 /\ len \in 0 .. ArrayLen /\ n = ArrayLen /\ w.sectors = array
        /\ k = 3 => w.lba = N - 1 - ArrayLen /\ len \in 0 .. ArrayLen
        /\ k = 4 => w.lba = N - 1 /\ len \in 0 .. 1
    BY TableWrite
  <1>2. disk' = After(w, len) /\ Array(job') = array /\ Array(job) = array
    OBVIOUS
  <1> SUFFICES (len < n => Sound(k)') /\ (len = n => Sound(k + 1)')
    OBVIOUS
  <1> HIDE DEF w, array, n
  <1>3. CASE k = 0
    <2>1. BackedUp' /\ (Table(disk, N) = before.table)'
      <3>1. w.lba = 0 /\ len \in 0 .. 1
        BY <1>1, <1>3
      <3>2. BackedUp /\ Table(disk, N) = before.table
        BY <1>3 DEF Sound
      <3>3. w.lba \in Int /\ len \in Nat /\ w.lba + len <= 1
        BY <3>1
      <3>4. QED
        BY <1>2, <3>2, <3>3, SoundBefore
    <2>2. k <= 1 /\ ~(k = 2) /\ ~(k > 2) /\ k + 1 <= 1 /\ ~(k + 1 = 2) /\ ~(k + 1 > 2)
      BY <1>3
    <2>3. QED
      BY <2>1, <2>2 DEF Sound
  <1>4. CASE k = 1
    <2>1. BackedUp /\ Table(disk, N) = before.table
      BY <1>4 DEF Sound
    <2>2. CASE len = 0
      <3>1. BackedUp' /\ (Table(disk, N) = before.table)'
        <4>1. w.lba \in Int /\ len \in Nat
          BY <1>1, <1>4, <2>2
        <4>2. QED
          BY <1>2, <2>1, <2>2, <4>1, SoundBefore
      <3>2. k <= 1 /\ ~(k = 2) /\ ~(k > 2) /\ len # n
        BY <1>1, <1>4, <2>2
      <3>3. QED
        BY <3>1, <3>2 DEF Sound
    <2>3. CASE len = 1
      <3>1. 1 \in LBAs /\ 1 \in w.lba .. w.lba + len - 1 /\ 1 - w.lba + 1 = 1
        BY <1>1, <1>4, <2>3, Sizes DEF LBAs
      <3>2. disk'[1] = df_hdr(N, array)
        BY <1>1, <1>2, <1>4, <3>1, Elsewhere
      <3>3. Behind' = Behind /\ disk'[N - 1] = disk[N - 1]
        <4>1. len \in Nat /\ w.lba \in Nat /\ w.lba + len <= N - 1 - ArrayLen /\ Usual
          BY <1>1, <1>4, <2>1, <2>3, Sizes DEF BackedUp
        <4>2. QED
          BY <1>2, <4>1, BehindKept
      <3>4. Usual' /\ Behind' = before'.table
        BY <2>1, <3>2, <3>3, BackedUpBehind DEF BackedUp, Usual, df_hdr
      <3>5. k + 1 = 2 /\ ~(k + 1 <= 1) /\ ~(k + 1 > 2) /\ ~(len < n)
        BY <1>1, <1>4, <2>3
      <3>6. QED
        BY <1>2, <3>2, <3>4, <3>5 DEF Sound
    <2>4. QED
      BY <1>1, <1>4, <2>2, <2>3
  <1>5. CASE k = 2
    <2>1. Usual /\ disk[1] = df_hdr(N, array) /\ Behind = before.table
      BY <1>2, <1>5 DEF Sound
    <2>2. disk'[1] = disk[1]
      <3>1. 1 \in LBAs /\ 1 \notin w.lba .. w.lba + len - 1
        BY <1>1, <1>5, Sizes DEF LBAs
      <3>2. QED
        BY <1>2, <3>1, Elsewhere
    <2>3. Behind' = Behind /\ disk'[N - 1] = disk[N - 1]
      <3>1. len \in Nat /\ w.lba \in Nat /\ w.lba + len <= N - 1 - ArrayLen
        BY <1>1, <1>5, Sizes
      <3>2. QED
        BY <1>2, <2>1, <3>1, BehindKept
    <2>4. Usual' /\ Behind' = before'.table
      BY <2>1, <2>2, <2>3 DEF Usual
    <2>5. ASSUME len = n PROVE CopyValid(disk', 1)
      <3>1. ASSUME NEW s \in 1 .. ArrayLen PROVE disk'[2 + s - 1] = array[s]
        <4> DEFINE x == 2 + s - 1
        <4>1. x \in LBAs /\ x \in w.lba .. w.lba + len - 1 /\ x - w.lba + 1 = s
          BY <1>1, <1>5, <2>5, Sizes DEF LBAs
        <4> HIDE DEF x
        <4>2. disk'[x] = w.sectors[x - w.lba + 1]
          BY <1>2, <4>1, Elsewhere
        <4>3. QED
          BY <1>1, <1>5, <4>1, <4>2 DEF x
      <3>2. array = [s \in 1 .. ArrayLen |-> array[s]]
        BY ArrayShape DEF array
      <3>3. Sectors(disk', 2, ArrayLen) = array
        BY <3>1, <3>2 DEF Sectors
      <3>4. QED
        BY <2>1, <2>2, <3>3 DEF CopyValid, df_hdr
    <2>6. k = 2 /\ ~(k <= 1) /\ ~(k > 2) /\ k + 1 > 2 /\ ~(k + 1 <= 1) /\ ~(k + 1 = 2)
      BY <1>5
    <2>7. QED
      BY <1>2, <2>1, <2>2, <2>4, <2>5, <2>6 DEF Sound
  <1>6. CASE k \in {3, 4}
    <2>1. CopyValid(disk, 1) /\ disk[1] = df_hdr(N, array)
      BY <1>2, <1>6 DEF Sound
    <2>2. len \in Nat /\ w.lba \in Nat /\ w.lba >= N - 1 - ArrayLen
      BY <1>1, <1>6, Sizes
    <2>3. CopyValid(disk', 1) /\ disk'[1] = disk[1]
      BY <1>2, <2>1, <2>2, FrontKept
    <2>4. ~(k <= 1) /\ ~(k = 2) /\ ~(k + 1 <= 1) /\ ~(k + 1 = 2)
      BY <1>6
    <2>5. QED
      BY <1>2, <2>1, <2>3, <2>4 DEF Sound
  <1>7. QED
    BY <1>3, <1>4, <1>5, <1>6

LEMMA ReadableInit == Init => Readable
  <1> SUFFICES ASSUME Init, before.safe PROVE Sound(0)
    <2>1. Init => at = 0 /\ ~(at = 1)
      BY DEF Init
    <2>2. QED
      BY <2>1 DEF Readable
  <1>1. BackedUp /\ Table(disk, N) = before.table
    BY DEF Init, Found
  <1>2. QED
    BY <1>1 DEF Sound

LEMMA ReadableNext == Inv /\ Readable /\ [Next]_vars => Readable'
  <1> SUFFICES ASSUME Inv, Readable, [Next]_vars PROVE Readable'
    OBVIOUS
  <1>1. CASE Begin
    <2>1. at' = at + 1 /\ at \in 0 .. 5 /\ disk' = disk /\ job' = job /\ before' = before
      BY <1>1 DEF Begin, Inv
    <2>2. ~(at' = 0)
      BY <2>1
    <2>3. ASSUME at' = 1, before'.safe PROVE \E k \in 0 .. 5 : Sound(k)' /\ (busy' => Left(k)')
      <3>1. at = 0
        BY <2>1, <2>3
      <3>2. Sound(0)'
        <4>1. Sound(0)
          BY <2>1, <2>3, <3>1 DEF Readable
        <4>2. QED
          BY <2>1, <4>1 DEF Sound, BackedUp, Usual, Behind, CopyValid, Sectors, Table
      <3>3. busy' => Left(0)'
        <4>1. SUFFICES ASSUME busy' PROVE Left(0)'
          OBVIOUS
        <4>2. todo' = Writes(Plan[at + 1])
          <5>1. ~busy
            BY <3>1 DEF Inv
          <5>2. QED
            BY <1>1, <4>1, <5>1 DEF Begin
        <4>3. Plan[at + 1] = "partition"
          <5>1. at + 1 = 1
            BY <3>1
          <5>2. QED
            BY <5>1, PlanIs
        <4>4. todo' = df_write_gpt(N, Array(job))
          BY <4>2, <4>3, Ops
        <4>5. QED
          BY <2>1, <4>4 DEF Left, df_write_gpt
      <3>4. QED
        BY <3>2, <3>3
    <2>4. QED
      BY <2>2, <2>3 DEF Readable
  <1>2. CASE MakeWrite \/ StopIn
    <2>1. /\ at' = at /\ job' = job /\ before' = before /\ busy' = busy /\ busy = TRUE
          /\ todo # <<>> /\ DOMAIN disk = LBAs
      BY <1>2 DEF MakeWrite, StopIn, Inv
    <2>2. ~(at' = 0)
      BY <2>1 DEF Inv
    <2>3. ASSUME at' = 1, before'.safe PROVE \E k \in 0 .. 5 : Sound(k)' /\ (busy' => Left(k)')
      <3>1. PICK k \in 0 .. 5 : Sound(k) /\ Left(k)
        BY <2>1, <2>3 DEF Readable
      <3> DEFINE w == df_write_gpt(N, Array(job))[k + 1]
                 n == Len(w.sectors)
      <3>2. k \in 0 .. 4 /\ Head(todo) = w /\ (todo' = Tail(todo) => Left(k + 1)')
        BY <2>1, <3>1, LeftStep
      <3>3. n \in Nat
        <4> DEFINE g == df_write_gpt(N, Array(job))
        <4>1. Len(g[1].sectors) \in Nat /\ Len(g[2].sectors) \in Nat /\ Len(g[3].sectors) \in Nat
              /\ Len(g[4].sectors) \in Nat /\ Len(g[5].sectors) \in Nat
          <5>1. /\ Len(g[1].sectors) = 1 /\ Len(g[2].sectors) = 1 /\ Len(g[3].sectors) = ArrayLen
                /\ Len(g[4].sectors) = ArrayLen /\ Len(g[5].sectors) = 1
            BY TableWrites
          <5> HIDE DEF g
          <5>2. QED
            BY <5>1, Sizes
        <4>2. w = g[k + 1] /\ k + 1 \in {1, 2, 3, 4, 5}
          BY <3>2
        <4> HIDE DEF g, w
        <4>3. QED
          BY <4>1, <4>2
      <3>4. CASE MakeWrite
        <4>1. disk' = After(w, n) /\ todo' = Tail(todo)
          BY <3>2, <3>4 DEF MakeWrite
        <4>2. n \in 0 .. n
          BY <3>3
        <4>3. Sound(k + 1)'
          BY <2>1, <3>1, <3>2, <4>1, <4>2, SoundStep
        <4>4. k + 1 \in 0 .. 5
          BY <3>2
        <4>5. QED
          BY <3>2, <4>1, <4>3, <4>4
      <3>5. CASE StopIn
        <4>1. PICK len \in 0 .. n - 1 : disk' = After(w, len)
          BY <3>2, <3>5 DEF StopIn
        <4>2. len \in 0 .. n /\ len < n
          BY <3>3, <4>1
        <4>3. Sound(k)'
          BY <2>1, <3>1, <3>2, <4>1, <4>2, SoundStep
        <4>4. Left(k)'
          BY <2>1, <3>1, <3>5 DEF StopIn, Left
        <4>5. QED
          BY <4>3, <4>4
      <3>6. QED
        BY <1>2, <3>4, <3>5
    <2>4. QED
      BY <2>2, <2>3 DEF Readable
  <1>3. CASE End
    <2>1. at' = at /\ disk' = disk /\ job' = job /\ before' = before /\ busy' = FALSE
      BY <1>3 DEF End
    <2>2. at # 0
      BY <1>3 DEF End, Inv
    <2>3. ASSUME at = 1, before.safe PROVE \E k \in 0 .. 5 : Sound(k)'
      <3>1. PICK k \in 0 .. 5 : Sound(k)
        BY <2>3 DEF Readable
      <3>2. Sound(k)'
        BY <2>1, <3>1 DEF Sound, BackedUp, Usual, Behind, CopyValid, Sectors, Table
      <3>3. QED
        BY <3>2
    <2>4. QED
      BY <2>1, <2>2, <2>3 DEF Readable
  <1>4. CASE Again
    <2>1. at' = 0 /\ disk' = disk /\ before' = Found
      BY <1>4 DEF Again
    <2>2. ASSUME before'.safe PROVE Sound(0)'
      <3>1. BackedUp /\ Table(disk, N) = before'.table
        BY <2>1, <2>2 DEF Found
      <3>2. BackedUp' /\ Table(disk', N) = before'.table
        BY <2>1, <3>1 DEF BackedUp, Usual, CopyValid, Sectors
      <3>3. QED
        BY <3>2 DEF Sound
    <2>3. QED
      BY <2>1, <2>2 DEF Readable
  <1>5. CASE UNCHANGED vars
    BY <1>5 DEF vars, Readable, Sound, Left, BackedUp, Usual, Behind, CopyValid, Sectors, Table
  <1>6. QED
    BY <1>1, <1>2, <1>3, <1>4, <1>5 DEF Next, Over

LEMMA Readability == Spec => []Readable
  <1>1. Inv /\ Readable /\ [Next]_vars => Readable'
    BY ReadableNext
  <1>2. QED
    BY <1>1, ReadableInit, Invariance, PTL DEF Spec
-----------------------------------------------------------------------------
(* The theorems.                                                           *)

\* Whatever the disk and what is asked, df_write_gpt writes outside the
\* partitions and every later operation inside the one that is its own.
THEOREM WritesStayHome == Spec => []StaysInPartition
  BY Invariance, StaysInv, PTL

\* Whatever is formatted and staged, and wherever it stops, both copies of the
\* table that native_partition wrote are good.
THEOREM TableOutlivesTheRest == Spec => []TableSurvives
  BY Invariance, SurvivesInv, PTL

\* Wherever a run stops in df_write_gpt, or later, a reader finds the table
\* the run found or the one it was to write, if what it found was backed up.
THEOREM OldOrNew == Spec => []OldOrNewTable
  BY Invariance, Readability, ReadableInv, PTL
=============================================================================
