--------------------------- MODULE NativeEsp_proofs ---------------------------
(***************************************************************************)
(* For every disk, ESP and pair of files: what the ESP shows at every      *)
(* write of a native install.  The disk is what the writes made so far     *)
(* make of the disk before the operation (Made), the operation's writes    *)
(* are known one by one (FormatShape, StageShape), and so is what every    *)
(* sector of the volume has by then (Shows, Under).  The inductive         *)
(* invariant EspInv says so along a run; the properties follow from it.    *)
(***************************************************************************)
EXTENDS NativeBoot_proofs, FiniteSetTheorems

-----------------------------------------------------------------------------
(* How far an operation is.                                                *)

\* What a write has for a sector.
At(w, lba) == w.sectors[lba - w.lba + 1]

\* On D are the first n writes of W over d.  Of the next one, if it is of more
\* than one sector, some may be there too.
Made(D, d, W, n) ==
    \A lba \in LBAs :
        (n < Len(W) /\ Len(W[n + 1].sectors) > 1 => lba \notin Extent(W[n + 1])) =>
            /\ \A m \in 1 .. n :
                /\ lba \in Extent(W[m])
                /\ \A i \in m .. n : lba \in Extent(W[i]) => At(W[i], lba) = At(W[m], lba)
                => D[lba] = At(W[m], lba)
            /\ (\A i \in 1 .. n : lba \notin Extent(W[i])) => D[lba] = d[lba]

\* The others are to be made.
Rest(W, n) == [i \in 1 .. Len(W) - n |-> W[i + n]]

LEMMA RestStep ==
    ASSUME NEW S, NEW W \in Seq(S), NEW n \in 0 .. Len(W), Rest(W, n) # <<>>
    PROVE  /\ n \in 0 .. Len(W) - 1 /\ n + 1 \in 0 .. Len(W)
           /\ Head(Rest(W, n)) = W[n + 1] /\ Tail(Rest(W, n)) = Rest(W, n + 1)
  <1> DEFINE len == Len(W) - n
             r == Rest(W, n)
  <1>1. len \in Nat /\ Len(W) \in Nat /\ r = [i \in 1 .. len |-> W[i + n]]
    BY DEF Rest
  <1>2. \A i \in 1 .. len : W[i + n] \in S
    <2>1. \A i \in 1 .. len : i + n \in 1 .. Len(W)
      BY <1>1
    <2>2. QED
      BY <2>1
  <1> HIDE DEF len
  <1>3. r \in [1 .. len -> S]
    BY <1>1, <1>2
  <1>4. r \in Seq(S)
    BY <1>1, <1>3, SeqDef
  <1>5. Len(r) = len
    BY <1>1, <1>4, LenProperties
  <1>6. len # 0
    <2>1. ASSUME len = 0 PROVE FALSE
      <3>1. r # <<>>
        OBVIOUS
      <3> HIDE DEF r
      <3>2. QED
        BY <1>4, <1>5, <2>1, <3>1, EmptySeq
    <2>2. QED
      BY <2>1
  <1>7. /\ Head(r) = r[1] /\ Tail(r) \in Seq(S) /\ Len(Tail(r)) = len - 1
        /\ \A i \in 1 .. Len(Tail(r)) : Tail(r)[i] = r[i + 1]
    <2>1. r # <<>>
      OBVIOUS
    <2> HIDE DEF r
    <2>2. QED
      BY <1>4, <1>5, <2>1, HeadTailProperties
  <1>8. Head(r) = W[n + 1]
    BY <1>1, <1>6, <1>7
  <1>9. Tail(r) = [i \in 1 .. len - 1 |-> W[i + (n + 1)]]
    <2> DEFINE t == Tail(r)
    <2>1. t \in Seq(S) /\ Len(t) = len - 1
      BY <1>7
    <2>2. ASSUME NEW i \in 1 .. len - 1 PROVE t[i] = W[i + (n + 1)]
      <3>1. i \in 1 .. Len(t) /\ i + 1 \in 1 .. len /\ i + 1 + n = i + (n + 1)
        BY <1>1, <2>1
      <3>2. t[i] = r[i + 1] /\ r[i + 1] = W[i + 1 + n]
        BY <1>1, <1>7, <3>1
      <3>3. QED
        BY <3>1, <3>2
    <2> HIDE DEF t, r
    <2>3. t = [i \in 1 .. Len(t) |-> t[i]]
      BY <2>1
    <2>4. QED
      BY <2>1, <2>2, <2>3 DEF t
  <1>10. n + 1 \in 0 .. Len(W) /\ Len(W) - (n + 1) = len - 1 /\ n \in 0 .. Len(W) - 1
    BY <1>1, <1>6 DEF len
  <1>11. QED
    BY <1>8, <1>9, <1>10 DEF Rest

LEMMA RestOfAll ==
    ASSUME NEW S, NEW W \in Seq(S)
    PROVE  Rest(W, 0) = W
  <1>1. W = [i \in 1 .. Len(W) |-> W[i]] /\ Len(W) \in Nat
    OBVIOUS
  <1>2. Len(W) - 0 = Len(W) /\ \A i \in 1 .. Len(W) : i + 0 = i
    BY <1>1
  <1>3. QED
    BY <1>1, <1>2 DEF Rest

LEMMA RestIsNone ==
    ASSUME NEW S, NEW W \in Seq(S), NEW n \in 0 .. Len(W), Rest(W, n) = <<>>
    PROVE  n = Len(W)
  <1>1. CASE n < Len(W)
    <2> DEFINE len == Len(W) - n
               s == [i \in 1 .. len |-> W[i + n]]
    <2>1. len \in Nat \ {0}
      BY <1>1
    <2>2. s = <<>>
      BY DEF Rest
    <2> HIDE DEF len
    <2>3. 1 \in DOMAIN s
      BY <2>1
    <2>4. QED
      BY <2>2, <2>3
  <1>2. QED
    BY <1>1

LEMMA MadeNone ==
    ASSUME NEW d, NEW W
    PROVE  Made(d, d, W, 0)
  BY DEF Made

\* One more.
LEMMA MadeMore ==
    ASSUME DOMAIN disk = LBAs, NEW d, NEW S, NEW W \in Seq(S), NEW n \in 0 .. Len(W) - 1,
           Made(disk, d, W, n), disk' = After(W[n + 1], Len(W[n + 1].sectors))
    PROVE  Made(disk', d, W, n + 1)
  <1> DEFINE w == W[n + 1]
             len == Len(w.sectors)
  <1> SUFFICES ASSUME NEW lba \in LBAs
               PROVE  /\ \A m \in 1 .. n + 1 :
                            /\ lba \in Extent(W[m])
                            /\ \A i \in m .. n + 1 : lba \in Extent(W[i]) => At(W[i], lba) = At(W[m], lba)
                            => disk'[lba] = At(W[m], lba)
                      /\ (\A i \in 1 .. n + 1 : lba \notin Extent(W[i])) => disk'[lba] = d[lba]
    BY DEF Made
  <1>1. Len(W) \in Nat /\ n \in Nat /\ n + 1 \in 1 .. n + 1
    OBVIOUS
  <1>2. Extent(w) = w.lba .. w.lba + len - 1
    BY DEF Extent
  <1>3. CASE lba \in Extent(w)
    <2>1. disk'[lba] = At(w, lba)
      BY <1>2, <1>3, Elsewhere DEF At
    <2>2. \A m \in 1 .. n + 1 : n + 1 \in m .. n + 1
      BY <1>1
    <2>3. QED
      BY <1>1, <1>3, <2>1, <2>2
  <1>4. CASE lba \notin Extent(w)
    <2>1. disk'[lba] = disk[lba]
      BY <1>2, <1>4, Elsewhere
    <2>2. \A m \in 1 .. n + 1 : lba \in Extent(W[m]) => m \in 1 .. n
      BY <1>1, <1>4
    <2>3. \A m \in 1 .. n : \A i \in m .. n : i \in m .. n + 1
      BY <1>1
    <2>4. \A i \in 1 .. n : i \in 1 .. n + 1
      BY <1>1
    <2>5. QED
      BY <1>4, <2>1, <2>2, <2>3, <2>4 DEF Made
  <1>5. QED
    BY <1>3, <1>4

\* A part of the next.
LEMMA MadePart ==
    ASSUME DOMAIN disk = LBAs, NEW d, NEW S, NEW W \in Seq(S), NEW n \in 0 .. Len(W) - 1,
           Made(disk, d, W, n), W[n + 1].lba \in Int, Len(W[n + 1].sectors) \in Nat,
           NEW part \in 0 .. Len(W[n + 1].sectors) - 1, disk' = After(W[n + 1], part)
    PROVE  Made(disk', d, W, n)
  <1> DEFINE w == W[n + 1]
             len == Len(w.sectors)
  <1>1. n < Len(W)
    OBVIOUS
  <1>2. ASSUME NEW lba \in LBAs, len > 1 => lba \notin Extent(w)
        PROVE  disk'[lba] = disk[lba]
    <2>1. lba \notin w.lba .. w.lba + part - 1
      <3>1. CASE len > 1
        BY <1>2, <3>1, SMTT(30) DEF Extent
      <3>2. CASE ~(len > 1)
        BY <3>2
      <3>3. QED
        BY <3>1, <3>2
    <2>2. QED
      BY <2>1, Elsewhere
  <1>3. QED
    BY <1>1, <1>2 DEF Made

\* What is on a sector that only write m has.
OnlyIn(W, m, lba) ==
    /\ lba \in Extent(W[m])
    /\ \A i \in 1 .. Len(W) : i # m => lba \notin Extent(W[i])

LEMMA MadeOnly ==
    ASSUME NEW D, NEW d, NEW W, Len(W) \in Nat, NEW n \in 0 .. Len(W), Made(D, d, W, n),
           NEW lba \in LBAs, NEW m \in 1 .. Len(W), OnlyIn(W, m, lba)
    PROVE  /\ m <= n => D[lba] = At(W[m], lba)
           /\ m > n /\ ~(Len(W[m].sectors) > 1) => D[lba] = d[lba]
  <1> USE DEF OnlyIn
  <1>1. CASE m <= n
    <2>1. n < Len(W) => n + 1 \in 1 .. Len(W) /\ n + 1 # m
      BY <1>1
    <2>2. m \in 1 .. n /\ \A i \in m .. n : i \in 1 .. Len(W)
      BY <1>1
    <2>3. QED
      BY <1>1, <2>1, <2>2 DEF Made
  <1>2. CASE m > n
    <2>1. n < Len(W) => n + 1 \in 1 .. Len(W)
      OBVIOUS
    <2>2. \A i \in 1 .. n : i \in 1 .. Len(W) /\ i # m
      BY <1>2
    <2>3. QED
      BY <1>2, <2>1, <2>2 DEF Made
  <1>3. QED
    BY <1>1, <1>2

\* What is on a sector that none has.
LEMMA MadeElsewhere ==
    ASSUME NEW D, NEW d, NEW W, Len(W) \in Nat, NEW n \in 0 .. Len(W), Made(D, d, W, n),
           NEW lba \in LBAs, \A i \in 1 .. Len(W) : lba \notin Extent(W[i])
    PROVE  D[lba] = d[lba]
  <1>1. n < Len(W) => n + 1 \in 1 .. Len(W)
    OBVIOUS
  <1>2. \A i \in 1 .. n : i \in 1 .. Len(W)
    OBVIOUS
  <1>3. QED
    BY <1>1, <1>2 DEF Made

-----------------------------------------------------------------------------
(* A fresh volume.                                                         *)

LEMMA ConcatAt ==
    ASSUME NEW S, NEW s \in Seq(S), NEW t \in Seq(S)
    PROVE  /\ s \o t \in Seq(S) /\ Len(s \o t) = Len(s) + Len(t)
           /\ \A i \in 1 .. Len(s) : (s \o t)[i] = s[i]
           /\ \A i \in 1 .. Len(t) : (s \o t)[Len(s) + i] = t[i]
  <1>1. /\ s \o t \in Seq(S) /\ Len(s \o t) = Len(s) + Len(t) /\ Len(s) \in Nat /\ Len(t) \in Nat
        /\ \A i \in 1 .. Len(s) + Len(t) :
                (s \o t)[i] = IF i <= Len(s) THEN s[i] ELSE t[i - Len(s)]
    BY ConcatProperties
  <1> DEFINE r == s \o t
             m == Len(s)
             n == Len(t)
  <1>2. m \in Nat /\ n \in Nat /\ \A i \in 1 .. m + n : r[i] = IF i <= m THEN s[i] ELSE t[i - m]
    BY <1>1
  <1> HIDE DEF r, m, n
  <1>3. \A i \in 1 .. m : r[i] = s[i]
    BY <1>2
  <1>4. \A i \in 1 .. n : r[m + i] = t[i]
    <2> TAKE i \in 1 .. n
    <2>1. m + i \in 1 .. m + n /\ ~(m + i <= m) /\ m + i - m = i
      BY <1>2
    <2>2. QED
      BY <1>2, <2>1
  <1>5. QED
    BY <1>1, <1>3, <1>4 DEF r, m, n

\* What writes that agree on a sector leave there.
LastIn(W, n, m, lba) ==
    /\ lba \in Extent(W[m])
    /\ \A i \in m .. n : lba \in Extent(W[i]) => At(W[i], lba) = At(W[m], lba)
    /\ n < Len(W) => lba \notin Extent(W[n + 1])

LEMMA MadeLast ==
    ASSUME NEW D, NEW d, NEW W, Len(W) \in Nat, NEW n \in 0 .. Len(W), Made(D, d, W, n),
           NEW lba \in LBAs, NEW m \in 1 .. n, LastIn(W, n, m, lba)
    PROVE  D[lba] = At(W[m], lba)
  BY DEF Made, LastIn

\* A write of one sector.
LEMMA OneSector ==
    ASSUME NEW lba \in Int, NEW sector
    PROVE  /\ Extent(Write(lba, <<sector>>)) = {lba}
           /\ At(Write(lba, <<sector>>), lba) = sector
           /\ Len(Write(lba, <<sector>>).sectors) = 1
           /\ Write(lba, <<sector>>).lba = lba
  <1> DEFINE w == Write(lba, <<sector>>)
  <1>1. w.lba = lba /\ w.sectors = <<sector>> /\ Len(<<sector>>) = 1 /\ <<sector>>[1] = sector
    BY DEF Write
  <1>2. lba - lba + 1 = 1 /\ lba .. lba + 1 - 1 = {lba}
    OBVIOUS
  <1> HIDE DEF w
  <1>3. Extent(w) = {lba}
    BY <1>1, <1>2 DEF Extent
  <1>4. At(w, lba) = sector
    BY <1>1, <1>2 DEF At
  <1>5. QED
    BY <1>1, <1>3, <1>4 DEF w

LEMMA SmallerIs ==
    ASSUME NEW a \in Nat, NEW b \in Nat
    PROVE  /\ Smaller(a, b) \in Nat /\ Smaller(a, b) <= a /\ Smaller(a, b) <= b
           /\ Smaller(a, b) \in {a, b}
  BY DEF Smaller

\* The zeros go over all in front of the clusters.
LEMMA ZeroShape ==
    ASSUME NEW v, NEW lo, NEW hi, VolumeIn(v, lo, hi)
    PROVE  /\ ZeroWrites(v) \in Seq(ToSet(ZeroWrites(v))) /\ Len(ZeroWrites(v)) \in Nat
           /\ \A i \in 1 .. Len(ZeroWrites(v)) : \A lba \in Extent(ZeroWrites(v)[i]) :
                    At(ZeroWrites(v)[i], lba) = Zero
           /\ \A x \in 0 .. v.root_start : \E i \in 1 .. Len(ZeroWrites(v)) :
                    v.abs + x \in Extent(ZeroWrites(v)[i])
  <1> DEFINE root == v.root_start
             n == root \div Batch + 1
             Z == ZeroWrites(v)
  <1>1. Batch \in Nat \ {0} /\ root \in Nat /\ v.abs = lo /\ lo \in Nat
    BY FatSizes DEF VolumeIn
  <1>2. Z = [b \in 1 .. n |->
            Write(lo + (b - 1) * Batch, Zeros(Smaller(Batch, root - (b - 1) * Batch + 1)))]
    BY <1>1 DEF ZeroWrites
  <1> HIDE DEF root, Z
  <1>3. n \in Nat /\ root \div Batch \in Nat
    <2>1. root \div Batch \in Nat
      BY <1>1
    <2>2. QED
      BY <2>1
  <1>4. Z \in Seq(ToSet(Z))
    BY ZerosConfined DEF Confined, Z
  <1>5. Len(Z) = n
    <2> HIDE DEF n
    <2>1. DOMAIN Z = 1 .. n
      BY <1>2
    <2>2. QED
      BY <1>3, <1>4, <2>1, LenProperties
  <1>6. ASSUME NEW b \in 1 .. n
        PROVE  /\ (b - 1) * Batch \in Nat /\ (b - 1) * Batch <= root
               /\ Smaller(Batch, root - (b - 1) * Batch + 1) \in Nat
               /\ Extent(Z[b]) = lo + (b - 1) * Batch
                    .. lo + (b - 1) * Batch + Smaller(Batch, root - (b - 1) * Batch + 1) - 1
               /\ \A lba \in Extent(Z[b]) : At(Z[b], lba) = Zero
    <2> DEFINE zs == (b - 1) * Batch
               room == root - zs + 1
               len == Smaller(Batch, room)
               w == Write(lo + zs, Zeros(len))
    <2>1. zs \in Nat /\ zs <= root
      <3>1. b \in Nat \ {0} /\ b <= root \div Batch + 1
        BY <1>3
      <3>2. QED
        BY <1>1, <3>1, Batches
    <2>2. Z[b] = w
      BY <1>2
    <2> HIDE DEF zs
    <2>3. room \in Nat
      BY <1>1, <2>1
    <2> HIDE DEF room
    <2>4. len \in Nat
      BY <1>1, <2>3, SmallerIs
    <2> HIDE DEF len
    <2>5. w.lba = lo + zs /\ w.sectors = Zeros(len) /\ Len(Zeros(len)) = len
      BY <2>4 DEF Write, Zeros
    <2>6. Extent(w) = lo + zs .. lo + zs + len - 1
      BY <2>5 DEF Extent
    <2>7. ASSUME NEW lba \in Extent(w) PROVE At(w, lba) = Zero
      <3> DEFINE i == lba - (lo + zs) + 1
      <3>1. i \in 1 .. len
        BY <1>1, <2>1, <2>4, <2>6
      <3>2. At(w, lba) = Zeros(len)[i]
        BY <2>5 DEF At
      <3> HIDE DEF i
      <3>3. QED
        BY <2>4, <3>1, <3>2 DEF Zeros
    <2> HIDE DEF w
    <2>8. QED
      BY <2>1, <2>2, <2>4, <2>6, <2>7 DEF zs, len, room
  <1>7. ASSUME NEW x \in 0 .. root PROVE \E i \in 1 .. n : lo + x \in Extent(Z[i])
    <2> DEFINE q == x \div Batch
               b == q + 1
               zs == (b - 1) * Batch
               len == Smaller(Batch, root - zs + 1)
    <2>1. q \in Nat /\ q * Batch \in Int /\ q * Batch <= x /\ x <= q * Batch + Batch - 1
      <3>1. x \in Nat /\ x \in Int
        BY <1>1
      <3>2. QED
        BY <1>1, <3>1, Quotient
    <2>2. q <= root \div Batch
      BY <1>1, QuotientGrows
    <2> HIDE DEF q
    <2>3. b \in 1 .. n /\ zs = q * Batch
      <3>1. b - 1 = q
        BY <2>1
      <3>2. QED
        BY <1>3, <2>1, <2>2, <3>1
    <2>4. zs \in Nat /\ zs <= root /\ Extent(Z[b]) = lo + zs .. lo + zs + len - 1
      BY <1>6, <2>3
    <2>5. len \in {Batch, root - zs + 1} /\ len \in Nat
      <3>1. root - zs + 1 \in Nat
        BY <1>1, <2>4
      <3>2. QED
        BY <1>1, <3>1, SmallerIs
    <2> HIDE DEF b, zs, len, n
    <2>6. lo + x \in lo + zs .. lo + zs + len - 1
      BY <1>1, <2>1, <2>3, <2>4, <2>5
    <2>7. QED
      BY <2>3, <2>4, <2>6
  <1>8. QED
    BY <1>1, <1>3, <1>4, <1>5, <1>6, <1>7 DEF Z, root

\* The single sectors of a format, and what they get.
FormatPlaces(v) ==
    <<v.abs, v.abs + 6, v.abs + 1, v.abs + 7, FatSector(v, 0, 0), FatSector(v, 1, 0),
      SectorOf(v, 2), SectorOf(v, 3), SectorOf(v, 4), SectorOf(v, 5)>>
FreshFat == Fat([e \in 0 .. PerSector - 1 |-> IF e <= 5 THEN Eoc ELSE 0])
BootSector(v, total) == [is |-> "boot", total |-> total, fatsz |-> v.fatsz]
FormatSectors(v, total) ==
    <<BootSector(v, total), BootSector(v, total), Info(v, 6), Info(v, 6), FreshFat, FreshFat,
      Dir(<<Dirent("EFI", 3, 0), Dirent("BOOT", 5, 0)>>), Dir(<<Dirent("BOOT", 4, 0)>>),
      Dir(<<>>), Dir(<<>>)>>

LEMMA FormatShape ==
    ASSUME NEW v, NEW lo, NEW hi, VolumeIn(v, lo, hi), NEW total
    PROVE  LET Z == ZeroWrites(v)
               W == df_format_esp(v, total)
           IN  /\ W \in Seq(ToSet(W)) /\ Len(W) = Len(Z) + 10 /\ Len(Z) \in Nat
               /\ \A i \in 1 .. Len(Z) : W[i] = Z[i]
               /\ \A i \in 1 .. 10 : W[Len(Z) + i] =
                    Write(FormatPlaces(v)[i], <<FormatSectors(v, total)[i]>>)
  <1> DEFINE boot == BootSector(v, total)
             Z == ZeroWrites(v)
             W == df_format_esp(v, total)
             boots == <<Write(v.abs, <<boot>>), Write(v.abs + 6, <<boot>>)>>
             infos == InfoWrites(v, 6)
             w1 == Write(FatSector(v, 0, 0), <<FreshFat>>)
             w2 == Write(FatSector(v, 1, 0), <<FreshFat>>)
             w3 == Write(SectorOf(v, 2), <<Dir(<<Dirent("EFI", 3, 0), Dirent("BOOT", 5, 0)>>)>>)
             w4 == Write(SectorOf(v, 3), <<Dir(<<Dirent("BOOT", 4, 0)>>)>>)
             w5 == Write(SectorOf(v, 4), <<Dir(<<>>)>>)
             w6 == Write(SectorOf(v, 5), <<Dir(<<>>)>>)
             six == <<w1, w2, w3, w4, w5, w6>>
             S == ToSet(Z) \cup {boots[1], boots[2], infos[1], infos[2], w1, w2, w3, w4, w5, w6}
  <1>1. W = Z \o boots \o infos \o six
    BY DEF df_format_esp, FreshFat, BootSector
  <1>2. infos = <<Write(v.abs + 1, <<Info(v, 6)>>), Write(v.abs + 7, <<Info(v, 6)>>)>>
    BY DEF InfoWrites
  <1>3. \A i \in 1 .. 10 : Write(FormatPlaces(v)[i], <<FormatSectors(v, total)[i]>>) =
            IF i <= 2 THEN boots[i] ELSE IF i <= 4 THEN infos[i - 2] ELSE six[i - 4]
    <2> DEFINE Same(i) == Write(FormatPlaces(v)[i], <<FormatSectors(v, total)[i]>>) =
                    IF i <= 2 THEN boots[i] ELSE IF i <= 4 THEN infos[i - 2] ELSE six[i - 4]
    <2>1. Same(1) /\ Same(2)
      BY DEF FormatPlaces, FormatSectors
    <2>2. Same(3) /\ Same(4)
      BY <1>2 DEF FormatPlaces, FormatSectors
    <2>3. Same(5) /\ Same(6)
      BY DEF FormatPlaces, FormatSectors
    <2>4. Same(7) /\ Same(8)
      BY DEF FormatPlaces, FormatSectors
    <2>5. Same(9) /\ Same(10)
      BY DEF FormatPlaces, FormatSectors
    <2> HIDE DEF Same
    <2>6. \A i \in 1 .. 10 : Same(i)
      BY <2>1, <2>2, <2>3, <2>4, <2>5
    <2>7. QED
      BY <2>6 DEF Same
  <1> HIDE DEF w1, w2, w3, w4, w5, w6
  <1>4. Z \in Seq(ToSet(Z)) /\ Len(Z) \in Nat
    BY ZeroShape
  <1>5. Z \in Seq(S)
    <2> HIDE DEF Z, boots, infos
    <2>1. QED
      BY <1>4
  <1>6. boots \in Seq(S) /\ Len(boots) = 2
    OBVIOUS
  <1>7. infos \in Seq(S) /\ Len(infos) = 2
    BY <1>2
  <1>8. six \in Seq(S) /\ Len(six) = 6
    OBVIOUS
  <1> HIDE DEF W, Z, boots, infos, six, S
  <1> DEFINE zb == Z \o boots
             zbi == zb \o infos
  <1>9. /\ zb \in Seq(S) /\ Len(zb) = Len(Z) + 2
        /\ \A i \in 1 .. Len(Z) : zb[i] = Z[i]
        /\ \A i \in 1 .. 2 : zb[Len(Z) + i] = boots[i]
    BY <1>5, <1>6, ConcatAt
  <1> HIDE DEF zb
  <1>10. /\ zbi \in Seq(S) /\ Len(zbi) = Len(zb) + 2
         /\ \A i \in 1 .. Len(zb) : zbi[i] = zb[i]
         /\ \A i \in 1 .. 2 : zbi[Len(zb) + i] = infos[i]
    <2>1. /\ zbi \in Seq(S) /\ Len(zbi) = Len(zb) + Len(infos)
          /\ \A i \in 1 .. Len(zb) : zbi[i] = zb[i]
          /\ \A i \in 1 .. Len(infos) : zbi[Len(zb) + i] = infos[i]
      <3>1. zb \in Seq(S) /\ infos \in Seq(S)
        BY <1>7, <1>9
      <3>2. QED
        BY <3>1, ConcatAt
    <2> HIDE DEF zbi
    <2>2. QED
      BY <1>7, <2>1
  <1> HIDE DEF zbi
  <1>11. /\ W \in Seq(S) /\ Len(W) = Len(zbi) + 6
         /\ \A i \in 1 .. Len(zbi) : W[i] = zbi[i]
         /\ \A i \in 1 .. 6 : W[Len(zbi) + i] = six[i]
    <2>1. W = zbi \o six
      BY <1>1 DEF zb, zbi
    <2>2. /\ zbi \o six \in Seq(S) /\ Len(zbi \o six) = Len(zbi) + Len(six)
          /\ \A i \in 1 .. Len(zbi) : (zbi \o six)[i] = zbi[i]
          /\ \A i \in 1 .. Len(six) : (zbi \o six)[Len(zbi) + i] = six[i]
      <3>1. zbi \in Seq(S) /\ six \in Seq(S)
        BY <1>8, <1>10
      <3>2. QED
        BY <3>1, ConcatAt
    <2>3. QED
      BY <1>8, <2>1, <2>2
  <1>12. W \in Seq(ToSet(W))
    BY FormatConfined DEF Confined, W
  <1> DEFINE n == Len(Z)
  <1>13. n \in Nat /\ Len(zb) = n + 2 /\ Len(zbi) = n + 4 /\ Len(W) = n + 10
    BY <1>4, <1>9, <1>10, <1>11
  <1> HIDE DEF n
  <1>14. \A i \in 1 .. n : W[i] = Z[i]
    <2> TAKE i \in 1 .. n
    <2>1. i \in 1 .. n + 2 /\ i \in 1 .. n + 4
      BY <1>13
    <2>2. W[i] = zbi[i] /\ zbi[i] = zb[i] /\ zb[i] = Z[i]
      BY <1>9, <1>10, <1>11, <1>13, <2>1 DEF n
    <2>3. QED
      BY <2>2
  <1>15. \A i \in 1 .. 10 : W[n + i] =
            IF i <= 2 THEN boots[i] ELSE IF i <= 4 THEN infos[i - 2] ELSE six[i - 4]
    <2> TAKE i \in 1 .. 10
    <2>1. CASE i <= 2
      <3>1. i \in 1 .. 2 /\ n + i \in 1 .. n + 2 /\ n + i \in 1 .. n + 4
        BY <1>13, <2>1
      <3>2. W[n + i] = zbi[n + i] /\ zbi[n + i] = zb[n + i] /\ zb[n + i] = boots[i]
        BY <1>9, <1>10, <1>11, <1>13, <3>1 DEF n
      <3>3. QED
        BY <2>1, <3>2
    <2>2. CASE i > 2 /\ i <= 4
      <3>1. i - 2 \in 1 .. 2 /\ n + i \in 1 .. n + 4 /\ n + i = n + 2 + (i - 2) /\ ~(i <= 2)
        BY <1>13, <2>2
      <3>2. W[n + i] = zbi[n + i] /\ zbi[n + 2 + (i - 2)] = infos[i - 2]
        BY <1>10, <1>11, <1>13, <3>1
      <3>3. QED
        BY <2>2, <3>1, <3>2
    <2>3. CASE i > 4
      <3>1. i - 4 \in 1 .. 6 /\ n + i = n + 4 + (i - 4) /\ ~(i <= 2) /\ ~(i <= 4)
        BY <1>13, <2>3
      <3>2. W[n + 4 + (i - 4)] = six[i - 4]
        BY <1>11, <1>13, <3>1
      <3>3. QED
        BY <3>1, <3>2
    <2>4. QED
      BY <2>1, <2>2, <2>3
  <1>16. \A i \in 1 .. 10 : W[n + i] = Write(FormatPlaces(v)[i], <<FormatSectors(v, total)[i]>>)
    BY <1>3, <1>15
  <1>17. QED
    BY <1>12, <1>13, <1>14, <1>16 DEF W, Z, n

LEMMA VolumeNats ==
    ASSUME NEW v, NEW lo, NEW hi, VolumeIn(v, lo, hi)
    PROVE  /\ v.abs \in Nat /\ v.root_start \in Nat /\ v.fatsz \in Nat \ {0} /\ v.coc \in Nat
           /\ Reserved \in Nat /\ v.abs = lo /\ v.root_start = Reserved + 2 * v.fatsz
           /\ FatSector(v, 0, 0) = v.abs + Reserved
           /\ FatSector(v, 1, 0) = v.abs + Reserved + v.fatsz
           /\ Reserved > 7 /\ v.coc > 5 /\ v.abs + v.root_start + v.coc - 1 = hi
           /\ hi \in Nat /\ v.nfree \in 6 .. v.coc + 2
           /\ PerSector \in Nat /\ PerSector > 5
           /\ v.fatsz * PerSector \in Nat /\ v.coc + 2 <= v.fatsz * PerSector
  BY FatSizes DEF VolumeIn, FatSector

\* They are distinct sectors.
LEMMA PlacesDiffer ==
    ASSUME NEW v, NEW lo, NEW hi, VolumeIn(v, lo, hi)
    PROVE  /\ \A i \in 1 .. 10 : FormatPlaces(v)[i] \in lo .. hi
           /\ \A i, k \in 1 .. 10 : i # k => FormatPlaces(v)[i] # FormatPlaces(v)[k]
           /\ \A i \in 1 .. 10 : /\ FormatPlaces(v)[i] \in v.abs + Reserved .. v.abs + v.root_start - 1
                                  => FormatPlaces(v)[i] \in {FatSector(v, 0, 0), FatSector(v, 1, 0)}
  <1> DEFINE p == FormatPlaces(v)
             f == v.fatsz
             r == v.root_start
  <1>1. f \in Nat \ {0} /\ lo \in Nat /\ hi \in Nat /\ r = Reserved + 2 * f
        /\ Reserved \in Nat /\ Reserved > 7 /\ lo + r + 5 <= hi /\ v.abs = lo
    BY FatSizes DEF VolumeIn
  <1>2. /\ p[1] = lo /\ p[2] = lo + 6 /\ p[3] = lo + 1 /\ p[4] = lo + 7
        /\ p[5] = lo + Reserved /\ p[6] = lo + Reserved + f
        /\ p[7] = lo + r /\ p[8] = lo + r + 1 /\ p[9] = lo + r + 2 /\ p[10] = lo + r + 3
    <2>1. /\ FatSector(v, 0, 0) = lo + Reserved /\ FatSector(v, 1, 0) = lo + Reserved + f
          /\ SectorOf(v, 2) = lo + r /\ SectorOf(v, 3) = lo + r + 1
          /\ SectorOf(v, 4) = lo + r + 2 /\ SectorOf(v, 5) = lo + r + 3
      BY <1>1 DEF FatSector, SectorOf
    <2>2. QED
      BY <1>1, <2>1 DEF FormatPlaces
  <1> HIDE DEF p, f, r
  <1>3. \A i \in 1 .. 10 : i \in {1, 2, 3, 4, 5, 6, 7, 8, 9, 10}
    OBVIOUS
  <1>4. \A i \in 1 .. 10 : p[i] \in lo .. hi
    BY <1>1, <1>2, <1>3
  <1>5. \A i, k \in 1 .. 10 : i # k => p[i] # p[k]
    BY <1>1, <1>2, <1>3
  <1>6. ASSUME NEW i \in 1 .. 10, p[i] \in lo + Reserved .. lo + r - 1 PROVE p[i] \in {p[5], p[6]}
    BY <1>1, <1>2, <1>3, <1>6
  <1>7. p[5] = FatSector(v, 0, 0) /\ p[6] = FatSector(v, 1, 0)
    BY DEF p, FormatPlaces
  <1>8. QED
    BY <1>1, <1>4, <1>5, <1>6, <1>7 DEF p, r

\* The FATs are between the reserved sectors and the clusters.
LEMMA FatPlaces ==
    ASSUME NEW v, NEW lo, NEW hi, VolumeIn(v, lo, hi),
           NEW copy \in {0, 1}, NEW s \in 0 .. v.fatsz - 1
    PROVE  /\ FatSector(v, copy, s) \in v.abs + Reserved .. v.abs + v.root_start - 1
           /\ FatSector(v, copy, s) \in lo .. hi
           /\ FatSector(v, copy, s) = v.abs + Reserved + s + (IF copy = 0 THEN 0 ELSE v.fatsz)
  <1> DEFINE f == v.fatsz
             r == v.root_start
  <1>1. f \in Nat \ {0} /\ lo \in Nat /\ hi \in Nat /\ r = Reserved + 2 * f
        /\ Reserved \in Nat /\ Reserved > 7 /\ lo + r + 5 <= hi /\ v.abs = lo
    BY FatSizes DEF VolumeIn
  <1>2. FatSector(v, copy, s) = lo + Reserved + s + (IF copy = 0 THEN 0 ELSE f)
    BY <1>1 DEF FatSector
  <1>3. s \in 0 .. f - 1
    OBVIOUS
  <1> HIDE DEF f, r
  <1>4. QED
    BY <1>1, <1>2, <1>3 DEF f, r

LEMMA MadeAll ==
    ASSUME NEW D, NEW d, NEW W, Len(W) \in Nat, Made(D, d, W, Len(W)),
           NEW lba \in LBAs, NEW m \in 1 .. Len(W), lba \in Extent(W[m]),
           \A i \in m .. Len(W) : lba \in Extent(W[i]) => At(W[i], lba) = At(W[m], lba)
    PROVE  D[lba] = At(W[m], lba)
  <1>1. ~(Len(W) < Len(W))
    OBVIOUS
  <1>2. QED
    BY <1>1 DEF Made

\* What a format leaves: both FATs the same, with the directories' chains and no
\* other, and empty directories for the files.
LEMMA FormatDone ==
    ASSUME NEW v, NEW lo, NEW hi, VolumeIn(v, lo, hi), lo .. hi \subseteq LBAs, NEW total,
           NEW D, NEW d, Made(D, d, df_format_esp(v, total), Len(df_format_esp(v, total)))
    PROVE  /\ \A i \in 1 .. 10 : D[FormatPlaces(v)[i]] = FormatSectors(v, total)[i]
           /\ \A copy \in {0, 1} : \A s \in 1 .. v.fatsz - 1 : D[FatSector(v, copy, s)] = Zero
  <1> DEFINE Z == ZeroWrites(v)
             W == df_format_esp(v, total)
             n == Len(Z)
             p == FormatPlaces(v)
  <1>1. /\ W \in Seq(ToSet(W)) /\ Len(W) = n + 10 /\ n \in Nat
        /\ \A i \in 1 .. n : W[i] = Z[i]
        /\ \A i \in 1 .. 10 : W[n + i] = Write(p[i], <<FormatSectors(v, total)[i]>>)
    BY FormatShape
  <1>2. \A i \in 1 .. 10 : p[i] \in lo .. hi /\ p[i] \in LBAs /\ p[i] \in Int
    BY PlacesDiffer, SMTT(30) DEF LBAs
  <1>3. \A i, k \in 1 .. 10 : i # k => p[i] # p[k]
    BY PlacesDiffer
  <1>4. \A i \in 1 .. 10 : /\ Extent(W[n + i]) = {p[i]}
                            /\ At(W[n + i], p[i]) = FormatSectors(v, total)[i]
    <2> DEFINE what == FormatSectors(v, total)
    <2> HIDE DEF W, p, n, what
    <2> TAKE i \in 1 .. 10
    <2>1. p[i] \in Int /\ W[n + i] = Write(p[i], <<what[i]>>)
      BY <1>1, <1>2 DEF what
    <2>2. QED
      BY <2>1, OneSector DEF what
  <1>5. Made(D, d, W, Len(W))
    OBVIOUS
  <1> HIDE DEF W, p, n
  <1> DEFINE all == Len(W)
  <1>9. n \in Nat /\ all = n + 10 /\ all \in Nat
    BY <1>1
  <1> HIDE DEF all
  <1>6. ASSUME NEW i \in 1 .. 10 PROVE D[p[i]] = FormatSectors(v, total)[i]
    <2> DEFINE m == n + i
    <2>1. m \in 1 .. all
      BY <1>9
    <2>2. \A k \in m .. all : p[i] \in Extent(W[k]) => k = m
      <3> TAKE k \in m .. all
      <3>1. PICK a \in 1 .. 10 : k = n + a
        <4>1. k - n \in 1 .. 10 /\ k = n + (k - n)
          BY <1>9
        <4>2. QED
          BY <4>1
      <3>2. QED
        BY <1>3, <1>4, <3>1
    <2>3. p[i] \in Extent(W[m]) /\ p[i] \in LBAs
      BY <1>2, <1>4
    <2> HIDE DEF m
    <2>4. D[p[i]] = At(W[m], p[i])
      <3>1. m \in 1 .. Len(W) /\ Len(W) \in Nat
        BY <1>9, <2>1 DEF all
      <3>2. \A k \in m .. Len(W) : p[i] \in Extent(W[k]) => At(W[k], p[i]) = At(W[m], p[i])
        BY <2>2 DEF all
      <3>3. QED
        BY <1>5, <2>3, <3>1, <3>2, MadeAll
    <2>5. QED
      BY <1>4, <2>4 DEF m
  <1>7. ASSUME NEW copy \in {0, 1}, NEW s \in 1 .. v.fatsz - 1
        PROVE  D[FatSector(v, copy, s)] = Zero
    <2> DEFINE x == FatSector(v, copy, s)
               y == x - v.abs
    <2>1. /\ x \in v.abs + Reserved .. v.abs + v.root_start - 1 /\ x \in lo .. hi
          /\ x = v.abs + Reserved + s + (IF copy = 0 THEN 0 ELSE v.fatsz)
      <3>1. s \in 0 .. v.fatsz - 1
        BY DEF VolumeIn
      <3>2. QED
        BY <3>1, FatPlaces
    <2>2. \A i \in 1 .. 10 : p[i] # x
      <3>1. x # FatSector(v, 0, 0) /\ x # FatSector(v, 1, 0)
        <4>1. /\ FatSector(v, 0, 0) = v.abs + Reserved
              /\ FatSector(v, 1, 0) = v.abs + Reserved + v.fatsz
              /\ v.abs \in Nat /\ v.fatsz \in Nat /\ Reserved \in Nat
          BY VolumeNats
        <4> HIDE DEF x
        <4>2. QED
          BY <2>1, <4>1, SMTT(30)
      <3>2. \A i \in 1 .. 10 : p[i] \in v.abs + Reserved .. v.abs + v.root_start - 1
                    => p[i] \in {FatSector(v, 0, 0), FatSector(v, 1, 0)}
        BY PlacesDiffer DEF p
      <3> HIDE DEF x
      <3>3. QED
        BY <2>1, <3>1, <3>2
    <2>9. y \in 0 .. v.root_start /\ v.abs + y = x /\ x \in LBAs
      <3>1. v.abs \in Nat /\ v.root_start \in Nat /\ Reserved \in Nat
        BY VolumeNats
      <3> HIDE DEF x
      <3>2. QED
        BY <2>1, <3>1, SMTT(30)
    <2> HIDE DEF x, y
    <2>3. PICK m \in 1 .. n : x \in Extent(Z[m])
      BY <2>9, ZeroShape DEF n
    <2>4. \A i \in 1 .. n : x \in Extent(Z[i]) => At(Z[i], x) = Zero
      BY ZeroShape DEF n
    <2>5. \A i \in m .. all : x \in Extent(W[i]) => At(W[i], x) = Zero
      <3> TAKE i \in m .. all
      <3>1. CASE i <= n
        <4>1. i \in 1 .. n
          BY <1>9, <3>1
        <4>2. QED
          BY <1>1, <2>4, <4>1
      <3>2. CASE i > n
        <4>1. PICK a \in 1 .. 10 : i = n + a
          <5>1. i - n \in 1 .. 10 /\ i = n + (i - n)
            BY <1>9, <3>2
          <5>2. QED
            BY <5>1
        <4>2. QED
          BY <1>4, <2>2, <4>1
      <3>3. QED
        BY <1>9, <3>1, <3>2
    <2>6. m \in 1 .. all /\ x \in Extent(W[m]) /\ At(W[m], x) = Zero
      BY <1>1, <1>9, <2>3, <2>4
    <2>7. D[x] = At(W[m], x)
      <3>1. \A i \in m .. Len(W) : x \in Extent(W[i]) => At(W[i], x) = At(W[m], x)
        BY <2>5, <2>6 DEF all
      <3>2. m \in 1 .. Len(W) /\ Len(W) \in Nat
        BY <1>9, <2>6 DEF all
      <3>3. QED
        BY <1>5, <2>6, <2>9, <3>1, <3>2, MadeAll
    <2>8. QED
      BY <2>6, <2>7 DEF x
  <1>8. QED
    BY <1>6, <1>7 DEF p

-----------------------------------------------------------------------------
(* A file.                                                                 *)

\* The writes of a body and of a chain.
BodyLen(nclus) == (nclus - 1) \div Batch + 1
From(first) == first \div PerSector
ChainLen(first, last) == 2 * (From(last) - From(first) + 1)

LEMMA LastFits ==
    ASSUME NEW v, NEW lo, NEW hi, VolumeIn(v, lo, hi), NEW size \in Nat, Fits(v, size)
    PROVE  /\ Clusters(size) \in Nat \ {0} /\ v.nfree \in 6 .. v.coc + 1
           /\ v.nfree + Clusters(size) - 1 \in v.nfree .. v.coc + 1
           /\ AfterFile(v, size) = v.nfree + Clusters(size)
  <1>1. v.coc \in Nat
    BY VolumeNats
  <1>2. QED
    BY <1>1, FileFits DEF AfterFile

\* The body is over the file's clusters, all of them.
BodyOver(s, v, name, first, last, n) ==
    /\ \A b \in 1 .. n :
        /\ Extent(s[b]) \subseteq SectorOf(v, first) .. SectorOf(v, last)
        /\ \A c \in first .. last : SectorOf(v, c) \in Extent(s[b])
                => At(s[b], SectorOf(v, c)) = Data(name, c - first + 1)
    /\ \A c \in first .. last : \E b \in 1 .. n : SectorOf(v, c) \in Extent(s[b])

LEMMA BodyShape ==
    ASSUME NEW v, NEW lo, NEW hi, VolumeIn(v, lo, hi), NEW nclus \in Nat \ {0},
           v.nfree + nclus <= v.coc + 2, NEW name
    PROVE  /\ BodyWrites(v, name, nclus) \in Seq(ToSet(BodyWrites(v, name, nclus)))
           /\ Len(BodyWrites(v, name, nclus)) = BodyLen(nclus) /\ BodyLen(nclus) \in Nat
           /\ BodyOver(BodyWrites(v, name, nclus), v, name, v.nfree, v.nfree + nclus - 1,
                       BodyLen(nclus))
  <1> DEFINE s == BodyWrites(v, name, nclus)
             base == v.abs + v.root_start + v.nfree - 2
             n == (nclus - 1) \div Batch + 1
             Len1(wi) == Smaller(Batch, nclus - wi)
             Part(wi) == [c \in 1 .. Len1(wi) |-> Data(name, wi + c)]
             Lba(wi) == SectorOf(v, v.nfree + wi)
  <1>0. v.abs \in Nat /\ v.root_start \in Nat /\ v.nfree \in Nat /\ v.nfree >= 6
    BY VolumeNats
  <1>1. Batch \in Nat \ {0} /\ base \in Nat /\ nclus - 1 \in Nat /\ v.nfree \in Nat
    BY <1>0, FatSizes
  <1>13. \A x \in Int : SectorOf(v, v.nfree + x) = base + x
    BY <1>0 DEF SectorOf
  <1> HIDE DEF base
  <1>2. n \in Nat
    <2> DEFINE a == nclus - 1
    <2>1. a \in Nat
      BY <1>1
    <2> HIDE DEF a
    <2>2. a \div Batch \in Nat
      BY <1>1, <2>1
    <2>3. QED
      BY <2>2 DEF a
  <1>3. s = [b \in 1 .. n |-> Write(Lba((b - 1) * Batch), Part((b - 1) * Batch))]
    <2>1. (nclus + Batch - 1) \div Batch = n
      BY <1>1, Rounded
    <2> HIDE DEF n
    <2>2. QED
      BY <2>1 DEF BodyWrites
  <1>4. s \in Seq(ToSet(s))
    BY BodyConfined DEF Confined
  <1>5. Len(s) = n
    <2> HIDE DEF n
    <2>1. DOMAIN s = 1 .. n
      BY <1>3
    <2> HIDE DEF s
    <2>2. QED
      BY <1>2, <1>4, <2>1, LenProperties
  <1>6. ASSUME NEW b \in 1 .. n
        PROVE  /\ (b - 1) * Batch \in Nat /\ (b - 1) * Batch <= nclus - 1
               /\ Len1((b - 1) * Batch) \in Nat /\ Len1((b - 1) * Batch) <= nclus - (b - 1) * Batch
               /\ Len1((b - 1) * Batch) \in {Batch, nclus - (b - 1) * Batch}
               /\ Extent(s[b]) =
                    base + (b - 1) * Batch .. base + (b - 1) * Batch + Len1((b - 1) * Batch) - 1
               /\ \A lba \in Extent(s[b]) : At(s[b], lba) = Data(name, lba - base + 1)
    <2> DEFINE wi == (b - 1) * Batch
               room == nclus - wi
               len == Smaller(Batch, room)
               w == s[b]
    <2>1. wi \in Nat /\ wi <= nclus - 1
      <3>1. b \in Nat \ {0} /\ b <= (nclus - 1) \div Batch + 1
        BY <1>2
      <3>2. QED
        BY <1>1, <3>1, Batches
    <2>2. w.lba = Lba(wi) /\ w.sectors = Part(wi)
      BY <1>3 DEF Write
    <2>3. w.lba = base + wi
      <3>1. w.lba = Lba(wi)
        BY <2>2
      <3> HIDE DEF wi, w
      <3>2. QED
        BY <1>13, <2>1, <3>1
    <2>4. w.sectors = [c \in 1 .. len |-> Data(name, wi + c)]
      BY <2>2
    <2> HIDE DEF wi, w, s
    <2>5. room \in Nat
      BY <2>1
    <2> HIDE DEF room
    <2>6. len \in Nat /\ len <= room /\ len \in {Batch, room}
      BY <1>1, <2>5, SmallerIs
    <2> HIDE DEF len
    <2>7. Len(w.sectors) = len
      BY <2>4, <2>6
    <2>8. Extent(w) = base + wi .. base + wi + len - 1
      BY <2>3, <2>7 DEF Extent
    <2>9. ASSUME NEW lba \in Extent(w) PROVE At(w, lba) = Data(name, lba - base + 1)
      <3>0. lba \in base + wi .. base + wi + len - 1
        BY <2>8
      <3>1. lba - (base + wi) + 1 \in 1 .. len /\ wi + (lba - (base + wi) + 1) = lba - base + 1
        BY <1>1, <2>1, <2>6, <3>0
      <3>2. QED
        BY <2>3, <2>4, <3>1 DEF At
    <2>10. QED
      BY <2>1, <2>6, <2>8, <2>9 DEF wi, room, len, w
  <1> HIDE DEF s
  <1>7. ASSUME NEW c \in v.nfree .. v.nfree + nclus - 1
        PROVE  /\ SectorOf(v, c) = base + (c - v.nfree) /\ c - v.nfree \in 0 .. nclus - 1
               /\ SectorOf(v, c) - base + 1 = c - v.nfree + 1
    <2>1. c - v.nfree \in 0 .. nclus - 1 /\ c = v.nfree + (c - v.nfree)
      BY <1>1
    <2> DEFINE x == c - v.nfree
    <2>2. SectorOf(v, v.nfree + x) = base + x
      BY <1>13, <2>1
    <2>3. SectorOf(v, c) = base + x
      BY <2>1, <2>2
    <2> HIDE DEF x
    <2>4. QED
      BY <1>1, <2>1, <2>3 DEF x
  <1>8. ASSUME NEW b \in 1 .. n
        PROVE  Extent(s[b]) \subseteq SectorOf(v, v.nfree) .. SectorOf(v, v.nfree + nclus - 1)
    <2> DEFINE wi == (b - 1) * Batch
               len == Len1(wi)
    <2>1. /\ wi \in Nat /\ wi <= nclus - 1 /\ len \in Nat /\ len <= nclus - wi
          /\ Extent(s[b]) = base + wi .. base + wi + len - 1
      BY <1>6
    <2> HIDE DEF wi, len
    <2>2. /\ v.nfree \in v.nfree .. v.nfree + nclus - 1 /\ v.nfree - v.nfree = 0
          /\ v.nfree + nclus - 1 \in v.nfree .. v.nfree + nclus - 1
          /\ v.nfree + nclus - 1 - v.nfree = nclus - 1
      BY <1>1
    <2>3. SectorOf(v, v.nfree) = base + 0 /\ SectorOf(v, v.nfree + nclus - 1) = base + (nclus - 1)
      BY <1>7, <2>2
    <2>4. base + wi .. base + wi + len - 1 \subseteq base + 0 .. base + (nclus - 1)
      BY <1>1, <2>1
    <2>5. QED
      BY <2>1, <2>3, <2>4
  <1>9. ASSUME NEW b \in 1 .. n, NEW c \in v.nfree .. v.nfree + nclus - 1,
               SectorOf(v, c) \in Extent(s[b])
        PROVE  At(s[b], SectorOf(v, c)) = Data(name, c - v.nfree + 1)
    BY <1>6, <1>7, <1>9
  <1>10. ASSUME NEW c \in v.nfree .. v.nfree + nclus - 1
         PROVE  \E b \in 1 .. n : SectorOf(v, c) \in Extent(s[b])
    <2> DEFINE x == c - v.nfree
               q == x \div Batch
               b == q + 1
               wi == (b - 1) * Batch
               len == Len1(wi)
    <2>1. x \in Nat /\ x <= nclus - 1 /\ SectorOf(v, c) = base + x
      BY <1>1, <1>7
    <2> HIDE DEF x
    <2>2. q \in Nat /\ q * Batch \in Int /\ q * Batch <= x /\ x <= q * Batch + Batch - 1
      <3>1. x \in Int
        BY <2>1
      <3>2. QED
        BY <1>1, <2>1, <3>1, Quotient
    <2>3. q <= (nclus - 1) \div Batch /\ (nclus - 1) \div Batch \in Nat
      BY <1>1, <2>1, QuotientGrows
    <2> HIDE DEF q
    <2>4. b \in 1 .. n /\ wi = q * Batch
      <3>1. b - 1 = q
        BY <2>2
      <3>2. wi = q * Batch
        BY <3>1
      <3>3. b \in 1 .. n
        BY <2>2, <2>3
      <3>4. QED
        BY <3>2, <3>3
    <2>5. /\ wi \in Nat /\ len \in Nat /\ len \in {Batch, nclus - wi}
          /\ Extent(s[b]) = base + wi .. base + wi + len - 1
      BY <1>6, <2>4
    <2> HIDE DEF b, wi, len, n
    <2>6. base + x \in base + wi .. base + wi + len - 1
      <3>1. wi <= x /\ x <= wi + Batch - 1 /\ x <= nclus - 1
        BY <2>1, <2>2, <2>4
      <3>2. wi <= x /\ x <= wi + len - 1
        BY <1>1, <2>1, <2>5, <3>1
      <3>3. QED
        BY <1>1, <2>1, <2>5, <3>2
    <2>7. QED
      BY <2>1, <2>4, <2>5, <2>6
  <1>11. n = BodyLen(nclus)
    BY DEF BodyLen
  <1> HIDE DEF n
  <1>12. BodyOver(s, v, name, v.nfree, v.nfree + nclus - 1, n)
    BY <1>8, <1>9, <1>10 DEF BodyOver
  <1>14. QED
    BY <1>2, <1>4, <1>5, <1>11, <1>12 DEF s

LEMMA ChainTypes ==
    ASSUME NEW v, NEW lo, NEW hi, VolumeIn(v, lo, hi), NEW d,
           NEW first \in Nat, NEW last \in Nat, first <= last, last <= v.coc + 1
    PROVE  /\ df_fat_write_chain(d, v, first, last)
                \in Seq(ToSet(df_fat_write_chain(d, v, first, last)))
           /\ Len(df_fat_write_chain(d, v, first, last)) = ChainLen(first, last)
           /\ ChainLen(first, last) \in Nat /\ From(first) \in Nat /\ From(last) \in Nat
           /\ From(first) <= From(last) /\ From(last) + 1 <= v.fatsz
  <1> DEFINE chain == df_fat_write_chain(d, v, first, last)
             from == From(first)
             upto == From(last)
             n == ChainLen(first, last)
  <1>1. from \in Nat /\ upto \in Nat /\ from <= upto /\ upto + 1 <= v.fatsz
    <2>1. PerSector \in Nat \ {0} /\ v.fatsz \in Nat /\ last + 1 <= v.fatsz * PerSector
      BY FatSizes DEF VolumeIn
    <2>2. QED
      BY <2>1, QuotientGrows, QuotientBelow DEF From
  <1>2. DOMAIN chain = 1 .. n
    BY DEF df_fat_write_chain, From, ChainLen
  <1>3. n = 2 * (upto - from + 1)
    BY DEF ChainLen
  <1>4. chain \in Seq(ToSet(chain))
    BY ChainConfined DEF Confined
  <1> HIDE DEF from, upto, n, chain
  <1>5. n \in Nat
    BY <1>1, <1>3
  <1>6. Len(chain) = n
    BY <1>2, <1>4, <1>5, LenProperties
  <1>7. QED
    BY <1>1, <1>4, <1>5, <1>6 DEF from, upto, n, chain

\* Where a sector of a FAT is in the chain's writes.
Turn(first, copy, s) == 2 * (s - From(first)) + copy + 1

ChainIs(chain, v, d, first, last) ==
    /\ \A copy \in {0, 1} : \A s \in From(first) .. From(last) :
        /\ Turn(first, copy, s) \in 1 .. ChainLen(first, last)
        /\ chain[Turn(first, copy, s)] =
                Write(FatSector(v, copy, s), <<Chained(d[FatSector(v, 0, s)], s, first, last)>>)
    /\ \A i \in 1 .. ChainLen(first, last) :
        \E copy \in {0, 1} : \E s \in From(first) .. From(last) : i = Turn(first, copy, s)

LEMMA ChainShape ==
    ASSUME NEW v, NEW lo, NEW hi, VolumeIn(v, lo, hi), NEW d,
           NEW first \in Nat, NEW last \in Nat, first <= last, last <= v.coc + 1
    PROVE  ChainIs(df_fat_write_chain(d, v, first, last), v, d, first, last)
  <1> DEFINE chain == df_fat_write_chain(d, v, first, last)
             from == From(first)
             upto == From(last)
             n == ChainLen(first, last)
  <1>1. from \in Nat /\ upto \in Nat /\ from <= upto
    BY ChainTypes
  <1>2. chain = [w \in 1 .. n |->
            Write(FatSector(v, (w - 1) % 2, from + (w - 1) \div 2),
                  <<Chained(d[FatSector(v, 0, from + (w - 1) \div 2)],
                            from + (w - 1) \div 2, first, last)>>)]
    BY DEF df_fat_write_chain, From, ChainLen
  <1>3. n = 2 * (upto - from + 1)
    BY DEF ChainLen
  <1>4. \A copy, s : Turn(first, copy, s) = 2 * (s - from) + copy + 1
    BY DEF Turn
  <1> HIDE DEF from, upto, n, chain
  <1>7. ASSUME NEW copy \in {0, 1}, NEW s \in from .. upto
        PROVE  /\ Turn(first, copy, s) \in 1 .. n
               /\ chain[Turn(first, copy, s)] =
                    Write(FatSector(v, copy, s), <<Chained(d[FatSector(v, 0, s)], s, first, last)>>)
    <2> DEFINE i == 2 * (s - from) + copy + 1
    <2>1. i \in 1 .. n /\ (i - 1) % 2 = copy /\ from + (i - 1) \div 2 = s
      BY <1>1, <1>3
    <2> HIDE DEF i
    <2>2. chain[i] = Write(FatSector(v, copy, s), <<Chained(d[FatSector(v, 0, s)], s, first, last)>>)
      BY <1>2, <2>1
    <2>3. Turn(first, copy, s) = i
      BY <1>4 DEF i
    <2>4. QED
      BY <2>1, <2>2, <2>3
  <1>8. ASSUME NEW i \in 1 .. n
        PROVE  \E copy \in {0, 1} : \E s \in from .. upto : i = Turn(first, copy, s)
    <2> DEFINE copy == (i - 1) % 2
               s == from + (i - 1) \div 2
    <2>1. copy \in {0, 1} /\ s \in from .. upto /\ i = 2 * (s - from) + copy + 1
      BY <1>1, <1>3
    <2>2. QED
      BY <1>4, <2>1
  <1>9. QED
    BY <1>7, <1>8 DEF from, upto, n, chain, ChainIs

\* The parts of df_stage_file, and where each begins.
LastCluster(v, size) == v.nfree + Clusters(size) - 1
BodyEnd(size) == BodyLen(Clusters(size))
ChainEnd(v, size) == BodyEnd(size) + ChainLen(v.nfree, LastCluster(v, size))

StageIs(W, body, chain, v, dir, name, size, b, c, e) ==
    /\ W \in Seq(ToSet(W)) /\ Len(W) = e + 3
    /\ b \in Nat /\ c \in Nat /\ e \in Nat /\ e = b + c
    /\ \A i \in 1 .. b : W[i] = body[i]
    /\ \A i \in 1 .. c : W[b + i] = chain[i]
    /\ W[e + 1] = Write(SectorOf(v, dir), <<Dir(<<Dirent(name, v.nfree, size)>>)>>)
    /\ W[e + 2] = Write(v.abs + 1, <<Info(v, AfterFile(v, size))>>)
    /\ W[e + 3] = Write(v.abs + 7, <<Info(v, AfterFile(v, size))>>)

LEMMA StageShape ==
    ASSUME NEW v, NEW lo, NEW hi, VolumeIn(v, lo, hi), NEW size \in Nat, Fits(v, size),
           NEW d, NEW dir \in {4, 5}, NEW name
    PROVE  StageIs(df_stage_file(d, v, dir, name, size), BodyWrites(v, name, Clusters(size)),
                   df_fat_write_chain(d, v, v.nfree, LastCluster(v, size)), v, dir, name, size,
                   BodyEnd(size), ChainLen(v.nfree, LastCluster(v, size)), ChainEnd(v, size))
  <1> DEFINE W == df_stage_file(d, v, dir, name, size)
             nclus == Clusters(size)
             first == v.nfree
             last == first + nclus - 1
             body == BodyWrites(v, name, nclus)
             chain == df_fat_write_chain(d, v, first, last)
             entry == Write(SectorOf(v, dir), <<Dir(<<Dirent(name, first, size)>>)>>)
             names == <<entry>>
             info == InfoWrites(v, AfterFile(v, size))
             S == ToSet(body) \cup ToSet(chain) \cup {entry, info[1], info[2]}
             b == BodyLen(nclus)
             c == ChainLen(first, last)
  <1>1. /\ nclus \in Nat \ {0} /\ first \in Nat /\ last \in Nat /\ first <= last
        /\ first + nclus <= v.coc + 2 /\ last <= v.coc + 1
    <2>1. v.coc \in Nat
      BY DEF VolumeIn
    <2>2. QED
      BY <2>1, FileFits
  <1>2. W = body \o chain \o names \o info
    BY DEF df_stage_file
  <1>3. /\ info = <<Write(v.abs + 1, <<Info(v, AfterFile(v, size))>>),
                    Write(v.abs + 7, <<Info(v, AfterFile(v, size))>>)>>
    BY DEF InfoWrites
  <1>4. W \in Seq(ToSet(W))
    BY StageConfined DEF Confined
  <1> HIDE DEF nclus, first, last
  <1>5. body \in Seq(ToSet(body)) /\ Len(body) = b /\ b \in Nat
    BY <1>1, BodyShape DEF first
  <1>6. chain \in Seq(ToSet(chain)) /\ Len(chain) = c /\ c \in Nat
    BY <1>1, ChainTypes
  <1> HIDE DEF body, chain, entry, W, b, c
  <1>7. body \in Seq(S) /\ chain \in Seq(S)
    <2> HIDE DEF info
    <2>1. QED
      BY <1>5, <1>6
  <1>8. names \in Seq(S) /\ Len(names) = 1 /\ names[1] = entry
    OBVIOUS
  <1>9. info \in Seq(S) /\ Len(info) = 2
    BY <1>3
  <1> HIDE DEF names, info, S
  <1> DEFINE bc == body \o chain
             bcn == bc \o names
  <1>10. /\ bc \in Seq(S) /\ Len(bc) = Len(body) + Len(chain)
         /\ \A i \in 1 .. Len(body) : bc[i] = body[i]
         /\ \A i \in 1 .. Len(chain) : bc[Len(body) + i] = chain[i]
    BY <1>7, ConcatAt
  <1> HIDE DEF bc
  <1>11. /\ bcn \in Seq(S) /\ Len(bcn) = Len(bc) + Len(names)
         /\ \A i \in 1 .. Len(bc) : bcn[i] = bc[i]
         /\ \A i \in 1 .. Len(names) : bcn[Len(bc) + i] = names[i]
    <2>1. bc \in Seq(S) /\ names \in Seq(S)
      BY <1>8, <1>10
    <2>2. QED
      BY <2>1, ConcatAt
  <1> HIDE DEF bcn
  <1>12. /\ W \in Seq(S) /\ Len(W) = Len(bcn) + Len(info)
         /\ \A i \in 1 .. Len(bcn) : W[i] = bcn[i]
         /\ \A i \in 1 .. Len(info) : W[Len(bcn) + i] = info[i]
    <2>1. W = bcn \o info
      BY <1>2 DEF bc, bcn
    <2>2. bcn \in Seq(S) /\ info \in Seq(S)
      BY <1>9, <1>11
    <2>3. /\ bcn \o info \in Seq(S) /\ Len(bcn \o info) = Len(bcn) + Len(info)
          /\ \A i \in 1 .. Len(bcn) : (bcn \o info)[i] = bcn[i]
          /\ \A i \in 1 .. Len(info) : (bcn \o info)[Len(bcn) + i] = info[i]
      BY <2>2, ConcatAt
    <2>4. QED
      BY <2>1, <2>3
  <1> DEFINE e == b + c
  <1>13. /\ b \in Nat /\ c \in Nat /\ e \in Nat /\ Len(body) = b /\ Len(chain) = c
         /\ Len(bc) = e /\ Len(bcn) = e + 1 /\ Len(W) = e + 3
    BY <1>5, <1>6, <1>8, <1>9, <1>10, <1>11, <1>12
  <1>14. \A i \in 1 .. b : W[i] = body[i]
    <2> TAKE i \in 1 .. b
    <2>1. i \in 1 .. e /\ i \in 1 .. e + 1
      BY <1>13
    <2>2. W[i] = bcn[i] /\ bcn[i] = bc[i] /\ bc[i] = body[i]
      BY <1>10, <1>11, <1>12, <1>13, <2>1
    <2>3. QED
      BY <2>2
  <1>15. \A i \in 1 .. c : W[b + i] = chain[i]
    <2> TAKE i \in 1 .. c
    <2>1. b + i \in 1 .. e /\ b + i \in 1 .. e + 1
      BY <1>13
    <2>2. W[b + i] = bcn[b + i] /\ bcn[b + i] = bc[b + i] /\ bc[b + i] = chain[i]
      BY <1>10, <1>11, <1>12, <1>13, <2>1
    <2>3. QED
      BY <2>2
  <1>16. W[e + 1] = entry
    <2>1. e + 1 \in 1 .. e + 1 /\ 1 \in 1 .. 1
      BY <1>13
    <2>2. W[e + 1] = bcn[e + 1] /\ bcn[e + 1] = names[1]
      BY <1>8, <1>11, <1>12, <1>13, <2>1
    <2>3. QED
      BY <1>8, <2>2
  <1>17. W[e + 2] = info[1] /\ W[e + 3] = info[2]
    <2>1. e + 1 + 1 = e + 2 /\ e + 1 + 2 = e + 3 /\ 1 \in 1 .. 2 /\ 2 \in 1 .. 2
      BY <1>13
    <2>2. W[e + 1 + 1] = info[1] /\ W[e + 1 + 2] = info[2]
      BY <1>9, <1>12, <1>13, <2>1
    <2>3. QED
      BY <2>1, <2>2
  <1>18. info[1] = Write(v.abs + 1, <<Info(v, AfterFile(v, size))>>)
         /\ info[2] = Write(v.abs + 7, <<Info(v, AfterFile(v, size))>>)
    BY <1>3
  <1>19. b = BodyEnd(size) /\ e = ChainEnd(v, size) /\ c = ChainLen(v.nfree, LastCluster(v, size))
         /\ last = LastCluster(v, size)
    BY DEF b, c, BodyEnd, ChainEnd, LastCluster, nclus, first, last
  <1> HIDE DEF e
  <1>20. e = b + c
    BY DEF e
  <1>21. entry = Write(SectorOf(v, dir), <<Dir(<<Dirent(name, v.nfree, size)>>)>>)
    BY DEF entry, first
  <1>22. body = BodyWrites(v, name, Clusters(size))
         /\ chain = df_fat_write_chain(d, v, v.nfree, LastCluster(v, size))
    BY <1>19 DEF body, chain, nclus, first
  <1>23. W = df_stage_file(d, v, dir, name, size)
    BY DEF W
  <1>24. StageIs(W, body, chain, v, dir, name, size, b, c, e)
    BY <1>4, <1>13, <1>14, <1>15, <1>16, <1>17, <1>18, <1>20, <1>21 DEF StageIs
  <1>25. QED
    BY <1>19, <1>22, <1>23, <1>24

LEMMA FatSectorsDiffer ==
    ASSUME NEW v, NEW lo, NEW hi, VolumeIn(v, lo, hi),
           NEW copy \in {0, 1}, NEW s \in 0 .. v.fatsz - 1,
           NEW other \in {0, 1}, NEW r \in 0 .. v.fatsz - 1,
           FatSector(v, copy, s) = FatSector(v, other, r)
    PROVE  copy = other /\ s = r
  <1> DEFINE x == FatSector(v, copy, s)
             y == FatSector(v, other, r)
             f == v.fatsz
             base == v.abs + Reserved
  <1>1. base \in Nat /\ f \in Nat /\ s \in 0 .. f - 1 /\ r \in 0 .. f - 1
    BY VolumeNats
  <1>2. x = base + s + (IF copy = 0 THEN 0 ELSE f)
    BY FatPlaces
  <1>3. y = base + r + (IF other = 0 THEN 0 ELSE f)
    BY FatPlaces
  <1>4. x = y
    OBVIOUS
  <1> HIDE DEF x, y, f, base
  <1>5. QED
    BY <1>1, <1>2, <1>3, <1>4

\* Which sectors the writes of a file are over.
ExtentsOf(W, d, v, dir, name, size, b, e) ==
    /\ BodyOver(W, v, name, v.nfree, LastCluster(v, size), b)
    /\ \A copy \in {0, 1} : \A s \in From(v.nfree) .. From(LastCluster(v, size)) :
         /\ b + Turn(v.nfree, copy, s) \in b + 1 .. e
         /\ Extent(W[b + Turn(v.nfree, copy, s)]) = {FatSector(v, copy, s)}
         /\ Len(W[b + Turn(v.nfree, copy, s)].sectors) = 1
         /\ At(W[b + Turn(v.nfree, copy, s)], FatSector(v, copy, s)) =
                 Chained(d[FatSector(v, 0, s)], s, v.nfree, LastCluster(v, size))
    /\ \A i \in b + 1 .. e :
         \E copy \in {0, 1} : \E s \in From(v.nfree) .. From(LastCluster(v, size)) :
             i = b + Turn(v.nfree, copy, s)
    /\ /\ Extent(W[e + 1]) = {SectorOf(v, dir)} /\ Len(W[e + 1].sectors) = 1
       /\ At(W[e + 1], SectorOf(v, dir)) = Dir(<<Dirent(name, v.nfree, size)>>)
    /\ /\ Extent(W[e + 2]) = {v.abs + 1} /\ Len(W[e + 2].sectors) = 1
       /\ At(W[e + 2], v.abs + 1) = Info(v, AfterFile(v, size))
    /\ /\ Extent(W[e + 3]) = {v.abs + 7} /\ Len(W[e + 3].sectors) = 1
       /\ At(W[e + 3], v.abs + 7) = Info(v, AfterFile(v, size))

LEMMA StageExtents ==
    ASSUME NEW v, NEW lo, NEW hi, VolumeIn(v, lo, hi), NEW size \in Nat, Fits(v, size),
           NEW d, NEW dir \in {4, 5}, NEW name
    PROVE  ExtentsOf(df_stage_file(d, v, dir, name, size), d, v, dir, name, size,
                     BodyEnd(size), ChainEnd(v, size))
  <1> DEFINE W == df_stage_file(d, v, dir, name, size)
             body == BodyWrites(v, name, Clusters(size))
             first == v.nfree
             last == LastCluster(v, size)
             chain == df_fat_write_chain(d, v, first, last)
             b == BodyEnd(size)
             c == ChainLen(first, last)
             e == ChainEnd(v, size)
  <1>1. /\ b \in Nat /\ e \in Nat /\ c \in Nat /\ e = b + c
        /\ \A i \in 1 .. b : W[i] = body[i]
        /\ \A i \in 1 .. c : W[b + i] = chain[i]
        /\ W[e + 1] = Write(SectorOf(v, dir), <<Dir(<<Dirent(name, v.nfree, size)>>)>>)
        /\ W[e + 2] = Write(v.abs + 1, <<Info(v, AfterFile(v, size))>>)
        /\ W[e + 3] = Write(v.abs + 7, <<Info(v, AfterFile(v, size))>>)
    <2>1. StageIs(W, body, chain, v, dir, name, size, b, c, e)
      BY StageShape
    <2> HIDE DEF W, body, chain, b, c, e
    <2>2. QED
      BY <2>1 DEF StageIs
  <1>2. /\ first \in Nat /\ last \in Nat /\ first <= last /\ last <= v.coc + 1
        /\ Clusters(size) \in Nat \ {0} /\ first + Clusters(size) <= v.coc + 2
        /\ last = first + Clusters(size) - 1
    <2>1. v.coc \in Nat
      BY VolumeNats
    <2>2. QED
      BY <2>1, FileFits DEF LastCluster
  <1> HIDE DEF last
  <1>3. BodyOver(body, v, name, first, last, b)
    BY <1>2, BodyShape DEF BodyEnd
  <1>4. /\ \A copy \in {0, 1} : \A s \in From(first) .. From(last) :
                /\ Turn(first, copy, s) \in 1 .. c
                /\ chain[Turn(first, copy, s)] =
                        Write(FatSector(v, copy, s),
                              <<Chained(d[FatSector(v, 0, s)], s, first, last)>>)
        /\ \A i \in 1 .. c :
                \E copy \in {0, 1} : \E s \in From(first) .. From(last) : i = Turn(first, copy, s)
    <2>1. first \in Nat /\ last \in Nat /\ first <= last /\ last <= v.coc + 1
      BY <1>2
    <2>2. ChainIs(chain, v, d, first, last)
      BY <2>1, ChainShape
    <2> HIDE DEF chain
    <2>3. QED
      BY <2>2 DEF ChainIs
  <1>5. From(first) \in Nat /\ From(last) \in Nat /\ From(last) + 1 <= v.fatsz /\ v.fatsz \in Nat
    BY <1>2, ChainTypes, VolumeNats
  <1> HIDE DEF W, body, chain, b, c, e
  <1>6. ASSUME NEW copy \in {0, 1}, NEW s \in From(first) .. From(last)
        PROVE  /\ b + Turn(first, copy, s) \in b + 1 .. e
               /\ Extent(W[b + Turn(first, copy, s)]) = {FatSector(v, copy, s)}
               /\ Len(W[b + Turn(first, copy, s)].sectors) = 1
               /\ At(W[b + Turn(first, copy, s)], FatSector(v, copy, s)) =
                        Chained(d[FatSector(v, 0, s)], s, first, last)
    <2> DEFINE i == Turn(first, copy, s)
               lba == FatSector(v, copy, s)
               sector == Chained(d[FatSector(v, 0, s)], s, first, last)
    <2>1. i \in 1 .. c /\ chain[i] = Write(lba, <<sector>>)
      BY <1>4
    <2>2. lba \in Int
      <3>1. s \in 0 .. v.fatsz - 1
        BY <1>5
      <3>2. lba \in lo .. hi
        BY <3>1, FatPlaces
      <3> HIDE DEF lba
      <3>3. QED
        BY <3>2
    <2> HIDE DEF i, lba, sector
    <2>3. W[b + i] = Write(lba, <<sector>>)
      BY <1>1, <2>1
    <2>4. b + i \in b + 1 .. e
      BY <1>1, <2>1
    <2>5. QED
      BY <2>2, <2>3, <2>4, OneSector DEF i, lba, sector
  <1>7. ASSUME NEW i \in b + 1 .. e
        PROVE  \E copy \in {0, 1} : \E s \in From(first) .. From(last) :
                    i = b + Turn(first, copy, s)
    <2>1. i - b \in 1 .. c /\ i = b + (i - b)
      BY <1>1
    <2>2. QED
      BY <1>4, <2>1
  <1>8. SectorOf(v, dir) \in Int /\ v.abs + 1 \in Int /\ v.abs + 7 \in Int
    BY VolumeNats DEF SectorOf
  <1>9. /\ Extent(W[e + 1]) = {SectorOf(v, dir)} /\ Len(W[e + 1].sectors) = 1
        /\ At(W[e + 1], SectorOf(v, dir)) = Dir(<<Dirent(name, v.nfree, size)>>)
    <2> DEFINE sector == Dir(<<Dirent(name, v.nfree, size)>>)
               lba == SectorOf(v, dir)
    <2>1. W[e + 1] = Write(lba, <<sector>>) /\ lba \in Int
      BY <1>1, <1>8
    <2> HIDE DEF sector, lba
    <2>2. QED
      BY <2>1, OneSector DEF sector, lba
  <1>10. /\ Extent(W[e + 2]) = {v.abs + 1} /\ Len(W[e + 2].sectors) = 1
         /\ At(W[e + 2], v.abs + 1) = Info(v, AfterFile(v, size))
    BY <1>1, <1>8, OneSector
  <1>11. /\ Extent(W[e + 3]) = {v.abs + 7} /\ Len(W[e + 3].sectors) = 1
         /\ At(W[e + 3], v.abs + 7) = Info(v, AfterFile(v, size))
    BY <1>1, <1>8, OneSector
  <1>12. BodyOver(W, v, name, first, last, b)
    <2>1. \A i \in 1 .. b : W[i] = body[i]
      BY <1>1
    <2>2. QED
      BY <1>3, <2>1 DEF BodyOver
  <1>13. QED
    BY <1>6, <1>7, <1>9, <1>10, <1>11, <1>12 DEF W, b, e, last, ExtentsOf

\* Only its own writes are over a sector.
Whose(v, dir, size, b, e, i, lba) ==
    \/ i \in 1 .. b /\ lba \in SectorOf(v, v.nfree) .. SectorOf(v, LastCluster(v, size))
    \/ /\ i \in b + 1 .. e
       /\ \E copy \in {0, 1} : \E s \in From(v.nfree) .. From(LastCluster(v, size)) :
             i = b + Turn(v.nfree, copy, s) /\ lba = FatSector(v, copy, s)
    \/ i = e + 1 /\ lba = SectorOf(v, dir)
    \/ i = e + 2 /\ lba = v.abs + 1
    \/ i = e + 3 /\ lba = v.abs + 7

LEMMA WhoseSector ==
    ASSUME NEW W, NEW d, NEW v, NEW dir, NEW name, NEW size, NEW b \in Nat, NEW e \in Nat,
           ExtentsOf(W, d, v, dir, name, size, b, e), NEW i \in 1 .. e + 3,
           NEW lba \in Extent(W[i])
    PROVE  Whose(v, dir, size, b, e, i, lba)
  <1> USE DEF Whose
  <1>1. \/ i \in 1 .. b \/ i \in b + 1 .. e \/ i = e + 1 \/ i = e + 2 \/ i = e + 3
    OBVIOUS
  <1>2. CASE i \in 1 .. b
    BY <1>2 DEF ExtentsOf, BodyOver
  <1>3. CASE i \in b + 1 .. e
    <2>1. PICK copy \in {0, 1}, s \in From(v.nfree) .. From(LastCluster(v, size)) :
                i = b + Turn(v.nfree, copy, s)
      BY <1>3 DEF ExtentsOf
    <2>2. Extent(W[b + Turn(v.nfree, copy, s)]) = {FatSector(v, copy, s)}
      BY DEF ExtentsOf
    <2>3. lba = FatSector(v, copy, s)
      BY <2>1, <2>2
    <2>4. QED
      BY <1>3, <2>1, <2>3
  <1>4. CASE i \in {e + 1, e + 2, e + 3}
    BY <1>4 DEF ExtentsOf
  <1>5. QED
    BY <1>1, <1>2, <1>3, <1>4

\* A file on its way: what n of its writes have made of d.
Under(D, d, v, dir, name, size, n) ==
    LET b == BodyEnd(size)
        e == ChainEnd(v, size)
        first == v.nfree
        last == LastCluster(v, size)
    IN  /\ \A copy \in {0, 1} : \A s \in 0 .. v.fatsz - 1 : D[FatSector(v, copy, s)] =
                IF s \in From(first) .. From(last) /\ b + Turn(first, copy, s) <= n
                THEN Chained(d[FatSector(v, 0, s)], s, first, last) ELSE d[FatSector(v, copy, s)]
        /\ D[SectorOf(v, dir)] =
                IF e + 1 <= n THEN Dir(<<Dirent(name, first, size)>>) ELSE d[SectorOf(v, dir)]
        /\ D[v.abs + 1] = IF e + 2 <= n THEN Info(v, AfterFile(v, size)) ELSE d[v.abs + 1]
        /\ D[v.abs + 7] = IF e + 3 <= n THEN Info(v, AfterFile(v, size)) ELSE d[v.abs + 7]
        /\ D[v.abs] = d[v.abs]
        /\ \A c \in 2 .. v.coc + 1 :
                c \notin first .. last /\ c # dir => D[SectorOf(v, c)] = d[SectorOf(v, c)]
        /\ n >= b => \A c \in first .. last : D[SectorOf(v, c)] = Data(name, c - first + 1)

LEMMA StageUnder ==
    ASSUME NEW v, NEW lo, NEW hi, VolumeIn(v, lo, hi), lo .. hi \subseteq LBAs,
           NEW size \in Nat, Fits(v, size), NEW d, NEW dir \in {4, 5}, NEW name, NEW D,
           NEW n \in 0 .. ChainEnd(v, size) + 3,
           Made(D, d, df_stage_file(d, v, dir, name, size), n)
    PROVE  Under(D, d, v, dir, name, size, n)
  <1> DEFINE W == df_stage_file(d, v, dir, name, size)
             first == v.nfree
             last == LastCluster(v, size)
             b == BodyEnd(size)
             e == ChainEnd(v, size)
             root == v.abs + v.root_start
             Of(lba, i) == i \in 1 .. e + 3 /\ lba \in Extent(W[i])
  <1>1. /\ W \in Seq(ToSet(W)) /\ Len(W) = e + 3 /\ b \in Nat /\ e \in Nat /\ b <= e
    <2>1. StageIs(W, BodyWrites(v, name, Clusters(size)), df_fat_write_chain(d, v, first, last),
                  v, dir, name, size, b, ChainLen(first, last), e)
      BY StageShape
    <2> HIDE DEF W, b, e, last
    <2>2. QED
      BY <2>1 DEF StageIs
  <1>2. ExtentsOf(W, d, v, dir, name, size, b, e)
    BY StageExtents
  <1>3. /\ first \in 6 .. v.coc + 1 /\ last \in first .. v.coc + 1 /\ v.coc \in Nat
        /\ v.abs \in Nat /\ root \in Nat /\ v.abs + 7 < v.abs + Reserved /\ Reserved \in Nat
        /\ v.abs + Reserved <= root /\ lo = v.abs /\ hi = root + v.coc - 1 /\ v.fatsz \in Nat
    <2>1. v.coc \in Nat
      BY VolumeNats
    <2>2. first \in 6 .. v.coc + 1 /\ last \in first .. v.coc + 1
      BY <2>1, FileFits DEF LastCluster
    <2>3. QED
      BY <2>1, <2>2, VolumeNats
  <1>4. \A c \in Int : SectorOf(v, c) = root + c - 2
    BY <1>3, VolumeNats DEF SectorOf
  <1>5. From(first) .. From(last) \subseteq 0 .. v.fatsz - 1
    <2>1. first \in Nat /\ last \in Nat /\ first <= last /\ last <= v.coc + 1
      BY <1>3
    <2>2. From(first) \in Nat /\ From(last) \in Nat /\ From(last) + 1 <= v.fatsz
      BY <2>1, ChainTypes
    <2>3. QED
      BY <1>3, <2>2
  <1>6. Made(D, d, W, n) /\ n \in 0 .. Len(W) /\ Len(W) \in Nat
    BY <1>1
  <1>22. /\ v.abs + v.root_start - 1 = root - 1 /\ v.root_start \in Nat /\ v.abs \in Nat
         /\ root \in Nat /\ Reserved \in Nat
    BY <1>3, VolumeNats
  <1> HIDE DEF W, last, b, e, root
  <1>7. SectorOf(v, first) = root + first - 2 /\ SectorOf(v, last) = root + last - 2
        /\ SectorOf(v, dir) = root + dir - 2
    BY <1>3, <1>4
  <1>8. ASSUME NEW lba, NEW i \in 1 .. e + 3, lba \in Extent(W[i])
        PROVE  \/ i \in 1 .. b /\ lba \in root + first - 2 .. root + last - 2
               \/ /\ i \in b + 1 .. e /\ lba \in v.abs + Reserved .. root - 1
                  /\ \E copy \in {0, 1} : \E s \in From(first) .. From(last) :
                        i = b + Turn(first, copy, s) /\ lba = FatSector(v, copy, s)
               \/ i = e + 1 /\ lba = root + dir - 2
               \/ i = e + 2 /\ lba = v.abs + 1
               \/ i = e + 3 /\ lba = v.abs + 7
    <2>1. Whose(v, dir, size, b, e, i, lba)
      BY <1>1, <1>2, <1>8, WhoseSector
    <2>2. ASSUME NEW copy \in {0, 1}, NEW s \in From(first) .. From(last)
          PROVE  FatSector(v, copy, s) \in v.abs + Reserved .. root - 1
      <3>1. s \in 0 .. v.fatsz - 1
        BY <1>5
      <3>2. FatSector(v, copy, s) \in v.abs + Reserved .. v.abs + v.root_start - 1
        BY <3>1, FatPlaces
      <3>3. QED
        BY <1>3, <1>22, <3>2
    <2>3. QED
      BY <1>7, <2>1, <2>2 DEF Whose, last
  <1>11. lo .. hi \subseteq LBAs
    OBVIOUS
  <1>12. e + 3 \in Nat /\ b <= e /\ b \in Nat /\ e \in Nat
    BY <1>1
  <1> DEFINE Owns(m, lba) == m \in 1 .. e + 3 /\ lba \in Extent(W[m])
                             /\ \A i \in 1 .. e + 3 : i # m => lba \notin Extent(W[i])
             None(lba) == \A i \in 1 .. e + 3 : lba \notin Extent(W[i])
  <1>9. ASSUME NEW m, NEW lba \in LBAs, Owns(m, lba)
        PROVE  /\ m <= n => D[lba] = At(W[m], lba)
               /\ m > n /\ Len(W[m].sectors) = 1 => D[lba] = d[lba]
    <2>1. m \in 1 .. Len(W) /\ OnlyIn(W, m, lba)
      BY <1>1, <1>9 DEF OnlyIn
    <2>2. /\ m <= n => D[lba] = At(W[m], lba)
          /\ m > n /\ ~(Len(W[m].sectors) > 1) => D[lba] = d[lba]
      BY <1>6, <1>12, <2>1, MadeOnly
    <2>3. Len(W[m].sectors) = 1 => ~(Len(W[m].sectors) > 1)
      OBVIOUS
    <2>4. QED
      BY <2>2, <2>3
  <1>10. ASSUME NEW lba \in LBAs, None(lba) PROVE D[lba] = d[lba]
    BY <1>1, <1>6, <1>10, MadeElsewhere
  <1> HIDE DEF Owns, None
  <1>13. ASSUME NEW copy \in {0, 1}, NEW s \in 0 .. v.fatsz - 1
         PROVE  D[FatSector(v, copy, s)] =
                    IF s \in From(first) .. From(last) /\ b + Turn(first, copy, s) <= n
                    THEN Chained(d[FatSector(v, 0, s)], s, first, last) ELSE d[FatSector(v, copy, s)]
    <2> DEFINE lba == FatSector(v, copy, s)
               m == b + Turn(first, copy, s)
    <2>1. lba \in v.abs + Reserved .. root - 1 /\ lba \in LBAs
      <3>1. /\ FatSector(v, copy, s) \in v.abs + Reserved .. v.abs + v.root_start - 1
            /\ FatSector(v, copy, s) \in lo .. hi
        BY FatPlaces
      <3>2. QED
        BY <1>3, <1>11, <1>22, <3>1
    <2>2. ASSUME NEW i \in 1 .. e + 3, lba \in Extent(W[i])
          PROVE  s \in From(first) .. From(last) /\ i = m
      <3> HIDE DEF lba
      <3>1. \E c \in {0, 1} : \E r \in From(first) .. From(last) :
                        i = b + Turn(first, c, r) /\ lba = FatSector(v, c, r)
        BY <1>3, <1>8, <2>1, <2>2
      <3>2. PICK c \in {0, 1}, r \in From(first) .. From(last) :
                        i = b + Turn(first, c, r) /\ lba = FatSector(v, c, r)
        BY <3>1
      <3>3. r \in 0 .. v.fatsz - 1 /\ FatSector(v, copy, s) = FatSector(v, c, r)
        BY <1>5, <3>2 DEF lba
      <3>4. copy = c /\ s = r
        BY <3>3, FatSectorsDiffer
      <3>5. QED
        BY <3>2, <3>4
    <2>3. CASE s \in From(first) .. From(last)
      <3>1. /\ m \in b + 1 .. e /\ Extent(W[m]) = {lba} /\ Len(W[m].sectors) = 1
            /\ At(W[m], lba) = Chained(d[FatSector(v, 0, s)], s, first, last)
        BY <1>2, <2>3 DEF ExtentsOf, last
      <3> HIDE DEF m, lba
      <3>2. Owns(m, lba)
        BY <1>12, <2>2, <3>1 DEF Owns
      <3>3. /\ m <= n => D[lba] = At(W[m], lba)
            /\ m > n => D[lba] = d[lba]
        BY <1>9, <2>1, <3>1, <3>2
      <3>4. m <= n \/ m > n
        BY <1>12, <3>1
      <3>5. QED
        BY <2>3, <3>1, <3>3, <3>4 DEF m, lba
    <2>4. CASE s \notin From(first) .. From(last)
      <3>1. None(lba)
        BY <2>2, <2>4 DEF None
      <3>2. QED
        BY <1>10, <2>1, <2>4, <3>1
    <2>5. QED
      BY <2>3, <2>4
  <1>14. ASSUME NEW m \in {e + 1, e + 2, e + 3}, NEW lba,
                \/ m = e + 1 /\ lba = root + dir - 2
                \/ m = e + 2 /\ lba = v.abs + 1
                \/ m = e + 3 /\ lba = v.abs + 7
         PROVE  /\ m <= n => D[lba] = At(W[m], lba)
                /\ ~(m <= n) => D[lba] = d[lba]
    <2>1. lba \in LBAs
      <3>1. lba \in lo .. hi
        BY <1>3, <1>14
      <3>2. QED
        BY <1>11, <3>1
    <2>2. m \in 1 .. e + 3 /\ Extent(W[m]) = {lba} /\ Len(W[m].sectors) = 1
      BY <1>2, <1>7, <1>12, <1>14 DEF ExtentsOf
    <2>3. ASSUME NEW i \in 1 .. e + 3, lba \in Extent(W[i]) PROVE i = m
      BY <1>3, <1>8, <1>12, <1>14, <2>3
    <2>4. Owns(m, lba)
      BY <2>2, <2>3 DEF Owns
    <2>5. m <= n \/ m > n
      BY <1>12
    <2>6. QED
      BY <1>9, <2>1, <2>2, <2>4, <2>5
  <1>15. D[SectorOf(v, dir)] =
                IF e + 1 <= n THEN Dir(<<Dirent(name, first, size)>>) ELSE d[SectorOf(v, dir)]
    <2>1. At(W[e + 1], SectorOf(v, dir)) = Dir(<<Dirent(name, first, size)>>)
      BY <1>2 DEF ExtentsOf
    <2>2. /\ e + 1 <= n => D[SectorOf(v, dir)] = At(W[e + 1], SectorOf(v, dir))
          /\ ~(e + 1 <= n) => D[SectorOf(v, dir)] = d[SectorOf(v, dir)]
      BY <1>7, <1>14
    <2>3. QED
      BY <2>1, <2>2
  <1>16. D[v.abs + 1] = IF e + 2 <= n THEN Info(v, AfterFile(v, size)) ELSE d[v.abs + 1]
    <2>1. At(W[e + 2], v.abs + 1) = Info(v, AfterFile(v, size))
      BY <1>2 DEF ExtentsOf
    <2>2. /\ e + 2 <= n => D[v.abs + 1] = At(W[e + 2], v.abs + 1)
          /\ ~(e + 2 <= n) => D[v.abs + 1] = d[v.abs + 1]
      BY <1>14
    <2>3. QED
      BY <2>1, <2>2
  <1>17. D[v.abs + 7] = IF e + 3 <= n THEN Info(v, AfterFile(v, size)) ELSE d[v.abs + 7]
    <2>1. At(W[e + 3], v.abs + 7) = Info(v, AfterFile(v, size))
      BY <1>2 DEF ExtentsOf
    <2>2. /\ e + 3 <= n => D[v.abs + 7] = At(W[e + 3], v.abs + 7)
          /\ ~(e + 3 <= n) => D[v.abs + 7] = d[v.abs + 7]
      BY <1>14
    <2>3. QED
      BY <2>1, <2>2
  <1>18. D[v.abs] = d[v.abs]
    <2>1. v.abs \in lo .. hi
      BY <1>3
    <2>2. None(v.abs)
      <3>1. ASSUME NEW i \in 1 .. e + 3, v.abs \in Extent(W[i]) PROVE FALSE
        BY <1>3, <1>8, <1>12, <3>1
      <3>2. QED
        BY <3>1 DEF None
    <2>3. QED
      BY <1>10, <1>11, <2>1, <2>2
  <1>19. ASSUME NEW c \in 2 .. v.coc + 1, c \notin first .. last, c # dir
         PROVE  D[SectorOf(v, c)] = d[SectorOf(v, c)]
    <2> DEFINE lba == SectorOf(v, c)
    <2>1. lba = root + c - 2 /\ lba \in lo .. hi
      BY <1>3, <1>4
    <2> HIDE DEF lba
    <2>2. ASSUME NEW i \in 1 .. e + 3, lba \in Extent(W[i]) PROVE FALSE
      BY <1>3, <1>8, <1>12, <1>19, <2>1, <2>2
    <2>3. None(lba)
      BY <2>2 DEF None
    <2>4. D[lba] = d[lba]
      BY <1>10, <1>11, <2>1, <2>3
    <2>5. QED
      BY <2>4 DEF lba
  <1>20. ASSUME n >= b, NEW c \in first .. last
         PROVE  D[SectorOf(v, c)] = Data(name, c - first + 1)
    <2> DEFINE lba == SectorOf(v, c)
    <2>1. lba = root + c - 2 /\ lba \in lo .. hi /\ lba \in root + first - 2 .. root + last - 2
      BY <1>3, <1>4
    <2>2. /\ \E m \in 1 .. b : lba \in Extent(W[m])
          /\ \A i \in 1 .. b : lba \in Extent(W[i]) => At(W[i], lba) = Data(name, c - first + 1)
      BY <1>2 DEF ExtentsOf, BodyOver, last
    <2> HIDE DEF lba
    <2>3. ASSUME NEW i \in 1 .. e + 3, lba \in Extent(W[i]) PROVE i \in 1 .. b
      BY <1>3, <1>8, <1>12, <2>1, <2>3
    <2>4. PICK m \in 1 .. b : lba \in Extent(W[m])
      BY <2>2
    <2>5. m \in 1 .. n /\ \A i \in m .. n : i \in 1 .. e + 3
      BY <1>1, <1>6, <1>12, <1>20
    <2>6. \A i \in m .. n : lba \in Extent(W[i]) => At(W[i], lba) = At(W[m], lba)
      BY <2>2, <2>3, <2>4, <2>5
    <2>7. n < Len(W) => lba \notin Extent(W[n + 1])
      <3>1. n < Len(W) => n + 1 \in 1 .. e + 3 /\ n + 1 \notin 1 .. b
        BY <1>1, <1>6, <1>12, <1>20
      <3>2. QED
        BY <2>3, <3>1
    <2>10. LastIn(W, n, m, lba) /\ m \in 1 .. n /\ lba \in LBAs
      BY <1>11, <2>1, <2>4, <2>5, <2>6, <2>7 DEF LastIn
    <2>8. D[lba] = At(W[m], lba)
      BY <1>6, <2>10, MadeLast
    <2>9. QED
      BY <2>2, <2>4, <2>8 DEF lba
  <1>21. QED
    BY <1>13, <1>15, <1>16, <1>17, <1>18, <1>19, <1>20 DEF Under, b, e, last

-----------------------------------------------------------------------------
(* What the volume shows.                                                  *)

\* The entry of cluster c when the first file ends before p, the second before
\* q and the rest is free.
LinkAt(p, q, c) ==
    IF c <= 5 THEN Eoc ELSE IF c >= q THEN 0 ELSE IF c + 1 \in {p, q} THEN Eoc ELSE c + 1

FatShows(D, v, p, q) ==
    /\ \A s \in 0 .. v.fatsz - 1 : \A x \in 0 .. PerSector - 1 :
            LinksOf(D[FatSector(v, 0, s)])[x] = LinkAt(p, q, s * PerSector + x)
    /\ \A s \in 0 .. v.fatsz - 1 : D[FatSector(v, 1, s)] = D[FatSector(v, 0, s)]

Shows(D, v, total, p, q, boot, kernel) ==
    /\ D[v.abs] = BootSector(v, total)
    /\ D[v.abs + 1] = Info(v, q) /\ D[v.abs + 7] = Info(v, q)
    /\ FatShows(D, v, p, q)
    /\ D[SectorOf(v, 2)] = Dir(<<Dirent("EFI", 3, 0), Dirent("BOOT", 5, 0)>>)
    /\ D[SectorOf(v, 3)] = Dir(<<Dirent("BOOT", 4, 0)>>)
    /\ D[SectorOf(v, 4)] = Dir(IF p > 6 THEN <<Dirent("BOOTX64.EFI", 6, boot)>> ELSE <<>>)
    /\ D[SectorOf(v, 5)] = Dir(IF q > p THEN <<Dirent("AGNOS", p, kernel)>> ELSE <<>>)
    /\ \A c \in 6 .. p - 1 : D[SectorOf(v, c)] = Data("BOOTX64.EFI", c - 5)
    /\ \A c \in p .. q - 1 : D[SectorOf(v, c)] = Data("AGNOS", c - p + 1)

\* The clusters of a sector.
LEMMA SectorHas ==
    ASSUME NEW s \in Nat, NEW x \in 0 .. PerSector - 1, NEW first \in Nat, NEW last \in Nat,
           s * PerSector + x \in first .. last
    PROVE  s \in From(first) .. From(last) /\ s * PerSector \in Nat
  <1> DEFINE k == PerSector
             p == From(first)
             q == From(last)
  <1>1. k \in Nat \ {0} /\ s * k \in Nat /\ s * k + x \in first .. last
    BY FatSizes
  <1>2. p \in Nat /\ p * k \in Int /\ p * k <= first
    BY <1>1, Quotient DEF From
  <1>3. q \in Nat /\ q * k \in Int /\ last <= q * k + k - 1
    BY <1>1, Quotient DEF From
  <1>4. x \in 0 .. k - 1
    OBVIOUS
  <1> HIDE DEF p, q, k
  <1>5. ASSUME s + 1 <= p PROVE FALSE
    <2>1. (s + 1) * k <= p * k /\ (s + 1) * k = s * k + k
      BY <1>1, <1>2, <1>5, Times
    <2>2. QED
      BY <1>1, <1>2, <1>4, <2>1
  <1>6. ASSUME q + 1 <= s PROVE FALSE
    <2>1. (q + 1) * k <= s * k /\ (q + 1) * k = q * k + k
      BY <1>1, <1>3, <1>6, Times
    <2>2. QED
      BY <1>1, <1>3, <1>4, <2>1
  <1>7. s \in p .. q
    BY <1>2, <1>3, <1>5, <1>6
  <1>8. QED
    BY <1>1, <1>7 DEF p, q, k

LEMMA ChainedLinks ==
    ASSUME NEW old, NEW s, NEW first, NEW last, NEW x \in 0 .. PerSector - 1
    PROVE  LinksOf(Chained(old, s, first, last))[x] =
                IF s * PerSector + x \notin first .. last THEN LinksOf(old)[x]
                ELSE IF s * PerSector + x = last THEN Eoc ELSE s * PerSector + x + 1
  BY DEF LinksOf, Chained, Fat

\* The FATs while a file is chained.
LinkUnder(p, q, first, last, made, c) ==
    IF c \in first .. last /\ made THEN IF c = last THEN Eoc ELSE c + 1 ELSE LinkAt(p, q, c)

LEMMA UnderLinks ==
    ASSUME NEW v, NEW lo, NEW hi, VolumeIn(v, lo, hi), NEW size \in Nat, Fits(v, size),
           NEW D, NEW d, NEW dir, NEW name, NEW n \in Nat, Under(D, d, v, dir, name, size, n),
           NEW p, NEW q, FatShows(d, v, p, q),
           NEW copy \in {0, 1}, NEW s \in 0 .. v.fatsz - 1, NEW x \in 0 .. PerSector - 1
    PROVE  LinksOf(D[FatSector(v, copy, s)])[x] =
                LinkUnder(p, q, v.nfree, LastCluster(v, size),
                          BodyEnd(size) + Turn(v.nfree, copy, s) <= n, s * PerSector + x)
  <1> DEFINE first == v.nfree
             last == LastCluster(v, size)
             c == s * PerSector + x
             b == BodyEnd(size)
             old == d[FatSector(v, 0, s)]
             made == b + Turn(first, copy, s) <= n
  <1>1. first \in Nat /\ last \in Nat /\ s \in Nat
    <2>1. v.coc \in Nat /\ v.fatsz \in Nat
      BY VolumeNats
    <2>2. first \in 6 .. v.coc + 1 /\ last \in first .. v.coc + 1
      BY <2>1, FileFits DEF LastCluster
    <2>3. QED
      BY <2>1, <2>2
  <1>2. c \in first .. last => s \in From(first) .. From(last)
    <2> HIDE DEF first, last
    <2>1. QED
      BY <1>1, SectorHas
  <1>3. LinksOf(old)[x] = LinkAt(p, q, c)
    BY DEF FatShows
  <1>4. d[FatSector(v, copy, s)] = old
    BY DEF FatShows
  <1>5. D[FatSector(v, copy, s)] =
            IF s \in From(first) .. From(last) /\ made THEN Chained(old, s, first, last) ELSE old
    BY <1>4 DEF Under
  <1>6. LinksOf(Chained(old, s, first, last))[x] =
            IF c \notin first .. last THEN LinksOf(old)[x] ELSE IF c = last THEN Eoc ELSE c + 1
    BY ChainedLinks
  <1> HIDE DEF first, last, c, old, made, b
  <1>7. LinksOf(D[FatSector(v, copy, s)])[x] = LinkUnder(p, q, first, last, made, c)
    BY <1>2, <1>3, <1>5, <1>6 DEF LinkUnder
  <1>8. QED
    BY <1>7 DEF first, last, c, made, b

\* A format leaves an empty volume.
LEMMA FormatShows ==
    ASSUME NEW v, NEW lo, NEW hi, VolumeIn(v, lo, hi), lo .. hi \subseteq LBAs, NEW total,
           NEW D, NEW d, Made(D, d, df_format_esp(v, total), Len(df_format_esp(v, total))),
           NEW boot, NEW kernel
    PROVE  Shows(D, v, total, 6, 6, boot, kernel)
  <1>1. /\ \A i \in 1 .. 10 : D[FormatPlaces(v)[i]] = FormatSectors(v, total)[i]
        /\ \A copy \in {0, 1} : \A s \in 1 .. v.fatsz - 1 : D[FatSector(v, copy, s)] = Zero
    BY FormatDone
  <1>2. /\ D[v.abs] = BootSector(v, total)
        /\ D[v.abs + 1] = Info(v, 6) /\ D[v.abs + 7] = Info(v, 6)
        /\ D[FatSector(v, 0, 0)] = FreshFat /\ D[FatSector(v, 1, 0)] = FreshFat
        /\ D[SectorOf(v, 2)] = Dir(<<Dirent("EFI", 3, 0), Dirent("BOOT", 5, 0)>>)
        /\ D[SectorOf(v, 3)] = Dir(<<Dirent("BOOT", 4, 0)>>)
        /\ D[SectorOf(v, 4)] = Dir(<<>>) /\ D[SectorOf(v, 5)] = Dir(<<>>)
    <2>1. \A i \in 1 .. 10 : D[FormatPlaces(v)[i]] = FormatSectors(v, total)[i]
      BY <1>1
    <2>2. /\ D[FormatPlaces(v)[1]] = FormatSectors(v, total)[1]
          /\ D[FormatPlaces(v)[3]] = FormatSectors(v, total)[3]
          /\ D[FormatPlaces(v)[4]] = FormatSectors(v, total)[4]
          /\ D[FormatPlaces(v)[5]] = FormatSectors(v, total)[5]
          /\ D[FormatPlaces(v)[6]] = FormatSectors(v, total)[6]
          /\ D[FormatPlaces(v)[7]] = FormatSectors(v, total)[7]
          /\ D[FormatPlaces(v)[8]] = FormatSectors(v, total)[8]
          /\ D[FormatPlaces(v)[9]] = FormatSectors(v, total)[9]
          /\ D[FormatPlaces(v)[10]] = FormatSectors(v, total)[10]
      BY <2>1
    <2>3. QED
      BY <2>2 DEF FormatPlaces, FormatSectors
  <1>3. ASSUME NEW copy \in {0, 1}, NEW s \in 0 .. v.fatsz - 1
        PROVE  D[FatSector(v, copy, s)] = IF s = 0 THEN FreshFat ELSE Zero
    <2>1. CASE s = 0
      BY <1>2, <2>1
    <2>2. CASE s # 0
      <3>1. s \in 1 .. v.fatsz - 1
        BY <2>2, VolumeNats
      <3>2. QED
        BY <1>1, <2>2, <3>1
    <2>3. QED
      BY <2>1, <2>2
  <1>4. ASSUME NEW s \in 0 .. v.fatsz - 1, NEW x \in 0 .. PerSector - 1
        PROVE  LinksOf(D[FatSector(v, 0, s)])[x] = LinkAt(6, 6, s * PerSector + x)
    <2>1. PerSector \in Nat /\ PerSector > 5 /\ s \in Nat
      BY FatSizes, VolumeNats
    <2>2. CASE s = 0
      <3>1. D[FatSector(v, 0, s)] = FreshFat
        BY <1>3, <2>2
      <3>2. LinksOf(FreshFat)[x] = IF x <= 5 THEN Eoc ELSE 0
        BY DEF LinksOf, FreshFat, Fat
      <3>3. s * PerSector + x = x
        BY <2>1, <2>2
      <3>4. LinkAt(6, 6, x) = IF x <= 5 THEN Eoc ELSE 0
        BY <2>1 DEF LinkAt
      <3>5. QED
        BY <3>1, <3>2, <3>3, <3>4
    <2>3. CASE s # 0
      <3>1. D[FatSector(v, 0, s)] = Zero
        BY <1>3, <2>3
      <3>2. LinksOf(Zero)[x] = 0
        BY DEF LinksOf, Zero
      <3>3. 1 * PerSector <= s * PerSector /\ s * PerSector \in Int
        BY <2>1, <2>3, Times
      <3>4. s * PerSector + x >= 6 /\ s * PerSector + x \in Int
        BY <2>1, <3>3
      <3>5. LinkAt(6, 6, s * PerSector + x) = 0
        <4> DEFINE c == s * PerSector + x
        <4>1. c >= 6 /\ c \in Int
          BY <3>4
        <4> HIDE DEF c
        <4>2. LinkAt(6, 6, c) = 0
          BY <4>1 DEF LinkAt
        <4>3. QED
          BY <4>2 DEF c
      <3>6. QED
        BY <3>1, <3>2, <3>5
    <2>4. QED
      BY <2>2, <2>3
  <1>5. FatShows(D, v, 6, 6)
    <2>1. \A s \in 0 .. v.fatsz - 1 : D[FatSector(v, 1, s)] = D[FatSector(v, 0, s)]
      BY <1>3
    <2>2. QED
      BY <1>4, <2>1 DEF FatShows
  <1>6. ~(6 > 6) /\ \A c \in 6 .. 6 - 1 : FALSE
    OBVIOUS
  <1>7. QED
    BY <1>2, <1>5, <1>6 DEF Shows

\* The writes of a chain are between the body and the name.
LEMMA Turns ==
    ASSUME NEW v, NEW lo, NEW hi, VolumeIn(v, lo, hi), NEW size \in Nat, Fits(v, size),
           NEW copy \in {0, 1}, NEW s \in From(v.nfree) .. From(LastCluster(v, size))
    PROVE  /\ BodyEnd(size) + Turn(v.nfree, copy, s) \in BodyEnd(size) + 1 .. ChainEnd(v, size)
           /\ BodyEnd(size) \in Nat /\ ChainEnd(v, size) \in Nat
  <1> DEFINE W == df_stage_file(0, v, 4, 0, size)
             last == LastCluster(v, size)
  <1>1. ExtentsOf(W, 0, v, 4, 0, size, BodyEnd(size), ChainEnd(v, size))
    BY StageExtents
  <1>2. StageIs(W, BodyWrites(v, 0, Clusters(size)), df_fat_write_chain(0, v, v.nfree, last),
                v, 4, 0, size, BodyEnd(size), ChainLen(v.nfree, last), ChainEnd(v, size))
    BY StageShape
  <1> HIDE DEF W, last
  <1>3. QED
    BY <1>1, <1>2 DEF ExtentsOf, StageIs

LEMMA LinksGrow ==
    ASSUME NEW p \in Nat, NEW q \in Nat, p > 5, q > p, NEW c \in Nat, NEW made \in BOOLEAN,
           c \in p .. q - 1 => made
    PROVE  /\ p = 6 => LinkUnder(6, 6, 6, q - 1, made, c) = LinkAt(q, q, c)
           /\ LinkUnder(p, p, p, q - 1, made, c) = LinkAt(p, q, c)
  <1>1. CASE c < p
    <2>1. c \notin p .. q - 1 /\ ~(c >= p) /\ ~(c >= q) /\ (c + 1 \in {p, q} <=> c + 1 = p)
          /\ (c + 1 \in {p, p} <=> c + 1 = p) /\ (p = 6 => c <= 5)
      BY <1>1
    <2>2. QED
      BY <2>1 DEF LinkUnder, LinkAt
  <1>2. CASE c \in p .. q - 1
    <2>1. made /\ ~(c <= 5) /\ ~(c >= q) /\ (c + 1 \in {p, q} <=> c = q - 1)
          /\ (c + 1 \in {q, q} <=> c = q - 1)
      BY <1>2
    <2>2. QED
      BY <1>2, <2>1 DEF LinkUnder, LinkAt
  <1>3. CASE c >= q
    <2>1. c \notin p .. q - 1 /\ ~(c <= 5) /\ c >= p
      BY <1>3
    <2>2. QED
      BY <1>3, <2>1 DEF LinkUnder, LinkAt
  <1>4. QED
    BY <1>1, <1>2, <1>3

LEMMA StageFat ==
    ASSUME NEW v, NEW lo, NEW hi, VolumeIn(v, lo, hi), NEW size \in Nat, Fits(v, size),
           NEW D, NEW d, NEW dir, NEW name,
           Under(D, d, v, dir, name, size, ChainEnd(v, size) + 3),
           FatShows(d, v, v.nfree, v.nfree)
    PROVE  /\ FatShows(D, v, v.nfree, AfterFile(v, size))
           /\ v.nfree = 6 => FatShows(D, v, AfterFile(v, size), AfterFile(v, size))
  <1> DEFINE p == v.nfree
             q == AfterFile(v, size)
             n == ChainEnd(v, size) + 3
             made(copy, s) == BodyEnd(size) + Turn(p, copy, s) <= n
  <1>1. p \in Nat /\ p > 5 /\ q \in Nat /\ q > p /\ LastCluster(v, size) = q - 1
    <2>1. v.nfree \in 6 .. v.coc + 1 /\ v.coc \in Nat /\ Clusters(size) \in Nat \ {0}
      BY FileFits, VolumeNats
    <2>2. QED
      BY <2>1 DEF AfterFile, LastCluster
  <1>2. ASSUME NEW copy \in {0, 1}, NEW s \in From(p) .. From(LastCluster(v, size))
        PROVE  made(copy, s) /\ n \in Nat
    BY Turns
  <1>3. n \in Nat
    <2>1. From(p) \in From(p) .. From(LastCluster(v, size))
      <3>1. p \in Nat /\ LastCluster(v, size) \in Nat /\ p <= LastCluster(v, size)
            /\ LastCluster(v, size) <= v.coc + 1
        BY <1>1, LastFits, VolumeNats DEF LastCluster
      <3>2. From(p) \in Nat /\ From(LastCluster(v, size)) \in Nat
            /\ From(p) <= From(LastCluster(v, size))
        BY <3>1, ChainTypes
      <3>3. QED
        BY <3>2
    <2>2. QED
      BY <1>2, <2>1
  <1>4. Under(D, d, v, dir, name, size, n) /\ FatShows(d, v, p, p)
    OBVIOUS
  <1>5. ASSUME NEW s \in 0 .. v.fatsz - 1
        PROVE  D[FatSector(v, 1, s)] = D[FatSector(v, 0, s)]
    <2>1. \A copy \in {0, 1} : s \in From(p) .. From(LastCluster(v, size)) =>
                BodyEnd(size) + Turn(p, copy, s) <= n
      BY <1>2
    <2>2. d[FatSector(v, 1, s)] = d[FatSector(v, 0, s)]
      BY DEF FatShows
    <2> HIDE DEF n
    <2>3. QED
      BY <1>4, <2>1, <2>2 DEF Under
  <1> HIDE DEF n
  <1>6. ASSUME NEW s \in 0 .. v.fatsz - 1, NEW x \in 0 .. PerSector - 1
        PROVE  /\ LinksOf(D[FatSector(v, 0, s)])[x] = LinkAt(p, q, s * PerSector + x)
               /\ p = 6 => LinksOf(D[FatSector(v, 0, s)])[x] = LinkAt(q, q, s * PerSector + x)
    <2> DEFINE c == s * PerSector + x
               m == BodyEnd(size) + Turn(p, 0, s) <= n
    <2>1. LinksOf(D[FatSector(v, 0, s)])[x] = LinkUnder(p, p, p, q - 1, m, c)
      BY <1>1, <1>3, <1>4, UnderLinks
    <2>2. s \in Nat /\ c \in Nat
      BY FatSizes, VolumeNats
    <2>3. c \in p .. q - 1 => m
      <3>1. c \in p .. q - 1 => s \in From(p) .. From(q - 1)
        BY <1>1, <2>2, SectorHas
      <3>2. QED
        BY <1>1, <1>2, <3>1
    <2>4. m \in BOOLEAN
      OBVIOUS
    <2> HIDE DEF c, m
    <2>5. /\ p = 6 => LinkUnder(6, 6, 6, q - 1, m, c) = LinkAt(q, q, c)
          /\ LinkUnder(p, p, p, q - 1, m, c) = LinkAt(p, q, c)
      BY <1>1, <2>2, <2>3, <2>4, LinksGrow
    <2>6. QED
      BY <2>1, <2>5 DEF c
  <1> HIDE DEF p, q
  <1>7. FatShows(D, v, p, q) /\ (p = 6 => FatShows(D, v, q, q))
    BY <1>5, <1>6 DEF FatShows
  <1>8. QED
    BY <1>7 DEF p, q

\* The rest of the volume under a whole file.
StagedOver(D, d, v, dir, name, size) ==
    /\ D[SectorOf(v, dir)] = Dir(<<Dirent(name, v.nfree, size)>>)
    /\ D[v.abs + 1] = Info(v, AfterFile(v, size)) /\ D[v.abs + 7] = Info(v, AfterFile(v, size))
    /\ D[v.abs] = d[v.abs]
    /\ \A c \in 2 .. v.nfree - 1 : c # dir => D[SectorOf(v, c)] = d[SectorOf(v, c)]
    /\ \A c \in v.nfree .. AfterFile(v, size) - 1 :
            D[SectorOf(v, c)] = Data(name, c - v.nfree + 1)
    /\ v.nfree \in Nat /\ v.nfree > 5 /\ AfterFile(v, size) \in Nat
    /\ AfterFile(v, size) > v.nfree

LEMMA StageRest ==
    ASSUME NEW v, NEW lo, NEW hi, VolumeIn(v, lo, hi), NEW size \in Nat, Fits(v, size),
           NEW D, NEW d, NEW dir \in {4, 5}, NEW name,
           Under(D, d, v, dir, name, size, ChainEnd(v, size) + 3)
    PROVE  StagedOver(D, d, v, dir, name, size)
  <1> DEFINE p == v.nfree
             q == AfterFile(v, size)
             e == ChainEnd(v, size)
             b == BodyEnd(size)
             n == e + 3
  <1>1. p \in Nat /\ p > 5 /\ q \in Nat /\ q > p /\ LastCluster(v, size) = q - 1
        /\ q <= v.coc + 2 /\ v.coc \in Nat
    <2>1. v.nfree \in 6 .. v.coc + 1 /\ v.coc \in Nat /\ Clusters(size) \in Nat \ {0}
          /\ v.nfree + Clusters(size) <= v.coc + 2
      BY FileFits, VolumeNats
    <2>2. QED
      BY <2>1 DEF AfterFile, LastCluster
  <1>2. b \in Nat /\ e \in Nat /\ b <= e
    <2>1. StageIs(df_stage_file(0, v, 4, 0, size), BodyWrites(v, 0, Clusters(size)),
                  df_fat_write_chain(0, v, v.nfree, LastCluster(v, size)),
                  v, 4, 0, size, b, ChainLen(v.nfree, LastCluster(v, size)), e)
      BY StageShape
    <2>2. QED
      BY <2>1 DEF StageIs
  <1>3. Under(D, d, v, dir, name, size, n)
    OBVIOUS
  <1>4. e + 1 <= n /\ e + 2 <= n /\ e + 3 <= n /\ n >= b
    BY <1>2
  <1> HIDE DEF n
  <1>5. /\ D[SectorOf(v, dir)] = Dir(<<Dirent(name, p, size)>>)
        /\ D[v.abs + 1] = Info(v, q) /\ D[v.abs + 7] = Info(v, q) /\ D[v.abs] = d[v.abs]
        /\ \A c \in 2 .. v.coc + 1 :
                c \notin p .. q - 1 /\ c # dir => D[SectorOf(v, c)] = d[SectorOf(v, c)]
        /\ \A c \in p .. q - 1 : D[SectorOf(v, c)] = Data(name, c - p + 1)
    <2> HIDE DEF b, e
    <2>1. QED
      BY <1>1, <1>3, <1>4 DEF Under, b, e
  <1>6. \A c \in 2 .. p - 1 : c \in 2 .. v.coc + 1 /\ c \notin p .. q - 1
    BY <1>1
  <1>7. QED
    BY <1>1, <1>5, <1>6 DEF StagedOver

LEMMA BootShows ==
    ASSUME NEW v, NEW lo, NEW hi, VolumeIn(v, lo, hi), NEW size \in Nat, Fits(v, size),
           NEW D, NEW d, Under(D, d, v, 4, "BOOTX64.EFI", size, ChainEnd(v, size) + 3),
           v.nfree = 6, NEW total, NEW boot, NEW kernel, Shows(d, v, total, 6, 6, boot, kernel)
    PROVE  Shows(D, v, total, AfterFile(v, size), AfterFile(v, size), size, kernel)
  <1> DEFINE q == AfterFile(v, size)
  <1>1. FatShows(D, v, q, q)
    BY StageFat DEF Shows
  <1>2. /\ D[SectorOf(v, 4)] = Dir(<<Dirent("BOOTX64.EFI", 6, size)>>)
        /\ D[v.abs + 1] = Info(v, q) /\ D[v.abs + 7] = Info(v, q) /\ D[v.abs] = d[v.abs]
        /\ \A c \in 2 .. 5 : c # 4 => D[SectorOf(v, c)] = d[SectorOf(v, c)]
        /\ \A c \in 6 .. q - 1 : D[SectorOf(v, c)] = Data("BOOTX64.EFI", c - 6 + 1)
        /\ q \in Nat /\ q > 6
    <2>1. 4 \in {4, 5}
      OBVIOUS
    <2>2. v.nfree - 1 = 5
      OBVIOUS
    <2>3. StagedOver(D, d, v, 4, "BOOTX64.EFI", size)
      BY <2>1, StageRest
    <2>4. QED
      BY <2>2, <2>3 DEF StagedOver
  <1> HIDE DEF q
  <1>3. \A c \in 6 .. q - 1 : c - 6 + 1 = c - 5
    OBVIOUS
  <1>4. ~(q > q) /\ \A c \in q .. q - 1 : FALSE
    BY <1>2
  <1>5. /\ D[SectorOf(v, 2)] = d[SectorOf(v, 2)] /\ D[SectorOf(v, 3)] = d[SectorOf(v, 3)]
        /\ D[SectorOf(v, 5)] = d[SectorOf(v, 5)]
    BY <1>2
  <1>6. ~(6 > 6)
    OBVIOUS
  <1>7. Shows(D, v, total, q, q, size, kernel)
    BY <1>1, <1>2, <1>3, <1>4, <1>5, <1>6 DEF Shows
  <1>8. QED
    BY <1>7 DEF q

LEMMA KernelShows ==
    ASSUME NEW v, NEW lo, NEW hi, VolumeIn(v, lo, hi), NEW size \in Nat, Fits(v, size),
           NEW D, NEW d, Under(D, d, v, 5, "AGNOS", size, ChainEnd(v, size) + 3),
           NEW total, NEW boot, NEW kernel, Shows(d, v, total, v.nfree, v.nfree, boot, kernel)
    PROVE  Shows(D, v, total, v.nfree, AfterFile(v, size), boot, size)
  <1> DEFINE p == v.nfree
             q == AfterFile(v, size)
  <1>1. FatShows(D, v, p, q)
    BY StageFat DEF Shows
  <1>2. /\ D[SectorOf(v, 5)] = Dir(<<Dirent("AGNOS", p, size)>>)
        /\ D[v.abs + 1] = Info(v, q) /\ D[v.abs + 7] = Info(v, q) /\ D[v.abs] = d[v.abs]
        /\ \A c \in 2 .. p - 1 : c # 5 => D[SectorOf(v, c)] = d[SectorOf(v, c)]
        /\ \A c \in p .. q - 1 : D[SectorOf(v, c)] = Data("AGNOS", c - p + 1)
        /\ p \in Nat /\ q \in Nat /\ p > 5 /\ q > p
    <2>1. 5 \in {4, 5}
      OBVIOUS
    <2>2. StagedOver(D, d, v, 5, "AGNOS", size)
      BY <2>1, StageRest
    <2>3. QED
      BY <2>2 DEF StagedOver
  <1>3. Shows(d, v, total, p, p, boot, kernel)
    OBVIOUS
  <1> HIDE DEF q, p
  <1>4. /\ D[SectorOf(v, 2)] = d[SectorOf(v, 2)] /\ D[SectorOf(v, 3)] = d[SectorOf(v, 3)]
        /\ D[SectorOf(v, 4)] = d[SectorOf(v, 4)]
    BY <1>2
  <1>5. \A c \in 6 .. p - 1 : D[SectorOf(v, c)] = d[SectorOf(v, c)]
    BY <1>2
  <1>6. Shows(D, v, total, p, q, boot, size)
    BY <1>1, <1>2, <1>3, <1>4, <1>5 DEF Shows
  <1>7. QED
    BY <1>6 DEF p, q

-----------------------------------------------------------------------------
(* The ESP along a run.                                                    *)

\* The volume of a job, and the ends of its files when k operations are done.
VolumeWith(j, nfree) ==
    [Geometry(EspRange(j).first, Length(EspRange(j))) EXCEPT !.nfree = nfree]
BootEnds(j, k) == IF k >= 4 THEN 6 + Clusters(j.boot) ELSE 6
KernelEnds(j, k) == IF k >= 5 THEN BootEnds(j, k) + Clusters(j.kernel) ELSE BootEnds(j, k)

\* The globals and the disk then.
EspAt(j, k) == IF k < 2 THEN Unformatted ELSE VolumeWith(j, KernelEnds(j, k))
Shown(D, j, k) ==
    Shows(D, VolumeWith(j, 6), Length(EspRange(j)), BootEnds(j, k), KernelEnds(j, k),
          j.boot, j.kernel)

\* The operations of the run that are done.
Done == IF busy \/ status = "failed" THEN at - 1 ELSE at

\* The writes of the one on the ESP that is on its way, which began on d.
EspWrites(d) ==
    IF at = 2 THEN df_format_esp(VolumeWith(job, 6), Length(EspRange(job)))
    ELSE IF at = 4 THEN df_stage_file(d, esp, 4, "BOOTX64.EFI", job.boot)
    ELSE df_stage_file(d, esp, 5, "AGNOS", job.kernel)
OnTheWay(d, n) ==
    /\ n \in 0 .. Len(EspWrites(d)) /\ todo = Rest(EspWrites(d), n)
    /\ Made(disk, d, EspWrites(d), n)
    /\ at > 2 => Shown(d, job, at - 1)

\* A file that is staged has a cluster.
FilesThere ==
    /\ Done >= 4 => Clusters(job.boot) > 0
    /\ Done >= 5 => Clusters(job.kernel) > 0

EspInv ==
    /\ FilesThere
    /\ status \in {"running", "failed", "done"}
    /\ status = "done" => at = 5 /\ ~busy
    /\ esp = EspAt(job, Done)
    /\ Done >= 2 => VolumeIn(esp, EspRange(job).first, EspRange(job).last)
    /\ ~busy /\ Done >= 2 => Shown(disk, job, Done)
    /\ busy /\ at = 3 => Shown(disk, job, 2)
    /\ busy /\ at \in {2, 4, 5} => \E d, n : OnTheWay(d, n)

\* Volumes that differ in the next free cluster.
LEMMA VolumeFields ==
    ASSUME NEW j, NEW n
    PROVE  /\ VolumeWith(j, n).nfree = n
           /\ VolumeWith(j, n).abs = EspRange(j).first
           /\ VolumeWith(j, n).fatsz = VolumeWith(j, 6).fatsz
           /\ VolumeWith(j, n).root_start = VolumeWith(j, 6).root_start
           /\ VolumeWith(j, n).coc = VolumeWith(j, 6).coc
           /\ VolumeWith(j, n).abs = VolumeWith(j, 6).abs
           /\ \A m : [VolumeWith(j, n) EXCEPT !.nfree = m] = VolumeWith(j, m)
           /\ VolumeWith(j, 6) = Geometry(EspRange(j).first, Length(EspRange(j)))
           /\ VolumeWith(j, n) # Unformatted \/ VolumeWith(j, 6).coc = 0
  <1> DEFINE a == EspRange(j).first
             g == Geometry(a, Length(EspRange(j)))
             f == df_fat32_fatsz(Length(EspRange(j)))
             r == Reserved + 2 * f
             c == Length(EspRange(j)) - r
  <1>1. g = Esp(a, f, r, c, 6)
    BY DEF Geometry
  <1>2. \A m : VolumeWith(j, m) = [g EXCEPT !.nfree = m]
    BY DEF VolumeWith
  <1> HIDE DEF a, g, f, r, c
  <1>3. \A m : VolumeWith(j, m) = [abs |-> a, fatsz |-> f, root_start |-> r, coc |-> c, nfree |-> m]
    BY <1>1, <1>2 DEF Esp
  <1>4. \A m : [VolumeWith(j, n) EXCEPT !.nfree = m] = VolumeWith(j, m)
    BY <1>3
  <1>5. VolumeWith(j, 6) = g
    BY <1>1, <1>3 DEF Esp
  <1>6. VolumeWith(j, n) = Unformatted => VolumeWith(j, 6).coc = 0
    <2>1. VolumeWith(j, n).coc = c /\ VolumeWith(j, 6).coc = c
      BY <1>3
    <2>2. Unformatted.coc = 0
      BY DEF Unformatted, Esp
    <2>3. QED
      BY <2>1, <2>2
  <1>7. QED
    BY <1>3, <1>4, <1>5, <1>6 DEF a, g

SameFields(v, w) ==
    v.abs = w.abs /\ v.fatsz = w.fatsz /\ v.root_start = w.root_start /\ v.coc = w.coc

LEMMA ShowsSame ==
    ASSUME NEW v, NEW w, SameFields(v, w), NEW D, NEW total, NEW p, NEW q, NEW boot, NEW kernel,
           Shows(D, v, total, p, q, boot, kernel)
    PROVE  Shows(D, w, total, p, q, boot, kernel)
  <1>1. /\ \A c : SectorOf(v, c) = SectorOf(w, c)
        /\ \A copy, s : FatSector(v, copy, s) = FatSector(w, copy, s)
        /\ \A n : Info(v, n) = Info(w, n)
        /\ BootSector(v, total) = BootSector(w, total)
        /\ v.abs = w.abs /\ v.fatsz = w.fatsz
    BY DEF SameFields, SectorOf, FatSector, Info, BootSector
  <1>2. FatShows(D, w, p, q)
    BY <1>1 DEF Shows, FatShows
  <1>3. QED
    BY <1>1, <1>2 DEF Shows

\* What the volume shows is on its part of the disk.
LEMMA ShowsKept ==
    ASSUME NEW v, NEW lo, NEW hi, VolumeIn(v, lo, hi), NEW D, NEW E,
           \A x \in lo .. hi : E[x] = D[x],
           NEW total, NEW p \in Int, NEW q \in Int, p <= q, 6 <= p, q <= v.coc + 2,
           NEW boot, NEW kernel, Shows(D, v, total, p, q, boot, kernel)
    PROVE  Shows(E, v, total, p, q, boot, kernel)
  <1>1. /\ v.abs \in lo .. hi /\ v.abs + 1 \in lo .. hi /\ v.abs + 7 \in lo .. hi
        /\ \A c \in 2 .. v.coc + 1 : SectorOf(v, c) \in lo .. hi
    BY VolumeNats DEF SectorOf
  <1>2. \A copy \in {0, 1} : \A s \in 0 .. v.fatsz - 1 : E[FatSector(v, copy, s)] = D[FatSector(v, copy, s)]
    <2>1. ASSUME NEW copy \in {0, 1}, NEW s \in 0 .. v.fatsz - 1
          PROVE  FatSector(v, copy, s) \in lo .. hi
      BY FatPlaces
    <2>2. QED
      BY <2>1
  <1>3. \A c \in 2 .. v.coc + 1 : E[SectorOf(v, c)] = D[SectorOf(v, c)]
    BY <1>1
  <1>4. /\ 2 \in 2 .. v.coc + 1 /\ 3 \in 2 .. v.coc + 1 /\ 4 \in 2 .. v.coc + 1
        /\ 5 \in 2 .. v.coc + 1 /\ \A c \in 6 .. p - 1 : c \in 2 .. v.coc + 1
        /\ \A c \in p .. q - 1 : c \in 2 .. v.coc + 1
    BY VolumeNats
  <1>5. FatShows(E, v, p, q)
    BY <1>2 DEF Shows, FatShows
  <1>6. E[v.abs] = D[v.abs] /\ E[v.abs + 1] = D[v.abs + 1] /\ E[v.abs + 7] = D[v.abs + 7]
    BY <1>1
  <1>7. QED
    BY <1>3, <1>4, <1>5, <1>6 DEF Shows

LEMMA InitEsp == Init => EspInv
  <1> SUFFICES ASSUME Init PROVE EspInv
    OBVIOUS
  <1>1. at = 0 /\ busy = FALSE /\ status = "running" /\ esp = Unformatted
    BY DEF Init
  <1>2. Done = 0 /\ ~(Done >= 2) /\ Done < 2
    BY <1>1 DEF Done
  <1>3. esp = EspAt(job, Done)
    BY <1>1, <1>2 DEF EspAt
  <1>4. QED
    BY <1>1, <1>2, <1>3 DEF EspInv, FilesThere

\* The ends for each number of operations.
LEMMA Ends ==
    ASSUME NEW j \in Jobs
    PROVE  /\ Clusters(j.boot) \in Nat /\ Clusters(j.kernel) \in Nat
           /\ \A k \in {2, 3} : BootEnds(j, k) = 6 /\ KernelEnds(j, k) = 6
           /\ BootEnds(j, 4) = 6 + Clusters(j.boot) /\ KernelEnds(j, 4) = BootEnds(j, 4)
           /\ BootEnds(j, 5) = BootEnds(j, 4)
           /\ KernelEnds(j, 5) = BootEnds(j, 4) + Clusters(j.kernel)
  <1>1. Clusters(j.boot) \in Nat /\ Clusters(j.kernel) \in Nat
    <2>1. ASSUME NEW size \in Nat PROVE Clusters(size) \in Nat
      <3> DEFINE a == size + SectorSize - 1
      <3>1. a \in Nat /\ SectorSize \in Nat \ {0}
        BY FatSizes
      <3> HIDE DEF a
      <3>2. a \div SectorSize \in Nat
        BY <3>1, Quotient
      <3>3. QED
        BY <3>2 DEF Clusters, a
    <2>2. j.boot \in Nat /\ j.kernel \in Nat
      BY JobTypes
    <2>3. QED
      BY <2>1, <2>2
  <1>2. QED
    BY <1>1 DEF BootEnds, KernelEnds

\* The ESP is of the disk.
LEMMA EspInDisk ==
    ASSUME job \in Jobs, Partitions(job)
    PROVE  EspRange(job).first .. EspRange(job).last \subseteq LBAs
  <1>1. /\ EspRange(job).first \in Nat /\ EspRange(job).last \in Int
        /\ EspRange(job).last <= N - 1
    BY Ranges, Sizes
  <1>2. N \in Nat
    BY Sizes
  <1>3. QED
    BY <1>1, <1>2 DEF LBAs

\* The volume that an operation on the ESP writes.
LEMMA EspVolume ==
    ASSUME Inv, EspInv, busy
    PROVE  /\ job \in Jobs /\ job.boot \in Nat /\ job.kernel \in Nat
           /\ at > 1 => EspRange(job).first .. EspRange(job).last \subseteq LBAs
           /\ at = 2 => VolumeIn(VolumeWith(job, 6), EspRange(job).first, EspRange(job).last)
           /\ at > 2 => VolumeIn(esp, EspRange(job).first, EspRange(job).last)
                        /\ esp = VolumeWith(job, KernelEnds(job, at - 1))
           /\ at = 4 => Fits(esp, job.boot)
           /\ at = 5 => Fits(esp, job.kernel)
  <1>1. job \in Jobs /\ job.boot \in Nat /\ job.kernel \in Nat /\ at \in 0 .. 5
    BY JobTypes DEF Inv
  <1>2. at > 1 => EspRange(job).first .. EspRange(job).last \subseteq LBAs
    BY <1>1, EspInDisk DEF Inv, Written
  <1>3. ASSUME at = 2
        PROVE  VolumeIn(VolumeWith(job, 6), EspRange(job).first, EspRange(job).last)
    <2> DEFINE range == EspRange(job)
    <2>1. Formats(Geometry(range.first, Length(range)))
      <3>1. at > 1
        BY <1>3
      <3>2. QED
        BY <1>3, <3>1 DEF Inv, Written
    <2>2. /\ range.first \in Nat /\ Length(range) \in Int
          /\ range.last = range.first + Length(range) - 1
      BY <1>1, Ranges, Sizes
    <2>3. VolumeWith(job, 6) = Geometry(range.first, Length(range))
      BY VolumeFields
    <2> HIDE DEF range
    <2>4. VolumeIn(Geometry(range.first, Length(range)), range.first,
                   range.first + Length(range) - 1)
      BY <2>1, <2>2, FatCoversClusters
    <2>5. VolumeIn(Geometry(range.first, Length(range)), range.first, range.last)
      BY <2>2, <2>4
    <2>6. QED
      BY <2>3, <2>5 DEF range
  <1>4. ASSUME at > 2
        PROVE  VolumeIn(esp, EspRange(job).first, EspRange(job).last)
               /\ esp = VolumeWith(job, KernelEnds(job, at - 1))
    <2>1. Done = at - 1 /\ Done >= 2 /\ ~(Done < 2)
      BY <1>1, <1>4 DEF Done
    <2>2. QED
      BY <2>1 DEF EspInv, EspAt
  <1>5. (at = 4 => Fits(esp, job.boot)) /\ (at = 5 => Fits(esp, job.kernel))
    <2>1. at > 1 => Written
      BY DEF Inv
    <2>2. (at = 4 => at > 1) /\ (at = 5 => at > 1)
      OBVIOUS
    <2>3. QED
      BY <2>1, <2>2 DEF Written
  <1>6. QED
    BY <1>1, <1>2, <1>3, <1>4, <1>5

\* The writes are a sequence.
LEMMA EspWritesSeq ==
    ASSUME Inv, EspInv, busy, at \in {2, 4, 5}, NEW d
    PROVE  /\ EspWrites(d) \in Seq(ToSet(EspWrites(d)))
           /\ at = 4 => Len(EspWrites(d)) = ChainEnd(esp, job.boot) + 3
           /\ at = 5 => Len(EspWrites(d)) = ChainEnd(esp, job.kernel) + 3
  <1> DEFINE lo == EspRange(job).first
             hi == EspRange(job).last
             v == VolumeWith(job, 6)
             total == Length(EspRange(job))
  <1>1. /\ job.boot \in Nat /\ job.kernel \in Nat
        /\ at = 2 => VolumeIn(v, lo, hi)
        /\ at > 2 => VolumeIn(esp, lo, hi)
        /\ at = 4 => Fits(esp, job.boot)
        /\ at = 5 => Fits(esp, job.kernel)
    BY EspVolume
  <1> HIDE DEF lo, hi, v, total
  <1>2. CASE at = 2
    <2>1. EspWrites(d) = df_format_esp(v, total)
      BY <1>2 DEF EspWrites, v, total
    <2>2. df_format_esp(v, total) \in Seq(ToSet(df_format_esp(v, total)))
      BY <1>1, <1>2, FormatShape
    <2>3. QED
      BY <1>2, <2>1, <2>2
  <1>3. CASE at = 4
    <2>1. EspWrites(d) = df_stage_file(d, esp, 4, "BOOTX64.EFI", job.boot)
      BY <1>3 DEF EspWrites
    <2>2. StageIs(EspWrites(d), BodyWrites(esp, "BOOTX64.EFI", Clusters(job.boot)),
                  df_fat_write_chain(d, esp, esp.nfree, LastCluster(esp, job.boot)),
                  esp, 4, "BOOTX64.EFI", job.boot, BodyEnd(job.boot),
                  ChainLen(esp.nfree, LastCluster(esp, job.boot)), ChainEnd(esp, job.boot))
      BY <1>1, <1>3, <2>1, StageShape
    <2>3. QED
      BY <1>3, <2>2 DEF StageIs
  <1>4. CASE at = 5
    <2>1. EspWrites(d) = df_stage_file(d, esp, 5, "AGNOS", job.kernel)
      BY <1>4 DEF EspWrites
    <2>2. StageIs(EspWrites(d), BodyWrites(esp, "AGNOS", Clusters(job.kernel)),
                  df_fat_write_chain(d, esp, esp.nfree, LastCluster(esp, job.kernel)),
                  esp, 5, "AGNOS", job.kernel, BodyEnd(job.kernel),
                  ChainLen(esp.nfree, LastCluster(esp, job.kernel)), ChainEnd(esp, job.kernel))
      BY <1>1, <1>4, <2>1, StageShape
    <2>3. QED
      BY <1>4, <2>2 DEF StageIs
  <1>5. QED
    BY <1>2, <1>3, <1>4

LEMMA BeginEsp == Inv /\ EspInv /\ Begin => EspInv'
  <1> SUFFICES ASSUME Inv, EspInv, Begin PROVE EspInv'
    OBVIOUS
  <1>1. /\ at \in 0 .. 4 /\ at' = at + 1 /\ busy = FALSE /\ status = "running"
        /\ job \in Jobs /\ disk' = disk /\ job' = job /\ esp' = esp
    <2>1. at \in 0 .. 5 /\ at < 5 /\ at' = at + 1
      BY PlanIs DEF Inv, Begin
    <2>2. QED
      BY <2>1 DEF Begin, Inv
  <1>2. \/ status' = "failed" /\ busy' = FALSE
        \/ /\ ~Refused(Plan[at + 1]) /\ status' = "running" /\ busy' = TRUE
           /\ todo' = Writes(Plan[at + 1])
    BY <1>1 DEF Begin
  <1>3. Done = at /\ Done' = at /\ Done \in Int
    <2>1. Done = at
      BY <1>1 DEF Done
    <2>2. Done' = at' - 1
      BY <1>2 DEF Done
    <2>3. QED
      BY <1>1, <2>1, <2>2
  <1>4. esp' = EspAt(job', Done') /\ status' \in {"running", "failed", "done"} /\ status' # "done"
    BY <1>1, <1>2, <1>3 DEF EspInv
  <1>5. Done' >= 2 => VolumeIn(esp', EspRange(job').first, EspRange(job').last)
    BY <1>1, <1>3 DEF EspInv
  <1>6. at >= 2 => Shown(disk, job, at)
    BY <1>1, <1>3 DEF EspInv
  <1>7. ~busy' /\ Done' >= 2 => Shown(disk', job', Done')
    BY <1>1, <1>3, <1>6
  <1>8. busy' /\ at' = 3 => Shown(disk', job', 2)
    <2>1. at' = 3 => at = 2
      BY <1>1
    <2>2. QED
      BY <1>1, <1>6, <2>1
  <1>9. ASSUME busy', at' \in {2, 4, 5} PROVE OnTheWay(disk, 0)'
    <2>1. /\ todo' = Writes(Plan[at']) /\ Inv' /\ at' > 1 /\ at \in {1, 3, 4}
      <3>1. Inv'
        BY BeginInv
      <3>2. at' > 1 /\ at \in {1, 3, 4}
        BY <1>1, <1>9
      <3>3. QED
        BY <1>1, <1>2, <1>9, <3>1, <3>2
    <2>2. NewEsp = VolumeWith(job, 6) /\ Length(disk[2].esp) = Length(EspRange(job))
      <3>1. Laid(5)'
        BY <2>1 DEF Inv, Written
      <3>2. Laid(5)
        BY <1>1, <3>1 DEF Laid
      <3>3. disk[2].esp = EspRange(job)
        BY <3>2, ReadBack
      <3>4. QED
        BY <3>3, VolumeFields DEF NewEsp
    <2>3. todo' = EspWrites(disk)'
      <3>1. CASE at' = 2
        <4>1. todo' = df_format_esp(NewEsp, Length(disk[2].esp))
          BY <2>1, <3>1, PlanIs, Ops
        <4>2. QED
          BY <1>1, <2>2, <3>1, <4>1 DEF EspWrites
      <3>2. CASE at' = 4
        <4>1. todo' = df_stage_file(disk, esp, 4, "BOOTX64.EFI", job.boot)
          BY <2>1, <3>2, PlanIs, Ops
        <4>2. QED
          BY <1>1, <3>2, <4>1 DEF EspWrites
      <3>3. CASE at' = 5
        <4>1. todo' = df_stage_file(disk, esp, 5, "AGNOS", job.kernel)
          BY <2>1, <3>3, PlanIs, Ops
        <4>2. QED
          BY <1>1, <3>3, <4>1 DEF EspWrites
      <3>4. QED
        BY <1>9, <3>1, <3>2, <3>3
    <2> DEFINE W == todo'
    <2>4. W \in Seq(ToSet(W))
      BY <2>1 DEF Inv, Written, Confined
    <2>5. W = Rest(W, 0) /\ 0 \in 0 .. Len(W)
      <3> HIDE DEF W
      <3>1. Rest(W, 0) = W
        BY <2>4, RestOfAll
      <3>2. QED
        BY <2>4, <3>1
    <2>6. Made(disk, disk, W, 0)
      BY MadeNone
    <2>7. at' > 2 => Shown(disk', job', at' - 1)
      BY <1>1, <1>6, <2>1
    <2>8. QED
      BY <1>1, <2>3, <2>5, <2>6, <2>7 DEF OnTheWay
  <1>10. busy' /\ at' \in {2, 4, 5} => \E d, n : OnTheWay(d, n)'
    <2>1. disk' = disk
      BY <1>1
    <2>2. ASSUME busy', at' \in {2, 4, 5} PROVE \E d, n : OnTheWay(d, n)'
      <3>1. OnTheWay(disk, 0)'
        BY <1>9, <2>2
      <3>2. QED
        BY <2>1, <3>1
    <2>3. QED
      BY <2>2
  <1>11. FilesThere'
    BY <1>1, <1>3 DEF EspInv, FilesThere
  <1>12. QED
    BY <1>4, <1>5, <1>7, <1>8, <1>10, <1>11 DEF EspInv

\* Volumes of a job are of the same size.
LEMMA SameVolume ==
    ASSUME NEW j, NEW lo, NEW hi, NEW n, VolumeIn(VolumeWith(j, n), lo, hi)
    PROVE  /\ VolumeIn(VolumeWith(j, 6), lo, hi)
           /\ \A m : SameFields(VolumeWith(j, n), VolumeWith(j, m))
  <1> DEFINE v == VolumeWith(j, n)
             w == VolumeWith(j, 6)
  <1>1. /\ w.abs = v.abs /\ w.fatsz = v.fatsz /\ w.root_start = v.root_start /\ w.coc = v.coc
        /\ w.nfree = 6
    BY VolumeFields
  <1>2. \A m : SameFields(v, VolumeWith(j, m))
    BY VolumeFields DEF SameFields
  <1> HIDE DEF v, w
  <1>3. 6 \in 6 .. v.coc + 2
    BY VolumeNats DEF v
  <1>4. VolumeIn(v, lo, hi)
    BY DEF v
  <1>5. VolumeIn(w, lo, hi)
    BY <1>1, <1>3, <1>4 DEF VolumeIn
  <1>6. QED
    BY <1>2, <1>5 DEF v, w

\* The format of the root leaves the ESP alone.
LEMMA RootApart ==
    ASSUME Inv, EspInv, busy, at = 3, todo # <<>>, NEW len \in Nat, len <= Len(Head(todo).sectors),
           disk' = After(Head(todo), len)
    PROVE  Shown(disk', job, 2)
  <1> DEFINE lo == EspRange(job).first
             hi == EspRange(job).last
             v == VolumeWith(job, 6)
             w == Head(todo)
  <1>1. /\ DOMAIN disk = LBAs /\ job \in Jobs /\ Partitions(job)
        /\ Confined(todo, RootRange(job).first, RootRange(job).last)
    <2>1. at > 1 /\ PartOf(at) = RootRange(job)
      BY DEF PartOf
    <2>2. QED
      BY <2>1 DEF Inv, Written
  <1>2. In(w, RootRange(job).first, RootRange(job).last)
    BY <1>1, TailConfined
  <1>3. /\ lo \in Int /\ hi \in Int /\ RootRange(job).first = hi + 1
    BY <1>1, Ranges, Sizes, SMTT(30)
  <1>4. VolumeIn(v, lo, hi)
    <2>1. VolumeIn(esp, lo, hi) /\ esp = VolumeWith(job, KernelEnds(job, at - 1))
      BY EspVolume
    <2>2. QED
      BY <2>1, SameVolume
  <1>5. lo .. hi \subseteq LBAs
    BY <1>1, EspInDisk
  <1>6. \A x \in lo .. hi : disk'[x] = disk[x]
    <2>1. ASSUME NEW x \in lo .. hi PROVE x \notin w.lba .. w.lba + len - 1
      BY <1>2, <1>3 DEF In
    <2>2. QED
      BY <1>1, <1>5, <2>1, Elsewhere
  <1>7. BootEnds(job, 2) = 6 /\ KernelEnds(job, 2) = 6
    BY <1>1, Ends
  <1>8. Shows(disk, v, Length(EspRange(job)), 6, 6, job.boot, job.kernel)
    BY <1>7 DEF EspInv, Shown
  <1>9. 6 <= v.coc + 2
    BY <1>4, VolumeNats
  <1> HIDE DEF v, lo, hi
  <1>10. Shows(disk', v, Length(EspRange(job)), 6, 6, job.boot, job.kernel)
    BY <1>4, <1>6, <1>8, <1>9, ShowsKept
  <1>11. QED
    BY <1>7, <1>10 DEF Shown, v

LEMMA MakeWriteEsp == Inv /\ EspInv /\ MakeWrite => EspInv'
  <1> SUFFICES ASSUME Inv, EspInv, MakeWrite PROVE EspInv'
    OBVIOUS
  <1> DEFINE w == Head(todo)
  <1>1. /\ status = "running" /\ todo # <<>> /\ disk' = After(w, Len(w.sectors))
        /\ todo' = Tail(todo) /\ busy = TRUE /\ DOMAIN disk = LBAs /\ at \in 0 .. 5
        /\ job' = job /\ at' = at /\ busy' = busy /\ esp' = esp /\ status' = status
    BY DEF Inv, MakeWrite
  <1>2. Done' = Done
    BY <1>1 DEF Done
  <1>3. ASSUME at = 3 PROVE Shown(disk', job, 2)
    <2>1. Len(w.sectors) \in Nat
      <3>1. at > 1
        BY <1>3
      <3>2. In(w, PartOf(at).first, PartOf(at).last)
        BY <1>1, <3>1, TailConfined DEF Inv, Written
      <3>3. QED
        BY <3>2 DEF In
    <2>2. QED
      BY <1>1, <1>3, <2>1, RootApart
  <1>4. ASSUME at \in {2, 4, 5} PROVE \E d, n : OnTheWay(d, n)'
    <2>1. PICK d, n : OnTheWay(d, n)
      BY <1>1, <1>4 DEF EspInv
    <2> DEFINE W == EspWrites(d)
               S == ToSet(W)
    <2>2. W \in Seq(S)
      BY <1>1, <1>4, EspWritesSeq
    <2>3. /\ n \in 0 .. Len(W) /\ todo = Rest(W, n) /\ Made(disk, d, W, n)
          /\ at > 2 => Shown(d, job, at - 1)
      BY <2>1 DEF OnTheWay
    <2>4. EspWrites(d)' = W
      BY <1>1 DEF EspWrites
    <2> HIDE DEF W, S
    <2>5. /\ n \in 0 .. Len(W) - 1 /\ n + 1 \in 0 .. Len(W)
          /\ Head(Rest(W, n)) = W[n + 1] /\ Tail(Rest(W, n)) = Rest(W, n + 1)
      BY <1>1, <2>2, <2>3, RestStep
    <2>6. Made(disk', d, W, n + 1)
      <3>1. disk' = After(W[n + 1], Len(W[n + 1].sectors))
        BY <1>1, <2>3, <2>5
      <3>2. QED
        BY <1>1, <2>2, <2>3, <2>5, <3>1, MadeMore
    <2>7. OnTheWay(d, n + 1)'
      BY <1>1, <2>3, <2>4, <2>5, <2>6 DEF OnTheWay
    <2>8. QED
      BY <2>7
  <1>5. FilesThere'
    BY <1>1, <1>2 DEF EspInv, FilesThere
  <1>6. QED
    BY <1>1, <1>2, <1>3, <1>4, <1>5 DEF EspInv

LEMMA StopInEsp == Inv /\ EspInv /\ StopIn => EspInv'
  <1> SUFFICES ASSUME Inv, EspInv, StopIn PROVE EspInv'
    OBVIOUS
  <1> DEFINE w == Head(todo)
  <1>1. /\ status = "running" /\ todo # <<>> /\ status' = "failed"
        /\ todo' = todo /\ busy = TRUE /\ DOMAIN disk = LBAs /\ at \in 0 .. 5
        /\ job' = job /\ at' = at /\ busy' = busy /\ esp' = esp
    BY DEF Inv, StopIn
  <1>2. Done' = Done
    BY <1>1 DEF Done
  <1>3. PICK len \in 0 .. Len(w.sectors) - 1 : disk' = After(w, len)
    BY DEF StopIn
  <1>4. ASSUME at > 1 PROVE w.lba \in Int /\ Len(w.sectors) \in Nat
    <2>1. In(w, PartOf(at).first, PartOf(at).last)
      BY <1>1, <1>4, TailConfined DEF Inv, Written
    <2>2. QED
      BY <2>1 DEF In
  <1>5. ASSUME at = 3 PROVE Shown(disk', job, 2)
    <2>1. at > 1
      BY <1>5
    <2>2. len \in Nat /\ len <= Len(w.sectors)
      BY <1>3, <1>4, <2>1
    <2>3. QED
      BY <1>1, <1>3, <1>5, <2>2, RootApart
  <1>6. ASSUME at \in {2, 4, 5} PROVE \E d, n : OnTheWay(d, n)'
    <2>1. PICK d, n : OnTheWay(d, n)
      BY <1>1, <1>6 DEF EspInv
    <2> DEFINE W == EspWrites(d)
               S == ToSet(W)
    <2>2. W \in Seq(S)
      BY <1>1, <1>6, EspWritesSeq
    <2>3. /\ n \in 0 .. Len(W) /\ todo = Rest(W, n) /\ Made(disk, d, W, n)
          /\ at > 2 => Shown(d, job, at - 1)
      BY <2>1 DEF OnTheWay
    <2>4. EspWrites(d)' = W
      BY <1>1 DEF EspWrites
    <2> HIDE DEF W, S
    <2>5. n \in 0 .. Len(W) - 1 /\ Head(Rest(W, n)) = W[n + 1]
      BY <1>1, <2>2, <2>3, RestStep
    <2>6. W[n + 1] = w /\ W[n + 1].lba \in Int /\ Len(W[n + 1].sectors) \in Nat
      BY <1>4, <1>6, <2>3, <2>5
    <2>7. Made(disk', d, W, n)
      <3>1. len \in 0 .. Len(W[n + 1].sectors) - 1 /\ disk' = After(W[n + 1], len)
        BY <1>3, <2>6
      <3>2. QED
        BY <1>1, <2>2, <2>3, <2>5, <2>6, <3>1, MadePart
    <2>8. OnTheWay(d, n)'
      BY <1>1, <2>3, <2>4, <2>7 DEF OnTheWay
    <2>9. QED
      BY <2>8
  <1>7. FilesThere'
    BY <1>1, <1>2 DEF EspInv, FilesThere
  <1>8. QED
    BY <1>1, <1>2, <1>5, <1>6, <1>7 DEF EspInv

\* All writes of an operation on the ESP are made.
LEMMA FormatEnds ==
    ASSUME Inv, EspInv, busy, at = 2, todo = <<>>
    PROVE  Shown(disk, job, 2)
  <1> DEFINE lo == EspRange(job).first
             hi == EspRange(job).last
             v == VolumeWith(job, 6)
             total == Length(EspRange(job))
             W == df_format_esp(v, total)
  <1>1. PICK d, n : OnTheWay(d, n)
    BY DEF EspInv
  <1>2. n \in 0 .. Len(W) /\ Rest(W, n) = <<>> /\ Made(disk, d, W, n)
    BY <1>1 DEF OnTheWay, EspWrites
  <1>3. W \in Seq(ToSet(W))
    BY EspWritesSeq DEF EspWrites
  <1>4. n = Len(W)
    <2> HIDE DEF W
    <2>1. QED
      BY <1>2, <1>3, RestIsNone
  <1>5. VolumeIn(v, lo, hi) /\ lo .. hi \subseteq LBAs /\ job \in Jobs
    BY EspVolume
  <1>6. Made(disk, d, df_format_esp(v, total), Len(df_format_esp(v, total)))
    BY <1>2, <1>4
  <1> HIDE DEF v, lo, hi, total, W
  <1>7. Shows(disk, v, total, 6, 6, job.boot, job.kernel)
    BY <1>5, <1>6, FormatShows
  <1>8. BootEnds(job, 2) = 6 /\ KernelEnds(job, 2) = 6
    BY <1>5, Ends
  <1>9. QED
    BY <1>7, <1>8 DEF Shown, v, total

LEMMA BootEndsWell ==
    ASSUME Inv, EspInv, busy, at = 4, todo = <<>>
    PROVE  Shown(disk, job, 4) /\ EspAfter(Plan[at]) = EspAt(job, 4)
           /\ VolumeIn(EspAt(job, 4), EspRange(job).first, EspRange(job).last)
  <1> DEFINE lo == EspRange(job).first
             hi == EspRange(job).last
             total == Length(EspRange(job))
             size == job.boot
  <1>1. PICK d, n : OnTheWay(d, n)
    BY DEF EspInv
  <1> DEFINE W == df_stage_file(d, esp, 4, "BOOTX64.EFI", size)
             q == AfterFile(esp, size)
  <1>2. n \in 0 .. Len(W) /\ Rest(W, n) = <<>> /\ Made(disk, d, W, n) /\ Shown(d, job, 3)
    <2>1. EspWrites(d) = W /\ at > 2 /\ at - 1 = 3
      BY DEF EspWrites
    <2>2. QED
      BY <1>1, <2>1 DEF OnTheWay
  <1>3. W \in Seq(ToSet(W)) /\ Len(W) = ChainEnd(esp, size) + 3
    BY EspWritesSeq DEF EspWrites
  <1>4. n = Len(W)
    <2> HIDE DEF W
    <2>1. QED
      BY <1>2, <1>3, RestIsNone
  <1>5. /\ VolumeIn(esp, lo, hi) /\ lo .. hi \subseteq LBAs /\ job \in Jobs /\ size \in Nat
        /\ Fits(esp, size) /\ esp = VolumeWith(job, KernelEnds(job, 3))
    <2>1. at > 1 /\ at > 2 /\ at - 1 = 3
      OBVIOUS
    <2>2. QED
      BY <2>1, EspVolume
  <1>6. /\ BootEnds(job, 3) = 6 /\ KernelEnds(job, 3) = 6
        /\ BootEnds(job, 4) = 6 + Clusters(size) /\ KernelEnds(job, 4) = 6 + Clusters(size)
    BY <1>5, Ends
  <1>7. esp = VolumeWith(job, 6) /\ esp.nfree = 6
    BY <1>5, <1>6, VolumeFields
  <1>8. Shows(d, esp, total, 6, 6, job.boot, job.kernel)
    BY <1>2, <1>6, <1>7 DEF Shown
  <1>9. q = 6 + Clusters(size)
    BY <1>7 DEF AfterFile
  <1>10. Under(disk, d, esp, 4, "BOOTX64.EFI", size, ChainEnd(esp, size) + 3)
    <2>1. n \in 0 .. ChainEnd(esp, size) + 3 /\ n = ChainEnd(esp, size) + 3
      BY <1>2, <1>3, <1>4
    <2>2. Made(disk, d, df_stage_file(d, esp, 4, "BOOTX64.EFI", size), n)
      BY <1>2
    <2>3. 4 \in {4, 5}
      OBVIOUS
    <2> HIDE DEF size, lo, hi
    <2>4. Under(disk, d, esp, 4, "BOOTX64.EFI", size, n)
      BY <1>5, <2>1, <2>2, <2>3, StageUnder
    <2>5. QED
      BY <2>1, <2>4
  <1>11. Shows(disk, esp, total, q, q, size, job.kernel)
    BY <1>5, <1>7, <1>8, <1>10, BootShows
  <1>12. Shown(disk, job, 4)
    BY <1>6, <1>7, <1>9, <1>11 DEF Shown
  <1>13. EspAfter(Plan[at]) = VolumeWith(job, q)
    <2>1. EspAfter("stage boot") = [esp EXCEPT !.nfree = q] /\ Plan[at] = "stage boot"
      BY PlanIs DEF EspAfter
    <2> HIDE DEF q
    <2>2. [VolumeWith(job, 6) EXCEPT !.nfree = q] = VolumeWith(job, q)
      BY VolumeFields
    <2>3. [esp EXCEPT !.nfree = q] = [VolumeWith(job, 6) EXCEPT !.nfree = q]
      BY <1>7
    <2>4. QED
      BY <2>1, <2>2, <2>3
  <1>14. EspAt(job, 4) = VolumeWith(job, q)
    <2>1. ~(4 < 2)
      OBVIOUS
    <2>2. QED
      BY <1>6, <1>9, <2>1 DEF EspAt
  <1>15. VolumeIn(VolumeWith(job, q), lo, hi)
    <2>1. VolumeIn([esp EXCEPT !.nfree = q], lo, hi)
      BY <1>5, VolumeAfter
    <2>2. QED
      BY <1>7, <2>1, VolumeFields
  <1>16. QED
    BY <1>12, <1>13, <1>14, <1>15

LEMMA KernelEndsWell ==
    ASSUME Inv, EspInv, busy, at = 5, todo = <<>>
    PROVE  Shown(disk, job, 5) /\ EspAfter(Plan[at]) = EspAt(job, 5)
           /\ VolumeIn(EspAt(job, 5), EspRange(job).first, EspRange(job).last)
  <1> DEFINE lo == EspRange(job).first
             hi == EspRange(job).last
             total == Length(EspRange(job))
             size == job.kernel
             p == BootEnds(job, 4)
             v == VolumeWith(job, 6)
  <1>1. PICK d, n : OnTheWay(d, n)
    BY DEF EspInv
  <1> DEFINE W == df_stage_file(d, esp, 5, "AGNOS", size)
             q == AfterFile(esp, size)
  <1>2. n \in 0 .. Len(W) /\ Rest(W, n) = <<>> /\ Made(disk, d, W, n) /\ Shown(d, job, 4)
    <2>1. EspWrites(d) = W /\ at > 2 /\ at - 1 = 4
      BY DEF EspWrites
    <2>2. QED
      BY <1>1, <2>1 DEF OnTheWay
  <1>3. W \in Seq(ToSet(W)) /\ Len(W) = ChainEnd(esp, size) + 3
    BY EspWritesSeq DEF EspWrites
  <1>4. n = Len(W)
    <2> HIDE DEF W
    <2>1. QED
      BY <1>2, <1>3, RestIsNone
  <1>5. /\ VolumeIn(esp, lo, hi) /\ lo .. hi \subseteq LBAs /\ job \in Jobs /\ size \in Nat
        /\ Fits(esp, size) /\ esp = VolumeWith(job, KernelEnds(job, 4))
    <2>1. at > 1 /\ at > 2 /\ at - 1 = 4
      OBVIOUS
    <2>2. QED
      BY <2>1, EspVolume
  <1>6. /\ KernelEnds(job, 4) = p /\ BootEnds(job, 5) = p
        /\ KernelEnds(job, 5) = p + Clusters(size)
    BY <1>5, Ends
  <1> HIDE DEF p, v
  <1>7. esp = VolumeWith(job, p) /\ esp.nfree = p
    BY <1>5, <1>6, VolumeFields
  <1>8. SameFields(esp, v) /\ SameFields(v, esp)
    <2>1. SameFields(esp, v)
      BY <1>5, <1>7, SameVolume DEF v
    <2>2. QED
      BY <2>1 DEF SameFields
  <1>9. Shows(d, esp, total, p, p, job.boot, job.kernel)
    <2>1. Shows(d, v, total, p, p, job.boot, job.kernel)
      BY <1>2, <1>6 DEF Shown, v, p
    <2>2. QED
      BY <1>8, <2>1, ShowsSame
  <1>10. q = p + Clusters(size)
    BY <1>7 DEF AfterFile
  <1>11. Under(disk, d, esp, 5, "AGNOS", size, ChainEnd(esp, size) + 3)
    <2>1. n \in 0 .. ChainEnd(esp, size) + 3 /\ n = ChainEnd(esp, size) + 3
      BY <1>2, <1>3, <1>4
    <2>2. Made(disk, d, df_stage_file(d, esp, 5, "AGNOS", size), n)
      BY <1>2
    <2>3. 5 \in {4, 5}
      OBVIOUS
    <2> HIDE DEF size, lo, hi
    <2>4. Under(disk, d, esp, 5, "AGNOS", size, n)
      BY <1>5, <2>1, <2>2, <2>3, StageUnder
    <2>5. QED
      BY <2>1, <2>4
  <1>12. Shows(disk, esp, total, p, q, job.boot, size)
    <2>1. Shows(disk, esp, total, esp.nfree, AfterFile(esp, size), job.boot, size)
      BY <1>5, <1>7, <1>9, <1>11, KernelShows
    <2>2. QED
      BY <1>7, <2>1
  <1>13. Shown(disk, job, 5)
    <2>1. Shows(disk, v, total, p, q, job.boot, size)
      BY <1>8, <1>12, ShowsSame
    <2>2. QED
      BY <1>6, <1>10, <2>1 DEF Shown, v
  <1>14. EspAfter(Plan[at]) = VolumeWith(job, q)
    <2>1. EspAfter("stage kernel") = [esp EXCEPT !.nfree = q] /\ Plan[at] = "stage kernel"
      BY PlanIs DEF EspAfter
    <2> HIDE DEF q
    <2>2. [VolumeWith(job, p) EXCEPT !.nfree = q] = VolumeWith(job, q)
      BY VolumeFields
    <2>3. [esp EXCEPT !.nfree = q] = [VolumeWith(job, p) EXCEPT !.nfree = q]
      BY <1>7
    <2>4. QED
      BY <2>1, <2>2, <2>3
  <1>15. EspAt(job, 5) = VolumeWith(job, q)
    <2>1. ~(5 < 2)
      OBVIOUS
    <2>2. QED
      BY <1>6, <1>10, <2>1 DEF EspAt
  <1>16. VolumeIn(VolumeWith(job, q), lo, hi)
    <2>1. VolumeIn([esp EXCEPT !.nfree = q], lo, hi)
      BY <1>5, VolumeAfter
    <2>2. QED
      BY <1>7, <2>1, VolumeFields
  <1>17. QED
    BY <1>13, <1>14, <1>15, <1>16

LEMMA EndEsp == Inv /\ EspInv /\ End => EspInv'
  <1> SUFFICES ASSUME Inv, EspInv, End PROVE EspInv'
    OBVIOUS
  <1> DEFINE lo == EspRange(job).first
             hi == EspRange(job).last
  <1>1. /\ status = "running" /\ busy = TRUE /\ todo = <<>> /\ at \in 1 .. 5 /\ job \in Jobs
        /\ busy' = FALSE /\ esp' = EspAfter(Plan[at]) /\ disk' = disk /\ job' = job /\ at' = at
    <2>1. at \in 0 .. 5 /\ (at = 0 => ~busy) /\ busy
      BY DEF Inv, End
    <2>2. at \in 1 .. 5
      BY <2>1
    <2>3. QED
      BY <2>2 DEF Inv, End
  <1>2. status' = IF at = 5 THEN "done" ELSE "running"
    BY <1>1, PlanIs DEF End
  <1>3. Done = at - 1 /\ Done' = at /\ at \in Int
    <2>1. status' # "failed"
      BY <1>2
    <2>2. QED
      BY <1>1, <2>1 DEF Done
  <1>4. esp = EspAt(job, at - 1)
    BY <1>3 DEF EspInv
  <1>5. FilesThere'
    <2>1. at = 4 => Clusters(job.boot) > 0
      <3>1. SUFFICES ASSUME at = 4 PROVE Clusters(job.boot) \in Nat \ {0}
        OBVIOUS
      <3>2. at > 2
        BY <3>1
      <3>3. VolumeIn(esp, lo, hi) /\ job.boot \in Nat /\ Fits(esp, job.boot)
        BY <1>1, <3>1, <3>2, EspVolume
      <3>4. QED
        BY <3>3, FileFits
    <2>2. at = 5 => Clusters(job.kernel) > 0
      <3>1. SUFFICES ASSUME at = 5 PROVE Clusters(job.kernel) \in Nat \ {0}
        OBVIOUS
      <3>2. at > 2
        BY <3>1
      <3>3. VolumeIn(esp, lo, hi) /\ job.kernel \in Nat /\ Fits(esp, job.kernel)
        BY <1>1, <3>1, <3>2, EspVolume
      <3>4. QED
        BY <3>3, FileFits
    <2>3. QED
      BY <1>1, <1>3, <2>1, <2>2 DEF EspInv, FilesThere
  <1>6. CASE at = 1
    <2>1. Plan[at] = "partition" /\ EspAfter("partition") = esp /\ at - 1 < 2 /\ at < 2 /\ ~(at >= 2)
      <3>1. EspAfter("partition") = esp
        BY DEF EspAfter
      <3>2. Plan[at] = "partition"
        BY <1>6, PlanIs
      <3>3. QED
        BY <1>6, <3>1, <3>2
    <2>2. EspAfter(Plan[at]) = EspAt(job, at)
      BY <1>4, <2>1 DEF EspAt
    <2>3. QED
      BY <1>1, <1>2, <1>3, <1>5, <1>6, <2>1, <2>2 DEF EspInv
  <1>7. CASE at > 1
    <2>1. /\ EspAfter(Plan[at]) = EspAt(job, at) /\ VolumeIn(EspAt(job, at), lo, hi)
          /\ Shown(disk, job, at)
      <3>1. CASE at = 2
        <4>1. Shown(disk, job, 2)
          BY <1>1, <3>1, FormatEnds
        <4>2. VolumeIn(VolumeWith(job, 6), lo, hi)
          BY <1>1, <3>1, EspVolume
        <4>3. Plan[at] = "format ESP" /\ EspAfter("format ESP") = NewEsp
          BY <3>1, PlanIs DEF EspAfter
        <4>4. NewEsp = VolumeWith(job, 6)
          <5>1. disk[2].esp = EspRange(job)
            BY <1>7, ReadBack DEF Inv, Written
          <5>2. QED
            BY <5>1, VolumeFields DEF NewEsp
        <4>5. EspAt(job, 2) = VolumeWith(job, 6)
          <5>1. ~(2 < 2) /\ KernelEnds(job, 2) = 6
            BY <1>1, Ends
          <5>2. QED
            BY <5>1 DEF EspAt
        <4>6. QED
          BY <3>1, <4>1, <4>2, <4>3, <4>4, <4>5
      <3>2. CASE at = 3
        <4>1. Shown(disk, job, 2) /\ VolumeIn(esp, lo, hi)
          <5>1. Done >= 2
            BY <1>3, <3>2
          <5>2. QED
            BY <1>1, <3>2, <5>1 DEF EspInv
        <4>2. Plan[at] = "format root" /\ EspAfter("format root") = esp
          BY <3>2, PlanIs DEF EspAfter
        <4>3. /\ BootEnds(job, 2) = 6 /\ KernelEnds(job, 2) = 6
              /\ BootEnds(job, 3) = 6 /\ KernelEnds(job, 3) = 6
          BY <1>1, Ends
        <4>4. Shown(disk, job, 3)
          BY <4>1, <4>3 DEF Shown
        <4>5. EspAt(job, 2) = EspAt(job, 3)
          BY <4>3 DEF EspAt
        <4>6. at - 1 = 2
          BY <3>2
        <4>7. QED
          BY <1>4, <3>2, <4>1, <4>2, <4>4, <4>5, <4>6
      <3>3. CASE at = 4
        BY <1>1, <3>3, BootEndsWell
      <3>4. CASE at = 5
        BY <1>1, <3>4, KernelEndsWell
      <3>5. QED
        BY <1>1, <1>7, <3>1, <3>2, <3>3, <3>4
    <2>2. QED
      BY <1>1, <1>2, <1>3, <1>5, <2>1 DEF EspInv
  <1>8. QED
    BY <1>1, <1>6, <1>7

LEMMA AgainEsp == EspInv /\ Again => EspInv'
  <1> SUFFICES ASSUME Again PROVE EspInv'
    OBVIOUS
  <1>1. at' = 0 /\ busy' = FALSE /\ status' = "running" /\ esp' = Unformatted
    BY DEF Again
  <1>2. Done' = 0 /\ ~(Done' >= 2) /\ Done' < 2
    BY <1>1 DEF Done
  <1>3. esp' = EspAt(job', Done')
    BY <1>1, <1>2 DEF EspAt
  <1>4. QED
    BY <1>1, <1>2, <1>3 DEF EspInv, FilesThere

LEMMA StutterEsp == EspInv /\ UNCHANGED vars => EspInv'
  <1> SUFFICES ASSUME EspInv, UNCHANGED vars PROVE EspInv'
    OBVIOUS
  <1>1. /\ disk' = disk /\ job' = job /\ at' = at /\ busy' = busy /\ todo' = todo
        /\ esp' = esp /\ status' = status
    BY DEF vars
  <1>2. Done' = Done
    BY <1>1 DEF Done
  <1>3. ASSUME NEW d, NEW n, OnTheWay(d, n) PROVE OnTheWay(d, n)'
    BY <1>1, <1>3 DEF OnTheWay, EspWrites
  <1>4. (\E d, n : OnTheWay(d, n)) => \E d, n : OnTheWay(d, n)'
    BY <1>3
  <1>5. FilesThere'
    BY <1>1, <1>2 DEF EspInv, FilesThere
  <1>6. QED
    BY <1>1, <1>2, <1>4, <1>5 DEF EspInv

LEMMA EspNext == Inv /\ EspInv /\ [Next]_vars => EspInv'
  BY BeginEsp, MakeWriteEsp, StopInEsp, EndEsp, AgainEsp, StutterEsp DEF Next, Over

LEMMA EspInvariance == Spec => []EspInv
  <1>1. Inv /\ EspInv /\ [Next]_vars => EspInv'
    BY EspNext
  <1>2. QED
    BY <1>1, InitEsp, Invariance, PTL DEF Spec

-----------------------------------------------------------------------------
(* What names lead to.                                                     *)

\* Where the entry of a cluster is.
LEMMA ClusterPlace ==
    ASSUME NEW v, NEW lo, NEW hi, VolumeIn(v, lo, hi), NEW c \in 0 .. v.coc + 1
    PROVE  /\ c \div PerSector \in 0 .. v.fatsz - 1
           /\ c % PerSector \in 0 .. PerSector - 1
           /\ (c \div PerSector) * PerSector + (c % PerSector) = c
  <1> DEFINE k == PerSector
             f == v.fatsz
  <1>1. k \in Nat \ {0} /\ f \in Nat /\ c \in Nat /\ c + 1 <= f * k
    BY FatSizes, VolumeNats
  <1> HIDE DEF k, f
  <1>2. c \div k \in Nat /\ c \div k + 1 <= f
    BY <1>1, QuotientBelow
  <1>3. c = (c \div k) * k + (c % k) /\ c % k \in 0 .. k - 1
    BY <1>1
  <1>4. c \div k \in 0 .. f - 1
    BY <1>1, <1>2
  <1>5. QED
    BY <1>3, <1>4 DEF k, f

LinkOn(D, v, copy, c) == LinksOf(D[FatSector(v, copy, c \div PerSector)])[c % PerSector]

LEMMA LinksShown ==
    ASSUME NEW v, NEW lo, NEW hi, VolumeIn(v, lo, hi), NEW c \in 0 .. v.coc + 1,
           NEW D, NEW p, NEW q, FatShows(D, v, p, q), NEW copy \in {0, 1}
    PROVE  LinkOn(D, v, copy, c) = LinkAt(p, q, c)
  <1> DEFINE s == c \div PerSector
             x == c % PerSector
  <1>1. s \in 0 .. v.fatsz - 1 /\ x \in 0 .. PerSector - 1 /\ s * PerSector + x = c
    BY ClusterPlace
  <1> HIDE DEF s, x
  <1>2. LinksOf(D[FatSector(v, 0, s)])[x] = LinkAt(p, q, s * PerSector + x)
        /\ D[FatSector(v, 1, s)] = D[FatSector(v, 0, s)]
    BY <1>1 DEF FatShows
  <1>3. LinksOf(D[FatSector(v, copy, s)])[x] = LinkAt(p, q, c)
    BY <1>1, <1>2
  <1>4. QED
    BY <1>3 DEF LinkOn, s, x

LEMMA LinksUnder ==
    ASSUME NEW v, NEW lo, NEW hi, VolumeIn(v, lo, hi), NEW size \in Nat, Fits(v, size),
           NEW D, NEW d, NEW dir, NEW name, NEW n \in Nat, Under(D, d, v, dir, name, size, n),
           NEW p, NEW q, FatShows(d, v, p, q), NEW copy \in {0, 1}, NEW c \in 0 .. v.coc + 1
    PROVE  LinkOn(D, v, copy, c) =
                LinkUnder(p, q, v.nfree, LastCluster(v, size),
                          BodyEnd(size) + Turn(v.nfree, copy, c \div PerSector) <= n, c)
  <1> DEFINE s == c \div PerSector
             x == c % PerSector
             m == BodyEnd(size) + Turn(v.nfree, copy, s) <= n
  <1>1. s \in 0 .. v.fatsz - 1 /\ x \in 0 .. PerSector - 1 /\ s * PerSector + x = c
    BY ClusterPlace
  <1> HIDE DEF s, x
  <1>2. LinksOf(D[FatSector(v, copy, s)])[x] =
            LinkUnder(p, q, v.nfree, LastCluster(v, size), m, s * PerSector + x)
    BY <1>1, UnderLinks
  <1>3. QED
    BY <1>1, <1>2 DEF LinkOn, s, x

\* The ends fit the files.
EndsFit(v, p, q, boot, kernel) ==
    /\ p \in Nat /\ q \in Nat /\ 6 <= p /\ p <= q /\ q <= v.coc + 2
    /\ Clusters(boot) \in Nat /\ Clusters(kernel) \in Nat
    /\ p > 6 => p = 6 + Clusters(boot)
    /\ q > p => q = p + Clusters(kernel)

\* What the two directories list, and where it is.
NamesShow(D, v, p, q, boot, kernel) ==
    /\ EndsFit(v, p, q, boot, kernel)
    /\ D[SectorOf(v, 4)] = Dir(IF p > 6 THEN <<Dirent("BOOTX64.EFI", 6, boot)>> ELSE <<>>)
    /\ D[SectorOf(v, 5)] = Dir(IF q > p THEN <<Dirent("AGNOS", p, kernel)>> ELSE <<>>)
    /\ \A copy \in {0, 1} : \A c \in 6 .. q - 1 : LinkOn(D, v, copy, c) = LinkAt(p, q, c)
    /\ \A c \in 6 .. p - 1 : D[SectorOf(v, c)] = Data("BOOTX64.EFI", c - 5)
    /\ \A c \in p .. q - 1 : D[SectorOf(v, c)] = Data("AGNOS", c - p + 1)

LEMMA ShowsNames ==
    ASSUME NEW v, NEW lo, NEW hi, VolumeIn(v, lo, hi), NEW D, NEW total, NEW p, NEW q,
           NEW boot, NEW kernel, EndsFit(v, p, q, boot, kernel),
           Shows(D, v, total, p, q, boot, kernel)
    PROVE  NamesShow(D, v, p, q, boot, kernel)
  <1>1. ASSUME NEW copy \in {0, 1}, NEW c \in 6 .. q - 1
        PROVE  LinkOn(D, v, copy, c) = LinkAt(p, q, c)
    <2>1. c \in 0 .. v.coc + 1
      BY VolumeNats DEF EndsFit
    <2>2. QED
      BY <2>1, LinksShown DEF Shows
  <1>2. QED
    BY <1>1 DEF Shows, EndsFit, NamesShow

Leads(v, p, q, boot, kernel) ==
    /\ p > 6 => Dirent("BOOTX64.EFI", 6, boot) \in Staged /\ Whole(v, Dirent("BOOTX64.EFI", 6, boot))
    /\ q > p => Dirent("AGNOS", p, kernel) \in Staged /\ Whole(v, Dirent("AGNOS", p, kernel))
    /\ \A file \in Staged :
          \/ p > 6 /\ file = Dirent("BOOTX64.EFI", 6, boot) /\ RunOf(file) = 6 .. p - 1
          \/ q > p /\ file = Dirent("AGNOS", p, kernel) /\ RunOf(file) = p .. q - 1

LEMMA NamesLead ==
    ASSUME NEW p, NEW q, NEW boot, NEW kernel, NamesShow(disk, esp, p, q, boot, kernel)
    PROVE  Leads(esp, p, q, boot, kernel)
  <1> DEFINE b == Dirent("BOOTX64.EFI", 6, boot)
             k == Dirent("AGNOS", p, kernel)
  <1>1. /\ p \in Nat /\ q \in Nat /\ 6 <= p /\ p <= q
        /\ p > 6 => p = 6 + Clusters(boot)
        /\ q > p => q = p + Clusters(kernel)
        /\ Clusters(boot) \in Nat /\ Clusters(kernel) \in Nat
    BY DEF NamesShow, EndsFit
  <1>2. /\ b.first = 6 /\ b.size = boot /\ b.name = "BOOTX64.EFI"
        /\ k.first = p /\ k.size = kernel /\ k.name = "AGNOS"
    BY DEF Dirent
  <1>3. /\ p > 6 => RunOf(b) = 6 .. p - 1
        /\ q > p => RunOf(k) = p .. q - 1
    <2> HIDE DEF b, k
    <2>1. QED
      BY <1>1, <1>2 DEF RunOf
  <1>4. Staged = (IF p > 6 THEN {b} ELSE {}) \cup (IF q > p THEN {k} ELSE {})
    <2>1. /\ disk[SectorOf(esp, 4)].entries = IF p > 6 THEN <<b>> ELSE <<>>
          /\ disk[SectorOf(esp, 5)].entries = IF q > p THEN <<k>> ELSE <<>>
      BY DEF NamesShow, Dir
    <2>2. \A x : ToSet(<<x>>) = {x}
      BY DEF ToSet
    <2>3. ToSet(<<>>) = {}
      BY DEF ToSet
    <2>4. Staged = ToSet(disk[SectorOf(esp, 4)].entries) \cup ToSet(disk[SectorOf(esp, 5)].entries)
      BY DEF Staged
    <2> HIDE DEF b, k
    <2>5. QED
      BY <2>1, <2>2, <2>3, <2>4
  <1>5. ASSUME p > 6 PROVE Whole(esp, b)
    <2>1. ASSUME NEW c \in RunOf(b)
          PROVE  /\ \A copy \in {0, 1} :
                        Link(esp, copy, c) = IF c + 1 \in RunOf(b) THEN c + 1 ELSE Eoc
                 /\ disk[SectorOf(esp, c)] = Data(b.name, c - b.first + 1)
      <3>1. c \in 6 .. p - 1 /\ c \in 6 .. q - 1 /\ c - 6 + 1 = c - 5
        BY <1>1, <1>3, <1>5, <2>1
      <3>2. LinkAt(p, q, c) = IF c + 1 \in RunOf(b) THEN c + 1 ELSE Eoc
        <4>1. c + 1 \in RunOf(b) <=> ~(c + 1 \in {p, q})
          BY <1>1, <1>3, <1>5, <3>1
        <4>2. ~(c <= 5) /\ ~(c >= q)
          BY <1>1, <3>1
        <4>3. QED
          BY <4>1, <4>2 DEF LinkAt
      <3>3. \A copy \in {0, 1} : Link(esp, copy, c) = LinkAt(p, q, c)
        BY <3>1 DEF NamesShow, LinkOn, Link
      <3>4. disk[SectorOf(esp, c)] = Data("BOOTX64.EFI", c - 5)
        BY <3>1 DEF NamesShow
      <3> HIDE DEF b, k
      <3>5. QED
        BY <1>2, <3>1, <3>2, <3>3, <3>4
    <2>2. QED
      BY <2>1 DEF Whole
  <1>6. ASSUME q > p PROVE Whole(esp, k)
    <2>1. ASSUME NEW c \in RunOf(k)
          PROVE  /\ \A copy \in {0, 1} :
                        Link(esp, copy, c) = IF c + 1 \in RunOf(k) THEN c + 1 ELSE Eoc
                 /\ disk[SectorOf(esp, c)] = Data(k.name, c - k.first + 1)
      <3>1. c \in p .. q - 1 /\ c \in 6 .. q - 1
        BY <1>1, <1>3, <1>6, <2>1
      <3>2. LinkAt(p, q, c) = IF c + 1 \in RunOf(k) THEN c + 1 ELSE Eoc
        <4>1. c + 1 \in RunOf(k) <=> ~(c + 1 \in {p, q})
          BY <1>1, <1>3, <1>6, <3>1
        <4>2. ~(c <= 5) /\ ~(c >= q)
          BY <1>1, <3>1
        <4>3. QED
          BY <4>1, <4>2 DEF LinkAt
      <3>3. \A copy \in {0, 1} : Link(esp, copy, c) = LinkAt(p, q, c)
        BY <3>1 DEF NamesShow, LinkOn, Link
      <3>4. disk[SectorOf(esp, c)] = Data("AGNOS", c - p + 1)
        BY <3>1 DEF NamesShow
      <3> HIDE DEF b, k
      <3>5. QED
        BY <1>2, <3>2, <3>3, <3>4
    <2>2. QED
      BY <2>1 DEF Whole
  <1> HIDE DEF b, k
  <1>7. /\ p > 6 => b \in Staged /\ Whole(esp, b)
        /\ q > p => k \in Staged /\ Whole(esp, k)
        /\ \A file \in Staged :
              \/ p > 6 /\ file = b /\ RunOf(file) = 6 .. p - 1
              \/ q > p /\ file = k /\ RunOf(file) = p .. q - 1
    BY <1>3, <1>4, <1>5, <1>6
  <1>8. QED
    BY <1>7 DEF Leads, b, k

\* Before the name is written, the directories lead to what they led to.
LEMMA OldNames ==
    ASSUME NEW v, NEW lo, NEW hi, VolumeIn(v, lo, hi), NEW size \in Nat, Fits(v, size),
           NEW D, NEW d, NEW dir \in {4, 5}, NEW name, NEW n \in Nat, n <= ChainEnd(v, size),
           Under(D, d, v, dir, name, size, n), NEW total, NEW boot, NEW kernel,
           Shows(d, v, total, v.nfree, v.nfree, boot, kernel),
           EndsFit(v, v.nfree, v.nfree, boot, kernel)
    PROVE  NamesShow(D, v, v.nfree, v.nfree, boot, kernel)
  <1> DEFINE p == v.nfree
             last == LastCluster(v, size)
             e == ChainEnd(v, size)
  <1>1. p \in Nat /\ p > 5 /\ last \in Int /\ p <= last /\ v.coc \in Nat /\ p <= v.coc + 2
    BY FileFits, VolumeNats DEF LastCluster
  <1>2. NamesShow(d, v, p, p, boot, kernel)
    BY ShowsNames
  <1>3. ~(e + 1 <= n)
    <2>1. StageIs(df_stage_file(0, v, 4, 0, size), BodyWrites(v, 0, Clusters(size)),
                  df_fat_write_chain(0, v, v.nfree, LastCluster(v, size)),
                  v, 4, 0, size, BodyEnd(size), ChainLen(v.nfree, LastCluster(v, size)), e)
      BY StageShape
    <2>2. e \in Nat
      BY <2>1 DEF StageIs
    <2>3. QED
      BY <2>2
  <1>4. ASSUME NEW c \in 2 .. p - 1 PROVE D[SectorOf(v, c)] = d[SectorOf(v, c)]
    <2>1. CASE c = dir
      <3>1. D[SectorOf(v, dir)] = d[SectorOf(v, dir)]
        <4> HIDE DEF last, p
        <4>1. QED
          BY <1>3 DEF Under
      <3>2. QED
        BY <2>1, <3>1
    <2>2. CASE c # dir
      <3>1. c \in 2 .. v.coc + 1 /\ c \notin p .. last
        BY <1>1
      <3>2. QED
        BY <2>2, <3>1 DEF Under
    <2>3. QED
      BY <2>1, <2>2
  <1>5. ASSUME NEW copy \in {0, 1}, NEW c \in 6 .. p - 1
        PROVE  LinkOn(D, v, copy, c) = LinkAt(p, p, c)
    <2>1. c \in 0 .. v.coc + 1 /\ c \notin p .. last
      BY <1>1
    <2>2. FatShows(d, v, p, p)
      BY DEF Shows
    <2> DEFINE m == BodyEnd(size) + Turn(p, copy, c \div PerSector) <= n
    <2>3. LinkOn(D, v, copy, c) = LinkUnder(p, p, p, last, m, c)
      BY <2>1, <2>2, LinksUnder
    <2> HIDE DEF m, p, last
    <2>4. QED
      BY <2>1, <2>3 DEF LinkUnder
  <1> HIDE DEF p, last, e
  <1>6. /\ 4 \in 2 .. p - 1 /\ 5 \in 2 .. p - 1
        /\ \A c \in 6 .. p - 1 : c \in 2 .. p - 1
        /\ \A c \in p .. p - 1 : FALSE
    BY <1>1
  <1>7. NamesShow(D, v, p, p, boot, kernel)
    BY <1>2, <1>4, <1>5, <1>6 DEF NamesShow
  <1>8. QED
    BY <1>7 DEF p

\* From then on, the new name leads to the file.
NewFile(D, d, v, dir, name, size) ==
    /\ D[SectorOf(v, dir)] = Dir(<<Dirent(name, v.nfree, size)>>)
    /\ \A c \in 2 .. v.nfree - 1 : c # dir => D[SectorOf(v, c)] = d[SectorOf(v, c)]
    /\ \A c \in v.nfree .. AfterFile(v, size) - 1 :
            D[SectorOf(v, c)] = Data(name, c - v.nfree + 1)
    /\ \A copy \in {0, 1} : \A c \in 6 .. AfterFile(v, size) - 1 :
            /\ LinkOn(D, v, copy, c) = LinkAt(v.nfree, AfterFile(v, size), c)
            /\ v.nfree = 6 =>
                  LinkOn(D, v, copy, c) = LinkAt(AfterFile(v, size), AfterFile(v, size), c)
    /\ v.nfree \in Nat /\ v.nfree > 5 /\ AfterFile(v, size) \in Nat
    /\ AfterFile(v, size) > v.nfree /\ AfterFile(v, size) <= v.coc + 2
    /\ AfterFile(v, size) = v.nfree + Clusters(size) /\ Clusters(size) \in Nat

LEMMA NewName ==
    ASSUME NEW v, NEW lo, NEW hi, VolumeIn(v, lo, hi), NEW size \in Nat, Fits(v, size),
           NEW D, NEW d, NEW dir \in {4, 5}, NEW name, NEW n \in Nat, ChainEnd(v, size) < n,
           Under(D, d, v, dir, name, size, n), FatShows(d, v, v.nfree, v.nfree)
    PROVE  NewFile(D, d, v, dir, name, size)
  <1> DEFINE p == v.nfree
             q == AfterFile(v, size)
             e == ChainEnd(v, size)
             b == BodyEnd(size)
  <1>1. p \in Nat /\ p > 5 /\ q \in Nat /\ q > p /\ LastCluster(v, size) = q - 1
        /\ q <= v.coc + 2 /\ v.coc \in Nat /\ q = p + Clusters(size) /\ Clusters(size) \in Nat
    <2>1. v.nfree \in 6 .. v.coc + 1 /\ v.coc \in Nat /\ Clusters(size) \in Nat \ {0}
          /\ v.nfree + Clusters(size) <= v.coc + 2
      BY FileFits, VolumeNats
    <2>2. QED
      BY <2>1 DEF AfterFile, LastCluster
  <1>2. b \in Nat /\ e \in Nat /\ b <= e
    <2>1. StageIs(df_stage_file(0, v, 4, 0, size), BodyWrites(v, 0, Clusters(size)),
                  df_fat_write_chain(0, v, v.nfree, LastCluster(v, size)),
                  v, 4, 0, size, b, ChainLen(v.nfree, LastCluster(v, size)), e)
      BY StageShape
    <2>2. QED
      BY <2>1 DEF StageIs
  <1>3. e + 1 <= n /\ n >= b
    BY <1>2
  <1>4. /\ D[SectorOf(v, dir)] = Dir(<<Dirent(name, p, size)>>)
        /\ \A c \in 2 .. v.coc + 1 :
                c \notin p .. q - 1 /\ c # dir => D[SectorOf(v, c)] = d[SectorOf(v, c)]
        /\ \A c \in p .. q - 1 : D[SectorOf(v, c)] = Data(name, c - p + 1)
    <2> HIDE DEF b, e
    <2>1. QED
      BY <1>1, <1>3 DEF Under, b, e
  <1>5. \A c \in 2 .. p - 1 : c \in 2 .. v.coc + 1 /\ c \notin p .. q - 1
    BY <1>1
  <1>6. ASSUME NEW copy \in {0, 1}, NEW c \in 6 .. q - 1
        PROVE  /\ LinkOn(D, v, copy, c) = LinkAt(p, q, c)
               /\ p = 6 => LinkOn(D, v, copy, c) = LinkAt(q, q, c)
    <2> DEFINE s == c \div PerSector
               m == b + Turn(p, copy, s) <= n
    <2>1. c \in 0 .. v.coc + 1 /\ c \in Nat
      BY <1>1
    <2>2. LinkOn(D, v, copy, c) = LinkUnder(p, p, p, q - 1, m, c)
      <3> HIDE DEF q
      <3>1. QED
        BY <1>1, <2>1, LinksUnder
    <2>3. c \in p .. q - 1 => m
      <3>1. ASSUME c \in p .. q - 1 PROVE m
        <4>1. s \in Nat /\ c % PerSector \in 0 .. PerSector - 1
              /\ s * PerSector + (c % PerSector) = c
          BY <2>1, ClusterPlace, VolumeNats
        <4>2. s \in From(p) .. From(q - 1)
          <5> DEFINE x == c % PerSector
          <5>1. s * PerSector + x \in p .. q - 1 /\ x \in 0 .. PerSector - 1
            BY <3>1, <4>1
          <5>2. q - 1 \in Nat
            BY <1>1
          <5> HIDE DEF s, x, q, p
          <5>3. QED
            BY <1>1, <4>1, <5>1, <5>2, SectorHas
        <4>3. b + Turn(p, copy, s) \in b + 1 .. e
          <5> HIDE DEF s
          <5>1. QED
            BY <1>1, <4>2, Turns
        <4>4. QED
          BY <1>2, <1>3, <4>3
      <3>2. QED
        BY <3>1
    <2>4. m \in BOOLEAN
      OBVIOUS
    <2> HIDE DEF m, s
    <2>5. /\ p = 6 => LinkUnder(6, 6, 6, q - 1, m, c) = LinkAt(q, q, c)
          /\ LinkUnder(p, p, p, q - 1, m, c) = LinkAt(p, q, c)
      BY <1>1, <2>1, <2>3, <2>4, LinksGrow
    <2>6. QED
      BY <2>2, <2>5
  <1> HIDE DEF p, q, b, e
  <1>7. QED
    BY <1>1, <1>4, <1>5, <1>6 DEF NewFile, p, q

LEMMA BootNames ==
    ASSUME NEW v, NEW D, NEW d, NEW size, NewFile(D, d, v, 4, "BOOTX64.EFI", size), v.nfree = 6,
           NEW total, NEW kernel, Clusters(kernel) \in Nat, Shows(d, v, total, 6, 6, size, kernel)
    PROVE  NamesShow(D, v, AfterFile(v, size), AfterFile(v, size), size, kernel)
  <1> DEFINE q == AfterFile(v, size)
  <1>1. /\ D[SectorOf(v, 4)] = Dir(<<Dirent("BOOTX64.EFI", 6, size)>>)
        /\ \A c \in 2 .. 5 : c # 4 => D[SectorOf(v, c)] = d[SectorOf(v, c)]
        /\ \A c \in 6 .. q - 1 : D[SectorOf(v, c)] = Data("BOOTX64.EFI", c - 6 + 1)
        /\ \A copy \in {0, 1} : \A c \in 6 .. q - 1 : LinkOn(D, v, copy, c) = LinkAt(q, q, c)
        /\ q \in Nat /\ q > 6 /\ q <= v.coc + 2 /\ q = 6 + Clusters(size) /\ Clusters(size) \in Nat
    BY DEF NewFile
  <1> HIDE DEF q
  <1>2. EndsFit(v, q, q, size, kernel)
    BY <1>1 DEF EndsFit
  <1>3. D[SectorOf(v, 5)] = Dir(<<>>)
    <2>1. 5 \in 2 .. 5 /\ 5 # 4 /\ ~(6 > 6)
      OBVIOUS
    <2>2. QED
      BY <1>1, <2>1 DEF Shows
  <1>4. ~(q > q) /\ (\A c \in q .. q - 1 : FALSE) /\ \A c \in 6 .. q - 1 : c - 6 + 1 = c - 5
    BY <1>1
  <1>5. NamesShow(D, v, q, q, size, kernel)
    BY <1>1, <1>2, <1>3, <1>4 DEF NamesShow
  <1>6. QED
    BY <1>5 DEF q

LEMMA KernelNames ==
    ASSUME NEW v, NEW D, NEW d, NEW size, NewFile(D, d, v, 5, "AGNOS", size),
           NEW total, NEW boot, Shows(d, v, total, v.nfree, v.nfree, boot, size),
           EndsFit(v, v.nfree, v.nfree, boot, size)
    PROVE  NamesShow(D, v, v.nfree, AfterFile(v, size), boot, size)
  <1> DEFINE p == v.nfree
             q == AfterFile(v, size)
  <1>1. /\ D[SectorOf(v, 5)] = Dir(<<Dirent("AGNOS", p, size)>>)
        /\ \A c \in 2 .. p - 1 : c # 5 => D[SectorOf(v, c)] = d[SectorOf(v, c)]
        /\ \A c \in p .. q - 1 : D[SectorOf(v, c)] = Data("AGNOS", c - p + 1)
        /\ \A copy \in {0, 1} : \A c \in 6 .. q - 1 : LinkOn(D, v, copy, c) = LinkAt(p, q, c)
        /\ p \in Nat /\ p > 5 /\ q \in Nat /\ q > p /\ q <= v.coc + 2
        /\ q = p + Clusters(size) /\ Clusters(size) \in Nat
    BY DEF NewFile
  <1>2. Shows(d, v, total, p, p, boot, size) /\ EndsFit(v, p, p, boot, size)
    OBVIOUS
  <1> HIDE DEF p, q
  <1>3. EndsFit(v, p, q, boot, size)
    BY <1>1, <1>2 DEF EndsFit
  <1>4. 4 \in 2 .. p - 1 /\ 4 # 5 /\ \A c \in 6 .. p - 1 : c \in 2 .. p - 1 /\ c # 5
    BY <1>1
  <1>5. /\ D[SectorOf(v, 4)] = d[SectorOf(v, 4)]
        /\ \A c \in 6 .. p - 1 : D[SectorOf(v, c)] = d[SectorOf(v, c)]
    BY <1>1, <1>4
  <1>6. NamesShow(D, v, p, q, boot, size)
    BY <1>1, <1>2, <1>3, <1>5 DEF NamesShow, Shows
  <1>7. QED
    BY <1>6 DEF p, q

\* Where nothing is written to the ESP.
Calm(p, q) ==
    /\ VolumeIn(esp, EspRange(job).first, EspRange(job).last)
    /\ Shows(disk, esp, Length(EspRange(job)), p, q, job.boot, job.kernel)
    /\ EndsFit(esp, p, q, job.boot, job.kernel) /\ esp.nfree = q

LEMMA WhenCalm ==
    ASSUME Inv, EspInv, Formatted, ~busy \/ at = 3
    PROVE  Calm(BootEnds(job, Done), KernelEnds(job, Done)) /\ Done \in 2 .. 5
  <1> DEFINE p == BootEnds(job, Done)
             q == KernelEnds(job, Done)
             v == VolumeWith(job, 6)
             total == Length(EspRange(job))
  <1>1. Done \in -1 .. 5 /\ Done >= 2
    <2>1. at \in 0 .. 5
      BY DEF Inv
    <2>2. Done \in -1 .. 5
      BY <2>1 DEF Done
    <2>3. ~(Done < 2)
      BY DEF EspInv, EspAt, Formatted
    <2>4. QED
      BY <2>2, <2>3
  <1>2. /\ VolumeIn(esp, EspRange(job).first, EspRange(job).last)
        /\ esp = VolumeWith(job, q) /\ job \in Jobs
    BY <1>1 DEF EspInv, EspAt, Inv
  <1>3. Shown(disk, job, Done)
    <2>1. CASE ~busy
      BY <1>1, <2>1 DEF EspInv
    <2>2. CASE busy /\ at = 3
      <3>1. Done = 2
        BY <2>2 DEF Done
      <3>2. QED
        BY <2>2, <3>1 DEF EspInv
    <2>3. QED
      BY <2>1, <2>2
  <1>4. Done \in 2 .. 5
    BY <1>1
  <1>5. /\ p \in Nat /\ q \in Nat /\ 6 <= p /\ p <= q
        /\ Clusters(job.boot) \in Nat /\ Clusters(job.kernel) \in Nat
        /\ p > 6 => p = 6 + Clusters(job.boot)
        /\ q > p => q = p + Clusters(job.kernel)
    BY <1>2, <1>4, Ends DEF BootEnds, KernelEnds
  <1> HIDE DEF p, q, v, total
  <1>6. SameFields(v, esp) /\ esp.nfree = q
    <2>1. SameFields(esp, v)
      BY <1>2, SameVolume DEF v
    <2>2. QED
      BY <1>2, <2>1, VolumeFields DEF SameFields
  <1>7. Shows(disk, esp, total, p, q, job.boot, job.kernel)
    <2>1. Shows(disk, v, total, p, q, job.boot, job.kernel)
      BY <1>3 DEF Shown, v, p, q, total
    <2>2. QED
      BY <1>6, <2>1, ShowsSame
  <1>8. q <= esp.coc + 2
    BY <1>2, <1>6, VolumeNats
  <1>9. EndsFit(esp, p, q, job.boot, job.kernel)
    BY <1>5, <1>8 DEF EndsFit
  <1>10. Calm(p, q)
    BY <1>2, <1>6, <1>7, <1>9 DEF Calm, total
  <1>11. QED
    BY <1>4, <1>10 DEF p, q

\* Where a file is staged, n writes after the disk was d.
Staging(dir, name, size, d, n) ==
    /\ VolumeIn(esp, EspRange(job).first, EspRange(job).last)
    /\ size \in Nat /\ Fits(esp, size) /\ n \in 0 .. ChainEnd(esp, size) + 3
    /\ Under(disk, d, esp, dir, name, size, n)
    /\ Shows(d, esp, Length(EspRange(job)), esp.nfree, esp.nfree, job.boot, job.kernel)
    /\ EndsFit(esp, esp.nfree, esp.nfree, job.boot, job.kernel)

LEMMA WhenBoot ==
    ASSUME Inv, EspInv, busy, at = 4
    PROVE  esp.nfree = 6 /\ \E d, n : Staging(4, "BOOTX64.EFI", job.boot, d, n)
  <1> DEFINE lo == EspRange(job).first
             hi == EspRange(job).last
             total == Length(EspRange(job))
             size == job.boot
  <1>1. PICK d, n : OnTheWay(d, n)
    BY DEF EspInv
  <1> DEFINE W == df_stage_file(d, esp, 4, "BOOTX64.EFI", size)
  <1>2. n \in 0 .. Len(W) /\ Made(disk, d, W, n) /\ Shown(d, job, 3)
    <2>1. EspWrites(d) = W /\ at > 2 /\ at - 1 = 3
      BY DEF EspWrites
    <2>2. QED
      BY <1>1, <2>1 DEF OnTheWay
  <1>3. W \in Seq(ToSet(W)) /\ Len(W) = ChainEnd(esp, size) + 3
    BY EspWritesSeq DEF EspWrites
  <1>5. /\ VolumeIn(esp, lo, hi) /\ lo .. hi \subseteq LBAs /\ job \in Jobs /\ size \in Nat
        /\ Fits(esp, size) /\ esp = VolumeWith(job, KernelEnds(job, 3))
    <2>1. at > 1 /\ at > 2 /\ at - 1 = 3
      OBVIOUS
    <2>2. QED
      BY <2>1, EspVolume
  <1>6. /\ BootEnds(job, 3) = 6 /\ KernelEnds(job, 3) = 6
        /\ Clusters(size) \in Nat /\ Clusters(job.kernel) \in Nat
    BY <1>5, Ends
  <1>7. esp = VolumeWith(job, 6) /\ esp.nfree = 6
    BY <1>5, <1>6, VolumeFields
  <1>8. Shows(d, esp, total, 6, 6, job.boot, job.kernel)
    BY <1>2, <1>6, <1>7 DEF Shown
  <1>9. EndsFit(esp, 6, 6, job.boot, job.kernel)
    BY <1>5, <1>6, <1>7, VolumeNats DEF EndsFit
  <1>10. n \in 0 .. ChainEnd(esp, size) + 3
    BY <1>2, <1>3
  <1>11. Under(disk, d, esp, 4, "BOOTX64.EFI", size, n)
    <2>1. Made(disk, d, df_stage_file(d, esp, 4, "BOOTX64.EFI", size), n)
      BY <1>2
    <2>2. 4 \in {4, 5}
      OBVIOUS
    <2> HIDE DEF size, lo, hi
    <2>3. QED
      BY <1>5, <1>10, <2>1, <2>2, StageUnder
  <1>12. Staging(4, "BOOTX64.EFI", job.boot, d, n)
    BY <1>5, <1>7, <1>8, <1>9, <1>10, <1>11 DEF Staging
  <1>13. QED
    BY <1>7, <1>12

LEMMA WhenKernel ==
    ASSUME Inv, EspInv, busy, at = 5
    PROVE  \E d, n : Staging(5, "AGNOS", job.kernel, d, n)
  <1> DEFINE lo == EspRange(job).first
             hi == EspRange(job).last
             total == Length(EspRange(job))
             size == job.kernel
             p == BootEnds(job, 4)
             v == VolumeWith(job, 6)
  <1>1. PICK d, n : OnTheWay(d, n)
    BY DEF EspInv
  <1> DEFINE W == df_stage_file(d, esp, 5, "AGNOS", size)
  <1>2. n \in 0 .. Len(W) /\ Made(disk, d, W, n) /\ Shown(d, job, 4)
    <2>1. EspWrites(d) = W /\ at > 2 /\ at - 1 = 4
      BY DEF EspWrites
    <2>2. QED
      BY <1>1, <2>1 DEF OnTheWay
  <1>3. W \in Seq(ToSet(W)) /\ Len(W) = ChainEnd(esp, size) + 3
    BY EspWritesSeq DEF EspWrites
  <1>5. /\ VolumeIn(esp, lo, hi) /\ lo .. hi \subseteq LBAs /\ job \in Jobs /\ size \in Nat
        /\ Fits(esp, size) /\ esp = VolumeWith(job, KernelEnds(job, 4))
    <2>1. at > 1 /\ at > 2 /\ at - 1 = 4
      OBVIOUS
    <2>2. QED
      BY <2>1, EspVolume
  <1>6. /\ KernelEnds(job, 4) = p /\ p = 6 + Clusters(job.boot)
        /\ Clusters(job.boot) \in Nat /\ Clusters(size) \in Nat
    BY <1>5, Ends
  <1> HIDE DEF p, v
  <1>7. esp = VolumeWith(job, p) /\ esp.nfree = p
    BY <1>5, <1>6, VolumeFields
  <1>8. SameFields(v, esp)
    <2>1. SameFields(esp, v)
      BY <1>5, <1>7, SameVolume DEF v
    <2>2. QED
      BY <2>1 DEF SameFields
  <1>9. Shows(d, esp, total, p, p, job.boot, job.kernel)
    <2>1. Shows(d, v, total, p, p, job.boot, job.kernel)
      BY <1>2, <1>6 DEF Shown, v, p
    <2>2. QED
      BY <1>8, <2>1, ShowsSame
  <1>10. EndsFit(esp, p, p, job.boot, job.kernel)
    BY <1>5, <1>6, <1>7, VolumeNats DEF EndsFit
  <1>11. n \in 0 .. ChainEnd(esp, size) + 3
    BY <1>2, <1>3
  <1>12. Under(disk, d, esp, 5, "AGNOS", size, n)
    <2>1. Made(disk, d, df_stage_file(d, esp, 5, "AGNOS", size), n)
      BY <1>2
    <2>2. 5 \in {4, 5}
      OBVIOUS
    <2> HIDE DEF size, lo, hi
    <2>3. QED
      BY <1>5, <1>11, <2>1, <2>2, StageUnder
  <1>13. Staging(5, "AGNOS", job.kernel, d, n)
    BY <1>5, <1>7, <1>9, <1>10, <1>11, <1>12 DEF Staging
  <1>14. QED
    BY <1>13

\* Those are all there are.
LEMMA WhenFormatted ==
    ASSUME Inv, EspInv, Formatted
    PROVE  \/ ~busy \/ at = 3
           \/ busy /\ at = 4
           \/ busy /\ at = 5
  <1>1. at \in 0 .. 5
    BY DEF Inv
  <1>2. ~(Done < 2)
    BY DEF EspInv, EspAt, Formatted
  <1>3. busy => at - 1 >= 2
    BY <1>1, <1>2 DEF Done
  <1>4. QED
    BY <1>1, <1>3

LEMMA NamesNow ==
    ASSUME Inv, EspInv, Formatted
    PROVE  \E p, q : NamesShow(disk, esp, p, q, job.boot, job.kernel)
  <1>1. CASE ~busy \/ at = 3
    <2>1. PICK p, q : Calm(p, q)
      BY <1>1, WhenCalm
    <2>2. NamesShow(disk, esp, p, q, job.boot, job.kernel)
      BY <2>1, ShowsNames DEF Calm
    <2>3. QED
      BY <2>2
  <1>2. CASE busy /\ at = 4
    <2> DEFINE size == job.boot
               q == AfterFile(esp, size)
    <2>1. PICK d, n : Staging(4, "BOOTX64.EFI", size, d, n)
      BY <1>2, WhenBoot
    <2>2. esp.nfree = 6 /\ 4 \in {4, 5}
      BY <1>2, WhenBoot
    <2> HIDE DEF q, size
    <2>3. n \in Nat /\ n \in 0 .. ChainEnd(esp, size) + 3
      BY <2>1 DEF Staging
    <2>4. CASE n <= ChainEnd(esp, size)
      <3>1. NamesShow(disk, esp, esp.nfree, esp.nfree, job.boot, job.kernel)
        BY <2>1, <2>2, <2>3, <2>4, OldNames DEF Staging
      <3>2. QED
        BY <3>1
    <2>5. CASE ~(n <= ChainEnd(esp, size))
      <3>1. NewFile(disk, d, esp, 4, "BOOTX64.EFI", size)
        <4>1. FatShows(d, esp, esp.nfree, esp.nfree)
          BY <2>1 DEF Staging, Shows
        <4>2. ChainEnd(esp, size) < n
          <5>1. ChainEnd(esp, size) \in Int
            <6>1. StageIs(df_stage_file(0, esp, 4, 0, size), BodyWrites(esp, 0, Clusters(size)),
                          df_fat_write_chain(0, esp, esp.nfree, LastCluster(esp, size)),
                          esp, 4, 0, size, BodyEnd(size),
                          ChainLen(esp.nfree, LastCluster(esp, size)), ChainEnd(esp, size))
              BY <2>1, <2>2, StageShape DEF Staging
            <6>2. QED
              BY <6>1 DEF StageIs
          <5>2. QED
            BY <2>3, <2>5, <5>1
        <4>3. QED
          BY <2>1, <2>2, <2>3, <4>1, <4>2, NewName DEF Staging
      <3>2. Shows(d, esp, Length(EspRange(job)), 6, 6, size, job.kernel)
            /\ Clusters(job.kernel) \in Nat
        BY <2>1, <2>2 DEF Staging, EndsFit, size
      <3>3. NamesShow(disk, esp, q, q, size, job.kernel)
        BY <2>2, <3>1, <3>2, BootNames DEF q
      <3>4. QED
        BY <3>3 DEF size
    <2>6. QED
      BY <2>4, <2>5
  <1>3. CASE busy /\ at = 5
    <2> DEFINE size == job.kernel
               q == AfterFile(esp, size)
    <2>1. PICK d, n : Staging(5, "AGNOS", size, d, n)
      BY <1>3, WhenKernel
    <2>2. 5 \in {4, 5}
      OBVIOUS
    <2> HIDE DEF q, size
    <2>3. n \in Nat /\ n \in 0 .. ChainEnd(esp, size) + 3
      BY <2>1 DEF Staging
    <2>4. CASE n <= ChainEnd(esp, size)
      <3>1. NamesShow(disk, esp, esp.nfree, esp.nfree, job.boot, job.kernel)
        BY <2>1, <2>2, <2>3, <2>4, OldNames DEF Staging
      <3>2. QED
        BY <3>1
    <2>5. CASE ~(n <= ChainEnd(esp, size))
      <3>1. NewFile(disk, d, esp, 5, "AGNOS", size)
        <4>1. FatShows(d, esp, esp.nfree, esp.nfree)
          BY <2>1 DEF Staging, Shows
        <4>2. ChainEnd(esp, size) < n
          <5>1. ChainEnd(esp, size) \in Int
            <6>1. StageIs(df_stage_file(0, esp, 5, 0, size), BodyWrites(esp, 0, Clusters(size)),
                          df_fat_write_chain(0, esp, esp.nfree, LastCluster(esp, size)),
                          esp, 5, 0, size, BodyEnd(size),
                          ChainLen(esp.nfree, LastCluster(esp, size)), ChainEnd(esp, size))
              BY <2>1, <2>2, StageShape DEF Staging
            <6>2. QED
              BY <6>1 DEF StageIs
          <5>2. QED
            BY <2>3, <2>5, <5>1
        <4>3. QED
          BY <2>1, <2>2, <2>3, <4>1, <4>2, NewName DEF Staging
      <3>2. /\ Shows(d, esp, Length(EspRange(job)), esp.nfree, esp.nfree, job.boot, size)
            /\ EndsFit(esp, esp.nfree, esp.nfree, job.boot, size)
        BY <2>1 DEF Staging, size
      <3>3. NamesShow(disk, esp, esp.nfree, q, job.boot, size)
        BY <3>1, <3>2, KernelNames DEF q
      <3>4. QED
        BY <3>3 DEF size
    <2>6. QED
      BY <2>4, <2>5
  <1>4. QED
    BY <1>1, <1>2, <1>3, WhenFormatted

LEMMA NamesInv == Inv /\ EspInv => NamesWhole
  <1> SUFFICES ASSUME Inv, EspInv, Formatted
               PROVE  /\ \A file \in Staged : Whole(esp, file)
                      /\ \A file, other \in Staged :
                            file # other => RunOf(file) \cap RunOf(other) = {}
    BY DEF NamesWhole
  <1>1. PICK p, q : NamesShow(disk, esp, p, q, job.boot, job.kernel)
    BY NamesNow
  <1>2. Leads(esp, p, q, job.boot, job.kernel)
    BY <1>1, NamesLead
  <1>3. (6 .. p - 1) \cap (p .. q - 1) = {}
    BY <1>1 DEF NamesShow, EndsFit
  <1>4. \A file \in Staged : Whole(esp, file)
    BY <1>2 DEF Leads
  <1>5. \A file, other \in Staged : file # other => RunOf(file) \cap RunOf(other) = {}
    <2> DEFINE b == Dirent("BOOTX64.EFI", 6, job.boot)
               k == Dirent("AGNOS", p, job.kernel)
    <2>1. \A file \in Staged : \/ file = b /\ RunOf(file) = 6 .. p - 1
                               \/ file = k /\ RunOf(file) = p .. q - 1
      BY <1>2 DEF Leads
    <2> HIDE DEF b, k
    <2>2. QED
      BY <1>3, <2>1
  <1>6. QED
    BY <1>4, <1>5

-----------------------------------------------------------------------------
(* Nothing for fsck.                                                       *)

\* The clusters of what the directories lead to are those in use.
LEMMA CalmUse ==
    ASSUME NEW p, NEW q, Calm(p, q)
    PROVE  /\ UsedClusters = 2 .. q - 1
           /\ \A c \in AllClusters : LinkOf(0, c) = LinkOf(1, c)
           /\ DifferingSectors = {}
  <1>1. EndsFit(esp, p, q, job.boot, job.kernel) /\ esp.coc \in Nat /\ FatShows(disk, esp, p, q)
    BY VolumeNats DEF Calm, Shows
  <1>2. ASSUME NEW c \in AllClusters, NEW copy \in {0, 1}
        PROVE  LinkOf(copy, c) = LinkAt(p, q, c)
    <2>1. c \in 0 .. esp.coc + 1
      BY <1>1 DEF AllClusters
    <2>2. LinkOn(disk, esp, copy, c) = LinkAt(p, q, c)
      BY <1>1, <2>1, LinksShown DEF Calm
    <2>3. QED
      BY <2>2 DEF LinkOn, LinkOf, Link
  <1>3. UsedClusters = 2 .. q - 1
    <2>1. ASSUME NEW c \in AllClusters PROVE LinkAt(p, q, c) # 0 <=> c < q
      BY <1>1 DEF AllClusters, LinkAt, EndsFit, Eoc
    <2>2. \A c \in AllClusters : LinkOf(0, c) # 0 <=> c < q
      BY <1>2, <2>1
    <2>3. 2 .. q - 1 \subseteq AllClusters
      BY <1>1 DEF AllClusters, EndsFit
    <2>4. \A c \in AllClusters : c < q <=> c \in 2 .. q - 1
      BY <1>1 DEF AllClusters, EndsFit
    <2>5. QED
      BY <2>2, <2>3, <2>4 DEF UsedClusters
  <1>4. \A c \in AllClusters : LinkOf(0, c) = LinkOf(1, c)
    BY <1>2
  <1>5. DifferingSectors = {}
    BY <1>1 DEF FatShows, DifferingSectors
  <1>6. QED
    BY <1>3, <1>4, <1>5

LEMMA CleanInv == Inv /\ EspInv => CleanWhenIdle
  <1> SUFFICES ASSUME Inv, EspInv, Formatted, ~busy
               PROVE  /\ UsedClusters = 2 .. 5 \cup UNION {RunOf(file) : file \in Staged}
                      /\ \A c \in AllClusters : LinkOf(0, c) = LinkOf(1, c)
                      /\ \A copy \in {1, 7} : disk[esp.abs + copy] = Info(esp, esp.nfree)
                      /\ \A c \in UsedClusters : c < esp.nfree
    BY DEF CleanWhenIdle
  <1>1. PICK p, q : Calm(p, q)
    BY WhenCalm
  <1>2. EndsFit(esp, p, q, job.boot, job.kernel) /\ esp.nfree = q /\ esp.coc \in Nat
    BY <1>1, VolumeNats DEF Calm
  <1>4. UsedClusters = 2 .. q - 1 /\ \A c \in AllClusters : LinkOf(0, c) = LinkOf(1, c)
    BY <1>1, CalmUse
  <1>5. UNION {RunOf(file) : file \in Staged} = 6 .. q - 1
    <2> DEFINE b == Dirent("BOOTX64.EFI", 6, job.boot)
               k == Dirent("AGNOS", p, job.kernel)
    <2>1. Leads(esp, p, q, job.boot, job.kernel)
      BY <1>1, ShowsNames, NamesLead DEF Calm
    <2>2. /\ p > 6 => b \in Staged
          /\ q > p => k \in Staged
          /\ \A file \in Staged : \/ p > 6 /\ file = b /\ RunOf(file) = 6 .. p - 1
                                  \/ q > p /\ file = k /\ RunOf(file) = p .. q - 1
      BY <2>1 DEF Leads
    <2> HIDE DEF b, k
    <2>3. p \in Nat /\ q \in Nat /\ 6 <= p /\ p <= q
      BY <1>2 DEF EndsFit
    <2>4. (p > 6 => RunOf(b) = 6 .. p - 1) /\ (q > p => RunOf(k) = p .. q - 1)
      <3>1. CASE b = k
        <4>1. p > 6 /\ q > p => 6 = p
          <5>1. b.first = 6 /\ k.first = p
            BY DEF b, k, Dirent
          <5>2. QED
            BY <3>1, <5>1
        <4>2. QED
          BY <2>2, <2>3, <3>1, <4>1
      <3>2. CASE b # k
        BY <2>2, <3>2
      <3>3. QED
        BY <3>1, <3>2
    <2>5. ASSUME NEW file \in Staged, NEW c \in RunOf(file) PROVE c \in 6 .. q - 1
      BY <2>2, <2>3, <2>5
    <2>6. ASSUME NEW c \in 6 .. q - 1 PROVE \E file \in Staged : c \in RunOf(file)
      <3>1. CASE c < p
        BY <2>2, <2>3, <2>4, <2>6, <3>1
      <3>2. CASE ~(c < p)
        BY <2>2, <2>3, <2>4, <2>6, <3>2
      <3>3. QED
        BY <3>1, <3>2
    <2>7. QED
      BY <2>5, <2>6
  <1>6. \A copy \in {1, 7} : disk[esp.abs + copy] = Info(esp, esp.nfree)
    BY <1>1, <1>2 DEF Calm, Shows
  <1>7. \A c \in AllClusters : LinkOf(0, c) = LinkOf(1, c)
    BY <1>4
  <1>8. q \in Nat /\ 6 <= q
    BY <1>2 DEF EndsFit
  <1>9. UsedClusters = 2 .. 5 \cup 6 .. q - 1
    BY <1>4, <1>8
  <1>10. \A c \in UsedClusters : c < esp.nfree
    BY <1>2, <1>4, <1>8
  <1>11. QED
    BY <1>5, <1>6, <1>7, <1>9, <1>10

-----------------------------------------------------------------------------
(* A disk that starts.                                                     *)

\* The first entry of a name is the one that a reader takes.
FirstNamed(entries, n, name, s) ==
    /\ n \in Nat /\ DOMAIN entries = 1 .. n /\ s \in 1 .. n
    /\ entries[s].name = name /\ \A f \in 1 .. s - 1 : entries[f].name # name

LEMMA EntryIs ==
    ASSUME NEW v, NEW dir, NEW name, NEW s, NEW n,
           FirstNamed(disk[SectorOf(v, dir)].entries, n, name, s)
    PROVE  Entry(v, dir, name) = disk[SectorOf(v, dir)].entries[s]
  <1> DEFINE entries == disk[SectorOf(v, dir)].entries
             First(e) == entries[e].name = name /\ \A f \in 1 .. e - 1 : entries[f].name # name
  <1>1. FirstNamed(entries, n, name, s)
    OBVIOUS
  <1>2. Entry(v, dir, name) = entries[CHOOSE e \in DOMAIN entries : First(e)]
    BY DEF Entry
  <1> HIDE DEF entries
  <1>3. n \in Nat /\ DOMAIN entries = 1 .. n /\ s \in 1 .. n /\ First(s)
    BY <1>1 DEF FirstNamed
  <1>4. \A e \in 1 .. n : First(e) => e = s
    BY <1>3
  <1> HIDE DEF First
  <1>5. (CHOOSE e \in DOMAIN entries : First(e)) = s
    BY <1>3, <1>4
  <1>6. QED
    BY <1>2, <1>5 DEF entries

LEMMA WholeSame ==
    ASSUME NEW v, NEW w, SameFields(v, w), NEW file, Whole(v, file)
    PROVE  Whole(w, file)
  <1>1. /\ \A c : SectorOf(v, c) = SectorOf(w, c)
        /\ \A copy, s : FatSector(v, copy, s) = FatSector(w, copy, s)
    BY DEF SameFields, SectorOf, FatSector
  <1>2. \A copy, c : Link(v, copy, c) = Link(w, copy, c)
    BY <1>1 DEF Link
  <1>3. QED
    BY <1>1, <1>2 DEF Whole

LEMMA BootableInv == Inv /\ EspInv => DoneMeansBootable
  <1> SUFFICES ASSUME Inv, EspInv, status = "done" PROVE DoneMeansBootable
    BY DEF DoneMeansBootable
  <1> DEFINE range == EspRange(job)
             v == VolumeWith(job, 6)
             p == BootEnds(job, 5)
             q == KernelEnds(job, 5)
             b == Dirent("BOOTX64.EFI", 6, job.boot)
             k == Dirent("AGNOS", p, job.kernel)
  <1>1. at = 5 /\ ~busy /\ at > 1 /\ Done = 5
    BY DEF EspInv, Done
  <1>2. VolumeIn(esp, range.first, range.last) /\ esp = VolumeWith(job, q) /\ job \in Jobs
    BY <1>1 DEF EspInv, EspAt, Inv
  <1>3. Formatted
    <2>1. esp.coc > 5
      BY <1>2, VolumeNats
    <2>2. Unformatted.coc = 0
      BY DEF Unformatted, Esp
    <2>3. QED
      BY <2>1, <2>2 DEF Formatted
  <1>4. Calm(p, q)
    BY <1>1, <1>3, WhenCalm
  <1>5. p \in Nat /\ p > 6 /\ q > p
    <2>1. Clusters(job.boot) > 0 /\ Clusters(job.kernel) > 0
      BY <1>1 DEF EspInv, FilesThere
    <2>2. QED
      BY <1>2, <2>1, Ends
  <1>6. SameFields(esp, v)
    BY <1>2, SameVolume
  <1> HIDE DEF p, q, v
  <1>7. Head(Table(disk, N)).esp = range
    <2>1. Table(disk, N) = Array(job)
      BY <1>1, SurvivesInv DEF Inv, TableSurvives, Table
    <2>2. Array(job)[1].esp = range
      BY ArrayShape
    <2>3. QED
      BY <2>1, <2>2 DEF Head
  <1>8. v = Geometry(range.first, Length(range))
    BY VolumeFields DEF v
  <1> HIDE DEF range
  <1>9. disk[range.first] = [is |-> "boot", total |-> Length(range), fatsz |-> v.fatsz]
    <2>1. disk[esp.abs] = BootSector(esp, Length(range)) /\ esp.abs = range.first
      BY <1>2, <1>4, VolumeNats DEF Calm, Shows, range
    <2>2. QED
      BY <1>6, <2>1 DEF BootSector, SameFields
  <1>10. /\ disk[SectorOf(v, 2)].entries = <<Dirent("EFI", 3, 0), Dirent("BOOT", 5, 0)>>
         /\ disk[SectorOf(v, 3)].entries = <<Dirent("BOOT", 4, 0)>>
         /\ disk[SectorOf(v, 4)].entries = <<b>>
         /\ disk[SectorOf(v, 5)].entries = <<k>>
    <2>1. \A c : SectorOf(v, c) = SectorOf(esp, c)
      BY <1>6 DEF SameFields, SectorOf
    <2>2. /\ disk[SectorOf(esp, 2)] = Dir(<<Dirent("EFI", 3, 0), Dirent("BOOT", 5, 0)>>)
          /\ disk[SectorOf(esp, 3)] = Dir(<<Dirent("BOOT", 4, 0)>>)
          /\ disk[SectorOf(esp, 4)] = Dir(<<b>>)
          /\ disk[SectorOf(esp, 5)] = Dir(<<k>>)
      BY <1>4, <1>5 DEF Calm, Shows
    <2> HIDE DEF b, k
    <2>3. QED
      BY <2>1, <2>2 DEF Dir
  <1>11. /\ Dirent("EFI", 3, 0).name = "EFI" /\ Dirent("EFI", 3, 0).first = 3
         /\ Dirent("BOOT", 5, 0).name = "BOOT" /\ Dirent("BOOT", 5, 0).first = 5
         /\ Dirent("BOOT", 4, 0).name = "BOOT" /\ Dirent("BOOT", 4, 0).first = 4
         /\ b.name = "BOOTX64.EFI" /\ b.size = job.boot
         /\ k.name = "AGNOS" /\ k.size = job.kernel
    BY DEF Dirent
  <1>12. Leads(esp, p, q, job.boot, job.kernel)
    BY <1>4, ShowsNames, NamesLead DEF Calm
  <1>13. Whole(esp, b) /\ Whole(esp, k)
    BY <1>5, <1>12 DEF Leads
  <1> HIDE DEF b, k
  <1>14. Whole(v, b) /\ Whole(v, k)
    BY <1>6, <1>13, WholeSame
  <1>15. Entry(v, 2, "EFI") = Dirent("EFI", 3, 0)
    <2> DEFINE E == <<Dirent("EFI", 3, 0), Dirent("BOOT", 5, 0)>>
    <2>1. /\ DOMAIN E = 1 .. 2 /\ 1 \in 1 .. 2 /\ E[1] = Dirent("EFI", 3, 0)
          /\ \A f \in 1 .. 1 - 1 : E[f].name # "EFI"
      OBVIOUS
    <2>2. disk[SectorOf(v, 2)].entries = E
      BY <1>10
    <2> HIDE DEF E
    <2>3. E[1].name = "EFI"
      BY <1>11, <2>1
    <2>4. FirstNamed(E, 2, "EFI", 1)
      BY <2>1, <2>3 DEF FirstNamed
    <2>5. QED
      BY <2>1, <2>2, <2>4, EntryIs
  <1>16. Entry(v, 2, "BOOT") = Dirent("BOOT", 5, 0)
    <2> DEFINE E == <<Dirent("EFI", 3, 0), Dirent("BOOT", 5, 0)>>
    <2>1. /\ DOMAIN E = 1 .. 2 /\ 2 \in 1 .. 2 /\ E[2] = Dirent("BOOT", 5, 0)
          /\ E[1] = Dirent("EFI", 3, 0)
      OBVIOUS
    <2>2. disk[SectorOf(v, 2)].entries = E
      BY <1>10
    <2> HIDE DEF E
    <2>3. E[2].name = "BOOT" /\ \A f \in 1 .. 2 - 1 : E[f].name # "BOOT"
      <3>1. E[1].name = "EFI" /\ E[2].name = "BOOT"
        BY <1>11, <2>1
      <3>2. \A f \in 1 .. 2 - 1 : f = 1
        OBVIOUS
      <3>3. QED
        BY <3>1, <3>2
    <2>4. FirstNamed(E, 2, "BOOT", 2)
      BY <2>1, <2>3 DEF FirstNamed
    <2>5. QED
      BY <2>1, <2>2, <2>4, EntryIs
  <1>17. ASSUME NEW dir, NEW one, NEW name, one.name = name,
                disk[SectorOf(v, dir)].entries = <<one>>
         PROVE  Entry(v, dir, name) = one
    <2> DEFINE E == <<one>>
    <2>1. DOMAIN E = 1 .. 1 /\ E[1] = one /\ disk[SectorOf(v, dir)].entries = E
      BY <1>17
    <2> HIDE DEF E
    <2>2. FirstNamed(E, 1, name, 1)
      BY <1>17, <2>1 DEF FirstNamed
    <2>3. QED
      BY <2>1, <2>2, EntryIs
  <1>18. /\ Entry(v, 3, "BOOT") = Dirent("BOOT", 4, 0)
         /\ Entry(v, 4, "BOOTX64.EFI") = b /\ Entry(v, 5, "AGNOS") = k
    BY <1>10, <1>11, <1>17
  <1>19. /\ Holds(v, Entry(v, Entry(v, 2, "EFI").first, "BOOT").first, "BOOTX64.EFI", job.boot)
         /\ Holds(v, Entry(v, 2, "BOOT").first, "AGNOS", job.kernel)
    BY <1>11, <1>14, <1>15, <1>16, <1>18 DEF Holds
  <1>20. QED
    BY <1>7, <1>8, <1>9, <1>19 DEF DoneMeansBootable

-----------------------------------------------------------------------------
(* What a file on its way leaves undone.                                   *)

LEMMA AtMostOne ==
    ASSUME NEW S, \A x, y \in S : x = y
    PROVE  Cardinality(S) <= 1
  <1>1. CASE S = {}
    BY <1>1, FS_EmptySet
  <1>2. CASE S # {}
    <2>1. PICK x : x \in S
      BY <1>2
    <2>2. S = {x}
      BY <2>1
    <2>3. Cardinality({x}) = 1
      BY FS_Singleton
    <2>4. QED
      BY <2>2, <2>3
  <1>3. QED
    BY <1>1, <1>2

LEMMA CountBetween ==
    ASSUME NEW p \in Nat, NEW q \in Nat, p >= 2, q >= p, NEW U,
           2 .. p - 1 \subseteq U, U \subseteq 2 .. q - 1
    PROVE  Cardinality(U) \in p - 2 .. q - 2
  <1>1. IsFiniteSet(2 .. q - 1) /\ Cardinality(2 .. q - 1) = q - 2
    <2>1. q - 1 \in Int /\ 2 \in Int /\ (2 > q - 1 => q = 2)
      OBVIOUS
    <2>2. /\ IsFiniteSet(2 .. q - 1)
          /\ Cardinality(2 .. q - 1) = IF 2 > q - 1 THEN 0 ELSE (q - 1) - 2 + 1
      BY <2>1, FS_Interval
    <2>3. QED
      BY <2>1, <2>2
  <1>2. IsFiniteSet(U) /\ Cardinality(U) <= q - 2
    <2>1. U \in SUBSET (2 .. q - 1)
      OBVIOUS
    <2>2. QED
      BY <1>1, <2>1, FS_Subset
  <1>3. Cardinality(2 .. p - 1) = p - 2
    <2>1. p - 1 \in Int /\ 2 \in Int /\ (2 > p - 1 => p = 2)
      OBVIOUS
    <2>2. Cardinality(2 .. p - 1) = IF 2 > p - 1 THEN 0 ELSE (p - 1) - 2 + 1
      BY <2>1, FS_Interval
    <2>3. QED
      BY <2>1, <2>2
  <1>4. p - 2 <= Cardinality(U)
    <2>1. 2 .. p - 1 \in SUBSET U
      OBVIOUS
    <2>2. QED
      BY <1>2, <1>3, <2>1, FS_Subset
  <1>5. Cardinality(U) \in Nat
    BY <1>2, FS_CardinalityType
  <1>6. QED
    BY <1>2, <1>4, <1>5

\* In the middle of a chain, the copies differ where it stands.
LEMMA StagingDiffers ==
    ASSUME NEW dir, NEW name, NEW size, NEW d, NEW n, Staging(dir, name, size, d, n)
    PROVE  Cardinality(DifferingSectors) <= 1
  <1> DEFINE first == esp.nfree
             last == LastCluster(esp, size)
             b == BodyEnd(size)
             f == From(first)
             Old(s) == d[FatSector(esp, 0, s)]
             New(s) == Chained(Old(s), s, first, last)
  <1>1. Under(disk, d, esp, dir, name, size, n) /\ FatShows(d, esp, first, first) /\ n \in Int
    BY DEF Staging, Shows
  <1>2. ASSUME NEW s \in f .. From(last)
        PROVE  b + Turn(first, 0, s) \in Int /\ b \in Int
    BY Turns DEF Staging
  <1>3. f \in Nat /\ From(last) \in Nat
    <2>1. /\ first \in Nat /\ last \in Nat /\ first <= last /\ last <= esp.coc + 1
          /\ VolumeIn(esp, EspRange(job).first, EspRange(job).last)
      BY FileFits, VolumeNats DEF Staging, LastCluster
    <2> HIDE DEF first, last
    <2>2. QED
      BY <2>1, ChainTypes
  <1>4. ASSUME NEW s \in DifferingSectors
        PROVE  s \in f .. From(last) /\ n = b + 2 * (s - f) + 1 /\ b \in Int
    <2>1. s \in 0 .. esp.fatsz - 1 /\ disk[FatSector(esp, 0, s)] # disk[FatSector(esp, 1, s)]
      BY DEF DifferingSectors
    <2>2. d[FatSector(esp, 1, s)] = Old(s)
      BY <1>1, <2>1 DEF FatShows
    <2> DEFINE P(copy) == s \in f .. From(last) /\ b + Turn(first, copy, s) <= n
    <2>3. \A copy \in {0, 1} : disk[FatSector(esp, copy, s)] =
                                    IF P(copy) THEN New(s) ELSE d[FatSector(esp, copy, s)]
      BY <1>1, <2>1 DEF Under
    <2> HIDE DEF P, New, Old
    <2>4. ~(P(0) <=> P(1))
      <3>1. disk[FatSector(esp, 0, s)] = IF P(0) THEN New(s) ELSE Old(s)
        BY <2>3 DEF Old
      <3>2. disk[FatSector(esp, 1, s)] = IF P(1) THEN New(s) ELSE Old(s)
        BY <2>2, <2>3
      <3>3. QED
        BY <2>1, <3>1, <3>2
    <2>5. s \in f .. From(last)
      BY <2>4 DEF P
    <2> DEFINE t == 2 * (s - f)
    <2>6. b \in Int /\ t \in Int
      BY <1>2, <1>3, <2>5
    <2>7. Turn(first, 0, s) = t + 0 + 1 /\ Turn(first, 1, s) = t + 1 + 1
      BY DEF Turn
    <2> HIDE DEF t, b, f
    <2>8. n = b + t + 1
      BY <1>1, <2>4, <2>5, <2>6, <2>7 DEF P
    <2>9. QED
      BY <2>5, <2>6, <2>8 DEF t
  <1> HIDE DEF b, f, last
  <1>5. ASSUME NEW x \in DifferingSectors, NEW y \in DifferingSectors PROVE x = y
    <2>1. x \in Int /\ y \in Int /\ n = b + 2 * (x - f) + 1 /\ n = b + 2 * (y - f) + 1 /\ b \in Int
      BY <1>3, <1>4
    <2>2. QED
      BY <1>3, <2>1
  <1>6. QED
    BY <1>5, AtMostOne

\* FSInfo has what was free before, or what is once the chain is there.
LEMMA StagingCounts ==
    ASSUME NEW dir, NEW name, NEW size, NEW d, NEW n, Staging(dir, name, size, d, n),
           NEW copy \in {1, 7}
    PROVE  disk[esp.abs + copy].free - (esp.coc - Cardinality(UsedClusters)) \in 0 .. Clusters(size)
  <1> DEFINE p == esp.nfree
             q == AfterFile(esp, size)
             b == BodyEnd(size)
             e == ChainEnd(esp, size)
             Made1(c) == b + Turn(p, 0, c \div PerSector) <= n
  <1>1. /\ Under(disk, d, esp, dir, name, size, n) /\ FatShows(d, esp, p, p)
        /\ n \in 0 .. e + 3 /\ size \in Nat
        /\ d[esp.abs + 1] = Info(esp, p) /\ d[esp.abs + 7] = Info(esp, p)
    BY DEF Staging, Shows
  <1>2. /\ p \in Nat /\ p > 5 /\ q \in Nat /\ q > p /\ LastCluster(esp, size) = q - 1
        /\ q <= esp.coc + 2 /\ esp.coc \in Nat /\ q = p + Clusters(size) /\ Clusters(size) \in Nat
    <2>1. esp.nfree \in 6 .. esp.coc + 1 /\ esp.coc \in Nat /\ Clusters(size) \in Nat \ {0}
          /\ esp.nfree + Clusters(size) <= esp.coc + 2
      BY FileFits, VolumeNats DEF Staging
    <2>2. QED
      BY <2>1 DEF AfterFile, LastCluster
  <1>3. b \in Nat /\ e \in Nat /\ b <= e /\ n \in Nat
    <2>1. StageIs(df_stage_file(0, esp, 4, 0, size), BodyWrites(esp, 0, Clusters(size)),
                  df_fat_write_chain(0, esp, esp.nfree, LastCluster(esp, size)),
                  esp, 4, 0, size, b, ChainLen(esp.nfree, LastCluster(esp, size)), e)
      BY StageShape DEF Staging
    <2>2. QED
      BY <1>1, <2>1 DEF StageIs
  <1>4. ASSUME NEW c \in AllClusters
        PROVE  LinkOf(0, c) = LinkUnder(p, p, p, q - 1, Made1(c), c)
    <2>1. c \in 0 .. esp.coc + 1
      BY <1>2 DEF AllClusters
    <2>2. LinkOn(disk, esp, 0, c) = LinkUnder(p, p, p, LastCluster(esp, size), Made1(c), c)
      BY <1>1, <1>3, <2>1, LinksUnder DEF Staging
    <2>3. QED
      BY <1>2, <2>2 DEF LinkOn, LinkOf, Link
  <1>5. ASSUME NEW c \in p .. q - 1, e <= n PROVE Made1(c)
    <2> DEFINE s == c \div PerSector
    <2>1. c \in Nat /\ c \in 0 .. esp.coc + 1
      BY <1>2
    <2>2. s \in Nat /\ (c % PerSector) \in 0 .. PerSector - 1
          /\ s * PerSector + (c % PerSector) = c
      BY <2>1, ClusterPlace, VolumeNats DEF Staging
    <2>3. s \in From(p) .. From(q - 1)
      <3> DEFINE x == c % PerSector
                 r == q - 1
      <3>1. x \in 0 .. PerSector - 1 /\ r \in Nat /\ s * PerSector + x \in p .. r
        BY <1>2, <2>2
      <3> HIDE DEF x, s, r
      <3>2. s \in From(p) .. From(r)
        BY <1>2, <2>2, <3>1, SectorHas DEF s
      <3>3. QED
        BY <3>2 DEF r
    <2>4. b + Turn(p, 0, s) \in b + 1 .. e
      <3> HIDE DEF s, p, q
      <3>1. s \in From(p) .. From(LastCluster(esp, size))
        BY <1>2, <2>3
      <3>2. QED
        BY <3>1, Turns DEF Staging, p
    <2>5. QED
      BY <1>3, <1>5, <2>4
  <1> HIDE DEF Made1, e, b, p, q
  <1>6. ASSUME NEW c \in AllClusters
        PROVE  /\ c < p => LinkOf(0, c) # 0
               /\ c >= q => LinkOf(0, c) = 0
               /\ c < q /\ e <= n => LinkOf(0, c) # 0
    <2>1. c \in Nat /\ c >= 2
      BY <1>2 DEF AllClusters
    <2>2. CASE c < p
      <3>1. LinkOf(0, c) = LinkAt(p, p, c)
        BY <1>2, <1>4, <2>1, <2>2 DEF LinkUnder
      <3>2. QED
        BY <1>2, <2>1, <2>2, <3>1 DEF LinkAt, Eoc
    <2>3. CASE c >= q
      <3>1. LinkOf(0, c) = LinkAt(p, p, c)
        BY <1>2, <1>4, <2>1, <2>3 DEF LinkUnder
      <3>2. QED
        BY <1>2, <2>1, <2>3, <3>1 DEF LinkAt
    <2>4. CASE c \in p .. q - 1
      <3>1. e <= n => LinkOf(0, c) = IF c = q - 1 THEN Eoc ELSE c + 1
        BY <1>4, <1>5, <2>4 DEF LinkUnder
      <3>2. QED
        BY <1>2, <2>1, <2>4, <3>1 DEF Eoc
    <2>5. QED
      BY <1>2, <2>1, <2>2, <2>3, <2>4
  <1>7. /\ 2 .. p - 1 \subseteq UsedClusters /\ UsedClusters \subseteq 2 .. q - 1
        /\ e <= n => 2 .. q - 1 \subseteq UsedClusters
    <2>1. \A c \in 2 .. q - 1 : c \in AllClusters /\ c < q
      BY <1>2 DEF AllClusters
    <2>2. \A c \in 2 .. p - 1 : c \in 2 .. q - 1 /\ c < p
      BY <1>2
    <2>3. \A c \in AllClusters : ~(c >= q) => c \in 2 .. q - 1
      BY <1>2 DEF AllClusters
    <2>4. QED
      BY <1>6, <2>1, <2>2, <2>3 DEF UsedClusters
  <1> DEFINE u == Cardinality(UsedClusters)
  <1>8. u \in p - 2 .. q - 2 /\ (e <= n => u \in q - 2 .. q - 2)
    <2>1. p >= 2 /\ q >= p /\ q >= 2 /\ q >= q
      BY <1>2
    <2>2. QED
      BY <1>2, <1>7, <2>1, CountBetween
  <1>9. \/ disk[esp.abs + copy] = Info(esp, p)
        \/ disk[esp.abs + copy] = Info(esp, q) /\ e <= n
    <2>1. disk[esp.abs + 1] = IF e + 2 <= n THEN Info(esp, q) ELSE d[esp.abs + 1]
      BY <1>1 DEF Under, e, q
    <2>2. disk[esp.abs + 7] = IF e + 3 <= n THEN Info(esp, q) ELSE d[esp.abs + 7]
      BY <1>1 DEF Under, e, q
    <2>3. (e + 2 <= n => e <= n) /\ (e + 3 <= n => e <= n)
      BY <1>3
    <2>4. QED
      BY <1>1, <2>1, <2>2, <2>3
  <1>10. \A m : Info(esp, m).free = esp.coc - (m - 2)
    BY DEF Info
  <1> HIDE DEF u
  <1>11. QED
    BY <1>2, <1>8, <1>9, <1>10 DEF u

LEMMA LagsInv == Inv /\ EspInv => LagsByOne
  <1> SUFFICES ASSUME Inv, EspInv, Formatted
               PROVE  /\ Cardinality(DifferingSectors) <= 1
                      /\ \A copy \in {1, 7} :
                            disk[esp.abs + copy].free - (esp.coc - Cardinality(UsedClusters))
                                \in 0 .. InProgress
    BY DEF LagsByOne
  <1>1. CASE ~busy \/ at = 3
    <2>1. PICK p, q : Calm(p, q)
      BY <1>1, WhenCalm
    <2>2. UsedClusters = 2 .. q - 1 /\ DifferingSectors = {}
      BY <2>1, CalmUse
    <2>3. q \in Nat /\ q >= 6 /\ esp.coc \in Nat
      BY <2>1, VolumeNats DEF Calm, EndsFit
    <2>4. Cardinality(UsedClusters) = q - 2
      BY <2>2, <2>3, FS_Interval
    <2>5. Cardinality(DifferingSectors) = 0
      BY <2>2, FS_EmptySet
    <2>6. \A copy \in {1, 7} : disk[esp.abs + copy].free = esp.coc - (q - 2)
      BY <2>1 DEF Calm, Shows, Info
    <2>7. InProgress = 0
      BY <1>1, PlanIs DEF InProgress
    <2>8. QED
      BY <2>3, <2>4, <2>5, <2>6, <2>7
  <1>2. CASE busy /\ at = 4
    <2>1. PICK d, n : Staging(4, "BOOTX64.EFI", job.boot, d, n)
      BY <1>2, WhenBoot
    <2>2. InProgress = Clusters(job.boot)
      BY <1>2, PlanIs DEF InProgress
    <2>3. QED
      BY <2>1, <2>2, StagingDiffers, StagingCounts
  <1>3. CASE busy /\ at = 5
    <2>1. PICK d, n : Staging(5, "AGNOS", job.kernel, d, n)
      BY <1>3, WhenKernel
    <2>2. InProgress = Clusters(job.kernel)
      BY <1>3, PlanIs DEF InProgress
    <2>3. QED
      BY <2>1, <2>2, StagingDiffers, StagingCounts
  <1>4. QED
    BY <1>1, <1>2, <1>3, WhenFormatted

-----------------------------------------------------------------------------
(* No write is of nothing.                                                 *)

Filled(s) == s \in Seq(ToSet(s)) /\ \A w \in ToSet(s) : w.sectors # <<>>

LEMMA FilledSeq ==
    ASSUME NEW S, NEW s \in Seq(S), \A i \in 1 .. Len(s) : s[i].sectors # <<>>
    PROVE  Filled(s)
  <1>1. \A i \in 1 .. Len(s) : s[i] \in ToSet(s)
    BY DEF ToSet
  <1>2. s \in Seq(ToSet(s))
    BY <1>1
  <1>3. \A w \in ToSet(s) : w.sectors # <<>>
    BY DEF ToSet
  <1>4. QED
    BY <1>2, <1>3 DEF Filled

LEMMA TailFilled ==
    ASSUME NEW s, Filled(s), s # <<>>
    PROVE  Filled(Tail(s))
  <1> DEFINE S == ToSet(s)
             t == Tail(s)
  <1>1. s \in Seq(S) /\ \A w \in S : w.sectors # <<>>
    BY DEF Filled
  <1> HIDE DEF S
  <1>2. t \in Seq(S)
    BY <1>1, HeadTailProperties
  <1> HIDE DEF t
  <1>3. \A i \in 1 .. Len(t) : t[i] \in S
    BY <1>2
  <1>4. Filled(t)
    BY <1>1, <1>2, <1>3, FilledSeq
  <1>5. QED
    BY <1>4 DEF t

LEMMA WriteFilled ==
    ASSUME NEW lba, NEW sectors, Len(sectors) # 0
    PROVE  Write(lba, sectors).sectors # <<>>
  <1>1. Write(lba, sectors).sectors = sectors
    BY DEF Write
  <1>2. sectors # <<>>
    <2>1. Len(<<>>) = 0
      OBVIOUS
    <2>2. QED
      BY <2>1
  <1>3. QED
    BY <1>1, <1>2

LEMMA TableFilled ==
    ASSUME NEW j
    PROVE  Filled(df_write_gpt(N, Array(j)))
  <1> DEFINE W == df_write_gpt(N, Array(j))
             S == {W[1], W[2], W[3], W[4], W[5]}
  <1>1. W \in Seq(S) /\ Len(W) = 5
    BY DEF df_write_gpt
  <1>2. /\ Len(W[1].sectors) = 1 /\ Len(W[2].sectors) = 1 /\ Len(W[3].sectors) = ArrayLen
        /\ Len(W[4].sectors) = ArrayLen /\ Len(W[5].sectors) = 1
    BY TableWrites
  <1>3. ArrayLen # 0
    BY Sizes
  <1> HIDE DEF W, S
  <1>4. ASSUME NEW i \in 1 .. Len(W) PROVE W[i].sectors # <<>>
    <2>1. Len(W[i].sectors) # 0
      <3>1. i \in {1, 2, 3, 4, 5}
        BY <1>1
      <3>2. QED
        BY <1>2, <1>3, <3>1
    <2>2. Len(<<>>) = 0
      OBVIOUS
    <2>3. QED
      BY <2>1, <2>2
  <1>5. Filled(W)
    BY <1>1, <1>4, FilledSeq
  <1>6. QED
    BY <1>5 DEF W

LEMMA ZeroFilled ==
    ASSUME NEW v, NEW lo, NEW hi, VolumeIn(v, lo, hi), NEW b \in 1 .. Len(ZeroWrites(v))
    PROVE  ZeroWrites(v)[b].sectors # <<>>
  <1> DEFINE root == v.root_start
             n == root \div Batch + 1
             Z == ZeroWrites(v)
             zs == (b - 1) * Batch
             room == root - zs + 1
             len == Smaller(Batch, room)
  <1>1. Batch \in Nat \ {0} /\ root \in Nat
    BY FatSizes, VolumeNats
  <1>2. Z = [c \in 1 .. n |->
            Write(v.abs + (c - 1) * Batch, Zeros(Smaller(Batch, root - (c - 1) * Batch + 1)))]
    BY DEF ZeroWrites
  <1>3. n \in Nat
    <2> HIDE DEF root
    <2>1. root \div Batch \in Nat
      BY <1>1
    <2>2. QED
      BY <2>1
  <1>4. b \in 1 .. n
    <2>1. Z \in Seq(ToSet(Z))
      BY ZeroShape
    <2> HIDE DEF n
    <2>2. DOMAIN Z = 1 .. n
      BY <1>2
    <2> HIDE DEF Z
    <2>3. Len(Z) = n
      BY <1>3, <2>1, <2>2, LenProperties
    <2>4. QED
      BY <2>3 DEF Z
  <1>5. zs \in Nat /\ zs <= root
    <2>1. b \in Nat \ {0} /\ b <= root \div Batch + 1
      BY <1>3, <1>4
    <2> HIDE DEF root
    <2>2. QED
      BY <1>1, <2>1, Batches
  <1>6. Z[b].sectors = Zeros(len)
    BY <1>2, <1>4 DEF Write
  <1> HIDE DEF zs, root, Z
  <1>7. room \in Nat /\ room # 0
    BY <1>1, <1>5
  <1> HIDE DEF room
  <1>8. len \in Nat /\ len # 0
    BY <1>1, <1>7, SmallerIs
  <1> HIDE DEF len
  <1>9. Len(Zeros(len)) = len
    BY <1>8 DEF Zeros
  <1>10. Zeros(len) # <<>>
    <2>1. Len(<<>>) = 0
      OBVIOUS
    <2>2. QED
      BY <1>8, <1>9, <2>1
  <1>11. QED
    BY <1>6, <1>10 DEF Z

LEMMA FormatFilled ==
    ASSUME NEW v, NEW lo, NEW hi, VolumeIn(v, lo, hi), NEW total
    PROVE  Filled(df_format_esp(v, total))
  <1> DEFINE W == df_format_esp(v, total)
             Z == ZeroWrites(v)
             m == Len(Z)
  <1>1. /\ W \in Seq(ToSet(W)) /\ Len(W) = m + 10 /\ m \in Nat
        /\ \A i \in 1 .. m : W[i] = Z[i]
        /\ \A i \in 1 .. 10 : W[m + i] = Write(FormatPlaces(v)[i], <<FormatSectors(v, total)[i]>>)
    BY FormatShape
  <1>2. \A i \in 1 .. m : Z[i].sectors # <<>>
    BY ZeroFilled
  <1>3. \A lba, x : Write(lba, <<x>>).sectors # <<>>
    BY WriteFilled
  <1> HIDE DEF W, Z, m
  <1>4. ASSUME NEW i \in 1 .. Len(W) PROVE W[i].sectors # <<>>
    <2>1. CASE i <= m
      <3>1. i \in 1 .. m
        BY <1>1, <2>1
      <3>2. QED
        BY <1>1, <1>2, <3>1
    <2>2. CASE i > m
      <3>1. i - m \in 1 .. 10 /\ m + (i - m) = i
        BY <1>1, <2>2
      <3>2. W[i] = Write(FormatPlaces(v)[i - m], <<FormatSectors(v, total)[i - m]>>)
        BY <1>1, <3>1
      <3>3. QED
        BY <1>3, <3>2
    <2>3. QED
      BY <1>1, <2>1, <2>2
  <1>5. Filled(W)
    BY <1>1, <1>4, FilledSeq
  <1>6. QED
    BY <1>5 DEF W

LEMMA BodyFilled ==
    ASSUME NEW v, NEW name, NEW nclus \in Nat \ {0}, NEW b \in 1 .. BodyLen(nclus)
    PROVE  BodyWrites(v, name, nclus)[b].sectors # <<>>
  <1> DEFINE s == BodyWrites(v, name, nclus)
             n == BodyLen(nclus)
             wi == (b - 1) * Batch
             room == nclus - wi
             len == Smaller(Batch, room)
             part == [c \in 1 .. len |-> Data(name, wi + c)]
  <1>1. Batch \in Nat \ {0} /\ nclus - 1 \in Nat
    BY FatSizes
  <1>2. n \in Nat
    <2> DEFINE a == nclus - 1
    <2>1. a \in Nat
      BY <1>1
    <2> HIDE DEF a
    <2>2. a \div Batch \in Nat
      BY <1>1, <2>1
    <2>3. QED
      BY <2>2 DEF a, BodyLen
  <1>3. s[b].sectors = part
    <2>1. (nclus + Batch - 1) \div Batch = n
      BY <1>1, Rounded DEF BodyLen
    <2> HIDE DEF n
    <2>2. b \in 1 .. n
      BY DEF n
    <2>3. QED
      BY <2>1, <2>2 DEF BodyWrites, Write
  <1>4. wi \in Nat /\ wi <= nclus - 1
    <2> DEFINE a == nclus - 1
    <2>1. b \in Nat \ {0} /\ b <= a \div Batch + 1 /\ a \in Nat
      BY <1>1, <1>2 DEF BodyLen
    <2> HIDE DEF a
    <2>2. (b - 1) * Batch \in Nat /\ (b - 1) * Batch <= a
      BY <1>1, <2>1, Batches
    <2>3. QED
      BY <2>2 DEF a
  <1> HIDE DEF s, n, wi
  <1>5. room \in Nat /\ room # 0
    BY <1>1, <1>4
  <1> HIDE DEF room
  <1>6. len \in Nat /\ len # 0
    BY <1>1, <1>5, SmallerIs
  <1> HIDE DEF len
  <1>7. 1 \in DOMAIN part
    BY <1>6
  <1>8. part # <<>>
    <2> HIDE DEF part
    <2>1. QED
      BY <1>7
  <1>9. QED
    BY <1>3, <1>8 DEF s

LEMMA StageFilled ==
    ASSUME NEW v, NEW lo, NEW hi, VolumeIn(v, lo, hi), NEW size \in Nat, Fits(v, size),
           NEW d, NEW dir \in {4, 5}, NEW name
    PROVE  Filled(df_stage_file(d, v, dir, name, size))
  <1> DEFINE W == df_stage_file(d, v, dir, name, size)
             b == BodyEnd(size)
             e == ChainEnd(v, size)
             last == LastCluster(v, size)
             body == BodyWrites(v, name, Clusters(size))
  <1>1. /\ W \in Seq(ToSet(W)) /\ Len(W) = e + 3 /\ b \in Nat /\ e \in Nat
        /\ \A i \in 1 .. b : W[i] = body[i]
    <2>1. StageIs(W, body, df_fat_write_chain(d, v, v.nfree, last), v, dir, name, size, b,
                  ChainLen(v.nfree, last), e)
      BY StageShape
    <2>2. QED
      BY <2>1 DEF StageIs
  <1>2. ExtentsOf(W, d, v, dir, name, size, b, e)
    BY StageExtents
  <1>3. \A i \in 1 .. b : body[i].sectors # <<>>
    BY BodyFilled, FileFits DEF BodyEnd
  <1> HIDE DEF W, b, e, body, last
  <1>4. ASSUME NEW i \in 1 .. Len(W) PROVE W[i].sectors # <<>>
    <2>1. CASE i \in 1 .. b
      BY <1>1, <1>3, <2>1
    <2>2. CASE i \in b + 1 .. e + 3
      <3>1. Len(W[i].sectors) = 1
        <4>1. CASE i \in b + 1 .. e
          <5>1. PICK copy \in {0, 1}, s \in From(v.nfree) .. From(LastCluster(v, size)) :
                        i = b + Turn(v.nfree, copy, s)
            BY <1>2, <4>1 DEF ExtentsOf
          <5>2. Len(W[b + Turn(v.nfree, copy, s)].sectors) = 1
            BY <1>2 DEF ExtentsOf
          <5>3. QED
            BY <5>1, <5>2
        <4>2. CASE i \in {e + 1, e + 2, e + 3}
          BY <1>2, <4>2 DEF ExtentsOf
        <4>3. QED
          BY <1>1, <2>2, <4>1, <4>2
      <3>2. Len(<<>>) = 0
        OBVIOUS
      <3>3. QED
        BY <3>1, <3>2
    <2>3. QED
      BY <1>1, <2>1, <2>2
  <1>5. Filled(W)
    BY <1>1, <1>4, FilledSeq
  <1>6. QED
    BY <1>5 DEF W

LEMMA RootFilled ==
    ASSUME NEW j \in Jobs, Partitions(j)
    PROVE  Filled(<<Write(RootRange(j).first, Root(RootRange(j)))>>)
  <1> DEFINE range == RootRange(j)
             w == Write(range.first, Root(range))
             s == <<w>>
  <1>1. range.first \in Int /\ range.last \in Int /\ range.first <= range.last
    BY Ranges, Sizes
  <1> HIDE DEF range
  <1>2. Length(range) \in Nat /\ Length(range) # 0
    BY <1>1 DEF Length
  <1>3. w.sectors # <<>>
    <2>1. Len(Root(range)) = Length(range)
      BY <1>2 DEF Root
    <2>2. QED
      BY <1>2, <2>1, WriteFilled
  <1> HIDE DEF w
  <1>4. s \in Seq({w}) /\ Len(s) = 1 /\ s[1] = w
    OBVIOUS
  <1> HIDE DEF s
  <1>5. Filled(s)
    <2>1. \A i \in 1 .. Len(s) : i = 1
      BY <1>4
    <2>2. \A i \in 1 .. Len(s) : s[i].sectors # <<>>
      BY <1>3, <1>4, <2>1
    <2>3. QED
      BY <1>4, <2>2, FilledSeq
  <1>6. QED
    BY <1>5 DEF s, w, range

-----------------------------------------------------------------------------
(* Types.                                                                  *)

\* What the types need beside the invariants before.
Kinds ==
    /\ ~busy => todo = <<>>
    /\ Filled(todo)
    /\ runs \in 1 .. MaxRuns

LEMMA NothingFilled == Filled(<<>>)
  BY DEF Filled, ToSet

LEMMA BeginKinds == Inv /\ Kinds /\ Begin => Kinds'
  <1> SUFFICES ASSUME Inv, Kinds, Begin PROVE Kinds'
    OBVIOUS
  <1> DEFINE range == EspRange(job)
             v == Geometry(range.first, Length(range))
  <1>1. /\ at \in 0 .. 4 /\ at' = at + 1 /\ todo = <<>> /\ busy = FALSE /\ job \in Jobs
        /\ runs' = runs
    <2>1. busy = FALSE /\ todo = <<>> /\ job \in Jobs /\ runs' = runs
      BY DEF Inv, Begin
    <2>2. at \in 0 .. 5 /\ at < 5 /\ at' = at + 1
      BY PlanIs DEF Inv, Begin
    <2>3. at \in 0 .. 4
      BY <2>2
    <2>4. QED
      BY <2>1, <2>2, <2>3
  <1>2. \/ busy' = FALSE /\ todo' = <<>>
        \/ ~Refused(Plan[at + 1]) /\ busy' = TRUE /\ todo' = Writes(Plan[at + 1])
    BY <1>1 DEF Begin
  <1>3. CASE busy' = FALSE /\ todo' = <<>>
    BY <1>1, <1>3, NothingFilled DEF Kinds
  <1>4. CASE ~Refused(Plan[at + 1]) /\ busy' = TRUE /\ todo' = Writes(Plan[at + 1])
    <2>1. CASE at = 0
      <3>1. at + 1 = 1
        BY <2>1
      <3>2. todo' = df_write_gpt(N, Array(job))
        BY <1>4, <3>1, PlanIs, Ops
      <3>3. Filled(todo')
        BY <3>2, TableFilled
      <3>4. QED
        BY <1>1, <1>4, <3>3 DEF Kinds
    <2>2. CASE at > 0
      <3>1. Inv'
        BY BeginInv
      <3>2. Laid(5) /\ Partitions(job)
        <4>1. at' > 1 /\ disk' = disk /\ job' = job
          BY <1>1, <2>2 DEF Begin
        <4>2. Written'
          BY <3>1, <4>1 DEF Inv
        <4>3. Laid(5)' /\ Partitions(job')
          BY <4>1, <4>2 DEF Written
        <4>4. QED
          BY <4>1, <4>3 DEF Laid
      <3>3. esp = Unformatted \/ VolumeIn(esp, range.first, range.last)
        BY <1>1, <2>2 DEF Inv, Written
      <3>4. /\ disk[2].esp = range /\ disk[2].root = RootRange(job) /\ NewEsp = v
            /\ range.first = MiB /\ MiB \in Nat /\ Length(range) \in Int
            /\ range.last = range.first + Length(range) - 1
        BY <1>1, <3>2, ReadBack, Ranges, Sizes DEF NewEsp
      <3> HIDE DEF range, v
      <3>5. CASE at = 1
        <4>1. Plan[at + 1] = "format ESP"
          <5>1. at + 1 = 2
            BY <3>5
          <5>2. QED
            BY <5>1, PlanIs
        <4>2. Formats(v) /\ todo' = df_format_esp(v, Length(range))
          BY <1>4, <3>4, <4>1, Ops DEF Refused
        <4>3. VolumeIn(Geometry(range.first, Length(range)), range.first,
                       range.first + Length(range) - 1)
          BY <3>4, <4>2, FatCoversClusters DEF v
        <4>4. Filled(todo')
          BY <4>2, <4>3, FormatFilled DEF v
        <4>5. QED
          BY <1>1, <1>4, <4>4 DEF Kinds
      <3>6. CASE at = 2
        <4>1. Plan[at + 1] = "format root"
          <5>1. at + 1 = 3
            BY <3>6
          <5>2. QED
            BY <5>1, PlanIs
        <4>2. todo' = <<Write(RootRange(job).first, Root(RootRange(job)))>>
          BY <1>4, <3>4, <4>1, Ops
        <4>3. Filled(todo')
          BY <1>1, <3>2, <4>2, RootFilled
        <4>4. QED
          BY <1>1, <1>4, <4>3 DEF Kinds
      <3>7. CASE at = 3
        <4>1. Plan[at + 1] = "stage boot"
          <5>1. at + 1 = 4
            BY <3>7
          <5>2. QED
            BY <5>1, PlanIs
        <4>2. Fits(esp, job.boot) /\ todo' = df_stage_file(disk, esp, 4, "BOOTX64.EFI", job.boot)
          BY <1>4, <4>1, Ops DEF Refused
        <4>3. VolumeIn(esp, range.first, range.last) /\ job.boot \in Nat
          BY <1>1, <3>3, <4>2, JobTypes, NoneFits
        <4>4. Filled(todo')
          BY <4>2, <4>3, StageFilled
        <4>5. QED
          BY <1>1, <1>4, <4>4 DEF Kinds
      <3>8. CASE at = 4
        <4>1. Plan[at + 1] = "stage kernel"
          <5>1. at + 1 = 5
            BY <3>8
          <5>2. QED
            BY <5>1, PlanIs
        <4>2. Fits(esp, job.kernel) /\ todo' = df_stage_file(disk, esp, 5, "AGNOS", job.kernel)
          BY <1>4, <4>1, Ops DEF Refused
        <4>3. VolumeIn(esp, range.first, range.last) /\ job.kernel \in Nat
          BY <1>1, <3>3, <4>2, JobTypes, NoneFits
        <4>4. Filled(todo')
          BY <4>2, <4>3, StageFilled
        <4>5. QED
          BY <1>1, <1>4, <4>4 DEF Kinds
      <3>9. QED
        BY <1>1, <2>2, <3>5, <3>6, <3>7, <3>8
    <2>3. QED
      BY <1>1, <2>1, <2>2
  <1>5. QED
    BY <1>2, <1>3, <1>4

LEMMA NextKinds == Inv /\ Kinds /\ [Next]_vars => Kinds'
  <1> SUFFICES ASSUME Inv, Kinds, [Next]_vars PROVE Kinds'
    OBVIOUS
  <1>1. CASE Begin
    BY <1>1, BeginKinds
  <1>2. CASE MakeWrite
    <2>1. Filled(Tail(todo)) /\ todo' = Tail(todo) /\ todo # <<>>
      BY <1>2, TailFilled DEF MakeWrite, Kinds
    <2>2. busy' = busy /\ runs' = runs /\ busy = TRUE
      BY <1>2, <2>1 DEF MakeWrite, Kinds, Inv
    <2>3. QED
      BY <2>1, <2>2 DEF Kinds
  <1>3. CASE StopIn
    BY <1>3 DEF StopIn, Kinds
  <1>4. CASE End
    BY <1>4 DEF End, Kinds
  <1>5. CASE Again
    <2>1. runs' \in 1 .. MaxRuns
      BY <1>5, Bounds DEF Again, Kinds
    <2>2. todo' = <<>>
      BY <1>5 DEF Again
    <2>3. QED
      BY <2>1, <2>2, NothingFilled DEF Kinds
  <1>6. CASE UNCHANGED vars
    BY <1>6 DEF vars, Kinds
  <1>7. QED
    BY <1>1, <1>2, <1>3, <1>4, <1>5, <1>6 DEF Next, Over

LEMMA KindsInvariance == Spec => []Kinds
  <1>1. Init => Kinds
    <2> SUFFICES ASSUME Init PROVE Kinds
      OBVIOUS
    <2>1. todo = <<>> /\ runs = 1
      BY DEF Init
    <2>2. runs \in 1 .. MaxRuns
      BY <2>1, Bounds
    <2>3. QED
      BY <2>1, <2>2, NothingFilled DEF Kinds
  <1>2. Inv /\ Kinds /\ [Next]_vars => Kinds'
    BY NextKinds
  <1>3. QED
    BY <1>1, <1>2, Invariance, PTL DEF Spec

-----------------------------------------------------------------------------
(* What is in the sectors of the volume.                                   *)

\* Links from the FATs when the files end before p and q, and while another
\* one is chained, are of the volume's clusters.
LEMMA LinkFits ==
    ASSUME NEW p \in Nat, NEW q \in Nat, p <= q, q <= esp.coc + 2, esp.coc \in Nat,
           NEW c \in 0 .. esp.coc + 1
    PROVE  LinkAt(p, q, c) \in {Eoc, 0} \cup AllClusters
  BY DEF LinkAt, AllClusters

LEMMA LinkFitsUnder ==
    ASSUME NEW p \in Nat, NEW q \in Nat, p <= q, q <= esp.coc + 2, esp.coc \in Nat,
           NEW first \in Nat, NEW last \in Nat, last <= esp.coc + 1, first >= 6,
           NEW made, NEW c \in 0 .. esp.coc + 1
    PROVE  LinkUnder(p, q, first, last, made, c) \in {Eoc, 0} \cup AllClusters
  <1>1. CASE c \in first .. last /\ made
    BY <1>1 DEF LinkUnder, AllClusters
  <1>2. CASE ~(c \in first .. last /\ made)
    BY <1>2, LinkFits DEF LinkUnder
  <1>3. QED
    BY <1>1, <1>2

LEMMA InfoFits ==
    ASSUME NEW m \in 6 .. esp.coc + 2, esp.coc \in Nat
    PROVE  Info(esp, m) \in InfoSector
  <1>1. esp.coc - (m - 2) \in 0 .. esp.coc - 4
    OBVIOUS
  <1>2. QED
    BY <1>1 DEF Info, InfoSector

\* A directory of one file, and of none.
LEMMA DirFits ==
    ASSUME NEW name \in Names, NEW first \in AllClusters, NEW size \in Nat
    PROVE  Dir(<<Dirent(name, first, size)>>) \in DirSector /\ Dir(<<>>) \in DirSector
  <1> DEFINE E == [name : Names, first : AllClusters, size : Nat]
  <1>1. Dirent(name, first, size) \in E
    BY DEF Dirent
  <1>2. <<Dirent(name, first, size)>> \in Seq(E) /\ <<>> \in Seq(E)
    <2> HIDE DEF E
    <2>1. QED
      BY <1>1
  <1>3. \A entries \in Seq(E) : Dir(entries) \in DirSector
    BY DEF Dir, DirSector
  <1>4. QED
    BY <1>2, <1>3

LEMMA RootFits ==
    ASSUME 3 \in AllClusters, 5 \in AllClusters
    PROVE  Dir(<<Dirent("EFI", 3, 0), Dirent("BOOT", 5, 0)>>) \in DirSector
  <1> DEFINE E == [name : Names, first : AllClusters, size : Nat]
  <1>1. Dirent("EFI", 3, 0) \in E /\ Dirent("BOOT", 5, 0) \in E
    BY DEF Dirent, Names
  <1>2. <<Dirent("EFI", 3, 0), Dirent("BOOT", 5, 0)>> \in Seq(E)
    <2> HIDE DEF E
    <2>1. QED
      BY <1>1
  <1>3. QED
    BY <1>2 DEF Dir, DirSector

\* A disk that shows two files, the one at hand or another.
LEMMA ShownFits ==
    ASSUME NEW D, NEW total, NEW p, NEW q, NEW boot \in Nat, NEW kernel \in Nat,
           NEW lo, NEW hi, VolumeIn(esp, lo, hi),
           Shows(D, esp, total, p, q, boot, kernel), EndsFit(esp, p, q, boot, kernel)
    PROVE  /\ p \in Nat /\ q \in 6 .. esp.coc + 2 /\ p <= q /\ esp.coc \in Nat
           /\ \A copy \in {0, 1} : \A c \in 0 .. esp.coc + 1 :
                LinkOn(D, esp, copy, c) \in {Eoc, 0} \cup AllClusters
           /\ \A copy \in {1, 7} : D[esp.abs + copy] \in InfoSector
           /\ \A dir \in 2 .. 5 : D[SectorOf(esp, dir)] \in DirSector
  <1>0. \A name \in {"BOOT", "BOOTX64.EFI", "AGNOS"} : name \in Names
    BY DEF Names
  <1>1. esp.coc \in Nat /\ esp.coc > 5
    BY VolumeNats
  <1>2. p \in Nat /\ q \in 6 .. esp.coc + 2 /\ p <= q /\ 6 <= p
    BY <1>1 DEF EndsFit
  <1>3. ASSUME NEW copy \in {0, 1}, NEW c \in 0 .. esp.coc + 1
        PROVE  LinkOn(D, esp, copy, c) \in {Eoc, 0} \cup AllClusters
    <2>1. LinkOn(D, esp, copy, c) = LinkAt(p, q, c)
      BY LinksShown DEF Shows
    <2>2. q \in Nat /\ q <= esp.coc + 2
      BY <1>1, <1>2
    <2>3. QED
      BY <1>1, <1>2, <2>1, <2>2, LinkFits
  <1>4. \A copy \in {1, 7} : D[esp.abs + copy] \in InfoSector
    BY <1>1, <1>2, InfoFits DEF Shows
  <1>5. \A c \in 2 .. 6 : c \in AllClusters
    BY <1>1 DEF AllClusters
  <1>6. q > p => p \in AllClusters
    BY <1>1, <1>2 DEF AllClusters
  <1>7. D[SectorOf(esp, 2)] \in DirSector /\ D[SectorOf(esp, 3)] \in DirSector
    <2>1. 3 \in AllClusters /\ 4 \in AllClusters /\ 5 \in AllClusters
      BY <1>5
    <2>2. D[SectorOf(esp, 2)] = Dir(<<Dirent("EFI", 3, 0), Dirent("BOOT", 5, 0)>>)
          /\ D[SectorOf(esp, 3)] = Dir(<<Dirent("BOOT", 4, 0)>>)
      BY DEF Shows
    <2>3. Dir(<<Dirent("BOOT", 4, 0)>>) \in DirSector
      BY <2>1, <1>0, DirFits
    <2>4. QED
      BY <2>1, <2>2, <2>3, RootFits
  <1>8. D[SectorOf(esp, 4)] \in DirSector
    <2>1. 6 \in AllClusters
      BY <1>5
    <2>2. Dir(<<Dirent("BOOTX64.EFI", 6, boot)>>) \in DirSector /\ Dir(<<>>) \in DirSector
      BY <1>0, <2>1, DirFits
    <2>3. QED
      BY <2>2 DEF Shows
  <1>9. D[SectorOf(esp, 5)] \in DirSector
    <2>1. Dir(<<>>) \in DirSector
      <3>1. 2 \in AllClusters /\ 0 \in Nat
        BY <1>5
      <3>2. QED
        BY <1>0, <3>1, DirFits
    <2>2. CASE q > p
      <3>1. Dir(<<Dirent("AGNOS", p, kernel)>>) \in DirSector
        BY <1>0, <1>6, <2>2, DirFits
      <3>2. QED
        BY <2>2, <3>1 DEF Shows
    <2>3. CASE ~(q > p)
      BY <2>1, <2>3 DEF Shows
    <2>4. QED
      BY <2>2, <2>3
  <1>10. \A dir \in 2 .. 5 : dir = 2 \/ dir = 3 \/ dir = 4 \/ dir = 5
    OBVIOUS
  <1>11. QED
    BY <1>1, <1>2, <1>3, <1>4, <1>7, <1>8, <1>9, <1>10

\* A disk with a file on its way: each sector is as before or as afterwards.
LEMMA StagingFits ==
    ASSUME NEW dir \in {4, 5}, NEW name \in Names, NEW size, NEW d, NEW n,
           Staging(dir, name, size, d, n), job.boot \in Nat, job.kernel \in Nat
    PROVE  VolumeTypes
  <1> DEFINE p == esp.nfree
             last == LastCluster(esp, size)
             e == ChainEnd(esp, size)
  <1>1. /\ Under(disk, d, esp, dir, name, size, n) /\ size \in Nat /\ Fits(esp, size)
        /\ n \in 0 .. e + 3
        /\ Shows(d, esp, Length(EspRange(job)), p, p, job.boot, job.kernel)
        /\ EndsFit(esp, p, p, job.boot, job.kernel)
        /\ VolumeIn(esp, EspRange(job).first, EspRange(job).last)
    BY DEF Staging
  <1>2. /\ p \in Nat /\ p >= 6 /\ p <= esp.coc + 1 /\ esp.coc \in Nat /\ esp.coc > 5
        /\ last \in Nat /\ last <= esp.coc + 1
        /\ AfterFile(esp, size) \in 6 .. esp.coc + 2
    <2>1. esp.nfree \in 6 .. esp.coc + 1 /\ esp.coc \in Nat /\ Clusters(size) \in Nat \ {0}
          /\ esp.nfree + Clusters(size) <= esp.coc + 2 /\ esp.coc > 5
      BY <1>1, FileFits, VolumeNats
    <2>2. QED
      BY <2>1 DEF AfterFile, LastCluster
  <1>3. n \in Nat
    <2>1. StageIs(df_stage_file(0, esp, 4, 0, size), BodyWrites(esp, 0, Clusters(size)),
                  df_fat_write_chain(0, esp, esp.nfree, LastCluster(esp, size)),
                  esp, 4, 0, size, BodyEnd(size), ChainLen(esp.nfree, LastCluster(esp, size)), e)
      BY <1>1, StageShape
    <2>2. e \in Nat
      BY <2>1 DEF StageIs
    <2>3. QED
      BY <1>1, <2>2
  <1> HIDE DEF e
  <1>4. /\ \A copy \in {1, 7} : d[esp.abs + copy] \in InfoSector
        /\ \A at1 \in 2 .. 5 : d[SectorOf(esp, at1)] \in DirSector
    BY <1>1, ShownFits
  <1>5. ASSUME NEW copy \in {0, 1}, NEW c \in 0 .. esp.coc + 1
        PROVE  LinkOf(copy, c) \in {Eoc, 0} \cup AllClusters
    <2> DEFINE made == BodyEnd(size) + Turn(p, copy, c \div PerSector) <= n
    <2>1. LinkOn(disk, esp, copy, c) = LinkUnder(p, p, p, last, made, c)
      BY <1>1, <1>3, LinksUnder DEF Shows
    <2> HIDE DEF made, p, last
    <2>2. LinkUnder(p, p, p, last, made, c) \in {Eoc, 0} \cup AllClusters
      <3>1. p <= p /\ p <= esp.coc + 2
        BY <1>2
      <3>2. QED
        BY <1>2, <3>1, LinkFitsUnder
    <2>3. QED
      BY <2>1, <2>2 DEF LinkOn, LinkOf, Link
  <1>6. \A copy \in {1, 7} : disk[esp.abs + copy] \in InfoSector
    <2>1. Info(esp, AfterFile(esp, size)) \in InfoSector
      BY <1>2, InfoFits
    <2>2. /\ disk[esp.abs + 1] \in {Info(esp, AfterFile(esp, size)), d[esp.abs + 1]}
          /\ disk[esp.abs + 7] \in {Info(esp, AfterFile(esp, size)), d[esp.abs + 7]}
      BY <1>1 DEF Under
    <2>3. QED
      BY <1>4, <2>1, <2>2
  <1>7. ASSUME NEW c \in 2 .. 5 PROVE disk[SectorOf(esp, c)] \in DirSector
    <2>1. CASE c = dir
      <3>1. p \in AllClusters
        BY <1>2 DEF AllClusters
      <3>2. Dir(<<Dirent(name, p, size)>>) \in DirSector
        BY <1>1, <3>1, DirFits
      <3>3. disk[SectorOf(esp, dir)] \in {Dir(<<Dirent(name, p, size)>>), d[SectorOf(esp, dir)]}
        BY <1>1 DEF Under
      <3>4. QED
        BY <1>4, <2>1, <3>2, <3>3
    <2>2. CASE c # dir
      <3>1. c \in 2 .. esp.coc + 1 /\ c \notin p .. last
        BY <1>2
      <3>2. disk[SectorOf(esp, c)] = d[SectorOf(esp, c)]
        BY <1>1, <2>2, <3>1 DEF Under
      <3>3. QED
        BY <1>4, <3>2
    <2>3. QED
      BY <2>1, <2>2
  <1>8. QED
    BY <1>5, <1>6, <1>7 DEF VolumeTypes

LEMMA VolumeTypesInv == Inv /\ EspInv => (Formatted => VolumeTypes)
  <1> SUFFICES ASSUME Inv, EspInv, Formatted PROVE VolumeTypes
    OBVIOUS
  <1>1. job.boot \in Nat /\ job.kernel \in Nat
    BY JobTypes DEF Inv
  <1>2. CASE ~busy \/ at = 3
    <2>1. PICK p, q : Calm(p, q)
      BY <1>2, WhenCalm
    <2>2. /\ \A copy \in {0, 1} : \A c \in 0 .. esp.coc + 1 :
                LinkOn(disk, esp, copy, c) \in {Eoc, 0} \cup AllClusters
          /\ \A copy \in {1, 7} : disk[esp.abs + copy] \in InfoSector
          /\ \A dir \in 2 .. 5 : disk[SectorOf(esp, dir)] \in DirSector
      BY <1>1, <2>1, ShownFits DEF Calm
    <2>3. QED
      BY <2>2 DEF VolumeTypes, LinkOn, LinkOf, Link
  <1>3. CASE busy /\ at = 4
    <2>1. PICK d, n : Staging(4, "BOOTX64.EFI", job.boot, d, n)
      BY <1>3, WhenBoot
    <2>2. "BOOTX64.EFI" \in Names /\ 4 \in {4, 5}
      BY DEF Names
    <2>3. QED
      BY <1>1, <2>1, <2>2, StagingFits
  <1>4. CASE busy /\ at = 5
    <2>1. PICK d, n : Staging(5, "AGNOS", job.kernel, d, n)
      BY <1>4, WhenKernel
    <2>2. "AGNOS" \in Names /\ 5 \in {4, 5}
      BY DEF Names
    <2>3. QED
      BY <1>1, <2>1, <2>2, StagingFits
  <1>5. QED
    BY <1>2, <1>3, <1>4, WhenFormatted

LEMMA TypesInv == Inv /\ EspInv /\ Kinds => TypeOK
  <1> SUFFICES ASSUME Inv, EspInv, Kinds PROVE TypeOK
    OBVIOUS
  <1>1. /\ DOMAIN disk = LBAs /\ job \in Jobs /\ at \in 0 .. 5 /\ busy \in BOOLEAN
        /\ (busy => at > 0) /\ Len(Plan) = 5
    <2>1. ASSUME busy PROVE at > 0
      <3>1. at # 0 /\ at \in 0 .. 5
        BY <2>1 DEF Inv
      <3>2. QED
        BY <3>1
    <2>2. DOMAIN disk = LBAs /\ job \in Jobs /\ at \in 0 .. 5 /\ busy \in BOOLEAN
      BY DEF Inv
    <2>3. QED
      BY <2>1, <2>2, PlanIs
  <1>2. ASSUME NEW w \in DOMAIN todo PROVE busy /\ todo[w].sectors # <<>>
    <2>1. todo # <<>>
      <3>1. DOMAIN <<>> = {}
        OBVIOUS
      <3>2. QED
        BY <1>2, <3>1
    <2>2. todo[w] \in ToSet(todo)
      BY <1>2 DEF ToSet
    <2>3. QED
      BY <2>1, <2>2 DEF Kinds, Filled
  <1>3. esp = Unformatted \/ esp.nfree \in 6 .. esp.coc + 2
    <2>1. CASE at <= 1
      BY <2>1 DEF Inv
    <2>2. CASE at > 1
      BY <2>2, VolumeNats DEF Inv, Written
    <2>3. QED
      BY <1>1, <2>1, <2>2
  <1>4. QED
    BY <1>1, <1>2, <1>3, VolumeTypesInv DEF TypeOK, EspInv, Kinds
-----------------------------------------------------------------------------
(* The theorems.                                                           *)

\* The variables hold what the code can put there and no write is empty
\* (df_write is never asked for no bytes); at every write from the end of the
\* format on the FATs link inside the volume, FSInfo fits it, and directories
\* are directories (df_fat_write_chain, df_stage_file).
THEOREM Typed == Spec => []TypeOK
  BY Invariance, EspInvariance, KindsInvariance, TypesInv, PTL

\* At every write of a native install, a name in a directory of the ESP leads,
\* by either FAT, over a complete chain of its own to what the file has
\* (df_stage_file writes body, FATs, name, in this order).
THEOREM NamesLeadToFiles == Spec => []NamesWhole
  BY Invariance, EspInvariance, NamesInv, PTL

\* At every write, the two FATs differ in one sector at most, and FSInfo is
\* behind by the file being staged and no more (df_fat_write_chain writes both
\* copies of a sector before the next; FSInfo comes last).
THEOREM FatsLagByOne == Spec => []LagsByOne
  BY Invariance, EspInvariance, LagsInv, PTL

\* Between operations, after failed ones too, the clusters in use are the
\* directories' and those the names lead to, the FATs agree and the counts are
\* right: fsck has nothing to do (native_format, native_stage).
THEOREM CleanBetween == Spec => []CleanWhenIdle
  BY Invariance, EspInvariance, CleanInv, PTL

\* A native install that says it is done leaves a table that names the ESP, in
\* it a volume of that size and there \EFI\BOOT\BOOTX64.EFI and \boot\AGNOS
\* with all that the files have (native_partition, native_format, native_stage).
THEOREM DoneIsBootable == Spec => []DoneMeansBootable
  BY Invariance, EspInvariance, BootableInv, PTL
=============================================================================
