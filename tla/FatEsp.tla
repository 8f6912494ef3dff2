-------------------------------- MODULE FatEsp --------------------------------
(***************************************************************************)
(* The FAT32 writer of diskfmt.cyr: the writes of df_format_esp and of     *)
(* df_stage_file, in their order.  The volume has one sector a cluster,    *)
(* two FATs, and the directories \EFI (cluster 3), \EFI\BOOT (4) and \boot *)
(* (5) below the root (2).  Dot entries and labels are left out.           *)
(***************************************************************************)
EXTENDS Gpt

CONSTANTS
    Reserved,       \* sectors before the FATs (32)
    PerSector,      \* FAT entries of a sector (128)
    MinClusters,    \* fewer make a FAT16 (65525)
    Batch,          \* sectors written at once (32)
    SectorSize      \* bytes of a sector (512)

ASSUME FatSizes ==
    /\ Reserved \in Nat /\ Reserved > 7    \* the copies at 6 and 7
    /\ PerSector \in Nat /\ PerSector > 5  \* the directories are in sector 0
    /\ MinClusters \in Nat /\ MinClusters > PerSector
    /\ Batch \in Nat \ {0} /\ SectorSize \in Nat \ {0}

-----------------------------------------------------------------------------
(* The volume.                                                             *)

\* Sectors of a FAT.
df_fat32_fatsz(total) == (total - Reserved + PerSector) \div (PerSector + 1)

\* The df_esp_* globals; before a format, abs and the rest are 0.
Esp(abs, fatsz, root_start, coc, nfree) ==
    [abs |-> abs, fatsz |-> fatsz, root_start |-> root_start, coc |-> coc, nfree |-> nfree]
Unformatted == Esp(0, 0, 0, 0, 6)
Geometry(abs, total) ==
    LET fatsz == df_fat32_fatsz(total)
        root_start == Reserved + 2 * fatsz
    IN  Esp(abs, fatsz, root_start, total - root_start, 6)

SectorOf(esp, cluster) == esp.abs + esp.root_start + cluster - 2
FatSector(esp, copy, s) == esp.abs + Reserved + copy * esp.fatsz + s

Eoc == -1
Fat(links) == [is |-> "fat", links |-> links]
LinksOf(sector) == IF sector.is = "fat" THEN sector.links ELSE [e \in 0 .. PerSector - 1 |-> 0]
Dir(entries) == [is |-> "dir", entries |-> entries]
Dirent(name, first, size) == [name |-> name, first |-> first, size |-> size]
Info(esp, nfree) == [is |-> "info", free |-> esp.coc - (nfree - 2), next |-> nfree]

\* FSInfo is kept twice.
InfoWrites(esp, nfree) ==
    <<Write(esp.abs + 1, <<Info(esp, nfree)>>), Write(esp.abs + 7, <<Info(esp, nfree)>>)>>
-----------------------------------------------------------------------------
(* df_format_esp                                                           *)

Formats(esp) == esp.coc >= MinClusters

Smaller(a, b) == IF a <= b THEN a ELSE b

\* Reserved sectors, FATs and root cluster.
ZeroWrites(esp) ==
    [b \in 1 .. esp.root_start \div Batch + 1 |->
        LET zs == (b - 1) * Batch
        IN  Write(esp.abs + zs, Zeros(Smaller(Batch, esp.root_start - zs + 1)))]

df_format_esp(esp, total) ==
    LET boot == [is |-> "boot", total |-> total, fatsz |-> esp.fatsz]
        fat == Fat([e \in 0 .. PerSector - 1 |-> IF e <= 5 THEN Eoc ELSE 0])
    IN  ZeroWrites(esp)
        \o <<Write(esp.abs, <<boot>>), Write(esp.abs + 6, <<boot>>)>>
        \o InfoWrites(esp, 6)
        \o <<Write(FatSector(esp, 0, 0), <<fat>>), Write(FatSector(esp, 1, 0), <<fat>>),
             Write(SectorOf(esp, 2), <<Dir(<<Dirent("EFI", 3, 0), Dirent("BOOT", 5, 0)>>)>>),
             Write(SectorOf(esp, 3), <<Dir(<<Dirent("BOOT", 4, 0)>>)>>),
             Write(SectorOf(esp, 4), <<Dir(<<>>)>>),
             Write(SectorOf(esp, 5), <<Dir(<<>>)>>)>>
-----------------------------------------------------------------------------
(* df_stage_file                                                           *)

Clusters(size) == (size + SectorSize - 1) \div SectorSize

\* The bug to catch takes the cluster behind the last one for a cluster.
FitsOneMore(esp, size) == size > 0 /\ esp.nfree + Clusters(size) <= esp.coc + 3
Fits(esp, size) == size > 0 /\ esp.nfree + Clusters(size) <= esp.coc + 2

Data(name, c) == [is |-> "data", of |-> name, part |-> c]
BodyWrites(esp, name, nclus) ==
    [b \in 1 .. (nclus + Batch - 1) \div Batch |->
        LET wi == (b - 1) * Batch
        IN  Write(SectorOf(esp, esp.nfree + wi),
                  [c \in 1 .. Smaller(Batch, nclus - wi) |-> Data(name, wi + c)])]

\* A sector of the FAT as it is, with the part of the chain that it has; the
\* bugs to catch start from an empty one, and do not end the chain.
ChainOpen(old, s, first, last) ==
    Fat([e \in 0 .. PerSector - 1 |->
            LET c == s * PerSector + e
            IN  IF c \notin first .. last THEN LinksOf(old)[e] ELSE c + 1])
ChainAlone(old, s, first, last) ==
    Fat([e \in 0 .. PerSector - 1 |->
            LET c == s * PerSector + e
            IN  IF c \notin first .. last THEN 0 ELSE IF c = last THEN Eoc ELSE c + 1])
Chained(old, s, first, last) ==
    Fat([e \in 0 .. PerSector - 1 |->
            LET c == s * PerSector + e
            IN  IF c \notin first .. last THEN LinksOf(old)[e]
                ELSE IF c = last THEN Eoc ELSE c + 1])

\* Both copies of a sector before the next sector; the bug to catch writes one
\* FAT after the other.
ByCopy(disk, esp, first, last) ==
    LET from == first \div PerSector  len == last \div PerSector - from + 1
    IN  [w \in 1 .. 2 * len |->
            LET s == from + ((w - 1) % len)
            IN  Write(FatSector(esp, (w - 1) \div len, s),
                      <<Chained(disk[FatSector(esp, 0, s)], s, first, last)>>)]
df_fat_write_chain(disk, esp, first, last) ==
    LET from == first \div PerSector  len == last \div PerSector - from + 1
    IN  [w \in 1 .. 2 * len |->
            LET s == from + (w - 1) \div 2
            IN  Write(FatSector(esp, (w - 1) % 2, s),
                      <<Chained(disk[FatSector(esp, 0, s)], s, first, last)>>)]

\* The next free cluster after a file; the bug to catch gives the last away.
AfterFileShort(esp, size) == esp.nfree + Clusters(size) - 1
AfterFile(esp, size) == esp.nfree + Clusters(size)

\* The bug to catch publishes the name before the chain.
NameFirst(disk, esp, dir, name, size) ==
    LET nclus == Clusters(size)
    IN  BodyWrites(esp, name, nclus)
        \o <<Write(SectorOf(esp, dir), <<Dir(<<Dirent(name, esp.nfree, size)>>)>>)>>
        \o df_fat_write_chain(disk, esp, esp.nfree, esp.nfree + nclus - 1)
        \o InfoWrites(esp, AfterFile(esp, size))
df_stage_file(disk, esp, dir, name, size) ==
    LET nclus == Clusters(size)
    IN  BodyWrites(esp, name, nclus)
        \o df_fat_write_chain(disk, esp, esp.nfree, esp.nfree + nclus - 1)
        \o <<Write(SectorOf(esp, dir), <<Dir(<<Dirent(name, esp.nfree, size)>>)>>)>>
        \o InfoWrites(esp, AfterFile(esp, size))
=============================================================================
