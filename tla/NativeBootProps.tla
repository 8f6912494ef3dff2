--------------------------- MODULE NativeBootProps ---------------------------
(***************************************************************************)
(* What the disk shows at every write of a native install, and after it.   *)
(***************************************************************************)
EXTENDS NativeBoot

LBAs == 0 .. N - 1
Extent(write) == write.lba .. write.lba + Len(write.sectors) - 1

\* The ESP, once it is formatted.
Formatted == esp # Unformatted
AllClusters == 2 .. esp.coc + 1
Link(volume, copy, c) ==
    LinksOf(disk[FatSector(volume, copy, c \div PerSector)])[c % PerSector]
LinkOf(copy, c) == Link(esp, copy, c)

\* What its sectors have: links that stay in the volume, and at their places
\* FSInfo with counts that fit and directories.
InfoSector == [is : {"info"}, free : 0 .. esp.coc - 4, next : 6 .. esp.coc + 2]
Names == {"EFI", "BOOT", "BOOTX64.EFI", "AGNOS"}
DirSector == [is : {"dir"}, entries : Seq([name : Names, first : AllClusters, size : Nat])]
VolumeTypes ==
    /\ \A copy \in {0, 1} : \A c \in 0 .. esp.coc + 1 :
        LinkOf(copy, c) \in {Eoc, 0} \cup AllClusters
    /\ \A copy \in {1, 7} : disk[esp.abs + copy] \in InfoSector
    /\ \A dir \in 2 .. 5 : disk[SectorOf(esp, dir)] \in DirSector

\* The variables hold what the code can put there.
TypeOK ==
    /\ DOMAIN disk = LBAs /\ job \in Jobs
    /\ at \in 0 .. Len(Plan) /\ busy \in BOOLEAN
    /\ busy => at > 0
    /\ \A w \in DOMAIN todo : busy /\ todo[w].sectors # <<>>
    /\ esp = Unformatted \/ esp.nfree \in 6 .. esp.coc + 2
    /\ Formatted => VolumeTypes
    /\ status \in {"running", "failed", "done"} /\ runs \in 1 .. MaxRuns
-----------------------------------------------------------------------------
(* The table (df_write_gpt).                                               *)

\* Wherever a run stops, a reader finds the table that was there or the new
\* one, unless a run that stopped before has left a backup that says something
\* else than the copy in front, which is written first.
OldOrNewTable ==
    before.safe => Table(disk, N) \in {before.table, Array(job)}

\* From the end of the partitioning on both copies are good and the same,
\* whatever formats and stages.
TableSurvives ==
    at > 1 => \A lba \in {1, N - 1} : CopyValid(disk, lba) /\ disk[lba].crc = Array(job)

\* Each operation writes where it may: the table outside the partitions, all
\* others inside theirs.
Allowed(op) ==
    IF op = "partition" THEN LBAs \ (FirstUsable .. LastUsable(N))
    ELSE LET part == IF op = "format root" THEN disk[2].root ELSE disk[2].esp
         IN  part.first .. part.last
StaysInPartition == \A w \in ToSet(todo) : Extent(w) \subseteq Allowed(Plan[at])
-----------------------------------------------------------------------------
(* The ESP, once it is formatted (df_stage_file).                          *)

UsedClusters == {c \in AllClusters : LinkOf(0, c) # 0}

\* The files that the two directories list, the clusters of one, and whether
\* they are chained and have what the file has.
Staged == UNION {ToSet(disk[SectorOf(esp, dir)].entries) : dir \in {4, 5}}
RunOf(file) == file.first .. file.first + Clusters(file.size) - 1
Whole(volume, file) ==
    \A c \in RunOf(file) :
        /\ \A copy \in {0, 1} :
            Link(volume, copy, c) = IF c + 1 \in RunOf(file) THEN c + 1 ELSE Eoc
        /\ disk[SectorOf(volume, c)] = Data(file.name, c - file.first + 1)

\* A name on disk leads, by either FAT, over a complete chain of its own to
\* what the file has.
NamesWhole ==
    Formatted =>
        /\ \A file \in Staged : Whole(esp, file)
        /\ \A file, other \in Staged : file # other => RunOf(file) \cap RunOf(other) = {}

\* Wherever a run stops, the FATs differ in the sector being written and no
\* other, and FSInfo is behind by the file being staged and no more: it never
\* has less free than the FAT shows.
InProgress ==
    IF ~busy THEN 0
    ELSE IF Plan[at] = "stage boot" THEN Clusters(job.boot)
    ELSE IF Plan[at] = "stage kernel" THEN Clusters(job.kernel) ELSE 0
DifferingSectors ==
    {s \in 0 .. esp.fatsz - 1 : disk[FatSector(esp, 0, s)] # disk[FatSector(esp, 1, s)]}
LagsByOne ==
    Formatted =>
        /\ Cardinality(DifferingSectors) <= 1
        /\ \A copy \in {1, 7} :
            disk[esp.abs + copy].free - (esp.coc - Cardinality(UsedClusters)) \in 0 .. InProgress

\* Between operations there is nothing for fsck: no cluster is used that no
\* name leads to, and the counts are right.
CleanWhenIdle ==
    Formatted /\ ~busy =>
        /\ UsedClusters = 2 .. 5 \cup UNION {RunOf(file) : file \in Staged}
        /\ \A c \in AllClusters : LinkOf(0, c) = LinkOf(1, c)
        /\ \A copy \in {1, 7} : disk[esp.abs + copy] = Info(esp, esp.nfree)
        /\ \A c \in UsedClusters : c < esp.nfree

\* A run that ends well leaves a disk whose firmware finds the table, in it
\* the ESP, and there, by their names, the boot loader and the kernel.
Entry(volume, dir, name) ==
    LET entries == disk[SectorOf(volume, dir)].entries
    IN  entries[CHOOSE e \in DOMAIN entries :
                    /\ entries[e].name = name
                    /\ \A f \in 1 .. e - 1 : entries[f].name # name]
Holds(volume, dir, name, size) ==
    LET file == Entry(volume, dir, name) IN file.size = size /\ Whole(volume, file)
DoneMeansBootable ==
    status = "done" =>
        LET range == Head(Table(disk, N)).esp
            volume == Geometry(range.first, Length(range))
        IN  /\ disk[range.first] =
                   [is |-> "boot", total |-> Length(range), fatsz |-> volume.fatsz]
            /\ Holds(volume, Entry(volume, Entry(volume, 2, "EFI").first, "BOOT").first,
                     "BOOTX64.EFI", job.boot)
            /\ Holds(volume, Entry(volume, 2, "BOOT").first, "AGNOS", job.kernel)
=============================================================================
