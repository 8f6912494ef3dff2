------------------------------ MODULE NativeBoot ------------------------------
(***************************************************************************)
(* What a native install (disk_backend.cyr) writes outside the root file   *)
(* system: the partition table, the ESP, the boot loader and the kernel,   *)
(* one write a step.  A write may be cut short, or the process end before  *)
(* it: nothing more is done then, until the installer is run again on the  *)
(* disk as it is.  A failed operation of these kinds ends the run, too.    *)
(* What Ext2Writer writes is one write over the root partition here.       *)
(***************************************************************************)
EXTENDS FatEsp

CONSTANTS
    N,          \* sectors of the disk
    MinDisk,    \* a smaller disk is refused (4096)
    MiB,        \* sectors of a MiB, and where the first partition begins (2048)
    Jobs,       \* what may be asked: MiB of the ESP, bytes of the two files
    Disks,      \* what may be on the disk before
    MaxRuns     \* bound: runs of the installer

ASSUME DiskSize == N \in Nat /\ N >= FirstUsable + ArrayLen + 2
ASSUME DiskTypes == \A d \in Disks : DOMAIN d = 0 .. N - 1
ASSUME JobTypes == \A job \in Jobs : job.esp \in Nat /\ job.boot \in Nat /\ job.kernel \in Nat
ASSUME Bounds == MiB \in Nat /\ MiB >= FirstUsable /\ MinDisk \in Nat /\ MaxRuns \in Nat \ {0}

VARIABLES
    disk,       \* content of each sector
    job,        \* what this run is to do
    at, busy,   \* operation of the plan, and whether it is being carried out
    todo,       \* its writes still to be made
    esp,        \* df_esp_*
    status,     \* "running", "failed", "done"
    runs,       \* runs so far
    before      \* what the run found, kept for the properties

vars == <<disk, job, at, busy, todo, esp, status, runs, before>>

\* Operations of plan_native_disk_ops in their order; those on the root file
\* system after its format are not seen here.
Plan == <<"partition", "format ESP", "format root", "stage boot", "stage kernel">>

-----------------------------------------------------------------------------
(* native_partition                                                        *)

EspRange(j) == [first |-> MiB, last |-> MiB + j.esp * MiB - 1]

\* The root fills the disk; the bug to catch forgets that the last usable
\* sector is usable.
RootRangePast(j) == [first |-> EspRange(j).last + 1, last |-> LastUsable(N) + 1]
RootRange(j) == [first |-> EspRange(j).last + 1, last |-> LastUsable(N)]

Partitions(j) == N >= MinDisk /\ RootRange(j).last > RootRange(j).first
Array(j) == Entries(EspRange(j), RootRange(j))
-----------------------------------------------------------------------------
(* native_format reads the array back from the disk; native_stage          *)

Length(range) == range.last - range.first + 1
NewEsp == Geometry(disk[2].esp.first, Length(disk[2].esp))

Refused(op) ==
    \/ op = "partition" /\ ~Partitions(job)
    \/ op = "format ESP" /\ ~Formats(NewEsp)
    \/ op = "stage boot" /\ ~Fits(esp, job.boot)
    \/ op = "stage kernel" /\ ~Fits(esp, job.kernel)

Root(range) == [s \in 1 .. Length(range) |-> [is |-> "root"]]
Writes(op) ==
    CASE op = "partition" -> df_write_gpt(N, Array(job))
      [] op = "format ESP" -> df_format_esp(NewEsp, Length(disk[2].esp))
      [] op = "format root" -> <<Write(disk[2].root.first, Root(disk[2].root))>>
      [] op = "stage boot" -> df_stage_file(disk, esp, 4, "BOOTX64.EFI", job.boot)
      [] op = "stage kernel" -> df_stage_file(disk, esp, 5, "AGNOS", job.kernel)

\* The globals after an operation.
EspAfter(op) ==
    CASE op = "format ESP" -> NewEsp
      [] op = "stage boot" -> [esp EXCEPT !.nfree = AfterFile(esp, job.boot)]
      [] op = "stage kernel" -> [esp EXCEPT !.nfree = AfterFile(esp, job.kernel)]
      [] OTHER -> esp
-----------------------------------------------------------------------------
(* The run.                                                                *)

\* Whether the backup says what a reader finds in front, each with its array
\* where it usually is.
Usual ==
    /\ disk[1].is = "header" => disk[1].array = 2
    /\ disk[N - 1].is = "header" => disk[N - 1].array = N - 1 - ArrayLen
BackedUp ==
    Usual /\ (CopyValid(disk, 1) => CopyValid(disk, N - 1) /\ disk[N - 1].crc = disk[1].crc)
Found == [table |-> Table(disk, N), safe |-> BackedUp]

Init ==
    /\ disk \in Disks /\ job \in Jobs
    /\ at = 0 /\ busy = FALSE /\ todo = <<>>
    /\ esp = Unformatted /\ status = "running" /\ runs = 1 /\ before = Found

Begin ==
    /\ status = "running" /\ ~busy /\ at < Len(Plan)
    /\ at' = at + 1
    /\ IF Refused(Plan[at + 1])
       THEN status' = "failed" /\ UNCHANGED <<busy, todo>>
       ELSE busy' = TRUE /\ todo' = Writes(Plan[at + 1]) /\ UNCHANGED status
    /\ UNCHANGED <<disk, job, esp, runs, before>>

\* The first len sectors of a write reach the disk.
After(write, len) ==
    [lba \in DOMAIN disk |->
        IF lba \in write.lba .. write.lba + len - 1 THEN write.sectors[lba - write.lba + 1]
        ELSE disk[lba]]

MakeWrite ==
    /\ status = "running" /\ todo # <<>>
    /\ disk' = After(Head(todo), Len(Head(todo).sectors)) /\ todo' = Tail(todo)
    /\ UNCHANGED <<job, at, busy, esp, status, runs, before>>

\* df_write falls short, or a read of the source did before the write, or the
\* process is killed.
StopIn ==
    /\ status = "running" /\ todo # <<>>
    /\ \E len \in 0 .. Len(Head(todo).sectors) - 1 : disk' = After(Head(todo), len)
    /\ status' = "failed"
    /\ UNCHANGED <<job, at, busy, todo, esp, runs, before>>

End ==
    /\ status = "running" /\ busy /\ todo = <<>>
    /\ busy' = FALSE /\ esp' = EspAfter(Plan[at])
    /\ status' = IF at = Len(Plan) THEN "done" ELSE status
    /\ UNCHANGED <<disk, job, at, todo, runs, before>>

\* A new process: nothing of the old one is left but the disk.
Again ==
    /\ status # "running" /\ runs < MaxRuns
    /\ job' \in Jobs /\ at' = 0 /\ busy' = FALSE /\ todo' = <<>>
    /\ esp' = Unformatted /\ status' = "running" /\ runs' = runs + 1 /\ before' = Found
    /\ UNCHANGED disk

Over == status # "running" /\ runs = MaxRuns /\ UNCHANGED vars

Next == Begin \/ MakeWrite \/ StopIn \/ End \/ Again \/ Over

Spec == Init /\ [][Next]_vars
=============================================================================
