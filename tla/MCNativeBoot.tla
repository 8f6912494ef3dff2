---------------------------- MODULE MCNativeBoot ----------------------------
(***************************************************************************)
(* A disk of 50 sectors, whose MiB has 5 and whose table's array has 2.    *)
(***************************************************************************)
EXTENDS NativeBootProps

Job(mib, boot, kernel) == [esp |-> mib, boot |-> boot, kernel |-> kernel]

\* An ESP of 5 MiB holds 7 clusters of files, one of 6 MiB 10, one of 8 MiB 18;
\* one of 4 is too small for FAT32 and one of 9 for the root.
SmallJobs ==
    {Job(5, 9, 4), Job(5, 9, 5), Job(6, 3, 13), Job(6, 1, 0), Job(8, 21, 13),
     Job(0, 1, 1), Job(4, 1, 1), Job(9, 1, 1)}

\* Blank, and full of another system with a table of its own.
Other == [is |-> "other"]
Blank == [lba \in 0 .. 49 |-> Zero]
OldArray ==
    <<[is |-> "entries", esp |-> [first |-> 4, last |-> 20], root |-> [first |-> 21, last |-> 40]],
      Other>>
Used ==
    [lba \in 0 .. 49 |->
        IF lba = 1 THEN df_hdr(50, OldArray)
        ELSE IF lba \in 2 .. 3 THEN OldArray[lba - 1]
        ELSE IF lba \in 47 .. 48 THEN OldArray[lba - 46]
        ELSE IF lba = 49 THEN df_bhdr(50, OldArray) ELSE Other]
SmallDisks == {Blank, Used}
=============================================================================
