---------------------------------- MODULE Gpt ----------------------------------
(***************************************************************************)
(* The GUID partition table of diskfmt.cyr: what is written, in which      *)
(* order, and what a reader takes for the table.  A disk is a function     *)
(* from sectors to contents; a content is a record whose field "is" tells  *)
(* the kinds apart.  A CRC is the text it is computed over.                *)
(***************************************************************************)
EXTENDS Integers, SequencesExt

CONSTANT ArrayLen    \* sectors of the entry array (32)

ASSUME ArrayLength == ArrayLen \in Nat \ {0}

Zero == [is |-> "zero"]
Zeros(n) == [s \in 1 .. n |-> Zero]

\* A request to write consecutive sectors.
Write(lba, sectors) == [lba |-> lba, sectors |-> sectors]

\* The array with entries 0 and 1; 34 and n - 34 bound what may be used.
Entries(esp, root) == <<[is |-> "entries", esp |-> esp, root |-> root]>> \o Zeros(ArrayLen - 1)
FirstUsable == 2 + ArrayLen
LastUsable(n) == n - 2 - ArrayLen

\* A header says where it is, where the other one and its array are, and has
\* the array's CRC.
df_hdr(n, array) ==
    [is |-> "header", my |-> 1, alternate |-> n - 1, array |-> 2, crc |-> array]
df_bhdr(n, array) ==
    [is |-> "header", my |-> n - 1, alternate |-> 1, array |-> n - 1 - ArrayLen, crc |-> array]

\* The bug to catch writes both headers before the arrays they speak of.
HeadersFirst(n, array) ==
    <<Write(0, <<[is |-> "mbr", size |-> n - 1]>>),
      Write(1, <<df_hdr(n, array)>>), Write(n - 1, <<df_bhdr(n, array)>>),
      Write(2, array), Write(n - 1 - ArrayLen, array)>>
df_write_gpt(n, array) ==
    <<Write(0, <<[is |-> "mbr", size |-> n - 1]>>),
      Write(1, <<df_hdr(n, array)>>), Write(2, array),
      Write(n - 1 - ArrayLen, array), Write(n - 1, <<df_bhdr(n, array)>>)>>

\* A reader, which is firmware or a kernel: the primary copy if its header and
\* array are in order, else the backup at the end of the disk, else nothing.
Sectors(disk, lba, len) == [s \in 1 .. len |-> disk[lba + s - 1]]
CopyValid(disk, lba) ==
    /\ disk[lba].is = "header" /\ disk[lba].my = lba
    /\ disk[lba].crc = Sectors(disk, disk[lba].array, ArrayLen)
NoTable == <<>>
Table(disk, n) ==
    IF CopyValid(disk, 1) THEN disk[1].crc
    ELSE IF CopyValid(disk, n - 1) THEN disk[n - 1].crc ELSE NoTable
=============================================================================
