-------------------------- MODULE RsInstaller_proofs --------------------------
(***************************************************************************)
(* For every set of configurations, however patient the client: what       *)
(* AgnovaInstaller's record guarantees (phases are climbed one at a time,  *)
(* completed in order, and never past a failure that is not recoverable);  *)
(* that the port validates and plans as the library does; and that a plan  *)
(* agrees with itself: its fstab with its mounts, its kernel's root with   *)
(* the root, and its partitions with one another.                          *)
(***************************************************************************)
EXTENDS RsInstallerProps, InstallPlan_proofs

\* Positions of the phases in ALL.
LEMMA PhaseAt ==
    ASSUME NEW n \in 0 .. 13
    PROVE  /\ AllPhases[n + 1] \in InstallPhase
           /\ index(AllPhases[n + 1]) = n
<1>1. AllPhases[n + 1] \in InstallPhase
    BY DEF InstallPhase, AllPhases, ToSet
<1>2. n \in 0 .. Len(AllPhases) - 1
    BY DEF AllPhases
<1>3. \A m \in 0 .. Len(AllPhases) - 1 : AllPhases[m + 1] = AllPhases[n + 1] => m = n
    BY DEF AllPhases
<1> QED
    BY <1>1, <1>2, <1>3 DEF index

LEMMA PhaseList ==
    /\ AllPhases \in Seq(InstallPhase) /\ Len(AllPhases) = 14
    /\ \A n \in 1 .. 14 : AllPhases[n] \in InstallPhase
<1>1. AllPhases = [n \in 1 .. 14 |-> AllPhases[n]]
    BY DEF AllPhases
<1>2. \A n \in 1 .. 14 : AllPhases[n] \in InstallPhase
    BY DEF AllPhases, InstallPhase, ToSet
<1> QED
    BY <1>1, <1>2

LEMMA IndexOf ==
    ASSUME NEW p \in InstallPhase
    PROVE  index(p) \in 0 .. 13 /\ AllPhases[index(p) + 1] = p
<1>1. PICK n \in 0 .. 13 : p = AllPhases[n + 1]
    BY DEF InstallPhase, AllPhases, ToSet
<1> QED
    BY <1>1, PhaseAt

\* The numbers that the port has for the phases are their positions.
LEMMA Numbers ==
    /\ index("ValidateConfig") = 0 /\ index("PartitionDisk") = PARTITION
    /\ index("SetupEncryption") = ENCRYPTION /\ index("FormatFilesystems") = FORMAT
    /\ index("MountFilesystems") = MOUNT /\ index("InstallBase") = BASE
    /\ index("InstallPackages") = PACKAGES /\ index("ConfigureSystem") = CONFIGURE
    /\ index("InstallBootloader") = BOOTLOADER /\ index("CreateUser") = USER
    /\ index("SetupSecurity") = SECURITY /\ index("FirstBootSetup") = FIRST_BOOT
    /\ index("Cleanup") = CLEANUP /\ index("Complete") = COMPLETE
<1>1. /\ AllPhases[0 + 1] = "ValidateConfig" /\ AllPhases[1 + 1] = "PartitionDisk"
      /\ AllPhases[2 + 1] = "SetupEncryption" /\ AllPhases[3 + 1] = "FormatFilesystems"
      /\ AllPhases[4 + 1] = "MountFilesystems" /\ AllPhases[5 + 1] = "InstallBase"
      /\ AllPhases[6 + 1] = "InstallPackages" /\ AllPhases[7 + 1] = "ConfigureSystem"
      /\ AllPhases[8 + 1] = "InstallBootloader" /\ AllPhases[9 + 1] = "CreateUser"
      /\ AllPhases[10 + 1] = "SetupSecurity" /\ AllPhases[11 + 1] = "FirstBootSetup"
      /\ AllPhases[12 + 1] = "Cleanup" /\ AllPhases[13 + 1] = "Complete"
    BY DEF AllPhases
<1>2. \A n \in 0 .. 13 : index(AllPhases[n + 1]) = n
    BY PhaseAt
<1> QED
    BY <1>1, <1>2 DEF PARTITION, ENCRYPTION, FORMAT, MOUNT, BASE, PACKAGES, CONFIGURE,
                      BOOTLOADER, USER, SECURITY, FIRST_BOOT, CLEANUP, COMPLETE

LEMMA NextPhase ==
    ASSUME NEW p \in InstallPhase, next(p) # None
    PROVE  /\ next(p)[1] \in InstallPhase
           /\ index(p) < 13 /\ index(next(p)[1]) = index(p) + 1
<1>1. p # "Complete" /\ next(p)[1] = AllPhases[index(p) + 2]
    BY DEF next, Some, None
<1>2. index(p) \in 0 .. 12
    BY <1>1, IndexOf DEF AllPhases
<1>3. index(p) + 1 \in 0 .. 13 /\ index(p) + 2 = (index(p) + 1) + 1
    BY <1>2
<1> QED
    BY <1>1, <1>2, <1>3, PhaseAt

LEMMA LastPhase == index("Complete") = 13 /\ next("Complete") = None
    BY Numbers DEF COMPLETE, next

LEMMA FatalNumbers ==
    ASSUME NEW p \in InstallPhase
    PROVE  index(p) \in {PARTITION, ENCRYPTION, FORMAT, BASE, BOOTLOADER} <=> p \in NonRecoverable
<1>1. p \in NonRecoverable => index(p) \in {PARTITION, ENCRYPTION, FORMAT, BASE, BOOTLOADER}
    BY Numbers DEF NonRecoverable
<1>2. ASSUME NEW q \in InstallPhase, index(p) = index(q) PROVE p = q
    BY <1>2, IndexOf
<1>3. NonRecoverable \subseteq InstallPhase
    BY DEF NonRecoverable, InstallPhase, AllPhases, ToSet
<1>4. index(p) \in {PARTITION, ENCRYPTION, FORMAT, BASE, BOOTLOADER}
          => \E q \in NonRecoverable : index(p) = index(q)
    BY Numbers DEF NonRecoverable
<1> QED
    BY <1>1, <1>2, <1>3, <1>4

\* The phases that the planners plan for: neither the first nor the last.
LEMMA PlannedPhases ==
    ASSUME NEW c, NEW u
    PROVE  /\ plan_partition_ops(c).phase = "PartitionDisk"
           /\ plan_encryption_ops(c).phase = "SetupEncryption"
           /\ plan_format_ops(c).phase = "FormatFilesystems"
           /\ plan_mount_ops(c).phase = "MountFilesystems"
           /\ plan_install_base_ops.phase = "InstallBase"
           /\ plan_install_packages_ops(c).phase = "InstallPackages"
           /\ plan_bootloader_ops(c, u).phase = "InstallBootloader"
           /\ plan_user_ops(c).phase = "CreateUser"
           /\ plan_network_ops(c).phase = "ConfigureSystem"
           /\ plan_locale_ops(c).phase = "ConfigureSystem"
           /\ plan_security_ops(c).phase = "SetupSecurity"
           /\ plan_first_boot_ops(c).phase = "FirstBootSetup"
           /\ plan_cleanup_ops(c).phase = "Cleanup"
<1>1. /\ plan_partition_ops(c).phase = "PartitionDisk"
      /\ plan_encryption_ops(c).phase = "SetupEncryption"
      /\ plan_format_ops(c).phase = "FormatFilesystems"
    BY DEF plan_partition_ops, plan_encryption_ops, plan_format_ops, PhaseOps
<1>2. /\ plan_mount_ops(c).phase = "MountFilesystems"
      /\ plan_install_base_ops.phase = "InstallBase"
      /\ plan_install_packages_ops(c).phase = "InstallPackages"
    BY DEF plan_mount_ops, plan_install_base_ops, plan_install_packages_ops, PhaseOps
<1>3. /\ plan_bootloader_ops(c, u).phase = "InstallBootloader"
      /\ plan_user_ops(c).phase = "CreateUser"
      /\ plan_network_ops(c).phase = "ConfigureSystem"
      /\ plan_locale_ops(c).phase = "ConfigureSystem"
    BY DEF plan_bootloader_ops, plan_user_ops, plan_network_ops, plan_locale_ops, PhaseOps
<1>4. /\ plan_security_ops(c).phase = "SetupSecurity"
      /\ plan_first_boot_ops(c).phase = "FirstBootSetup"
      /\ plan_cleanup_ops(c).phase = "Cleanup"
    BY DEF plan_security_ops, plan_first_boot_ops, plan_cleanup_ops, PhaseOps
<1> QED
    BY <1>1, <1>2, <1>3, <1>4

LEMMA PlanPhases ==
    ASSUME NEW c, NEW u, NEW n \in DOMAIN RsExecutionPlan(c, u)
    PROVE  RsExecutionPlan(c, u)[n].phase \notin {"ValidateConfig", "Complete"}
BY PlannedPhases DEF RsExecutionPlan
-----------------------------------------------------------------------------
\* The record.  A failure that is not recoverable is of the current phase: the
\* record cannot have moved on from it.
Record ==
    /\ phase \in InstallPhase
    /\ completed_phases = SubSeq(AllPhases, 1, index(phase))
    /\ errors \in Seq(InstallError)
    /\ \A n \in DOMAIN errors :
           /\ errors[n].recoverable <=> errors[n].phase \notin NonRecoverable
           /\ ~errors[n].recoverable => errors[n].phase = phase
           /\ index(errors[n].phase) <= index(phase)
    /\ \A n, m \in DOMAIN errors : n < m => index(errors[n].phase) < index(errors[m].phase)

\* The client.  While it runs operations they are of the current phase, which
\* has not failed yet.
Client ==
    /\ plan = RsExecutionPlan(config, uefi)
    /\ i # 0 => i \in DOMAIN plan /\ plan[i].phase = phase
    /\ status = "running" /\ (i # 0 \/ phase = "ValidateConfig") =>
           \A n \in DOMAIN errors : errors[n].phase # phase

RecInv == Record /\ Client

LEMMA RecInit == Init => RecInv
<1> SUFFICES ASSUME Init PROVE RecInv
    OBVIOUS
<1>1. phase = "ValidateConfig" /\ completed_phases = <<>> /\ errors = <<>> /\ i = 0
    BY DEF Init, new
<1>2. phase \in InstallPhase
    BY <1>1 DEF InstallPhase, AllPhases, ToSet
<1>3. completed_phases = SubSeq(AllPhases, 1, index(phase))
    BY <1>1, Numbers DEF AllPhases
<1> QED
    BY <1>1, <1>2, <1>3 DEF RecInv, Record, Client, Init

LEMMA ErrorPhases ==
    ASSUME Record, NEW n \in DOMAIN errors
    PROVE  errors[n].phase \in InstallPhase /\ index(errors[n].phase) \in 0 .. 13
<1>1. errors[n] \in InstallError
    BY DEF Record
<1>2. \A e \in InstallError : e.phase \in InstallPhase
    BY DEF InstallError
<1> QED
    BY <1>1, <1>2, IndexOf

\* A failure of the current phase, the first one of it, keeps the record.
LEMMA Failing ==
    ASSUME Record, \A n \in DOMAIN errors : errors[n].phase # phase, fail_phase
    PROVE  Record'
<1> DEFINE e == [phase |-> phase, recoverable |-> phase \notin NonRecoverable]
<1> USE DEF Record
<1>1. e \in InstallError /\ errors' = Append(errors, e)
    BY DEF InstallError, fail_phase
<1>2. phase' = phase /\ completed_phases' = completed_phases
    BY DEF fail_phase
<1>3. /\ errors' \in Seq(InstallError) /\ DOMAIN errors' = 1 .. Len(errors) + 1
      /\ \A n \in DOMAIN errors : errors'[n] = errors[n]
      /\ errors'[Len(errors) + 1] = e /\ DOMAIN errors = 1 .. Len(errors)
    BY <1>1, AppendProperties
<1>4. \A n \in DOMAIN errors : errors[n].phase \in InstallPhase
    BY ErrorPhases
<1>5. \A n \in DOMAIN errors : index(errors[n].phase) < index(phase)
    <2>1. ASSUME NEW n \in DOMAIN errors PROVE index(errors[n].phase) # index(phase)
        BY <1>4, IndexOf
    <2>2. \A n \in DOMAIN errors : index(errors[n].phase) \in 0 .. 13 /\ index(phase) \in 0 .. 13
        BY <1>4, IndexOf
    <2>3. ASSUME NEW n \in DOMAIN errors PROVE index(errors[n].phase) < index(phase)
        <3>1. index(errors[n].phase) <= index(phase) /\ index(errors[n].phase) # index(phase)
            BY <2>1
        <3>2. PICK a \in Int, b \in Int : a = index(errors[n].phase) /\ b = index(phase)
            BY <2>2, SMTT(30)
        <3>3. a < b
            BY ONLY <3>1, <3>2
        <3> QED
            BY <3>2, <3>3
    <2> QED
        BY <2>3
<1>6. index(phase) \in 0 .. 13
    BY IndexOf
<1>7. ASSUME NEW n \in DOMAIN errors'
      PROVE  /\ errors'[n].recoverable <=> errors'[n].phase \notin NonRecoverable
             /\ ~errors'[n].recoverable => errors'[n].phase = phase
             /\ index(errors'[n].phase) <= index(phase)
    <2>1. CASE n \in DOMAIN errors
        BY <1>3, <2>1
    <2>2. CASE n = Len(errors) + 1
        <3>1. errors'[n] = e
            BY <1>3, <2>2
        <3>2. e.phase = phase /\ (e.recoverable <=> e.phase \notin NonRecoverable)
            OBVIOUS
        <3> QED
            BY <3>1, <3>2, <1>6
    <2> QED
        BY <1>3, <2>1, <2>2
<1>8. ASSUME NEW n \in DOMAIN errors', NEW m \in DOMAIN errors', n < m
      PROVE  index(errors'[n].phase) < index(errors'[m].phase)
    <2>1. CASE m \in DOMAIN errors
        <3>1. n \in DOMAIN errors
            BY <1>3, <1>8, <2>1
        <3> QED
            BY <1>3, <1>8, <2>1, <3>1
    <2>2. CASE m = Len(errors) + 1
        <3>1. n \in DOMAIN errors
            BY <1>3, <1>8, <2>2
        <3>2. errors'[m].phase = phase /\ errors'[n] = errors[n]
            BY <1>3, <2>2, <3>1
        <3> QED
            BY <1>5, <3>1, <3>2
    <2> QED
        BY <1>3, <2>1, <2>2
<1> QED
    BY <1>2, <1>3, <1>7, <1>8

\* So does leaving the current phase, which leads to one that never failed.
LEMMA Advancing ==
    ASSUME Record, Advances, advance_phase
    PROVE  /\ Record' /\ index(phase') = index(phase) + 1 /\ phase' \in InstallPhase
           /\ \A n \in DOMAIN errors' : errors'[n].recoverable /\ errors'[n].phase # phase'
<1> USE DEF Record
<1>1. /\ completed_phases' = Append(completed_phases, phase)
      /\ phase' = next(phase)[1] /\ errors' = errors
    BY DEF advance_phase, CompletedPhase
<1>2. /\ phase' \in InstallPhase /\ index(phase) \in 0 .. 12
      /\ index(phase') = index(phase) + 1
    BY <1>1, NextPhase, IndexOf DEF Advances
<1>4. \A n \in DOMAIN errors : errors[n].recoverable
    <2>1. SUFFICES ASSUME NEW n \in DOMAIN errors, ~errors[n].recoverable PROVE FALSE
        OBVIOUS
    <2>2. errors[n] \in ToSet(errors) /\ errors[n].phase = phase
        BY <2>1 DEF ToSet
    <2> QED
        BY <2>1, <2>2 DEF Advances, Blocked
<1>5. ASSUME NEW n \in DOMAIN errors
      PROVE  errors[n].phase # phase' /\ index(errors[n].phase) <= index(phase')
    <2>1. index(errors[n].phase) \in 0 .. 13 /\ index(errors[n].phase) <= index(phase)
        BY ErrorPhases
    <2>2. index(errors[n].phase) # index(phase')
        BY <1>2, <2>1
    <2> QED
        BY <1>2, <2>1, <2>2, SMTT(30)
<1>6. completed_phases' = SubSeq(AllPhases, 1, index(phase'))
    <2> DEFINE n == index(phase')
    <2>2. n \in 1 .. Len(AllPhases) /\ n - 1 = index(phase)
        BY <1>2, PhaseList
    <2>3. SubSeq(AllPhases, 1, n) = SubSeq(AllPhases, 1, n - 1) \o <<AllPhases[n]>>
        <3>1. 1 \in 1 .. Len(AllPhases)
            BY PhaseList
        <3> QED
            BY <2>2, <3>1, PhaseList, SubSeqRecursiveSecond
    <2>4. AllPhases[n] = phase
        BY <2>2, IndexOf
    <2>5. completed_phases \in Seq(InstallPhase) /\ phase \in InstallPhase
        <3>1. \A m \in 1 .. n - 1 : AllPhases[m] \in InstallPhase
            <4>1. n \in 1 .. 14
                BY <2>2, PhaseList
            <4> QED
                BY <4>1, PhaseList
        <3>2. SubSeq(AllPhases, 1, n - 1) \in Seq(InstallPhase)
            BY <2>2, <3>1, SubSeqProperties
        <3> QED
            BY <2>2, <3>2
    <2>6. Append(completed_phases, phase) = completed_phases \o <<phase>>
        BY <2>5, AppendIsConcat
    <2> QED
        BY <1>1, <2>2, <2>3, <2>4, <2>6
<1> QED
    BY <1>1, <1>2, <1>4, <1>5, <1>6

\* The client goes to an entry of the phase it is given, if to any.
LEMMA Going ==
    ASSUME plan = RsExecutionPlan(config, uefi), NEW p, NEW n, GoTo(p, n)
    PROVE  i' # 0 => i' \in DOMAIN plan /\ plan[i'].phase = p
<1> SUFFICES ASSUME i' # 0 PROVE i' \in DOMAIN plan /\ plan[i'].phase = p
    OBVIOUS
<1> DEFINE S == Entries(p, n)
<1>1. S # {} /\ i' = Min(S)
    BY DEF GoTo
<1>2. DOMAIN plan = 1 .. 13
    BY DEF RsExecutionPlan
<1>3. S \subseteq Nat
    BY <1>2 DEF Entries
<1>4. PICK x \in S : \A y \in S : ~(<<y, x>> \in OpToRel(<, Nat))
    BY <1>1, <1>3, WFMin, NatLessThanWellFounded
<1>5. ASSUME NEW y \in S PROVE x <= y
    <2>1. x \in Nat /\ y \in Nat
        BY <1>3
    <2>2. ASSUME y < x PROVE FALSE
        <3>1. <<y, x>> \in Nat \X Nat /\ <<y, x>>[1] < <<y, x>>[2]
            BY <2>1, <2>2
        <3> QED
            BY <1>4, <3>1 DEF OpToRel
    <2> QED
        BY <2>1, <2>2
<1>6. Min(S) \in S
    BY <1>5 DEF Min
<1> QED
    BY <1>1, <1>6 DEF Entries

\* Operations run in a phase that a planner plans for.
LEMMA PhaseOfEntry ==
    ASSUME Client, i # 0
    PROVE  phase \notin {"ValidateConfig", "Complete"}
BY PlanPhases DEF Client

LEMMA SucceedKeeps == RecInv /\ Succeed => RecInv'
<1> SUFFICES ASSUME RecInv, Succeed PROVE RecInv'
    OBVIOUS
<1>1. Record'
    BY DEF RecInv, Record, Succeed, inst
<1>2. Client'
    BY DEF RecInv, Client, Succeed, inst, given
<1> QED
    BY <1>1, <1>2 DEF RecInv

LEMMA FailKeeps == RecInv /\ Running /\ Fail => RecInv'
<1> SUFFICES ASSUME RecInv, Running, Fail PROVE RecInv'
    OBVIOUS
<1>1. CASE ~operation.fatal
    BY <1>1, SucceedKeeps DEF Fail
<1>2. CASE operation.fatal
    <2>1. fail_phase /\ UNCHANGED given
        BY <1>2 DEF Fail
    <2>2. Record'
        BY <2>1, Failing DEF RecInv, Client, Running
    <2>3. phase' # "ValidateConfig"
        BY <2>1, PhaseOfEntry DEF RecInv, Running, fail_phase
    <2>4. Client'
        <3>1. CASE i' = 0 /\ UNCHANGED status
            BY <2>1, <2>3, <3>1 DEF RecInv, Client, given
        <3>2. CASE status' = "stopped" /\ i' = i
            BY <2>1, <3>2 DEF RecInv, Client, given, fail_phase
        <3> QED
            BY <1>2, <3>1, <3>2 DEF Fail
    <2> QED
        BY <2>2, <2>4 DEF RecInv
<1> QED
    BY <1>1, <1>2

LEMMA RecStep == RecInv /\ [Next]_vars => RecInv'
<1> SUFFICES ASSUME RecInv, [Next]_vars PROVE RecInv'
    OBVIOUS
<1> USE DEF RecInv
<1>1. CASE Validate
    <2>1. phase = "ValidateConfig" /\ status = "running" /\ UNCHANGED given
        BY <1>1 DEF Validate
    <2>2. i = 0
        BY <2>1, PhaseOfEntry
    <2>3. \A n \in DOMAIN errors : errors[n].phase # phase
        BY <2>1 DEF Client
    <2>4. CASE ~Accepted(config)
        <3>1. fail_phase /\ status' = "stopped" /\ i' = i
            BY <1>1, <2>4 DEF Validate
        <3>2. Client'
            BY <2>1, <2>2, <3>1 DEF Client, given
        <3> QED
            BY <2>3, <3>1, <3>2, Failing
    <2>5. CASE Accepted(config) /\ client = Asks
        <3>1. status' = "answered" /\ UNCHANGED inst /\ i' = i
            BY <1>1, <2>5 DEF Validate
        <3>2. Client'
            BY <2>1, <2>2, <3>1 DEF Client, given
        <3> QED
            BY <3>1, <3>2 DEF Record, inst
    <2>6. CASE Accepted(config) /\ client # Asks
        <3>1. advance_phase /\ GoTo("PartitionDisk", 0) /\ UNCHANGED status
            BY <1>1, <2>6 DEF Validate
        <3>2. ~Blocked
            BY <2>3 DEF Blocked, ToSet
        <3>3. next(phase) # None
            BY <2>1 DEF next, None, Some
        <3>4. Advances
            BY <3>2, <3>3 DEF Advances
        <3>5. /\ Record' /\ index(phase') = 1 /\ phase' \in InstallPhase
              /\ \A n \in DOMAIN errors' : errors'[n].phase # phase'
            BY <2>1, <3>1, <3>4, Advancing, Numbers
        <3>6. phase' = "PartitionDisk"
            BY <3>5, IndexOf DEF AllPhases
        <3>7. Client'
            BY <2>1, <3>1, <3>5, <3>6, Going DEF Client, given
        <3> QED
            BY <3>5, <3>7
    <2> QED
        BY <2>4, <2>5, <2>6
<1>2. CASE OpSucceeds
    BY <1>2, SucceedKeeps DEF OpSucceeds
<1>3. CASE OpFailsLate
    BY <1>3, FailKeeps DEF OpFailsLate
<1>4. CASE OpFails
    BY <1>4, FailKeeps DEF OpFails
<1>5. CASE NextEntry
    <2>1. i # 0 /\ GoTo(phase, i) /\ UNCHANGED <<given, inst, status>>
        BY <1>5 DEF NextEntry
    <2>2. Record'
        BY <2>1 DEF Record, inst
    <2>3. Client'
        BY <2>1, Going DEF Client, given, inst
    <2> QED
        BY <2>2, <2>3
<1>6. CASE Proceed
    <2>1. phase # "ValidateConfig" /\ advance_phase /\ UNCHANGED given
        BY <1>6 DEF Proceed
    <2>2. CASE Advances
        <3>1. GoTo(next(phase)[1], 0) /\ phase' = next(phase)[1]
            BY <1>6, <2>1, <2>2 DEF Proceed, advance_phase
        <3>2. Record' /\ \A n \in DOMAIN errors' : errors'[n].phase # phase'
            BY <2>1, <2>2, Advancing
        <3>3. Client'
            BY <2>1, <3>1, <3>2, Going DEF Client, given
        <3> QED
            BY <3>2, <3>3
    <2>3. CASE ~Advances
        <3>1. UNCHANGED inst /\ i' = i
            BY <1>6, <2>1, <2>3 DEF Proceed, advance_phase
        <3>2. status' # "running"
            BY <1>6, <2>3 DEF Proceed
        <3>3. Record' /\ Client'
            BY <2>1, <3>1, <3>2 DEF Record, Client, inst, given
        <3> QED
            BY <3>3
    <2> QED
        BY <2>2, <2>3
<1>7. CASE Exited \/ UNCHANGED vars
    BY <1>7 DEF Exited, vars, given, inst, Record, Client
<1> QED
    BY <1>1, <1>2, <1>3, <1>4, <1>5, <1>6, <1>7 DEF Next

LEMMA RecAlways == Spec => []RecInv
BY RecInit, RecStep, PTL DEF Spec

\* For every configuration and client, the phases that advance_phase counts as
\* completed are those before the current one, in the order of ALL.
THEOREM CompletedPrefix == Spec => []CompletedIsPrefix
<1>1. RecInv => CompletedIsPrefix
    BY DEF RecInv, Record, CompletedIsPrefix
<1> QED
    BY <1>1, RecAlways, PTL

\* However often a client goes on after a failure, fail_phase attributes no two
\* failures to one phase and none to a phase that is yet to come.
THEOREM FailuresInOrder == Spec => []ErrorsInOrder
<1>1. RecInv => ErrorsInOrder
    BY DEF RecInv, Record, ErrorsInOrder
<1> QED
    BY <1>1, RecAlways, PTL
-----------------------------------------------------------------------------
\* A failure that is final is of the phase that the record is in; then the
\* client runs no operation.
LEMMA FatalIsCurrent ==
    ASSUME RecInv, NEW e \in ToSet(errors), ~e.recoverable
    PROVE  /\ e.phase = phase /\ Blocked /\ ~Advances
           /\ status = "running" => i = 0 /\ phase # "ValidateConfig"
<1>1. PICK n \in DOMAIN errors : errors[n] = e
    BY DEF ToSet
<1>2. e.phase = phase
    BY <1>1 DEF RecInv, Record
<1>3. Blocked /\ ~Advances
    BY <1>2 DEF Blocked, Advances
<1>4. status = "running" => i = 0 /\ phase # "ValidateConfig"
    BY <1>1, <1>2 DEF RecInv, Client
<1> QED
    BY <1>2, <1>3, <1>4

\* After a failure that fail_phase records as not recoverable the record stays
\* in its phase and the machine as it is, whatever client goes on.
THEOREM FatalIsFinal == Spec => NothingAfterFatal
<1>1. ASSUME RecInv, [Next]_vars, \E e \in ToSet(errors) : ~e.recoverable
      PROVE  UNCHANGED <<phase, machine>>
    <2>1. PICK e \in ToSet(errors) : ~e.recoverable
        BY <1>1
    <2>2. ~Advances /\ (status = "running" => i = 0 /\ phase # "ValidateConfig")
        BY <1>1, <2>1, FatalIsCurrent
    <2>3. CASE Validate
        BY <2>2, <2>3 DEF Validate
    <2>4. CASE OpSucceeds \/ OpFailsLate \/ OpFails
        BY <2>2, <2>4 DEF OpSucceeds, OpFailsLate, OpFails, Running
    <2>5. CASE NextEntry
        BY <2>2, <2>5 DEF NextEntry, EntryOver
    <2>6. CASE Proceed
        BY <2>2, <2>6 DEF Proceed, advance_phase, inst
    <2>7. CASE Exited \/ UNCHANGED vars
        BY <2>7 DEF Exited, vars, inst
    <2> QED
        BY <1>1, <2>3, <2>4, <2>5, <2>6, <2>7 DEF Next
<1>2. RecInv /\ [Next]_vars =>
          [(\E e \in ToSet(errors) : ~e.recoverable) => UNCHANGED <<phase, machine>>]_vars
    BY <1>1
<1> QED
    BY <1>2, RecAlways, PTL DEF Spec, NothingAfterFatal
-----------------------------------------------------------------------------
\* The ladder's view of the record.
rung == index(phase)
failed == {index(e.phase) : e \in ToSet(errors)}
FatalRungs == {PARTITION, ENCRYPTION, FORMAT, BASE, BOOTLOADER}

\* The ladder is broken exactly when advance_phase is blocked.
LEMMA BrokenIsBlocked ==
    ASSUME Record
    PROVE  failed \cap FatalRungs # {} <=> Blocked
<1>1. ASSUME NEW e \in ToSet(errors)
      PROVE  /\ index(e.phase) \in FatalRungs <=> ~e.recoverable
             /\ ~e.recoverable => e.phase = phase
    <2>1. PICK n \in DOMAIN errors : errors[n] = e
        BY DEF ToSet
    <2>2. e.phase \in InstallPhase
        BY <2>1, ErrorPhases
    <2> QED
        BY <2>1, <2>2, FatalNumbers DEF Record, FatalRungs
<1>2. failed \cap FatalRungs # {} <=> \E e \in ToSet(errors) : ~e.recoverable
    BY <1>1 DEF failed
<1> QED
    BY <1>1, <1>2 DEF Blocked

\* What a failure adds, if the phase has not failed.
LEMMA StumbleStep ==
    ASSUME RecInv, fail_phase, \A n \in DOMAIN errors : errors[n].phase # phase,
           phase # "Complete"
    PROVE  L!Stumble
<1>1. failed \cap FatalRungs = {}
    <2>1. ~Blocked
        <3>1. SUFFICES ASSUME NEW e \in ToSet(errors), e.phase = phase PROVE FALSE
            BY DEF Blocked
        <3> QED
            BY <3>1 DEF ToSet
    <2> QED
        BY <2>1, BrokenIsBlocked DEF RecInv
<1>2. phase \in InstallPhase
    BY DEF RecInv, Record
<1>3. rung \notin failed
    <2>1. SUFFICES ASSUME NEW e \in ToSet(errors), index(e.phase) = index(phase) PROVE FALSE
        BY DEF rung, failed
    <2>2. PICK n \in DOMAIN errors : errors[n] = e
        BY DEF ToSet
    <2>3. e.phase = phase
        BY <1>2, <2>1, <2>2, ErrorPhases, IndexOf DEF RecInv
    <2> QED
        BY <2>2, <2>3
<1>4. rung # COMPLETE
    BY <1>2, IndexOf, LastPhase DEF rung, COMPLETE, AllPhases
<1>5. failed' = failed \cup {rung}
    <2> DEFINE e == [phase |-> phase, recoverable |-> phase \notin NonRecoverable]
    <2>1. e \in InstallError /\ errors \in Seq(InstallError) /\ errors' = Append(errors, e)
        BY <1>2 DEF InstallError, fail_phase, RecInv, Record
    <2>2. ToSet(errors') = ToSet(errors) \cup {e}
        BY <2>1, AppendProperties DEF ToSet
    <2>3. e.phase = phase
        OBVIOUS
    <2> HIDE DEF e
    <2> QED
        BY <2>2, <2>3 DEF failed, rung
<1>6. rung' = rung
    BY DEF rung, fail_phase
<1> QED
    BY <1>1, <1>3, <1>4, <1>5, <1>6 DEF L!Stumble, L!Broken, rung, failed, FatalRungs

LEMMA ClimbStep ==
    ASSUME RecInv, advance_phase
    PROVE  IF Advances THEN L!Climb ELSE UNCHANGED L!vars
<1>1. CASE Advances
    <2>1. failed \cap FatalRungs = {}
        BY <1>1, BrokenIsBlocked DEF RecInv, Advances
    <2>2. rung' = rung + 1 /\ rung < COMPLETE
        BY <1>1, Advancing, NextPhase DEF RecInv, Record, rung, COMPLETE, Advances
    <2>3. failed' = failed
        BY <1>1 DEF advance_phase, failed
    <2> QED
        BY <1>1, <2>1, <2>2, <2>3 DEF L!Climb, L!Broken, rung, failed, FatalRungs
<1>2. CASE ~Advances
    BY <1>2 DEF advance_phase, inst, L!vars
<1> QED
    BY <1>1, <1>2

LEMMA FailureStep ==
    ASSUME RecInv, Running, Fail
    PROVE  L!Stumble \/ UNCHANGED L!vars
<1>1. CASE ~operation.fatal
    BY <1>1 DEF Fail, Succeed, inst, L!vars
<1>2. CASE operation.fatal
    <2>1. fail_phase /\ phase # "Complete"
        BY <1>2, PhaseOfEntry DEF Fail, RecInv, Running
    <2>2. \A n \in DOMAIN errors : errors[n].phase # phase
        BY DEF RecInv, Client, Running
    <2> QED
        BY <2>1, <2>2, StumbleStep
<1> QED
    BY <1>1, <1>2

\* The record implements the ladder: for every configuration and client a step
\* of the program climbs one rung, adds a failure to one, or leaves it alone.
THEOREM ImplementsLadder == Spec => ClimbsLadder
<1>1. Init => L!Init
    <2> SUFFICES ASSUME Init PROVE L!Init
        OBVIOUS
    <2>1. phase = "ValidateConfig" /\ errors = <<>>
        BY DEF Init, new
    <2>2. ToSet(errors) = {}
        BY <2>1 DEF ToSet
    <2> QED
        BY <2>1, <2>2, Numbers DEF L!Init
<1>2. ASSUME RecInv, [Next]_vars PROVE [L!Next]_(L!vars)
    <2>1. CASE Validate
        <3>1. status = "running" /\ phase = "ValidateConfig"
            BY <2>1 DEF Validate
        <3>2. \A n \in DOMAIN errors : errors[n].phase # phase
            BY <1>2, <3>1 DEF RecInv, Client
        <3>3. CASE fail_phase
            BY <1>2, <3>1, <3>2, <3>3, StumbleStep DEF L!Next
        <3>4. CASE advance_phase
            BY <1>2, <3>4, ClimbStep DEF L!Next
        <3>5. CASE UNCHANGED inst
            BY <3>5 DEF inst, L!vars
        <3> QED
            BY <2>1, <3>3, <3>4, <3>5 DEF Validate
    <2>2. CASE OpSucceeds
        BY <2>2 DEF OpSucceeds, Succeed, inst, L!vars
    <2>3. CASE OpFailsLate \/ OpFails
        BY <1>2, <2>3, FailureStep DEF OpFailsLate, OpFails, L!Next
    <2>4. CASE NextEntry
        BY <2>4 DEF NextEntry, inst, L!vars
    <2>5. CASE Proceed
        BY <1>2, <2>5, ClimbStep DEF Proceed, L!Next
    <2>6. CASE Exited \/ UNCHANGED vars
        BY <2>6 DEF Exited, vars, inst, L!vars
    <2> QED
        BY <1>2, <2>1, <2>2, <2>3, <2>4, <2>5, <2>6 DEF Next
<1> QED
    BY <1>1, <1>2, RecAlways, PTL DEF Spec, ClimbsLadder, L!Spec
-----------------------------------------------------------------------------
(* Verdicts.  What the two programs answer is the head of a list of        *)
(* refusals; lists with the same head stay so when such are put behind.    *)
Refusals == {
    "no device", "device not in /dev", "device characters", "device suffix",
    "no user", "user is root", "user too long", "user start",
    "user characters", "no host", "host too long", "host hyphen",
    "host dot", "host characters", "dangerous parameter",
    "parameter characters", "no label", "label too long",
    "label characters", "full name too long", "full name characters",
    "group length", "group characters", "fill not last", "too many for MBR",
    "no root", "no partitions", "no static ip"}
Words(s) == s \in Seq(Refusals)
SameHead(s, t) ==
    /\ Words(s) /\ Words(t) /\ (s = <<>> <=> t = <<>>)
    /\ s # <<>> => Head(s) = Head(t)

LEMMA HeadOfJoined ==
    ASSUME NEW s, NEW t, Words(s), Words(t)
    PROVE  /\ Words(s \o t)
           /\ s # <<>> => s \o t # <<>> /\ Head(s \o t) = Head(s)
           /\ s = <<>> => s \o t = t
<1>1. Words(s \o t)
    BY ConcatProperties DEF Words
<1>2. ASSUME s # <<>> PROVE s \o t # <<>> /\ Head(s \o t) = Head(s)
    <2>1. PICK n \in Nat, l \in Nat : n = Len(s) /\ l = Len(t)
        BY DEF Words
    <2>2. Len(s \o t) = n + l /\ IsJoined(s \o t, s, t, n, l)
        BY <2>1, JoinedAt DEF Words
    <2>3. 1 \in 1 .. n /\ n + l # 0
        BY <1>2, <2>1 DEF Words
    <2>4. (s \o t)[1] = s[1]
        BY <2>2, <2>3 DEF IsJoined
    <2>5. s \o t # <<>>
        BY <2>2, <2>3
    <2> QED
        BY <1>1, <1>2, <2>4, <2>5 DEF Words
<1> QED
    BY <1>1, <1>2, ConcatEmptySeq DEF Words

Regroups(s, t, u) == (s \o t) \o u = s \o (t \o u)

LEMMA Regrouped ==
    ASSUME NEW s, NEW t, NEW u, Words(s), Words(t), Words(u)
    PROVE  Regroups(s, t, u)
<1>1. s \in Seq(Refusals) /\ t \in Seq(Refusals) /\ u \in Seq(Refusals)
    BY DEF Words
<1> QED
    BY ONLY <1>1, ConcatAssociative DEF Regroups

LEMMA SameHeadJoined ==
    ASSUME NEW s, NEW t, NEW u, NEW v, SameHead(s, t), SameHead(u, v)
    PROVE  SameHead(s \o u, t \o v)
<1>1. Words(s) /\ Words(t) /\ Words(u) /\ Words(v)
    BY DEF SameHead
<1>2. CASE s = <<>>
    <2>1. t = <<>> /\ s \o u = u /\ t \o v = v
        BY <1>1, <1>2, HeadOfJoined DEF SameHead
    <2> QED
        BY <2>1
<1>3. CASE s # <<>>
    <2>1. t # <<>> /\ Head(s) = Head(t)
        BY <1>3 DEF SameHead
    <2>2. /\ Words(s \o u) /\ s \o u # <<>> /\ Head(s \o u) = Head(s)
          /\ Words(t \o v) /\ t \o v # <<>> /\ Head(t \o v) = Head(t)
        BY <1>1, <1>3, <2>1, HeadOfJoined
    <2> QED
        BY <2>1, <2>2 DEF SameHead
<1> QED
    BY <1>2, <1>3

\* t is refused for nothing more.
NoMore(s, t) == Words(s) /\ Words(t) /\ (s = <<>> => t = <<>>)

LEMMA NoMoreJoined ==
    ASSUME NEW s, NEW t, NEW u, NEW v, NoMore(s, t), NoMore(u, v)
    PROVE  NoMore(s \o u, t \o v)
<1>1. Words(s) /\ Words(t) /\ Words(u) /\ Words(v)
    BY DEF NoMore
<1>2. Words(s \o u) /\ Words(t \o v)
    BY <1>1, HeadOfJoined
<1>3. CASE s = <<>>
    <2>1. t = <<>> /\ s \o u = u /\ t \o v = v
        BY <1>1, <1>3, HeadOfJoined DEF NoMore
    <2> QED
        BY <2>1
<1>4. CASE s # <<>>
    <2>1. s \o u # <<>>
        BY <1>1, <1>4, HeadOfJoined
    <2> QED
        BY <1>2, <2>1 DEF NoMore
<1> QED
    BY <1>3, <1>4

LEMMA SameHeadSelf ==
    ASSUME NEW s, Words(s)
    PROVE  SameHead(s, s)
BY DEF SameHead

LEMMA PrefixAt ==
    ASSUME NEW S, NEW p \in Seq(S), NEW s \in Seq(S)
    PROVE  IsPrefix(p, s) <=> Len(p) <= Len(s) /\ \A m \in 1 .. Len(p) : p[m] = s[m]
<1>1. PICK n \in Nat, l \in Nat : n = Len(p) /\ l = Len(s)
    OBVIOUS
<1>2. SubSeq(p, 1, n) = p
    BY <1>1, SubSeqFull
<1>3. PICK t : t = SubSeq(s, 1, n)
    OBVIOUS
<1>4. n <= l => t \in Seq(S) /\ Len(t) = n /\ \A m \in 1 .. n : t[m] = s[m]
    <2> SUFFICES ASSUME n <= l
                 PROVE  t \in Seq(S) /\ Len(t) = n /\ \A m \in 1 .. n : t[m] = s[m]
        OBVIOUS
    <2>1. \A m \in 1 .. n : s[m] \in S
        BY <1>1
    <2>2. /\ t \in Seq(S) /\ Len(t) = (IF 1 <= n THEN n - 1 + 1 ELSE 0)
          /\ \A m \in 1 .. n - 1 + 1 : t[m] = s[1 + m - 1]
        BY <1>3, <2>1, SubSeqProperties
    <2>3. n - 1 + 1 = n /\ \A m \in 1 .. n : 1 + m - 1 = m
        OBVIOUS
    <2>4. Len(t) = n
        BY <2>2
    <2> QED
        BY <2>2, <2>3, <2>4
<1>5. ASSUME n <= l, \A m \in 1 .. n : p[m] = s[m] PROVE t = p
    BY <1>1, <1>4, <1>5, SeqEqual
<1> QED
    BY <1>1, <1>2, <1>3, <1>4, <1>5 DEF IsPrefix

LEMMA OneWord ==
    Words(<<>>) /\ \A why \in Refusals : Words(<<why>>) /\ <<why>> # <<>>
BY EmptySeq, ListOfOne DEF Words

\* The checks of one text, one by one.
LEMMA ParamAlike ==
    ASSUME NEW p
    PROVE  Words(ParamErrors(p)) /\ PortParam(p) = ParamErrors(p)
<1>1. /\ Words(Bail(Has(p, {"single", "init="}), "dangerous parameter"))
      /\ Words(Bail(Has(p, {";"}), "parameter characters"))
    BY OneWord DEF Bail, Refusals
<1>2. Words(ParamErrors(p))
    BY <1>1, HeadOfJoined DEF ParamErrors
<1>3. /\ {"init=", "single"} \cap ToSet(p) # {} <=> Has(p, {"single", "init="})
      /\ _has_kparam_dangerous(p) <=> Has(p, {";"})
    BY DEF Has, _has_kparam_dangerous
<1> QED
    BY <1>2, <1>3 DEF ParamErrors, PortParam, Bail, Refuse

LEMMA LabelAlike ==
    ASSUME NEW label
    PROVE  /\ Words(LabelErrors(label))
           /\ \A part : part.label = label => PortLabel(part) = LabelErrors(label)
<1> DEFINE bad == ~Only(label, Alnum \cup Hyphens \cup {"_"})
<1>1. /\ Words(Bail(label = <<>>, "no label"))
      /\ Words(Bail(Len(label) > Limits.label, "label too long"))
      /\ Words(Bail(bad, "label characters"))
    BY OneWord DEF Bail, Refusals
<1>2. Words(LabelErrors(label))
    BY <1>1, HeadOfJoined DEF LabelErrors
<1>3. ~_all_label_chars(label) <=> bad
    BY DEF Only, _all_label_chars
<1> QED
    BY <1>2, <1>3 DEF LabelErrors, PortLabel, Bail, Refuse

LEMMA GroupAlike ==
    ASSUME NEW g \in Text
    PROVE  Words(GroupErrors(g)) /\ PortGroup(g) = GroupErrors(g)
<1> DEFINE bad == ~Only(g, NameChars)
           long == g = <<>> \/ Len(g) > Limits.group
<1>1. Words(Bail(long, "group length")) /\ Words(Bail(bad, "group characters"))
    BY OneWord DEF Bail, Refusals
<1>2. Words(GroupErrors(g))
    BY <1>1, HeadOfJoined DEF GroupErrors
<1>3. ~_all_lname_chars(g) <=> bad
    BY DEF Only, _all_lname_chars, NameChars
<1>4. Len(g) \notin 1 .. Limits.group <=> long
    <2>1. Limits.group \in Nat \ {0} /\ Len(g) \in Nat
        BY LimitTypes DEF Text
    <2>2. g = <<>> <=> Len(g) = 0
        BY DEF Text
    <2> QED
        BY <2>1, <2>2
<1> QED
    BY <1>2, <1>3, <1>4 DEF GroupErrors, PortGroup, Bail, Refuse

LEMMA FullNameAlike ==
    ASSUME NEW name
    PROVE  /\ Words(FullNameErrors(name))
           /\ FullNameErrors(name) =
                  Refuse(Len(name) > Limits.name, "full name too long")
                  \o Refuse(_has_passwd_dangerous(name), "full name characters")
<1>1. /\ Words(Bail(Len(name) > Limits.name, "full name too long"))
      /\ Words(Bail(Has(name, {":", ";", "nul"}), "full name characters"))
    BY OneWord DEF Bail, Refusals
<1>2. Words(FullNameErrors(name))
    BY <1>1, HeadOfJoined DEF FullNameErrors
<1>3. _has_passwd_dangerous(name) <=> Has(name, {":", ";", "nul"})
    BY DEF Has, _has_passwd_dangerous
<1> QED
    BY <1>2, <1>3 DEF FullNameErrors, Bail, Refuse

LEMMA UserAlike ==
    ASSUME NEW name \in Text
    PROVE  /\ Words(UserErrors(name)) /\ Words(PortUser(name))
           /\ name # <<>> => PortUser(name) = UserErrors(name)
<1> DEFINE bad == ~Only(name, NameChars)
           start == ~StartsWith(name, Lower \cup {"agnos-root"})
<1>1. /\ Words(Bail(name = <<>>, "no user")) /\ Words(Bail(name = <<"root">>, "user is root"))
      /\ Words(Bail(Len(name) > Limits.user, "user too long"))
      /\ Words(Bail(start, "user start")) /\ Words(Bail(bad, "user characters"))
      /\ Words(<<>>)
    BY OneWord DEF Bail, Refusals
<1>2. Words(UserErrors(name))
    BY <1>1, HeadOfJoined, ZenonT(30) DEF UserErrors
<1>3. ~_all_lname_chars(name) <=> bad
    BY DEF Only, _all_lname_chars, NameChars
<1> DEFINE four == Bail(name = <<"root">>, "user is root")
                   \o Bail(Len(name) > Limits.user, "user too long")
                   \o Bail(start, "user start") \o Bail(bad, "user characters")
<1>4. Words(four)
    BY <1>1, HeadOfJoined
<1>5. ASSUME name # <<>> PROVE PortUser(name) = four /\ UserErrors(name) = four
    <2>1. FirstOf(name) \notin Lower \cup {"agnos-root"} <=> start
        BY <1>5 DEF FirstOf, StartsWith, Text
    <2>2. PortUser(name) = four
        BY <1>3, <1>5, <2>1 DEF PortUser, Refuse, Bail
    <2>3. Bail(name = <<>>, "no user") = <<>>
        BY <1>5 DEF Bail
    <2>4. ASSUME NEW o, o = <<>>, NEW r, Words(r) PROVE o \o r = r
        BY <2>4, OneWord, HeadOfJoined
    <2>5. UserErrors(name) = four
        BY <1>1, <2>3, <2>4 DEF UserErrors
    <2> QED
        BY <2>2, <2>5
<1>6. name = <<>> => PortUser(name) = <<>>
    BY DEF PortUser
<1> QED
    BY <1>1, <1>2, <1>4, <1>5, <1>6

LEMMA HostAlike ==
    ASSUME NEW host \in Text
    PROVE  Words(HostErrors(host)) /\ PortHost(host) = HostErrors(host)
<1> DEFINE bad == ~Only(host, Alnum \cup Hyphens)
           hyphen == StartsWith(host, {"-"}) \/ EndsWith(host, {"-"})
           dot == StartsWith(host, {"."})
           B1 == Bail(host = <<>>, "no host")
           B2 == Bail(Len(host) > Limits.host, "host too long")
           B3 == Bail(hyphen, "host hyphen")
           B4 == Bail(dot, "host dot")
           B5 == Bail(bad, "host characters")
<1>1. Words(B1) /\ Words(B2) /\ Words(B3) /\ Words(B4) /\ Words(B5)
    BY OneWord DEF Bail, Refusals
<1>2. HostErrors(host) = B1 \o B2 \o B3 \o B4 \o B5
    BY DEF HostErrors
<1>3. host # <<>> => B1 = <<>> /\ PortHost(host) = B2 \o B3 \o B4 \o B5
    <2> SUFFICES ASSUME host # <<>> PROVE B1 = <<>> /\ PortHost(host) = B2 \o B3 \o B4 \o B5
        OBVIOUS
    <2>1. /\ Head(host) = FirstOf(host) /\ Last(host) = LastOf(host)
          /\ FirstOf(host) = host[1]
        BY DEF FirstOf, LastOf, Last, Text
    <2>2. "-" \in {FirstOf(host), LastOf(host)} <=> hyphen
        BY <2>1 DEF StartsWith, EndsWith
    <2>3. FirstOf(host) = "." <=> dot
        BY <2>1 DEF StartsWith
    <2>4. ~_all_hostname_chars(host) <=> bad
        BY DEF Only, _all_hostname_chars
    <2> HIDE DEF hyphen, dot, bad
    <2> QED
        BY <2>2, <2>3, <2>4 DEF PortHost, Bail, Refuse
<1>4. host = <<>> => B1 = <<"no host">> /\ B2 = <<>> /\ B3 = <<>> /\ B4 = <<>> /\ B5 = <<>>
    <2>1. Limits.host \in Nat \ {0}
        BY LimitTypes
    <2> QED
        BY <2>1 DEF Bail, StartsWith, EndsWith, Only, ToSet
<1>5. host = <<>> => PortHost(host) = <<"no host">>
    BY DEF PortHost
<1> HIDE DEF B1, B2, B3, B4, B5
<1>6. Words(B1 \o B2 \o B3 \o B4 \o B5)
    BY <1>1, HeadOfJoined
<1>7. CASE host # <<>>
    <2>1. <<>> \o B2 = B2
        BY <1>1, OneWord, HeadOfJoined
    <2> QED
        BY <1>2, <1>3, <1>6, <1>7, <2>1
<1>8. CASE host = <<>>
    <2>1. \A s : Words(s) => s \o <<>> = s
        BY ConcatEmptySeq DEF Words
    <2> QED
        BY <1>1, <1>2, <1>4, <1>5, <1>6, <1>8, <2>1
<1> QED
    BY <1>7, <1>8

\* The port has two checks on the characters of a device that give one answer;
\* without the prefix asked for, only these are left.
LEMMA DeviceAlike ==
    ASSUME NEW dev \in Text
    PROVE  /\ SameHead(PortDevice("shell", dev), DeviceErrors(dev))
           /\ Words(PortDevice("native-file", dev))
           /\ PortDevice("shell", dev) = <<>> => PortDevice("native-file", dev) = <<>>
<1> DEFINE dots == DotDot(dev)
           special == Has(dev, {" ", ";"})
           away == ~StartsWith(dev, {"/dev/"})
           bad == Len(dev) < 2 \/ ~Only(Tail(dev), Alnum \cup Hyphens \cup {"/", "_"})
           B1 == Bail(dev = <<>>, "no device")
           B2 == Bail(away, "device not in /dev")
           B3 == Bail(dots \/ special, "device characters")
           B4 == Bail(bad, "device suffix")
           C1 == Bail(dots, "device characters")
           C2 == Bail(special, "device characters")
<1>1. Words(B1) /\ Words(B2) /\ Words(B3) /\ Words(B4) /\ Words(C1) /\ Words(C2)
    BY OneWord DEF Bail, Refusals
<1>2. DeviceErrors(dev) = B1 \o B2 \o B3 \o B4
    BY DEF DeviceErrors
<1>3. ~IsPrefix(<<"/dev/">>, dev) <=> away
    <2>1. "/dev/" \in Pieces /\ dev \in Seq(Pieces)
        BY DEF Pieces, Text
    <2>2. IsPrefix(<<"/dev/">>, dev) <=> 1 <= Len(dev) /\ \A m \in 1 .. 1 : "/dev/" = dev[m]
        <3>1. PICK p \in Seq(Pieces) : p = <<"/dev/">> /\ Len(p) = 1 /\ p[1] = "/dev/"
            BY <2>1, ListOfOne
        <3>2. IsPrefix(p, dev) <=> Len(p) <= Len(dev) /\ \A m \in 1 .. Len(p) : p[m] = dev[m]
            BY <2>1, PrefixAt
        <3> QED
            BY <3>1, <3>2
    <2>3. \A m \in 1 .. 1 : m = 1
        OBVIOUS
    <2>4. dev # <<>> <=> 1 <= Len(dev)
        BY <2>1
    <2>5. dev # <<>> => Head(dev) = dev[1]
        BY <2>1
    <2> QED
        BY <2>2, <2>3, <2>4, <2>5 DEF StartsWith
<1>4. (\E n \in DOMAIN dev : IsPrefix(<<".", ".">>, SubSeq(dev, n, Len(dev)))) <=> dots
    <2>1. PICK l \in Nat : l = Len(dev) /\ DOMAIN dev = 1 .. l
        BY DEF Text
    <2>2. ASSUME NEW n \in 1 .. l
          PROVE  IsPrefix(<<".", ".">>, SubSeq(dev, n, l))
                     <=> n < l /\ dev[n] = "." /\ dev[n + 1] = "."
        <3>1. PICK t : t = SubSeq(dev, n, l)
            OBVIOUS
        <3>2. \A m \in n .. l : dev[m] \in Pieces
            BY <2>1 DEF Text
        <3>3. t \in Seq(Pieces) /\ Len(t) = l - n + 1 /\ \A m \in 1 .. l - n + 1 : t[m] = dev[n + m - 1]
            BY <3>1, <3>2, SubSeqProperties
        <3>4. "." \in Pieces
            BY DEF Pieces
        <3>5. PICK p \in Seq(Pieces) : p = <<".", ".">> /\ Len(p) = 2 /\ p[1] = "." /\ p[2] = "."
            BY <3>4, ListOfTwo, ZenonT(30)
        <3>6. IsPrefix(p, t) <=> 2 <= Len(t) /\ \A m \in 1 .. 2 : p[m] = t[m]
            <4>1. IsPrefix(p, t) <=> Len(p) <= Len(t) /\ \A m \in 1 .. Len(p) : p[m] = t[m]
                BY <3>3, PrefixAt
            <4> QED
                BY <3>5, <4>1
        <3>7. \A m \in 1 .. 2 : m = 1 \/ m = 2
            OBVIOUS
        <3>8. 2 <= Len(t) <=> n < l
            BY <3>3
        <3>9. n < l => t[1] = dev[n] /\ t[2] = dev[n + 1]
            BY <3>3
        <3> QED
            BY <3>1, <3>5, <3>6, <3>7, <3>8, <3>9
    <2>3. \A n : n \in 1 .. l - 1 <=> n \in 1 .. l /\ n < l
        OBVIOUS
    <2> QED
        BY <2>1, <2>2, <2>3 DEF DotDot
<1>5. _has_devpath_dangerous(dev) <=> special
    BY DEF _has_devpath_dangerous, Has
<1>6. (Len(dev) <= 1 \/ ~_all_dev_path_chars(SubSeq(dev, 2, Len(dev)))) <=> bad
    <2>1. CASE dev = <<>>
        BY <2>1
    <2>2. CASE dev # <<>>
        <3>1. Tail(dev) = SubSeq(dev, 2, Len(dev)) /\ Len(dev) \in Nat
            BY <2>2, TailIsSubSeq DEF Text
        <3>2. Len(dev) <= 1 <=> Len(dev) < 2
            BY <3>1
        <3>3. ~_all_dev_path_chars(Tail(dev)) <=> ~Only(Tail(dev), Alnum \cup Hyphens \cup {"/", "_"})
            BY DEF _all_dev_path_chars, Only
        <3> QED
            BY <3>1, <3>2, <3>3
    <2> QED
        BY <2>1, <2>2
<1> HIDE DEF dots, special, away, bad
<1>7. RequireDev("shell") /\ ~RequireDev("native-file")
    BY DEF RequireDev
<1>8. /\ PortDevice("shell", dev) = B1 \o B2 \o C1 \o C2 \o B4
      /\ PortDevice("native-file", dev) = B1 \o <<>> \o C1 \o C2 \o <<>>
    BY <1>3, <1>4, <1>5, <1>6, <1>7 DEF PortDevice, Refuse, Bail
<1>9. SameHead(C1 \o C2, B3)
    <2>1. PICK w \in Refusals : w = "device characters"
        BY DEF Refusals
    <2>2. /\ Words(<<w, w>>) /\ Head(<<w, w>>) = w /\ <<w>> \o <<w>> = <<w, w>>
          /\ <<w, w>> # <<>> /\ Words(<<w>>) /\ Head(<<w>>) = w /\ <<w>> # <<>>
        BY ListOfOne, ListOfTwo DEF Words
    <2>3. <<w>> \o <<>> = <<w>> /\ <<>> \o <<w>> = <<w>> /\ <<>> \o <<>> = <<>>
        BY <2>2, OneWord, HeadOfJoined, ConcatEmptySeq DEF Words
    <2>4. C1 = IF dots THEN <<w>> ELSE <<>>
        BY <2>1 DEF Bail
    <2>5. C2 = IF special THEN <<w>> ELSE <<>>
        BY <2>1 DEF Bail
    <2>6. B3 = IF dots \/ special THEN <<w>> ELSE <<>>
        BY <2>1 DEF Bail
    <2> HIDE DEF C1, C2, B3
    <2>7. CASE dots /\ special
        BY <2>2, <2>4, <2>5, <2>6, <2>7 DEF SameHead
    <2>8. CASE dots /\ ~special
        BY <2>2, <2>3, <2>4, <2>5, <2>6, <2>8 DEF SameHead
    <2>9. CASE ~dots /\ special
        BY <2>2, <2>3, <2>4, <2>5, <2>6, <2>9 DEF SameHead
    <2>10. CASE ~dots /\ ~special
        BY <2>3, <2>4, <2>5, <2>6, <2>10, OneWord DEF SameHead
    <2> QED
        BY <2>7, <2>8, <2>9, <2>10
<1> HIDE DEF B1, B2, B3, B4, C1, C2
<1>10. /\ Words(B1 \o B2) /\ Words(C1 \o C2) /\ (B1 \o B2 \o C1) \o C2 = (B1 \o B2) \o (C1 \o C2)
       /\ B1 \o <<>> = B1
    <2>1. Words(B1 \o B2) /\ Words(C1 \o C2)
        BY <1>1, HeadOfJoined
    <2>2. (B1 \o B2 \o C1) \o C2 = (B1 \o B2) \o (C1 \o C2)
        <3>1. Words(B1 \o B2) /\ Words(C1) /\ Words(C2)
            BY <1>1, <2>1
        <3>2. Regroups(B1 \o B2, C1, C2)
            BY ONLY <3>1, Regrouped
        <3> QED
            BY ONLY <3>2 DEF Regroups
    <2>3. B1 \o <<>> = B1
        BY <1>1, ConcatEmptySeq DEF Words
    <2> QED
        BY <2>1, <2>2, <2>3
<1>11. SameHead(PortDevice("shell", dev), DeviceErrors(dev))
    <2>1. SameHead((B1 \o B2) \o (C1 \o C2), (B1 \o B2) \o B3)
        BY <1>9, <1>10, SameHeadSelf, SameHeadJoined
    <2> QED
        BY <1>1, <1>2, <1>8, <1>10, <2>1, SameHeadSelf, SameHeadJoined
<1>12. Words(PortDevice("native-file", dev))
    BY <1>1, <1>8, OneWord, HeadOfJoined
<1>13. ASSUME PortDevice("shell", dev) = <<>> PROVE PortDevice("native-file", dev) = <<>>
    <2>1. Words(B1 \o B2 \o C1) /\ Words(B1 \o B2 \o C1 \o C2)
        BY <1>1, HeadOfJoined
    <2>2. B1 \o B2 \o C1 \o C2 = <<>>
        BY <1>1, <1>8, <1>13, <2>1, ConcatEqualIffEmpty DEF Words
    <2>3. B1 \o B2 \o C1 = <<>> /\ C2 = <<>>
        BY <1>1, <2>1, <2>2, ConcatEqualIffEmpty DEF Words
    <2>4. B1 \o B2 = <<>> /\ C1 = <<>>
        BY <1>1, <1>10, <2>3, ConcatEqualIffEmpty DEF Words
    <2>5. B1 = <<>>
        BY <1>1, <2>4, ConcatEqualIffEmpty DEF Words
    <2>6. <<>> \o <<>> = <<>>
        OBVIOUS
    <2> QED
        BY <1>8, <2>3, <2>4, <2>5, <2>6
<1> QED
    BY <1>11, <1>12, <1>13

\* The checks of each item of a list.
LEMMA FlattenTypes ==
    ASSUME NEW S, NEW s \in Seq(Seq(S))
    PROVE  FlattenSeq(s) \in Seq(S)
<1>1. <<>> \in Seq(S)
    OBVIOUS
<1> QED
    BY <1>1, FlattenAppend

LEMMA FlattenWords ==
    ASSUME NEW n \in Nat, NEW s, s = [m \in 1 .. n |-> s[m]], \A m \in 1 .. n : Words(s[m])
    PROVE  Words(FlattenSeq(s))
<1>1. s \in Seq(Seq(Refusals))
    <2>1. s \in [1 .. n -> Seq(Refusals)]
        BY DEF Words
    <2> QED
        BY <2>1
<1> QED
    BY <1>1, FlattenTypes DEF Words

LEMMA ConfigFields ==
    ASSUME NEW c \in InstallConfig
    PROVE  /\ c.disk.target_device \in Text /\ c.disk.partitions \in Seq(PartitionSpec)
           /\ c.disk.use_gpt \in BOOLEAN /\ c.disk.encrypt \in BOOLEAN
           /\ c.bootloader.kernel_params \in Seq(Text)
           /\ c.network.hostname \in Text /\ c.network.use_dhcp \in BOOLEAN
           /\ c.network.static_ip \in Option(Text) /\ c.network.dns \in Seq(Text)
           /\ c.user.username \in Text /\ c.user.full_name \in Option(Text)
           /\ c.user.groups \in Seq(Text) /\ c.user.ssh_keys \in Seq(Text)
           /\ c.user.enable_sudo \in BOOLEAN /\ c.mode \in InstallMode
<1>1. /\ c.disk \in DiskLayout /\ c.bootloader \in BootloaderConfig /\ c.mode \in InstallMode
      /\ c.network \in NetworkConfig /\ c.user \in UserConfig
    BY DEF InstallConfig
<1>2. /\ c.disk.target_device \in Text /\ c.disk.partitions \in Seq(PartitionSpec)
      /\ c.disk.use_gpt \in BOOLEAN /\ c.disk.encrypt \in BOOLEAN
    BY <1>1 DEF DiskLayout
<1>3. c.bootloader.kernel_params \in Seq(Text)
    BY <1>1 DEF BootloaderConfig
<1>4. /\ c.network.hostname \in Text /\ c.network.use_dhcp \in BOOLEAN
      /\ c.network.static_ip \in Option(Text) /\ c.network.dns \in Seq(Text)
    BY <1>1 DEF NetworkConfig
<1>5. /\ c.user.username \in Text /\ c.user.full_name \in Option(Text)
      /\ c.user.groups \in Seq(Text) /\ c.user.ssh_keys \in Seq(Text)
      /\ c.user.enable_sudo \in BOOLEAN
    BY <1>1 DEF UserConfig
<1> QED
    BY <1>1, <1>2, <1>3, <1>4, <1>5

\* An option is nothing or one thing.
LEMMA OptionIs ==
    ASSUME NEW S, NEW o \in Option(S)
    PROVE  o = None \/ \E x \in S : o = Some(x) /\ o[1] = x
<1>1. o \in Seq(S) /\ Len(o) <= 1
    BY DEF Option
<1>2. CASE Len(o) = 0
    BY <1>1, <1>2 DEF None
<1>3. CASE Len(o) = 1
    <2>1. PICK x \in S : x = o[1]
        BY <1>1, <1>3
    <2>2. <<x>> \in Seq(S) /\ Len(<<x>>) = 1 /\ <<x>>[1] = x
        BY ListOfOne
    <2>3. \A m \in 1 .. 1 : m = 1
        OBVIOUS
    <2>4. o = <<x>>
        BY <1>1, <1>3, <2>1, <2>2, <2>3, SeqEqual
    <2> QED
        BY <2>1, <2>4 DEF Some
<1> QED
    BY <1>1, <1>2, <1>3

LEMMA ParamsAlike ==
    ASSUME NEW params \in Seq(Text)
    PROVE  SameHead(ForEach(params, PortParam), ForEach(params, ParamErrors))
<1> DEFINE s == [m \in DOMAIN params |-> ParamErrors(params[m])]
           t == [m \in DOMAIN params |-> PortParam(params[m])]
<1>1. s = t
    BY ParamAlike
<1>2. PICK n \in Nat : n = Len(params) /\ DOMAIN params = 1 .. n
    OBVIOUS
<1>3. Words(FlattenSeq(s))
    <2>1. \A m \in 1 .. n : Words(s[m])
        BY <1>2, ParamAlike
    <2>2. s = [m \in 1 .. n |-> s[m]]
        BY <1>2
    <2> HIDE DEF s
    <2> QED
        BY <2>1, <2>2, FlattenWords
<1>4. ForEach(params, ParamErrors) = FlattenSeq(s) /\ ForEach(params, PortParam) = FlattenSeq(t)
    BY DEF ForEach
<1> QED
    BY <1>1, <1>3, <1>4, SameHeadSelf

LEMMA GroupsAlike ==
    ASSUME NEW groups \in Seq(Text)
    PROVE  SameHead(ForEach(groups, PortGroup), ForEach(groups, GroupErrors))
<1> DEFINE s == [m \in DOMAIN groups |-> GroupErrors(groups[m])]
           t == [m \in DOMAIN groups |-> PortGroup(groups[m])]
<1>1. PICK n \in Nat : n = Len(groups) /\ DOMAIN groups = 1 .. n
    OBVIOUS
<1>2. \A m \in 1 .. n : groups[m] \in Text
    BY <1>1
<1>3. s = t
    BY <1>1, <1>2, GroupAlike
<1>4. Words(FlattenSeq(s))
    <2>1. \A m \in 1 .. n : Words(s[m])
        BY <1>1, <1>2, GroupAlike
    <2>2. s = [m \in 1 .. n |-> s[m]]
        BY <1>1
    <2> HIDE DEF s
    <2> QED
        BY <2>1, <2>2, FlattenWords
<1>5. ForEach(groups, GroupErrors) = FlattenSeq(s) /\ ForEach(groups, PortGroup) = FlattenSeq(t)
    BY DEF ForEach
<1> QED
    BY <1>3, <1>4, <1>5, SameHeadSelf

\* The list of labels is the Rust library's, that of partitions the port's.
LEMMA LabelsAlike ==
    ASSUME NEW n \in Nat, NEW labels, labels = [m \in 1 .. n |-> labels[m]],
           NEW partitions, partitions = [m \in 1 .. n |-> partitions[m]],
           \A m \in 1 .. n : partitions[m].label = labels[m]
    PROVE  SameHead(ForEach(partitions, PortLabel), ForEach(labels, LabelErrors))
<1> DEFINE s == [m \in 1 .. n |-> LabelErrors(labels[m])]
           t == [m \in 1 .. n |-> PortLabel(partitions[m])]
<1>1. s = t
    BY LabelAlike
<1>2. Words(FlattenSeq(s))
    <2>1. \A m \in 1 .. n : Words(s[m])
        BY LabelAlike
    <2>2. s = [m \in 1 .. n |-> s[m]]
        OBVIOUS
    <2> HIDE DEF s
    <2> QED
        BY <2>1, <2>2, FlattenWords
<1>3. DOMAIN labels = 1 .. n /\ DOMAIN partitions = 1 .. n
    OBVIOUS
<1>4. ForEach(labels, LabelErrors) = FlattenSeq(s) /\ ForEach(partitions, PortLabel) = FlattenSeq(t)
    BY <1>3 DEF ForEach
<1> QED
    BY <1>1, <1>2, <1>4, SameHeadSelf

LEMMA FullNamesAlike ==
    ASSUME NEW o \in Option(Text)
    PROVE  LET A == Refuse(Len(OrEmpty(o)) > Limits.name, "full name too long")
               B == Refuse(_has_passwd_dangerous(OrEmpty(o)), "full name characters")
           IN  Words(A) /\ Words(B) /\ A \o B = ForEach(o, FullNameErrors)
<1> DEFINE A == Refuse(Len(OrEmpty(o)) > Limits.name, "full name too long")
           B == Refuse(_has_passwd_dangerous(OrEmpty(o)), "full name characters")
<1>1. Words(A) /\ Words(B)
    BY OneWord DEF Refuse, Refusals
<1>2. A \o B = FullNameErrors(OrEmpty(o))
    BY FullNameAlike
<1>3. CASE o = None
    <2>1. OrEmpty(o) = <<>>
        BY <1>3 DEF OrEmpty
    <2>2. FullNameErrors(<<>>) = <<>>
        <3>1. ~(Len(<<>>) > Limits.name)
            BY LimitTypes
        <3>2. ~Has(<<>>, {":", ";", "nul"})
            BY DEF Has, ToSet
        <3>3. <<>> \o <<>> = <<>>
            OBVIOUS
        <3> QED
            BY <3>1, <3>2, <3>3 DEF FullNameErrors, Bail
    <2>3. ForEach(o, FullNameErrors) = <<>>
        <3>1. [m \in DOMAIN o |-> FullNameErrors(o[m])] = <<>>
            BY <1>3 DEF None
        <3> QED
            BY <3>1, FlattenEmpty DEF ForEach
    <2> QED
        BY <1>1, <1>2, <2>1, <2>2, <2>3
<1>4. ASSUME NEW x \in Text, o = Some(x), o[1] = x PROVE A \o B = ForEach(o, FullNameErrors)
    <2>1. o = <<x>> /\ o # None
        BY <1>4, ListOfOne DEF Some, None
    <2>2. OrEmpty(o) = x
        BY <1>4, <2>1 DEF OrEmpty
    <2>3. [m \in DOMAIN o |-> FullNameErrors(o[m])] = <<FullNameErrors(x)>>
        BY <2>1
    <2>4. ForEach(o, FullNameErrors) = FullNameErrors(x)
        BY <2>3, FlattenOne DEF ForEach
    <2> QED
        BY <1>2, <2>2, <2>4
<1> QED
    BY <1>1, <1>3, <1>4, OptionIs

\* The two lists of refusals, check by check.  The file backend's refusals are
\* among those of the shell's.
LEMMA ErrorsAlike ==
    ASSUME NEW c \in InstallConfig
    PROVE  /\ c.user.username # <<>> /\ c.network.static_ip # Some(<<>>) =>
                  SameHead(PortErrors("shell", PortConfig(c)), Errors(c))
           /\ PortErrors("shell", PortConfig(c)) = <<>> =>
                  PortErrors("native-file", PortConfig(c)) = <<>>
<1> DEFINE p == PortConfig(c)
           A1 == PortDevice("shell", p.device)  B1 == DeviceErrors(c.disk.target_device)
           A2 == Refuse(p.parts = <<>>, "no partitions")
           B2 == Bail(c.disk.partitions = <<>>, "no partitions")
           A3 == PortUser(p.username)  B3 == UserErrors(c.user.username)
           A4 == PortHost(p.hostname)  B4 == HostErrors(c.network.hostname)
           A5 == Refuse(~p.use_dhcp /\ p.static_ip = <<>>, "no static ip")
           B5 == Bail(~c.network.use_dhcp /\ c.network.static_ip = None, "no static ip")
           A6 == ForEach(p.kernel_params, PortParam)
           B6 == ForEach(c.bootloader.kernel_params, ParamErrors)
           A7 == ForEach(p.parts, PortLabel)
           B7 == ForEach([n \in DOMAIN c.disk.partitions |-> c.disk.partitions[n].label], LabelErrors)
           A8 == Refuse(\E n \in DOMAIN p.parts : ~p.parts[n].has_size /\ n < Len(p.parts), "fill not last")
           B8 == FillErrors(c.disk.partitions)
           A9 == Refuse(~p.use_gpt /\ Len(p.parts) > 4, "too many for MBR")
           B9 == Bail(~c.disk.use_gpt /\ Len(c.disk.partitions) > 4, "too many for MBR")
           A10 == Refuse(Len(p.full_name) > Limits.name, "full name too long")
           A11 == Refuse(_has_passwd_dangerous(p.full_name), "full name characters")
           B10 == ForEach(c.user.full_name, FullNameErrors)
           A12 == ForEach(p.groups, PortGroup)  B12 == ForEach(c.user.groups, GroupErrors)
           A13 == Refuse(<<>> \notin {p.parts[n].mount_point : n \in DOMAIN p.parts}, "no root")
           B13 == RootErrors(c.disk.partitions)
<1>1. PICK l \in Nat : l = Len(c.disk.partitions) /\ DOMAIN c.disk.partitions = 1 .. l
    BY ConfigFields
<1>2. /\ p.device = c.disk.target_device /\ p.username = c.user.username
      /\ p.hostname = c.network.hostname /\ p.use_dhcp = c.network.use_dhcp
      /\ p.static_ip = OrEmpty(c.network.static_ip) /\ p.use_gpt = c.disk.use_gpt
      /\ p.kernel_params = c.bootloader.kernel_params
      /\ p.full_name = OrEmpty(c.user.full_name) /\ p.groups = c.user.groups
    BY DEF PortConfig
<1>3. /\ p.parts = [n \in 1 .. l |-> p.parts[n]] /\ DOMAIN p.parts = 1 .. l /\ Len(p.parts) = l
      /\ \A n \in 1 .. l :
             /\ p.parts[n].label = c.disk.partitions[n].label
             /\ p.parts[n].mount_point = c.disk.partitions[n].mount_point
             /\ p.parts[n].has_size <=> c.disk.partitions[n].size_mb # None
    <2> DEFINE parts_ == [n \in 1 .. l |->
                   [label |-> c.disk.partitions[n].label,
                    mount_point |-> c.disk.partitions[n].mount_point,
                    has_size |-> c.disk.partitions[n].size_mb # None]]
    <2>1. p.parts = parts_
        BY <1>1 DEF PortConfig
    <2>2. /\ Len(parts_) = l /\ DOMAIN parts_ = 1 .. l
          /\ parts_ = [n \in 1 .. l |-> parts_[n]]
        OBVIOUS
    <2>3. ASSUME NEW n \in 1 .. l
          PROVE  /\ parts_[n].label = c.disk.partitions[n].label
                 /\ parts_[n].mount_point = c.disk.partitions[n].mount_point
                 /\ parts_[n].has_size <=> c.disk.partitions[n].size_mb # None
        OBVIOUS
    <2> HIDE DEF p, parts_
    <2> QED
        BY <2>1, <2>2, <2>3
<1>4. p.parts = <<>> <=> c.disk.partitions = <<>>
    BY <1>1, <1>3
<1> HIDE DEF p
<1>5. SameHead(A1, B1)
    BY <1>2, DeviceAlike, ConfigFields
<1>6. SameHead(A2, B2)
    BY <1>4, OneWord, SameHeadSelf DEF Refuse, Bail, Refusals
<1>7. Words(A3) /\ (c.user.username # <<>> => SameHead(A3, B3))
    BY <1>2, UserAlike, ConfigFields, SameHeadSelf
<1>8. SameHead(A4, B4)
    BY <1>2, HostAlike, ConfigFields, SameHeadSelf
<1>9. Words(A5) /\ (c.network.static_ip # Some(<<>>) => SameHead(A5, B5))
    <2>1. c.network.static_ip # Some(<<>>) => (p.static_ip = <<>> <=> c.network.static_ip = None)
        <3>1. c.network.static_ip = None \/ \E x \in Text : c.network.static_ip = Some(x) /\ c.network.static_ip[1] = x
            BY ConfigFields, OptionIs
        <3>2. ASSUME NEW x \in Text, c.network.static_ip = Some(x), c.network.static_ip[1] = x,
                     c.network.static_ip # Some(<<>>)
              PROVE  x # <<>> /\ c.network.static_ip # None
            BY <3>2, ListOfOne DEF Some, None
        <3> QED
            BY <1>2, <3>1, <3>2 DEF OrEmpty
    <2> QED
        BY <1>2, <2>1, OneWord, SameHeadSelf DEF Refuse, Bail, Refusals
<1>10. SameHead(A6, B6)
    BY <1>2, ParamsAlike, ConfigFields
<1>11. SameHead(A7, B7)
    <2> DEFINE labels == [n \in 1 .. l |-> c.disk.partitions[n].label]
    <2>1. labels = [n \in 1 .. l |-> labels[n]] /\ \A n \in 1 .. l : p.parts[n].label = labels[n]
        BY <1>3
    <2>2. labels = [n \in DOMAIN c.disk.partitions |-> c.disk.partitions[n].label]
        BY <1>1
    <2> HIDE DEF labels
    <2> QED
        BY <1>3, <2>1, <2>2, LabelsAlike
<1>12. SameHead(A8, B8)
    <2>1. (\E n \in DOMAIN p.parts : ~p.parts[n].has_size /\ n < Len(p.parts))
              <=> (\E n \in 1 .. l - 1 : c.disk.partitions[n].size_mb = None)
        <3>1. \A n : n \in 1 .. l - 1 <=> n \in 1 .. l /\ n < l
            OBVIOUS
        <3> QED
            BY <1>3, <3>1
    <2> QED
        BY <1>1, <2>1, OneWord, SameHeadSelf DEF FillErrors, Refuse, Bail, Refusals
<1>13. SameHead(A9, B9)
    BY <1>1, <1>2, <1>3, OneWord, SameHeadSelf DEF Refuse, Bail, Refusals
<1>14. Words(A10) /\ Words(A11) /\ A10 \o A11 = B10
    BY <1>2, ConfigFields, FullNamesAlike
<1>15. SameHead(A12, B12)
    BY <1>2, GroupsAlike, ConfigFields
<1>16. SameHead(A13, B13)
    <2>1. (<<>> \in {p.parts[n].mount_point : n \in DOMAIN p.parts})
              <=> ~\A n \in DOMAIN c.disk.partitions : c.disk.partitions[n].mount_point # <<>>
        <3>1. (<<>> \in {p.parts[n].mount_point : n \in DOMAIN p.parts})
                  <=> \E n \in DOMAIN p.parts : p.parts[n].mount_point = <<>>
            OBVIOUS
        <3>2. (\E n \in DOMAIN p.parts : p.parts[n].mount_point = <<>>)
                  <=> \E n \in 1 .. l : c.disk.partitions[n].mount_point = <<>>
            BY <1>3
        <3> QED
            BY <1>1, <3>1, <3>2
    <2> QED
        BY <2>1, OneWord, SameHeadSelf DEF RootErrors, Refuse, Bail, Refusals
<1>17. /\ \A b : PortErrors(b, p) = PortDevice(b, p.device) \o A2 \o A3 \o A4 \o A5 \o A6 \o A7
                                    \o A8 \o A9 \o A10 \o A11 \o A12 \o A13
       /\ Errors(c) = B1 \o B2 \o B3 \o B4 \o B5 \o B6 \o B7 \o (B8 \o B9) \o B10 \o B12 \o B13
    BY DEF PortErrors, Errors, TableErrors
<1> DEFINE C1 == PortDevice("native-file", p.device)
<1>18. NoMore(A1, C1)
    BY <1>2, DeviceAlike, ConfigFields DEF NoMore, SameHead
<1>19. PortErrors("shell", p) = A1 \o A2 \o A3 \o A4 \o A5 \o A6 \o A7 \o A8 \o A9 \o A10 \o A11 \o A12 \o A13
    BY <1>17
<1>20. PortErrors("native-file", p) = C1 \o A2 \o A3 \o A4 \o A5 \o A6 \o A7 \o A8 \o A9 \o A10 \o A11 \o A12 \o A13
    BY <1>17
<1> HIDE DEF A1, A2, A3, A4, A5, A6, A7, A8, A9, A10, A11, A12, A13, C1,
             B1, B2, B3, B4, B5, B6, B7, B8, B9, B10, B12, B13
<1>21. ASSUME c.user.username # <<>>, c.network.static_ip # Some(<<>>)
       PROVE  SameHead(PortErrors("shell", p), Errors(c))
    <2> DEFINE X == A1 \o A2 \o A3 \o A4 \o A5 \o A6 \o A7
               Y == B1 \o B2 \o B3 \o B4 \o B5 \o B6 \o B7
    <2>1. SameHead(X, Y)
        BY <1>5, <1>6, <1>7, <1>8, <1>9, <1>10, <1>11, <1>21, SameHeadJoined
    <2> HIDE DEF X, Y
    <2>2. SameHead(X \o A8 \o A9, Y \o (B8 \o B9))
        <3>1. Words(X) /\ Words(A8) /\ Words(A9)
            BY <1>12, <1>13, <2>1 DEF SameHead
        <3>2. (X \o A8) \o A9 = X \o (A8 \o A9)
            <4>1. Regroups(X, A8, A9)
                BY ONLY <3>1, Regrouped
            <4> QED
                BY ONLY <4>1 DEF Regroups
        <3>3. SameHead(X \o (A8 \o A9), Y \o (B8 \o B9))
            BY <1>12, <1>13, <2>1, SameHeadJoined
        <3> QED
            BY <3>2, <3>3
    <2> DEFINE U == X \o A8 \o A9
               V == Y \o (B8 \o B9)
    <2> HIDE DEF U, V
    <2>3. SameHead(U \o A10 \o A11, V \o B10)
        <3>1. SameHead(U, V) /\ Words(U) /\ Words(A10) /\ Words(A11)
            BY <1>14, <2>2 DEF SameHead, U, V
        <3>2. (U \o A10) \o A11 = U \o (A10 \o A11)
            <4>1. Regroups(U, A10, A11)
                BY ONLY <3>1, Regrouped
            <4> QED
                BY ONLY <4>1 DEF Regroups
        <3>3. SameHead(B10, B10)
            BY <1>14, HeadOfJoined, SameHeadSelf
        <3> QED
            BY <1>14, <3>1, <3>2, <3>3, SameHeadJoined
    <2>4. SameHead(U \o A10 \o A11 \o A12 \o A13, V \o B10 \o B12 \o B13)
        BY <1>15, <1>16, <2>3, SameHeadJoined
    <2> QED
        BY <1>17, <1>19, <2>4 DEF U, V, X, Y
<1>22. NoMore(PortErrors("shell", p), PortErrors("native-file", p))
    <2>1. /\ NoMore(A2, A2) /\ NoMore(A3, A3) /\ NoMore(A4, A4) /\ NoMore(A5, A5) /\ NoMore(A6, A6)
          /\ NoMore(A7, A7) /\ NoMore(A8, A8) /\ NoMore(A9, A9) /\ NoMore(A10, A10)
          /\ NoMore(A11, A11) /\ NoMore(A12, A12) /\ NoMore(A13, A13)
        BY <1>6, <1>7, <1>8, <1>9, <1>10, <1>11, <1>12, <1>13, <1>14, <1>15, <1>16
           DEF NoMore, SameHead
    <2> QED
        BY <1>18, <1>19, <1>20, <2>1, NoMoreJoined
<1> QED
    BY <1>21, <1>22 DEF p, NoMore

LEMMA WarningsAlike ==
    ASSUME NEW c
    PROVE  PortWarnings(PortConfig(c)) = Warnings(c)
BY DEF PortWarnings, Warnings, PortConfig, Refuse, Bail

\* The configuration stays.
ConfigKnown == config \in Configs

LEMMA ConfigStays == Spec => []ConfigKnown
<1>1. Init => ConfigKnown
    BY DEF Init, ConfigKnown
<1>2. ConfigKnown /\ [Next]_vars => ConfigKnown'
    BY DEF Next, Validate, OpSucceeds, OpFailsLate, OpFails, Succeed, Fail, NextEntry,
           Proceed, Exited, vars, given, ConfigKnown
<1> QED
    BY <1>1, <1>2, PTL DEF Spec

\* For every configuration, validation.cyr answers what validation.rs answers:
\* the same first refusal or the same warnings, but where the port takes an
\* account as optional and an empty address for none; and the file backend
\* refuses no configuration that the shell backend accepts.
THEOREM VerdictsAlike == Spec => []PortValidatesAlike
<1>1. ConfigKnown => PortValidatesAlike
    <2> SUFFICES ASSUME config \in Configs PROVE PortValidatesAlike
        BY DEF ConfigKnown
    <2> DEFINE p == PortConfig(config)
    <2>1. config \in InstallConfig
        BY ConfigTypes
    <2>2. ASSUME config.user.username # <<>>, config.network.static_ip # Some(<<>>)
          PROVE  PortAnswer("shell", p) = validate_config(config)
        <3>1. SameHead(PortErrors("shell", p), Errors(config))
            BY <2>1, <2>2, ErrorsAlike
        <3> HIDE DEF p
        <3>2. PortWarnings(p) = Warnings(config)
            BY WarningsAlike DEF p
        <3> QED
            BY <3>1, <3>2 DEF SameHead, PortAnswer, validate_config
    <2>3. PortAnswer("shell", p).ok => PortAnswer("native-file", p).ok
        <3>1. PortErrors("shell", p) = <<>> => PortErrors("native-file", p) = <<>>
            BY <2>1, ErrorsAlike
        <3> HIDE DEF p
        <3> QED
            BY <3>1 DEF PortAnswer, Ok, Err
    <2> QED
        BY <2>2, <2>3 DEF PortValidatesAlike
<1> QED
    BY <1>1, ConfigStays, PTL
-----------------------------------------------------------------------------
(* Plans.  The operations of a list of the Rust library's, without their   *)
(* arguments; what they are for lists put together.                        *)
OpsOf(s) == [m \in DOMAIN s |-> s[m].op]

LEMMA OpsAt ==
    ASSUME NEW n \in Nat, NEW s, s = [m \in 1 .. n |-> s[m]]
    PROVE  /\ IsList(s) /\ IsList(OpsOf(s)) /\ OpsOf(s) = [m \in 1 .. n |-> s[m].op]
<1> DEFINE S == {s[m] : m \in 1 .. n}
           T == {s[m].op : m \in 1 .. n}
           t == [m \in 1 .. n |-> s[m].op]
<1>1. s \in [1 .. n -> S] /\ t \in [1 .. n -> T]
    OBVIOUS
<1>2. OpsOf(s) = t
    BY DEF OpsOf
<1> HIDE DEF S, T, t
<1>3. s \in Seq(S) /\ t \in Seq(T)
    BY <1>1
<1> QED
    BY <1>2, <1>3 DEF IsList, t

LEMMA OpsJoined ==
    ASSUME NEW s, NEW t, IsList(s), IsList(t)
    PROVE  IsList(s \o t) /\ OpsOf(s \o t) = OpsOf(s) \o OpsOf(t)
<1>1. PICK A, B : s \in Seq(A) /\ t \in Seq(B)
    BY DEF IsList
<1> DEFINE S == A \cup B
           h == [x \in S |-> x.op]
           R == {x.op : x \in S}
<1>2. s \in Seq(S) /\ t \in Seq(S)
    BY <1>1
<1>3. IsMap(h, S, R)
    BY DEF IsMap
<1>4. \A x \in S : h[x] = x.op
    OBVIOUS
<1> HIDE DEF S, h, R
<1>5. \A u \in Seq(S) : Mapped(h, u) = OpsOf(u)
    <2> TAKE u \in Seq(S)
    <2>1. \A m \in DOMAIN u : h[u[m]] = u[m].op
        BY <1>4
    <2> QED
        BY <2>1 DEF Mapped, OpsOf
<1>6. s \o t \in Seq(S)
    BY <1>2, ConcatProperties
<1>7. Mapped(h, s \o t) = Mapped(h, s) \o Mapped(h, t)
    BY <1>2, <1>3, MappedJoined
<1> QED
    BY <1>2, <1>5, <1>6, <1>7 DEF IsList

\* Partition by partition.
LEMMA OpsFlattened ==
    ASSUME NEW n \in Nat, NEW s, s = [j \in 1 .. n |-> s[j]], \A j \in 1 .. n : IsList(s[j])
    PROVE  /\ IsList(FlattenSeq(s))
           /\ OpsOf(FlattenSeq(s)) = FlattenSeq([j \in 1 .. n |-> OpsOf(s[j])])
<1> DEFINE Elements(j) == {s[j][m] : m \in DOMAIN s[j]}
           S == UNION {Elements(j) : j \in 1 .. n}
           h == [x \in S |-> x.op]
           R == {x.op : x \in S}
<1>1. ASSUME NEW j \in 1 .. n PROVE s[j] \in Seq(S)
    <2>1. PICK l \in Nat : s[j] = [m \in 1 .. l |-> s[j][m]] /\ DOMAIN s[j] = 1 .. l
        BY ListIs
    <2>2. \A m \in 1 .. l : s[j][m] \in Elements(j)
        BY <2>1
    <2>3. Elements(j) \subseteq S
        OBVIOUS
    <2>4. s[j] \in [1 .. l -> S]
        <3> HIDE DEF S, Elements
        <3> QED
            BY <2>1, <2>2, <2>3
    <2> HIDE DEF S
    <2> QED
        BY <2>4
<1>2. IsMap(h, S, R)
    BY DEF IsMap
<1>3. \A x \in S : h[x] = x.op
    OBVIOUS
<1> HIDE DEF S, h, R
<1>4. s \in Seq(Seq(S))
    <2>1. s \in [1 .. n -> Seq(S)]
        BY <1>1
    <2> QED
        BY <2>1
<1>5. \A u \in Seq(S) : Mapped(h, u) = OpsOf(u)
    <2> TAKE u \in Seq(S)
    <2>1. \A m \in DOMAIN u : h[u[m]] = u[m].op
        BY <1>3
    <2> QED
        BY <2>1 DEF Mapped, OpsOf
<1>6. FlattenSeq(s) \in Seq(S)
    BY <1>4, FlattenTypes
<1>7. MappedAll(h, s) = [j \in 1 .. n |-> OpsOf(s[j])]
    <2>1. DOMAIN s = 1 .. n
        OBVIOUS
    <2>2. \A j \in 1 .. n : Mapped(h, s[j]) = OpsOf(s[j])
        BY <1>1, <1>5
    <2> QED
        BY <2>1, <2>2 DEF MappedAll
<1>8. FlattenSeq(MappedAll(h, s)) = Mapped(h, FlattenSeq(s))
    BY <1>2, <1>4, FlattenMapped
<1> QED
    BY <1>5, <1>6, <1>7, <1>8 DEF IsList

LEMMA OpsOfPlain ==
    ASSUME NEW n \in Nat, NEW s, s = [m \in 1 .. n |-> s[m]]
    PROVE  IsList(Plain(s)) /\ OpsOf(Plain(s)) = s
<1> DEFINE t == [m \in 1 .. n |-> SystemOp(s[m], "")]
<1>1. Plain(s) = t
    BY DEF Plain
<1>2. t = [m \in 1 .. n |-> t[m]] /\ \A m \in 1 .. n : t[m].op = s[m]
    BY DEF SystemOp
<1> HIDE DEF t
<1>3. IsList(t) /\ OpsOf(t) = [m \in 1 .. n |-> t[m].op]
    BY <1>2, OpsAt
<1> QED
    BY <1>1, <1>2, <1>3

LEMMA PlainOne ==
    ASSUME NEW op
    PROVE  IsList(Plain(<<op>>)) /\ OpsOf(Plain(<<op>>)) = <<op>>
<1>1. PICK t : t = <<op>>
    OBVIOUS
<1>2. t = [m \in 1 .. 1 |-> t[m]]
    BY <1>1
<1> QED
    BY <1>1, <1>2, OpsOfPlain

LEMMA OpsOfOne ==
    ASSUME NEW op, NEW arg
    PROVE  IsList(<<SystemOp(op, arg)>>) /\ OpsOf(<<SystemOp(op, arg)>>) = <<op>>
<1>1. PICK t : t = <<SystemOp(op, arg)>>
    OBVIOUS
<1>2. t = [m \in 1 .. 1 |-> t[m]] /\ t[1].op = op
    BY <1>1 DEF SystemOp
<1>3. IsList(t) /\ OpsOf(t) = [m \in 1 .. 1 |-> t[m].op]
    BY <1>2, OpsAt
<1>4. \A m \in 1 .. 1 : m = 1
    OBVIOUS
<1>5. [m \in 1 .. 1 |-> t[m].op] = <<op>>
    BY <1>2, <1>4
<1> QED
    BY <1>1, <1>3, <1>5

\* The port's list for Rust's.
Makes(planned, ops) == IsList(planned.operations) /\ OpsOf(planned.operations) = ops

LEMMA PartsAt ==
    ASSUME config \in InstallConfig
    PROVE  \E l \in Nat :
               /\ l = Len(parts(config)) /\ DOMAIN parts(config) = 1 .. l
               /\ parts(config) = <<>> <=> l = 0
               /\ DOMAIN Ported.parts = 1 .. l /\ Len(Ported.parts) = l
               /\ Ported.parts = <<>> <=> l = 0
               /\ InOrder(parts(config)) = [n \in 1 .. l |-> n]
               /\ InOrder(Ported.parts) = [n \in 1 .. l |-> n]
               /\ \A n \in 1 .. l :
                      /\ parts(config)[n] \in PartitionSpec
                      /\ Ported.parts[n].mp = parts(config)[n].mount_point
                      /\ Ported.parts[n].flags = Len(parts(config)[n].flags)
                      /\ Ported.parts[n].fs = "swap" <=> IsSwap(parts(config)[n])
<1>1. parts(config) \in Seq(PartitionSpec)
    BY ConfigFields DEF parts
<1>2. PICK l \in Nat : l = Len(parts(config)) /\ DOMAIN parts(config) = 1 .. l
    BY <1>1
<1> DEFINE p == [n \in 1 .. l |->
                       [fs |-> PortFs[parts(config)[n].filesystem],
                        mp |-> parts(config)[n].mount_point,
                        flags |-> Len(parts(config)[n].flags)]]
<1>3. Ported.parts = p
    BY <1>2 DEF Ported, parts
<1>4. DOMAIN p = 1 .. l /\ Len(p) = l /\ (p = <<>> <=> l = 0)
    OBVIOUS
<1>5. ASSUME NEW n \in 1 .. l
      PROVE  /\ parts(config)[n] \in PartitionSpec
             /\ p[n].mp = parts(config)[n].mount_point
             /\ p[n].flags = Len(parts(config)[n].flags)
             /\ p[n].fs = "swap" <=> IsSwap(parts(config)[n])
    <2>1. parts(config)[n] \in PartitionSpec
        BY <1>1, <1>2
    <2>2. parts(config)[n].filesystem \in Filesystem
        BY <2>1 DEF PartitionSpec
    <2>3. p[n].fs = PortFs[parts(config)[n].filesystem]
        OBVIOUS
    <2>4. p[n].fs = "swap" <=> parts(config)[n].filesystem = "Swap"
        <3> HIDE DEF p
        <3> QED
            BY <2>2, <2>3 DEF PortFs, Filesystem
    <2> QED
        BY <2>1, <2>4 DEF IsSwap
<1>6. parts(config) = <<>> <=> l = 0
    BY <1>1, <1>2
<1> HIDE DEF p
<1> QED
    BY <1>2, <1>3, <1>4, <1>5, <1>6 DEF InOrder

LEMMA PartitionAlike ==
    ASSUME config \in InstallConfig
    PROVE  Makes(plan_partition_ops(config), PartitionPlan(Ported))
<1>1. PICK l \in Nat :
          /\ InOrder(parts(config)) = [n \in 1 .. l |-> n]
          /\ InOrder(Ported.parts) = [n \in 1 .. l |-> n]
          /\ \A n \in 1 .. l : /\ parts(config)[n] \in PartitionSpec
                               /\ Ported.parts[n].flags = Len(parts(config)[n].flags)
    BY PartsAt
<1> DEFINE first(n) == <<SystemOp(On("mkpart", n),
                [label |-> parts(config)[n].label,
                 from |-> start_mb(config.disk, n), to |-> end(config.disk, n)])>>
           flag(n) == Plain([f \in DOMAIN parts(config)[n].flags |-> On("set", n)])
           s == [n \in 1 .. l |-> first(n) \o flag(n)]
           ps == [n \in 1 .. l |-> <<On("mkpart", n)>> \o [f \in 1 .. Ported.parts[n].flags |-> On("set", n)]]
<1>2. ASSUME NEW n \in 1 .. l
      PROVE  IsList(first(n) \o flag(n)) /\ OpsOf(first(n) \o flag(n)) = ps[n]
    <2>1. PICK k_ \in Nat : k_ = Len(parts(config)[n].flags) /\ DOMAIN parts(config)[n].flags = 1 .. k_
        <3>1. parts(config)[n].flags \in Seq(PartitionFlag)
            BY <1>1 DEF PartitionSpec
        <3> QED
            BY <3>1
    <2> DEFINE sets == [f \in 1 .. k_ |-> On("set", n)]
    <2>2. sets = [f \in 1 .. k_ |-> sets[f]]
        OBVIOUS
    <2>3. flag(n) = Plain(sets)
        BY <2>1
    <2>4. ps[n] = <<On("mkpart", n)>> \o sets
        BY <1>1, <2>1
    <2>5. IsList(first(n)) /\ OpsOf(first(n)) = <<On("mkpart", n)>>
        BY OpsOfOne
    <2> HIDE DEF sets, first, flag
    <2>6. IsList(flag(n)) /\ OpsOf(flag(n)) = sets
        BY <2>2, <2>3, OpsOfPlain
    <2> QED
        BY <2>4, <2>5, <2>6, OpsJoined
<1> HIDE DEF first, flag
<1>3. IsList(FlattenSeq(s)) /\ OpsOf(FlattenSeq(s)) = FlattenSeq(ps)
    <2>1. s = [n \in 1 .. l |-> s[n]] /\ \A n \in 1 .. l : IsList(s[n])
        BY <1>2
    <2>2. [n \in 1 .. l |-> OpsOf(s[n])] = ps
        BY <1>2
    <2> HIDE DEF s, ps
    <2> QED
        BY <2>1, <2>2, OpsFlattened
<1>4. plan_partition_ops(config).operations = Plain(<<On("mklabel", 0)>>) \o FlattenSeq(s)
    BY <1>1 DEF plan_partition_ops, PhaseOps, ForEach, first, flag
<1>5. PartitionPlan(Ported) = <<On("mklabel", 0)>> \o FlattenSeq(ps)
    BY <1>1 DEF PartitionPlan, ForEach
<1> HIDE DEF s, ps
<1>6. IsList(Plain(<<On("mklabel", 0)>>)) /\ OpsOf(Plain(<<On("mklabel", 0)>>)) = <<On("mklabel", 0)>>
    BY PlainOne
<1> QED
    BY <1>3, <1>4, <1>5, <1>6, OpsJoined, ZenonT(30) DEF Makes

LEMMA FormatAlike ==
    ASSUME config \in InstallConfig
    PROVE  Makes(plan_format_ops(config), FormatPlan(Ported))
<1>1. PICK l \in Nat :
          /\ InOrder(parts(config)) = [n \in 1 .. l |-> n]
          /\ InOrder(Ported.parts) = [n \in 1 .. l |-> n]
    BY PartsAt
<1> DEFINE arg(n) == [device |-> PartitionOf(config, n), label |-> parts(config)[n].label]
           s == [n \in 1 .. l |-> <<SystemOp(On("mkfs", n), arg(n))>>]
           ps == [n \in 1 .. l |-> <<On("mkfs", n)>>]
<1>2. plan_format_ops(config).operations = FlattenSeq(s)
    BY <1>1 DEF plan_format_ops, PhaseOps, ForEach
<1>3. FormatPlan(Ported) = FlattenSeq(ps)
    BY <1>1 DEF FormatPlan, ForEach
<1> HIDE DEF arg
<1>4. IsList(FlattenSeq(s)) /\ OpsOf(FlattenSeq(s)) = FlattenSeq(ps)
    <2>1. s = [n \in 1 .. l |-> s[n]] /\ \A n \in 1 .. l : IsList(s[n])
        BY OpsOfOne
    <2>2. [n \in 1 .. l |-> OpsOf(s[n])] = ps
        BY OpsOfOne
    <2> HIDE DEF s, ps
    <2> QED
        BY <2>1, <2>2, OpsFlattened
<1> QED
    BY <1>2, <1>3, <1>4 DEF Makes

LEMMA EncryptionAlike ==
    ASSUME config \in InstallConfig
    PROVE  Makes(plan_encryption_ops(config), EncryptionPlan(Ported))
<1>1. PICK l \in Nat :
          /\ l = Len(parts(config)) /\ DOMAIN parts(config) = 1 .. l
          /\ parts(config) = <<>> <=> l = 0
          /\ DOMAIN Ported.parts = 1 .. l /\ Len(Ported.parts) = l
          /\ Ported.parts = <<>> <=> l = 0
          /\ \A n \in 1 .. l : Ported.parts[n].mp = parts(config)[n].mount_point
    BY PartsAt
<1>2. RootOf(Ported.parts) = RootIndex(config)
    <2> DEFINE A == {n \in DOMAIN parts(config) : IsRoot(parts(config)[n])}
               B == {n \in DOMAIN Ported.parts : Ported.parts[n].mp = <<>>}
    <2>1. A = B
        BY <1>1 DEF IsRoot
    <2>2. RootIndex(config) = IF A = {} THEN l ELSE Min(A)
        BY <1>1 DEF RootIndex
    <2>3. RootOf(Ported.parts) = IF B = {} THEN l ELSE CHOOSE x \in B : \A y \in B : x <= y
        BY <1>1 DEF RootOf
    <2> HIDE DEF A, B
    <2> QED
        BY <2>1, <2>2, <2>3 DEF Min
<1>3. Ported.encrypt = config.disk.encrypt /\ config.disk.encrypt \in BOOLEAN
    BY ConfigFields DEF Ported
<1>4. CASE ~config.disk.encrypt \/ parts(config) = <<>>
    <2>1. plan_encryption_ops(config).operations = <<>> /\ EncryptionPlan(Ported) = <<>>
        BY <1>1, <1>3, <1>4 DEF plan_encryption_ops, EncryptionPlan, PhaseOps
    <2>2. IsList(<<>>) /\ OpsOf(<<>>) = <<>>
        BY DEF IsList, OpsOf
    <2> QED
        BY <2>1, <2>2 DEF Makes
<1>5. CASE ~(~config.disk.encrypt \/ parts(config) = <<>>)
    <2> DEFINE arg == [device |-> PartitionOf(config, RootIndex(config)),
                       stdin |-> config.disk.luks_passphrase]
               r == RootIndex(config)
               s == <<SystemOp(On("luksFormat", r), arg), SystemOp(On("luksOpen", r), arg)>>
    <2>1. plan_encryption_ops(config).operations = s
        BY <1>5 DEF plan_encryption_ops, PhaseOps
    <2>2. EncryptionPlan(Ported) = <<On("luksFormat", r), On("luksOpen", r)>>
        BY <1>1, <1>2, <1>3, <1>5 DEF EncryptionPlan
    <2>3. /\ s = [m \in 1 .. 2 |-> s[m]] /\ s[1].op = On("luksFormat", r) /\ s[2].op = On("luksOpen", r)
        BY DEF SystemOp
    <2> HIDE DEF arg, r, s
    <2>4. IsList(s) /\ OpsOf(s) = [m \in 1 .. 2 |-> s[m].op]
        <3>1. PICK n \in Nat : n = 2 /\ s = [m \in 1 .. n |-> s[m]]
            BY <2>3
        <3> QED
            BY <3>1, OpsAt
    <2>5. [m \in 1 .. 2 |-> s[m].op] = <<On("luksFormat", r), On("luksOpen", r)>>
        BY <2>3
    <2> QED
        BY <2>1, <2>2, <2>4, <2>5 DEF Makes
<1> QED
    BY <1>4, <1>5

LEMMA SortedSorts ==
    ASSUME NEW l \in Nat, NEW S \in SUBSET (1 .. l), NEW key, DOMAIN key = S,
           HasFirsts(S, ByKey(S, key))
    PROVE  Sorts(Sorted(key), S, ByKey(S, key))
<1> DEFINE R == ByKey(S, key)
           Good(o) == \A m, n \in DOMAIN o : m < n =>
                          key[o[m]] < key[o[n]] \/ (key[o[m]] = key[o[n]] /\ o[m] < o[n])
<1>1. IsFiniteSet(S)
    BY SmallSets
<1>2. PICK o : Sorts(o, S, R)
    BY <1>1, SortExists
<1>3. ASSUME NEW t \in [1 .. Cardinality(S) -> S]
      PROVE  Good(t) <=> Sorts(t, S, R)
    <2>1. \A i_, j \in S : <<i_, j>> \in R <=> key[i_] < key[j] \/ (key[i_] = key[j] /\ i_ < j)
        BY DEF ByKey
    <2>2. DOMAIN t = 1 .. Cardinality(S) /\ \A m \in 1 .. Cardinality(S) : t[m] \in S
        OBVIOUS
    <2> HIDE DEF R
    <2> QED
        BY <2>1, <2>2 DEF Sorts
<1>4. Sorted(key) = CHOOSE t \in [1 .. Cardinality(S) -> S] : Good(t)
    BY DEF Sorted, Ordered
<1>5. o \in [1 .. Cardinality(S) -> S]
    BY <1>2 DEF Sorts
<1> HIDE DEF R, Good
<1>6. Sorted(key) \in [1 .. Cardinality(S) -> S] /\ Good(Sorted(key))
    BY <1>2, <1>3, <1>4, <1>5
<1> QED
    BY <1>3, <1>6 DEF R

\* The Rust library's order of the mounts is the port's.
LEMMA SlashesAlike ==
    ASSUME config \in InstallConfig, NEW n \in DOMAIN parts(config)
    PROVE  /\ Slashes(Ported.parts[n]) \in Nat
           /\ Slashes(Ported.parts[n]) = SlashCount(parts(config)[n])
           /\ MountDepth(Ported.parts[n]) =
                  IF IsRoot(parts(config)[n]) THEN 0 ELSE SlashCount(parts(config)[n])
<1>1. PICK l \in Nat :
          /\ DOMAIN parts(config) = 1 .. l
          /\ \A m \in 1 .. l : /\ parts(config)[m] \in PartitionSpec
                               /\ Ported.parts[m].mp = parts(config)[m].mount_point
    BY PartsAt
<1>2. parts(config)[n].mount_point \in Seq(STRING)
    BY <1>1 DEF PartitionSpec
<1>3. Len(parts(config)[n].mount_point) \in Nat
    BY <1>2
<1> QED
    BY <1>1, <1>3 DEF Slashes, SlashCount, MountDepth, IsRoot

LEMMA PortedParts ==
    ASSUME config \in InstallConfig, NEW l \in Nat, DOMAIN parts(config) = 1 .. l,
           DOMAIN Ported.parts = 1 .. l
    PROVE  OfParts(Ported.parts, l)
BY SlashesAlike DEF OfParts

LEMMA MountsInOrder ==
    ASSUME config \in InstallConfig
    PROVE  MountSequence(config) = MountOrder(Ported.parts)
<1>1. PICK l \in Nat : DOMAIN parts(config) = 1 .. l /\ DOMAIN Ported.parts = 1 .. l
    BY PartsAt
<1> DEFINE key == [n \in 1 .. l |-> IF IsRoot(parts(config)[n]) THEN 0 ELSE SlashCount(parts(config)[n])]
           S == 1 .. l
<1>2. MountSequence(config) = Sorted(key)
    BY <1>1 DEF MountSequence
<1>3. key = Depths(Ported.parts)
    BY <1>1, SlashesAlike DEF Depths
<1>4. OneWay(S, ByKey(S, key)) /\ Sorts(MountOrder(Ported.parts), S, ByKey(S, key))
    BY <1>1, <1>3, PortedParts, MountOrderSorts
<1>5. \A n \in S : key[n] \in Int /\ 0 <= key[n]
    BY <1>1, SlashesAlike
<1>6. DOMAIN key = S
    OBVIOUS
<1> HIDE DEF key
<1>7. S \in SUBSET (1 .. l)
    OBVIOUS
<1> HIDE DEF S
<1>8. IsFiniteSet(S) /\ S \in SUBSET Nat
    BY <1>7, SmallSets
<1>9. HasFirsts(S, ByKey(S, key))
    <2>1. PICK low \in Int : low = 0
        OBVIOUS
    <2> QED
        BY <1>5, <1>8, <2>1, ByKeySorts
<1>10. Sorts(Sorted(key), S, ByKey(S, key))
    BY <1>6, <1>7, <1>9, SortedSorts
<1> QED
    BY <1>2, <1>4, <1>8, <1>10, SortIsOnly

LEMMA MountAlike ==
    ASSUME config \in InstallConfig
    PROVE  Makes(plan_mount_ops(config), MountPlan(Ported))
<1>1. PICK l \in Nat :
          /\ DOMAIN parts(config) = 1 .. l /\ DOMAIN Ported.parts = 1 .. l
          /\ \A n \in 1 .. l :
                 /\ Ported.parts[n].mp = parts(config)[n].mount_point
                 /\ Ported.parts[n].fs = "swap" <=> IsSwap(parts(config)[n])
    BY PartsAt
<1>2. PICK o : o = MountSequence(config) /\ o = MountOrder(Ported.parts)
    BY MountsInOrder
<1>3. PICK c \in Nat : o \in [1 .. c -> 1 .. l]
    <2>1. Sorts(o, 1 .. l, ByKey(1 .. l, Depths(Ported.parts)))
        BY <1>1, <1>2, PortedParts, MountOrderSorts
    <2>2. Cardinality(1 .. l) \in Nat
        BY SmallSets
    <2> QED
        BY <2>1, <2>2 DEF Sorts
<1> DEFINE device(n) == IF config.disk.encrypt /\ IsRoot(parts(config)[n]) THEN Mapper
                        ELSE PartitionOf(config, n)
           ops(n) == IF IsSwap(parts(config)[n])
                     THEN <<SystemOp(NonFatal(On("swapon", n)), [device |-> PartitionOf(config, n)])>>
                     ELSE Plain(<<Put("mountpoint", parts(config)[n].mount_point)>>)
                          \o <<SystemOp(On("mount", n), [device |-> device(n)])>>
           s == [m \in 1 .. c |-> ops(o[m])]
           ps == [m \in 1 .. c |->
                     IF Ported.parts[o[m]].fs = "swap" THEN <<NonFatal(On("swapon", o[m]))>>
                     ELSE <<Put("mountpoint", Ported.parts[o[m]].mp), On("mount", o[m])>>]
<1>4. plan_mount_ops(config).operations = FlattenSeq(s)
    BY <1>2, <1>3 DEF plan_mount_ops, PhaseOps, ForEach
<1>5. MountPlan(Ported) = FlattenSeq(ps)
    BY <1>2, <1>3 DEF MountPlan, ForEach
<1>6. ASSUME NEW m \in 1 .. c PROVE IsList(s[m]) /\ OpsOf(s[m]) = ps[m]
    <2>1. o[m] \in 1 .. l /\ s[m] = ops(o[m])
        BY <1>3
    <2>2. CASE IsSwap(parts(config)[o[m]])
        <3>1. ps[m] = <<NonFatal(On("swapon", o[m]))>>
            BY <1>1, <2>1, <2>2
        <3>2. s[m] = <<SystemOp(NonFatal(On("swapon", o[m])), [device |-> PartitionOf(config, o[m])])>>
            BY <2>2
        <3> QED
            BY <3>1, <3>2, OpsOfOne
    <2>3. CASE ~IsSwap(parts(config)[o[m]])
        <3> DEFINE put == Put("mountpoint", parts(config)[o[m]].mount_point)
                   mount == On("mount", o[m])
        <3>1. ps[m] = <<put, mount>>
            BY <1>1, <2>1, <2>3
        <3>2. s[m] = Plain(<<put>>) \o <<SystemOp(mount, [device |-> device(o[m])])>>
            BY <2>3
        <3> HIDE DEF put, mount, device
        <3>3. IsList(Plain(<<put>>)) /\ OpsOf(Plain(<<put>>)) = <<put>>
            BY PlainOne
        <3>4. <<put>> \o <<mount>> = <<put, mount>>
            BY PairJoined
        <3> DEFINE last == <<SystemOp(mount, [device |-> device(o[m])])>>
        <3>5. IsList(last) /\ OpsOf(last) = <<mount>>
            BY OpsOfOne
        <3>6. s[m] = Plain(<<put>>) \o last
            BY <3>2
        <3> HIDE DEF last, s, ps
        <3> QED
            BY <3>1, <3>3, <3>4, <3>5, <3>6, OpsJoined
    <2> QED
        BY <2>2, <2>3
<1>7. IsList(FlattenSeq(s)) /\ OpsOf(FlattenSeq(s)) = FlattenSeq(ps)
    <2>1. s = [m \in 1 .. c |-> s[m]] /\ \A m \in 1 .. c : IsList(s[m])
        BY <1>6
    <2>2. [m \in 1 .. c |-> OpsOf(s[m])] = ps
        BY <1>6
    <2> HIDE DEF s, ps
    <2> QED
        BY <2>1, <2>2, OpsFlattened
<1> QED
    BY <1>4, <1>5, <1>7 DEF Makes

LEMMA BaseAlike ==
    ASSUME NEW c
    PROVE  Makes(plan_install_base_ops, BasePlan(c))
<1>1. PICK n \in Nat : n = 3
    OBVIOUS
<1>2. PICK s : s = BasePlan(c)
    OBVIOUS
<1>3. s = [m \in 1 .. n |-> s[m]]
    BY <1>1, <1>2 DEF BasePlan
<1>4. plan_install_base_ops.operations = Plain(s)
    BY <1>2 DEF plan_install_base_ops, BasePlan, PhaseOps
<1> QED
    BY <1>2, <1>3, <1>4, OpsOfPlain DEF Makes

LEMMA PackagesAlike ==
    ASSUME config \in InstallConfig
    PROVE  Makes(plan_install_packages_ops(config), PackagesPlan(Ported))
<1> DEFINE set == default_packages(config.mode).mode_packages
           op == Put("packages", <<>>)
           s == IF set # {} THEN <<SystemOp(op, set)>> ELSE <<>>
           Extra(x) == SystemOp(NonFatal(Put("packages", <<>>)), x)
<1>1. default_packages(config.mode).extra_packages = {}
    BY DEF default_packages
<1>2. plan_install_packages_ops(config).operations = s \o <<>>
    BY <1>1 DEF plan_install_packages_ops, PhaseOps, If
<1>3. config.mode \in InstallMode
    BY DEF InstallConfig
<1>4. PortMode[config.mode] \in {"server", "desktop"} <=> config.mode \in {"Server", "Desktop"}
    BY <1>3 DEF PortMode, InstallMode
<1>5. set # {} <=> config.mode \in {"Server", "Desktop"}
    BY DEF default_packages
<1>6. PackagesPlan(Ported) = IF set # {} THEN <<op>> ELSE <<>>
    BY <1>4, <1>5 DEF PackagesPlan, Ported
<1> HIDE DEF set, op
<1>7. IsList(s) /\ OpsOf(s) = IF set # {} THEN <<op>> ELSE <<>>
    <2>1. CASE set # {}
        BY <2>1, OpsOfOne
    <2>2. CASE set = {}
        BY <2>2 DEF IsList, OpsOf
    <2> QED
        BY <2>1, <2>2
<1> HIDE DEF s
<1>8. s \o <<>> = s
    BY <1>7, ConcatEmptySeq DEF IsList
<1> QED
    BY <1>2, <1>6, <1>7, <1>8 DEF Makes

LEMMA LocaleAlike ==
    ASSUME config \in InstallConfig
    PROVE  Makes(plan_locale_ops(config), LocalePlan(Ported))
<1> DEFINE a == Put("locale.conf", <<"etc">>)
           b == Put("localtime", <<"etc">>)
           c == Put("machine-id", <<"etc">>)
           d == Put("fstab", <<"etc">>)
           arg == generate_fstab(parts(config), config.disk.encrypt)
           s == <<a, b, c>>
           t == <<SystemOp(d, arg)>>
<1>1. plan_locale_ops(config).operations = Plain(s) \o t
    BY DEF plan_locale_ops, PhaseOps
<1>2. LocalePlan(Ported) = <<a, b, c, d>>
    BY DEF LocalePlan
<1> HIDE DEF a, b, c, d, arg
<1>3. PICK n \in Nat : n = 3
    OBVIOUS
<1>4. s = [m \in 1 .. n |-> s[m]]
    BY <1>3
<1>5. IsList(t) /\ OpsOf(t) = <<d>>
    BY OpsOfOne
<1>6. s \o <<d>> = <<a, b, c, d>>
    BY ThreeOne
<1> HIDE DEF s, t
<1>7. IsList(Plain(s)) /\ OpsOf(Plain(s)) = s
    BY <1>4, OpsOfPlain
<1> QED
    BY <1>1, <1>2, <1>5, <1>6, <1>7, OpsJoined, ZenonT(30) DEF Makes

LEMMA PlainList ==
    ASSUME NEW s, IsList(s)
    PROVE  IsList(Plain(s)) /\ OpsOf(Plain(s)) = s
BY ListIs, OpsOfPlain

LEMMA UserPlanAlike ==
    ASSUME config \in InstallConfig
    PROVE  Makes(plan_user_ops(config), UserPlan(Ported))
<1> DEFINE a == FromBase("account", <<"etc">>)
           b == If(config.user.ssh_keys # <<>>, <<Put("dir", <<"home">>), Put("keys", <<"home">>)>>)
           c == If(config.user.enable_sudo, <<NonFatal(FromBase("wheel", <<"etc">>))>>)
<1>1. plan_user_ops(config).operations = Plain(<<a>> \o b \o c)
    BY DEF plan_user_ops, PhaseOps
<1>2. config.user.enable_sudo \in BOOLEAN
    BY ConfigFields
<1>3. /\ "keys" \in Ported.user <=> config.user.ssh_keys # <<>>
      /\ "sudo" \in Ported.user <=> config.user.enable_sudo
    BY DEF Ported, When
<1>4. UserPlan(Ported) = <<a>> \o b \o c
    BY <1>2, <1>3 DEF UserPlan, If
<1>5. IsList(b) /\ IsList(c)
    BY ShortLists DEF If
<1> HIDE DEF a, b, c
<1>6. IsList(<<a>> \o b)
    BY <1>5, ShortLists, ListsJoined
<1>7. IsList(<<a>> \o b \o c)
    BY <1>5, <1>6, ListsJoined
<1> QED
    BY <1>1, <1>4, <1>7, PlainList DEF Makes

LEMMA NetworkPlanAlike ==
    ASSUME config \in InstallConfig
    PROVE  Makes(plan_network_ops(config), NetworkPlan(Ported))
<1> DEFINE a == <<Put("hostname", <<"etc">>), Put("hosts", <<"etc">>)>>
           b == If(config.network.dns # <<>>, <<Put("resolv.conf", <<"etc">>)>>)
           static == ~config.network.use_dhcp /\ config.network.static_ip # None
           c == If(static, <<Put("dir", <<"etc">>), Put("static.network", <<"etc">>)>>)
<1>1. plan_network_ops(config).operations = Plain(a \o b \o c)
    BY DEF plan_network_ops, PhaseOps
<1>2. /\ "dns" \in Ported.net <=> config.network.dns # <<>>
      /\ "static" \in Ported.net <=> static
    BY DEF Ported, When
<1>3. NetworkPlan(Ported) = a \o b \o c
    BY <1>2 DEF NetworkPlan, If
<1>4. IsList(a) /\ IsList(b) /\ IsList(c)
    BY ShortLists DEF If
<1> HIDE DEF a, b, c
<1>5. IsList(a \o b)
    BY <1>4, ListsJoined
<1>6. IsList(a \o b \o c)
    BY <1>4, <1>5, ListsJoined
<1> QED
    BY <1>1, <1>3, <1>6, PlainList DEF Makes

LEMMA SecurityAlike ==
    ASSUME config \in InstallConfig
    PROVE  Makes(plan_security_ops(config), SecurityPlan(Ported))
<1> DEFINE a == If(config.security.firewall_default = "Deny", <<Put("nftables.conf", <<"etc">>)>>)
           b == If(config.security.enable_dmverity,
                   <<Put("dir", <<"etc", "ima">>), Put("policy.conf", <<"etc", "ima">>)>>)
           c == <<Put("sysctl", <<"etc">>)>>
<1>1. plan_security_ops(config).operations = Plain(a \o b \o c)
    BY DEF plan_security_ops, PhaseOps
<1>2. /\ "deny" \in Ported.sec <=> config.security.firewall_default = "Deny"
      /\ "verity" \in Ported.sec <=> config.security.enable_dmverity
    BY DEF Ported, When
<1>3. SecurityPlan(Ported) = a \o b \o c
    BY <1>2 DEF SecurityPlan, If
<1>4. IsList(a) /\ IsList(b) /\ IsList(c)
    BY ShortLists DEF If
<1> HIDE DEF a, b, c
<1>5. IsList(a \o b)
    BY <1>4, ListsJoined
<1>6. IsList(a \o b \o c)
    BY <1>4, <1>5, ListsJoined
<1> QED
    BY <1>1, <1>3, <1>6, PlainList DEF Makes

LEMMA MakesJoined ==
    ASSUME NEW planned, NEW s, NEW t, NEW ops, planned.operations = s \o t,
           IsList(s), IsList(t), ops = OpsOf(s) \o OpsOf(t)
    PROVE  Makes(planned, ops)
BY OpsJoined DEF Makes

LEMMA OpsOfTwo ==
    ASSUME NEW x, NEW y, NEW v, NEW w
    PROVE  LET s == <<SystemOp(x, v), SystemOp(y, w)>> IN IsList(s) /\ OpsOf(s) = <<x, y>>
<1>1. PICK n \in Nat : n = 2
    OBVIOUS
<1>2. PICK s : s = <<SystemOp(x, v), SystemOp(y, w)>>
    OBVIOUS
<1>3. s = [m \in 1 .. n |-> s[m]] /\ s[1].op = x /\ s[2].op = y
    BY <1>1, <1>2 DEF SystemOp
<1>4. IsList(s) /\ OpsOf(s) = [m \in 1 .. n |-> s[m].op]
    BY <1>3, OpsAt
<1>5. [m \in 1 .. n |-> s[m].op] = <<x, y>>
    BY <1>1, <1>3
<1> QED
    BY <1>2, <1>4, <1>5

LEMMA BootloaderAlike ==
    ASSUME config \in InstallConfig
    PROVE  Makes(plan_bootloader_ops(config, uefi), BootloaderPlan(Ported))
<1> DEFINE cmdline == kernel_cmdline(config)
           loader == Esp \o <<"loader">>
           entries == loader \o <<"entries">>
           rescue == <<<<"single">>>>
<1>1. Ported.boot = IF config.bootloader.bootloader_type = "Grub2" THEN "grub2" ELSE "systemd"
    BY DEF Ported
<1>2. Ported.uefi = uefi
    BY DEF Ported
<1>3. CASE config.bootloader.bootloader_type = "Grub2"
    <2> DEFINE a == Put("loader", IF uefi THEN Esp ELSE <<"boot">>)
               b == Put("dir", <<"boot", "grub">>)
               c == Put("grub.cfg", <<"boot", "grub">>)
               last == <<SystemOp(c, cmdline \o rescue)>>
    <2>1. plan_bootloader_ops(config, uefi).operations = Plain(<<a, b>>) \o last
        BY <1>3 DEF plan_bootloader_ops, PhaseOps
    <2>2. BootloaderPlan(Ported) = <<a, b, c>>
        BY <1>1, <1>2, <1>3 DEF BootloaderPlan, GrubPlan
    <2> HIDE DEF a, b, c, cmdline, rescue
    <2>3. IsList(last) /\ OpsOf(last) = <<c>>
        BY OpsOfOne
    <2> HIDE DEF last
    <2>4. IsList(Plain(<<a, b>>)) /\ OpsOf(Plain(<<a, b>>)) = <<a, b>>
        BY ShortLists, PlainList
    <2>5. <<a, b, c>> = <<a, b>> \o <<c>>
        BY TwoOne
    <2> QED
        BY <2>1, <2>2, <2>3, <2>4, <2>5, MakesJoined
<1>4. CASE config.bootloader.bootloader_type # "Grub2"
    <2> DEFINE a == Put("loader", Esp)
               b == Put("dir", loader)
               c == Put("loader.conf", loader)
               d == Put("dir", entries)
               e == Put("entry", entries)
               f == Put("rescue entry", entries)
               s == <<a, b, c, d>>
               last == <<SystemOp(e, cmdline \o <<>>), SystemOp(f, cmdline \o rescue)>>
    <2>1. plan_bootloader_ops(config, uefi).operations = Plain(s) \o last
        BY <1>4 DEF plan_bootloader_ops, PhaseOps
    <2>2. entries = Esp \o <<"loader", "entries">>
        <3>1. PICK S : S = {"boot", "efi", "loader", "entries"}
            OBVIOUS
        <3>2. Esp \in Seq(S) /\ <<"loader">> \in Seq(S) /\ <<"entries">> \in Seq(S)
            BY <3>1 DEF Esp
        <3>3. (Esp \o <<"loader">>) \o <<"entries">> = Esp \o (<<"loader">> \o <<"entries">>)
            BY ONLY <3>2, ConcatAssociative
        <3> QED
            BY <3>3, PairJoined
    <2>3. BootloaderPlan(Ported) = <<a, b, c, d, e, f>>
        BY <1>1, <1>4, <2>2 DEF BootloaderPlan, SystemdPlan
    <2>4. PICK n \in Nat : n = 4
        OBVIOUS
    <2>5. s = [m \in 1 .. n |-> s[m]]
        BY <2>4
    <2> HIDE DEF a, b, c, d, e, f, cmdline, rescue
    <2>6. IsList(last) /\ OpsOf(last) = <<e, f>>
        BY OpsOfTwo
    <2>7. <<a, b, c, d, e, f>> = s \o <<e, f>>
        BY FourTwo
    <2> HIDE DEF s, last
    <2>8. IsList(Plain(s)) /\ OpsOf(Plain(s)) = s
        BY <2>5, OpsOfPlain
    <2> QED
        BY <2>1, <2>3, <2>6, <2>7, <2>8, MakesJoined
<1> QED
    BY <1>3, <1>4

LEMMA FirstBootAlike ==
    ASSUME config \in InstallConfig
    PROVE  Makes(plan_first_boot_ops(config), FirstBootPlan(Ported))
<1>1. services(config.mode) = Services(PortMode[config.mode]) /\ services(config.mode) \in Nat
    <2>1. config.mode \in InstallMode
        BY DEF InstallConfig
    <2> QED
        BY <2>1 DEF InstallMode, PortMode, services, Services
<1>2. PICK n \in Nat : n = services(config.mode)
    BY <1>1
<1> DEFINE s == [m \in 1 .. n |-> NonFatal(FromBase("service", <<"etc">>))]
           t == <<Marker>>
<1>3. plan_first_boot_ops(config).operations = Plain(s \o t)
    BY <1>2 DEF plan_first_boot_ops, PhaseOps, Marker
<1>4. FirstBootPlan(Ported) = Append(s, Marker)
    BY <1>1, <1>2 DEF FirstBootPlan, Ported
<1>5. Append(s, Marker) = s \o t
    <2>1. PICK S : S = {Marker, NonFatal(FromBase("service", <<"etc">>))}
        OBVIOUS
    <2>2. s \in Seq(S) /\ Marker \in S
        BY <2>1
    <2> HIDE DEF s
    <2> QED
        BY ONLY <2>2, AppendIsConcat DEF t
<1>6. IsList(s) /\ IsList(t)
    <2>1. s = [m \in 1 .. n |-> s[m]]
        OBVIOUS
    <2> HIDE DEF s
    <2> QED
        BY <2>1, ShortLists, SpelledIs DEF Spelled
<1> HIDE DEF s, t
<1>7. IsList(s \o t)
    BY <1>6, ListsJoined
<1> QED
    BY <1>3, <1>4, <1>5, <1>7, PlainList DEF Makes

\* The Rust library's order of unmounting is the port's.
LEMMA UnmountsInOrder ==
    ASSUME config \in InstallConfig
    PROVE  LET swap == {n \in DOMAIN parts(config) : IsSwap(parts(config)[n])}
           IN  Sorted([n \in DOMAIN parts(config) \ swap |-> -SlashCount(parts(config)[n])])
                   = CleanupOrder(Ported.parts)
<1>1. PICK l \in Nat :
          /\ DOMAIN parts(config) = 1 .. l /\ DOMAIN Ported.parts = 1 .. l
          /\ \A n \in 1 .. l : Ported.parts[n].fs = "swap" <=> IsSwap(parts(config)[n])
    BY PartsAt
<1> DEFINE swap == {n \in DOMAIN parts(config) : IsSwap(parts(config)[n])}
           key == [n \in DOMAIN parts(config) \ swap |-> -SlashCount(parts(config)[n])]
           S == FileSystems(Ported.parts)
<1>2. DOMAIN parts(config) \ swap = S
    BY <1>1 DEF FileSystems
<1>3. key = Heights(Ported.parts)
    <2>1. \A n \in S : SlashCount(parts(config)[n]) = Slashes(Ported.parts[n])
        BY <1>1, SlashesAlike DEF FileSystems
    <2> QED
        BY <1>2, <2>1 DEF Heights
<1>4. DOMAIN key = S
    BY <1>2
<1>5. S \in SUBSET (1 .. l)
    BY <1>1 DEF FileSystems
<1> HIDE DEF key, S
<1>6. /\ HasFirsts(S, ByKey(S, key)) /\ OneWay(S, ByKey(S, key))
      /\ Sorts(CleanupOrder(Ported.parts), S, ByKey(S, key))
    BY <1>1, <1>3, PortedParts, CleanupOrderSorts DEF S
<1>7. Sorts(Sorted(key), S, ByKey(S, key))
    BY <1>4, <1>5, <1>6, SortedSorts
<1>8. IsFiniteSet(S)
    BY <1>5, SmallSets
<1>9. Sorted(key) = CleanupOrder(Ported.parts)
    BY <1>6, <1>7, <1>8, SortIsOnly
<1> QED
    BY <1>9 DEF key

LEMMA CleanupAlike ==
    ASSUME config \in InstallConfig
    PROVE  Makes(plan_cleanup_ops(config), CleanupPlan(Ported))
<1>1. PICK l \in Nat :
          /\ DOMAIN parts(config) = 1 .. l /\ DOMAIN Ported.parts = 1 .. l
          /\ InOrder(parts(config)) = [n \in 1 .. l |-> n]
          /\ InOrder(Ported.parts) = [n \in 1 .. l |-> n]
          /\ \A n \in 1 .. l : Ported.parts[n].fs = "swap" <=> IsSwap(parts(config)[n])
    BY PartsAt
<1> DEFINE swap == {n \in DOMAIN parts(config) : IsSwap(parts(config)[n])}
           o == CleanupOrder(Ported.parts)
           a == <<Nothing>>
           b == ForEach(o, LAMBDA n : <<On("unmount", n)>>)
           freed(n) == <<SystemOp(NonFatal(On("release", n)), [device |-> PartitionOf(config, n)])>>
           s == [n \in 1 .. l |-> If(n \in swap, freed(n))]
           ps == [n \in 1 .. l |-> If(Ported.parts[n].fs = "swap", <<NonFatal(On("release", n))>>)]
           d == If(config.disk.encrypt, <<NonFatal(On("release", 0))>>)
<1>2. plan_cleanup_ops(config).operations = Plain(a \o b) \o FlattenSeq(s) \o Plain(d)
    <2>1. ForEach(InOrder(parts(config)), LAMBDA n : If(n \in swap, freed(n))) = FlattenSeq(s)
        BY <1>1 DEF ForEach
    <2>2. Sorted([n \in DOMAIN parts(config) \ swap |-> -SlashCount(parts(config)[n])]) = o
        BY UnmountsInOrder
    <2> HIDE DEF s, o
    <2> QED
        BY <2>1, <2>2 DEF plan_cleanup_ops, PhaseOps
<1>3. CleanupPlan(Ported) = a \o b \o FlattenSeq(ps) \o d
    <2>1. ForEach(InOrder(Ported.parts), LAMBDA n :
              If(Ported.parts[n].fs = "swap", <<NonFatal(On("release", n))>>)) = FlattenSeq(ps)
        BY <1>1, ZenonT(30) DEF ForEach
    <2>2. Ported.encrypt = config.disk.encrypt
        BY DEF Ported
    <2> HIDE DEF ps
    <2> QED
        BY <2>1, <2>2 DEF CleanupPlan
<1>4. IsList(b)
    <2>1. PICK c \in Nat : DOMAIN o = 1 .. c
        <3>1. Sorts(o, FileSystems(Ported.parts), ByKey(FileSystems(Ported.parts), Heights(Ported.parts)))
            BY <1>1, PortedParts, CleanupOrderSorts
        <3>2. FileSystems(Ported.parts) \in SUBSET (1 .. l)
            BY <1>1 DEF FileSystems
        <3>3. Cardinality(FileSystems(Ported.parts)) \in Nat
            BY <3>2, SmallSets
        <3> QED
            BY <3>1, <3>3 DEF Sorts
    <2> HIDE DEF o
    <2> DEFINE u == [m \in 1 .. c |-> <<On("unmount", o[m])>>]
    <2>2. b = FlattenSeq(u)
        BY <2>1 DEF ForEach
    <2>3. u = [m \in 1 .. c |-> u[m]] /\ \A m \in 1 .. c : IsList(u[m])
        BY ShortLists
    <2> HIDE DEF u
    <2> QED
        BY <2>2, <2>3, OpsFlattened
<1>5. IsList(FlattenSeq(s)) /\ OpsOf(FlattenSeq(s)) = FlattenSeq(ps)
    <2>1. ASSUME NEW n \in 1 .. l PROVE IsList(s[n]) /\ OpsOf(s[n]) = ps[n]
        <3>1. CASE IsSwap(parts(config)[n])
            <4>1. s[n] = freed(n) /\ ps[n] = <<NonFatal(On("release", n))>>
                BY <1>1, <3>1 DEF If
            <4> QED
                BY <4>1, OpsOfOne
        <3>2. CASE ~IsSwap(parts(config)[n])
            <4>1. s[n] = <<>> /\ ps[n] = <<>>
                BY <1>1, <3>2 DEF If
            <4>2. OpsOf(<<>>) = <<>>
                BY DEF OpsOf
            <4> QED
                BY <4>1, <4>2, ShortLists
        <3> QED
            BY <3>1, <3>2
    <2>2. s = [n \in 1 .. l |-> s[n]] /\ ps = [n \in 1 .. l |-> ps[n]]
        OBVIOUS
    <2> HIDE DEF s, ps
    <2>3. [n \in 1 .. l |-> OpsOf(s[n])] = ps
        BY <2>1, <2>2
    <2> QED
        BY <2>1, <2>2, <2>3, OpsFlattened
<1>6. IsList(a) /\ IsList(d)
    BY ShortLists DEF If
<1> HIDE DEF a, b, s, ps, d
<1>7. IsList(a \o b)
    BY <1>4, <1>6, ListsJoined
<1>8. /\ IsList(Plain(a \o b)) /\ OpsOf(Plain(a \o b)) = a \o b
      /\ IsList(Plain(d)) /\ OpsOf(Plain(d)) = d
    BY <1>6, <1>7, PlainList
<1>9. /\ IsList(Plain(a \o b) \o FlattenSeq(s))
      /\ OpsOf(Plain(a \o b) \o FlattenSeq(s)) = a \o b \o FlattenSeq(ps)
    BY <1>5, <1>8, OpsJoined, ZenonT(30)
<1> QED
    BY <1>2, <1>3, <1>8, <1>9, MakesJoined

\* Phase by phase.
PortPhase(planned) == Phase(index(planned.phase), OpsOf(planned.operations))

LEMMA PhaseAlike ==
    ASSUME NEW planned, NEW p, NEW number, NEW ops,
           planned.phase = p, index(p) = number, Makes(planned, ops)
    PROVE  PortPhase(planned) = Phase(number, ops)
BY DEF PortPhase, Makes

LEMMA PlanAlike ==
    ASSUME config \in InstallConfig, plan = RsExecutionPlan(config, uefi)
    PROVE  PortPlan = full_execution_plan(Ported)
<1>1. PortPlan = [n \in DOMAIN plan |-> PortPhase(plan[n])]
    BY DEF PortPlan, PortPhase, OpsOf
<1>2. PortPlan =
          <<PortPhase(plan_partition_ops(config)), PortPhase(plan_encryption_ops(config)),
            PortPhase(plan_format_ops(config)), PortPhase(plan_mount_ops(config)),
            PortPhase(plan_install_base_ops), PortPhase(plan_install_packages_ops(config)),
            PortPhase(plan_bootloader_ops(config, uefi)), PortPhase(plan_user_ops(config)),
            PortPhase(plan_network_ops(config)), PortPhase(plan_locale_ops(config)),
            PortPhase(plan_security_ops(config)), PortPhase(plan_first_boot_ops(config)),
            PortPhase(plan_cleanup_ops(config))>>
    BY <1>1 DEF RsExecutionPlan
<1>3. Ported.user # {}
    BY DEF Ported
<1>4. full_execution_plan(Ported) =
          <<Phase(PARTITION, PartitionPlan(Ported)), Phase(ENCRYPTION, EncryptionPlan(Ported)),
            Phase(FORMAT, FormatPlan(Ported)), Phase(MOUNT, MountPlan(Ported)),
            Phase(BASE, BasePlan(Ported)), Phase(PACKAGES, PackagesPlan(Ported)),
            Phase(BOOTLOADER, BootloaderPlan(Ported))>>
          \o <<Phase(USER, UserPlan(Ported))>>
          \o <<Phase(CONFIGURE, NetworkPlan(Ported)), Phase(CONFIGURE, LocalePlan(Ported)),
               Phase(SECURITY, SecurityPlan(Ported)), Phase(FIRST_BOOT, FirstBootPlan(Ported)),
               Phase(CLEANUP, CleanupPlan(Ported))>>
    BY <1>3 DEF full_execution_plan, If
<1>5. full_execution_plan(Ported) =
          <<Phase(PARTITION, PartitionPlan(Ported)), Phase(ENCRYPTION, EncryptionPlan(Ported)),
            Phase(FORMAT, FormatPlan(Ported)), Phase(MOUNT, MountPlan(Ported)),
            Phase(BASE, BasePlan(Ported)), Phase(PACKAGES, PackagesPlan(Ported)),
            Phase(BOOTLOADER, BootloaderPlan(Ported)), Phase(USER, UserPlan(Ported)),
            Phase(CONFIGURE, NetworkPlan(Ported)), Phase(CONFIGURE, LocalePlan(Ported)),
            Phase(SECURITY, SecurityPlan(Ported)), Phase(FIRST_BOOT, FirstBootPlan(Ported)),
            Phase(CLEANUP, CleanupPlan(Ported))>>
    BY <1>4, Thirteen
<1>6. PortPhase(plan_partition_ops(config)) = Phase(PARTITION, PartitionPlan(Ported))
    BY PartitionAlike, PhaseAlike, Numbers, PlannedPhases
<1>7. PortPhase(plan_encryption_ops(config)) = Phase(ENCRYPTION, EncryptionPlan(Ported))
    BY EncryptionAlike, PhaseAlike, Numbers, PlannedPhases
<1>8. PortPhase(plan_format_ops(config)) = Phase(FORMAT, FormatPlan(Ported))
    BY FormatAlike, PhaseAlike, Numbers, PlannedPhases
<1>9. PortPhase(plan_mount_ops(config)) = Phase(MOUNT, MountPlan(Ported))
    BY MountAlike, PhaseAlike, Numbers, PlannedPhases
<1>10. PortPhase(plan_install_base_ops) = Phase(BASE, BasePlan(Ported))
    BY BaseAlike, PhaseAlike, Numbers, PlannedPhases
<1>11. PortPhase(plan_install_packages_ops(config)) = Phase(PACKAGES, PackagesPlan(Ported))
    BY PackagesAlike, PhaseAlike, Numbers, PlannedPhases
<1>12. PortPhase(plan_bootloader_ops(config, uefi)) = Phase(BOOTLOADER, BootloaderPlan(Ported))
    BY BootloaderAlike, PhaseAlike, Numbers, PlannedPhases
<1>13. PortPhase(plan_user_ops(config)) = Phase(USER, UserPlan(Ported))
    BY UserPlanAlike, PhaseAlike, Numbers, PlannedPhases
<1>14. PortPhase(plan_network_ops(config)) = Phase(CONFIGURE, NetworkPlan(Ported))
    BY NetworkPlanAlike, PhaseAlike, Numbers, PlannedPhases
<1>15. PortPhase(plan_locale_ops(config)) = Phase(CONFIGURE, LocalePlan(Ported))
    BY LocaleAlike, PhaseAlike, Numbers, PlannedPhases
<1>16. PortPhase(plan_security_ops(config)) = Phase(SECURITY, SecurityPlan(Ported))
    BY SecurityAlike, PhaseAlike, Numbers, PlannedPhases
<1>17. PortPhase(plan_first_boot_ops(config)) = Phase(FIRST_BOOT, FirstBootPlan(Ported))
    BY FirstBootAlike, PhaseAlike, Numbers, PlannedPhases
<1>18. PortPhase(plan_cleanup_ops(config)) = Phase(CLEANUP, CleanupPlan(Ported))
    BY CleanupAlike, PhaseAlike, Numbers, PlannedPhases
<1> QED
    BY <1>2, <1>5, <1>6, <1>7, <1>8, <1>9, <1>10, <1>11, <1>12, <1>13, <1>14, <1>15,
       <1>16, <1>17, <1>18

\* For every configuration, the planners of partitioning.cyr and rootfs.cyr
\* plan the operations that those of partitioning.rs and rootfs.rs plan, in
\* their order: the mounts by depth and the unmounts by height included.
THEOREM PlansAlike == Spec => []PortPlansAlike
<1>1. ConfigKnown /\ RecInv => PortPlansAlike
    <2> SUFFICES ASSUME ConfigKnown, RecInv PROVE PortPlan = full_execution_plan(Ported)
        BY DEF PortPlansAlike
    <2>1. config \in InstallConfig /\ plan = RsExecutionPlan(config, uefi)
        BY ConfigTypes DEF ConfigKnown, RecInv, Client
    <2> QED
        BY <2>1, PlanAlike
<1> QED
    BY <1>1, ConfigStays, RecAlways, PTL

\* What an operation of the Rust library is for, and its phase's commands.
LEMMA MadeOf ==
    ASSUME NEW planned, NEW ops, NEW l, NEW kinds, Makes(planned, ops), Uses(ops, l, kinds),
           NEW x, InList(planned.operations, x)
    PROVE  Kind(x.op) \in kinds /\ Fits(x.op, l)
<1>1. PICK s : s = planned.operations
    OBVIOUS
<1>2. OpsOf(s) = ops
    BY <1>1 DEF Makes
<1>3. PICK m \in DOMAIN s : s[m] = x
    BY <1>1 DEF InList
<1>4. InList(ops, x.op)
    BY <1>2, <1>3 DEF OpsOf, InList
<1> QED
    BY <1>4, UsesAt

LEMMA PortedLayout ==
    ASSUME config \in InstallConfig
    PROVE  \E l \in Nat : OfLayout(Ported.parts, l) /\ DOMAIN parts(config) = 1 .. l
<1>1. PICK l \in Nat :
          /\ DOMAIN parts(config) = 1 .. l
          /\ DOMAIN Ported.parts = 1 .. l /\ Len(Ported.parts) = l
          /\ \A n \in 1 .. l :
                 /\ parts(config)[n] \in PartitionSpec
                 /\ Ported.parts[n].mp = parts(config)[n].mount_point
                 /\ Ported.parts[n].flags = Len(parts(config)[n].flags)
    BY PartsAt
<1>2. OfParts(Ported.parts, l)
    BY <1>1, PortedParts
<1>3. ASSUME NEW n \in 1 .. l PROVE Ported.parts[n].flags \in Nat
    <2>1. parts(config)[n].flags \in Seq(PartitionFlag)
        BY <1>1 DEF PartitionSpec
    <2> QED
        BY <1>1, <2>1
<1>4. ASSUME NEW n \in 1 .. l PROVE IsPath(Ported.parts[n].mp)
    <2>1. parts(config)[n].mount_point \in Seq(STRING)
        BY <1>1 DEF PartitionSpec
    <2> QED
        BY <1>1, <2>1 DEF IsPath
<1> QED
    BY <1>1, <1>2, <1>3, <1>4 DEF OfLayout

\* The operations of the plan are those of its phases.
LEMMA OpsElements ==
    ASSUME config \in InstallConfig, plan = RsExecutionPlan(config, uefi)
    PROVE  /\ IsList(Ops)
           /\ \A x : InList(Ops, x) <=>
                  \/ InList(plan_partition_ops(config).operations, x)
                  \/ InList(plan_encryption_ops(config).operations, x)
                  \/ InList(plan_format_ops(config).operations, x)
                  \/ InList(plan_mount_ops(config).operations, x)
                  \/ InList(plan_install_base_ops.operations, x)
                  \/ InList(plan_install_packages_ops(config).operations, x)
                  \/ InList(plan_bootloader_ops(config, uefi).operations, x)
                  \/ InList(plan_user_ops(config).operations, x)
                  \/ InList(plan_network_ops(config).operations, x)
                  \/ InList(plan_locale_ops(config).operations, x)
                  \/ InList(plan_security_ops(config).operations, x)
                  \/ InList(plan_first_boot_ops(config).operations, x)
                  \/ InList(plan_cleanup_ops(config).operations, x)
<1>1. PICK n \in Nat : n = 13
    OBVIOUS
<1>2. PICK s : s = [e \in DOMAIN plan |-> plan[e].operations]
    OBVIOUS
<1>3. DOMAIN plan = 1 .. n
    BY <1>1 DEF RsExecutionPlan
<1>4. Spelled(s, n) /\ Ops = FlattenSeq(s)
    BY <1>2, <1>3 DEF Spelled, Ops
<1>5. /\ s[1] = plan_partition_ops(config).operations
      /\ s[2] = plan_encryption_ops(config).operations
      /\ s[3] = plan_format_ops(config).operations
      /\ s[4] = plan_mount_ops(config).operations
      /\ s[5] = plan_install_base_ops.operations
      /\ s[6] = plan_install_packages_ops(config).operations
      /\ s[7] = plan_bootloader_ops(config, uefi).operations
      /\ s[8] = plan_user_ops(config).operations
      /\ s[9] = plan_network_ops(config).operations
      /\ s[10] = plan_locale_ops(config).operations
      /\ s[11] = plan_security_ops(config).operations
      /\ s[12] = plan_first_boot_ops(config).operations
      /\ s[13] = plan_cleanup_ops(config).operations
    BY <1>1, <1>2, <1>3 DEF RsExecutionPlan
<1>6. /\ IsList(s[1]) /\ IsList(s[2]) /\ IsList(s[3]) /\ IsList(s[4]) /\ IsList(s[5])
      /\ IsList(s[6]) /\ IsList(s[7]) /\ IsList(s[8]) /\ IsList(s[9]) /\ IsList(s[10])
      /\ IsList(s[11]) /\ IsList(s[12]) /\ IsList(s[13])
    BY <1>5, PartitionAlike, EncryptionAlike, FormatAlike, MountAlike, BaseAlike,
       PackagesAlike, BootloaderAlike, UserPlanAlike, NetworkPlanAlike, LocaleAlike,
       SecurityAlike, FirstBootAlike, CleanupAlike DEF Makes
<1>7. \A j \in 1 .. n : j = 1 \/ j = 2 \/ j = 3 \/ j = 4 \/ j = 5 \/ j = 6 \/ j = 7 \/ j = 8
                        \/ j = 9 \/ j = 10 \/ j = 11 \/ j = 12 \/ j = 13
    BY <1>1
<1>8. \A j \in 1 .. n : IsList(s[j])
    BY <1>6, <1>7
<1>9. IsList(FlattenSeq(s)) /\ \A x : InList(FlattenSeq(s), x) <=> \E j \in 1 .. n : InList(s[j], x)
    BY <1>4, <1>8, InFlattened
<1>10. 1 \in 1 .. n /\ 2 \in 1 .. n /\ 3 \in 1 .. n /\ 4 \in 1 .. n /\ 5 \in 1 .. n /\ 6 \in 1 .. n
       /\ 7 \in 1 .. n /\ 8 \in 1 .. n /\ 9 \in 1 .. n /\ 10 \in 1 .. n /\ 11 \in 1 .. n
       /\ 12 \in 1 .. n /\ 13 \in 1 .. n
    BY <1>1
<1>11. ASSUME NEW x
       PROVE  (\E j \in 1 .. n : InList(s[j], x)) <=>
                  \/ InList(s[1], x) \/ InList(s[2], x) \/ InList(s[3], x) \/ InList(s[4], x)
                  \/ InList(s[5], x) \/ InList(s[6], x) \/ InList(s[7], x) \/ InList(s[8], x)
                  \/ InList(s[9], x) \/ InList(s[10], x) \/ InList(s[11], x)
                  \/ InList(s[12], x) \/ InList(s[13], x)
    BY <1>7, <1>10
<1> QED
    BY <1>4, <1>5, <1>9, <1>11

-----------------------------------------------------------------------------
(* What a plan says to itself.  An operation of a plan is of the planner of*)
(* its phase, and of one partition; so are the arguments looked up in it.  *)
\* Which phase has a command, or what puts fstab.
From(x) ==
    /\ x.op.do = "mkpart" => InList(plan_partition_ops(config).operations, x)
    /\ x.op.do = "mkfs" => InList(plan_format_ops(config).operations, x)
    /\ x.op.do \in {"mount", "swapon"} => InList(plan_mount_ops(config).operations, x)
    /\ x.op.what = "fstab" => InList(plan_locale_ops(config).operations, x)

LEMMA Origins ==
    ASSUME config \in InstallConfig, plan = RsExecutionPlan(config, uefi), NEW x, InList(Ops, x)
    PROVE  From(x)
<1>1. PICK l \in Nat : OfLayout(Ported.parts, l)
    BY PortedLayout
<1>2. CASE InList(plan_partition_ops(config).operations, x)
    <2>1. Kind(x.op) \in OnDisk
        BY <1>1, <1>2, PartitionAlike, PartitionUses, MadeOf
    <2> QED
        BY <1>2, <2>1, KindsSay DEF From
<1>3. CASE InList(plan_encryption_ops(config).operations, x)
    <2>1. Kind(x.op) \in Encrypting
        BY <1>1, <1>3, EncryptionAlike, EncryptionUses, MadeOf
    <2> QED
        BY <2>1, KindsSay DEF From
<1>4. CASE InList(plan_format_ops(config).operations, x)
    <2>1. Kind(x.op) \in Formatting
        BY <1>1, <1>4, FormatAlike, FormatUses, MadeOf
    <2> QED
        BY <1>4, <2>1, KindsSay DEF From
<1>5. CASE InList(plan_mount_ops(config).operations, x)
    <2>1. Kind(x.op) \in Mounting
        BY <1>1, <1>5, MountAlike, MountUses, MadeOf
    <2> QED
        BY <1>5, <2>1, KindsSay DEF From
<1>6. CASE InList(plan_locale_ops(config).operations, x)
    <2>1. Kind(x.op) \in WritingFstab
        BY <1>6, LocaleAlike, LocaleUses, MadeOf
    <2> QED
        BY <1>6, <2>1, KindsSay DEF From
<1>7. CASE InList(plan_cleanup_ops(config).operations, x)
    <2>1. Kind(x.op) \in Cleaning
        BY <1>1, <1>7, CleanupAlike, CleanupUses, MadeOf
    <2> QED
        BY <2>1, KindsSay DEF From
<1>8. ASSUME Kind(x.op) \in Writing PROVE From(x)
    BY <1>8, KindsSay DEF From
<1>9. InList(plan_install_base_ops.operations, x) => Kind(x.op) \in Writing
    BY BaseAlike, BaseUses, MadeOf
<1>10. InList(plan_install_packages_ops(config).operations, x) => Kind(x.op) \in Writing
    BY PackagesAlike, PackagesUses, MadeOf
<1>11. InList(plan_bootloader_ops(config, uefi).operations, x) => Kind(x.op) \in Writing
    BY BootloaderAlike, BootloaderUses, MadeOf
<1>12. InList(plan_user_ops(config).operations, x) => Kind(x.op) \in Writing
    BY UserPlanAlike, UserUses, MadeOf
<1>13. InList(plan_network_ops(config).operations, x) => Kind(x.op) \in Writing
    BY NetworkPlanAlike, NetworkUses, MadeOf
<1>14. InList(plan_security_ops(config).operations, x) => Kind(x.op) \in Writing
    BY SecurityAlike, SecurityUses, MadeOf
<1>15. InList(plan_first_boot_ops(config).operations, x) => Kind(x.op) \in Writing
    BY FirstBootAlike, FirstBootUses, MadeOf
<1> QED
    BY <1>2, <1>3, <1>4, <1>5, <1>6, <1>7, <1>8, <1>9, <1>10, <1>11, <1>12, <1>13, <1>14,
       <1>15, OpsElements

\* The argument of the only kind of operation that a command has for a partition.
LEMMA ArgIs ==
    ASSUME NEW command, NEW n, NEW x, InList(Ops, x), x.op.do = command, x.op.on = n,
           \A y : InList(Ops, y) /\ y.op.do = command /\ y.op.on = n => y.arg = x.arg
    PROVE  Arg(command, n) = x.arg
<1>1. PICK m \in DOMAIN Ops : Ops[m] = x
    BY DEF InList
<1> DEFINE there == CHOOSE m_ \in DOMAIN Ops : Ops[m_].op.do = command /\ Ops[m_].op.on = n
<1>2. there \in DOMAIN Ops /\ Ops[there].op.do = command /\ Ops[there].op.on = n
    BY <1>1
<1>3. Arg(command, n) = Ops[there].arg
    BY DEF Arg
<1> HIDE DEF there
<1>4. InList(Ops, Ops[there])
    BY <1>2 DEF InList
<1> QED
    BY <1>2, <1>3, <1>4

LEMMA FormatOps ==
    ASSUME config \in InstallConfig, NEW x
    PROVE  InList(plan_format_ops(config).operations, x) <=>
               \E n \in DOMAIN parts(config) :
                   x = SystemOp(On("mkfs", n), [device |-> PartitionOf(config, n),
                                                label |-> parts(config)[n].label])
<1>1. PICK l \in Nat : DOMAIN parts(config) = 1 .. l /\ InOrder(parts(config)) = [n \in 1 .. l |-> n]
    BY PartsAt
<1> DEFINE op(n) == SystemOp(On("mkfs", n), [device |-> PartitionOf(config, n),
                                              label |-> parts(config)[n].label])
           s == [n \in 1 .. l |-> <<op(n)>>]
<1>2. plan_format_ops(config).operations = FlattenSeq(s)
    BY <1>1 DEF plan_format_ops, PhaseOps, ForEach
<1> HIDE DEF op
<1>3. Spelled(s, l) /\ \A n \in 1 .. l : s[n] = <<op(n)>>
    BY DEF Spelled
<1>4. \A n \in 1 .. l : IsList(s[n]) /\ (InList(s[n], x) <=> x = op(n))
    BY <1>3, InOne
<1> HIDE DEF s
<1>5. InList(FlattenSeq(s), x) <=> \E n \in 1 .. l : InList(s[n], x)
    BY <1>3, <1>4, InFlattened
<1> QED
    BY <1>1, <1>2, <1>4, <1>5 DEF op

LEMMA PartitionOps ==
    ASSUME config \in InstallConfig, NEW x, x.op.do = "mkpart"
    PROVE  InList(plan_partition_ops(config).operations, x) <=>
               \E n \in DOMAIN parts(config) :
                   x = SystemOp(On("mkpart", n),
                          [label |-> parts(config)[n].label,
                           from |-> start_mb(config.disk, n), to |-> end(config.disk, n)])
<1>1. PICK l \in Nat :
          /\ DOMAIN parts(config) = 1 .. l /\ InOrder(parts(config)) = [n \in 1 .. l |-> n]
          /\ \A n \in 1 .. l : parts(config)[n] \in PartitionSpec
    BY PartsAt
<1> DEFINE op(n) == SystemOp(On("mkpart", n),
                       [label |-> parts(config)[n].label,
                        from |-> start_mb(config.disk, n), to |-> end(config.disk, n)])
           flag(n) == Plain([f \in DOMAIN parts(config)[n].flags |-> On("set", n)])
           s == [n \in 1 .. l |-> <<op(n)>> \o flag(n)]
           label == Plain(<<On("mklabel", 0)>>)
<1>2. plan_partition_ops(config).operations = label \o FlattenSeq(s)
    BY <1>1 DEF plan_partition_ops, PhaseOps, ForEach
<1>3. ASSUME NEW n \in 1 .. l PROVE IsList(flag(n)) /\ ~InList(flag(n), x)
    <2>1. parts(config)[n].flags \in Seq(PartitionFlag)
        BY <1>1 DEF PartitionSpec
    <2>2. PICK c \in Nat : c = Len(parts(config)[n].flags) /\ DOMAIN parts(config)[n].flags = 1 .. c
        BY <2>1
    <2>3. PICK sets : sets = [f \in 1 .. c |-> On("set", n)]
        OBVIOUS
    <2>4. sets = [f \in 1 .. c |-> sets[f]] /\ flag(n) = Plain(sets)
        BY <2>2, <2>3
    <2> HIDE DEF flag
    <2>5. IsList(flag(n)) /\ OpsOf(flag(n)) = sets
        BY <2>4, OpsOfPlain
    <2>6. ASSUME InList(flag(n), x) PROVE FALSE
        <3>1. InList(sets, x.op)
            BY <2>5, <2>6 DEF InList, OpsOf
        <3>2. x.op = On("set", n)
            BY <2>3, <3>1 DEF InList
        <3>3. On("set", n).do # "mkpart"
            BY DEF On
        <3> QED
            BY <3>2, <3>3
    <2> QED
        BY <2>5, <2>6
<1>4. IsList(label) /\ ~InList(label, x)
    <2>1. IsList(label) /\ OpsOf(label) = <<On("mklabel", 0)>>
        BY PlainOne
    <2> HIDE DEF label
    <2>2. InList(label, x) => InList(<<On("mklabel", 0)>>, x.op)
        BY <2>1 DEF InList, OpsOf
    <2>3. InList(<<On("mklabel", 0)>>, x.op) => x.op = On("mklabel", 0)
        BY InOne
    <2>4. On("mklabel", 0).do # "mkpart"
        BY DEF On
    <2> QED
        BY <2>1, <2>2, <2>3, <2>4
<1> HIDE DEF op, flag, label
<1>5. Spelled(s, l) /\ \A n \in 1 .. l : s[n] = <<op(n)>> \o flag(n)
    BY DEF Spelled
<1> HIDE DEF s
<1>6. ASSUME NEW n \in 1 .. l
      PROVE  IsList(s[n]) /\ (InList(s[n], x) <=> x = op(n))
    <2>1. IsList(<<op(n)>>) /\ (InList(<<op(n)>>, x) <=> x = op(n))
        BY InOne
    <2>2. IsList(<<op(n)>> \o flag(n))
        BY <1>3, <2>1, ListsJoined
    <2>3. InList(<<op(n)>> \o flag(n), x) <=> InList(<<op(n)>>, x) \/ InList(flag(n), x)
        BY <1>3, <2>1, InListsJoined
    <2> QED
        BY <1>3, <1>5, <2>1, <2>2, <2>3
<1>7. IsList(FlattenSeq(s)) /\ (InList(FlattenSeq(s), x) <=> \E n \in 1 .. l : InList(s[n], x))
    BY <1>5, <1>6, InFlattened
<1>8. InList(label \o FlattenSeq(s), x) <=> InList(FlattenSeq(s), x)
    BY <1>4, <1>7, InListsJoined
<1> QED
    BY <1>1, <1>2, <1>6, <1>7, <1>8 DEF op

\* What the installer mounts partition n from.
MountDevice(n) ==
    IF config.disk.encrypt /\ IsRoot(parts(config)[n]) THEN Mapper ELSE PartitionOf(config, n)

LEMMA MountOps ==
    ASSUME config \in InstallConfig, NEW x, x.op.do \in {"mount", "swapon"}
    PROVE  InList(plan_mount_ops(config).operations, x) <=>
               \E n \in DOMAIN parts(config) :
                   x = IF IsSwap(parts(config)[n])
                       THEN SystemOp(NonFatal(On("swapon", n)), [device |-> PartitionOf(config, n)])
                       ELSE SystemOp(On("mount", n), [device |-> MountDevice(n)])
<1>1. PICK l \in Nat : DOMAIN parts(config) = 1 .. l /\ DOMAIN Ported.parts = 1 .. l
    BY PartsAt
<1>2. PICK o : o = MountSequence(config)
    OBVIOUS
<1>3. PICK c \in Nat : Lists(o, 1 .. l, c) /\ o \in [1 .. c -> 1 .. l]
    <2>1. /\ OneWay(1 .. l, ByKey(1 .. l, Depths(Ported.parts)))
          /\ Sorts(o, 1 .. l, ByKey(1 .. l, Depths(Ported.parts)))
        BY <1>1, <1>2, PortedParts, MountsInOrder, MountOrderSorts
    <2>2. IsFiniteSet(1 .. l)
        BY SmallSets
    <2>3. Lists(o, 1 .. l, Cardinality(1 .. l))
        BY <2>1, <2>2, SortIsOnto
    <2> QED
        BY <2>3 DEF Lists
<1> DEFINE swap(n) == SystemOp(NonFatal(On("swapon", n)), [device |-> PartitionOf(config, n)])
           mount(n) == SystemOp(On("mount", n), [device |-> MountDevice(n)])
           put(n) == Plain(<<Put("mountpoint", parts(config)[n].mount_point)>>)
           ops(n) == IF IsSwap(parts(config)[n]) THEN <<swap(n)>> ELSE put(n) \o <<mount(n)>>
           op(n) == IF IsSwap(parts(config)[n]) THEN swap(n) ELSE mount(n)
           s == [m \in 1 .. c |-> ops(o[m])]
<1>4. plan_mount_ops(config).operations = FlattenSeq(s)
    BY <1>2, <1>3 DEF plan_mount_ops, PhaseOps, ForEach, MountDevice
<1>5. ASSUME NEW n PROVE IsList(put(n)) /\ ~InList(put(n), x)
    <2>1. PICK p : p = Put("mountpoint", parts(config)[n].mount_point)
        OBVIOUS
    <2>2. IsList(put(n)) /\ OpsOf(put(n)) = <<p>>
        BY <2>1, PlainOne
    <2> HIDE DEF put
    <2>3. InList(put(n), x) => InList(<<p>>, x.op)
        BY <2>2 DEF InList, OpsOf
    <2>4. InList(<<p>>, x.op) => x.op = p
        BY InOne
    <2>5. p.do = "put"
        BY <2>1 DEF Put
    <2> QED
        BY <2>2, <2>3, <2>4, <2>5
<1> HIDE DEF swap, mount, put
<1>6. ASSUME NEW n
      PROVE  IsList(ops(n)) /\ (InList(ops(n), x) <=> x = op(n))
    <2>1. CASE IsSwap(parts(config)[n])
        BY <2>1, InOne
    <2>2. CASE ~IsSwap(parts(config)[n])
        <3>1. IsList(<<mount(n)>>) /\ (InList(<<mount(n)>>, x) <=> x = mount(n))
            BY InOne
        <3>2. IsList(put(n) \o <<mount(n)>>)
            BY <1>5, <3>1, ListsJoined
        <3>3. InList(put(n) \o <<mount(n)>>, x) <=> InList(put(n), x) \/ InList(<<mount(n)>>, x)
            BY <1>5, <3>1, InListsJoined
        <3> QED
            BY <1>5, <2>2, <3>1, <3>2, <3>3
    <2> QED
        BY <2>1, <2>2
<1> HIDE DEF ops, op
<1>7. Spelled(s, c) /\ \A m \in 1 .. c : s[m] = ops(o[m])
    BY DEF Spelled
<1> HIDE DEF s
<1>8. InList(FlattenSeq(s), x) <=> \E m \in 1 .. c : InList(s[m], x)
    BY <1>6, <1>7, InFlattened
<1>9. (\E m \in 1 .. c : InList(s[m], x)) <=> \E n \in 1 .. l : x = op(n)
    <2>1. \A n \in 1 .. l : \E m \in 1 .. c : o[m] = n
        BY <1>3 DEF Lists
    <2>2. \A m \in 1 .. c : o[m] \in 1 .. l
        BY <1>3
    <2> QED
        BY <1>6, <1>7, <2>1, <2>2
<1> QED
    BY <1>1, <1>4, <1>8, <1>9 DEF op, swap, mount

LEMMA LocaleOps ==
    ASSUME NEW x, x.op.what = "fstab"
    PROVE  InList(plan_locale_ops(config).operations, x) <=>
               x = SystemOp(Put("fstab", <<"etc">>),
                            generate_fstab(parts(config), config.disk.encrypt))
<1> DEFINE a == Put("locale.conf", <<"etc">>)
           b == Put("localtime", <<"etc">>)
           d == Put("machine-id", <<"etc">>)
           last == SystemOp(Put("fstab", <<"etc">>),
                            generate_fstab(parts(config), config.disk.encrypt))
           s == <<a, b, d>>
<1>1. plan_locale_ops(config).operations = Plain(s) \o <<last>>
    BY DEF plan_locale_ops, PhaseOps
<1>2. a.what # "fstab" /\ b.what # "fstab" /\ d.what # "fstab"
    BY DEF Put
<1> HIDE DEF a, b, d, last
<1>3. PICK n \in Nat : n = 3
    OBVIOUS
<1>4. s = [m \in 1 .. n |-> s[m]] /\ \A m \in 1 .. n : s[m].what # "fstab"
    BY <1>2, <1>3
<1> HIDE DEF s
<1>5. IsList(Plain(s)) /\ OpsOf(Plain(s)) = s
    BY <1>4, OpsOfPlain
<1>6. ~InList(Plain(s), x)
    <2>1. ASSUME InList(Plain(s), x) PROVE InList(s, x.op)
        BY <1>5, <2>1 DEF InList, OpsOf
    <2>2. ASSUME InList(s, x.op) PROVE FALSE
        <3>1. PICK m \in DOMAIN s : s[m] = x.op
            BY <2>2 DEF InList
        <3>2. m \in 1 .. n
            BY <1>4
        <3> QED
            BY <1>4, <3>1, <3>2
    <2> QED
        BY <2>1, <2>2
<1>7. IsList(<<last>>) /\ (InList(<<last>>, x) <=> x = last)
    BY InOne
<1>8. InList(Plain(s) \o <<last>>, x) <=> InList(Plain(s), x) \/ InList(<<last>>, x)
    BY <1>5, <1>7, InListsJoined
<1> QED
    BY <1>1, <1>6, <1>7, <1>8 DEF last
-----------------------------------------------------------------------------
\* The arguments that the properties look up in the plan.
LEMMA FormatArg ==
    ASSUME config \in InstallConfig, plan = RsExecutionPlan(config, uefi),
           NEW n \in DOMAIN parts(config)
    PROVE  Arg("mkfs", n) = [device |-> PartitionOf(config, n), label |-> parts(config)[n].label]
<1> DEFINE arg(m) == [device |-> PartitionOf(config, m), label |-> parts(config)[m].label]
           op(m) == SystemOp(On("mkfs", m), arg(m))
<1>1. ASSUME NEW m
      PROVE  op(m).op.do = "mkfs" /\ op(m).op.on = m /\ op(m).arg = arg(m)
    BY DEF SystemOp, On
<1>2. \A x : InList(plan_format_ops(config).operations, x) <=> \E m \in DOMAIN parts(config) : x = op(m)
    BY FormatOps
<1> HIDE DEF arg, op
<1>3. InList(Ops, op(n))
    BY <1>2, OpsElements
<1>4. ASSUME NEW y, InList(Ops, y), y.op.do = "mkfs", y.op.on = n PROVE y.arg = op(n).arg
    <2>1. InList(plan_format_ops(config).operations, y)
        BY <1>4, Origins DEF From
    <2>2. PICK m \in DOMAIN parts(config) : y = op(m)
        BY <1>2, <2>1
    <2> QED
        BY <1>1, <1>4, <2>2
<1>5. Arg("mkfs", n) = op(n).arg
    BY <1>1, <1>3, <1>4, ArgIs
<1> QED
    BY <1>1, <1>5 DEF arg

LEMMA PartitionArg ==
    ASSUME config \in InstallConfig, plan = RsExecutionPlan(config, uefi),
           NEW n \in DOMAIN parts(config)
    PROVE  Arg("mkpart", n) = [label |-> parts(config)[n].label,
                               from |-> start_mb(config.disk, n), to |-> end(config.disk, n)]
<1> DEFINE arg(m) == [label |-> parts(config)[m].label,
                      from |-> start_mb(config.disk, m), to |-> end(config.disk, m)]
           op(m) == SystemOp(On("mkpart", m), arg(m))
<1>1. ASSUME NEW m
      PROVE  op(m).op.do = "mkpart" /\ op(m).op.on = m /\ op(m).arg = arg(m)
    <2> HIDE DEF arg
    <2> QED
        BY DEF SystemOp, On
<1>2. \A x : x.op.do = "mkpart" =>
          (InList(plan_partition_ops(config).operations, x) <=> \E m \in DOMAIN parts(config) : x = op(m))
    BY PartitionOps
<1> HIDE DEF arg, op
<1>3. InList(Ops, op(n))
    <2>1. InList(plan_partition_ops(config).operations, op(n))
        BY <1>1, <1>2
    <2> QED
        BY <2>1, OpsElements
<1>4. ASSUME NEW y, InList(Ops, y), y.op.do = "mkpart", y.op.on = n PROVE y.arg = op(n).arg
    <2>1. InList(plan_partition_ops(config).operations, y)
        BY <1>4, Origins DEF From
    <2>2. PICK m \in DOMAIN parts(config) : y = op(m)
        BY <1>2, <1>4, <2>1
    <2> QED
        BY <1>1, <1>4, <2>2
<1>5. Arg("mkpart", n) = op(n).arg
    BY <1>1, <1>3, <1>4, ArgIs
<1> QED
    BY <1>1, <1>5 DEF arg

LEMMA MountArg ==
    ASSUME config \in InstallConfig, plan = RsExecutionPlan(config, uefi),
           NEW n \in DOMAIN parts(config)
    PROVE  /\ IsSwap(parts(config)[n]) => Arg("swapon", n).device = PartitionOf(config, n)
           /\ ~IsSwap(parts(config)[n]) => Arg("mount", n).device = MountDevice(n)
<1> DEFINE swap(m) == SystemOp(NonFatal(On("swapon", m)), [device |-> PartitionOf(config, m)])
           mount(m) == SystemOp(On("mount", m), [device |-> MountDevice(m)])
           op(m) == IF IsSwap(parts(config)[m]) THEN swap(m) ELSE mount(m)
<1>1. ASSUME NEW m
      PROVE  /\ swap(m).op.do = "swapon" /\ swap(m).op.on = m
             /\ swap(m).arg.device = PartitionOf(config, m)
             /\ mount(m).op.do = "mount" /\ mount(m).op.on = m
             /\ mount(m).arg.device = MountDevice(m)
    <2>1. PICK a, b : a = PartitionOf(config, m) /\ b = MountDevice(m)
        OBVIOUS
    <2>2. /\ swap(m) = SystemOp(NonFatal(On("swapon", m)), [device |-> a])
          /\ mount(m) = SystemOp(On("mount", m), [device |-> b])
        BY <2>1
    <2>3. /\ NonFatal(On("swapon", m)).do = "swapon" /\ NonFatal(On("swapon", m)).on = m
          /\ On("mount", m).do = "mount" /\ On("mount", m).on = m
        BY DEF On, NonFatal
    <2>4. PICK p, q : p = NonFatal(On("swapon", m)) /\ q = On("mount", m)
        OBVIOUS
    <2> HIDE DEF swap, mount
    <2>5. /\ swap(m).op = p /\ swap(m).arg.device = a
          /\ mount(m).op = q /\ mount(m).arg.device = b
        BY <2>2, <2>4 DEF SystemOp
    <2> QED
        BY <2>1, <2>3, <2>4, <2>5
<1>2. \A x : x.op.do \in {"mount", "swapon"} =>
          (InList(plan_mount_ops(config).operations, x) <=> \E m \in DOMAIN parts(config) : x = op(m))
    BY MountOps
<1> HIDE DEF swap, mount
<1>3. op(n).op.do \in {"mount", "swapon"} /\ op(n).op.on = n
    BY <1>1
<1>4. InList(Ops, op(n))
    <2> HIDE DEF op
    <2>1. InList(plan_mount_ops(config).operations, op(n))
        BY <1>2, <1>3
    <2> QED
        BY <2>1, OpsElements
<1>5. ASSUME NEW y, InList(Ops, y), y.op.do = op(n).op.do, y.op.on = n PROVE y.arg = op(n).arg
    <2>1. InList(plan_mount_ops(config).operations, y) /\ y.op.do \in {"mount", "swapon"}
        BY <1>3, <1>5, Origins DEF From
    <2>2. PICK m \in DOMAIN parts(config) : y = op(m)
        <3> HIDE DEF op
        <3> QED
            BY <1>2, <2>1
    <2>3. y.op.on = m
        BY <1>1, <2>2
    <2> QED
        BY <1>5, <2>2, <2>3
<1>6. Arg(op(n).op.do, n) = op(n).arg
    <2> HIDE DEF op
    <2>1. PICK command : command = op(n).op.do
        OBVIOUS
    <2> QED
        BY <1>3, <1>4, <1>5, <2>1, ArgIs
<1> QED
    BY <1>1, <1>6

LEMMA FstabArg ==
    ASSUME config \in InstallConfig, plan = RsExecutionPlan(config, uefi)
    PROVE  Ops[CHOOSE m \in DOMAIN Ops : Ops[m].op.what = "fstab"].arg =
               generate_fstab(parts(config), config.disk.encrypt)
<1>1. PICK fstab : fstab = generate_fstab(parts(config), config.disk.encrypt)
    OBVIOUS
<1>2. PICK x : x = SystemOp(Put("fstab", <<"etc">>), fstab)
    OBVIOUS
<1>3. x.op.what = "fstab" /\ x.arg = fstab
    BY <1>2 DEF SystemOp, Put
<1>4. \A y : y.op.what = "fstab" => (InList(plan_locale_ops(config).operations, y) <=> y = x)
    BY <1>1, <1>2, LocaleOps
<1>5. InList(Ops, x)
    BY <1>3, <1>4, OpsElements
<1> DEFINE there == CHOOSE m \in DOMAIN Ops : Ops[m].op.what = "fstab"
<1>6. there \in DOMAIN Ops /\ Ops[there].op.what = "fstab"
    BY <1>3, <1>5 DEF InList
<1> HIDE DEF there
<1>7. InList(Ops, Ops[there])
    BY <1>6 DEF InList
<1>8. InList(plan_locale_ops(config).operations, Ops[there])
    BY <1>6, <1>7, Origins DEF From
<1>9. Ops[there] = x
    BY <1>4, <1>6, <1>8
<1> QED
    BY <1>1, <1>3, <1>9 DEF there

\* A line of fstab names, by device or by label, what mount or swapon was given.
LEMMA FstabLeads ==
    ASSUME config \in InstallConfig, plan = RsExecutionPlan(config, uefi),
           ~SwapIsRoot, DistinctLabels, NEW n \in DOMAIN parts(config)
    PROVE  Resolved(generate_fstab(parts(config), config.disk.encrypt)[n].device) =
               {Arg(IF IsSwap(parts(config)[n]) THEN "swapon" ELSE "mount", n).device}
<1> DEFINE label == parts(config)[n].label
           name == generate_fstab(parts(config), config.disk.encrypt)[n].device
           given_ == Arg(IF IsSwap(parts(config)[n]) THEN "swapon" ELSE "mount", n).device
<1>1. name = fstab_device(parts(config)[n], config.disk.encrypt)
    BY DEF generate_fstab
<1>2. IsRoot(parts(config)[n]) => ~IsSwap(parts(config)[n])
    BY DEF SwapIsRoot, ToSet
<1>3. given_ = MountDevice(n)
    <2>1. IsSwap(parts(config)[n]) => MountDevice(n) = PartitionOf(config, n)
        BY <1>2 DEF MountDevice
    <2> QED
        BY <2>1, MountArg
<1>4. CASE config.disk.encrypt /\ IsRoot(parts(config)[n])
    <2>1. name = <<"mapper">>
        BY <1>1, <1>4 DEF fstab_device
    <2>2. Resolved(name) = {Mapper}
        BY <2>1 DEF Resolved
    <2> QED
        BY <1>3, <1>4, <2>2 DEF MountDevice
<1>5. CASE ~(config.disk.encrypt /\ IsRoot(parts(config)[n]))
    <2>1. label \in Text /\ parts(config) \in Seq(PartitionSpec)
        <3>1. parts(config) \in Seq(PartitionSpec)
            BY ConfigFields DEF parts
        <3>2. parts(config)[n] \in PartitionSpec
            BY <3>1
        <3> QED
            BY <3>1, <3>2 DEF PartitionSpec
    <2>2. name = <<"LABEL=">> \o label
        BY <1>1, <1>5 DEF fstab_device
    <2>3. name # <<"mapper">> /\ Tail(name) = label
        <3>1. PICK S : S = Pieces
            OBVIOUS
        <3>2. label \in Seq(S) /\ "LABEL=" \in S
            BY <2>1, <3>1 DEF Text, Pieces
        <3>3. <<"LABEL=">> \o label \in Seq(S) /\ (<<"LABEL=">> \o label)[1] = "LABEL="
              /\ Tail(<<"LABEL=">> \o label) = label
            BY ONLY <3>2
        <3> HIDE DEF name, label
        <3>4. name[1] = "LABEL=" /\ Tail(name) = label
            BY <2>2, <3>3
        <3>5. <<"mapper">>[1] # "LABEL="
            OBVIOUS
        <3> QED
            BY <3>4, <3>5
    <2>4. Resolved(name) = {Arg("mkfs", m).device :
                                m \in {m_ \in DOMAIN parts(config) : Arg("mkfs", m_).label = label}}
        BY <2>3 DEF Resolved
    <2>5. \A m \in DOMAIN parts(config) :
              Arg("mkfs", m).label = parts(config)[m].label /\ Arg("mkfs", m).device = PartitionOf(config, m)
        BY FormatArg
    <2>6. {m_ \in DOMAIN parts(config) : Arg("mkfs", m_).label = label} = {n}
        BY <2>5 DEF DistinctLabels
    <2> HIDE DEF name, label
    <2>7. Resolved(name) = {PartitionOf(config, n)}
        BY <2>4, <2>5, <2>6
    <2> QED
        BY <1>3, <1>5, <2>7 DEF MountDevice, name
<1> QED
    BY <1>4, <1>5

\* Every line of fstab leads to the device that the installer mounts there,
\* for every layout with distinct labels and no swap for the root, encrypted
\* or not: what locale and mount planners write apart fits together.
THEOREM FstabLeadsHome == Spec => []FstabMatchesMounts
<1>1. ConfigKnown /\ RecInv => FstabMatchesMounts
    <2> SUFFICES ASSUME ConfigKnown, RecInv, ~SwapIsRoot, DistinctLabels,
                        NEW n \in DOMAIN parts(config)
                 PROVE  Resolved(Ops[CHOOSE m \in DOMAIN Ops : Ops[m].op.what = "fstab"].arg[n].device)
                            = {Arg(IF IsSwap(parts(config)[n]) THEN "swapon" ELSE "mount", n).device}
        BY DEF FstabMatchesMounts
    <2>1. config \in InstallConfig /\ plan = RsExecutionPlan(config, uefi)
        BY ConfigTypes DEF ConfigKnown, RecInv, Client
    <2> QED
        BY <2>1, FstabArg, FstabLeads
<1> QED
    BY <1>1, ConfigStays, RecAlways, PTL
-----------------------------------------------------------------------------
\* The kernel's command line ends with the root.
LEMMA ParamsListed ==
    ASSUME NEW security
    PROVE  IsList(default_kernel_params(security))
<1>1. PICK a, b, c, d, e, f, g :
          /\ a = <<<<"quiet">>, <<"loglevel">>>>
          /\ b = If(security.enable_luks, <<<<"rd.luks">>>>)
          /\ c = If(security.enable_secureboot, <<<<"lockdown">>>>)
          /\ d = If(security.enable_tpm, <<<<"tpm_tis">>>>)
          /\ e = If(security.enable_dmverity, <<<<"dm_verity">>>>)
          /\ f = <<<<"lsm">>>>
    OBVIOUS
<1>2. default_kernel_params(security) = a \o b \o c \o d \o e \o f
    BY <1>1 DEF default_kernel_params
<1>3. IsList(a)
    <2>1. PICK p, q : a = <<p, q>>
        BY <1>1
    <2>2. PICK S : S = {p, q}
        OBVIOUS
    <2>3. <<p, q>> \in Seq(S)
        BY <2>2
    <2> QED
        BY <2>1, <2>3 DEF IsList
<1>4. \A x, condition : IsList(If(condition, <<x>>)) /\ IsList(<<x>>)
    BY InOne, InNone DEF If
<1>5. IsList(b) /\ IsList(c) /\ IsList(d) /\ IsList(e) /\ IsList(f)
    BY <1>1, <1>4
<1>6. IsList(a \o b)
    BY <1>3, <1>5, ListsJoined
<1>7. IsList(a \o b \o c)
    BY <1>5, <1>6, ListsJoined
<1>8. IsList(a \o b \o c \o d)
    BY <1>5, <1>7, ListsJoined
<1>9. IsList(a \o b \o c \o d \o e)
    BY <1>5, <1>8, ListsJoined
<1>10. IsList(a \o b \o c \o d \o e \o f)
    BY <1>5, <1>9, ListsJoined
<1> QED
    BY <1>2, <1>10

LEMMA NewParamsListed ==
    ASSUME NEW params, NEW security
    PROVE  IsList(NewParams(params, security))
<1>0. PICK all : all = default_kernel_params(security)
    OBVIOUS
<1>1. PICK n \in Nat : all = default_kernel_params(security) /\ all = [m \in 1 .. n |-> all[m]]
    BY <1>0, ParamsListed, ListIs
<1> DEFINE s == [m \in 1 .. n |-> If(all[m] \notin ToSet(params), <<all[m]>>)]
<1>2. NewParams(params, security) = FlattenSeq(s)
    <2>1. DOMAIN all = 1 .. n
        BY <1>1
    <2> QED
        BY <1>1, <2>1 DEF NewParams, ForEach
<1>3. Spelled(s, n) /\ \A m \in 1 .. n : IsList(s[m])
    BY InOne, InNone DEF Spelled, If
<1> HIDE DEF s
<1> QED
    BY <1>2, <1>3, InFlattened

LEMMA LastOfLine ==
    ASSUME config \in InstallConfig
    PROVE  Last(kernel_cmdline(config)) = RootParam(config)
<1>1. PICK params, new_, root :
          /\ params = config.bootloader.kernel_params
          /\ new_ = NewParams(params, config.security) /\ root = RootParam(config)
    OBVIOUS
<1>2. kernel_cmdline(config) = params \o new_ \o <<root>>
    BY <1>1 DEF kernel_cmdline
<1>3. IsList(params) /\ IsList(new_)
    <2>1. IsList(params)
        BY <1>1, ConfigFields DEF IsList
    <2> QED
        BY <1>1, <2>1, NewParamsListed
<1>4. IsList(params \o new_)
    BY <1>3, ListsJoined
<1>5. PICK line : line = params \o new_
    OBVIOUS
<1>6. PICK A : line \in Seq(A)
    BY <1>4, <1>5 DEF IsList
<1>7. PICK S : S = A \cup {root}
    OBVIOUS
<1>8. line \in Seq(S) /\ root \in S
    BY <1>6, <1>7
<1>9. Len(line \o <<root>>) = Len(line) + 1 /\ (line \o <<root>>)[Len(line) + 1] = root
    BY ONLY <1>8
<1> QED
    BY <1>1, <1>2, <1>5, <1>9 DEF Last

\* A refusal of the table or for want of a root is in the list of all.
LEMMA RefusalsListed ==
    ASSUME config \in InstallConfig
    PROVE  \A why : InList(TableErrors(config.disk), why) \/ InList(RootErrors(parts(config)), why)
                     => InList(Errors(config), why)
<1> DEFINE params == config.bootloader.kernel_params
           labels == [n \in DOMAIN parts(config) |-> parts(config)[n].label]
           name == config.user.full_name
           groups == config.user.groups
<1>1. PICK a, b, c, d, e, f, g, h, o, p :
          /\ a = DeviceErrors(config.disk.target_device)
          /\ b = Bail(parts(config) = <<>>, "no partitions")
          /\ c = UserErrors(config.user.username)
          /\ d = HostErrors(config.network.hostname)
          /\ e = Bail(~config.network.use_dhcp /\ config.network.static_ip = None, "no static ip")
          /\ f = ForEach(params, ParamErrors)
          /\ g = ForEach(labels, LabelErrors)
          /\ h = TableErrors(config.disk)
          /\ o = ForEach(name, FullNameErrors)
          /\ p = ForEach(groups, GroupErrors)
    OBVIOUS
<1>2. Errors(config) = a \o b \o c \o d \o e \o f \o g \o h \o o \o p \o RootErrors(parts(config))
    BY <1>1 DEF Errors, parts
<1>3. ASSUME NEW x PROVE IsList(<<x>>) /\ IsList(<<>>)
    BY InOne, InNone
<1>4. ASSUME NEW text
      PROVE  /\ IsList(DeviceErrors(text)) /\ IsList(UserErrors(text)) /\ IsList(HostErrors(text))
             /\ IsList(ParamErrors(text)) /\ IsList(LabelErrors(text))
             /\ IsList(FullNameErrors(text)) /\ IsList(GroupErrors(text))
    <2>1. IsList(DeviceErrors(text))
        BY <1>3, ListsJoined DEF DeviceErrors, Bail
    <2>2. IsList(UserErrors(text))
        BY <1>3, ListsJoined DEF UserErrors, Bail
    <2>3. IsList(HostErrors(text))
        BY <1>3, ListsJoined DEF HostErrors, Bail
    <2>4. IsList(ParamErrors(text)) /\ IsList(LabelErrors(text))
        BY <1>3, ListsJoined DEF ParamErrors, LabelErrors, Bail
    <2>5. IsList(FullNameErrors(text)) /\ IsList(GroupErrors(text))
        BY <1>3, ListsJoined DEF FullNameErrors, GroupErrors, Bail
    <2> QED
        BY <2>1, <2>2, <2>3, <2>4, <2>5
<1>5. IsList(b) /\ IsList(e)
    BY <1>1, <1>3 DEF Bail
<1>6. IsList(h)
    BY <1>1, <1>3, ListsJoined DEF TableErrors, FillErrors, Bail
<1>7. IsList(a) /\ IsList(c) /\ IsList(d)
    BY <1>1, <1>4
<1>8. IsList(params) /\ IsList(labels) /\ IsList(name) /\ IsList(groups)
    <2>1. IsList(params) /\ IsList(groups) /\ IsList(name)
        <3>1. PICK texts : texts = Text
            OBVIOUS
        <3>2. params \in Seq(texts) /\ groups \in Seq(texts)
            BY <3>1, ConfigFields
        <3>3. name \in Seq(texts)
            BY <3>1, ConfigFields DEF Option
        <3> HIDE DEF params, groups, name
        <3> QED
            BY <3>2, <3>3 DEF IsList
    <2>2. PICK l \in Nat : DOMAIN parts(config) = 1 .. l
        BY PartsAt
    <2>3. Spelled(labels, l)
        BY <2>2 DEF Spelled
    <2> QED
        BY <2>1, <2>3, SpelledIs
<1> HIDE DEF params, labels, name, groups
<1>9. IsList(f) /\ IsList(g) /\ IsList(o) /\ IsList(p)
    <2>1. IsList(f)
        <3>1. PICK n \in Nat : params = [m \in 1 .. n |-> params[m]]
            BY <1>8, ListIs
        <3> DEFINE s == [m \in 1 .. n |-> ParamErrors(params[m])]
        <3>2. f = FlattenSeq(s)
            BY <1>1, <3>1 DEF ForEach
        <3>3. Spelled(s, n) /\ \A m \in 1 .. n : IsList(s[m])
            BY <1>4 DEF Spelled
        <3> HIDE DEF s
        <3> QED
            BY <3>2, <3>3, InFlattened
    <2>2. IsList(g)
        <3>1. PICK n \in Nat : labels = [m \in 1 .. n |-> labels[m]]
            BY <1>8, ListIs
        <3> DEFINE s == [m \in 1 .. n |-> LabelErrors(labels[m])]
        <3>2. g = FlattenSeq(s)
            BY <1>1, <3>1 DEF ForEach
        <3>3. Spelled(s, n) /\ \A m \in 1 .. n : IsList(s[m])
            BY <1>4 DEF Spelled
        <3> HIDE DEF s
        <3> QED
            BY <3>2, <3>3, InFlattened
    <2>3. IsList(o)
        <3>1. PICK n \in Nat : name = [m \in 1 .. n |-> name[m]]
            BY <1>8, ListIs
        <3> DEFINE s == [m \in 1 .. n |-> FullNameErrors(name[m])]
        <3>2. o = FlattenSeq(s)
            BY <1>1, <3>1 DEF ForEach
        <3>3. Spelled(s, n) /\ \A m \in 1 .. n : IsList(s[m])
            BY <1>4 DEF Spelled
        <3> HIDE DEF s
        <3> QED
            BY <3>2, <3>3, InFlattened
    <2>4. IsList(p)
        <3>1. PICK n \in Nat : groups = [m \in 1 .. n |-> groups[m]]
            BY <1>8, ListIs
        <3> DEFINE s == [m \in 1 .. n |-> GroupErrors(groups[m])]
        <3>2. p = FlattenSeq(s)
            BY <1>1, <3>1 DEF ForEach
        <3>3. Spelled(s, n) /\ \A m \in 1 .. n : IsList(s[m])
            BY <1>4 DEF Spelled
        <3> HIDE DEF s
        <3> QED
            BY <3>2, <3>3, InFlattened
    <2> QED
        BY <2>1, <2>2, <2>3, <2>4
<1>10. IsList(a \o b \o c \o d \o e \o f \o g)
    <2>1. IsList(a \o b \o c \o d)
        BY <1>5, <1>7, ListsJoined
    <2> QED
        BY <1>5, <1>9, <2>1, ListsJoined
<1>11. PICK s : s = a \o b \o c \o d \o e \o f \o g
    OBVIOUS
<1>12. PICK r : r = RootErrors(parts(config)) /\ IsList(r)
    BY <1>3 DEF RootErrors, Bail
<1>13. Errors(config) = s \o h \o o \o p \o r
    BY <1>2, <1>11, <1>12
<1>14. IsList(s \o h) /\ IsList(s \o h \o o) /\ IsList(s \o h \o o \o p)
    BY <1>6, <1>9, <1>10, <1>11, ListsJoined
<1>15. ASSUME NEW why
       PROVE  InList(h, why) \/ InList(r, why) => InList(Errors(config), why)
    <2>1. InList(h, why) => InList(s \o h, why)
        BY <1>6, <1>10, <1>11, InListsJoined
    <2>2. InList(s \o h, why) => InList(s \o h \o o, why)
        BY <1>9, <1>14, InListsJoined
    <2>3. InList(s \o h \o o, why) => InList(s \o h \o o \o p, why)
        BY <1>9, <1>14, InListsJoined
    <2>4. InList(s \o h \o o \o p, why) \/ InList(r, why) => InList(s \o h \o o \o p \o r, why)
        BY <1>12, <1>14, InListsJoined
    <2> QED
        BY <1>13, <2>1, <2>2, <2>3, <2>4
<1> QED
    BY <1>1, <1>12, <1>15

LEMMA RootFound ==
    ASSUME config \in InstallConfig, Accepted(config)
    PROVE  /\ RootIndex(config) \in DOMAIN parts(config)
           /\ IsRoot(parts(config)[RootIndex(config)])
<1>1. Errors(config) = <<>>
    BY DEF Accepted, validate_config, Err
<1>3. RootErrors(parts(config)) # <<"no root">>
    <2> SUFFICES ASSUME RootErrors(parts(config)) = <<"no root">> PROVE FALSE
        OBVIOUS
    <2>1. PICK why : why = "no root"
        OBVIOUS
    <2>2. InList(RootErrors(parts(config)), why)
        BY <2>1, InOne
    <2> QED
        BY <1>1, <2>2, RefusalsListed, InNone
<1> DEFINE roots == {n \in DOMAIN parts(config) : IsRoot(parts(config)[n])}
<1>4. roots # {}
    BY <1>3 DEF RootErrors, Bail, IsRoot
<1>5. roots \in SUBSET Nat
    <2>1. PICK l \in Nat : DOMAIN parts(config) = 1 .. l
        BY PartsAt
    <2> QED
        BY <2>1
<1>6. RootIndex(config) = Min(roots)
    BY <1>4 DEF RootIndex
<1> HIDE DEF roots
<1>7. \E m \in roots : \A n \in roots : m <= n
    BY <1>4, <1>5, Least
<1>8. Min(roots) \in roots
    BY <1>7 DEF Min
<1> QED
    BY <1>6, <1>8 DEF roots

\* The kernel is told to boot what the installer mounts as root, for every
\* accepted layout whose root, no swap, alone has the label of the default:
\* the root comes last, behind whatever parameters were configured.
THEOREM BootsRoot == Spec => []BootsItsRoot
<1>1. ConfigKnown /\ RecInv => BootsItsRoot
    <2> SUFFICES ASSUME ConfigKnown, RecInv, Accepted(config), ~SwapIsRoot, RootAloneLabelled
                 PROVE  Resolved(Tail(Last(kernel_cmdline(config)))) =
                            {Arg("mount", RootIndex(config)).device}
        BY DEF BootsItsRoot, Planned
    <2>1. config \in InstallConfig /\ plan = RsExecutionPlan(config, uefi)
        BY ConfigTypes DEF ConfigKnown, RecInv, Client
    <2>2. PICK r : r = RootIndex(config) /\ r \in DOMAIN parts(config) /\ IsRoot(parts(config)[r])
        BY <2>1, RootFound
    <2>3. ~IsSwap(parts(config)[r])
        BY <2>2 DEF SwapIsRoot, ToSet
    <2>4. Arg("mount", r).device = MountDevice(r)
        BY <2>1, <2>2, <2>3, MountArg
    <2>5. Last(kernel_cmdline(config)) = RootParam(config)
        BY <2>1, LastOfLine
    <2>6. CASE config.disk.encrypt
        <3>1. Tail(RootParam(config)) = <<"mapper">>
            BY <2>6 DEF RootParam
        <3>2. Resolved(<<"mapper">>) = {Mapper}
            BY DEF Resolved
        <3> QED
            BY <2>2, <2>4, <2>5, <2>6, <3>1, <3>2 DEF MountDevice
    <2>7. CASE ~config.disk.encrypt
        <3>1. PICK name : name = <<"LABEL=", "agnos-root">>
            OBVIOUS
        <3>2. Tail(RootParam(config)) = name
            BY <2>7, <3>1 DEF RootParam
        <3>3. name # <<"mapper">> /\ Tail(name) = <<"agnos-root">>
            BY <3>1
        <3>4. Resolved(name) = {Arg("mkfs", m).device :
                                    m \in {m_ \in DOMAIN parts(config) :
                                               Arg("mkfs", m_).label = <<"agnos-root">>}}
            BY <3>3 DEF Resolved
        <3>5. \A m \in DOMAIN parts(config) :
                  Arg("mkfs", m).label = parts(config)[m].label
                  /\ Arg("mkfs", m).device = PartitionOf(config, m)
            BY <2>1, FormatArg
        <3>6. {m_ \in DOMAIN parts(config) : Arg("mkfs", m_).label = <<"agnos-root">>} = {r}
            BY <2>2, <3>5 DEF RootAloneLabelled
        <3>7. Resolved(name) = {PartitionOf(config, r)}
            BY <2>2, <3>4, <3>5, <3>6
        <3> QED
            BY <2>2, <2>4, <2>5, <2>7, <3>2, <3>7 DEF MountDevice
    <2> QED
        BY <2>6, <2>7
<1> QED
    BY <1>1, ConfigStays, RecAlways, PTL

-----------------------------------------------------------------------------
(* Ranges.  The sums that the fold over the partitions takes: what is      *)
(* chosen for every set of them, highest first, and so for the first ones. *)
LEMMA MaxIn ==
    ASSUME NEW n \in Nat, NEW T \in SUBSET (1 .. n), T # {}
    PROVE  Max(T) \in T /\ \A m \in T : m <= Max(T)
<1> DEFINE S == {n - m : m \in T}
<1>1. S # {} /\ S \in SUBSET Nat
    <2>1. \A m \in T : m \in 1 .. n /\ n - m \in Nat
        OBVIOUS
    <2> QED
        BY <2>1
<1>2. PICK a \in S : \A b \in S : a <= b
    <2> HIDE DEF S
    <2> QED
        BY <1>1, Least
<1>3. PICK x \in T : a = n - x
    BY <1>2
<1>4. \A m \in T : x >= m
    <2> TAKE m \in T
    <2>1. n - x <= n - m /\ x \in Nat /\ m \in Nat
        BY <1>2, <1>3
    <2> QED
        BY <2>1
<1>5. Max(T) \in T /\ \A m \in T : Max(T) >= m
    BY <1>3, <1>4 DEF Max
<1> QED
    BY <1>5

LEMMA MaxOfFirst ==
    ASSUME NEW n \in Nat, NEW m \in 1 .. n
    PROVE  /\ 1 .. m \in SUBSET (1 .. n) /\ 1 .. m # {}
           /\ Max(1 .. m) = m /\ (1 .. m) \ {m} = 1 .. m - 1
<1>1. 1 .. m \in SUBSET (1 .. n) /\ 1 .. m # {} /\ m \in 1 .. m
    OBVIOUS
<1>2. PICK T : T = 1 .. m
    OBVIOUS
<1>3. Max(T) \in T /\ \A j \in T : j <= Max(T)
    BY <1>1, <1>2, MaxIn
<1>4. Max(T) = m
    BY <1>1, <1>2, <1>3
<1> QED
    BY <1>1, <1>2, <1>4

Added(f, T, v, add) == IF T = {} THEN 1 ELSE add[<<f[T \ {Max(T)}], v[Max(T)]>>]
Adds(f, n, v, add) == \A T \in SUBSET (1 .. n) : f[T] = Added(f, T, v, add)

LEMMA AddsExist ==
    ASSUME NEW n \in Nat, NEW v \in [1 .. n -> Nat], NEW add \in [Nat \X Nat -> Nat]
    PROVE  \E f \in [SUBSET (1 .. n) -> Nat] : Adds(f, n, v, add)
<1> DEFINE Bad == {m \in 0 .. n : ~\E f \in [SUBSET (1 .. m) -> Nat] : Adds(f, m, v, add)}
<1>1. SUFFICES ASSUME Bad # {} PROVE FALSE
    <2>1. n \in 0 .. n
        OBVIOUS
    <2> QED
        BY <2>1
<1>2. Bad \in SUBSET Nat
    OBVIOUS
<1>3. PICK m \in Bad : \A l \in Bad : m <= l
    <2> HIDE DEF Bad
    <2> QED
        BY <1>1, <1>2, Least
<1>4. m # 0
    <2> SUFFICES ASSUME m = 0 PROVE FALSE
        OBVIOUS
    <2> DEFINE g == [T \in SUBSET (1 .. 0) |-> 1]
    <2>1. \A T \in SUBSET (1 .. 0) : T = {}
        OBVIOUS
    <2>2. g \in [SUBSET (1 .. 0) -> Nat] /\ Adds(g, 0, v, add)
        BY <2>1 DEF Adds, Added
    <2> QED
        BY <1>3, <2>2
<1>5. m - 1 \in 0 .. n /\ m - 1 \notin Bad /\ m \in 1 .. n
    <2>1. m \in 0 .. n
        BY <1>3
    <2>2. m - 1 \notin Bad
        <3> HIDE DEF Bad
        <3> QED
            BY <1>2, <1>3, <2>1
    <2> HIDE DEF Bad
    <2> QED
        BY <1>4, <2>1, <2>2
<1>6. PICK f \in [SUBSET (1 .. m - 1) -> Nat] : Adds(f, m - 1, v, add)
    BY <1>5
<1> DEFINE g == [T \in SUBSET (1 .. m) |->
                    IF m \in T THEN add[<<f[T \ {m}], v[m]>>] ELSE f[T]]
<1>7. \A T \in SUBSET (1 .. m) : T \ {m} \in SUBSET (1 .. m - 1) /\ (m \notin T => T \in SUBSET (1 .. m - 1))
    BY <1>5
<1>8. g \in [SUBSET (1 .. m) -> Nat]
    <2> SUFFICES ASSUME NEW T \in SUBSET (1 .. m)
                 PROVE  (IF m \in T THEN add[<<f[T \ {m}], v[m]>>] ELSE f[T]) \in Nat
        OBVIOUS
    <2>1. f[T \ {m}] \in Nat /\ v[m] \in Nat /\ (m \notin T => f[T] \in Nat)
        BY <1>5, <1>6, <1>7
    <2> QED
        BY <2>1
<1>9. ASSUME NEW T \in SUBSET (1 .. m) PROVE g[T] = Added(g, T, v, add)
    <2>1. CASE T = {}
        <3>1. {} \in SUBSET (1 .. m - 1) /\ f[{}] = 1
            BY <1>6 DEF Adds, Added
        <3> QED
            BY <2>1, <3>1 DEF Added
    <2>2. CASE m \in T
        <3>1. Max(T) = m
            <4>1. PICK q \in Nat : q = m /\ T \in SUBSET (1 .. q)
                BY <1>5
            <4>2. PICK x : x = Max(T)
                OBVIOUS
            <4>3. x \in T /\ \A j \in T : j <= x
                BY <2>2, <4>1, <4>2, MaxIn
            <4>4. x \in 1 .. q /\ q <= x
                BY <2>2, <4>1, <4>3
            <4> QED
                BY <4>1, <4>2, <4>4
        <3>2. T \ {m} \in SUBSET (1 .. m) /\ m \notin T \ {m}
            OBVIOUS
        <3>3. g[T \ {m}] = f[T \ {m}]
            BY <3>2
        <3> QED
            BY <2>2, <3>1, <3>3 DEF Added
    <2>3. CASE T # {} /\ m \notin T
        <3>1. PICK x : x = Max(T)
            OBVIOUS
        <3>2. T \in SUBSET (1 .. m - 1) /\ x \in T
            <4>1. PICK q \in Nat : q = m /\ T \in SUBSET (1 .. q)
                BY <1>5
            <4>2. x \in T
                BY <2>3, <3>1, <4>1, MaxIn
            <4> QED
                BY <1>7, <2>3, <4>2
        <3>3. T \ {x} \in SUBSET (1 .. m) /\ m \notin T \ {x}
            BY <2>3
        <3>4. g[T] = f[T] /\ g[T \ {x}] = f[T \ {x}]
            BY <2>3, <3>3
        <3>5. f[T] = add[<<f[T \ {x}], v[x]>>]
            BY <1>6, <2>3, <3>1, <3>2 DEF Adds, Added
        <3> QED
            BY <2>3, <3>1, <3>4, <3>5 DEF Added
    <2> QED
        BY <2>1, <2>2, <2>3
<1>10. Adds(g, m, v, add)
    <2> HIDE DEF g
    <2> QED
        BY <1>9 DEF Adds
<1> HIDE DEF g
<1> QED
    BY <1>3, <1>8, <1>10

\* The sums of the first 0, 1, ... n sizes, with and without the limit.
Sized(s, n) == DOMAIN s = 1 .. n /\ \A m \in 1 .. n : Size(s[m]) \in Nat
WrappedSums(p, s, n) ==
    /\ p \in [0 .. n -> Nat] /\ p[0] = 1
    /\ \A m \in 1 .. n : p[m] = (p[m - 1] + Size(s[m])) % W
PlainSums(p, s, n) ==
    /\ p \in [0 .. n -> Nat] /\ p[0] = 1
    /\ \A m \in 1 .. n : p[m] = p[m - 1] + Size(s[m])

\* The functions that the folds choose.
Wraps(f, s, n) ==
    f = [T \in SUBSET (1 .. n) |->
            IF T = {} THEN 1 ELSE (f[T \ {Max(T)}] + Size(s[Max(T)])) % W]
Totals(f, s, n) ==
    f = [T \in SUBSET (1 .. n) |->
            IF T = {} THEN 1 ELSE f[T \ {Max(T)}] + Size(s[Max(T)])]
WrappedFold(s) == FoldLeft(LAMBDA sum, part : (sum + Size(part)) % W, 1, s)
PlainFold(s) == FoldLeft(LAMBDA sum, part : sum + Size(part), 1, s)

LEMMA InWidth ==
    ASSUME NEW a \in Nat
    PROVE  a % W \in Nat /\ (a < W => a % W = a)
<1>1. PICK w \in Nat \ {0} : w = W
    BY Width
<1>2. a % w \in Nat /\ (a < w => a % w = a)
    OBVIOUS
<1> QED
    BY <1>1, <1>2

LEMMA SetBelow ==
    ASSUME NEW n \in Nat, NEW T \in SUBSET (1 .. n), T # {}
    PROVE  Max(T) \in 1 .. n /\ T \ {Max(T)} \in SUBSET (1 .. n)
BY MaxIn

LEMMA WrapsExist ==
    ASSUME NEW n \in Nat, NEW s, Sized(s, n)
    PROVE  \E f : Wraps(f, s, n)
<1> DEFINE v == [m \in 1 .. n |-> Size(s[m])]
           add == [pair \in Nat \X Nat |-> (pair[1] + pair[2]) % W]
<1>1. v \in [1 .. n -> Nat] /\ add \in [Nat \X Nat -> Nat]
    <2>1. \A pair \in Nat \X Nat : (pair[1] + pair[2]) % W \in Nat
        BY InWidth
    <2> QED
        BY <2>1 DEF Sized
<1>2. \A a, b \in Nat : add[<<a, b>>] = (a + b) % W
    OBVIOUS
<1>3. \A m \in 1 .. n : v[m] = Size(s[m])
    OBVIOUS
<1> HIDE DEF v, add
<1>4. PICK f \in [SUBSET (1 .. n) -> Nat] : Adds(f, n, v, add)
    BY <1>1, AddsExist
<1>5. ASSUME NEW T \in SUBSET (1 .. n)
      PROVE  f[T] = IF T = {} THEN 1 ELSE (f[T \ {Max(T)}] + Size(s[Max(T)])) % W
    <2>1. CASE T = {}
        BY <1>4, <2>1 DEF Adds, Added
    <2>2. CASE T # {}
        <3>1. PICK x \in 1 .. n : x = Max(T) /\ T \ {x} \in SUBSET (1 .. n)
            BY <2>2, SetBelow
        <3>2. f[T] = add[<<f[T \ {x}], v[x]>>]
            BY <1>4, <2>2, <3>1 DEF Adds, Added
        <3>3. f[T \ {x}] \in Nat /\ v[x] \in Nat
            BY <1>1, <3>1
        <3> QED
            BY <1>2, <1>3, <2>2, <3>1, <3>2, <3>3
    <2> QED
        BY <2>1, <2>2
<1>6. Wraps(f, s, n)
    <2>1. f = [T \in SUBSET (1 .. n) |-> f[T]]
        OBVIOUS
    <2> QED
        BY <1>5, <2>1 DEF Wraps
<1> QED
    BY <1>6

LEMMA TotalsExist ==
    ASSUME NEW n \in Nat, NEW s, Sized(s, n)
    PROVE  \E f : Totals(f, s, n)
<1> DEFINE v == [m \in 1 .. n |-> Size(s[m])]
           add == [pair \in Nat \X Nat |-> pair[1] + pair[2]]
<1>1. v \in [1 .. n -> Nat] /\ add \in [Nat \X Nat -> Nat]
    BY DEF Sized
<1>2. \A a, b \in Nat : add[<<a, b>>] = a + b
    OBVIOUS
<1>3. \A m \in 1 .. n : v[m] = Size(s[m])
    OBVIOUS
<1> HIDE DEF v, add
<1>4. PICK f \in [SUBSET (1 .. n) -> Nat] : Adds(f, n, v, add)
    BY <1>1, AddsExist
<1>5. ASSUME NEW T \in SUBSET (1 .. n)
      PROVE  f[T] = IF T = {} THEN 1 ELSE f[T \ {Max(T)}] + Size(s[Max(T)])
    <2>1. CASE T = {}
        BY <1>4, <2>1 DEF Adds, Added
    <2>2. CASE T # {}
        <3>1. PICK x \in 1 .. n : x = Max(T) /\ T \ {x} \in SUBSET (1 .. n)
            BY <2>2, SetBelow
        <3>2. f[T] = add[<<f[T \ {x}], v[x]>>]
            BY <1>4, <2>2, <3>1 DEF Adds, Added
        <3>3. f[T \ {x}] \in Nat /\ v[x] \in Nat
            BY <1>1, <3>1
        <3> QED
            BY <1>2, <1>3, <2>2, <3>1, <3>2, <3>3
    <2> QED
        BY <2>1, <2>2
<1>6. Totals(f, s, n)
    <2>1. f = [T \in SUBSET (1 .. n) |-> f[T]]
        OBVIOUS
    <2> QED
        BY <1>5, <2>1 DEF Totals
<1> QED
    BY <1>6

LEMMA WrappedFoldSums ==
    ASSUME NEW n \in Nat, NEW s, Sized(s, n)
    PROVE  \E p : WrappedSums(p, s, n) /\ WrappedFold(s) = p[n]
<1>1. PICK f : f = CHOOSE f_1 : Wraps(f_1, s, n)
    OBVIOUS
<1>2. Wraps(f, s, n)
    BY <1>1, WrapsExist
<1>3. WrappedFold(s) = f[1 .. n]
    <2>1. DOMAIN s = 1 .. n
        BY DEF Sized
    <2> QED
        BY <1>1, <2>1 DEF WrappedFold, FoldLeft, MapThenFoldSet, Wraps
<1>4. ASSUME NEW T \in SUBSET (1 .. n)
      PROVE  f[T] = IF T = {} THEN 1 ELSE (f[T \ {Max(T)}] + Size(s[Max(T)])) % W
    <2> DEFINE V(T_1) == IF T_1 = {} THEN 1 ELSE (f[T_1 \ {Max(T_1)}] + Size(s[Max(T_1)])) % W
    <2>1. f = [T_1 \in SUBSET (1 .. n) |-> V(T_1)]
        BY <1>2 DEF Wraps
    <2> HIDE DEF V
    <2>2. f[T] = V(T)
        BY <2>1
    <2> QED
        BY <2>2 DEF V
<1>5. f[{}] = 1
    BY <1>4
<1>6. ASSUME NEW m \in 1 .. n
      PROVE  f[1 .. m] = (f[1 .. m - 1] + Size(s[m])) % W
    <2>1. PICK T : T = 1 .. m
        OBVIOUS
    <2>2. T \in SUBSET (1 .. n) /\ T # {} /\ Max(T) = m /\ T \ {m} = 1 .. m - 1
        BY <2>1, MaxOfFirst
    <2> QED
        BY <1>4, <2>1, <2>2
<1> DEFINE p == [m \in 0 .. n |-> f[1 .. m]]
<1>7. p[0] = 1
    <2>1. 1 .. 0 = {}
        OBVIOUS
    <2> QED
        BY <1>5, <2>1
<1>8. \A m \in 1 .. n : p[m] = (p[m - 1] + Size(s[m])) % W
    BY <1>6
<1>9. p = [m \in 0 .. n |-> p[m]] /\ p[n] = f[1 .. n]
    OBVIOUS
<1> HIDE DEF p
<1>10. \A m \in 0 .. n : p[m] \in Nat
    <2> DEFINE Bad == {m \in 0 .. n : p[m] \notin Nat}
    <2>1. SUFFICES ASSUME Bad # {} PROVE FALSE
        OBVIOUS
    <2>2. Bad \in SUBSET Nat
        OBVIOUS
    <2>3. PICK m \in Bad : \A l \in Bad : m <= l
        <3> HIDE DEF Bad
        <3> QED
            BY <2>1, <2>2, Least
    <2>4. m # 0
        BY <1>7, <2>3
    <2>5. m \in 1 .. n /\ m - 1 \in 0 .. n /\ p[m - 1] \in Nat
        BY <2>3, <2>4
    <2>6. Size(s[m]) \in Nat
        BY <2>5 DEF Sized
    <2>7. PICK a \in Nat : a = p[m - 1] + Size(s[m])
        BY <2>5, <2>6
    <2>8. p[m] = a % W
        BY <1>8, <2>5, <2>7
    <2> QED
        BY <2>3, <2>8, InWidth
<1>11. WrappedSums(p, s, n)
    BY <1>7, <1>8, <1>9, <1>10 DEF WrappedSums
<1> QED
    BY <1>3, <1>9, <1>11

LEMMA PlainFoldSums ==
    ASSUME NEW n \in Nat, NEW s, Sized(s, n)
    PROVE  \E p : PlainSums(p, s, n) /\ PlainFold(s) = p[n]
<1>1. PICK f : f = CHOOSE f_1 : Totals(f_1, s, n)
    OBVIOUS
<1>2. Totals(f, s, n)
    BY <1>1, TotalsExist
<1>3. PlainFold(s) = f[1 .. n]
    <2>1. DOMAIN s = 1 .. n
        BY DEF Sized
    <2> QED
        BY <1>1, <2>1 DEF PlainFold, FoldLeft, MapThenFoldSet, Totals
<1>4. ASSUME NEW T \in SUBSET (1 .. n)
      PROVE  f[T] = IF T = {} THEN 1 ELSE f[T \ {Max(T)}] + Size(s[Max(T)])
    <2> DEFINE V(T_1) == IF T_1 = {} THEN 1 ELSE f[T_1 \ {Max(T_1)}] + Size(s[Max(T_1)])
    <2>1. f = [T_1 \in SUBSET (1 .. n) |-> V(T_1)]
        BY <1>2 DEF Totals
    <2> HIDE DEF V
    <2>2. f[T] = V(T)
        BY <2>1
    <2> QED
        BY <2>2 DEF V
<1>5. f[{}] = 1
    BY <1>4
<1>6. ASSUME NEW m \in 1 .. n
      PROVE  f[1 .. m] = f[1 .. m - 1] + Size(s[m])
    <2>1. PICK T : T = 1 .. m
        OBVIOUS
    <2>2. T \in SUBSET (1 .. n) /\ T # {} /\ Max(T) = m /\ T \ {m} = 1 .. m - 1
        BY <2>1, MaxOfFirst
    <2> QED
        BY <1>4, <2>1, <2>2
<1> DEFINE p == [m \in 0 .. n |-> f[1 .. m]]
<1>7. p[0] = 1
    <2>1. 1 .. 0 = {}
        OBVIOUS
    <2> QED
        BY <1>5, <2>1
<1>8. \A m \in 1 .. n : p[m] = p[m - 1] + Size(s[m])
    BY <1>6
<1>9. p = [m \in 0 .. n |-> p[m]] /\ p[n] = f[1 .. n]
    OBVIOUS
<1> HIDE DEF p
<1>10. \A m \in 0 .. n : p[m] \in Nat
    <2> DEFINE Bad == {m \in 0 .. n : p[m] \notin Nat}
    <2>1. SUFFICES ASSUME Bad # {} PROVE FALSE
        OBVIOUS
    <2>2. Bad \in SUBSET Nat
        OBVIOUS
    <2>3. PICK m \in Bad : \A l \in Bad : m <= l
        <3> HIDE DEF Bad
        <3> QED
            BY <2>1, <2>2, Least
    <2>4. m # 0
        BY <1>7, <2>3
    <2>5. m \in 1 .. n /\ m - 1 \in 0 .. n /\ p[m - 1] \in Nat
        BY <2>3, <2>4
    <2>6. Size(s[m]) \in Nat
        BY <2>5 DEF Sized
    <2> QED
        BY <1>8, <2>3, <2>5, <2>6
<1>11. PlainSums(p, s, n)
    BY <1>7, <1>8, <1>9, <1>10 DEF PlainSums
<1> QED
    BY <1>3, <1>9, <1>11

\* Two lists, or two sums, that agree between two places.
Agree(s, t, a, b) == \A j \in a .. b : s[j] = t[j]

LEMMA WrappedAgree ==
    ASSUME NEW n \in Nat, NEW m \in Nat, NEW l \in Nat, l <= n, l <= m,
           NEW s, NEW t, Agree(s, t, 1, l),
           NEW p, WrappedSums(p, s, n), NEW q, WrappedSums(q, t, m)
    PROVE  Agree(p, q, 0, l)
<1> DEFINE Bad == {j \in 0 .. l : p[j] # q[j]}
<1>1. SUFFICES ASSUME Bad # {} PROVE FALSE
    BY DEF Agree
<1>2. Bad \in SUBSET Nat
    OBVIOUS
<1>3. PICK j \in Bad : \A a \in Bad : j <= a
    <2> HIDE DEF Bad
    <2> QED
        BY <1>1, <1>2, Least
<1>4. j # 0
    BY <1>3 DEF WrappedSums
<1>5. j \in 1 .. n /\ j \in 1 .. m /\ j \in 1 .. l /\ j - 1 \in 0 .. l
    BY <1>3, <1>4
<1>6. p[j - 1] = q[j - 1]
    BY <1>3, <1>5
<1>7. p[j] = (p[j - 1] + Size(s[j])) % W /\ q[j] = (q[j - 1] + Size(t[j])) % W
    BY <1>5 DEF WrappedSums
<1> QED
    BY <1>3, <1>5, <1>6, <1>7 DEF Agree

LEMMA PlainSumsGrow ==
    ASSUME NEW n \in Nat, NEW s, Sized(s, n), NEW q, PlainSums(q, s, n), NEW a \in 0 .. n
    PROVE  \A b \in 0 .. n : a <= b => q[a] <= q[b]
<1> DEFINE Bad == {b \in 0 .. n : a <= b /\ ~(q[a] <= q[b])}
<1>1. SUFFICES ASSUME Bad # {} PROVE FALSE
    OBVIOUS
<1>2. Bad \in SUBSET Nat
    OBVIOUS
<1>3. PICK b \in Bad : \A c \in Bad : b <= c
    <2> HIDE DEF Bad
    <2> QED
        BY <1>1, <1>2, Least
<1>4. q[a] \in Nat /\ b \in 0 .. n /\ a <= b /\ ~(q[a] <= q[b])
    BY <1>3 DEF PlainSums
<1>5. b # a
    BY <1>4
<1>6. b \in 1 .. n /\ b - 1 \in 0 .. n /\ a <= b - 1
    BY <1>4, <1>5
<1>7. q[a] <= q[b - 1]
    <2>1. b - 1 \notin Bad
        <3> HIDE DEF Bad
        <3> QED
            BY <1>2, <1>3, <1>6
    <2> QED
        BY <1>6, <2>1
<1>8. q[b] = q[b - 1] + Size(s[b]) /\ Size(s[b]) \in Nat /\ q[b - 1] \in Nat
    BY <1>6 DEF PlainSums, Sized
<1> QED
    BY <1>4, <1>7, <1>8

\* As long as the plain sum of all fits, nothing wraps.
LEMMA NothingWraps ==
    ASSUME NEW n \in Nat, NEW s, Sized(s, n), NEW p, WrappedSums(p, s, n),
           NEW q, PlainSums(q, s, n), q[n] < W
    PROVE  \A j \in 0 .. n : p[j] = q[j]
<1> DEFINE Bad == {j \in 0 .. n : p[j] # q[j]}
<1>1. SUFFICES ASSUME Bad # {} PROVE FALSE
    OBVIOUS
<1>2. Bad \in SUBSET Nat
    OBVIOUS
<1>3. PICK j \in Bad : \A a \in Bad : j <= a
    <2> HIDE DEF Bad
    <2> QED
        BY <1>1, <1>2, Least
<1>4. j # 0
    BY <1>3 DEF WrappedSums, PlainSums
<1>5. j \in 1 .. n /\ j - 1 \in 0 .. n
    BY <1>3, <1>4
<1>6. p[j - 1] = q[j - 1]
    BY <1>3, <1>5
<1>7. p[j] = (p[j - 1] + Size(s[j])) % W /\ q[j] = q[j - 1] + Size(s[j])
    BY <1>5 DEF WrappedSums, PlainSums
<1>8. q[j] \in Nat /\ q[n] \in Nat /\ q[j] <= q[n]
    <2>1. n \in 0 .. n /\ j \in 0 .. n /\ j <= n
        BY <1>5
    <2> QED
        BY <2>1, PlainSumsGrow DEF PlainSums
<1>9. q[j] < W
    <2>1. PICK w \in Nat : w = W
        BY Width
    <2> QED
        BY <1>8, <2>1
<1>10. q[j] % W = q[j]
    BY <1>8, <1>9, InWidth
<1> QED
    BY <1>3, <1>6, <1>7, <1>10

LEMMA SizeIs ==
    ASSUME NEW part \in PartitionSpec
    PROVE  /\ Size(part) \in Nat
           /\ part.size_mb # None => Size(part) = part.size_mb[1]
<1>1. part.size_mb \in Option(Nat)
    BY DEF PartitionSpec
<1>2. part.size_mb = None \/ part.size_mb[1] \in Nat
    BY <1>1, OptionIs
<1> QED
    BY <1>2 DEF Size

\* Where a partition begins: behind all that are listed before it.
LEMMA StartIs ==
    ASSUME config \in InstallConfig, NEW l \in Nat, DOMAIN parts(config) = 1 .. l,
           NEW p, WrappedSums(p, parts(config), l), NEW n \in 1 .. l
    PROVE  start_mb(config.disk, n) = p[n - 1]
<1>1. PICK all : all = parts(config) /\ all = config.disk.partitions
    BY DEF parts
<1>2. all \in Seq(PartitionSpec) /\ Len(all) = l
    BY <1>1, ConfigFields
<1>3. PICK m \in Nat : m = n - 1 /\ m <= l
    OBVIOUS
<1>4. PICK s : s = SubSeq(all, 1, m)
    OBVIOUS
<1>5. DOMAIN s = 1 .. m /\ \A j \in 1 .. m : s[j] = all[j]
    BY <1>2, <1>3, <1>4
<1>6. Sized(s, m)
    <2>1. \A j \in 1 .. m : s[j] \in PartitionSpec
        BY <1>2, <1>3, <1>5
    <2> QED
        BY <1>5, <2>1, SizeIs DEF Sized
<1>7. PICK q : WrappedSums(q, s, m) /\ WrappedFold(s) = q[m]
    BY <1>6, WrappedFoldSums
<1>8. start_mb(config.disk, n) = WrappedFold(s)
    BY <1>1, <1>3, <1>4 DEF start_mb, WrappedFold
<1>9. \A j \in 0 .. m : q[j] = p[j]
    <2>1. PICK r : r = parts(config)
        OBVIOUS
    <2>2. WrappedSums(p, r, l) /\ WrappedSums(q, s, m) /\ m <= l /\ m <= m
        BY <1>3, <1>7, <2>1
    <2>3. Agree(r, s, 1, m)
        BY <1>1, <1>5, <2>1 DEF Agree
    <2>4. Agree(p, q, 0, m)
        BY <2>2, <2>3, WrappedAgree
    <2> QED
        BY <2>4 DEF Agree
<1> QED
    BY <1>3, <1>7, <1>8, <1>9

\* Partitions are laid out one behind the other, for every accepted layout
\* whose sizes together fit in the 64 bits of the sum: none begins before
\* those listed earlier end, and only the last may be without a size.
THEOREM RangesApart == Spec => []RangesDisjoint
<1>1. ConfigKnown /\ RecInv => RangesDisjoint
    <2> SUFFICES ASSUME ConfigKnown, RecInv, Accepted(config), Sizes(config.disk) < W,
                        NEW n \in DOMAIN parts(config), NEW m \in DOMAIN parts(config), n < m
                 PROVE  /\ Arg("mkpart", n).to # Fill
                        /\ Arg("mkpart", n).from <= Arg("mkpart", n).to
                        /\ Arg("mkpart", n).to <= Arg("mkpart", m).from
        BY DEF RangesDisjoint, Planned
    <2>1. config \in InstallConfig /\ plan = RsExecutionPlan(config, uefi)
        BY ConfigTypes DEF ConfigKnown, RecInv, Client
    <2>2. PICK l \in Nat : l = Len(parts(config)) /\ DOMAIN parts(config) = 1 .. l
        BY <2>1, PartsAt
    <2>3. PICK all : all = parts(config) /\ all = config.disk.partitions
        BY DEF parts
    <2>4. \A j \in 1 .. l : all[j] \in PartitionSpec
        BY <2>1, <2>2, <2>3, PartsAt
    <2>5. Sized(all, l)
        BY <2>2, <2>3, <2>4, SizeIs DEF Sized
    <2>6. PICK p : WrappedSums(p, all, l)
        BY <2>5, WrappedFoldSums
    <2>7. PICK q : PlainSums(q, all, l) /\ PlainFold(all) = q[l]
        BY <2>5, PlainFoldSums
    <2>8. q[l] < W
        BY <2>3, <2>7 DEF Sizes, PlainFold
    <2>9. \A j \in 0 .. l : p[j] = q[j]
        BY <2>5, <2>6, <2>7, <2>8, NothingWraps
    <2>10. n \in 1 .. l /\ m \in 1 .. l /\ n \in 1 .. l - 1 /\ n - 1 \in 0 .. l /\ m - 1 \in 0 .. l
           /\ n \in 0 .. l
        BY <2>2
    <2>11. all[n].size_mb # None
        <3> SUFFICES ASSUME all[n].size_mb = None PROVE FALSE
            OBVIOUS
        <3>1. PICK why : why = "fill not last"
            OBVIOUS
        <3>2. FillErrors(all) = <<why>>
            BY <2>2, <2>3, <2>10, <3>1 DEF FillErrors, Bail
        <3>3. PICK b : b = Bail(~config.disk.use_gpt /\ Len(config.disk.partitions) > 4, "too many for MBR")
            OBVIOUS
        <3>4. TableErrors(config.disk) = <<why>> \o b
            BY <2>3, <3>2, <3>3 DEF TableErrors
        <3>5. IsList(b) /\ IsList(<<why>>) /\ InList(<<why>>, why)
            BY <3>3, InOne, InNone DEF Bail
        <3>6. InList(TableErrors(config.disk), why)
            BY <3>4, <3>5, InListsJoined
        <3>7. InList(Errors(config), why)
            BY <2>1, <3>6, RefusalsListed
        <3>8. Errors(config) = <<>>
            BY DEF Accepted, validate_config, Err
        <3> QED
            BY <3>7, <3>8, InNone
    <2>12. start_mb(config.disk, n) = p[n - 1] /\ start_mb(config.disk, m) = p[m - 1]
        BY <2>1, <2>2, <2>3, <2>6, <2>10, StartIs
    <2>13. end(config.disk, n) = p[n]
        <3>1. end(config.disk, n) = (p[n - 1] + Size(all[n])) % W
            BY <2>3, <2>11, <2>12 DEF end
        <3> QED
            BY <2>6, <2>10, <3>1 DEF WrappedSums
    <2>14. Arg("mkpart", n).from = q[n - 1] /\ Arg("mkpart", n).to = q[n] /\ Arg("mkpart", m).from = q[m - 1]
        <3>1. \A j \in DOMAIN parts(config) :
                  Arg("mkpart", j).from = start_mb(config.disk, j) /\ Arg("mkpart", j).to = end(config.disk, j)
            BY <2>1, PartitionArg
        <3> QED
            BY <2>9, <2>10, <2>12, <2>13, <3>1
    <2>15. q[n - 1] <= q[n] /\ q[n] <= q[m - 1] /\ q[n] \in Nat
        <3>1. n - 1 <= n /\ n <= m - 1
            BY <2>10
        <3> QED
            BY <2>5, <2>7, <2>10, <3>1, PlainSumsGrow DEF PlainSums
    <2> QED
        BY <2>14, <2>15 DEF Fill
<1> QED
    BY <1>1, ConfigStays, RecAlways, PTL
=============================================================================
