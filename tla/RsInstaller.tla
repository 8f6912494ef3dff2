----------------------------- MODULE RsInstaller -----------------------------
(***************************************************************************)
(* AgnovaInstaller of the Rust library (lib.rs).  The library plans and    *)
(* keeps the record; a client program, which is not in the repository,     *)
(* carries the plan out.  The client takes the phases in order: it         *)
(* validates, then runs the plan's operations for the current phase,       *)
(* reports a failure with fail_phase and otherwise calls advance_phase.    *)
(* A client is a number: that of failures it puts up with, leaving the     *)
(* failed phase and calling advance_phase all the same, as long as that    *)
(* answers true; or Asks, which only wants the verdict.                    *)
(* The machine is the one of Installer.                                    *)
(***************************************************************************)
EXTENDS RsPlan, RsValidation

CONSTANTS Configs, Clients

ASSUME ConfigTypes == Configs \subseteq InstallConfig

Asks == -1

VARIABLES
    config, uefi, client, plan,    \* what is installed, where, by whom
    phase, completed_phases, errors,    \* AgnovaInstaller
    \* the client: entry of the plan (0: none), next operation of it, and
    \* whether it goes on
    i, k, status,
    table, holds, mapped, mounted, swaps, files    \* as in Installer

given == <<config, uefi, client, plan>>
inst == <<phase, completed_phases, errors>>
machine == <<table, holds, mapped, mounted, swaps, files>>
vars == <<given, inst, i, k, status, machine>>

\* The configuration and the plan as the port has them.
PortFs == [Ext4 |-> "ext4", Btrfs |-> "btrfs", Xfs |-> "xfs", Vfat |-> "vfat", Swap |-> "swap"]
PortMode == [Server |-> "server", Desktop |-> "desktop", Minimal |-> "minimal", Custom |-> "custom"]
When(condition, word) == IF condition THEN {word} ELSE {}
Ported ==
    LET disk == config.disk  user == config.user
        net == config.network  sec == config.security
    IN  [backend |-> "shell", encrypt |-> disk.encrypt, mode |-> PortMode[config.mode],
         parts |-> [n \in DOMAIN disk.partitions |->
                       [fs |-> PortFs[disk.partitions[n].filesystem],
                        mp |-> disk.partitions[n].mount_point,
                        flags |-> Len(disk.partitions[n].flags)]],
         boot |-> IF config.bootloader.bootloader_type = "Grub2" THEN "grub2" ELSE "systemd",
         uefi |-> uefi,
         user |-> {"account"} \cup When(user.ssh_keys # <<>>, "keys")
                  \cup When(user.enable_sudo, "sudo"),
         net |-> When(net.dns # <<>>, "dns")
                 \cup When(~net.use_dhcp /\ net.static_ip # None, "static"),
         sec |-> When(sec.firewall_default = "Deny", "deny")
                 \cup When(sec.enable_dmverity, "verity"),
         tarball |-> FALSE, until |-> COMPLETE]
PortPlan == [n \in DOMAIN plan |->
    Phase(index(plan[n].phase), [m \in DOMAIN plan[n].operations |-> plan[n].operations[m].op])]

M == INSTANCE InstallerProps WITH
         Configs <- {}, cfg <- Ported, plan <- PortPlan,
         phase <- index(phase), completed <- completed_phases
-----------------------------------------------------------------------------
(* lib.rs                                                                  *)

new ==
    /\ phase = "ValidateConfig" /\ completed_phases = <<>> /\ errors = <<>>

\* The bug to catch has the flag the wrong way round.
BlockedWhenRecoverable == \E e \in ToSet(errors) : e.phase = phase /\ e.recoverable
Blocked == \E e \in ToSet(errors) : e.phase = phase /\ ~e.recoverable

\* What advance_phase returns.
Advances == ~Blocked /\ next(phase) # None

\* The phase that is left is completed; the bug to catch takes the new one.
CompletedNext == next(phase)[1]
CompletedPhase == phase

advance_phase ==
    IF Advances
    THEN /\ completed_phases' = Append(completed_phases, CompletedPhase)
         /\ phase' = next(phase)[1] /\ UNCHANGED errors
    ELSE UNCHANGED inst

\* Phases whose failure is final; the bug to catch has lost one.
NonRecoverableButBase ==
    {"PartitionDisk", "SetupEncryption", "FormatFilesystems", "InstallBootloader"}
NonRecoverable == {"PartitionDisk", "SetupEncryption", "FormatFilesystems", "InstallBase",
                   "InstallBootloader"}
fail_phase ==
    /\ errors' = Append(errors, [phase |-> phase, recoverable |-> phase \notin NonRecoverable])
    /\ UNCHANGED <<phase, completed_phases>>

is_complete == phase = "Complete"

\* The bug to catch forgets the errors that were passed over.
SuccessWhenComplete == is_complete
Success == errors = <<>> /\ is_complete

\* How many packages, how much and how long are numbers nothing else looks at.
result == [success |-> Success, phases_completed |-> completed_phases, errors |-> errors]
-----------------------------------------------------------------------------
(* The client.                                                             *)

Init ==
    /\ config \in Configs /\ uefi \in BOOLEAN /\ client \in Clients
    /\ plan = RsExecutionPlan(config, uefi)
    /\ new
    /\ i = 0 /\ k = 0 /\ status = "running"
    /\ table = {} /\ holds = [p \in 0 .. Len(parts(config)) |-> "blank"] /\ mapped = FALSE
    /\ mounted = <<>> /\ swaps = {} /\ files = {}

\* The entries of the plan for phase p after entry n; the bug to catch runs
\* whatever entry comes next.
EntriesOfAny(p, n) == {m \in DOMAIN plan : m > n}
Entries(p, n) == {m \in DOMAIN plan : m > n /\ plan[m].phase = p}
GoTo(p, n) ==
    IF Entries(p, n) = {} THEN i' = 0 /\ k' = 0 ELSE i' = Min(Entries(p, n)) /\ k' = 1

Validate ==
    /\ status = "running" /\ phase = "ValidateConfig"
    /\ IF ~Accepted(config)
       THEN fail_phase /\ status' = "stopped" /\ UNCHANGED <<i, k>>
       ELSE IF client = Asks
            THEN status' = "answered" /\ UNCHANGED <<inst, i, k>>
            ELSE advance_phase /\ GoTo("PartitionDisk", 0) /\ UNCHANGED status
    /\ UNCHANGED <<given, machine>>

Running == status = "running" /\ i # 0 /\ k <= Len(plan[i].operations)
operation == plan[i].operations[k].op

Succeed == k' = k + 1 /\ UNCHANGED <<given, inst, i, status>>

\* "If true, failure aborts the installation"; operations other than commands
\* have no such flag.
Fail ==
    IF ~operation.fatal THEN Succeed
    ELSE /\ fail_phase /\ UNCHANGED given
         /\ IF Len(errors) < client THEN i' = 0 /\ k' = 0 /\ UNCHANGED status
            ELSE status' = "stopped" /\ UNCHANGED <<i, k>>

OpSucceeds == Running /\ M!Possible /\ M!Effect /\ Succeed
OpFailsLate == Running /\ M!Possible /\ M!Effect /\ Fail
OpFails == Running /\ UNCHANGED machine /\ Fail

EntryOver == status = "running" /\ (i # 0 => k > Len(plan[i].operations))

NextEntry ==
    /\ EntryOver /\ i # 0 /\ Entries(phase, i) # {}
    /\ GoTo(phase, i) /\ UNCHANGED <<given, inst, status, machine>>

Proceed ==
    /\ EntryOver /\ phase # "ValidateConfig" /\ (i # 0 => Entries(phase, i) = {})
    /\ advance_phase
    /\ IF Advances THEN GoTo(next(phase)[1], 0) /\ UNCHANGED status
       ELSE status' = (IF is_complete THEN "finished" ELSE "stopped") /\ UNCHANGED <<i, k>>
    /\ UNCHANGED <<given, machine>>

Exited == status # "running" /\ UNCHANGED vars

Next == Validate \/ OpSucceeds \/ OpFailsLate \/ OpFails \/ NextEntry \/ Proceed \/ Exited

Spec == Init /\ [][Next]_vars
=============================================================================
