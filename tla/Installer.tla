------------------------------ MODULE Installer ------------------------------
(***************************************************************************)
(* A run of `agnova execute`: execute_all and execute_phase of             *)
(* executor.cyr walk the plan, with the AgnovaInstaller state of           *)
(* orchestrator.cyr, on a machine whose disk starts blank and with nothing *)
(* mounted below the target root.  A step is one operation of the plan; it *)
(* may fail at any time, with or without having done its work, and an      *)
(* operation that the machine cannot do fails always.  The run may be      *)
(* killed between any two steps; nothing is kept for a later run.          *)
(***************************************************************************)
EXTENDS InstallPlan

CONSTANT Configs    \* configurations that pass validate_config

\* The only layout _config_from_flags gives a native backend.
agnova_default_disk_layout ==
    <<[fs |-> "vfat", mp |-> Esp, flags |-> 2], [fs |-> "ext4", mp |-> <<>>, flags |-> 0]>>

ASSUME ConfigTypes ==
    \A c \in Configs :
        /\ c.backend \in {"shell", "native"} /\ c.encrypt \in BOOLEAN
        /\ c.parts \in Seq([fs : {"ext4", "btrfs", "xfs", "vfat", "swap"}, mp : Seq(STRING),
                            flags : Nat])
        /\ c.backend = "native" => c.parts = agnova_default_disk_layout

VARIABLES
    cfg, plan,  \* what to install and the plan made of it
    \* AgnovaInstaller: current phase, completed phases, errors
    phase, completed, errors,
    \* execute_all and execute_phase: next entry of the plan, next operation of
    \* it (0: not entered yet), and how the run stands
    i, k, status,
    \* the machine: partitions that exist, what each holds (0 is the LUKS
    \* mapping), whether the mapping is open, partitions mounted (in order of
    \* mounting), active swap, and <<what, path, volume>> for all that was put
    \* below the target root (volume 0 is the running system itself)
    table, holds, mapped, mounted, swaps, files

given == <<cfg, plan>>
inst == <<phase, completed, errors>>
machine == <<table, holds, mapped, mounted, swaps, files>>
vars == <<given, inst, i, k, status, machine>>

entry == plan[i]
op == entry.ops[k]
parts == cfg.parts
mp(p) == parts[p].mp

Init ==
    /\ cfg \in Configs /\ plan = Plan(cfg)
    /\ phase = VALIDATE /\ completed = <<>> /\ errors = <<>>
    /\ i = 1 /\ k = 0 /\ status = "running"
    /\ table = {} /\ holds = [p \in 0 .. Len(parts) |-> "blank"] /\ mapped = FALSE
    /\ mounted = <<>> /\ swaps = {} /\ files = {}
-----------------------------------------------------------------------------
(* The machine.                                                            *)

\* The partition mounted last on a path or above it; the native backends
\* write into the file system of the one partition that is meant.
MountedAbove(at) == {m \in DOMAIN mounted : IsPrefix(mp(mounted[m]), at)}
Meant(at) == IF IsPrefix(Esp, at) THEN 1 ELSE 2
Volume(at) ==
    IF cfg.backend = "shell"
    THEN IF MountedAbove(at) = {} THEN 0 ELSE mounted[Max(MountedAbove(at))]
    ELSE IF holds[Meant(at)] = "fs" THEN Meant(at) ELSE 0

\* What is mounted for partition p: an encrypted root is the mapping.
Device(p) == IF cfg.encrypt /\ mp(p) = <<>> THEN 0 ELSE p

\* An open mapping or a mount makes a partition busy.
Busy(p) == p \in ToSet(mounted) \/ (mapped /\ p = RootOf(parts))

\* Mounted after p, on its path, above it or below it.
Over(p) ==
    {q \in DOMAIN mounted :
        /\ \E m \in 1 .. q - 1 : mounted[m] = p
        /\ IsPrefix(mp(p), mp(mounted[q])) \/ IsPrefix(mp(mounted[q]), mp(p))}

\* The kernel or the command refuses anything else.
Possible ==
    /\ op.do = "mkpart" => table = 1 .. op.on - 1
    /\ op.do \in {"set", "luksFormat", "mkfs"} => op.on \in table
    /\ op.do = "luksOpen" => holds[op.on] = "luks"
    /\ op.do = "mkfs" =>
           IF cfg.backend = "shell" THEN ~Busy(op.on)
           ELSE parts[op.on].fs \in {"vfat", "ext4"}
    /\ op.do = "mount" =>
           /\ holds[Device(op.on)] = "fs"
           /\ <<"mountpoint", mp(op.on), Volume(mp(op.on))>> \in files
    /\ op.do = "unmount" => op.on \in ToSet(mounted) /\ Over(op.on) = {}
    /\ op.do = "swapon" => holds[op.on] = "swap"
    /\ op.do = "put" => cfg.backend = "shell" \/ table # {}
    /\ op.do = "copy" => <<"base", <<>>, Volume(<<>>)>> \in files

Partitions ==
    /\ op.do \in {"mklabel", "gpt", "mkpart"}
    /\ table' = IF op.do = "mklabel" THEN {}
                ELSE IF op.do = "gpt" THEN {1, 2} ELSE table \cup {op.on}
    /\ UNCHANGED <<holds, mapped, mounted, swaps, files>>

Contents ==
    /\ op.do \in {"luksFormat", "mkfs"}
    /\ holds' = [holds EXCEPT ![op.on] =
           IF op.do = "luksFormat" THEN "luks"
           ELSE IF parts[op.on].fs = "swap" THEN "swap" ELSE "fs"]
    /\ UNCHANGED <<table, mapped, mounted, swaps, files>>

Without(list, x) == ForEach(list, LAMBDA p : If(p # x, <<p>>))
Mounts ==
    /\ op.do \in {"mount", "unmount"}
    /\ mounted' = IF op.do = "mount" THEN Append(mounted, op.on)
                  ELSE Without(mounted, op.on)
    /\ UNCHANGED <<table, holds, mapped, swaps, files>>

\* swapon, cryptsetup open, and both undone.
Holders ==
    /\ op.do \in {"swapon", "luksOpen", "release"}
    /\ swaps' = IF op.do = "swapon" THEN swaps \cup {op.on} ELSE swaps \ {op.on}
    /\ mapped' = (op.do = "luksOpen" \/ (mapped /\ op.on # 0))
    /\ UNCHANGED <<table, holds, mounted, files>>

Puts ==
    /\ op.do \in {"put", "copy"}
    /\ files' = files \cup {<<op.what, op.at, Volume(op.at)>>}
    /\ UNCHANGED <<table, holds, mapped, mounted, swaps>>

Neither == op.do \in {"set", "nothing"} /\ UNCHANGED machine

Effect == Partitions \/ Contents \/ Mounts \/ Holders \/ Puts \/ Neither
-----------------------------------------------------------------------------
(* The executor.                                                           *)

Recoverable(p) == p \notin {PARTITION, ENCRYPTION, FORMAT, BASE, BOOTLOADER}

\* agnova_set_phase comes before the phase's operations; the bug to catch
\* runs them under the phase before.
PhaseLagging == phase
PhaseEntered == entry.phase

\* agnova_set_phase, before any operation of the entry.
Enter ==
    /\ status = "running" /\ i <= Len(plan) /\ k = 0
    /\ phase' = PhaseEntered /\ k' = 1
    /\ UNCHANGED <<given, completed, errors, i, status, machine>>

Running == status = "running" /\ i <= Len(plan) /\ k # 0 /\ k <= Len(entry.ops)

Succeed == k' = k + 1 /\ UNCHANGED <<given, inst, i, status>>

\* op_is_fatal: all but the commands that are marked; the bug to catch lets a
\* mount fail.
FatalButMount == op.fatal /\ op.do # "mount"
Fatal == op.fatal

\* execute_all stops when a phase has failed; the bug to catch drops its result.
GoesOn == "running"
Stops == "failed"

\* execute_phase: agnova_fail_phase and return, or a warning.
Fail ==
    IF Fatal
    THEN /\ errors' = Append(errors, [phase |-> phase, recoverable |-> Recoverable(phase)])
         /\ status' = Stops /\ k' = k + 1
         /\ UNCHANGED <<given, phase, completed, i>>
    ELSE Succeed

OpSucceeds == Running /\ Possible /\ Effect /\ Succeed
OpFailsLate == Running /\ Possible /\ Effect /\ Fail
OpFails == Running /\ UNCHANGED machine /\ Fail

\* --until; the bug to catch takes phases for ordered as they are numbered.
ReachedPast == phase >= cfg.until
Reached == phase = cfg.until

Leave ==
    /\ status = "running" /\ i <= Len(plan) /\ k # 0 /\ k > Len(entry.ops)
    /\ completed' = Append(completed, phase)
    /\ IF Reached THEN status' = "halted" /\ UNCHANGED <<i, k>>
       ELSE i' = i + 1 /\ k' = 0 /\ UNCHANGED status
    /\ UNCHANGED <<given, phase, errors, machine>>

Finish ==
    /\ status = "running" /\ i > Len(plan)
    /\ phase' = COMPLETE /\ status' = "complete"
    /\ UNCHANGED <<given, completed, errors, i, k, machine>>

\* The process has exited.
Exited == status # "running" /\ UNCHANGED vars

Next == Enter \/ OpSucceeds \/ OpFailsLate \/ OpFails \/ Leave \/ Finish \/ Exited

Spec == Init /\ [][Next]_vars

\* agnova_result
Success == errors = <<>> /\ phase = COMPLETE
=============================================================================
