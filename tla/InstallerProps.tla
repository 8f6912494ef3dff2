---------------------------- MODULE InstallerProps ----------------------------
(***************************************************************************)
(* What a run of the installer must keep true, whatever operation fails    *)
(* and wherever the run stops.                                             *)
(***************************************************************************)
EXTENDS Installer

\* The variables hold what the code can put there.
TypeOK ==
    /\ cfg \in Configs /\ plan = Plan(cfg) /\ phase \in VALIDATE .. COMPLETE
    /\ completed \in Seq(PARTITION .. CLEANUP)
    /\ errors \in Seq([phase : PARTITION .. CLEANUP, recoverable : BOOLEAN])
    /\ status \in {"running", "failed", "halted", "complete"}
    /\ i \in 1 .. Len(plan) + 1
    /\ k \in 0 .. IF i > Len(plan) THEN 0 ELSE Len(entry.ops) + 1
    /\ table \subseteq DOMAIN parts /\ swaps \subseteq DOMAIN parts
    /\ holds \in [0 .. Len(parts) -> {"blank", "luks", "fs", "swap"}]
    /\ mapped \in BOOLEAN /\ mounted \in Seq(DOMAIN parts)
    /\ \A f \in files : f[3] \in 0 .. Len(parts)

\* The layouts that are meant: a file system at the root, no two at one mount
\* point, and none at the "none" of swap partitions.  validate_config asks no
\* more than that some partition be at the root.
Mountable == {p \in DOMAIN parts : parts[p].fs # "swap"}
SoundLayout ==
    /\ \E p \in Mountable : mp(p) = <<>>
    /\ \A p \in Mountable : mp(p) # <<"none">>
    /\ \A p, q \in Mountable : mp(p) = mp(q) => p = q

\* The partition a path of the installed system belongs to.
Home(at) ==
    LET above == {p \in Mountable : IsPrefix(mp(p), at)}
    IN  CHOOSE p \in above : \A q \in above : Len(mp(q)) <= Len(mp(p))

\* The layouts that the cleanup can unmount: it takes "/" for as deep as
\* "/home", and those then go in the order of the layout.
Unmountable ==
    /\ SoundLayout
    /\ \A p, root \in Mountable : Len(mp(p)) = 1 /\ mp(root) = <<>> => p < root

\* What a plan has done before never makes its next operation impossible:
\* nothing is mounted unformatted or over a missing directory, formatted while
\* in use, copied before it is there, or unmounted with a mount below it.
PlanPossible ==
    Running /\ ~cfg.encrypt /\ op.fatal /\ (op.do = "unmount" => Unmountable) => Possible

\* All that goes below the target root lands in the file system that will be
\* there when the installed system runs; nothing reaches the running system,
\* whose /mnt only gets the root's mount point.
IsHome(f) ==
    IF f[1] # "mountpoint" THEN f[3] = Home(f[2])
    ELSE f[3] = IF f[2] = <<>> THEN 0 ELSE Home(Front(f[2]))
FilesGoHome == SoundLayout => \A f \in files : IsHome(f)

\* Success is reported only for a machine that can be rebooted: every partition
\* made and formatted, nothing left mounted, and each part where it belongs.
There(what, at) == <<what, at, Home(at)>> \in files
LoaderPath ==
    IF cfg.backend = "shell" /\ cfg.boot = "grub2" /\ ~cfg.uefi THEN <<"boot">> ELSE Esp
Installed ==
    /\ table = DOMAIN parts /\ mounted = <<>>
    /\ \A p \in DOMAIN parts : holds[p] = IF parts[p].fs = "swap" THEN "swap" ELSE "fs"
    /\ There("base", <<>>) \/ There("agnsh", <<"bin">>)
    /\ There("loader", LoaderPath)
    /\ cfg.boot = "gnoboot" => There("kernel", Esp)
    /\ There("fstab", <<"etc">>) /\ There("first-boot", <<"etc">>)
    /\ cfg.user # {} /\ cfg.backend = "shell" => There("account", <<"etc">>)
SuccessMeansInstalled == SoundLayout /\ Success => Installed

\* A failure is the one error of the run and bears the phase it happened in;
\* the phases before it, and no others, are completed.
FailureAttributed ==
    /\ completed = [j \in 1 .. IF status = "halted" THEN i ELSE i - 1 |-> plan[j].phase]
    /\ errors # <<>> <=> status = "failed"
    /\ errors # <<>> => Len(errors) = 1 /\ errors[1].phase = entry.phase

\* --until with a phase that the plan has ends the run when all of that phase,
\* and nothing behind it, is done.  CONFIGURE, with two entries, is the
\* exception: see UntilHalts.
Asked == {j \in DOMAIN plan : plan[j].phase = cfg.until}
WholePhase == \A j \in Asked : j <= i
HaltedWhereAsked ==
    /\ status = "halted" => i \in Asked /\ (cfg.until # CONFIGURE => WholePhase)
    /\ status = "complete" => Asked = {}

\* After a fatal failure nothing more is done to the machine: no cleanup, but
\* no further damage either.
NothingAfterFailure == [][errors # <<>> => UNCHANGED machine]_vars
-----------------------------------------------------------------------------
(* What the repository says of the program and the code does not keep.     *)

\* "Stops the install after a named phase", "halt after this phase": a run that
\* was given a phase does not go on to the end, and leaves nothing of the phase
\* undone.
UntilHalts ==
    status \in {"halted", "complete"} /\ cfg.until # COMPLETE =>
        status = "halted" /\ WholePhase

\* "sort by depth DESC (deepest first)": what is unmounted has no mount below.
UnmountsDeepestFirst ==
    Running /\ op.do = "unmount" =>
        \A p \in ToSet(mounted) \ {op.on} : ~IsPrefix(mp(op.on), mp(p))

\* "optionally encrypts the root volume with LUKS": the plan can be carried
\* out with encryption, too.
EncryptedPossible == Running /\ cfg.encrypt /\ op.fatal => Possible
=============================================================================
