--------------------------- MODULE RsInstallerProps ---------------------------
(***************************************************************************)
(* What the Rust library's verdicts, plans and record must be good for,    *)
(* whichever client uses them.                                             *)
(***************************************************************************)
EXTENDS RsInstaller, Validation

\* The variables hold what the code and the client can put there.
TypeOK ==
    /\ config \in Configs /\ uefi \in BOOLEAN /\ client \in Clients
    /\ plan = RsExecutionPlan(config, uefi)
    /\ phase \in InstallPhase /\ completed_phases \in Seq(InstallPhase)
    /\ errors \in Seq(InstallError)
    /\ status \in {"running", "stopped", "answered", "finished"}
    /\ i \in 0 .. Len(plan)
    /\ i # 0 => plan[i].phase = phase /\ k \in 1 .. Len(plan[i].operations) + 1
    /\ table \cup swaps \cup ToSet(mounted) \subseteq DOMAIN parts(config) /\ mapped \in BOOLEAN
    /\ holds \in [0 .. Len(parts(config)) -> {"blank", "luks", "fs", "swap"}]
    /\ \A f \in files : f[3] \in 0 .. Len(parts(config))

\* An accepted configuration, before anything is done with it.
Planned == phase = "ValidateConfig" /\ status = "running" /\ Accepted(config)
-----------------------------------------------------------------------------
(* Verdicts and plans.                                                     *)

\* validation.cyr gives the answer validation.rs gives, the first error
\* included, but where the port has another rule: an account is optional, and
\* an empty address is none.  The file backend refuses nothing more.
PortValidatesAlike ==
    LET c == PortConfig(config)
    IN  /\ config.user.username # <<>> /\ config.network.static_ip # Some(<<>>) =>
               PortAnswer("shell", c) = validate_config(config)
        /\ PortAnswer("shell", c).ok => PortAnswer("native-file", c).ok

\* The port plans the operations that the Rust library plans, in its order.
PortPlansAlike == Planned => PortPlan = full_execution_plan(Ported)

\* All operations of the plan; the argument of the one for partition n.
Ops == FlattenSeq([e \in DOMAIN plan |-> plan[e].operations])
Arg(command, n) ==
    Ops[CHOOSE m \in DOMAIN Ops : Ops[m].op.do = command /\ Ops[m].op.on = n].arg

\* Partitions are laid out one behind the other: none begins before those
\* listed earlier end, unless the sizes leave the 64 bits of the sum.
Sizes(disk) == FoldLeft(LAMBDA sum, part : sum + Size(part), 1, disk.partitions)
RangesDisjoint ==
    Planned /\ Sizes(config.disk) < W =>
        \A n, m \in DOMAIN parts(config) :
            n < m => LET first == Arg("mkpart", n)  second == Arg("mkpart", m)
                     IN  first.to # Fill /\ first.from <= first.to /\ first.to <= second.from

\* The devices that a label, or the mapping, stands for once all is formatted.
Resolved(name) ==
    IF name = <<"mapper">> THEN {Mapper}
    ELSE {Arg("mkfs", n).device :
             n \in {n \in DOMAIN parts(config) : Arg("mkfs", n).label = Tail(name)}}

\* Every line of fstab leads to the device that the installer itself mounts
\* there, provided the labels are distinct and no swap is to be the root, which
\* validate_config allows.
SwapIsRoot == \E part \in ToSet(parts(config)) : IsRoot(part) /\ IsSwap(part)
DistinctLabels ==
    \A n, m \in DOMAIN parts(config) :
        parts(config)[n].label = parts(config)[m].label => n = m
FstabMatchesMounts ==
    Planned /\ ~SwapIsRoot /\ DistinctLabels =>
        LET fstab == Ops[CHOOSE m \in DOMAIN Ops : Ops[m].op.what = "fstab"].arg
        IN  \A n \in DOMAIN parts(config) :
                Resolved(fstab[n].device) =
                    {Arg(IF IsSwap(parts(config)[n]) THEN "swapon" ELSE "mount", n).device}

\* The kernel is told to boot what the installer mounts as root, encrypted or
\* not, provided that the root alone has the label of the default layout.
RootAloneLabelled ==
    {n \in DOMAIN parts(config) : parts(config)[n].label = <<"agnos-root">>} = {RootIndex(config)}
BootsItsRoot ==
    Planned /\ ~SwapIsRoot /\ RootAloneLabelled =>
        Resolved(Tail(Last(kernel_cmdline(config)))) =
            {Arg("mount", RootIndex(config)).device}
-----------------------------------------------------------------------------
(* The record, and a run that follows it.                                  *)

\* The record is that of a ladder whose fatal rungs are the phases that the
\* port calls unrecoverable.
L == INSTANCE Ladder WITH Top <- COMPLETE,
         Fatal <- {PARTITION, ENCRYPTION, FORMAT, BASE, BOOTLOADER},
         rung <- index(phase), failed <- {index(e.phase) : e \in ToSet(errors)}
ClimbsLadder == L!Spec

\* The completed phases are those before the current one, all of them.
CompletedIsPrefix == completed_phases = SubSeq(AllPhases, 1, index(phase))

\* A phase fails once at most, failures come in the order of the phases, and
\* each is of a phase that was left or is current.
ErrorsInOrder ==
    /\ \A n, m \in DOMAIN errors : n < m => index(errors[n].phase) < index(errors[m].phase)
    /\ \A n \in DOMAIN errors : index(errors[n].phase) <= index(phase)

\* After a failure that is not recoverable nothing is done any more, even for
\* a client that tries to go on.
NothingAfterFatal ==
    [][(\E e \in ToSet(errors) : ~e.recoverable) => UNCHANGED <<phase, machine>>]_vars

\* Run in the order of the phases, which is not the plan's, no operation finds
\* the machine in a state that refuses it, except that plan_cleanup takes "/" for
\* as deep as "/home" (Unmountable).
PhaseOrderPossible ==
    Running /\ errors = <<>> /\ ~config.disk.encrypt /\ operation.fatal
            /\ (operation.do = "unmount" => M!Unmountable) =>
        M!Possible

\* A careful client's installation only writes to the file systems it is to
\* have, never to the running system.
CarefulGoesHome == client = 0 => M!FilesGoHome

\* Success is reported only for a machine that has all the plan was for, where
\* the layout says where it belongs (SoundLayout).
SuccessMeansInstalled == M!SoundLayout /\ result.success => M!Installed
-----------------------------------------------------------------------------
(* What the repository says and the code does not keep.                    *)

\* "Whether the installation can continue past this error": a client that
\* continues past those it may continue past installs to the target.
ContinuesHome == M!FilesGoHome
=============================================================================
