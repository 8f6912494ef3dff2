----------------------------- MODULE InstallPlan -----------------------------
(***************************************************************************)
(* What the planners of partitioning.cyr, rootfs.cyr and disk_plan.cyr     *)
(* make of a configuration: a sequence of phases, each a sequence of       *)
(* operations.  An operation keeps what the others depend on: the command, *)
(* the partition it is for, what it puts at which path below the target    *)
(* root, and whether its failure ends the run.  Arguments, contents, modes *)
(* and owners are left out.                                                *)
(*                                                                         *)
(* A path is a sequence of names; <<>> is the target root itself.  A       *)
(* partition is [fs, mp, flags]: file system, mount point, number of flags *)
(* to set.  A configuration is a record; see MCInstaller for its fields.   *)
(***************************************************************************)
EXTENDS Integers, SequencesExt

VALIDATE == 0
PARTITION == 1
ENCRYPTION == 2
FORMAT == 3
MOUNT == 4
BASE == 5
PACKAGES == 6
CONFIGURE == 7
BOOTLOADER == 8
USER == 9
SECURITY == 10
FIRST_BOOT == 11
CLEANUP == 12
COMPLETE == 13

Phase(phase, ops) == [phase |-> phase, ops |-> ops]

\* A command on partition i (0: on the disk), a file or directory put under a
\* path, and one whose contents are copied out of the installed base system.
On(command, i) == [do |-> command, on |-> i, at |-> <<>>, what |-> "", fatal |-> TRUE]
Put(what, at) == [do |-> "put", on |-> 0, at |-> at, what |-> what, fatal |-> TRUE]
FromBase(what, at) == [Put(what, at) EXCEPT !.do = "copy"]
NonFatal(op) == [op EXCEPT !.fatal = FALSE]
Nothing == NonFatal(On("nothing", 0))

Esp == <<"boot", "efi">>

\* The operations made for each partition, in this order of the partitions.
ForEach(order, OpsOf(_)) == FlattenSeq([k \in DOMAIN order |-> OpsOf(order[k])])
InOrder(parts) == [i \in DOMAIN parts |-> i]

\* The members of S with one before another as Before has it.
Ordered(S, Before(_, _)) ==
    CHOOSE order \in [1 .. Cardinality(S) -> S] :
        \A m, n \in DOMAIN order : m < n => Before(order[m], order[n])

\* The mount point "none", as swap partitions have it, has no slash.
Slashes(part) ==
    IF part.mp = <<"none">> THEN 0 ELSE IF part.mp = <<>> THEN 1 ELSE Len(part.mp)

\* The root, or the last partition if there is none.
RootOf(parts) ==
    LET roots == {i \in DOMAIN parts : parts[i].mp = <<>>}
    IN  IF roots = {} THEN Len(parts) ELSE CHOOSE i \in roots : \A j \in roots : i <= j
-----------------------------------------------------------------------------
(* The shell backend.                                                      *)

PartitionPlan(cfg) ==
    <<On("mklabel", 0)>> \o ForEach(InOrder(cfg.parts), LAMBDA i :
        <<On("mkpart", i)>> \o [f \in 1 .. cfg.parts[i].flags |-> On("set", i)])

EncryptionPlan(cfg) ==
    IF cfg.encrypt /\ cfg.parts # <<>>
    THEN <<On("luksFormat", RootOf(cfg.parts)), On("luksOpen", RootOf(cfg.parts))>>
    ELSE <<>>

\* One mkfs or mkswap for each partition, encrypted or not.
FormatPlan(cfg) == ForEach(InOrder(cfg.parts), LAMBDA i : <<On("mkfs", i)>>)

\* By depth, the root first; equal depths keep their order.  The bug to catch
\* forgets that "/" has a slash of its own.
MountDepthSlashes(part) == Slashes(part)
MountDepth(part) == IF part.mp = <<>> THEN 0 ELSE Slashes(part)

MountOrder(parts) ==
    Ordered(DOMAIN parts, LAMBDA i, j :
        \/ MountDepth(parts[i]) < MountDepth(parts[j])
        \/ MountDepth(parts[i]) = MountDepth(parts[j]) /\ i < j)

MountPlan(cfg) ==
    ForEach(MountOrder(cfg.parts), LAMBDA i :
        IF cfg.parts[i].fs = "swap" THEN <<NonFatal(On("swapon", i))>>
        ELSE <<Put("mountpoint", cfg.parts[i].mp), On("mount", i)>>)

\* "dirs" stands for the directories made one by one.  The bug to catch lets
\* the archive fail, as the fallback may.
BasePlanLoose(cfg) ==
    <<Put("dirs", <<>>), NonFatal(Put("base", <<>>)), NonFatal(Put("ark", <<>>))>>
BasePlan(cfg) == <<Put("dirs", <<>>), Put("base", <<>>), NonFatal(Put("ark", <<>>))>>

\* No mode selects extra packages.
PackagesPlan(cfg) ==
    IF cfg.mode \in {"server", "desktop"} THEN <<Put("packages", <<>>)>> ELSE <<>>

GrubPlan(cfg) ==
    <<Put("loader", IF cfg.uefi THEN Esp ELSE <<"boot">>),
      Put("dir", <<"boot", "grub">>), Put("grub.cfg", <<"boot", "grub">>)>>

SystemdPlan ==
    <<Put("loader", Esp),
      Put("dir", Esp \o <<"loader">>), Put("loader.conf", Esp \o <<"loader">>),
      Put("dir", Esp \o <<"loader", "entries">>),
      Put("entry", Esp \o <<"loader", "entries">>),
      Put("rescue entry", Esp \o <<"loader", "entries">>)>>

GnobootPlan ==
    <<Put("dir", Esp \o <<"EFI", "BOOT">>), Put("dir", Esp \o <<"boot">>),
      FromBase("loader", Esp), FromBase("kernel", Esp)>>

BootloaderPlan(cfg) ==
    IF cfg.boot = "grub2" THEN GrubPlan(cfg)
    ELSE IF cfg.boot = "systemd" THEN SystemdPlan ELSE GnobootPlan

\* The optional parts of a configuration are sets of words.
If(condition, ops) == IF condition THEN ops ELSE <<>>

UserPlan(cfg) ==
    <<FromBase("account", <<"etc">>)>>
    \o If("keys" \in cfg.user, <<Put("dir", <<"home">>), Put("keys", <<"home">>)>>)
    \o If("sudo" \in cfg.user, <<NonFatal(FromBase("wheel", <<"etc">>))>>)

NetworkPlan(cfg) ==
    <<Put("hostname", <<"etc">>), Put("hosts", <<"etc">>)>>
    \o If("dns" \in cfg.net, <<Put("resolv.conf", <<"etc">>)>>)
    \o If("static" \in cfg.net, <<Put("dir", <<"etc">>), Put("static.network", <<"etc">>)>>)

LocalePlan(cfg) ==
    <<Put("locale.conf", <<"etc">>), Put("localtime", <<"etc">>),
      Put("machine-id", <<"etc">>), Put("fstab", <<"etc">>)>>

SecurityPlan(cfg) ==
    If("deny" \in cfg.sec, <<Put("nftables.conf", <<"etc">>)>>)
    \o If("verity" \in cfg.sec, <<Put("dir", <<"etc", "ima">>), Put("policy.conf", <<"etc", "ima">>)>>)
    \o <<Put("sysctl", <<"etc">>)>>

Services(mode) == IF mode = "desktop" THEN 7 ELSE IF mode = "server" THEN 6 ELSE 3
Marker == Put("first-boot", <<"etc">>)
FirstBootPlan(cfg) ==
    Append([s \in 1 .. Services(cfg.mode) |-> NonFatal(FromBase("service", <<"etc">>))], Marker)

\* By number of slashes, deepest first; equal numbers keep their order.
CleanupOrder(parts) ==
    Ordered({i \in DOMAIN parts : parts[i].fs # "swap"}, LAMBDA i, j :
        \/ Slashes(parts[i]) > Slashes(parts[j])
        \/ Slashes(parts[i]) = Slashes(parts[j]) /\ i < j)

CleanupPlan(cfg) ==
    <<Nothing>>
    \o ForEach(CleanupOrder(cfg.parts), LAMBDA i : <<On("unmount", i)>>)
    \o ForEach(InOrder(cfg.parts), LAMBDA i :
           If(cfg.parts[i].fs = "swap", <<NonFatal(On("release", i))>>))
    \o If(cfg.encrypt, <<NonFatal(On("release", 0))>>)

full_execution_plan(cfg) ==
    <<Phase(PARTITION, PartitionPlan(cfg)), Phase(ENCRYPTION, EncryptionPlan(cfg)),
      Phase(FORMAT, FormatPlan(cfg)), Phase(MOUNT, MountPlan(cfg)),
      Phase(BASE, BasePlan(cfg)), Phase(PACKAGES, PackagesPlan(cfg)),
      Phase(BOOTLOADER, BootloaderPlan(cfg))>>
    \o If(cfg.user # {}, <<Phase(USER, UserPlan(cfg))>>)
    \o <<Phase(CONFIGURE, NetworkPlan(cfg)), Phase(CONFIGURE, LocalePlan(cfg)),
         Phase(SECURITY, SecurityPlan(cfg)), Phase(FIRST_BOOT, FirstBootPlan(cfg)),
         Phase(CLEANUP, CleanupPlan(cfg))>>
-----------------------------------------------------------------------------
(* The native backends: partition 1 is the ESP, 2 the ext2 root.           *)

plan_native_disk_ops(cfg) ==
    <<Phase(PARTITION, <<On("gpt", 0)>>),
      Phase(FORMAT, <<On("mkfs", 1), On("mkfs", 2)>>),
      Phase(BASE, <<IF cfg.tarball THEN Put("base", <<>>) ELSE Put("agnsh", <<"bin">>)>>),
      Phase(CONFIGURE, NetworkPlan(cfg)), Phase(CONFIGURE, LocalePlan(cfg)),
      Phase(SECURITY, SecurityPlan(cfg)), Phase(FIRST_BOOT, <<Marker>>),
      Phase(BOOTLOADER, <<Put("loader", Esp), Put("kernel", Esp)>>)>>

\* _cmd_execute
Plan(cfg) ==
    IF cfg.backend = "shell" THEN full_execution_plan(cfg) ELSE plan_native_disk_ops(cfg)
=============================================================================
