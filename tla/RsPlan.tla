-------------------------------- MODULE RsPlan --------------------------------
(***************************************************************************)
(* The planners of the Rust library: partitioning.rs, rootfs.rs, and what  *)
(* they take from helpers.rs and lib.rs.  Commands and paths are those of  *)
(* InstallPlan; the argument of an operation is what another part of the   *)
(* plan must agree with: a device, a label, a range of the disk, the       *)
(* lines of fstab, the kernel's command line, the packages.                *)
(***************************************************************************)
EXTENDS RsTypes

CONSTANT W    \* 2^64: sizes are u64 and wrap in a release build

ASSUME Width == W \in Nat \ {0}

parts(config) == config.disk.partitions
IsRoot(part) == part.mount_point = <<>>
IsSwap(part) == part.filesystem = "Swap"

\* A device is the text of the disk with the separator and the number.
ContainsWord(text, words) == ToSet(text) \cap words # {}
partition_device(device, n) ==
    [disk |-> device, number |-> n,
     separator |-> IF ContainsWord(device, {"nvme0n1", "mmcblk0"}) THEN "p" ELSE ""]
PartitionOf(config, n) == partition_device(config.disk.target_device, n)

Mapper == [disk |-> <<"mapper">>, number |-> 0, separator |-> ""]
-----------------------------------------------------------------------------
(* partitioning.rs                                                         *)

\* start_mb when the loop comes to partition n: after all that have a size.
Size(part) == IF part.size_mb = None THEN 0 ELSE part.size_mb[1]
start_mb(disk, n) ==
    FoldLeft(LAMBDA sum, part : (sum + Size(part)) % W, 1, SubSeq(disk.partitions, 1, n - 1))

\* "100%"
Fill == -1
end(disk, n) ==
    IF disk.partitions[n].size_mb = None THEN Fill
    ELSE (start_mb(disk, n) + Size(disk.partitions[n])) % W

plan_partition_ops(config) == PhaseOps("PartitionDisk",
    Plain(<<On("mklabel", 0)>>)
    \o ForEach(InOrder(parts(config)), LAMBDA n :
        <<SystemOp(On("mkpart", n),
            [label |-> parts(config)[n].label,
             from |-> start_mb(config.disk, n), to |-> end(config.disk, n)])>>
        \o Plain([f \in DOMAIN parts(config)[n].flags |-> On("set", n)])))

plan_format_ops(config) == PhaseOps("FormatFilesystems",
    ForEach(InOrder(parts(config)), LAMBDA n :
        <<SystemOp(On("mkfs", n),
            [device |-> PartitionOf(config, n), label |-> parts(config)[n].label])>>))

\* The first partition at "/", or the last one.
RootIndex(config) ==
    LET roots == {n \in DOMAIN parts(config) : IsRoot(parts(config)[n])}
    IN  IF roots = {} THEN Len(parts(config)) ELSE Min(roots)

plan_encryption_ops(config) == PhaseOps("SetupEncryption",
    IF ~config.disk.encrypt \/ parts(config) = <<>> THEN <<>>
    ELSE LET arg == [device |-> PartitionOf(config, RootIndex(config)),
                     stdin |-> config.disk.luks_passphrase]
         IN  <<SystemOp(On("luksFormat", RootIndex(config)), arg),
               SystemOp(On("luksOpen", RootIndex(config)), arg)>>)
-----------------------------------------------------------------------------
(* rootfs.rs                                                               *)

\* matches('/').count()
SlashCount(part) ==
    IF part.mount_point = <<"none">> THEN 0 ELSE IF IsRoot(part) THEN 1 ELSE Len(part.mount_point)

\* sort_by_key and sort_by are stable.
Sorted(key) ==
    Ordered(DOMAIN key, LAMBDA m, n : key[m] < key[n] \/ (key[m] = key[n] /\ m < n))

\* The bug to catch mounts in the order of the layout.
LayoutOrder(config) == InOrder(parts(config))
MountSequence(config) ==
    Sorted([n \in DOMAIN parts(config) |->
               IF IsRoot(parts(config)[n]) THEN 0 ELSE SlashCount(parts(config)[n])])

plan_mount_ops(config) == PhaseOps("MountFilesystems",
    ForEach(MountSequence(config), LAMBDA n :
        LET part == parts(config)[n]
            device == IF config.disk.encrypt /\ IsRoot(part) THEN Mapper
                      ELSE PartitionOf(config, n)
        IN  IF IsSwap(part)
            THEN <<SystemOp(NonFatal(On("swapon", n)), [device |-> PartitionOf(config, n)])>>
            ELSE Plain(<<Put("mountpoint", part.mount_point)>>)
                 \o <<SystemOp(On("mount", n), [device |-> device])>>))

plan_install_base_ops == PhaseOps("InstallBase",
    Plain(<<Put("dirs", <<>>), Put("base", <<>>), NonFatal(Put("ark", <<>>))>>))

plan_install_packages_ops(config) ==
    LET packages == default_packages(config.mode)
        Install(set) == SystemOp(Put("packages", <<>>), set)
        Extra(set) == SystemOp(NonFatal(Put("packages", <<>>)), set)
    IN  PhaseOps("InstallPackages",
            If(packages.mode_packages # {}, <<Install(packages.mode_packages)>>)
            \o If(packages.extra_packages # {}, <<Extra(packages.extra_packages)>>))

default_kernel_params(security) ==
    <<<<"quiet">>, <<"loglevel">>>>
    \o If(security.enable_luks, <<<<"rd.luks">>>>)
    \o If(security.enable_secureboot, <<<<"lockdown">>>>)
    \o If(security.enable_tpm, <<<<"tpm_tis">>>>)
    \o If(security.enable_dmverity, <<<<"dm_verity">>>>)
    \o <<<<"lsm">>>>

\* The bug to catch forgets the mapping.
RootParamLabel(config) == <<"root=", "LABEL=", "agnos-root">>
RootParam(config) ==
    IF config.disk.encrypt THEN <<"root=", "mapper">> ELSE <<"root=", "LABEL=", "agnos-root">>

NewParams(params, security) ==
    ForEach(default_kernel_params(security), LAMBDA p : If(p \notin ToSet(params), <<p>>))
kernel_cmdline(config) ==
    LET params == config.bootloader.kernel_params
    IN  params \o NewParams(params, config.security) \o <<RootParam(config)>>

plan_bootloader_ops(config, uefi) ==
    LET cmdline == kernel_cmdline(config)
        Entry(what, at, more) == SystemOp(Put(what, at), cmdline \o more)
        loader == Esp \o <<"loader">>
        entries == loader \o <<"entries">>
        rescue == <<<<"single">>>>
    IN  PhaseOps("InstallBootloader",
            IF config.bootloader.bootloader_type = "Grub2"
            THEN Plain(<<Put("loader", IF uefi THEN Esp ELSE <<"boot">>),
                         Put("dir", <<"boot", "grub">>)>>)
                 \o <<Entry("grub.cfg", <<"boot", "grub">>, rescue)>>
            ELSE Plain(<<Put("loader", Esp), Put("dir", loader), Put("loader.conf", loader),
                         Put("dir", entries)>>)
                 \o <<Entry("entry", entries, <<>>), Entry("rescue entry", entries, rescue)>>)

plan_user_ops(config) ==
    LET user == config.user
    IN  PhaseOps("CreateUser",
            Plain(<<FromBase("account", <<"etc">>)>>
                  \o If(user.ssh_keys # <<>>, <<Put("dir", <<"home">>), Put("keys", <<"home">>)>>)
                  \o If(user.enable_sudo, <<NonFatal(FromBase("wheel", <<"etc">>))>>)))

plan_network_ops(config) ==
    LET net == config.network
    IN  PhaseOps("ConfigureSystem",
            Plain(<<Put("hostname", <<"etc">>), Put("hosts", <<"etc">>)>>
                  \o If(net.dns # <<>>, <<Put("resolv.conf", <<"etc">>)>>)
                  \o If(~net.use_dhcp /\ net.static_ip # None,
                        <<Put("dir", <<"etc">>), Put("static.network", <<"etc">>)>>)))

\* A line of fstab, without options and pass.  The bug to catch forgets the
\* mapping.
fstab_label(part, encrypt) == <<"LABEL=">> \o part.label
fstab_device(part, encrypt) ==
    IF encrypt /\ IsRoot(part) THEN <<"mapper">> ELSE <<"LABEL=">> \o part.label
generate_fstab(partitions, encrypt) ==
    [n \in DOMAIN partitions |->
        [device |-> fstab_device(partitions[n], encrypt), filesystem |-> partitions[n].filesystem,
         mount |-> IF IsSwap(partitions[n]) THEN <<"none">> ELSE partitions[n].mount_point]]

plan_locale_ops(config) == PhaseOps("ConfigureSystem",
    Plain(<<Put("locale.conf", <<"etc">>), Put("localtime", <<"etc">>),
            Put("machine-id", <<"etc">>)>>)
    \o <<SystemOp(Put("fstab", <<"etc">>), generate_fstab(parts(config), config.disk.encrypt))>>)

plan_security_ops(config) ==
    LET sec == config.security
    IN  PhaseOps("SetupSecurity",
            Plain(If(sec.firewall_default = "Deny", <<Put("nftables.conf", <<"etc">>)>>)
                  \o If(sec.enable_dmverity,
                        <<Put("dir", <<"etc", "ima">>), Put("policy.conf", <<"etc", "ima">>)>>)
                  \o <<Put("sysctl", <<"etc">>)>>))

services(mode) ==
    IF mode = "Desktop" THEN 6 + 1 ELSE IF mode = "Server" THEN 6 ELSE 3
plan_first_boot_ops(config) == PhaseOps("FirstBootSetup",
    Plain([s \in 1 .. services(config.mode) |-> NonFatal(FromBase("service", <<"etc">>))]
          \o <<Put("first-boot", <<"etc">>)>>))

plan_cleanup_ops(config) ==
    LET swap == {n \in DOMAIN parts(config) : IsSwap(parts(config)[n])}
        mounts == Sorted([n \in DOMAIN parts(config) \ swap |-> -SlashCount(parts(config)[n])])
    IN  PhaseOps("Cleanup",
            Plain(<<Nothing>>
                  \o ForEach(mounts, LAMBDA n : <<On("unmount", n)>>))
            \o ForEach(InOrder(parts(config)), LAMBDA n :
                   If(n \in swap,
                      <<SystemOp(NonFatal(On("release", n)), [device |-> PartitionOf(config, n)])>>))
            \o Plain(If(config.disk.encrypt, <<NonFatal(On("release", 0))>>)))

\* The plan of the Rust library; its operations alone are a plan of InstallPlan.
RsExecutionPlan(config, uefi) ==
    <<plan_partition_ops(config), plan_encryption_ops(config), plan_format_ops(config),
      plan_mount_ops(config), plan_install_base_ops, plan_install_packages_ops(config),
      plan_bootloader_ops(config, uefi), plan_user_ops(config), plan_network_ops(config),
      plan_locale_ops(config), plan_security_ops(config), plan_first_boot_ops(config),
      plan_cleanup_ops(config)>>
=============================================================================
