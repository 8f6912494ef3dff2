------------------------------- MODULE RsTypes -------------------------------
(***************************************************************************)
(* The configuration of the Rust library agnova was ported from: types.rs, *)
(* with its defaults, and default_disk_layout and default_packages of      *)
(* lib.rs.                                                                 *)
(*                                                                         *)
(* A text is a sequence of pieces: a character that stands for its class   *)
(* ("a", "A", "0"; ";" for any of ; | & ` and newline), or one of the      *)
(* words that the code looks for or writes.  A mount point is a path as in *)
(* InstallPlan: <<>> is "/", <<"none">> is what a swap partition has.  An  *)
(* Option is a sequence of at most one value.                              *)
(***************************************************************************)
EXTENDS InstallPlan

None == <<>>
Some(x) == <<x>>
Option(S) == {o \in Seq(S) : Len(o) <= 1}

\* A word of letters and digits counts with what it begins with.
Lower == {"a", "root", "single", "quiet", "loglevel", "lockdown", "lsm", "mapper",
          "sda", "nvme0n1", "mmcblk0", "loop0"}
Upper == {"A", "ESP"}
Digits == {"0"}
Hyphens == {"-", "agnos-root"}
Pieces == Lower \cup Upper \cup Digits \cup Hyphens \cup
    {"/dev/", "/", "_", ".", " ", ":", ";", "nul", "init=", "root=", "LABEL=",
     "rd.luks", "tpm_tis", "dm_verity"}
Text == Seq(Pieces)

InstallMode == {"Server", "Desktop", "Minimal", "Custom"}
Filesystem == {"Ext4", "Btrfs", "Xfs", "Vfat", "Swap"}
PartitionFlag == {"Boot", "Esp", "Lvm", "Raid"}
BootloaderType == {"SystemdBoot", "Grub2"}
TrustEnforcementMode == {"Strict", "Permissive", "AuditOnly"}
FirewallDefault == {"Deny", "Allow"}

PartitionSpec ==
    [label : Text, mount_point : Seq(STRING), filesystem : Filesystem,
     size_mb : Option(Nat), flags : Seq(PartitionFlag)]

DiskLayout ==
    [target_device : Text, partitions : Seq(PartitionSpec), use_gpt : BOOLEAN,
     encrypt : BOOLEAN, luks_passphrase : Option(Text)]
DiskLayout_default ==
    [target_device |-> <<>>, partitions |-> <<>>, use_gpt |-> TRUE,
     encrypt |-> FALSE, luks_passphrase |-> None]

BootloaderConfig == [bootloader_type : BootloaderType, kernel_params : Seq(Text)]
BootloaderConfig_default ==
    [bootloader_type |-> "SystemdBoot", kernel_params |-> <<<<"quiet">>>>]

NetworkConfig ==
    [hostname : Text, use_dhcp : BOOLEAN, static_ip : Option(Text), dns : Seq(Text)]
NetworkConfig_default ==
    [hostname |-> <<"a">>, use_dhcp |-> TRUE, static_ip |-> None, dns |-> <<<<"0">>, <<"0">>>>]

UserConfig ==
    [username : Text, full_name : Option(Text), groups : Seq(Text),
     ssh_keys : Seq(Text), enable_sudo : BOOLEAN]
UserConfig_default ==
    [username |-> <<>>, full_name |-> None, groups |-> <<<<"a">>, <<"a">>>>,
     ssh_keys |-> <<>>, enable_sudo |-> TRUE]

SecurityConfig ==
    [enable_luks : BOOLEAN, enable_secureboot : BOOLEAN, enable_tpm : BOOLEAN,
     enable_dmverity : BOOLEAN, trust_enforcement : TrustEnforcementMode,
     firewall_default : FirewallDefault]
SecurityConfig_default ==
    [enable_luks |-> TRUE, enable_secureboot |-> TRUE, enable_tpm |-> TRUE,
     enable_dmverity |-> TRUE, trust_enforcement |-> "Strict", firewall_default |-> "Deny"]

\* Packages are named by the list they come from.
PackageSelection ==
    [base_packages : SUBSET STRING, mode_packages : SUBSET STRING, extra_packages : SUBSET STRING]

InstallConfig ==
    [mode : InstallMode, disk : DiskLayout, bootloader : BootloaderConfig,
     network : NetworkConfig, user : UserConfig, security : SecurityConfig,
     packages : PackageSelection]
InstallConfig_default ==
    [mode |-> "Desktop", disk |-> DiskLayout_default, bootloader |-> BootloaderConfig_default,
     network |-> NetworkConfig_default, user |-> UserConfig_default,
     security |-> SecurityConfig_default,
     packages |-> [base_packages |-> {}, mode_packages |-> {}, extra_packages |-> {}]]

\* All phases in execution order.  The bug to catch unpacks before it mounts.
UnmountedPhases ==
    <<"ValidateConfig", "PartitionDisk", "SetupEncryption", "FormatFilesystems",
      "InstallBase", "MountFilesystems", "InstallPackages", "ConfigureSystem",
      "InstallBootloader", "CreateUser", "SetupSecurity", "FirstBootSetup", "Cleanup",
      "Complete">>
AllPhases ==
    <<"ValidateConfig", "PartitionDisk", "SetupEncryption", "FormatFilesystems",
      "MountFilesystems", "InstallBase", "InstallPackages", "ConfigureSystem",
      "InstallBootloader", "CreateUser", "SetupSecurity", "FirstBootSetup", "Cleanup",
      "Complete">>
InstallPhase == ToSet(AllPhases)
index(p) == CHOOSE n \in 0 .. Len(AllPhases) - 1 : AllPhases[n + 1] = p
\* The bug to catch forgets that sequences count from one.
next_zero_based(p) == IF p = "Complete" THEN None ELSE Some(AllPhases[index(p) + 1])
next(p) == IF p = "Complete" THEN None ELSE Some(AllPhases[index(p) + 2])

InstallError == [phase : InstallPhase, recoverable : BOOLEAN]

\* A SystemOp is an operation of InstallPlan with what its arguments or its
\* content depend on.
SystemOp(op, arg) == [op |-> op, arg |-> arg]
Plain(ops) == [n \in DOMAIN ops |-> SystemOp(ops[n], "")]
PhaseOps(phase, operations) == [phase |-> phase, operations |-> operations]

default_disk_layout(device, encrypt) ==
    [DiskLayout_default EXCEPT
        !.target_device = device, !.encrypt = encrypt,
        !.partitions =
            <<[label |-> <<"ESP">>, mount_point |-> Esp, filesystem |-> "Vfat",
               size_mb |-> Some(512), flags |-> <<"Boot", "Esp">>],
              [label |-> <<"agnos-root">>, mount_point |-> <<>>, filesystem |-> "Ext4",
               size_mb |-> None, flags |-> <<>>]>>]

default_packages(mode) ==
    [base_packages |-> {"base"}, extra_packages |-> {},
     mode_packages |-> IF mode \in {"Server", "Desktop"} THEN {mode} ELSE {}]
=============================================================================
