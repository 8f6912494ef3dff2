--------------------------------- MODULE MCRs ---------------------------------
(***************************************************************************)
(* Configurations of the Rust library for TLC.  Limits of one or two       *)
(* pieces of text and sums of sizes modulo 2048 bring every bound within   *)
(* reach.                                                                  *)
(***************************************************************************)
EXTENDS RsInstallerProps

SmallLimits == [user |-> 2, host |-> 2, label |-> 2, name |-> 1, group |-> 2]
SmallWidth == 2048

Part(label, at, fs, size) ==
    [label |-> label, mount_point |-> at, filesystem |-> fs, size_mb |-> size, flags |-> <<>>]
EspPart == Part(<<"ESP">>, Esp, "Vfat", Some(512))
Root(size) == Part(<<"agnos-root">>, <<>>, "Ext4", size)
Home(size) == Part(<<"a">>, <<"home">>, "Xfs", size)
Swap(size) == Part(<<"A">>, <<"none">>, "Swap", size)

Disk == <<"/dev/", "sda">>
Base == [InstallConfig_default EXCEPT
            !.disk = default_disk_layout(Disk, FALSE), !.user.username = <<"a">>]
WithParts(c, layouts) == {[c EXCEPT !.disk.partitions = p] : p \in layouts}

\* Layouts with mounts to be nested.  In the first two the root comes after what
\* it ties with when cleanup sorts.
Good == {<<EspPart, Home(Some(700)), Root(Some(800)), Swap(None)>>,
         <<Home(Some(700)), Swap(Some(0)), EspPart, Root(None)>>}
\* Accepted layouts that are not as they should be: the root is taken off with a
\* file system below it, hides one mounted at the same place, or is no file system.
Bad == {<<Root(Some(800)), Home(Some(700))>>,
        <<Root(Some(800)), EspPart, Part(<<"a">>, <<>>, "Xfs", Some(700))>>,
        <<EspPart, Part(<<"a">>, <<>>, "Swap", Some(700)), Home(Some(700))>>}
\* Layouts that are refused, or accepted without being of use.
Odd == {<<>>, <<EspPart>>, <<Root(None), EspPart>>,
        <<Root(Some(1800)), Home(Some(700)), Swap(Some(100))>>,
        <<EspPart, Home(Some(1)), Swap(Some(1)), Swap(Some(1)), Root(None)>>,
        <<Part(<<"a">>, <<>>, "Btrfs", Some(700)), Home(None)>>,
        <<Part(<<"root">>, <<>>, "Ext4", None)>>, <<Part(<<>>, <<>>, "Ext4", None)>>,
        <<Part(<<"a", "_", "0">>, <<>>, "Ext4", None)>>,
        <<EspPart, Part(<<"a", " ">>, <<>>, "Ext4", None)>>}

Texts == {<<>>, <<"a">>, <<"root">>, <<"A", "0">>, <<"0", "a">>, <<"-", "a">>, <<"a", "-">>,
          <<".", "a">>, <<"a", "_">>, <<"a", ":">>, <<"a", "a", "a">>}
DeviceNames == {<<>>, <<"sda">>, <<"/dev/">>, <<"/dev/", "nvme0n1">>, <<"/dev/", "a", "/", "0">>,
                <<"/dev/", ".", ".", "/", "a">>, <<"/dev/", "a", ";">>, <<"/dev/", ".", "a">>}
Params == {<<>>, <<<<"rd.luks">>>>, <<<<"quiet">>, <<"a", "init=">>>>, <<<<"single">>>>,
           <<<<"a", ";">>, <<"single">>>>}

\* One change of one field.
Changed(c) ==
    {[c EXCEPT !.disk.target_device = d] : d \in DeviceNames}
    \cup {[c EXCEPT !.disk.use_gpt = FALSE], [c EXCEPT !.disk.encrypt = TRUE]}
    \cup {[c EXCEPT !.bootloader.kernel_params = p] : p \in Params}
    \cup {[c EXCEPT !.network.hostname = t] : t \in Texts}
    \cup {[c EXCEPT !.network.use_dhcp = FALSE, !.network.static_ip = a] :
             a \in {None, Some(<<>>), Some(<<"0">>)}}
    \cup {[c EXCEPT !.user.username = t] : t \in Texts}
    \cup {[c EXCEPT !.user.full_name = Some(t)] : t \in {<<>>, <<":">>, <<"a", "a">>}}
    \cup {[c EXCEPT !.user.groups = g] : g \in {<<>>, <<<<"a">>, <<>>>>, <<<<"A">>>>,
                                                <<<<"a", "a", "a">>>>}}
    \cup {[c EXCEPT !.security.enable_luks = FALSE, !.security.trust_enforcement = "Permissive"],
          [c EXCEPT !.security.firewall_default = "Allow"]}
    \cup WithParts(c, Good \cup Bad \cup Odd)

\* Two changes, so that the order of the checks can be seen.
Asked == UNION {Changed(c) : c \in Changed(Base)}

\* Configurations for whole installations: every choice of a planner.
Modes == {[Base EXCEPT !.mode = m, !.packages = default_packages(m)] : m \in InstallMode}
Installing ==
    Modes \cup WithParts(Base, Good \cup Bad)
    \cup {[Base EXCEPT !.bootloader.bootloader_type = "Grub2"], [Base EXCEPT !.disk.encrypt = TRUE],
          [Base EXCEPT !.user.ssh_keys = <<<<"a">>>>, !.user.enable_sudo = FALSE,
                       !.network.dns = <<>>, !.network.use_dhcp = FALSE,
                       !.network.static_ip = Some(<<"0">>),
                       !.security.enable_dmverity = FALSE,
                       !.security.firewall_default = "Allow"],
          [Base EXCEPT !.user.username = <<"root">>]}

AskedOrInstalling == Asked \cup Installing
AskingAndInstalling == {Asks, 0, 1}

\* Verdicts and plans are compared for all that may be asked, installations
\* are carried out for some.
MCInit == Init /\ config \in (IF client = Asks THEN Asked ELSE Installing)
MCSpec == MCInit /\ [][Next]_vars
=============================================================================
