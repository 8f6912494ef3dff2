----------------------------- MODULE MCInstaller -----------------------------
(***************************************************************************)
(* Configurations for TLC: what the command line can give, and the         *)
(* partition layouts and options the planners' tests use.                  *)
(***************************************************************************)
EXTENDS InstallerProps

Partition(fs, at, flags) == [fs |-> fs, mp |-> at, flags |-> flags]

\* agnova_default_disk_layout, and layouts the planners are tested with.
DefaultParts == agnova_default_disk_layout
SwapParts == <<Partition("ext4", <<>>, 0), Partition("swap", <<"none">>, 0)>>
HomeFirst == <<Partition("xfs", <<"home">>, 0), Partition("btrfs", <<>>, 0),
               Partition("swap", <<"none">>, 0)>>
RootFirst == <<Partition("btrfs", <<>>, 0), Partition("xfs", <<"home">>, 0),
               Partition("swap", <<"none">>, 0)>>

\* _config_from_flags
Default == [backend |-> "shell", parts |-> DefaultParts, encrypt |-> FALSE,
            mode |-> "desktop", boot |-> "gnoboot", uefi |-> TRUE, user |-> {},
            net |-> {"dns"}, sec |-> {"deny", "verity"}, tarball |-> FALSE,
            until |-> COMPLETE]

Untils == PARTITION .. CLEANUP \cup {COMPLETE}

\* Every phase to stop at, with and without an account, on both backends.
Halting == {[Default EXCEPT !.until = u, !.user = a] :
              u \in Untils, a \in {{}, {"account", "keys", "sudo"}}}
Native == {[Default EXCEPT !.backend = "native", !.until = u, !.tarball = f] :
              u \in Untils, f \in BOOLEAN}
\* Every boot loader, mode, network and security choice, and other layouts.
Variants == {[Default EXCEPT !.boot = b, !.uefi = e] :
               b \in {"gnoboot", "systemd", "grub2"}, e \in BOOLEAN}
    \cup {[Default EXCEPT !.mode = m, !.net = n, !.sec = s] :
               m \in {"server", "desktop", "minimal", "custom"},
               n \in {{}, {"dns", "static"}}, s \in {{}, {"verity"}}}
    \cup {[Default EXCEPT !.parts = p] : p \in {SwapParts, HomeFirst, RootFirst}}
Encrypted == {[Default EXCEPT !.encrypt = TRUE]}

AllConfigs == Halting \cup Native \cup Variants \cup Encrypted
Interrupted == {c \in Halting \cup Native : c.until # COMPLETE}
RootFirstConfigs == {[Default EXCEPT !.parts = RootFirst]}
=============================================================================
