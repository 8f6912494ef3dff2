----------------------------- MODULE RsValidation -----------------------------
(***************************************************************************)
(* validate_config of validation.rs: the first thing wrong with a          *)
(* configuration, or its warnings.  Checks are listed in the order of the  *)
(* code, so that the head of the list is what the code answers.            *)
(***************************************************************************)
EXTENDS RsTypes

CONSTANT Limits    \* longest texts: [user, host, label, name, group]

ASSUME LimitTypes == Limits \in [{"user", "host", "label", "name", "group"} -> Nat \ {0}]

\* bail!(why) if something is wrong.
Bail(wrong, why) == IF wrong THEN <<why>> ELSE <<>>

Only(text, allowed) == ToSet(text) \subseteq allowed
Has(text, words) == ToSet(text) \cap words # {}
StartsWith(text, words) == text # <<>> /\ Head(text) \in words
EndsWith(text, words) == text # <<>> /\ Last(text) \in words
DotDot(text) == \E n \in 1 .. Len(text) - 1 : text[n] = "." /\ text[n + 1] = "."

Alnum == Lower \cup Upper \cup Digits
NameChars == Lower \cup Digits \cup Hyphens \cup {"_"}

DeviceErrors(device) ==
    Bail(device = <<>>, "no device")
    \o Bail(~StartsWith(device, {"/dev/"}), "device not in /dev")
    \o Bail(DotDot(device) \/ Has(device, {" ", ";"}), "device characters")
    \o Bail(Len(device) < 2 \/ ~Only(Tail(device), Alnum \cup Hyphens \cup {"/", "_"}),
            "device suffix")

UserErrors(name) ==
    Bail(name = <<>>, "no user")
    \o Bail(name = <<"root">>, "user is root")
    \o Bail(Len(name) > Limits.user, "user too long")
    \o Bail(~StartsWith(name, Lower \cup {"agnos-root"}), "user start")
    \o Bail(~Only(name, NameChars), "user characters")

HostErrors(host) ==
    Bail(host = <<>>, "no host")
    \o Bail(Len(host) > Limits.host, "host too long")
    \o Bail(StartsWith(host, {"-"}) \/ EndsWith(host, {"-"}), "host hyphen")
    \o Bail(StartsWith(host, {"."}), "host dot")
    \o Bail(~Only(host, Alnum \cup Hyphens), "host characters")

ParamErrors(param) ==
    Bail(Has(param, {"single", "init="}), "dangerous parameter")
    \o Bail(Has(param, {";"}), "parameter characters")

LabelErrors(label) ==
    Bail(label = <<>>, "no label")
    \o Bail(Len(label) > Limits.label, "label too long")
    \o Bail(~Only(label, Alnum \cup Hyphens \cup {"_"}), "label characters")

FullNameErrors(name) ==
    Bail(Len(name) > Limits.name, "full name too long")
    \o Bail(Has(name, {":", ";", "nul"}), "full name characters")

GroupErrors(group) ==
    Bail(group = <<>> \/ Len(group) > Limits.group, "group length")
    \o Bail(~Only(group, NameChars), "group characters")

\* Only the last partition may fill the rest of the disk; the bug to catch
\* lets any do so.
FillAnywhere(partitions) == <<>>
FillErrors(partitions) ==
    Bail(\E n \in 1 .. Len(partitions) - 1 : partitions[n].size_mb = None, "fill not last")

\* The checks on the partitions that come after those of the labels.
TableErrors(disk) ==
    FillErrors(disk.partitions)
    \o Bail(~disk.use_gpt /\ Len(disk.partitions) > 4, "too many for MBR")

RootErrors(partitions) ==
    Bail(\A n \in DOMAIN partitions : partitions[n].mount_point # <<>>, "no root")

Errors(config) ==
    LET disk == config.disk  user == config.user  net == config.network
    IN  DeviceErrors(disk.target_device)
        \o Bail(disk.partitions = <<>>, "no partitions")
        \o UserErrors(user.username)
        \o HostErrors(net.hostname)
        \o Bail(~net.use_dhcp /\ net.static_ip = None, "no static ip")
        \o ForEach(config.bootloader.kernel_params, ParamErrors)
        \o ForEach([n \in DOMAIN disk.partitions |-> disk.partitions[n].label], LabelErrors)
        \o TableErrors(disk)
        \o ForEach(user.full_name, FullNameErrors)
        \o ForEach(user.groups, GroupErrors)
        \o RootErrors(disk.partitions)

Warnings(config) ==
    Bail(config.security.enable_luks /\ ~config.disk.encrypt, "LUKS not on disk")
    \o Bail(config.security.trust_enforcement = "Permissive", "permissive")
    \o Bail(config.security.firewall_default = "Allow", "firewall allows")

\* Result<Vec<String>>
Ok(warnings) == [ok |-> TRUE, why |-> warnings]
Err(why) == [ok |-> FALSE, why |-> <<why>>]
validate_config(config) ==
    IF Errors(config) = <<>> THEN Ok(Warnings(config)) ELSE Err(Head(Errors(config)))
Accepted(config) == validate_config(config).ok
=============================================================================
