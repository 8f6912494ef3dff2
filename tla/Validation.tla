------------------------------ MODULE Validation ------------------------------
(***************************************************************************)
(* validate_config of validation.cyr, on what the port keeps of a          *)
(* configuration: a text or none is the empty text, a size or none is      *)
(* has_size.  The backend decides what a target may be called.             *)
(***************************************************************************)
EXTENDS RsValidation

Refuse(wrong, why) == IF wrong THEN <<why>> ELSE <<>>
FirstOf(text) == text[1]
LastOf(text) == text[Len(text)]

_all_dev_path_chars(s) == \A c \in ToSet(s) : c \in Alnum \cup Hyphens \cup {"/", "_"}
_all_lname_chars(s) == \A c \in ToSet(s) : c \in Lower \cup Digits \cup Hyphens \cup {"_"}
_all_hostname_chars(s) == \A c \in ToSet(s) : c \in Alnum \cup Hyphens
_all_label_chars(s) == \A c \in ToSet(s) : c \in Alnum \cup Hyphens \cup {"_"}
_has_kparam_dangerous(s) == ";" \in ToSet(s)
_has_passwd_dangerous(s) == {":", ";", "nul"} \cap ToSet(s) # {}
_has_devpath_dangerous(s) == {" ", ";"} \cap ToSet(s) # {}

\* The backend that writes image files takes any path; the bug to catch takes
\* it for all.
RequireNone(backend) == FALSE
RequireDev(backend) == backend # "native-file"

PortDevice(backend, dev) ==
    Refuse(dev = <<>>, "no device")
    \o Refuse(RequireDev(backend) /\ ~IsPrefix(<<"/dev/">>, dev), "device not in /dev")
    \o Refuse(\E n \in DOMAIN dev : IsPrefix(<<".", ".">>, SubSeq(dev, n, Len(dev))),
              "device characters")
    \o Refuse(_has_devpath_dangerous(dev), "device characters")
    \o Refuse(RequireDev(backend) /\ (Len(dev) <= 1 \/ ~_all_dev_path_chars(SubSeq(dev, 2, Len(dev)))),
              "device suffix")

PortUser(name) ==
    IF name = <<>> THEN <<>>
    ELSE Refuse(name = <<"root">>, "user is root")
         \o Refuse(Len(name) > Limits.user, "user too long")
         \o Refuse(FirstOf(name) \notin Lower \cup {"agnos-root"}, "user start")
         \o Refuse(~_all_lname_chars(name), "user characters")

PortHost(host) ==
    IF host = <<>> THEN <<"no host">>
    ELSE Refuse(Len(host) > Limits.host, "host too long")
         \o Refuse("-" \in {FirstOf(host), LastOf(host)}, "host hyphen")
         \o Refuse(FirstOf(host) = ".", "host dot")
         \o Refuse(~_all_hostname_chars(host), "host characters")

PortParam(p) ==
    Refuse({"init=", "single"} \cap ToSet(p) # {}, "dangerous parameter")
    \o Refuse(_has_kparam_dangerous(p), "parameter characters")

PortLabel(part) ==
    Refuse(part.label = <<>>, "no label")
    \o Refuse(Len(part.label) > Limits.label, "label too long")
    \o Refuse(~_all_label_chars(part.label), "label characters")

PortGroup(g) ==
    Refuse(Len(g) \notin 1 .. Limits.group, "group length")
    \o Refuse(~_all_lname_chars(g), "group characters")

\* From the device to the warnings; config has the texts of an option in place
\* of the option.
PortErrors(backend, c) ==
    PortDevice(backend, c.device)
    \o Refuse(c.parts = <<>>, "no partitions")
    \o PortUser(c.username) \o PortHost(c.hostname)
    \o Refuse(~c.use_dhcp /\ c.static_ip = <<>>, "no static ip")
    \o ForEach(c.kernel_params, PortParam) \o ForEach(c.parts, PortLabel)
    \o Refuse(\E n \in DOMAIN c.parts : ~c.parts[n].has_size /\ n < Len(c.parts), "fill not last")
    \o Refuse(~c.use_gpt /\ Len(c.parts) > 4, "too many for MBR")
    \o Refuse(Len(c.full_name) > Limits.name, "full name too long")
    \o Refuse(_has_passwd_dangerous(c.full_name), "full name characters")
    \o ForEach(c.groups, PortGroup)
    \o Refuse(<<>> \notin {c.parts[n].mount_point : n \in DOMAIN c.parts}, "no root")

PortWarnings(c) ==
    Refuse(c.enable_luks /\ ~c.encrypt, "LUKS not on disk")
    \o Refuse(c.trust = "Permissive", "permissive")
    \o Refuse(c.firewall = "Allow", "firewall allows")

PortAnswer(backend, c) ==
    IF PortErrors(backend, c) = <<>> THEN Ok(PortWarnings(c))
    ELSE Err(Head(PortErrors(backend, c)))

\* What the port makes of the Rust library's records.
OrEmpty(option) == IF option = None THEN <<>> ELSE option[1]
PortConfig(config) ==
    [device |-> config.disk.target_device, use_gpt |-> config.disk.use_gpt,
     encrypt |-> config.disk.encrypt,
     parts |-> [n \in DOMAIN config.disk.partitions |->
                   [label |-> config.disk.partitions[n].label,
                    mount_point |-> config.disk.partitions[n].mount_point,
                    has_size |-> config.disk.partitions[n].size_mb # None]],
     username |-> config.user.username, full_name |-> OrEmpty(config.user.full_name),
     groups |-> config.user.groups, hostname |-> config.network.hostname,
     use_dhcp |-> config.network.use_dhcp, static_ip |-> OrEmpty(config.network.static_ip),
     kernel_params |-> config.bootloader.kernel_params,
     enable_luks |-> config.security.enable_luks,
     trust |-> config.security.trust_enforcement, firewall |-> config.security.firewall_default]
=============================================================================
