--------------------------- MODULE PolicyCatalog ---------------------------
(***************************************************************************)
(* virp_policy.c: the commands an owner policy can grant.  The catalog is  *)
(* closed: virp_policy_classify() brings a command into one form, compares *)
(* it with whole commands and refuses the rest.                            *)
(***************************************************************************)
EXTENDS Naturals, Sequences, RouteTables, LinuxGate

CliKinds == {"cisco", "asa", "juniper", "fortigate"}

(* Blanks are trimmed and folded; on a CLI capitals are lowered and, on IOS,
   one "do" is taken away. *)
normalize(kind, c) ==
    IF kind \in CliKinds
    THEN [c EXCEPT !.text = IF kind = "cisco" /\ StartsWith(@, "do ") THEN After(@, "do ") ELSE @,
                   !.lead = FALSE, !.caps = FALSE]
    ELSE IF kind = "mock" THEN [c EXCEPT !.lead = FALSE] ELSE c

(* A shell line of bare words; quotes and operators are outside the grammar. *)
IsLine(c, lines) ==
    ~c.meta /\ Len(c.segs) = 1 /\ [i \in DOMAIN c.segs[1] |-> BareWord(c.segs[1][i])] \in lines

CliReads == {"show version", "show clock", "show interfaces", "show interfaces status", "show ip route"}
HostReads == {<<"uptime">>, <<"hostname">>, <<"uname", "-sr">>}
HostReboots == {<<"reboot">>, <<"systemctl", "reboot">>}
Reboots == [cisco |-> {"reload"}, asa |-> {"reload noconfirm"}, juniper |-> {"request system reboot"},
            fortigate |-> {"execute reboot"}, mock |-> {"reboot", "systemctl reboot"}]

(* system.read *)
SystemRead(kind, c) ==
    \/ kind \in CliKinds /\ ~c.sep /\ c.text \in CliReads
    \/ kind = "fortigate" /\ ~c.sep /\ c.text = "get system status"
    \/ kind = "mock" /\ ~c.sep /\ ~c.caps /\ c.text \in {"show version", "uptime", "hostname", "uname -sr"}
    \/ kind = "linux" /\ IsLine(c, HostReads)

(* host.reboot *)
HostReboot(kind, c) ==
    \/ kind \in DOMAIN Reboots /\ ~c.sep /\ (kind = "mock" => ~c.caps) /\ c.text \in Reboots[kind]
    \/ kind = "linux" /\ IsLine(c, HostReboots)

(* vm.read, vm.reboot, vm.delete and vm.start: a number without leading zeros,
   from 100 to MaxVmid. *)
MaxVmid == 100000000
GuestOperation(kind, c) ==
    kind = "linux" /\ \E n \in Vmids :
        /\ n >= 100 /\ n <= MaxVmid
        /\ IsLine(c, {"qm", "pct"} \X {"status", "reboot", "destroy", "start"} \X {ToString(n)})

(* port.description, port.vlan and port.access, on a physical port. *)
PortOperation(kind, c) ==
    kind = "cisco" /\ ~c.sep /\ \E port \in PortName :
        LET p == "interface " \o port \o " "
            line == After(c.text, p)
        IN  /\ StartsWith(c.text, p)
            /\ \/ line \in {"description " \o t : t \in DescriptionText}
               \/ StartsWith(line, PortLine.vlan) /\ After(line, PortLine.vlan) \in VlanIds
               \/ line = "switchport mode access"

virp_policy_classify(kind, c) ==
    SystemRead(kind, c) \/ HostReboot(kind, c) \/ GuestOperation(kind, c) \/ PortOperation(kind, c)

(* virp_policy_reboot_permitted(), asked by four of the drivers while they
   dispatch what the policy granted. *)
virp_policy_reboot_permitted(kind, c, mode) ==
    mode = "policy" /\ kind \in {"cisco", "asa", "fortigate", "linux"} /\ HostReboot(kind, c)
=============================================================================
