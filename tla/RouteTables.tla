---------------------------- MODULE RouteTables ----------------------------
(***************************************************************************)
(* The route tables of the network drivers: how cisco_gate_tier(),         *)
(* asa_, junos_, pa_ and fg_route_command() turn the bytes of a command    *)
(* into a trust tier.  A command is a record: text (after the blanks it    *)
(* starts with), lead (it starts with blanks), caps (its first word is     *)
(* written with a capital; the tables hold lower case only) and sep (it    *)
(* holds a byte that virp_command_check_separators() refuses).             *)
(***************************************************************************)
EXTENDS Naturals, Sequences, TLC

Tier == {"GREEN", "YELLOW", "RED", "BLACK", "UNCLASSIFIED"}

(* The sequences of ss, one after the other. *)
Concat(ss) ==
    LET upTo[i \in 0..Len(ss)] == IF i = 0 THEN <<>> ELSE upTo[i - 1] \o ss[i]
    IN  upTo[Len(ss)]

StartsWith(s, p) == Len(p) <= Len(s) /\ SubSeq(s, 1, Len(p)) = p

After(s, p) == SubSeq(s, Len(p) + 1, Len(s))

(* The byte after the pattern ends the word, or the pattern ends in a blank. *)
Bounded(s, p) == After(s, p) = "" \/ StartsWith(After(s, p), " ") \/ SubSeq(p, Len(p), Len(p)) = " "

Rows(tier, head, tails) == {<<head \o t, tier>> : t \in tails}

(* strncmp() with the row, then the boundary; BLACK rows ignore case. *)
RowMatches(c, row) ==
    /\ StartsWith(c.text, row[1])
    /\ Bounded(c.text, row[1])
    /\ c.caps => row[2] = "BLACK"

LongestMatch(table, c) ==
    LET hits == {r \in table : RowMatches(c, r)}
    IN  IF hits = {} THEN "RED" ELSE (CHOOSE r \in hits : \A q \in hits : Len(q[1]) <= Len(r[1]))[2]

(* The BLACK lists of Cisco, PAN-OS and FortiOS: strncasecmp(), no boundary. *)
BlackPrefix(list, s) == \E p \in list : StartsWith(s, p)

-----------------------------------------------------------------------------
(* Cisco IOS *)

CISCO_BLACK_COMMANDS ==
    {"reload", "write erase", "erase startup-config", "erase startup", "delete flash:",
     "delete bootflash:", "delete nvram:", "squeeze flash:", "format flash:", "format bootflash:"}

CISCO_GATE_TABLE ==
    Rows("GREEN", "show ",
         {"version", "ip interface brief", "interfaces", "ip route", "cdp neighbors", "lldp neighbors",
          "inventory", "processes", "clock", "environment", "ip protocols", "vlan", "spanning-tree",
          "mac address-table", "ip arp", "ip ospf", "ip bgp", "ip eigrp", "ip ssh", "arp", "etherchannel",
          "redundancy", "platform", "memory", "ntp", "bootvar", "boot", "file systems", "bgp",
          "bgp summary", "bgp neighbors", "interface", "mac-address-table", "ipv6 route",
          "ipv6 interface brief", "ipv6 ospf", "ipv6 bgp", "ipv6 neighbors"})
    \cup Rows("YELLOW", "show ",
         {"running-config", "startup-config", "access-lists", "ip nat translations", "tech-support",
          "ip access-lists", "crypto", "logging", "users", "port-security"})
    \cup Rows("YELLOW", "", {"ping", "traceroute", "clear counters"})
    \cup Rows("RED", "",
         {"configure terminal", "configure", "conf t", "interface", "ip route", "router bgp", "router ospf",
          "router eigrp", "router", "no ", "hostname", "username", "enable secret", "enable password",
          "aaa", "tacacs-server", "tacacs server", "radius-server", "radius server",
          "snmp-server community", "snmp-server", "crypto key", "crypto pki", "crypto", "key chain",
          "key config-key", "line vty", "line", "login", "password"})

(* Interface names: letters, digits and / . : - ; the port grammar takes only
   Ethernet ports with one or two slashes. *)
PortName == {"GigabitEthernet0/1", "Ethernet1/0/2"}
IfName == PortName \cup {"Vlan10"}

(* A description: 1 to 200 printable bytes with none of ? ; | ` in them. *)
DescriptionText == {"uplink"}

cisco_parse_interface_description(s) ==
    \E n \in IfName : LET p == "interface " \o n \o " " IN
        /\ StartsWith(s, p)
        /\ After(s, p) \in {"no description"} \cup {"description " \o t : t \in DescriptionText}

(* Decimals without leading zero from 1 to max, the overflow test included. *)
cisco_port_decimal(max) == {ToString(n) : n \in 1..max}

PortLine ==
    [fixed |-> {"switchport mode access", "switchport mode dynamic auto", "no switchport mode",
                "no switchport access vlan", "spanning-tree portfast", "no spanning-tree portfast",
                "switchport port-security", "no switchport port-security",
                "no switchport port-security maximum", "switchport port-security violation restrict",
                "switchport port-security violation shutdown", "no switchport port-security violation"},
     vlan |-> "switchport access vlan ",
     maximum |-> "switchport port-security maximum "]

VlanIds == cisco_port_decimal(4094)
PortMaxima == cisco_port_decimal(1024)

cisco_parse_port_operation(s) ==
    {l \in {After(s, "interface " \o n \o " ") : n \in {m \in PortName : StartsWith(s, "interface " \o m \o " ")}} :
        \/ l \in PortLine.fixed
        \/ StartsWith(l, PortLine.vlan) /\ After(l, PortLine.vlan) \in VlanIds
        \/ StartsWith(l, PortLine.maximum) /\ After(l, PortLine.maximum) \in PortMaxima}

(* The port lines that are YELLOW: port-security lines are not among them. *)
YellowPortLine(l) ==
    \/ StartsWith(l, "switchport mode ") \/ StartsWith(l, "switchport access vlan ")
    \/ l \in {"no switchport mode", "no switchport access vlan", "spanning-tree portfast",
              "no spanning-tree portfast"}

cisco_gate_tier(c) ==
    CASE c.sep -> "RED"
      [] ~c.sep /\ BlackPrefix(CISCO_BLACK_COMMANDS, c.text) -> "BLACK"
      [] OTHER -> IF ~c.caps /\ \/ cisco_parse_interface_description(c.text)
                                \/ \E l \in cisco_parse_port_operation(c.text) : YellowPortLine(l)
                  THEN "YELLOW"
                  ELSE LongestMatch(CISCO_GATE_TABLE, c)
-----------------------------------------------------------------------------
(* Cisco ASA and JunOS: one table, BLACK rows in it, no trimming of blanks. *)

ASA_ROUTE_TABLE ==
    Rows("GREEN", "show ",
         {"version", "interface ip brief", "interface brief", "firewall", "failover", "conn count", "route",
          "clock", "cpu usage", "memory", "xlate count", "conn detail", "conn", "inventory", "module",
          "environment", "process", "nameif", "interface", "interfaces", "ip address",
          "ipv6 interface brief", "arp", "mac-address-table", "switch vlan", "xlate", "local-host",
          "uptime", "blocks", "traffic", "perfmon", "resource usage", "processes", "flash", "disk0",
          "file system", "ospf", "bgp", "eigrp"})
    \cup Rows("YELLOW", "show ",
         {"access-list", "access-lists", "access-group", "running-config access-list", "crypto isakmp sa",
          "crypto ipsec sa", "crypto ca certificates", "vpn-sessiondb", "logging", "service-policy",
          "asp drop", "threat-detection", "nat", "object", "object-group", "running-config",
          "startup-config"})
    \cup Rows("RED", "show ", {"aaa-server", "ssh sessions"})
    \cup Rows("BLACK", "", {"erase", "reload", "delete", "format", "write erase"})

JUNOS_ROUTE_TABLE ==
    Rows("GREEN", "show ",
         {"route", "interfaces terse", "interfaces", "version", "system uptime", "system alarms",
          "system storage", "system processes", "system memory", "chassis hardware", "chassis alarms",
          "chassis environment", "chassis routing-engine", "arp", "bgp summary", "bgp neighbor",
          "ospf neighbor", "ospf interface", "isis adjacency", "isis interface", "lldp neighbors",
          "ethernet-switching table", "pfe statistics traffic"})
    \cup Rows("YELLOW", "show ",
         {"security policies", "security zones", "security nat", "security ipsec", "security ike",
          "security flow session", "security screen", "security alg", "configuration protocols", "log",
          "firewall", "policy-options", "configuration"})
    \cup Rows("BLACK", "",
         {"request system reboot", "request system halt", "request system zeroize",
          "request system power-off", "file delete", "request system software delete"})
    \cup Rows("RED", "",
         {"configure", "set ", "set security nat", "set interfaces", "set routing-options",
          "set protocols", "delete", "delete security nat", "delete interfaces",
          "delete routing-options", "delete protocols", "commit check", "commit", "rollback"})

(* The rows of these two are sequences of bytes, and no pattern has two tiers. *)
ASSUME RowsAssumption ==
    \A table \in {ASA_ROUTE_TABLE, JUNOS_ROUTE_TABLE} : \A r \in table :
        /\ Len(r[1]) \in Nat /\ SubSeq(r[1], 1, Len(r[1])) = r[1] /\ After(r[1], r[1]) = ""
        /\ \A q \in table : q[1] = r[1] => q[2] = r[2]

asa_route_command(c) == IF c.sep \/ c.lead THEN "RED" ELSE LongestMatch(ASA_ROUTE_TABLE, c)

junos_route_command(c) == IF c.sep \/ c.lead THEN "RED" ELSE LongestMatch(JUNOS_ROUTE_TABLE, c)

-----------------------------------------------------------------------------
(* PAN-OS: the first row in table order wins. *)

PA_BLACK_COMMANDS ==
    {"commit", "load ", "scp import", "tftp import", "delete", "request restart system",
     "request shutdown system", "request system private-data-reset", "request system raid"}

Ordered(tier, prefix, head, tails) ==
    [i \in DOMAIN tails |-> [pattern |-> head \o tails[i], tier |-> tier, prefix |-> prefix]]

PA_ROUTE_TABLE ==
    Ordered("GREEN", FALSE, "show ",
            <<"system info", "system state", "system resources", "system environmentals",
              "system software", "system disk-space", "interface all">>)
    \o Ordered("GREEN", TRUE, "show interface ",
            <<"ethernet", "loopback", "tunnel", "vlan", "aggregate-ethernet">>)
    \o Ordered("GREEN", FALSE, "show ",
            <<"session info", "session all", "session id", "session meter", "high-availability state",
              "high-availability all", "high-availability", "arp all", "arp", "routing route",
              "routing summary", "routing protocol", "routing", "clock", "counter global",
              "counter interface", "counter", "jobs all", "jobs", "mac all", "neighbor", "ntp", "zone",
              "vpn ipsec-sa", "vpn ike-sa", "vpn flow", "vpn", "dns-proxy cache", "dhcp server",
              "global-protect-gateway", "log system", "log traffic", "log threat", "log">>)
    \o Ordered("YELLOW", FALSE, "",
            <<"show running security-policy", "show running nat-policy", "show running qos-policy",
              "show running", "show config", "test security-policy-match", "test nat-policy-match",
              "test pbf-policy-match", "test decryption-policy-match", "test routing fib-lookup",
              "ping", "traceroute", "show device-group", "show panorama-status">>)
    \o Ordered("RED", FALSE, "",
            <<"show admins", "show user ip-user-mapping", "show user group", "show user",
              "show certificate", "request password-hash">>)

pa_is_black_tier(c) == BlackPrefix(PA_BLACK_COMMANDS, c.text)

(* Bytes that may continue the last word of a row marked prefix: letters,
   digits, dot, underscore, slash and dash ("ethernet1/1"). *)
pa_prefix_char_ok(s) == SubSeq(s, 1, 1) \in {"1", "x", "/", "-", "_", "."}

PaRowMatches(s, row) ==
    /\ StartsWith(s, row.pattern)
    /\ Bounded(s, row.pattern) \/ (row.prefix /\ pa_prefix_char_ok(After(s, row.pattern)))

pa_route_command(c) ==
    LET hits == {i \in DOMAIN PA_ROUTE_TABLE : ~c.caps /\ PaRowMatches(c.text, PA_ROUTE_TABLE[i])}
    IN  CASE c.sep -> "RED"
          [] ~c.sep /\ pa_is_black_tier(c) -> "BLACK"
          [] OTHER -> IF hits = {} THEN "RED"
                      ELSE PA_ROUTE_TABLE[CHOOSE i \in hits : \A j \in hits : i <= j].tier

-----------------------------------------------------------------------------
(* FortiOS *)

FG_BLACK_COMMANDS ==
    {"execute factoryreset", "execute formatdisk", "execute reboot", "execute shutdown", "fnsysctl"}

FG_ROUTE_TABLE ==
    Rows("GREEN", "",
         {"get system status", "get system performance", "get hardware", "get system interface",
          "get router info", "get router", "show router", "get system global", "get system service",
          "get system certificate local", "get vpn ssl settings", "get wireless-controller vap",
          "show firewall policy", "show firewall address", "show vpn ipsec phase2-interface",
          "diagnose sys session stat"})
    \cup Rows("YELLOW", "",
         {"show full-configuration", "diagnose", "execute ping", "execute traceroute",
          "show system interface", "show firewall", "show vpn", "show system global",
          "show system dns", "show system ha", "show system snmp", "show system dhcp",
          "show system central-management", "show system fortiguard", "show log", "show antivirus",
          "show webfilter"})
    \cup Rows("RED", "",
         {"execute backup", "show system admin", "get system admin", "show system api-user",
          "get system api-user", "show user", "get user", "config system admin", "config"})

fg_is_black_tier(c) == BlackPrefix(FG_BLACK_COMMANDS, c.text)

fg_route_command(c) ==
    CASE c.sep -> "RED"
      [] ~c.sep /\ fg_is_black_tier(c) -> "BLACK"
      [] OTHER -> LongestMatch(FG_ROUTE_TABLE, c)
=============================================================================
