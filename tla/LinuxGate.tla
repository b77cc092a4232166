----------------------------- MODULE LinuxGate -----------------------------
(***************************************************************************)
(* driver_linux.c: linux_gate_classify(), which decides for a shell        *)
(* command line whether it would halt the host or the gate itself, reads   *)
(* FRR state through vtysh, or drives Proxmox guests.                      *)
(*                                                                         *)
(* A command line is a sequence of segments (cut at ; | &), a segment a    *)
(* sequence of tokens.  A token has the parts of its text, the character   *)
(* "by" that joins them ("" for one part, "," of an id list, "/" of a      *)
(* path, "=" of a flag, " " inside quotes) and its quoting: bare, whole    *)
(* (one pair of double quotes around it), inner (quotes or backslashes in  *)
(* the middle), open (a quote that never closes) or spaced (whole, with a  *)
(* tab or two blanks inside).                                              *)
(***************************************************************************)
EXTENDS Naturals, Sequences, Functions, RouteTables

CONSTANTS Vmids,    \* guest numbers that occur in commands
          Zeros,    \* the runs of zeros that occur before them
          MaxTok    \* LINUX_PROX_MAX_TOK

Parts(t) == Range(t.parts)
Text(t) == IF t.by = "" THEN t.parts[1] ELSE ""
BareWord(t) == IF t.form = "bare" THEN Text(t) ELSE ""

-----------------------------------------------------------------------------
(* The never tier: commands that would take the gate or its host away. *)

LINUX_BLACK_HALT_CMDS == {"shutdown", "poweroff", "halt", "reboot", "telinit", "init"}
LINUX_BLACK_SYSTEMCTL_HOST == {"poweroff", "reboot", "halt", "kexec", "emergency", "rescue"}
LINUX_BLACK_SYSTEMCTL_UNIT == {"stop", "disable", "mask", "kill", "restart", "reload-or-restart"}
LINUX_BLACK_KILLERS == {"pkill", "killall"}

linux_tok_basename(t) == IF t.by = "/" THEN t.parts[Len(t.parts)] ELSE Text(t)

linux_tok_names_virp(t) == \E w \in Parts(t) : w \in {"virp-onode", "virp-onode.service"}

(* Fault: only the quoting that a table row accepts is seen through. *)
RawWords_SkipsQuoted(seg) == SelectSeq(seg, LAMBDA t : t.form = "bare")

(* The scan splits on blanks and ignores quote characters, so what is quoted
   together falls apart into its words. *)
RawWords(seg) ==
    Concat([i \in DOMAIN seg |->
        IF seg[i].by = " " THEN [j \in DOMAIN seg[i].parts |-> [seg[i] EXCEPT !.parts = <<@[j]>>, !.by = ""]]
                           ELSE <<seg[i]>>])

linux_black_seg_verdict(seg) ==
    LET ws == RawWords(seg)
        rest == {ws[i] : i \in 2..Len(ws)}
        verbs == {Text(t) : t \in rest}
        virp == \E t \in rest : linux_tok_names_virp(t)
    IN  /\ ws # <<>>
        /\ LET cmd == linux_tok_basename(ws[1]) IN
           \/ cmd \in LINUX_BLACK_HALT_CMDS
           \/ cmd = "systemctl" /\ verbs \cap LINUX_BLACK_SYSTEMCTL_HOST # {}
           \/ cmd = "systemctl" /\ verbs \cap LINUX_BLACK_SYSTEMCTL_UNIT # {} /\ virp
           \/ cmd \in LINUX_BLACK_KILLERS /\ virp

linux_black_self_harm(c) == \E i \in DOMAIN c.segs : linux_black_seg_verdict(c.segs[i])

-----------------------------------------------------------------------------
(* Guest numbers.  A number may be written with leading zeros; the code reads
   up to nine digits, more are no number to it. *)

Spellings == [n \in Vmids |-> {ToString(n)} \cup {z \o ToString(n) : z \in Zeros}]
SidSpellings == [n \in Vmids |-> {"vm:" \o s : s \in Spellings[n]} \cup {"ct:" \o s : s \in Spellings[n]}]

Number(w) == {n \in Vmids : w \in Spellings[n]}
Sid(w) == {n \in Vmids : w \in SidSpellings[n]}

prox_vmid_digits(w) == IF Len(w) <= 9 THEN Number(w) ELSE {}

prox_sid_vmid(w) == IF Len(w) <= 12 THEN Sid(w) ELSE {}

(* The numbers a token names, field by field of a comma list. *)
prox_scan_token_ids(t, numeric_ok) ==
    UNION {prox_sid_vmid(w) \cup (IF numeric_ok THEN prox_vmid_digits(w) ELSE {}) :
           w \in IF t.by \in {"", ","} THEN Parts(t) ELSE {}}

prox_parse_vmid(t) == IF t.form = "bare" /\ t.by = "" THEN prox_vmid_digits(Text(t)) ELSE {}

PathSegs(t) == IF t.by = "/" THEN t.parts ELSE <<Text(t)>>

prox_path_has_seg_in(t, set) == \E i \in DOMAIN PathSegs(t) : PathSegs(t)[i] \in set

(* prot: the protected set and whether one was configured. *)
IsProtected(prot, ids) == prot.configured /\ ids \cap prot.vmids # {}

(* Fault: without a protected set every guest is clear. *)
Verdict_UnconfiguredClear(prot, saw) == IF saw THEN "clear" ELSE "none"

Verdict(prot, saw) ==
    CASE ~saw -> "none" [] saw /\ ~prot.configured -> "unconfigured" [] OTHER -> "clear"

(* Fault: only the position of the guest argument is compared. *)
ProtectQm_FirstIdOnly(tok, prot) ==
    LET vpos == IF Text(tok[1]) = "qm" /\ BareWord(tok[2]) = "guest" THEN 4 ELSE 3
    IN  IF Len(tok) < vpos \/ prox_parse_vmid(tok[vpos]) = {} THEN "bad"
        ELSE IF IsProtected(prot, prox_scan_token_ids(tok[vpos], TRUE)) THEN "protected"
        ELSE Verdict(prot, TRUE)

ProtectQm(tok, prot) ==
    LET vpos == IF Text(tok[1]) = "qm" /\ BareWord(tok[2]) = "guest" THEN 4 ELSE 3
    IN  IF Len(tok) < vpos \/ prox_parse_vmid(tok[vpos]) = {} THEN "bad"
        ELSE IF \E i \in vpos..Len(tok) : IsProtected(prot, prox_scan_token_ids(tok[i], TRUE)) THEN "protected"
        ELSE Verdict(prot, TRUE)

ProtectPvesh(tok, prot) ==
    LET segs == PathSegs(tok[3])
        next(i) == IF i < Len(segs) THEN prox_vmid_digits(segs[i + 1]) ELSE {}
        guests == {i \in DOMAIN segs : segs[i] \in {"qemu", "lxc"}}
        sids == UNION {prox_sid_vmid(segs[i]) : i \in DOMAIN segs}
        cluster_scope == tok[3].by = "/" /\ (StartsWith(segs[1], "cluster") \/ StartsWith(segs[1], "pools"))
        named == UNION {prox_scan_token_ids(tok[i], cluster_scope) : i \in 2..Len(tok)}
        named_sid == UNION {prox_scan_token_ids(tok[i], FALSE) : i \in 2..Len(tok)}
    IN  CASE \E i \in guests : IsProtected(prot, next(i)) /\ \A j \in guests : j < i => next(j) # {} -> "protected"
          [] \E i \in guests : next(i) = {} /\ \A j \in guests : j < i => ~IsProtected(prot, next(j)) -> "bad"
          [] OTHER -> IF IsProtected(prot, sids \cup named) THEN "protected"
                      ELSE Verdict(prot, guests # {} \/ sids \cup named_sid # {})

ProtectVzdump(tok, prot) ==
    LET named == UNION {prox_scan_token_ids(tok[i], TRUE) : i \in 2..Len(tok)}
    IN  IF IsProtected(prot, named) THEN "protected" ELSE Verdict(prot, named # {})

linux_prox_self_protect(tok, prot) ==
    LET tool == BareWord(tok[1]) IN
    CASE tool \in {"qm", "pct"} /\ Len(tok) >= 2 /\ BareWord(tok[2]) # "list" -> ProtectQm(tok, prot)
      [] tool = "pvesh" /\ Len(tok) >= 3 -> ProtectPvesh(tok, prot)
      [] tool = "vzdump" -> ProtectVzdump(tok, prot)
      [] OTHER -> "none"
-----------------------------------------------------------------------------
(* Proxmox *)

LINUX_PROX_TOOLS == {"qm", "pct", "pvesh", "pveversion", "pvecm", "pvesm", "vzdump"}
PROX_GUEST_YELLOW_VERBS ==
    {"start", "stop", "shutdown", "reboot", "suspend", "resume", "create", "set", "clone", "migrate", "snapshot"}
PROX_GUEST_GREEN_VERBS == {"status", "config"}
PROX_STORAGE_BLACK_VERBS == {"remove", "free", "wipedisk", "zfsscan-destroy", "destroy"}
PROX_VZDUMP_BLACK_FLAGS == {"--delete", "--remove", "--prune-backups", "-delete", "-remove"}
PROX_VZDUMP_RED_FLAGS == {"--script", "-script", "--stdout", "-stdout"}
PROX_PVESH_SHELL_SEGS == {"execute", "termproxy", "vncshell", "spiceshell", "vncproxy", "spiceproxy"}

(* A word with a byte that only quotes may carry. *)
OddWord == {"it's"}

(* linux_prox_quotes_raw_ok() and linux_prox_tokenize(): the token as a value,
   or a reason to refuse the line. *)
linux_prox_tokenize(seg) ==
    /\ Len(seg) <= MaxTok
    /\ \A i \in DOMAIN seg :
          /\ seg[i].form \in {"bare", "whole"}
          /\ seg[i].form = "bare" => Parts(seg[i]) \cap OddWord = {} /\ seg[i].by # " "

(* Fault: a flag is compared like a verb, bare and as a whole. *)
prox_flag_in_BareOnly(t, set) == BareWord(t) \in set

(* The flag before an "=", whatever its quoting. *)
prox_flag_in(t, set) == t.by \in {"", "="} /\ t.parts[1] \in set

prox_is_storage_id(t) == BareWord(t) \in {"local", "ceph-1"}

(* Rows that never run, at any tier. *)
ProxBlack(tok, tool, verb) ==
    \/ tool \in {"qm", "pct"} /\ verb = "destroy"
    \/ tool = "pvesh" /\ verb = "delete"
    \/ tool = "pvesm" /\ verb \in PROX_STORAGE_BLACK_VERBS
    \/ tool = "vzdump" /\ \E i \in 2..Len(tok) : prox_flag_in(tok[i], PROX_VZDUMP_BLACK_FLAGS)

(* Rows that run code the gate has not classified. *)
ProxOpaque(tok, tool, verb) ==
    \/ tool = "qm" /\ verb = "guest"
    \/ tool = "pct" /\ verb \in {"exec", "enter"}
    \/ tool \in {"qm", "pct"} /\ verb = "agent"
    \/ tool = "pvesh" /\ Len(tok) >= 3 /\ prox_path_has_seg_in(tok[3], {"agent"} \cup PROX_PVESH_SHELL_SEGS)
    \/ tool = "vzdump" /\ \E i \in 2..Len(tok) : prox_flag_in(tok[i], PROX_VZDUMP_RED_FLAGS)

PveshTier(tok, verb) ==
    LET path_ok == Len(tok) >= 3 /\ tok[3].form = "bare" /\ tok[3].by = "/"
        access == path_ok /\ StartsWith(tok[3].parts[1], "access")
    IN  CASE verb = "get" /\ Len(tok) = 3 /\ path_ok -> IF access THEN "YELLOW" ELSE "GREEN"
          [] verb \in {"create", "set"} /\ path_ok -> IF access THEN "RED" ELSE "YELLOW"
          [] OTHER -> "RED"

ProxRow(tok, tool, verb) ==
    CASE \/ tool = "pveversion" /\ Len(tok) = 1
         \/ tool \in {"qm", "pct"} /\ verb = "list" /\ Len(tok) = 2
         \/ tool = "pvecm" /\ verb \in {"status", "nodes"} /\ Len(tok) = 2
         \/ tool = "pvesm" /\ verb = "status" /\ Len(tok) = 2
         \/ tool = "pvesm" /\ verb = "list" /\ Len(tok) = 3 /\ prox_is_storage_id(tok[3])
         \/ tool \in {"qm", "pct"} /\ verb \in PROX_GUEST_GREEN_VERBS /\ Len(tok) = 3 -> "GREEN"
      [] tool = "pvesh" /\ Len(tok) >= 2 -> PveshTier(tok, verb)
      [] tool \in {"qm", "pct"} /\ verb \in PROX_GUEST_YELLOW_VERBS /\ Len(tok) >= 3 -> "YELLOW"
      [] tool = "vzdump" -> "YELLOW"
      [] OTHER -> "RED"

(* The code tests the BLACK and the RED rows in turn, tool by tool; within one
   tool BLACK comes first, and no line is of two tools. *)
linux_prox_classify(tok, prot) ==
    LET tool == BareWord(tok[1])
        verb == IF Len(tok) >= 2 THEN BareWord(tok[2]) ELSE ""
        guard == linux_prox_self_protect(tok, prot)
    IN  IF ~linux_prox_tokenize(tok) \/ guard \in {"bad", "unconfigured"} THEN "RED"
        ELSE IF guard = "protected" \/ ProxBlack(tok, tool, verb) THEN "BLACK"
        ELSE IF ProxOpaque(tok, tool, verb) THEN "RED"
        ELSE ProxRow(tok, tool, verb)

-----------------------------------------------------------------------------
(* vtysh: one -c and one quoted argument, in which the blanks are folded before
   anything is compared; a second -c counts between blanks only. *)

(* FRR completes unique prefixes, so "show run" is show running-config. *)
word_prefixes(words, full) == Len(words) >= 1 /\ StartsWith(full, words[1])

(* Words of lower-case letters, digits, dots, slashes and dashes. *)
rest_charset_ok(words) == Range(words) \cap OddWord = {}

VtyshTier(tok) ==
    LET flags == {i \in DOMAIN tok : BareWord(tok[i]) = "-c"}
        arg == tok[3].parts
        begins(ws) == Len(ws) <= Len(arg) /\ SubSeq(arg, 1, Len(ws)) = ws
        rest(ws) == SubSeq(arg, Len(ws) + 1, Len(arg))
    IN  IF \/ flags # {2} \/ Len(tok) # 3
           \/ tok[3].form \notin {"whole", "spaced"}
           \/ \E i \in 2..(Len(arg) - 1) : arg[i] = "-c" THEN "RED"
        ELSE CASE begins(<<"configure">>) \/ begins(<<"clear", "ip", "ospf", "process">>) -> "RED"
               [] begins(<<"show">>) /\ rest_charset_ok(rest(<<"show">>)) ->
                    IF \E full \in {"running-config", "startup-config"} : word_prefixes(rest(<<"show">>), full)
                    THEN "YELLOW" ELSE "GREEN"
               [] \E ws \in {<<"clear", "ip", "ospf", "interface">>, <<"clear", "ip", "ospf", "neighbor">>,
                             <<"ping">>, <<"traceroute">>} :
                    begins(ws) /\ rest_charset_ok(rest(ws)) -> "YELLOW"
               [] OTHER -> "RED"

(* Lines that are GREEN byte for byte, on a peer node and on any host. *)
LINUX_GREEN_EXACT ==
    {<<"systemctl", "is-active", "virp-onode">>, <<"df", "-h">>, <<"uptime">>, <<"uname", "-a">>,
     <<"cat", "/var/lib/virp/autopilot/published.json">>,
     <<"/opt/virp/build/virp-tool", "chain", "tail", "-n", "1", "--db", "/var/lib/virp/chain.db">>}

ExactGreen(tok) ==
    \E line \in LINUX_GREEN_EXACT :
        Len(line) = Len(tok) /\ \A i \in DOMAIN tok : BareWord(tok[i]) = line[i]

(* c.meta: one of ` < > $( ${ or a control byte is in the line.  What is left
   when nothing matches is RED, with a reason of its own for /etc/frr files
   and FRR services. *)
linux_gate_classify(c, prot) ==
    IF linux_black_self_harm(c) THEN "BLACK"
    ELSE IF c.meta \/ Len(c.segs) # 1 \/ c.segs[1] = <<>> THEN "RED"
    ELSE IF BareWord(c.segs[1][1]) = "vtysh" THEN VtyshTier(c.segs[1])
    ELSE IF BareWord(c.segs[1][1]) \in LINUX_PROX_TOOLS THEN linux_prox_classify(c.segs[1], prot)
    ELSE IF ExactGreen(c.segs[1]) THEN "GREEN" ELSE "RED"
=============================================================================
