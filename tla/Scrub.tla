------------------------------- MODULE Scrub -------------------------------
(***************************************************************************)
(* What happens to the text a device returned before it is signed: the     *)
(* configuration scrubs of the Cisco, ASA and Linux drivers, the allowlist *)
(* of virp_body_filter.c for REST payloads, and virp_scrub.c, the last     *)
(* transform of all.                                                       *)
(*                                                                         *)
(* A body is a sequence of lines.  A line of text is a sequence of words;  *)
(* "S" is a credential, Removed the mark of a driver, Mark that of         *)
(* virp_scrub.c.  A line of JSON is a sequence of objects (the envelope,   *)
(* then what its array key holds), each a function from keys to values;    *)
(* whole are the places of what is not an object of an array.  A line of   *)
(* PEM has a BEGIN or an END of a private key in it or both, the rest of   *)
(* its text, and is open when the body ends before its newline; "secret"   *)
(* is a line of key text.                                                  *)
(***************************************************************************)
EXTENDS Naturals, Sequences, FiniteSets, FiniteSetsExt, RouteTables

CONSTANT Cap    \* room of virp_exec_result_t.output, in words

Removed == "<removed>"
Mark == "[REDACTED]"
ScrubError == [k |-> "text", w |-> <<Mark>>]    \* VIRP_SCRUB_MARK_ERROR

Words(ws) == [k |-> "text", w |-> ws]

CutAfter(ws, i, mark) == SubSeq(ws, 1, i) \o <<mark>>

Numeric == {"0", "6", "7", "10"}

-----------------------------------------------------------------------------
(* Driver scrubs.  A rule is the set of positions after which the rest of the
   line is cut; the first position decides. *)

(* "key X" cuts after "key" unless it is a key chain or a bare key number. *)
LeadingKey(ws) ==
    IF /\ Len(ws) >= 2 /\ ws[1] = "key" /\ ws[2] # "chain"
       /\ ~(ws[2] \in Numeric /\ Len(ws) = 2)
    THEN {1} ELSE {}

(* A word with something after it. *)
At(ws, words) == {i \in 1..(Len(ws) - 1) : ws[i] \in words}

CutFirst(ws, cuts) == IF cuts = {} THEN ws ELSE CutAfter(ws, Min(cuts), Removed)

(* crypto isakmp key [0|6|7] X ...: the place of the first key and that of X,
   which alone is replaced unless an earlier word has cut the line. *)
IsakmpKeys(ws) ==
    IF Len(ws) >= 4 /\ ws[1] = "crypto" /\ ws[2] = "isakmp" THEN {i \in 3..(Len(ws) - 1) : ws[i] = "key"} ELSE {}

ScrubWith(ws, cuts) ==
    LET k == Min(IsakmpKeys(ws))
        v == IF ws[k + 1] \in {"0", "6", "7"} THEN k + 2 ELSE k + 1
    IN  IF IsakmpKeys(ws) # {} /\ v <= Len(ws) /\ \A i \in cuts : i >= k
        THEN [ws EXCEPT ![v] = Removed] ELSE CutFirst(ws, cuts)

FirstIs(ws, words) == Len(ws) >= 1 /\ ws[1] \in words
SecondIs(ws, word) == Len(ws) >= 2 /\ ws[2] = word

CiscoKeywords ==
    {"password", "secret", "community", "key-string", "authentication-key", "md5", "sha",
     "pre-shared-key", "passphrase"}

cisco_scrub_line(ws) ==
    ScrubWith(ws,
        LeadingKey(ws)
        \cup (At(ws, {"key"}) \ {1})
        \cup {i \in {3} : Len(ws) > 3 /\ FirstIs(ws, {"snmp-server"}) /\ SecondIs(ws, "host")}
        \cup {i \in At(ws, {"authentication"}) : i >= 2 /\ FirstIs(ws, {"standby", "vrrp"})}
        \cup {i \in At(ws, {"authentication"}) : i >= 3 /\ FirstIs(ws, {"ip"}) /\ SecondIs(ws, "nhrp")}
        \cup At(ws, CiscoKeywords))

(* ASA: passwd and ldap-login-password too, what follows an aaa-server host,
   and an snmp-server host comes after its interface. *)
asa_scrub_line(ws) ==
    ScrubWith(ws,
        LeadingKey(ws)
        \cup (At(ws, {"key"}) \ {1})
        \cup {i \in {4} : Len(ws) > 4 /\ FirstIs(ws, {"snmp-server"}) /\ SecondIs(ws, "host")}
        \cup {i \in 3..(Len(ws) - 1) : FirstIs(ws, {"aaa-server"}) /\ ws[i - 1] = "host"}
        \cup At(ws, CiscoKeywords \cup {"passwd", "ldap-login-password"}))

linux_scrub_line(ws) == CutFirst(ws, At(ws, {"password", "md5", "key-string", "authentication-key"}))

(* A mark is longer than a word. *)
Width(line) ==
    CASE line.k = "text" -> Len(line.w) + Len(SelectSeq(line.w, LAMBDA w : w \in {Mark, Removed}))
      [] line.k = "json" -> FoldFunction(LAMBDA o, n : n + Cardinality(DOMAIN o), 0, line.o)
      [] OTHER -> 1

BodyWidth(body) == FoldFunction(LAMBDA line, n : n + Width(line), 0, body)

scrub_config(dev, body) ==
    [i \in DOMAIN body |->
        IF body[i].k # "text" THEN body[i]
        ELSE Words(CASE dev = "cisco" -> cisco_scrub_line(body[i].w)
                     [] dev = "asa" -> asa_scrub_line(body[i].w)
                     [] dev = "linux" -> linux_scrub_line(body[i].w))]

(* cisco_store_output(), asa_store_output(), linux_scrub_result(): a scrubbed
   body that does not fit is withheld, any other is cut to what fits. *)
store_output(body, scrubbed) ==
    IF BodyWidth(body) <= Cap THEN body
    ELSE IF scrubbed THEN <<>>
    ELSE SubSeq(body, 1, Max({0} \cup {n \in 1..Len(body) : BodyWidth(SubSeq(body, 1, n)) <= Cap}))

-----------------------------------------------------------------------------
(* virp_body_filter.c *)

EnvelopeAllow == {"status", "count", "message"}
ArrayKey == "devices"
ItemAllow == {"hostname", "version"}

Without(object, allow) == [key \in DOMAIN object \cap allow |-> object[key]]

(* Fault: what is dropped from the items is not recorded. *)
RemovedKeys_EnvelopeOnly(payload) == DOMAIN payload.o[1] \ (EnvelopeAllow \cup {ArrayKey})

RemovedKeys(payload) ==
    (DOMAIN payload.o[1] \ (EnvelopeAllow \cup {ArrayKey}))
    \cup UNION {DOMAIN payload.o[i] \ ItemAllow : i \in (2..Len(payload.o)) \ payload.whole}

(* What is not an object, or not in an array, is passed over. *)
filter_object(payload) ==
    [i \in DOMAIN payload.o |->
        IF i \in payload.whole THEN payload.o[i]
        ELSE Without(payload.o[i], IF i = 1 THEN EnvelopeAllow \cup {ArrayKey} ELSE ItemAllow)]

(* The stub names the rule, the length and the hash of what it stands for. *)
Stub == [k |-> "stub"]

(* matched: a rule names this driver and path.  Only the payload is replaced,
   the line of the prompt before it stays. *)
virp_body_filter_apply(body, matched) ==
    LET last == Len(body)
        payload == body[last]
    IN  IF ~matched \/ last = 0 THEN body
        ELSE IF payload.k # "json" THEN SubSeq(body, 1, last - 1) \o <<Stub>>
        ELSE IF RemovedKeys(payload) = {} THEN body
        ELSE LET kept == [payload EXCEPT !.o = filter_object(payload), !.removed = RemovedKeys(payload)]
                 out == [body EXCEPT ![last] = kept]
             IN  IF BodyWidth(out) + 1 <= Cap THEN out ELSE SubSeq(body, 1, last - 1) \o <<Stub>>

-----------------------------------------------------------------------------
(* virp_scrub.c.  Words are compared without regard to case. *)

AnyCase(word, words) == word \in words \/ (word = "Password:" /\ "password:" \in words)

Keywords ==
    LET base == {"password", "passwd", "secret", "pre-shared-key", "wpa-psk", "psk", "key-string"}
    IN  base \cup {w \o ":" : w \in base} \cup {w \o "=" : w \in base}

Labels == {"db_password", "client-secret", "x-api-key", "api_token", "token"}

Replace(ws, i) == [ws EXCEPT ![i] = Mark]

(* The place of the one word that rule_snmp_community() or rule_crypto_key()
   replaces; a value that is already a mark is left alone. *)
rule_snmp_community(ws) ==
    {i \in {3} : Len(ws) >= 3 /\ FirstIs(ws, {"snmp-server"}) /\ SecondIs(ws, "community") /\ ws[3] # Mark}

rule_crypto_key(ws) ==
    LET keys == {i \in 2..(Len(ws) - 1) : FirstIs(ws, {"crypto"}) /\ ws[i] = "key"}
        v == Min(keys) + (IF ws[Min(keys) + 1] \in Numeric THEN 2 ELSE 1)
    IN  IF keys # {} /\ v <= Len(ws) /\ ws[v] # Mark THEN {v} ELSE {}

rule_leading_key(ws) == {i \in LeadingKey(ws) : ws[2] # Mark}

(* A label: attached to its value, ending in a separator, or followed by one;
   the place after which the line is cut. *)
LabelCut(ws, i) ==
    CASE \E l \in Labels : ws[i] \in {l \o ":", l \o "="} -> i
      [] ws[i] \in Labels /\ i < Len(ws) /\ ws[i + 1] \in {":", "="} -> i + 1
      [] OTHER -> 0

Attached(w) == \E l \in Labels : w = l \o "=S"

MarkFollows(ws, i) == i < Len(ws) /\ ws[i + 1] = Mark

Fires(ws, i) ==
    \/ AnyCase(ws[i], Keywords) /\ ~MarkFollows(ws, i)
    \/ Attached(ws[i])
    \/ LabelCut(ws, i) # 0 /\ ~MarkFollows(ws, LabelCut(ws, i))

(* The walk over the words: the first that fires decides. *)
KeywordWalk(ws) ==
    LET hits == {i \in DOMAIN ws : Fires(ws, i)}
        i == Min(hits)
    IN  IF hits = {} THEN ws
        ELSE IF AnyCase(ws[i], Keywords) THEN CutAfter(ws, i, Mark)
        ELSE IF Attached(ws[i])
             THEN [ws EXCEPT ![i] = SubSeq(@, 1, Len(@) - 1) \o Mark]
             ELSE CutAfter(ws, LabelCut(ws, i), Mark)

TextLine(ws) ==
    CASE rule_snmp_community(ws) # {} -> Replace(ws, 3)
      [] rule_snmp_community(ws) = {} /\ rule_crypto_key(ws) # {} -> Replace(ws, Min(rule_crypto_key(ws)))
      [] rule_snmp_community(ws) = {} /\ rule_crypto_key(ws) = {} /\ rule_leading_key(ws) # {} -> CutAfter(ws, 1, Mark)
      [] OTHER -> KeywordWalk(ws)

JsonLabels == Labels \cup {"community", "authpass", "cryptopass"}

(* Every labelled value of the line, not only the first. *)
rule_json_labeled_secret(o) ==
    [i \in DOMAIN o |-> [key \in DOMAIN o[i] |-> IF key \in JsonLabels THEN Mark ELSE o[i][key]]]

scrub_line(line) ==
    CASE line.k = "text" -> Words(TextLine(line.w))
      [] line.k = "json" -> [line EXCEPT !.o = rule_json_labeled_secret(@)]
      [] OTHER -> line

line_opens_pem(line) == line.k = "pem" /\ line.begin
line_closes_pem(line) == line.k = "pem" /\ line.end

(* in_pem before the i-th line: a line that opens a block does not close it, even
   with an END of its own, and inside a block only an END counts. *)
InPem(body, i) ==
    LET in_pem[j \in 0..Len(body)] ==
          IF j = 0 THEN FALSE
          ELSE IF in_pem[j - 1] THEN ~line_closes_pem(body[j]) ELSE line_opens_pem(body[j])
    IN  in_pem[i - 1]

(* A BEGIN is kept as it is and the mark put on the next line, or after it where
   it is the end of the body; an END is kept as it is; key text is dropped. *)
virp_scrub_body(body) ==
    Concat([i \in DOMAIN body |->
        IF InPem(body, i) THEN IF line_closes_pem(body[i]) THEN <<body[i]>> ELSE <<>>
        ELSE IF ~line_opens_pem(body[i]) THEN <<scrub_line(body[i])>>
        ELSE IF body[i].open THEN <<[body[i] EXCEPT !.w = Append(@, Mark)]>>
        ELSE <<body[i], Words(<<Mark>>)>>])

(* Fault: what does not fit is left as it was. *)
virp_scrub_field_FailsOpen(body, cap) ==
    LET out == virp_scrub_body(body) IN IF BodyWidth(out) <= cap THEN out ELSE body

(* virp_scrub_exec_result(), for output and for error_msg: a scrub that fails
   leaves nothing but its own mark. *)
virp_scrub_field(body, cap) ==
    LET out == virp_scrub_body(body) IN IF BodyWidth(out) <= cap THEN out ELSE <<ScrubError>>
=============================================================================
