---------------------------- MODULE SshConnect ----------------------------
(***************************************************************************)
(* How every driver opens its connection: the stages of its connect(), in  *)
(* order, what each failure path releases, and for the SSH drivers the     *)
(* host key check (virp_ssh_hostkey.c) and the passwords offered after it. *)
(***************************************************************************)
EXTENDS SshChannel

CONSTANTS
    Keys,       \* host keys a peer may present
    Tofu        \* VIRP_SSH_TOFU: record the key of an unknown host

ASSUME ConnectAssumption == Tofu \in BOOLEAN

VARIABLES
    login,      \* the connection attempt, and what the connection holds
    known       \* the entries of known_hosts for this device

NoLogin == [step |-> 0, up |-> FALSE, held |-> {}, key |-> None, trusted |-> FALSE, shown |-> FALSE]

Stage(does, frees) == [does |-> does, frees |-> frees]
Base == {"conn", "sock", "session"}

(* A TCP connection within the connect timeout, or no socket is left open. *)
Sock == Stage("sock", {"conn"})

(* Fault: the password is offered before the host key is looked at. *)
CiscoLogin_AuthFirst ==
    <<Stage("conn", {}), Sock, Stage("session", {"conn", "sock"}),
      Stage("handshake", Base), Stage("auth", Base), Stage("hostkey", Base),
      Stage("channel", Base), Stage("shell", Base \cup {"channel"})>>

(* The shell drivers: TCP, session, handshake, host key, login, channel,
   shell; a pty that is refused is only logged. *)
CiscoLogin ==
    <<Stage("conn", {}), Sock, Stage("session", {"conn", "sock"}),
      Stage("handshake", Base), Stage("hostkey", Base), Stage("auth", Base),
      Stage("channel", Base), Stage("shell", Base \cup {"channel"})>>

AsaLogin == CiscoLogin
JunosLogin == CiscoLogin
PanosLogin == CiscoLogin

(* Linux opens a channel per command. *)
LinuxLogin ==
    <<Stage("conn", {}), Sock, Stage("session", {"conn", "sock"}),
      Stage("handshake", Base), Stage("hostkey", Base), Stage("auth", Base)>>

(* FortiGate too, and it needs both a name and a password first. *)
FortigateLogin ==
    <<Stage("conn", {}), Stage("config", {"conn"}), Sock,
      Stage("session", {"conn", "sock"}), Stage("handshake", Base), Stage("hostkey", Base),
      Stage("auth", Base)>>

(* The REST drivers: what the device entry lacks, a handle, a probe. *)
PbsLogin ==
    <<Stage("config", {}), Stage("conn", {}), Stage("datastores", {"conn"}),
      Stage("curl", {"conn"}), Stage("probe", {"conn", "curl"})>>

ZammadLogin ==
    <<Stage("config", {}), Stage("conn", {}), Stage("curl", {"conn"}), Stage("probe", {"conn", "curl"})>>

LibrenmsLogin == ZammadLogin

WazuhLogin ==
    <<Stage("conn", {}), Stage("resolve", {"conn"}), Stage("curl", {"conn", "resolve"}),
      Stage("probe", {"conn", "curl", "resolve"})>>

Gns3Login == <<Stage("config", {}), Stage("conn", {})>>

MockLogin == <<Stage("config", {}), Stage("conn", {})>>

Stages ==
    [ios |-> CiscoLogin, asa |-> AsaLogin, junos |-> JunosLogin, panos |-> PanosLogin,
     linux |-> LinuxLogin, fortigate |-> FortigateLogin, pbs |-> PbsLogin, zammad |-> ZammadLogin,
     wazuh |-> WazuhLogin, librenms |-> LibrenmsLogin, gns3 |-> Gns3Login, mock |-> MockLogin]

Kinds == DOMAIN Stages
Resources == {"conn", "sock", "session", "channel", "curl", "resolve"}

-----------------------------------------------------------------------------
(* virp_ssh_verify_hostkey(): the verdicts, each with what known_hosts holds
   after it.  An unreadable file counts as empty and is written anew; trust
   given on first use stands even if the file cannot be written. *)
HostKey(key) ==
    {<<FALSE, known>>}
    \cup UNION {IF seen # {} THEN {<<key \in seen, known>>}
                ELSE IF Tofu THEN {<<TRUE, {key}>>, <<TRUE, known>>}
                ELSE {<<FALSE, known>>} : seen \in {known, {}}}

(* What the drivers offer to a peer that lists these methods, in turn. *)
CiscoAuth(offered) ==
    IF "interactive" \in offered THEN <<"interactive">>
    ELSE IF "password" \in offered THEN <<"password">> ELSE <<>>

JunosAuth(offered) == SelectSeq(<<"interactive", "password">>, LAMBDA a : a \in offered)
AsaAuth(offered) == <<"password">>        \* or the key, if one is configured
LinuxAuth(offered) == <<"password", "interactive">>

Auth(offered) ==
    CASE kind = "ios" -> CiscoAuth(offered)
      [] kind = "junos" -> JunosAuth(offered)
      [] kind = "linux" -> LinuxAuth(offered)
      [] OTHER -> AsaAuth(offered)

-----------------------------------------------------------------------------
(* connect() begins; the last stage ends in "greeted". *)
Connect ==
    /\ pc = "idle" /\ ~login.up /\ conns < MaxConns
    /\ conns' = conns + 1
    /\ login' = [NoLogin EXCEPT !.step = 1, !.held = login.held]
    /\ call' = NoCall /\ At("login")
    /\ UNCHANGED <<kind, ch, dev, conn, result, sent, ran, logs, known>>

Doing == Stages[kind][login.step].does
AtLast == login.step = Len(Stages[kind])

Advances(l) ==
    /\ login' = [l EXCEPT !.step = @ + 1, !.held = @ \cup ({Doing} \cap Resources)]
    /\ At(IF AtLast THEN "greeted" ELSE "login")

(* A failure path releases what it lists and returns no connection. *)
Fails(l) ==
    /\ login' = [l EXCEPT !.step = 0, !.key = None, !.held = @ \ Stages[kind][login.step].frees]
    /\ At(IF call.again THEN "ios.again" ELSE "idle")

LoginStep ==
    /\ pc = "login" /\ Doing \notin {"handshake", "hostkey", "auth"}
    /\ Advances(login) \/ Fails(login)
    /\ UNCHANGED <<kind, ch, dev, conn, call, result, sent, ran, conns, logs, known>>

Handshake ==
    /\ pc = "login" /\ Doing = "handshake"
    /\ \E key \in Keys : Advances([login EXCEPT !.key = key]) \/ Fails(login)
    /\ UNCHANGED <<kind, ch, dev, conn, call, result, sent, ran, conns, logs, known>>

VerifyHostKey ==
    /\ pc = "login" /\ Doing = "hostkey"
    /\ \E v \in HostKey(login.key) :
          /\ known' = v[2]
          /\ IF v[1] THEN Advances([login EXCEPT !.trusted = TRUE]) ELSE Fails(login)
    /\ UNCHANGED <<kind, ch, dev, conn, call, result, sent, ran, conns, logs>>

(* Each offer shows the password; the peer accepts one of them or none. *)
Authenticate ==
    /\ pc = "login" /\ Doing = "auth"
    /\ \E offered \in SUBSET {"interactive", "password"}, n \in 0..2 :
          /\ n <= Len(Auth(offered))
          /\ \/ n > 0 /\ Advances([login EXCEPT !.shown = TRUE])
             \/ n = Len(Auth(offered)) /\ Fails([login EXCEPT !.shown = n > 0])
    /\ UNCHANGED <<kind, ch, dev, conn, call, result, sent, ran, conns, logs, known>>

LoginNext == LoginStep \/ Handshake \/ VerifyHostKey \/ Authenticate
=============================================================================
