---------------------------- MODULE MCToolGates -----------------------------
(* An instance of ToolGates for TLC.  Addresses have three bits in family    *)
(* v4 and five in v6, of which those that begin with 01 spell v4; n1 has a    *)
(* host name and two spellings of its address, n2 an address in each family. *)
EXTENDS ToolGates, TLC

CONSTANTS n1, n2, ip1, ip1mapped, ip2, ip2v6, loop, host, HOST, other

MCTexts == {ip1, ip1mapped, ip2, ip2v6, loop, host, HOST, other}
V4(b) == [fam |-> "v4", bits |-> b]
MCParseIP == ip1 :> V4(5) @@ ip1mapped :> V4(5) @@ ip2 :> V4(2) @@ loop :> V4(7)
             @@ ip2v6 :> [fam |-> "v6", bits |-> 1]
             @@ [t \in {host, HOST, other} |-> NoAddress]
MCLower == [t \in MCTexts |-> IF t = HOST THEN host ELSE t]
MCTarget == [t \in MCTexts |-> IF t \in {ip2, ip2v6, loop} THEN n2 ELSE n1]
MCWidth == "v4" :> 3 @@ "v6" :> 5
MCHardRefuse == "v4" :> 2 @@ "v6" :> 1
MCSpecial == {V4(7), V4(0)}

-----------------------------------------------------------------------------
Plain == [profile |-> "", overrides |-> <<>>, allowed |-> {}, insecure |-> {},
          keys |-> {}, httpAddr |-> FALSE, token |-> FALSE, limits |-> "unset",
          blocked |-> {}]
Numeral(p, d) == [prefix |-> p, digits |-> d]
Half == Cidr("v4", 4, 2)        \* 4 and 5: the two spellings of n1's address
HalfMapped == Cidr("v6", 12, 4) \* the same, written as IPv6
AllMapped == Cidr("v6", 8, 2)   \* every IPv4 address
AroundMapped == Cidr("v6", 8, 1)    \* IPv6 addresses, and no IPv4 one
Insecure == "enableInsecure"

MCEnvs ==
    {Plain,
     [Plain EXCEPT !.profile = "conservative"],
     [Plain EXCEPT !.profile = "standard", !.allowed = {Name(HOST), Half},
                   !.keys = {Numeral("0x", <<6>>)}],
     [Plain EXCEPT !.profile = "expert", !.insecure = {Half, Blank},
                   !.allowed = {Name(ip2), Cidr("v6", 0, 1)}, !.httpAddr = TRUE,
                   !.token = TRUE],
     [Plain EXCEPT !.profile = "expert", !.insecure = {Name(ip1mapped)},
                   !.overrides = "readOnly" :> "true"],
     [Plain EXCEPT !.profile = "expert", !.overrides = Insecure :> "other", !.insecure = {Half},
                   !.blocked = {"a path"}],
     [Plain EXCEPT !.profile = "standard", !.allowed = {Blank},
                   !.insecure = {Name(loop), Name(ip2), Cidr("v6", 0, 1)},
                   !.overrides = Insecure :> "true"],
     [Plain EXCEPT !.overrides = "readOnly" :> "other", !.profile = "conservative",
                   !.keys = {Numeral("", <<6>>)}, !.blocked = {"a path"}],
     [Plain EXCEPT !.profile = "expert", !.insecure = {HalfMapped},
                   !.allowed = {AroundMapped}],
     [Plain EXCEPT !.profile = "expert", !.insecure = {AllMapped}, !.allowed = {AllMapped}],
     \* The server does not start.
     [Plain EXCEPT !.profile = "unknown"],
     [Plain EXCEPT !.profile = "expert"],
     [Plain EXCEPT !.profile = "expert", !.insecure = {Cidr("v4", 4, 1)}],
     [Plain EXCEPT !.profile = "expert", !.insecure = {Blank}],
     [Plain EXCEPT !.profile = "expert", !.insecure = {Name(host)}],
     [Plain EXCEPT !.allowed = {Malformed}],
     [Plain EXCEPT !.keys = {Numeral("", <<0, 6>>)}],
     [Plain EXCEPT !.httpAddr = TRUE],
     [Plain EXCEPT !.limits = "other"]}

-----------------------------------------------------------------------------
Ask(tool) == [tool |-> tool, nodes |-> {}, insecure |-> FALSE, endpoint |-> NoText,
              pin |-> NoPin, confirm |-> FALSE, dry |-> TRUE, sound |-> TRUE,
              action |-> "", key |-> Numeral("", <<>>)]
At(r, list) == [r EXCEPT !.nodes = list]
Maintenance(r, t, pin) == [r EXCEPT !.insecure = TRUE, !.endpoint = t, !.pin = pin]
Confirmed(r) == [r EXCEPT !.confirm = TRUE]
Meta(action, p, d) == [Ask("meta") EXCEPT !.action = action, !.key = Numeral(p, d)]
Apply == [Ask("apply_config") EXCEPT !.dry = FALSE]

MCRequests ==
    {Ask(t) : t \in ReadOnlyTools \cup {Static}}
    \cup {At(Ask(Resource), {t}) : t \in {ip1, other}}
    \cup {At(Ask("services"), l) : l \in {{ip1}, {ip1mapped}, {host}, {HOST},
                                          {ip1, ip2}, {host, other}, {ip2v6}}}
    \cup {[Ask(t) EXCEPT !.sound = FALSE] : t \in {"etcd", "validate"}}
    \cup {Confirmed(At(Ask(t), {ip1})) : t \in {"service_action", "reset"}}
    \cup {Ask("service_action"), Confirmed(Ask("reset"))}
    \cup {Maintenance(Ask("version"), t, NoPin) :
              t \in {ip1, ip1mapped, ip2, ip2v6, loop, host, NoText}}
    \cup {Maintenance(Ask("get"), ip1, p) : p \in Certs \cup {BadPin}}
    \cup {At(Maintenance(Ask("get"), ip1, NoPin), {ip1}),
          [Ask("get") EXCEPT !.pin = BadPin]}
    \cup {Meta("read", "", <<6>>), Meta("other", "", <<6>>), Meta("delete", "", <<1, 2>>)}
    \cup {Confirmed(Meta(a, p, <<6>>)) : a \in {"write", "delete"}, p \in {"", "0x"}}
    \cup {Confirmed(Meta("write", p, d)) :
              p \in {""}, d \in {<<1, 2>>, <<0, 6>>, <<2, 5, 6>>, <<1, 1>>}}
    \cup {Confirmed(Maintenance(Meta("write", "0x", <<12>>), ip1, p)) : p \in Certs}
    \cup {Apply, Confirmed(Apply), At(Confirmed(Apply), {ip1}), Ask("apply_config"),
          At(Confirmed(Apply), {ip1, ip2}), [Confirmed(Apply) EXCEPT !.sound = FALSE],
          Maintenance(Apply, ip1, NoPin), Maintenance(Confirmed(Apply), ip1, NoPin),
          Maintenance([Confirmed(Apply) EXCEPT !.sound = FALSE], ip1, NoPin)}
=============================================================================
