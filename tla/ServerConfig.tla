---------------------------- MODULE ServerConfig ----------------------------
(***************************************************************************)
(* What the server makes of its environment when it starts: the safety     *)
(* profile (internal/config/safety_profile.go), the node allowlists        *)
(* (internal/talos/nodes.go, internal/config/insecure.go), the META keys,  *)
(* and the conditions under which main refuses to start.                   *)
(*                                                                         *)
(* A comma-separated variable is the set of its entries, the empty set     *)
(* when the variable is unset or blank.  A name or an address as it is     *)
(* written is a member of Texts; ParseIP and Lower say what the library    *)
(* makes of it.  Addresses are numbers of Width[f] bits, so that the       *)
(* prefix arithmetic of a CIDR is the real one on small words; a block of  *)
(* the IPv6 numbers (::ffff:0:0/96) is another spelling of IPv4.           *)
(***************************************************************************)
EXTENDS Integers, Sequences, FiniteSets

CONSTANTS
    Texts,      \* node names and addresses as they are written
    NoAddress,  \* net.ParseIP of a text that is not an address
    ParseIP,    \* the address a text stands for
    Lower,      \* strings.ToLower of a text
    Width,      \* each address family's number of bits
    MappedPrefix,   \* the first bits of the IPv6 numbers that spell an IPv4 address
    HardRefuse, \* each family's shortest prefix the insecure allowlist may hold
    Special     \* unspecified, loopback, link-local, multicast and broadcast

Families == {"v4", "v6"}
SpellsV4(bits) == bits \div 2^Width["v4"] = MappedPrefix
Addresses ==
    [fam : {"v4"}, bits : 0 .. 2^Width["v4"] - 1]
        \cup [fam : {"v6"}, bits : {b \in 0 .. 2^Width["v6"] - 1 : ~SpellsV4(b)}]

ASSUME ServerConfigAssumption ==
    /\ NoAddress \notin Addresses
    /\ Texts \cap (Addresses \cup {NoAddress}) = {}
    /\ ParseIP \in [Texts -> Addresses \cup {NoAddress}]
    /\ Lower \in [Texts -> Texts]
    /\ Special \subseteq Addresses
    /\ Width \in [Families -> Nat] /\ Width["v4"] < Width["v6"]
    /\ MappedPrefix \in Nat
    /\ HardRefuse \in [Families -> Nat]

-----------------------------------------------------------------------------
(* The entries of a node list. *)
Blank == [kind |-> "blank"]
Malformed == [kind |-> "malformed"]     \* has a "/", and is no CIDR
Name(t) == [kind |-> "name", text |-> t]
Cidr(f, b, n) == [kind |-> "cidr", fam |-> f, bits |-> b, ones |-> n]
Entries ==
    {Blank, Malformed} \cup {Name(t) : t \in Texts}
        \cup UNION {{Cidr(f, b, n) : b \in 0 .. 2^Width[f] - 1, n \in 0 .. Width[f]} :
                        f \in Families}

Usable(list) == {e \in list : e.kind # "blank"}

(* A range written as IPv6 inside the block that spells IPv4 holds IPv4     *)
(* addresses, by what is left of its mask; no other IPv6 range holds any.   *)
Spells == Width["v6"] - Width["v4"]
AsV4(e) ==
    IF e.fam = "v6" /\ e.ones >= Spells /\ SpellsV4(e.bits)
    THEN Cidr("v4", e.bits % 2^Width["v4"], e.ones - Spells)
    ELSE e

Contains(e, a) ==
    LET r == AsV4(e)
        size == 2^(Width[r.fam] - r.ones)
    IN  a.fam = r.fam /\ a.bits \div size = r.bits \div size

(* How a text is keyed: by its address, a host name by its lower case. *)
(* Mutant: host names are compared as they are written. *)
Normal_AsWritten(t) == IF ParseIP[t] # NoAddress THEN ParseIP[t] ELSE t
Normal(t) == IF ParseIP[t] # NoAddress THEN ParseIP[t] ELSE Lower[t]

(* The parsed allowlist; a blank variable is a nil one, which permits all. *)
AnyNode == [any |-> TRUE, cidrs |-> {}, exact |-> {}]
Parses(list) == Malformed \notin list
ParseNodeAllowlist(list) ==
    IF list = {} THEN AnyNode
    ELSE [any   |-> FALSE,
          cidrs |-> {e \in list : e.kind = "cidr"},
          exact |-> {Normal(e.text) : e \in {x \in list : x.kind = "name"}}]

CheckNode(allow, t) ==
    \/ allow.any
    \/ ParseIP[t] # NoAddress /\ \E e \in allow.cidrs : Contains(e, ParseIP[t])
    \/ Normal(t) \in allow.exact

(* The address an endpoint stands for, where it may be dialled at all. *)
CanonicalIP(t) == IF ParseIP[t] \in Special THEN NoAddress ELSE ParseIP[t]

(* The endpoint is checked by its canonical form, which is an address. *)
CheckEndpoint(allow, t) ==
    \/ allow.any
    \/ \E e \in allow.cidrs : Contains(e, CanonicalIP(t))
    \/ CanonicalIP(t) \in allow.exact

(* The ceiling of the family in which a range is written, whatever it holds. *)
(* Mutant: the ceiling is off by one. *)
TooBroad_OffByOne(e) == e.ones < HardRefuse[e.fam] - 1
TooBroad(e) == e.ones < HardRefuse[e.fam]

CheckInsecureAllowlist(list) ==
    /\ Usable(list) # {}
    /\ Malformed \notin list
    /\ \A e \in Usable(list) :
          /\ e.kind = "name" => ParseIP[e.text] # NoAddress
          /\ e.kind = "cidr" => ~TooBroad(e)

-----------------------------------------------------------------------------
(* META keys.  A numeral is a prefix and digits; the same key has several. *)
Base == [p \in {"", "0x", "0o", "0b"} |->
            IF p = "" THEN 10 ELSE IF p = "0x" THEN 16 ELSE IF p = "0o" THEN 8 ELSE 2]

KeyValue(n) ==
    LET upTo[i \in 0 .. Len(n.digits)] ==
            IF i = 0 THEN 0 ELSE upTo[i - 1] * Base[n.prefix] + n.digits[i]
    IN  upTo[Len(n.digits)]

KeyParses(n) ==
    /\ n.digits # <<>>
    /\ ~(n.prefix = "" /\ Len(n.digits) > 1 /\ n.digits[1] = 0)  \* 013: octal?
    /\ \A i \in DOMAIN n.digits : n.digits[i] < Base[n.prefix]
    /\ KeyValue(n) <= 255

(* UserReserved1, 2 and 3. *)
ReservedMetaKeys == {12, 13, 14}

ParseMetaPrivilegedKeys(list) == {KeyValue(n) : n \in list}

-----------------------------------------------------------------------------
(* The safety profile: the set of flags that are on. *)
Flags == {"readOnly", "allowClusterWide", "enableGen", "skipVersionCheck",
          "enableInsecure"}
Profiles == {"", "conservative", "standard", "expert"}
Preset == [p \in Profiles \cup {"unknown"} |->
              IF p = "conservative" THEN {"readOnly"}
              ELSE IF p = "expert"
              THEN {"allowClusterWide", "enableGen", "enableInsecure"}
              ELSE {}]

(* An override that is present turns its flag on when it is "true", and off *)
(* whatever else it is.                                                     *)
Override(env, f) == IF f \in DOMAIN env.overrides THEN env.overrides[f] ELSE "unset"
(* Mutant: a preset cannot be turned off. *)
LoadSafetyProfile_OnlyOn(env) ==
    Preset[env.profile] \cup {f \in Flags : Override(env, f) = "true"}
LoadSafetyProfile(env) ==
    {f \in Flags : IF Override(env, f) = "unset" THEN f \in Preset[env.profile]
                   ELSE Override(env, f) = "true"}

(* main: the variables it refuses to start with.  A subscription limit is   *)
(* unset, a positive number, or something else.                             *)
Starts(env) ==
    /\ env.profile \in Profiles
    /\ Parses(env.allowed)
    /\ "enableInsecure" \in LoadSafetyProfile(env) =>
          CheckInsecureAllowlist(env.insecure)
    /\ \A n \in env.keys : KeyParses(n)
    /\ env.httpAddr => env.token
    /\ env.limits # "other"

(* The handlers' configuration, set once. *)
ConfigOf(env) ==
    LET flags == LoadSafetyProfile(env) IN
    [readOnly |-> "readOnly" \in flags,
     insecure |-> "enableInsecure" \in flags,
     allowed  |-> ParseNodeAllowlist(env.allowed),
     endpoints |-> IF "enableInsecure" \in flags
                   THEN ParseNodeAllowlist(env.insecure) ELSE AnyNode,
     keys     |-> ParseMetaPrivilegedKeys(env.keys),
     blocklist |-> env.blocked # {}]
=============================================================================
