--------------------------- MODULE ToolGatesProofs ---------------------------
(***************************************************************************)
(* Proofs about ToolGates, for every environment, request and number of    *)
(* calls.  IInv is inductive; what the outcome of a call says about the    *)
(* environment follows from it and from lemmas about the guards and the    *)
(* allowlists, which do not depend on the state but for env and cfg.       *)
(***************************************************************************)
EXTENDS ToolGates, SequenceTheorems, TLAPS

-----------------------------------------------------------------------------
(* Requests and guards. *)
LEMMA RequestTyped ==
    ASSUME NEW r \in Requests
    PROVE  /\ r.tool \in Tools /\ r.nodes \subseteq Texts /\ r.insecure \in BOOLEAN
           /\ r.endpoint \in Texts \cup {NoText} /\ r.confirm \in BOOLEAN
           /\ r.dry \in BOOLEAN /\ r.sound \in BOOLEAN
           /\ r.pin \in Certs \cup {NoPin, BadPin}
BY ToolGatesAssumption DEF AllRequests

LEMMA RpcsBound == \A tool : RpcsOf(tool) \in 0 .. 2
BY DEF RpcsOf

Refusals == Codes \ {"ok", "rpc-error", "dial-error"}

(* Every guard that a handler has records a refusal. *)
LEMMA GateCodes ==
    ASSUME NEW r \in Requests, NEW g \in GatesOf(r)
    PROVE  g.code \in Refusals
<1>1. \A h \in DualGates(r) : h.code \in Refusals
    BY DEF DualGates, PinGate, PathGates, InsecureGates, NodeGate, Gate, Refusals, Codes
<1>2. \A h \in NodeGate(r) : h.code \in Refusals
    BY DEF NodeGate, Gate, Refusals, Codes
<1>3. \A h \in MetaGates(r) : h.code \in Refusals
    <2>1. \A n, code, fails : Gate(n, code, fails).code = code
        BY DEF Gate
    <2>2. ASSUME NEW h \in MetaGates(r), h \notin DualGates(r)
          PROVE  \E n, fails : \/ h = Gate(n, "refused:args-invalid", fails)
                               \/ h = Gate(n, "refused:confirm-required", fails)
                               \/ h = Gate(n, "refused:meta-key-not-privileged", fails)
        BY <2>2, Zenon DEF MetaGates
    <2> QED
        BY <1>1, <2>1, <2>2 DEF Refusals, Codes
<1>4. \A h \in ApplyGates(r) : h.code \in Refusals
    BY <1>1 DEF ApplyGates, Gate, Refusals, Codes
<1>5. \A h \in ServiceActionGates(r) \cup ResetGates(r) : h.code \in Refusals
    BY <1>2 DEF ServiceActionGates, ResetGates, Gate, Refusals, Codes
<1>6. \A h \in EtcdGates(r) \cup ResourceGates(r) \cup ValidateGates(r) : h.code \in Refusals
    BY <1>2 DEF EtcdGates, ResourceGates, ValidateGates, Gate, Refusals, Codes
<1> QED
    BY <1>1, <1>2, <1>3, <1>4, <1>5, <1>6, RequestTyped
       DEF GatesOf, Tools, ReadOnlyTools, MutatingTools, Resource, Static

(* A tool that can be asked for an insecure call has the guards of one. *)
LEMMA InsecureHasGates ==
    ASSUME NEW r \in Requests, r.insecure
    PROVE  InsecureGates(r) \subseteq GatesOf(r)
<1>1. r.tool \in {"get", "version", "meta", "apply_config"}
    BY ToolGatesAssumption
<1>2. InsecureGates(r) \subseteq DualGates(r)
    BY DEF DualGates, PathGates
<1>3. DualGates(r) \subseteq MetaGates(r) /\ DualGates(r) \subseteq ApplyGates(r)
    BY DEF MetaGates, ApplyGates
<1>4. DualGates(r) \subseteq GatesOf(r)
    <2>1. CASE r.tool \in {"get", "version"}
        <3>1. GatesOf(r) = DualGates(r)
            BY <1>1, <2>1, RequestTyped DEF GatesOf, Tools, ReadOnlyTools, MutatingTools, Resource, Static
        <3> QED
            BY <3>1
    <2>2. CASE r.tool = "meta"
        <3>1. GatesOf(r) = MetaGates(r)
            BY <1>1, <2>2, RequestTyped DEF GatesOf, Tools, ReadOnlyTools, MutatingTools, Resource, Static
        <3> QED
            BY <1>3, <3>1
    <2>3. CASE r.tool = "apply_config"
        <3>1. GatesOf(r) = ApplyGates(r)
            BY <1>1, <2>3, RequestTyped DEF GatesOf, Tools, ReadOnlyTools, MutatingTools, Resource, Static
        <3> QED
            BY <1>3, <3>1
    <2> QED
        BY <1>1, <2>1, <2>2, <2>3
<1> QED
    BY <1>2, <1>4

(* A tool that takes nodes checks them. *)
LEMMA NodesAreGated ==
    ASSUME NEW r \in Requests, ~r.insecure, r.tool \notin Nodeless
    PROVE  NodeGate(r) \subseteq GatesOf(r)
<1>1. NodeGate(r) \subseteq DualGates(r)
    BY DEF DualGates, PathGates
<1> QED
    BY <1>1, RequestTyped
       DEF GatesOf, MetaGates, ApplyGates, ServiceActionGates, ResetGates, EtcdGates, ResourceGates,
           Nodeless, Tools, ReadOnlyTools, MutatingTools, Resource, Static

LEMMA InsecurePasses ==
    ASSUME NEW r \in Requests, r.insecure, Passes(r)
    PROVE  /\ cfg.insecure /\ r.nodes = {}
           /\ r.endpoint \in Texts /\ CanonicalIP(r.endpoint) # NoAddress
           /\ CheckEndpoint(cfg.endpoints, r.endpoint)
<1>1. \A g \in InsecureGates(r) : ~g.fails
    BY InsecureHasGates DEF Passes
<1>2. r.endpoint # NoText
    BY <1>1 DEF InsecureGates, Gate
<1> QED
    BY <1>1, <1>2, RequestTyped DEF InsecureGates, Gate

LEMMA TargetsAreNodes ==
    ASSUME NEW r \in Requests, Passes(r)
    PROVE  TargetsOf(r) \subseteq Nodes
BY InsecurePasses, RequestTyped, ToolGatesAssumption DEF TargetsOf

-----------------------------------------------------------------------------
(* Allowlists: the parsed list lets a text through just when an entry of   *)
(* the environment covers it, however either of the two is spelled.        *)
LEMMA EntryForms ==
    ASSUME NEW e \in Entries
    PROVE  \/ e.kind \in {"blank", "malformed", "cidr"}
           \/ e.kind = "name" /\ e.text \in Texts
BY DEF Entries, Blank, Malformed, Name, Cidr

LEMMA SameNodeIsNormal ==
    ASSUME NEW s \in Texts, NEW t \in Texts
    PROVE  SameNode(s, t) <=> Normal(s) = Normal(t)
<1>1. Lower[s] \in Texts /\ Lower[t] \in Texts /\ \A u \in Texts : u \notin Addresses
    BY ServerConfigAssumption
<1>2. ParseIP[s] \in Addresses \cup {NoAddress} /\ ParseIP[t] \in Addresses \cup {NoAddress}
    BY ServerConfigAssumption
<1> HIDE DEF Addresses
<1> QED
    BY <1>1, <1>2 DEF SameNode, Normal

LEMMA AllowlistLists ==
    ASSUME NEW list \in SUBSET Entries, NEW t \in Texts
    PROVE  CheckNode(ParseNodeAllowlist(list), t) <=> Listed(list, t)
<1>1. CASE list = {}
    BY <1>1 DEF CheckNode, ParseNodeAllowlist, AnyNode, Listed
<1>2. CASE list # {}
    <2> DEFINE allow == ParseNodeAllowlist(list)
    <2>1. /\ ~allow.any
          /\ allow.cidrs = {e \in list : e.kind = "cidr"}
          /\ allow.exact = {Normal(e.text) : e \in {x \in list : x.kind = "name"}}
        BY <1>2 DEF ParseNodeAllowlist
    <2>2. (\E e \in allow.cidrs : ParseIP[t] # NoAddress /\ Contains(e, ParseIP[t]))
              <=> \E e \in list : e.kind = "cidr" /\ Covers(e, t)
        BY <2>1 DEF Covers
    <2>3. Normal(t) \in allow.exact <=> \E e \in list : e.kind = "name" /\ Covers(e, t)
        <3>1. \A e \in list : e.kind = "name" => (Covers(e, t) <=> Normal(e.text) = Normal(t))
            BY EntryForms, SameNodeIsNormal DEF Covers
        <3> QED
            BY <2>1, <3>1
    <2>4. \A e \in list : Covers(e, t) => e.kind \in {"name", "cidr"}
        BY DEF Covers
    <2> HIDE DEF allow
    <2>5. CheckNode(allow, t) <=> Listed(list, t)
        BY <1>2, <2>1, <2>2, <2>3, <2>4 DEF CheckNode, Listed
    <2> QED
        BY <2>5 DEF allow
<1> QED
    BY <1>1, <1>2

LEMMA EndpointLists ==
    ASSUME NEW list \in SUBSET Entries, NEW t \in Texts, CanonicalIP(t) # NoAddress
    PROVE  CheckEndpoint(ParseNodeAllowlist(list), t) <=> Listed(list, t)
<1>1. CanonicalIP(t) = ParseIP[t] /\ ParseIP[t] # NoAddress /\ Normal(t) = ParseIP[t]
    BY DEF CanonicalIP, Normal
<1>2. \A allow : CheckEndpoint(allow, t) <=> CheckNode(allow, t)
    BY <1>1 DEF CheckEndpoint, CheckNode
<1> QED
    BY <1>2, AllowlistLists

(* The flags of the safety profile, in the operator's terms. *)
LEMMA FlagsAreOpted ==
    ASSUME env \in Envs, NEW f \in Flags
    PROVE  f \in LoadSafetyProfile(env) <=> Opted(f)
<1>1. PICK F \in SUBSET Flags : env.overrides \in [F -> {"true", "other"}]
    BY ToolGatesAssumption
<1>2. CASE f \in F
    <2>1. Override(env, f) \in {"true", "other"} /\ f \in DOMAIN env.overrides
        BY <1>1, <1>2 DEF Override
    <2> QED
        BY <2>1 DEF LoadSafetyProfile, Opted
<1>3. CASE f \notin F
    <2>1. Override(env, f) = "unset" /\ f \notin DOMAIN env.overrides
        BY <1>1, <1>3 DEF Override
    <2> QED
        BY <2>1 DEF LoadSafetyProfile, Opted
<1> QED
    BY <1>2, <1>3

LEMMA ConfigTyped ==
    ASSUME env \in Envs, cfg = ConfigOf(env)
    PROVE  /\ cfg.readOnly <=> Opted("readOnly")
           /\ cfg.insecure <=> Opted("enableInsecure")
           /\ cfg.allowed = ParseNodeAllowlist(env.allowed)
           /\ cfg.endpoints = IF Opted("enableInsecure") THEN ParseNodeAllowlist(env.insecure)
                              ELSE AnyNode
           /\ cfg.keys = ParseMetaPrivilegedKeys(env.keys)
           /\ cfg.blocklist <=> env.blocked # {}
           /\ env.allowed \in SUBSET Entries /\ env.insecure \in SUBSET Entries
<1>1. /\ "readOnly" \in LoadSafetyProfile(env) <=> Opted("readOnly")
      /\ "enableInsecure" \in LoadSafetyProfile(env) <=> Opted("enableInsecure")
    BY FlagsAreOpted DEF Flags
<1> QED
    BY <1>1, ToolGatesAssumption DEF ConfigOf

-----------------------------------------------------------------------------
(* The guards depend on the state by the configuration alone. *)
LEMMA GatesStay ==
    ASSUME cfg' = cfg
    PROVE  \A r : GatesOf(r)' = GatesOf(r) /\ (Passes(r)' <=> Passes(r))
<1> TAKE r
<1>1. NodeGate(r)' = NodeGate(r) /\ InsecureGates(r)' = InsecureGates(r)
    BY DEF NodeGate, InsecureGates
<1>2. DualGates(r)' = DualGates(r)
    BY <1>1 DEF DualGates, PathGates, PinGate
<1>3. MetaGates(r)' = MetaGates(r) /\ ApplyGates(r)' = ApplyGates(r)
    BY <1>2 DEF MetaGates, ApplyGates
<1>4. GatesOf(r)' = GatesOf(r)
    BY <1>1, <1>2, <1>3
       DEF GatesOf, ServiceActionGates, ResetGates, EtcdGates, ResourceGates, ValidateGates
<1> QED
    BY <1>4 DEF Passes

(* The lines of a call. *)
LEMMA Lines ==
    ASSUME NEW a, NEW b
    PROVE  /\ Append(<<a>>, b) = <<a>> \o <<b>> /\ Append(<<>>, a) = <<a>>
           /\ <<a>> \o <<>> = <<a>> /\ <<>> \o <<>> = <<>>
           /\ Len(<<a>> \o <<b>>) = 2 /\ (<<a>> \o <<b>>)[1] = a /\ (<<a>> \o <<b>>)[2] = b
<1> DEFINE S == {a, b}
<1>1. <<>> \in Seq(S) /\ <<a>> \in Seq(S) /\ <<b>> \in Seq(S) /\ a \in S /\ b \in S
    OBVIOUS
<1>2. Len(<<a>>) = 1 /\ <<a>>[1] = a /\ Len(<<b>>) = 1 /\ <<b>>[1] = b
    OBVIOUS
<1> HIDE DEF S
<1>3. Append(<<a>>, b) = <<a>> \o <<b>> /\ Append(<<>>, a) = <<>> \o <<a>>
    BY <1>1, AppendIsConcat
<1>4. <<>> \o <<a>> = <<a>> /\ <<a>> \o <<>> = <<a>> /\ <<>> \o <<>> = <<>>
    BY <1>1, ConcatEmptySeq
<1>5. /\ Len(<<a>> \o <<b>>) = 2
      /\ \A i \in 1 .. 2 : (<<a>> \o <<b>>)[i] = IF i <= 1 THEN <<a>>[i] ELSE <<b>>[i - 1]
    BY <1>1, <1>2, ConcatProperties
<1> QED
    BY <1>2, <1>3, <1>4, <1>5

(* What the steps of one call leave of another. *)
LEMMA OthersKept ==
    ASSUME IInv, UNCHANGED <<env, cfg, server>>, NEW c \in Calls,
           call'[c] = call[c], log'[c] = log[c],
           executed \subseteq executed', MessagesOf(c)' = MessagesOf(c), ExecutedOf(c)' = ExecutedOf(c)
    PROVE  Begun(c)' /\ Progress(c)' /\ Returned(c)'
<1>1. Begun(c) /\ Progress(c) /\ Returned(c)
    BY DEF IInv
<1>2. \A i : Done(c, i) => Done(c, i)'
    BY DEF Done
<1>3. Begun(c)'
    BY <1>1 DEF Begun, Registered
<1>4. Progress(c)'
    BY <1>1, <1>2, GatesStay DEF Progress, Under
<1>5. Returned(c)'
    BY <1>1, <1>2, GatesStay DEF Returned
<1> QED
    BY <1>3, <1>4, <1>5

(* What has been sent stays sent: a call keeps its request. *)
LEMMA SentStays ==
    ASSUME cfg' = cfg,
           \A c \in Calls : \/ call'[c] = call[c]
                            \/ call[c].pc \notin {"ready", "waiting", "done"}
                            \/ call'[c].req = call[c].req /\ call'[c].pc \in {"ready", "waiting", "done"}
    PROVE  \A c \in Calls : \A n, i : Sent(c, n, i) => Sent(c, n, i)' /\ call'[c].req = call[c].req
BY GatesStay DEF Sent

LEMMA TracedKept ==
    ASSUME IInv, UNCHANGED <<cfg, flight, executed, cert>>,
           \A c \in Calls : \/ call'[c] = call[c]
                            \/ call[c].pc \notin {"ready", "waiting", "done"}
                            \/ call'[c].req = call[c].req /\ call'[c].pc \in {"ready", "waiting", "done"}
    PROVE  Traced'
<1>1. \A m \in flight : m[1] \in Calls
    BY DEF IInv, TypeOK, CallStates
<1>2. \A x \in executed : x.call \in Calls
    BY DEF IInv, TypeOK, CallStates
<1>3. \A m \in flight : Sent(m[1], m[2], m[3])' /\ Verified(call[m[1]].req, m[2])'
    BY <1>1, SentStays DEF IInv, Traced, Verified
<1>4. \A x \in executed :
          /\ Sent(x.call, x.node, x.rpc)' /\ Sent(x.call, x.node, x.rpc)
          /\ call'[x.call].req = call[x.call].req
    BY <1>2, SentStays DEF IInv, Traced
<1> QED
    BY <1>3, <1>4 DEF IInv, Traced

(* A handler returns, with a code that says how. *)
LEMMA ReturnKept ==
    ASSUME IInv, NEW c \in Calls, call[c].pc \notin {"idle", "done"},
           NEW code \in Codes, NEW answer, answer = IF code = "ok" THEN "result" ELSE "error",
           Return(c, code, answer), UNCHANGED <<env, cfg, server, flight, executed, cert>>,
           code = "ok" => \A i \in 0 .. 1 : i < RpcsOf(call[c].req.tool) => Done(c, i),
           code \notin {"ok", "rpc-error"} => MessagesOf(c) = {} /\ ExecutedOf(c) = {},
           code \notin {"ok", "rpc-error", "dial-error"} =>
               \E g \in GatesOf(call[c].req) : g.fails /\ g.code = code
    PROVE  IInv'
<1> DEFINE r == call[c].req
<1>1. /\ TypeOK /\ Begun(c) /\ Progress(c) /\ Traced
      /\ server = "serving" => Starts(env)
    BY DEF IInv
<1>2. /\ call' = [call EXCEPT ![c] = [call[c] EXCEPT !.pc = "done", !.answer = answer]]
      /\ log' = IF r.tool \in Paired THEN [log EXCEPT ![c] = Append(log[c], code)] ELSE log
    BY DEF Return, Line
<1>3. /\ call'[c].pc = "done" /\ call'[c].req = r /\ call'[c].answer = answer
      /\ call'[c].rpc = call[c].rpc
      /\ \A d \in Calls \ {c} : call'[d] = call[d]
    BY <1>1, <1>2 DEF TypeOK, CallStates
<1>4. /\ log'[c] = IF r.tool \in Paired THEN Append(log[c], code) ELSE log[c]
      /\ \A d \in Calls \ {c} : log'[d] = log[d]
    BY <1>1, <1>2 DEF TypeOK
<1>5. TypeOK'
    <2>1. answer \in {"none", "result", "error"}
        OBVIOUS
    <2>2. call' \in [Calls -> CallStates]
        <3>1. [call[c] EXCEPT !.pc = "done", !.answer = answer] \in CallStates
            <4>1. call[c] \in CallStates
                BY <1>1 DEF TypeOK
            <4> QED
                BY <2>1, <4>1 DEF CallStates
        <3> QED
            BY <1>1, <1>2, <3>1 DEF TypeOK
    <2>3. DOMAIN log' = Calls
        BY <1>1, <1>2 DEF TypeOK
    <2> QED
        BY <1>1, <2>2, <2>3 DEF TypeOK
<1>6. ASSUME NEW d \in Calls \ {c} PROVE Begun(d)' /\ Progress(d)' /\ Returned(d)'
    BY <1>3, <1>4, OthersKept DEF MessagesOf, ExecutedOf
<1>7. \A i : Done(c, i) => Done(c, i)'
    BY <1>3 DEF Done
<1>8. Begun(c)'
    BY <1>1, <1>3 DEF Begun, Registered
<1>9. Progress(c)'
    BY <1>1, <1>3, <1>7 DEF Progress, Under
<1>10. Returned(c)'
    <2>1. log[c] = IF r.tool \in Audited THEN <<"audit">> ELSE <<>>
        BY <1>1 DEF Begun
    <2>2. log'[c] = (IF r.tool \in Audited THEN <<"audit">> ELSE <<>>)
                        \o (IF r.tool \in Paired THEN <<code>> ELSE <<>>)
        <3>1. r.tool \in Paired => r.tool \in Audited
            BY DEF Audited
        <3> QED
            BY <1>4, <2>1, <3>1, Lines
    <2>3. MessagesOf(c)' = MessagesOf(c) /\ ExecutedOf(c)' = ExecutedOf(c)
        BY DEF MessagesOf, ExecutedOf
    <2> QED
        BY <1>3, <1>7, <2>2, <2>3, GatesStay DEF Returned
<1>11. Traced'
    BY <1>3, TracedKept
<1> QED
    BY <1>1, <1>5, <1>6, <1>8, <1>9, <1>10, <1>11 DEF IInv

(* A call that has passed its guards moves on, and may send something.     *)
LEMMA MoveKept ==
    ASSUME IInv, NEW c \in Calls, Under(c) \/ call[c].pc = "checking", Passes(call[c].req),
           NEW pc \in {"dialing", "ready", "waiting"}, NEW rpc \in 0 .. 2,
           call[c].pc \in {"ready", "waiting"} => pc # "dialing",
           call' = [call EXCEPT ![c] = [call[c] EXCEPT !.pc = pc, !.rpc = rpc]],
           \A i \in 0 .. 1 : i < rpc => Done(c, i),
           pc = "waiting" => rpc < RpcsOf(call[c].req.tool),
           UNCHANGED <<env, cfg, server, log, executed, cert>>,
           \/ flight' = flight
           \/ /\ pc = "waiting"
              /\ \A n \in TargetsOf(call[c].req) : Verified(call[c].req, n)
              /\ flight' = flight \cup {<<c, n, rpc>> : n \in TargetsOf(call[c].req)}
    PROVE  IInv'
<1> DEFINE r == call[c].req
<1>1. /\ TypeOK /\ Begun(c) /\ Progress(c) /\ Traced
      /\ server = "serving" => Starts(env)
      /\ r \in Requests
    BY DEF IInv, Begun, Under
<1>2. /\ call'[c].pc = pc /\ call'[c].req = r /\ call'[c].answer = "none" /\ call'[c].rpc = rpc
      /\ \A d \in Calls \ {c} : call'[d] = call[d]
    BY <1>1 DEF TypeOK, CallStates, Progress, Under
<1>3. \A m \in flight' \ flight : /\ m \in Calls \X Nodes \X (0 .. 1)
                                  /\ m[1] = c /\ m[2] \in TargetsOf(r) /\ m[3] = rpc
                                  /\ pc = "waiting" /\ Verified(r, m[2])
    <2> SUFFICES ASSUME NEW n \in TargetsOf(r), pc = "waiting"
                 PROVE  <<c, n, rpc>> \in Calls \X Nodes \X (0 .. 1)
        OBVIOUS
    <2>1. n \in Nodes /\ rpc \in 0 .. 1
        BY <1>1, TargetsAreNodes, RpcsBound
    <2> QED
        BY <2>1
<1>4. TypeOK'
    <2>1. call' \in [Calls -> CallStates]
        <3>1. [call[c] EXCEPT !.pc = pc, !.rpc = rpc] \in CallStates
            BY <1>1 DEF TypeOK, CallStates
        <3> QED
            BY <1>1, <3>1 DEF TypeOK
    <2>2. \A m \in flight' : m \in Calls \X Nodes \X (0 .. 1)
        BY <1>1, <1>3 DEF TypeOK
    <2> QED
        BY <1>1, <2>1, <2>2 DEF TypeOK
<1>5. ASSUME NEW d \in Calls \ {c} PROVE Begun(d)' /\ Progress(d)' /\ Returned(d)'
    BY <1>2, <1>3, OthersKept DEF MessagesOf, ExecutedOf
<1>6. \A i : Done(c, i) => Done(c, i)'
    BY <1>2 DEF Done
<1>7. Begun(c)'
    BY <1>1, <1>2 DEF Begun, Registered, Under
<1>8. Progress(c)'
    BY <1>1, <1>2, <1>6, GatesStay DEF Progress, Under
<1>9. Returned(c)'
    BY <1>2 DEF Returned
<1>10. Traced'
    <2>1. \A d \in Calls : \A n, i : Sent(d, n, i) => Sent(d, n, i)' /\ call'[d].req = call[d].req
        <3>1. call[c].pc \notin {"ready", "waiting", "done"} \/ pc \in {"ready", "waiting"}
            BY DEF Under
        <3> QED
            BY <1>2, <3>1, SentStays
    <2>2. ASSUME NEW m \in flight' PROVE Sent(m[1], m[2], m[3])' /\ Verified(call[m[1]].req, m[2])'
        <3>1. CASE m \in flight
            BY <1>1, <2>1, <3>1 DEF Traced, Verified, TypeOK, CallStates
        <3>2. CASE m \notin flight
            BY <1>2, <1>3, <2>2, <3>2, GatesStay DEF Sent, Verified
        <3> QED
            BY <3>1, <3>2
    <2>3. ASSUME NEW x \in executed
          PROVE  Sent(x.call, x.node, x.rpc) /\ Sent(x.call, x.node, x.rpc)' /\ call'[x.call].req = call[x.call].req
        BY <1>1, <2>1 DEF Traced, TypeOK, CallStates
    <2> QED
        BY <1>1, <2>2, <2>3 DEF Traced
<1> QED
    BY <1>1, <1>4, <1>5, <1>7, <1>8, <1>9, <1>10 DEF IInv

LEMMA EnterKept ==
    ASSUME IInv, NEW c \in Calls, NEW r \in Requests, Enter(c, r)
    PROVE  IInv'
<1>1. /\ TypeOK /\ Begun(c) /\ Progress(c) /\ Traced
      /\ server = "serving" /\ Starts(env) /\ call[c].pc = "idle" /\ Registered(r.tool)
      /\ UNCHANGED <<env, cfg, server, flight, executed, cert>>
      /\ log[c] = <<>> /\ call[c].answer = "none"
    BY DEF IInv, Enter, Progress
<1>2. /\ call' = [call EXCEPT ![c] = [call[c] EXCEPT !.pc = "checking", !.req = r]]
      /\ log' = IF r.tool \in Audited THEN [log EXCEPT ![c] = Append(log[c], "audit")] ELSE log
    BY DEF Enter, Line
<1>3. /\ call'[c].pc = "checking" /\ call'[c].req = r /\ call'[c].answer = "none"
      /\ call'[c].rpc = call[c].rpc
      /\ \A d \in Calls \ {c} : call'[d] = call[d]
    BY <1>1, <1>2 DEF TypeOK, CallStates
<1>4. /\ log'[c] = IF r.tool \in Audited THEN <<"audit">> ELSE <<>>
      /\ \A d \in Calls \ {c} : log'[d] = log[d]
      /\ DOMAIN log' = Calls
    BY <1>1, <1>2, Lines DEF TypeOK
<1>5. TypeOK'
    <2>1. call' \in [Calls -> CallStates]
        <3>1. [call[c] EXCEPT !.pc = "checking", !.req = r] \in CallStates
            BY <1>1 DEF TypeOK, CallStates
        <3> QED
            BY <1>1, <1>2, <3>1 DEF TypeOK
    <2> QED
        BY <1>1, <1>4, <2>1 DEF TypeOK
<1>6. ASSUME NEW d \in Calls \ {c} PROVE Begun(d)' /\ Progress(d)' /\ Returned(d)'
    BY <1>1, <1>3, <1>4, OthersKept DEF MessagesOf, ExecutedOf
<1>7. Begun(c)'
    BY <1>1, <1>3, <1>4 DEF Begun, Registered
<1>8. call[c].rpc = 0
    BY <1>1 DEF Progress
<1>9. Progress(c)'
    BY <1>3, <1>8 DEF Progress, Under
<1>10. Returned(c)'
    BY <1>3 DEF Returned
<1>11. Traced'
    BY <1>1, <1>3, TracedKept
<1> QED
    BY <1>1, <1>5, <1>6, <1>7, <1>9, <1>10, <1>11 DEF IInv

(* A node executes a message, which it was sent. *)
LEMMA ExecuteKept ==
    ASSUME IInv, NEW c \in Calls, NEW n \in Nodes, NEW i \in 0 .. 1, Execute(c, n, i)
    PROVE  IInv'
<1> DEFINE m == <<c, n, i>>
           x == [call |-> c, node |-> n, rpc |-> i, cert |-> cert[n]]
<1>1. /\ m \in flight /\ flight' = flight \ {m} /\ executed' = executed \cup {x}
      /\ UNCHANGED <<env, cfg, server, call, log, cert>>
      /\ TypeOK /\ Traced /\ (server = "serving" => Starts(env))
    BY DEF Execute, IInv
<1>2. Sent(c, n, i) /\ Verified(call[c].req, n)
    BY <1>1 DEF Traced
<1>3. TypeOK'
    <2>1. x \in [call : Calls, node : Nodes, rpc : 0 .. 1, cert : Certs]
        BY <1>1 DEF TypeOK, CallStates
    <2> HIDE DEF x, m
    <2> QED
        BY <1>1, <2>1 DEF TypeOK, CallStates
<1>4. ASSUME NEW d \in Calls \ {c} PROVE Begun(d)' /\ Progress(d)' /\ Returned(d)'
    <2>1. MessagesOf(d)' = MessagesOf(d) /\ ExecutedOf(d)' = ExecutedOf(d)
        BY <1>1 DEF MessagesOf, ExecutedOf
    <2> QED
        BY <1>1, <2>1, OthersKept
<1>5. Begun(c)' /\ Progress(c)' /\ Returned(c)'
    <2>1. Begun(c) /\ Progress(c) /\ Returned(c)
        BY DEF IInv
    <2>2. \A k : Done(c, k) => Done(c, k)'
        BY <1>1 DEF Done
    <2>3. MessagesOf(c) # {}
        <3>1. m[1] = c
            OBVIOUS
        <3> QED
            BY <1>1, <3>1 DEF MessagesOf
    <2> QED
        BY <1>1, <2>1, <2>2, <2>3, GatesStay DEF Begun, Registered, Progress, Under, Returned
<1>6. Traced'
    <2>1. \A d \in Calls : \A k, j : Sent(d, k, j) => Sent(d, k, j)'
        BY <1>1, SentStays
    <2>2. \A e \in flight' : Sent(e[1], e[2], e[3])' /\ Verified(call[e[1]].req, e[2])'
        BY <1>1, <2>1 DEF Traced, Verified, TypeOK, CallStates
    <2>3. Sent(x.call, x.node, x.rpc)' /\ (call[c].req.insecure /\ call[c].req.pin # NoPin => x.cert = call[c].req.pin)
        BY <1>2, <2>1 DEF Verified
    <2>4. \A y \in executed : Sent(y.call, y.node, y.rpc)'
        BY <1>1, <2>1 DEF Traced, TypeOK, CallStates
    <2> HIDE DEF m
    <2> QED
        BY <1>1, <2>2, <2>3, <2>4 DEF Traced
<1> QED
    BY <1>1, <1>3, <1>4, <1>5, <1>6 DEF IInv

(* A node's new certificate comes with the end of its connections. *)
LEMMA CertKept ==
    ASSUME IInv, NEW n \in Nodes, NewCert(n)
    PROVE  IInv'
<1>1. PICK k \in Certs : cert' = [cert EXCEPT ![n] = k]
    BY DEF NewCert
<1>2. /\ flight' = {m \in flight : m[2] # n} /\ UNCHANGED <<env, cfg, server, call, log, executed>>
      /\ TypeOK /\ Traced /\ (server = "serving" => Starts(env))
    BY DEF NewCert, IInv
<1>3. TypeOK'
    BY <1>1, <1>2 DEF TypeOK, CallStates
<1>4. ASSUME NEW c \in Calls PROVE Begun(c)' /\ Progress(c)' /\ Returned(c)'
    <2>1. Begun(c) /\ Progress(c) /\ Returned(c)
        BY DEF IInv
    <2>2. \A i : Done(c, i) => Done(c, i)'
        BY <1>2 DEF Done
    <2>3. MessagesOf(c)' \subseteq MessagesOf(c) /\ ExecutedOf(c)' = ExecutedOf(c)
        BY <1>2 DEF MessagesOf, ExecutedOf
    <2>4. Begun(c)' /\ Progress(c)'
        BY <1>2, <2>1, <2>2, GatesStay DEF Begun, Registered, Progress, Under
    <2>5. Returned(c)'
        BY <1>2, <2>1, <2>2, <2>3, GatesStay DEF Returned
    <2> QED
        BY <2>4, <2>5
<1>5. Traced'
    <2>1. \A d \in Calls : \A o, j : Sent(d, o, j) => Sent(d, o, j)'
        BY <1>2, SentStays
    <2>2. ASSUME NEW m \in flight' PROVE Sent(m[1], m[2], m[3])' /\ Verified(call[m[1]].req, m[2])'
        <3>1. m \in flight /\ m[2] \in Nodes /\ m[2] # n /\ m[1] \in Calls
            BY <1>2 DEF TypeOK, CallStates
        <3>2. cert'[m[2]] = cert[m[2]]
            BY <1>1, <1>2, <3>1 DEF TypeOK, CallStates
        <3> QED
            BY <1>2, <2>1, <3>1, <3>2 DEF Traced, Verified
    <2>3. \A x \in executed : Sent(x.call, x.node, x.rpc)'
        BY <1>2, <2>1 DEF Traced, TypeOK, CallStates
    <2> QED
        BY <1>2, <2>2, <2>3 DEF Traced
<1> QED
    BY <1>2, <1>3, <1>4, <1>5 DEF IInv

LEMMA HandlerKept ==
    ASSUME IInv, NEW c \in Calls, Handler(c) \/ Fail(c)
    PROVE  IInv'
<1>1. TypeOK /\ Begun(c) /\ Progress(c) /\ Traced
    BY DEF IInv
<1>2. CASE Refuse(c)
    <2>1. call[c].pc = "checking" /\ call[c].req \in Requests
        BY <1>1, <1>2 DEF Refuse, Begun
    <2>2. PICK g \in FirstFailing(call[c].req) : Return(c, g.code, "error")
        BY <1>2 DEF Refuse
    <2>3. g \in GatesOf(call[c].req) /\ g.fails /\ g.code \in Refusals
        BY <2>1, GateCodes DEF FirstFailing
    <2>4. MessagesOf(c) = {} /\ ExecutedOf(c) = {}
        BY <1>1, <2>1 DEF MessagesOf, ExecutedOf, Traced, Sent
    <2>5. UNCHANGED <<env, cfg, server, flight, executed, cert>>
        BY <1>2 DEF Refuse
    <2>6. g.code \in Codes /\ g.code # "ok"
        BY <2>3 DEF Refusals
    <2> QED
        BY <2>1, <2>2, <2>3, <2>4, <2>5, <2>6, ReturnKept
<1>3. CASE DialFails(c)
    <2>1. MessagesOf(c) = {} /\ ExecutedOf(c) = {}
        BY <1>1, <1>3 DEF MessagesOf, ExecutedOf, Traced, Sent, DialFails
    <2>2. "dial-error" \in Codes
        BY DEF Codes
    <2> QED
        BY <1>3, <2>1, <2>2, ReturnKept DEF DialFails
<1>4. CASE Succeed(c)
    <2>1. \A i \in 0 .. 1 : i < RpcsOf(call[c].req.tool) => Done(c, i)
        BY <1>1, <1>4 DEF Succeed, Progress
    <2>2. "ok" \in Codes
        BY DEF Codes
    <2> QED
        BY <1>4, <2>1, <2>2, ReturnKept DEF Succeed
<1>5. CASE Fail(c)
    <2>1. "rpc-error" \in Codes
        BY DEF Codes
    <2> QED
        BY <1>5, <2>1, ReturnKept DEF Fail
<1>6. \A pc : call' = [call EXCEPT ![c].pc = pc] =>
                call' = [call EXCEPT ![c] = [call[c] EXCEPT !.pc = pc, !.rpc = call[c].rpc]]
    BY <1>1 DEF TypeOK, CallStates
<1>7. call[c].rpc \in 0 .. 2 /\ (\A i \in 0 .. 1 : i < call[c].rpc => Done(c, i))
    BY <1>1 DEF TypeOK, CallStates, Progress
<1>8. CASE Pass(c)
    <2>1. PICK pc \in {"dialing", "ready"} : Goto(c, pc)
        BY <1>8 DEF Pass
    <2> QED
        BY <1>1, <1>6, <1>7, <1>8, <2>1, MoveKept DEF Pass, Goto, Progress
<1>9. CASE Dial(c)
    <2>1. Under(c) /\ Passes(call[c].req)
        BY <1>1, <1>9 DEF Dial, Under, Progress
    <2> QED
        BY <1>6, <1>7, <1>9, <2>1, MoveKept DEF Dial, Goto
<1>10. CASE Issue(c)
    <2>1. Under(c) /\ Passes(call[c].req)
        BY <1>1, <1>10 DEF Issue, Under, Progress
    <2> QED
        BY <1>6, <1>7, <1>10, <2>1, MoveKept DEF Issue, Goto
<1>11. CASE Answered(c)
    <2>1. /\ Under(c) /\ Passes(call[c].req) /\ call[c].rpc < RpcsOf(call[c].req.tool)
          /\ Done(c, call[c].rpc) /\ UNCHANGED <<env, cfg, server, log, flight, executed, cert>>
        BY <1>1, <1>11 DEF Answered, Under, Progress
    <2>2. call[c].rpc + 1 \in 0 .. 2
        BY <1>7, <2>1, RpcsBound
    <2>3. \A i \in 0 .. 1 : i < call[c].rpc + 1 => Done(c, i)
        <3> TAKE i \in 0 .. 1
        <3>1. i < call[c].rpc + 1 => i < call[c].rpc \/ i = call[c].rpc
            BY <1>7
        <3> QED
            BY <1>7, <2>1, <3>1
    <2>4. call' = [call EXCEPT ![c] = [call[c] EXCEPT !.pc = "ready", !.rpc = call[c].rpc + 1]]
        BY <1>11 DEF Answered
    <2> QED
        BY <2>1, <2>2, <2>3, <2>4, MoveKept
<1> QED
    BY <1>1, <1>2, <1>3, <1>4, <1>5, <1>8, <1>9, <1>10, <1>11 DEF Handler, Progress

LEMMA Step == IInv /\ [Next]_vars => IInv'
<1> SUFFICES ASSUME IInv, [Next]_vars PROVE IInv'
    OBVIOUS
<1>1. ASSUME UNCHANGED <<env, cfg, call, log, flight, executed, cert>>,
             server' = server \/ Start
      PROVE  IInv'
    <2>1. /\ TypeOK /\ Traced /\ (server = "serving" => Starts(env))
          /\ \A c \in Calls : Begun(c) /\ Progress(c) /\ Returned(c)
        BY DEF IInv
    <2>2. TypeOK' /\ (server' = "serving" => Starts(env)) /\ (server = "serving" => server' = "serving")
        BY <1>1, <2>1 DEF TypeOK, Start
    <2>3. Traced'
        BY <1>1, TracedKept
    <2>4. ASSUME NEW c \in Calls PROVE Begun(c)' /\ Progress(c)' /\ Returned(c)'
        <3>1. (\A i : Done(c, i)' <=> Done(c, i)) /\ MessagesOf(c)' = MessagesOf(c) /\ ExecutedOf(c)' = ExecutedOf(c)
            BY <1>1 DEF Done, MessagesOf, ExecutedOf
        <3>2. Begun(c)'
            BY <1>1, <2>1, <2>2 DEF Begun, Registered
        <3>20. Progress(c)'
            <4>1. call' = call /\ log' = log /\ (Under(c)' <=> Under(c))
                BY <1>1 DEF Under
            <4>2. Passes(call[c].req)' <=> Passes(call[c].req)
                BY <1>1, GatesStay
            <4>3. /\ Under(c)' => Passes(call[c].req)'
                  /\ call'[c].pc = "idle" => log'[c] = <<>> /\ call'[c].rpc = 0
                  /\ call'[c].pc # "done" => call'[c].answer = "none"
                  /\ call'[c].pc = "waiting" => call'[c].rpc < RpcsOf(call'[c].req.tool)
                BY <2>1, <4>1, <4>2 DEF Progress
            <4>4. \A i \in 0 .. 1 : i < call'[c].rpc => Done(c, i)'
                BY <2>1, <3>1, <4>1 DEF Progress
            <4> QED
                BY <4>3, <4>4 DEF Progress
        <3>3. Returned(c)'
            <4>1. call' = call /\ log' = log /\ GatesOf(call[c].req)' = GatesOf(call[c].req)
                BY <1>1, GatesStay
            <4>2. CASE call[c].pc # "done"
                BY <4>1, <4>2 DEF Returned
            <4>3. CASE call[c].pc = "done"
                <5> DEFINE r == call[c].req
                <5>1. PICK code \in Codes :
                          /\ log[c] = (IF r.tool \in Audited THEN <<"audit">> ELSE <<>>)
                                          \o (IF r.tool \in Paired THEN <<code>> ELSE <<>>)
                          /\ call[c].answer = IF code = "ok" THEN "result" ELSE "error"
                          /\ code = "ok" => \A i \in 0 .. 1 : i < RpcsOf(r.tool) => Done(c, i)
                          /\ code \notin {"ok", "rpc-error"} => MessagesOf(c) = {} /\ ExecutedOf(c) = {}
                          /\ code \notin {"ok", "rpc-error", "dial-error"} =>
                                \E g \in GatesOf(r) : g.fails /\ g.code = code
                    BY <2>1, <4>3 DEF Returned
                <5>2. /\ code = "ok" => \A i \in 0 .. 1 : i < RpcsOf(r.tool) => Done(c, i)'
                      /\ code \notin {"ok", "rpc-error"} => MessagesOf(c)' = {} /\ ExecutedOf(c)' = {}
                      /\ code \notin {"ok", "rpc-error", "dial-error"} =>
                            \E g \in GatesOf(r)' : g.fails /\ g.code = code
                    BY <3>1, <4>1, <5>1
                <5> QED
                    BY <4>1, <5>1, <5>2 DEF Returned
            <4> QED
                BY <4>2, <4>3
        <3> QED
            BY <3>2, <3>20, <3>3
    <2> QED
        BY <1>1, <2>2, <2>3, <2>4 DEF IInv
<1>2. CASE UNCHANGED vars
    BY <1>1, <1>2 DEF vars
<1>3. CASE Start
    BY <1>1, <1>3 DEF Start
<1> QED
    BY <1>2, <1>3, EnterKept, HandlerKept, ExecuteKept, CertKept DEF Next

(* The initial states, and those that follow, are as IInv says: the        *)
(* variables keep their types, and every message on its way or executed    *)
(* belongs to a call that has passed the guards of its handler.            *)
THEOREM Invariance == Spec => []IInv
<1>1. Init => IInv
    <2> SUFFICES ASSUME Init PROVE IInv
        OBVIOUS
    <2>1. \A c \in Calls : call[c] = Idle /\ log[c] = <<>>
        BY DEF Init
    <2>2. TypeOK
        BY DEF Init, TypeOK, CallStates, Idle
    <2>3. \A c \in Calls : Begun(c) /\ Progress(c) /\ Returned(c)
        BY <2>1 DEF Idle, Begun, Progress, Returned, Under
    <2> QED
        BY <2>2, <2>3 DEF Init, IInv, Traced
<1> QED
    BY <1>1, Step, PTL DEF Spec

-----------------------------------------------------------------------------
(* What the configuration lets pass, the environment allows. *)
LEMMA InsecureIsAllowed ==
    ASSUME TypeOK, Starts(env), NEW r \in Requests, r.insecure, Passes(r)
    PROVE  /\ Opted("enableInsecure") /\ Dialable(r.endpoint)
           /\ \E e \in env.insecure : Covers(e, r.endpoint) /\ Narrow(e)
<1> DEFINE t == r.endpoint
<1>1. /\ cfg.insecure /\ t \in Texts /\ CanonicalIP(t) # NoAddress
      /\ CheckEndpoint(cfg.endpoints, t)
    BY InsecurePasses
<1>2. /\ Opted("enableInsecure") /\ env.insecure \in SUBSET Entries
      /\ cfg.endpoints = ParseNodeAllowlist(env.insecure)
    BY <1>1, ConfigTyped DEF TypeOK, CallStates
<1>3. CheckInsecureAllowlist(env.insecure)
    <2>1. "enableInsecure" \in LoadSafetyProfile(env)
        BY <1>2, FlagsAreOpted DEF Flags, TypeOK, CallStates
    <2> QED
        BY <2>1 DEF Starts
<1>4. Listed(env.insecure, t)
    BY <1>1, <1>2, EndpointLists
<1>5. PICK e \in env.insecure : Covers(e, t)
    BY <1>3, <1>4 DEF Listed, CheckInsecureAllowlist, Usable
<1>6. Narrow(e)
    <2> SUFFICES ASSUME e.kind = "cidr" PROVE e.ones >= HardRefuse[e.fam]
        BY DEF Narrow
    <2>1. e \in Usable(env.insecure)
        BY DEF Usable
    <2>2. ~(e.ones < HardRefuse[e.fam])
        BY <1>3, <2>1 DEF CheckInsecureAllowlist, TooBroad
    <2>3. e.fam \in Families /\ e.ones \in Int
        <3>1. e \in Entries
            BY <1>2
        <3>2. \A f \in Families : Width[f] \in Nat
            BY ServerConfigAssumption
        <3> QED
            BY <3>1, <3>2 DEF Entries, Blank, Malformed, Name, Cidr
    <2> QED
        BY <2>2, <2>3, ServerConfigAssumption
<1>7. Dialable(t)
    BY <1>1, ServerConfigAssumption DEF Dialable, CanonicalIP
<1> QED
    BY <1>2, <1>5, <1>6, <1>7

LEMMA NodesAreAllowed ==
    ASSUME TypeOK, NEW r \in Requests, ~r.insecure, Passes(r)
    PROVE  \A t \in r.nodes : Listed(env.allowed, t)
<1> SUFFICES ASSUME NEW t \in r.nodes PROVE Listed(env.allowed, t)
    OBVIOUS
<1>1. t \in Texts /\ env.allowed \in SUBSET Entries /\ cfg.allowed = ParseNodeAllowlist(env.allowed)
    BY RequestTyped, ConfigTyped DEF TypeOK, CallStates
<1>2. r.tool \notin Nodeless
    BY ToolGatesAssumption
<1>3. CheckNode(cfg.allowed, t)
    BY <1>2, NodesAreGated DEF Passes, NodeGate, Gate
<1> QED
    BY <1>1, <1>3, AllowlistLists

LEMMA ChangesAreConfirmed ==
    ASSUME TypeOK, NEW r \in Requests, Passes(r), Mutates(r)
    PROVE  /\ r.confirm /\ r.tool \in MutatingTools
           /\ r.tool = "meta" => PermittedKey(r.key)
<1>1. CASE r.tool \in {"service_action", "reset"}
    <2> DEFINE g == Gate(2, "refused:confirm-required", ~r.confirm)
    <2>1. GatesOf(r) = ServiceActionGates(r) \/ GatesOf(r) = ResetGates(r)
        BY <1>1, RequestTyped DEF GatesOf, Tools, ReadOnlyTools, MutatingTools, Resource, Static
    <2>2. g \in ServiceActionGates(r) /\ g \in ResetGates(r)
        BY Zenon DEF ServiceActionGates, ResetGates
    <2>3. g.fails <=> ~r.confirm
        BY DEF Gate
    <2> HIDE DEF g
    <2>4. r.confirm
        BY <2>1, <2>2, <2>3 DEF Passes
    <2> QED
        BY <1>1, <2>4 DEF MutatingTools
<1>2. CASE r.tool = "meta"
    <2>1. GatesOf(r) = MetaGates(r)
        BY <1>2, RequestTyped DEF GatesOf, Tools, ReadOnlyTools, MutatingTools, Resource, Static
    <2> DEFINE g == Gate(3, "refused:confirm-required", Mutates(r) /\ ~r.confirm)
               h == Gate(4, "refused:meta-key-not-privileged",
                         Mutates(r) /\ KeyValue(r.key) \notin ReservedMetaKeys \cup cfg.keys)
    <2>2. g \in MetaGates(r) /\ h \in MetaGates(r)
        BY Zenon DEF MetaGates
    <2>3. /\ g.fails <=> Mutates(r) /\ ~r.confirm
          /\ h.fails <=> Mutates(r) /\ KeyValue(r.key) \notin ReservedMetaKeys \cup cfg.keys
        BY DEF Gate
    <2> HIDE DEF g, h
    <2>4. r.confirm /\ KeyValue(r.key) \in ReservedMetaKeys \cup cfg.keys
        BY <2>1, <2>2, <2>3 DEF Passes
    <2>5. PermittedKey(r.key)
        BY <2>4, ConfigTyped DEF TypeOK, CallStates, PermittedKey, ParseMetaPrivilegedKeys
    <2> QED
        BY <1>2, <2>4, <2>5 DEF MutatingTools
<1>3. CASE r.tool = "apply_config"
    <2>1. GatesOf(r) = ApplyGates(r)
        BY <1>3, RequestTyped DEF GatesOf, Tools, ReadOnlyTools, MutatingTools, Resource, Static
    <2> DEFINE g == Gate(IF r.insecure THEN 30 ELSE 4, "refused:confirm-required", ~r.dry /\ ~r.confirm)
    <2>2. g \in ApplyGates(r)
        BY Zenon DEF ApplyGates
    <2>3. g.fails <=> ~r.dry /\ ~r.confirm
        BY DEF Gate
    <2> HIDE DEF g
    <2>4. r.confirm
        BY <1>3, <2>1, <2>2, <2>3 DEF Passes, Mutates
    <2> QED
        BY <1>3, <2>4 DEF MutatingTools
<1> QED
    BY <1>1, <1>2, <1>3 DEF Mutates

LEMMA ApplyIsUnblocked ==
    ASSUME TypeOK, NEW r \in Requests, ~r.insecure, r.tool = "apply_config", Passes(r)
    PROVE  env.blocked = {}
<1> DEFINE g == Gate(2, "refused:args-invalid", ~r.insecure /\ cfg.blocklist)
<1>1. GatesOf(r) = ApplyGates(r)
    BY RequestTyped DEF GatesOf, Tools, ReadOnlyTools, MutatingTools, Resource, Static
<1>2. g \in ApplyGates(r)
    BY Zenon DEF ApplyGates
<1>3. g.fails <=> cfg.blocklist
    BY DEF Gate
<1> HIDE DEF g
<1> QED
    BY <1>1, <1>2, <1>3, ConfigTyped DEF Passes, TypeOK, CallStates

(* No message that a node has executed was unauthorised, in any            *)
(* environment and for any requests.                                       *)
THEOREM NothingUnauthorised == Spec => []Authorised
<1>1. IInv => Authorised
    <2> SUFFICES ASSUME IInv, NEW x \in executed
                 PROVE  LET r == call[x.call].req IN
                        /\ r.tool \in Audited => log[x.call] # <<>> /\ log[x.call][1] = "audit"
                        /\ Mutates(r) => r.confirm /\ ~Opted("readOnly")
                        /\ Mutates(r) /\ r.tool = "meta" => PermittedKey(r.key)
                        /\ r.insecure =>
                              /\ Opted("enableInsecure")
                              /\ Dialable(r.endpoint)
                              /\ \E e \in env.insecure : Covers(e, r.endpoint) /\ Narrow(e)
                              /\ x.node = Target[r.endpoint]
                              /\ r.pin # NoPin => x.cert = r.pin
                        /\ ~r.insecure =>
                              /\ \A t \in r.nodes : Listed(env.allowed, t)
                              /\ x.node \in Default \cup {Target[t] : t \in r.nodes}
                              /\ r.tool = "apply_config" => env.blocked = {}
        BY DEF Authorised
    <2> DEFINE c == x.call
               r == call[c].req
    <2>1. TypeOK /\ c \in Calls /\ Begun(c) /\ Returned(c) /\ Sent(c, x.node, x.rpc)
        BY DEF IInv, TypeOK, CallStates, Traced
    <2>2. /\ server = "serving" /\ Starts(env) /\ r \in Requests /\ Registered(r.tool)
          /\ Passes(r) /\ x.node \in TargetsOf(r)
        BY <2>1 DEF Sent, Begun, IInv
    <2>3. r.tool \in Audited => log[c] # <<>> /\ log[c][1] = "audit"
        <3> SUFFICES ASSUME r.tool \in Audited PROVE log[c] # <<>> /\ log[c][1] = "audit"
            OBVIOUS
        <3>1. CASE call[c].pc # "done"
            <4>1. log[c] = <<"audit">>
                BY <2>1, <3>1 DEF Sent, Begun
            <4> QED
                BY <4>1
        <3>2. CASE call[c].pc = "done"
            <4>1. PICK code \in Codes :
                      log[c] = <<"audit">> \o (IF r.tool \in Paired THEN <<code>> ELSE <<>>)
                BY <2>1, <3>2 DEF Returned
            <4>2. log[c] = <<"audit">> \o <<code>> \/ log[c] = <<"audit">>
                BY <4>1, Lines
            <4> QED
                BY <4>2, Lines
        <3> QED
            BY <3>1, <3>2
    <2>4. Mutates(r) => /\ r.confirm /\ ~Opted("readOnly")
                        /\ r.tool = "meta" => PermittedKey(r.key)
        BY <2>1, <2>2, ChangesAreConfirmed, ConfigTyped DEF Registered, TypeOK, CallStates
    <2>5. r.insecure => /\ Opted("enableInsecure") /\ Dialable(r.endpoint)
                        /\ \E e \in env.insecure : Covers(e, r.endpoint) /\ Narrow(e)
                        /\ x.node = Target[r.endpoint]
                        /\ r.pin # NoPin => x.cert = r.pin
        BY <2>1, <2>2, InsecureIsAllowed DEF TargetsOf, IInv, Traced
    <2>6. ~r.insecure => /\ \A t \in r.nodes : Listed(env.allowed, t)
                         /\ x.node \in Default \cup {Target[t] : t \in r.nodes}
                         /\ r.tool = "apply_config" => env.blocked = {}
        BY <2>1, <2>2, NodesAreAllowed, ApplyIsUnblocked DEF TargetsOf
    <2> QED
        BY <2>3, <2>4, <2>5, <2>6
<1> QED
    BY <1>1, Invariance, PTL

-----------------------------------------------------------------------------
(* A guard that fails is a rule of the environment, or of the tool, that   *)
(* the request breaks.                                                     *)
LEMMA PathGateBreaks ==
    ASSUME TypeOK, NEW r \in Requests, NEW g \in DualGates(r), g.fails
    PROVE  Broken(g.code, r)
<1>1. CASE g \in PinGate(r)
    <2> DEFINE h == Gate(1, "refused:fingerprint-requires-insecure", r.pin # NoPin /\ ~r.insecure)
    <2>1. g = h
        BY <1>1, Zenon DEF PinGate
    <2>2. h.code = "refused:fingerprint-requires-insecure" /\ (h.fails <=> r.pin # NoPin /\ ~r.insecure)
        BY DEF Gate
    <2> HIDE DEF h
    <2> QED
        BY <2>1, <2>2 DEF Broken
<1>2. CASE g \in NodeGate(r) /\ ~r.insecure
    <2>1. PICK t \in r.nodes : ~CheckNode(cfg.allowed, t)
        BY <1>2 DEF NodeGate, Gate
    <2>2. ~Listed(env.allowed, t)
        BY <2>1, AllowlistLists, ConfigTyped, RequestTyped DEF TypeOK, CallStates
    <2>3. g.code = "refused:endpoint-not-in-allowlist"
        BY <1>2 DEF NodeGate, Gate
    <2> QED
        BY <1>2, <2>2, <2>3 DEF Broken
<1>3. CASE g \in InsecureGates(r) /\ r.insecure
    <2> DEFINE given == r.endpoint # NoText
    <2>1. \/ g.code = "refused:enable-insecure-unset" /\ ~cfg.insecure
          \/ g.code = "refused:nodes-and-endpoint-exclusive" /\ r.nodes # {}
          \/ g.code = "refused:endpoint-empty" /\ ~given
          \/ /\ g.code = "refused:endpoint-not-canonical-ip"
             /\ given /\ CanonicalIP(r.endpoint) = NoAddress
          \/ /\ g.code = "refused:endpoint-not-in-allowlist"
             /\ given /\ CanonicalIP(r.endpoint) # NoAddress
             /\ ~CheckEndpoint(cfg.endpoints, r.endpoint)
          \/ g.code = "refused:fingerprint-invalid" /\ r.pin = BadPin
        <3> DEFINE
                h0 == Gate(20, "refused:enable-insecure-unset", ~cfg.insecure)
                h1 == Gate(21, "refused:nodes-and-endpoint-exclusive", r.nodes # {})
                h2 == Gate(22, "refused:endpoint-empty", ~given)
                h3 == Gate(23, "refused:endpoint-not-canonical-ip",
                           given /\ CanonicalIP(r.endpoint) = NoAddress)
                h4 == Gate(24, "refused:endpoint-not-in-allowlist",
                           given /\ CanonicalIP(r.endpoint) # NoAddress
                                 /\ ~CheckEndpoint(cfg.endpoints, r.endpoint))
                h5 == Gate(25, "refused:fingerprint-invalid", r.pin = BadPin)
        <3>1. g = h0 \/ g = h1 \/ g = h2 \/ g = h3 \/ g = h4 \/ g = h5
            BY <1>3, Zenon DEF InsecureGates
        <3>2. /\ h0.code = "refused:enable-insecure-unset" /\ (h0.fails <=> ~cfg.insecure)
              /\ h1.code = "refused:nodes-and-endpoint-exclusive" /\ (h1.fails <=> r.nodes # {})
              /\ h2.code = "refused:endpoint-empty" /\ (h2.fails <=> ~given)
              /\ h3.code = "refused:endpoint-not-canonical-ip"
              /\ h3.fails <=> given /\ CanonicalIP(r.endpoint) = NoAddress
              /\ h4.code = "refused:endpoint-not-in-allowlist"
              /\ h4.fails <=> given /\ CanonicalIP(r.endpoint) # NoAddress
                                    /\ ~CheckEndpoint(cfg.endpoints, r.endpoint)
              /\ h5.code = "refused:fingerprint-invalid" /\ (h5.fails <=> r.pin = BadPin)
            BY DEF Gate
        <3> HIDE DEF h0, h1, h2, h3, h4, h5
        <3> QED
            BY <3>1, <3>2
    <2>2. CanonicalIP(r.endpoint) = NoAddress => ~Dialable(r.endpoint)
        BY ServerConfigAssumption DEF CanonicalIP, Dialable
    <2>3. given /\ CanonicalIP(r.endpoint) # NoAddress /\ ~CheckEndpoint(cfg.endpoints, r.endpoint)
              => ~Listed(env.insecure, r.endpoint)
        <3> SUFFICES ASSUME given, CanonicalIP(r.endpoint) # NoAddress,
                            ~CheckEndpoint(cfg.endpoints, r.endpoint)
                     PROVE  ~Listed(env.insecure, r.endpoint)
            OBVIOUS
        <3>1. r.endpoint \in Texts /\ env.insecure \in SUBSET Entries
            BY RequestTyped, ConfigTyped DEF TypeOK, CallStates
        <3>2. cfg.endpoints # AnyNode
            BY DEF CheckEndpoint, AnyNode
        <3>3. cfg.endpoints = ParseNodeAllowlist(env.insecure)
            BY <3>2, ConfigTyped DEF TypeOK, CallStates
        <3> QED
            BY <3>1, <3>3, EndpointLists
    <2>4. cfg.insecure <=> Opted("enableInsecure")
        BY ConfigTyped DEF TypeOK, CallStates
    <2> QED
        BY <1>3, <2>1, <2>2, <2>3, <2>4 DEF Broken
<1> QED
    BY <1>1, <1>2, <1>3 DEF DualGates, PathGates

LEMMA GateBreaks ==
    ASSUME TypeOK, NEW r \in Requests, r.tool \in Paired, NEW g \in GatesOf(r), g.fails
    PROVE  Broken(g.code, r)
<1>1. CASE g \in DualGates(r)
    BY <1>1, PathGateBreaks
<1>2. CASE r.tool \in {"get", "version"}
    <2>1. GatesOf(r) = DualGates(r)
        BY <1>2, RequestTyped DEF GatesOf, Tools, ReadOnlyTools, MutatingTools, Resource, Static
    <2> QED
        BY <1>1, <2>1
<1>3. CASE r.tool = "meta" /\ g \notin DualGates(r)
    <2> DEFINE
            h1 == Gate(2, "refused:args-invalid", ~KeyParses(r.key) \/ r.action \in {"", "other"})
            h2 == Gate(3, "refused:confirm-required", Mutates(r) /\ ~r.confirm)
            h3 == Gate(4, "refused:meta-key-not-privileged",
                       Mutates(r) /\ KeyValue(r.key) \notin ReservedMetaKeys \cup cfg.keys)
    <2>1. GatesOf(r) = MetaGates(r)
        BY <1>3, RequestTyped DEF GatesOf, Tools, ReadOnlyTools, MutatingTools, Resource, Static
    <2>2. g = h1 \/ g = h2 \/ g = h3
        <3> HIDE <1>1
        <3>1. g \in MetaGates(r)
            BY <2>1
        <3> QED
            BY <1>3, <3>1, Zenon DEF MetaGates
    <2>3. /\ h1.code = "refused:args-invalid"
          /\ h1.fails <=> ~KeyParses(r.key) \/ r.action \in {"", "other"}
          /\ h2.code = "refused:confirm-required" /\ (h2.fails <=> Mutates(r) /\ ~r.confirm)
          /\ h3.code = "refused:meta-key-not-privileged"
          /\ h3.fails <=> Mutates(r) /\ KeyValue(r.key) \notin ReservedMetaKeys \cup cfg.keys
        BY DEF Gate
    <2> HIDE DEF h1, h2, h3
    <2>4. CASE g = h1
        BY <1>3, <2>3, <2>4 DEF Broken
    <2>5. CASE g = h2
        BY <2>3, <2>5 DEF Broken
    <2>6. CASE g = h3
        <3>1. ~PermittedKey(r.key)
            BY <2>3, <2>6, ConfigTyped DEF TypeOK, CallStates, PermittedKey, ParseMetaPrivilegedKeys
        <3> QED
            BY <2>3, <2>6, <3>1 DEF Broken
    <2> QED
        BY <2>2, <2>4, <2>5, <2>6
<1>4. CASE r.tool = "apply_config" /\ g \notin DualGates(r)
    <2> DEFINE
            h1 == Gate(2, "refused:args-invalid", ~r.insecure /\ cfg.blocklist)
            h2 == Gate(3, "refused:args-invalid", ~r.insecure /\ Cardinality(r.nodes) > 1)
            h3 == Gate(IF r.insecure THEN 30 ELSE 4, "refused:confirm-required", ~r.dry /\ ~r.confirm)
            h4 == Gate(31, "refused:args-invalid", ~r.sound)
    <2>1. GatesOf(r) = ApplyGates(r)
        BY <1>4, RequestTyped DEF GatesOf, Tools, ReadOnlyTools, MutatingTools, Resource, Static
    <2>2. g = h1 \/ g = h2 \/ g = h3 \/ g = h4
        <3>1. g \in ApplyGates(r)
            BY <2>1
        <3> QED
            BY <1>4, <3>1, Zenon DEF ApplyGates
    <2>3. /\ h1.code = "refused:args-invalid" /\ (h1.fails <=> ~r.insecure /\ cfg.blocklist)
          /\ h2.code = "refused:args-invalid" /\ (h2.fails <=> ~r.insecure /\ Cardinality(r.nodes) > 1)
          /\ h3.code = "refused:confirm-required" /\ (h3.fails <=> ~r.dry /\ ~r.confirm)
          /\ h4.code = "refused:args-invalid" /\ (h4.fails <=> ~r.sound)
        BY DEF Gate
    <2> HIDE DEF h1, h2, h3, h4
    <2>4. CASE g = h1
        BY <1>4, <2>3, <2>4, ConfigTyped DEF Broken, TypeOK, CallStates
    <2>5. CASE g = h2 \/ g = h4
        BY <1>4, <2>3, <2>5 DEF Broken
    <2>6. CASE g = h3
        BY <1>4, <2>3, <2>6 DEF Broken, Mutates
    <2> QED
        BY <2>2, <2>4, <2>5, <2>6
<1> QED
    BY <1>1, <1>2, <1>3, <1>4 DEF Paired

(* The outcome line of every call that has one says what was done.         *)
THEOREM OutcomesAreHonest == Spec => []OutcomeHonest
<1>1. IInv => OutcomeHonest
    <2> SUFFICES ASSUME IInv, NEW c \in Calls, call[c].pc = "done", call[c].req.tool \in Paired
                 PROVE  LET r == call[c].req
                            line == log[c][2]
                        IN  /\ Len(log[c]) = 2 /\ log[c][1] = "audit"
                            /\ line = "ok" <=> call[c].answer = "result"
                            /\ line = "ok" => \A i \in 0 .. 1 : i < RpcsOf(r.tool) => Done(c, i)
                            /\ line \notin {"ok", "rpc-error"} =>
                                  MessagesOf(c) = {} /\ ExecutedOf(c) = {}
                            /\ line \notin {"ok", "rpc-error", "dial-error"} => Broken(line, r)
        BY DEF OutcomeHonest
    <2> DEFINE r == call[c].req
    <2>1. TypeOK /\ Begun(c) /\ Returned(c) /\ r \in Requests
        BY DEF IInv, Begun
    <2>2. PICK code \in Codes :
              /\ log[c] = (IF r.tool \in Audited THEN <<"audit">> ELSE <<>>)
                              \o (IF r.tool \in Paired THEN <<code>> ELSE <<>>)
              /\ call[c].answer = IF code = "ok" THEN "result" ELSE "error"
              /\ code = "ok" => \A i \in 0 .. 1 : i < RpcsOf(r.tool) => Done(c, i)
              /\ code \notin {"ok", "rpc-error"} => MessagesOf(c) = {} /\ ExecutedOf(c) = {}
              /\ code \notin {"ok", "rpc-error", "dial-error"} =>
                    \E g \in GatesOf(r) : g.fails /\ g.code = code
        BY <2>1 DEF Returned
    <2>3. log[c] = <<"audit">> \o <<code>>
        BY <2>2 DEF Audited
    <2>4. Len(log[c]) = 2 /\ log[c][1] = "audit" /\ log[c][2] = code
        BY <2>3, Lines
    <2>5. code \notin {"ok", "rpc-error", "dial-error"} => Broken(code, r)
        BY <2>1, <2>2, GateBreaks
    <2> QED
        BY <2>2, <2>4, <2>5
<1> QED
    BY <1>1, Invariance, PTL

-----------------------------------------------------------------------------
(* Some guard of the set fails. *)
Fails(gates) == \E g \in gates : g.fails

(* When some guard of each set fails. *)
LEMMA PathFails ==
    ASSUME NEW r
    PROVE  /\ Fails(PinGate(r)) <=> r.pin # NoPin /\ ~r.insecure
           /\ Fails(NodeGate(r)) <=> \E t \in r.nodes : ~CheckNode(cfg.allowed, t)
           /\ Fails(InsecureGates(r)) <=>
                 \/ ~cfg.insecure
                 \/ r.nodes # {}
                 \/ r.endpoint = NoText
                 \/ r.endpoint # NoText /\ CanonicalIP(r.endpoint) = NoAddress
                 \/ r.endpoint # NoText /\ CanonicalIP(r.endpoint) # NoAddress
                        /\ ~CheckEndpoint(cfg.endpoints, r.endpoint)
                 \/ r.pin = BadPin
<1>1. Fails(PinGate(r)) <=> r.pin # NoPin /\ ~r.insecure
    <2> DEFINE h == Gate(1, "refused:fingerprint-requires-insecure", r.pin # NoPin /\ ~r.insecure)
    <2>1. PinGate(r) = {h}
        BY Zenon DEF PinGate
    <2>2. h.fails <=> r.pin # NoPin /\ ~r.insecure
        BY DEF Gate
    <2> HIDE DEF h
    <2> QED
        BY <2>1, <2>2 DEF Fails
<1>2. Fails(NodeGate(r)) <=> \E t \in r.nodes : ~CheckNode(cfg.allowed, t)
    <2> DEFINE h == Gate(20, "refused:endpoint-not-in-allowlist",
                         \E t \in r.nodes : ~CheckNode(cfg.allowed, t))
    <2>1. NodeGate(r) = {h}
        BY Zenon DEF NodeGate
    <2>2. h.fails <=> \E t \in r.nodes : ~CheckNode(cfg.allowed, t)
        BY DEF Gate
    <2> HIDE DEF h
    <2> QED
        BY <2>1, <2>2 DEF Fails
<1>3. Fails(InsecureGates(r)) <=>
          \/ ~cfg.insecure
          \/ r.nodes # {}
          \/ r.endpoint = NoText
          \/ r.endpoint # NoText /\ CanonicalIP(r.endpoint) = NoAddress
          \/ r.endpoint # NoText /\ CanonicalIP(r.endpoint) # NoAddress
                 /\ ~CheckEndpoint(cfg.endpoints, r.endpoint)
          \/ r.pin = BadPin
    <2> DEFINE
            given == r.endpoint # NoText
            h0 == Gate(20, "refused:enable-insecure-unset", ~cfg.insecure)
            h1 == Gate(21, "refused:nodes-and-endpoint-exclusive", r.nodes # {})
            h2 == Gate(22, "refused:endpoint-empty", ~given)
            h3 == Gate(23, "refused:endpoint-not-canonical-ip",
                       given /\ CanonicalIP(r.endpoint) = NoAddress)
            h4 == Gate(24, "refused:endpoint-not-in-allowlist",
                       given /\ CanonicalIP(r.endpoint) # NoAddress
                             /\ ~CheckEndpoint(cfg.endpoints, r.endpoint))
            h5 == Gate(25, "refused:fingerprint-invalid", r.pin = BadPin)
    <2>1. InsecureGates(r) = {h0, h1, h2, h3, h4, h5}
        BY Zenon DEF InsecureGates
    <2>2. /\ h0.fails <=> ~cfg.insecure
          /\ h1.fails <=> r.nodes # {}
          /\ h2.fails <=> ~given
          /\ h3.fails <=> given /\ CanonicalIP(r.endpoint) = NoAddress
          /\ h4.fails <=> given /\ CanonicalIP(r.endpoint) # NoAddress
                                /\ ~CheckEndpoint(cfg.endpoints, r.endpoint)
          /\ h5.fails <=> r.pin = BadPin
        BY DEF Gate
    <2> HIDE DEF h0, h1, h2, h3, h4, h5
    <2> QED
        BY <2>1, <2>2 DEF Fails
<1> QED
    BY <1>1, <1>2, <1>3

LEMMA OwnFails ==
    ASSUME NEW r
    PROVE  /\ Fails(MetaGates(r)) <=>
                 \/ ~KeyParses(r.key) \/ r.action \in {"", "other"}
                 \/ Mutates(r) /\ ~r.confirm
                 \/ Mutates(r) /\ KeyValue(r.key) \notin ReservedMetaKeys \cup cfg.keys
                 \/ Fails(DualGates(r))
           /\ Fails(ApplyGates(r)) <=>
                 \/ ~r.insecure /\ cfg.blocklist
                 \/ ~r.insecure /\ Cardinality(r.nodes) > 1
                 \/ ~r.dry /\ ~r.confirm
                 \/ ~r.sound
                 \/ Fails(DualGates(r))
<1>1. Fails(MetaGates(r)) <=>
          \/ ~KeyParses(r.key) \/ r.action \in {"", "other"}
          \/ Mutates(r) /\ ~r.confirm
          \/ Mutates(r) /\ KeyValue(r.key) \notin ReservedMetaKeys \cup cfg.keys
          \/ Fails(DualGates(r))
    <2> DEFINE
            h1 == Gate(2, "refused:args-invalid", ~KeyParses(r.key) \/ r.action \in {"", "other"})
            h2 == Gate(3, "refused:confirm-required", Mutates(r) /\ ~r.confirm)
            h3 == Gate(4, "refused:meta-key-not-privileged",
                       Mutates(r) /\ KeyValue(r.key) \notin ReservedMetaKeys \cup cfg.keys)
    <2>1. MetaGates(r) = {h1, h2, h3} \cup DualGates(r)
        BY Zenon DEF MetaGates
    <2>2. /\ h1.fails <=> ~KeyParses(r.key) \/ r.action \in {"", "other"}
          /\ h2.fails <=> Mutates(r) /\ ~r.confirm
          /\ h3.fails <=> Mutates(r) /\ KeyValue(r.key) \notin ReservedMetaKeys \cup cfg.keys
        BY DEF Gate
    <2> HIDE DEF h1, h2, h3
    <2> QED
        BY <2>1, <2>2 DEF Fails
<1>2. Fails(ApplyGates(r)) <=>
          \/ ~r.insecure /\ cfg.blocklist
          \/ ~r.insecure /\ Cardinality(r.nodes) > 1
          \/ ~r.dry /\ ~r.confirm
          \/ ~r.sound
          \/ Fails(DualGates(r))
    <2> DEFINE
            h1 == Gate(2, "refused:args-invalid", ~r.insecure /\ cfg.blocklist)
            h2 == Gate(3, "refused:args-invalid", ~r.insecure /\ Cardinality(r.nodes) > 1)
            h3 == Gate(IF r.insecure THEN 30 ELSE 4, "refused:confirm-required", ~r.dry /\ ~r.confirm)
            h4 == Gate(31, "refused:args-invalid", ~r.sound)
    <2>1. ApplyGates(r) = {h1, h2, h3, h4} \cup DualGates(r)
        BY Zenon DEF ApplyGates
    <2>2. /\ h1.fails <=> ~r.insecure /\ cfg.blocklist
          /\ h2.fails <=> ~r.insecure /\ Cardinality(r.nodes) > 1
          /\ h3.fails <=> ~r.dry /\ ~r.confirm
          /\ h4.fails <=> ~r.sound
        BY DEF Gate
    <2> HIDE DEF h1, h2, h3, h4
    <2> QED
        BY <2>1, <2>2 DEF Fails
<1> QED
    BY <1>1, <1>2

LEMMA RespelledFields ==
    ASSUME NEW r \in Requests \cup {NoRequest}, NEW s \in Requests, Respelled(r, s)
    PROVE  /\ r.tool = s.tool /\ r.insecure = s.insecure /\ r.pin = s.pin /\ r.confirm = s.confirm
           /\ r.dry = s.dry /\ r.sound = s.sound /\ r.action = s.action
           /\ r.nodes \subseteq Texts /\ s.nodes \subseteq Texts
           /\ r.endpoint \in Texts \cup {NoText} /\ s.endpoint \in Texts \cup {NoText}
           /\ r.tool \in Tools
<1> DEFINE bare(x) == [x EXCEPT !.nodes = {}, !.endpoint = NoText, !.key = NoRequest.key]
<1>1. bare(r) = bare(s)
    BY DEF Respelled
<1>2. ASSUME NEW x \in Requests \cup {NoRequest}
      PROVE  /\ bare(x).tool = x.tool /\ bare(x).insecure = x.insecure /\ bare(x).pin = x.pin
             /\ bare(x).confirm = x.confirm /\ bare(x).dry = x.dry /\ bare(x).sound = x.sound
             /\ bare(x).action = x.action
             /\ x.nodes \subseteq Texts /\ x.endpoint \in Texts \cup {NoText} /\ x.tool \in Tools
    <2>1. CASE x \in Requests
        <3>1. x \in AllRequests
            BY <2>1, ToolGatesAssumption
        <3> QED
            BY <3>1 DEF AllRequests
    <2>2. CASE x = NoRequest
        BY <2>2 DEF NoRequest, Tools, ReadOnlyTools
    <2> QED
        BY <2>1, <2>2
<1> HIDE DEF bare
<1> QED
    BY <1>1, <1>2

(* The verdict on a request does not depend on how it is spelled, for any  *)
(* allowlists, keys and requests.                                          *)
LEMMA SameVerdict ==
    ASSUME NEW r \in Requests \cup {NoRequest}, NEW s \in Requests, Respelled(r, s)
    PROVE  Passes(r) <=> Passes(s)
<1>1. /\ r.tool = s.tool /\ r.insecure = s.insecure /\ r.pin = s.pin /\ r.confirm = s.confirm
      /\ r.dry = s.dry /\ r.sound = s.sound /\ r.action = s.action /\ r.tool \in Tools
    BY RespelledFields
<1>2. \A t \in Texts, u \in Texts : SameNode(t, u) =>
          /\ ParseIP[t] = ParseIP[u] /\ Normal(t) = Normal(u) /\ CanonicalIP(t) = CanonicalIP(u)
    BY SameNodeIsNormal DEF SameNode, CanonicalIP
<1>3. \A t \in Texts, u \in Texts : \A allow : SameNode(t, u) =>
          /\ CheckNode(allow, t) <=> CheckNode(allow, u)
          /\ CheckEndpoint(allow, t) <=> CheckEndpoint(allow, u)
    BY <1>2 DEF CheckNode, CheckEndpoint
<1>4. (\E t \in r.nodes : ~CheckNode(cfg.allowed, t)) <=> (\E t \in s.nodes : ~CheckNode(cfg.allowed, t))
    BY <1>3, RespelledFields DEF Respelled
<1>5. (r.nodes = {}) <=> (s.nodes = {})
    BY DEF Respelled
<1>6. /\ (r.endpoint = NoText) <=> (s.endpoint = NoText)
      /\ r.endpoint # NoText =>
            /\ CanonicalIP(r.endpoint) = CanonicalIP(s.endpoint)
            /\ CheckEndpoint(cfg.endpoints, r.endpoint) <=> CheckEndpoint(cfg.endpoints, s.endpoint)
    <2>1. r.endpoint \in Texts \cup {NoText} /\ s.endpoint \in Texts \cup {NoText}
        BY RespelledFields
    <2>2. \/ r.endpoint = s.endpoint
          \/ r.endpoint # NoText /\ s.endpoint # NoText /\ SameNode(r.endpoint, s.endpoint)
        BY DEF Respelled
    <2> QED
        BY <1>2, <1>3, <2>1, <2>2
<1>7. (KeyParses(r.key) <=> KeyParses(s.key)) /\ (KeyParses(r.key) => KeyValue(r.key) = KeyValue(s.key))
    BY DEF Respelled
<1>8. Cardinality(r.nodes) = Cardinality(s.nodes)
    BY DEF Respelled
<1>9. Mutates(r) <=> Mutates(s)
    BY <1>1 DEF Mutates
<1>10. /\ Fails(PinGate(r)) <=> Fails(PinGate(s))
       /\ Fails(NodeGate(r)) <=> Fails(NodeGate(s))
       /\ Fails(InsecureGates(r)) <=> Fails(InsecureGates(s))
    BY <1>1, <1>4, <1>5, <1>6, PathFails
<1>11. Fails(DualGates(r)) <=> Fails(DualGates(s))
    BY <1>1, <1>10 DEF DualGates, PathGates, Fails
<1>12. /\ Fails(MetaGates(r)) <=> Fails(MetaGates(s))
       /\ Fails(ApplyGates(r)) <=> Fails(ApplyGates(s))
    BY <1>1, <1>7, <1>8, <1>9, <1>11, OwnFails
<1>13. /\ Fails(ServiceActionGates(r)) <=> Fails(ServiceActionGates(s))
       /\ Fails(ResetGates(r)) <=> Fails(ResetGates(s))
       /\ Fails(EtcdGates(r)) <=> Fails(EtcdGates(s))
       /\ Fails(ResourceGates(r)) <=> Fails(ResourceGates(s))
       /\ Fails(ValidateGates(r)) <=> Fails(ValidateGates(s))
    BY <1>1, <1>5, <1>10
       DEF ServiceActionGates, ResetGates, EtcdGates, ResourceGates, ValidateGates, Fails
<1>14. Fails(GatesOf(r)) <=> Fails(GatesOf(s))
    BY <1>1, <1>10, <1>11, <1>12, <1>13
       DEF GatesOf, Tools, ReadOnlyTools, MutatingTools, Resource, Static
<1> QED
    BY <1>14 DEF Passes, Fails

(* SpellingIrrelevant is an invariant: however the addresses, host names   *)
(* and META key of a request are written, the guards give one verdict.     *)
THEOREM SpellingDoesNotMatter == Spec => []SpellingIrrelevant
<1>1. IInv => SpellingIrrelevant
    BY SameVerdict DEF IInv, TypeOK, CallStates, SpellingIrrelevant
<1> QED
    BY <1>1, Invariance, PTL
=============================================================================
