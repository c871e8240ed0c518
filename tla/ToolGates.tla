----------------------------- MODULE ToolGates -----------------------------
(***************************************************************************)
(* From the environment to a node: the server starts or refuses to         *)
(* (cmd/talos-mcp/main.go), registers its tools (internal/tools/           *)
(* register.go), and each call goes through its handler's audit line,      *)
(* guards, dial, RPCs and outcome line (internal/tools/: helpers.go,       *)
(* meta.go, system.go, resources.go, etcd.go, validate.go, lifecycle.go;   *)
(* internal/resources/).                                                   *)
(*                                                                         *)
(* An RPC is a message to each of the nodes it is for; a node executes it  *)
(* some time later, possibly after the call has been given up.  A node in  *)
(* maintenance mode makes itself a new certificate when it restarts.       *)
(*                                                                         *)
(* Left out: what an RPC returns.  The other mutating tools (reboot,       *)
(* upgrade, rollback, patch_config) are modelled in modules of their own,  *)
(* and so is the mutex that apply_config takes before it dials.            *)
(***************************************************************************)
EXTENDS ServerConfig

CONSTANTS
    Calls,      \* tool calls, each made once
    Nodes,      \* Talos nodes
    Target,     \* the node a text reaches
    Default,    \* the nodes of talosconfig, which a request without nodes reaches
    Certs,      \* certificates
    NoPin,      \* cert_fingerprint is not given
    BadPin,     \* cert_fingerprint is no fingerprint
    NoText,     \* endpoint is not given
    Requests,   \* the requests clients make
    Envs        \* the environments the server is started in

(* register.go: the tools of every server, and those of one that may write. *)
ReadOnlyTools ==
    {"resource_definitions", "get", "version", "services", "containers",
     "processes", "etcd", "validate"}
MutatingTools == {"service_action", "reset", "apply_config", "meta"}
(* Not tools: reads of MCP resources, one node's and the cluster's. *)
Resource == "resource"
Static == "static"
Tools == ReadOnlyTools \cup MutatingTools \cup {Resource, Static}

(* Tools that take no nodes. *)
Nodeless == {"resource_definitions", "validate", Static}

(* sound: the arguments not shown here are complete, in range and readable. *)
AllRequests == [tool : Tools, nodes : SUBSET Texts, insecure : BOOLEAN,
                endpoint : Texts \cup {NoText}, pin : Certs \cup {NoPin, BadPin},
                confirm : BOOLEAN, dry : BOOLEAN, sound : BOOLEAN,
                action : {"", "read", "write", "delete", "other"},
                key : [prefix : DOMAIN Base, digits : Seq(0 .. 15)]]

ASSUME ToolGatesAssumption ==
    /\ Target \in [Texts -> Nodes]
    /\ \A s, t \in Texts : Normal(s) = Normal(t) => Target[s] = Target[t]
    /\ Default \subseteq Nodes
    /\ NoText \notin Texts
    /\ NoPin \notin Certs /\ BadPin \notin Certs /\ NoPin # BadPin
    /\ Requests \subseteq AllRequests
    /\ \A r \in Requests :
          /\ r.insecure => r.tool \in {"get", "version", "meta", "apply_config"}
          /\ r.tool = Resource => \E t \in Texts : r.nodes = {t}
          /\ r.tool \in Nodeless => r.nodes = {}
    /\ \A e \in Envs :
          /\ e.profile \in Profiles \cup {"unknown"}
          /\ \E F \in SUBSET Flags : e.overrides \in [F -> {"true", "other"}]
          /\ e.allowed \subseteq Entries /\ e.insecure \subseteq Entries

VARIABLES
    env,        \* the environment of the process
    cfg,        \* the handlers' configuration, once main has made it
    server,     \* "starting", "serving" or "refused"
    call,       \* each call: its place in the handler, its request, its answer
    log,        \* the audit and outcome lines of each call, in order
    flight,     \* messages on their way: call, node, number of the RPC
    executed,   \* messages executed, and the certificate the node then had
    cert        \* each node's certificate

vars == <<env, cfg, server, call, log, flight, executed, cert>>

-----------------------------------------------------------------------------
(* The tools that write an audit line, and those that pair it with one of   *)
(* the outcome.                                                             *)
Paired == {"version", "get", "meta", "apply_config"}
Audited == Paired \cup {"service_action", "reset"}

(* Calls with a deadline of 30 seconds. *)
(* Mutant: the handler of meta sets none. *)
Timed_NotMeta == {"resource_definitions", "get", "version", "services",
                  "containers", "processes", "etcd"}
Timed == {"resource_definitions", "get", "version", "services", "containers",
          "processes", "etcd", "meta"}

(* get and the resource read resolve the kind first. *)
RpcsOf(tool) ==
    IF tool \in {"get", Resource} THEN 2 ELSE IF tool = "validate" THEN 0 ELSE 1

Mutates(r) ==
    \/ r.tool \in {"service_action", "reset"}
    \/ r.tool = "meta" /\ r.action \in {"write", "delete"}
    \/ r.tool = "apply_config" /\ ~r.dry

TargetsOf(r) ==
    IF r.insecure THEN {Target[r.endpoint]}
    ELSE IF r.tool \in Nodeless \/ r.nodes = {} THEN Default
    ELSE {Target[t] : t \in r.nodes}

Registered(tool) == tool \in MutatingTools => ~cfg.readOnly

-----------------------------------------------------------------------------
(* A guard of a handler: its place in the order, the outcome it records,    *)
(* and whether it fails.                                                    *)
Gate(rank, code, fails) == [rank |-> rank, code |-> code, fails |-> fails]

PinGate(r) ==
    {Gate(1, "refused:fingerprint-requires-insecure", r.pin # NoPin /\ ~r.insecure)}

(* WithNodes *)
(* Mutant: one node that is let through is enough. *)
NodeGate_AnyOf(r) ==
    {Gate(20, "refused:endpoint-not-in-allowlist",
          r.nodes # {} /\ \A t \in r.nodes : ~CheckNode(cfg.allowed, t))}
NodeGate(r) ==
    {Gate(20, "refused:endpoint-not-in-allowlist",
          \E t \in r.nodes : ~CheckNode(cfg.allowed, t))}

(* canonicalizeAndCheckInsecure *)
InsecureGates(r) ==
    LET given == r.endpoint # NoText IN
    {Gate(20, "refused:enable-insecure-unset", ~cfg.insecure),
     Gate(21, "refused:nodes-and-endpoint-exclusive", r.nodes # {}),
     Gate(22, "refused:endpoint-empty", ~given),
     Gate(23, "refused:endpoint-not-canonical-ip",
          given /\ CanonicalIP(r.endpoint) = NoAddress),
     Gate(24, "refused:endpoint-not-in-allowlist",
          given /\ CanonicalIP(r.endpoint) # NoAddress
                /\ ~CheckEndpoint(cfg.endpoints, r.endpoint)),
     Gate(25, "refused:fingerprint-invalid", r.pin = BadPin)}

PathGates(r) == IF r.insecure THEN InsecureGates(r) ELSE NodeGate(r)

DualGates(r) == PinGate(r) \cup PathGates(r)

(* Mutant: META keys are not checked for delete. *)
MetaGates_WriteOnly(r) ==
    {Gate(2, "refused:args-invalid", ~KeyParses(r.key) \/ r.action \in {"", "other"}),
     Gate(3, "refused:confirm-required", Mutates(r) /\ ~r.confirm),
     Gate(4, "refused:meta-key-not-privileged",
          r.action = "write" /\ KeyValue(r.key) \notin ReservedMetaKeys \cup cfg.keys)}
    \cup DualGates(r)
MetaGates(r) ==
    {Gate(2, "refused:args-invalid", ~KeyParses(r.key) \/ r.action \in {"", "other"}),
     Gate(3, "refused:confirm-required", Mutates(r) /\ ~r.confirm),
     Gate(4, "refused:meta-key-not-privileged",
          Mutates(r) /\ KeyValue(r.key) \notin ReservedMetaKeys \cup cfg.keys)}
    \cup DualGates(r)

(* With insecure, confirm comes after the endpoint. *)
ApplyGates(r) ==
    {Gate(2, "refused:args-invalid", ~r.insecure /\ cfg.blocklist),
     Gate(3, "refused:args-invalid", ~r.insecure /\ Cardinality(r.nodes) > 1),
     Gate(IF r.insecure THEN 30 ELSE 4, "refused:confirm-required",
          ~r.dry /\ ~r.confirm),
     Gate(31, "refused:args-invalid", ~r.sound)}
    \cup DualGates(r)

ServiceActionGates(r) ==
    {Gate(2, "refused:confirm-required", ~r.confirm),
     Gate(30, "refused:args-invalid", ~r.sound)} \cup NodeGate(r)

ResetGates(r) ==
    {Gate(2, "refused:confirm-required", ~r.confirm),
     Gate(3, "refused:args-invalid", r.nodes = {})} \cup NodeGate(r)

EtcdGates(r) == NodeGate(r) \cup {Gate(30, "refused:args-invalid", ~r.sound)}
ResourceGates(r) == {Gate(2, "refused:args-invalid", ~r.sound)} \cup NodeGate(r)
ValidateGates(r) == {Gate(2, "refused:args-invalid", ~r.sound)}

(* The guards of the call's handler. *)
GatesOf(r) ==
    CASE r.tool \in {"get", "version"} -> DualGates(r)
      [] r.tool \in {"services", "containers", "processes"} -> NodeGate(r)
      [] r.tool = "etcd" -> EtcdGates(r)
      [] r.tool = "meta" -> MetaGates(r)
      [] r.tool = "apply_config" -> ApplyGates(r)
      [] r.tool = "service_action" -> ServiceActionGates(r)
      [] r.tool = "reset" -> ResetGates(r)
      [] r.tool = "validate" -> ValidateGates(r)
      [] r.tool = Resource -> ResourceGates(r)
      [] r.tool \in {"resource_definitions", Static} -> {}

Codes ==
    {"ok", "rpc-error", "dial-error", "refused:enable-insecure-unset",
     "refused:confirm-required", "refused:nodes-and-endpoint-exclusive",
     "refused:fingerprint-requires-insecure", "refused:endpoint-empty",
     "refused:endpoint-not-canonical-ip", "refused:endpoint-not-in-allowlist",
     "refused:fingerprint-invalid", "refused:meta-key-not-privileged",
     "refused:args-invalid"}

Passes(r) == \A g \in GatesOf(r) : ~g.fails
(* The first guard that fails is the one that answers. *)
FirstFailing(r) ==
    {g \in GatesOf(r) : g.fails /\ \A h \in GatesOf(r) : h.fails => g.rank <= h.rank}

-----------------------------------------------------------------------------
NoRequest == [tool |-> "validate", nodes |-> {}, insecure |-> FALSE,
              endpoint |-> NoText, pin |-> NoPin, confirm |-> FALSE,
              dry |-> TRUE, sound |-> FALSE, action |-> "",
              key |-> [prefix |-> "", digits |-> <<>>]]

Idle == [pc |-> "idle", req |-> NoRequest, rpc |-> 0, answer |-> "none"]

Init ==
    /\ env \in Envs
    /\ cfg = ConfigOf(env)
    /\ server = "starting"
    /\ call = [c \in Calls |-> Idle]
    /\ log = [c \in Calls |-> <<>>]
    /\ flight = {}
    /\ executed = {}
    /\ cert \in [Nodes -> Certs]

(* main: until it serves.  The Talos client may fail to be made. *)
Start ==
    /\ server = "starting"
    /\ \/ Starts(env) /\ server' = "serving"
       \/ server' = "refused"
    /\ UNCHANGED <<env, cfg, call, log, flight, executed, cert>>

Line(c, r, code, tools) ==
    log' = IF r.tool \in tools THEN [log EXCEPT ![c] = Append(@, code)] ELSE log

(* The audit line comes before any guard. *)
Enter(c, r) ==
    /\ server = "serving"
    /\ call[c].pc = "idle"
    /\ Registered(r.tool)
    /\ call' = [call EXCEPT ![c] = [@ EXCEPT !.pc = "checking", !.req = r]]
    /\ Line(c, r, "audit", Audited)
    /\ UNCHANGED <<env, cfg, server, flight, executed, cert>>

(* The handler returns: its deferred outcome line, and its answer. *)
Return(c, code, answer) ==
    /\ call' = [call EXCEPT ![c] = [@ EXCEPT !.pc = "done", !.answer = answer]]
    /\ Line(c, call[c].req, code, Paired)

Refuse(c) ==
    /\ call[c].pc = "checking"
    /\ \E g \in FirstFailing(call[c].req) : Return(c, g.code, "error")
    /\ UNCHANGED <<env, cfg, server, flight, executed, cert>>

Goto(c, pc) == call' = [call EXCEPT ![c].pc = pc]

Pass(c) ==
    /\ call[c].pc = "checking"
    /\ Passes(call[c].req)
    /\ Goto(c, IF call[c].req.insecure THEN "dialing" ELSE "ready")
    /\ UNCHANGED <<env, cfg, server, log, flight, executed, cert>>

Dial(c) ==
    /\ call[c].pc = "dialing"
    /\ Goto(c, "ready")
    /\ UNCHANGED <<env, cfg, server, log, flight, executed, cert>>

(* Mutant: the outcome is not set on this way out. *)
DialFails_NoOutcome(c) ==
    /\ call[c].pc = "dialing"
    /\ Return(c, "ok", "error")
    /\ UNCHANGED <<env, cfg, server, flight, executed, cert>>
DialFails(c) ==
    /\ call[c].pc = "dialing"
    /\ Return(c, "dial-error", "error")
    /\ UNCHANGED <<env, cfg, server, flight, executed, cert>>

(* fingerprintVerifier: no handshake with another certificate than the one  *)
(* that is pinned.                                                          *)
(* Mutant: the fingerprint is checked for its form only. *)
Verified_FormOnly(r, n) == TRUE
Verified(r, n) == ~r.insecure \/ r.pin = NoPin \/ cert[n] = r.pin

(* The next RPC goes out. *)
Issue(c) ==
    LET r == call[c].req IN
    /\ call[c].pc = "ready"
    /\ call[c].rpc < RpcsOf(r.tool)
    /\ \A n \in TargetsOf(r) : Verified(r, n)
    /\ flight' = flight \cup {<<c, n, call[c].rpc>> : n \in TargetsOf(r)}
    /\ Goto(c, "waiting")
    /\ UNCHANGED <<env, cfg, server, log, executed, cert>>

Execute(c, n, i) ==
    /\ <<c, n, i>> \in flight
    /\ flight' = flight \ {<<c, n, i>>}
    /\ executed' = executed \cup {[call |-> c, node |-> n, rpc |-> i, cert |-> cert[n]]}
    /\ UNCHANGED <<env, cfg, server, call, log, cert>>

Done(c, i) ==
    \A n \in TargetsOf(call[c].req) :
        \E x \in executed : x.call = c /\ x.node = n /\ x.rpc = i

(* Its answer arrives, from all of them. *)
Answered(c) ==
    /\ call[c].pc = "waiting"
    /\ Done(c, call[c].rpc)
    /\ call' = [call EXCEPT ![c] = [@ EXCEPT !.pc = "ready", !.rpc = call[c].rpc + 1]]
    /\ UNCHANGED <<env, cfg, server, log, flight, executed, cert>>

Succeed(c) ==
    /\ call[c].pc = "ready"
    /\ call[c].rpc = RpcsOf(call[c].req.tool)
    /\ Return(c, "ok", "result")
    /\ UNCHANGED <<env, cfg, server, flight, executed, cert>>

(* The handshake, the RPC or the conversion of what it returned fails, or   *)
(* the deadline passes.                                                     *)
Fail(c) ==
    /\ call[c].pc \in {"ready", "waiting"}
    /\ RpcsOf(call[c].req.tool) > 0
    /\ Return(c, "rpc-error", "error")
    /\ UNCHANGED <<env, cfg, server, flight, executed, cert>>

(* A node restarts in maintenance mode; its connections are gone. *)
NewCert(n) ==
    /\ cert' \in {[cert EXCEPT ![n] = k] : k \in Certs \ {cert[n]}}
    /\ flight' = {m \in flight : m[2] # n}
    /\ UNCHANGED <<env, cfg, server, call, log, executed>>

Handler(c) ==
    \/ Refuse(c)
    \/ Pass(c)
    \/ Dial(c)
    \/ DialFails(c)
    \/ Issue(c)
    \/ Answered(c)
    \/ Succeed(c)

Next ==
    \/ Start
    \/ \E c \in Calls :
          \/ \E r \in Requests : Enter(c, r)
          \/ Handler(c)
          \/ Fail(c)
          \/ \E n \in Nodes, i \in 0 .. 1 : Execute(c, n, i)
    \/ \E n \in Nodes : NewCert(n)

(* The handlers run; a dial has a timeout, and the calls of Timed have a     *)
(* deadline.  No node has to answer, and nobody has to call.                *)
Fairness ==
    \A c \in Calls :
        /\ WF_vars(Handler(c))
        /\ WF_vars(Fail(c) /\ call[c].req.tool \in Timed)

Spec == Init /\ [][Next]_vars
FairSpec == Spec /\ Fairness

-----------------------------------------------------------------------------
(* What the environment says, in the operator's terms. *)

(* The variable of a flag decides; without it, the profile does. *)
Opted(f) ==
    \/ Override(env, f) = "true"
    \/ f \notin DOMAIN env.overrides /\ f \in Preset[env.profile]

(* An entry that covers the text: its address, or a spelling of its name. *)
SameNode(s, t) ==
    \/ ParseIP[s] # NoAddress /\ ParseIP[s] = ParseIP[t]
    \/ ParseIP[s] = NoAddress /\ ParseIP[t] = NoAddress /\ Lower[s] = Lower[t]
Covers(e, t) ==
    \/ e.kind = "name" /\ SameNode(e.text, t)
    \/ e.kind = "cidr" /\ ParseIP[t] # NoAddress /\ Contains(e, ParseIP[t])
Narrow(e) == e.kind = "cidr" => e.ones >= HardRefuse[e.fam]

Listed(list, t) == list = {} \/ \E e \in list : Covers(e, t)
Dialable(t) == ParseIP[t] \in Addresses \ Special

PermittedKey(n) ==
    KeyValue(n) \in ReservedMetaKeys \/ \E k \in env.keys : KeyValue(k) = KeyValue(n)

MessagesOf(c) == {m \in flight : m[1] = c}
ExecutedOf(c) == {x \in executed : x.call = c}

-----------------------------------------------------------------------------
(* The states the module moves between: a request has passed the guards of  *)
(* its handler before anything of it is under way, and a call that has not  *)
(* been made has left no trace.                                             *)
CallStates ==
    [pc : {"idle", "checking", "dialing", "ready", "waiting", "done"},
     req : Requests \cup {NoRequest}, rpc : 0 .. 2, answer : {"none", "result", "error"}]

TypeOK ==
    /\ env \in Envs
    /\ cfg = ConfigOf(env)
    /\ server \in {"starting", "serving", "refused"}
    /\ call \in [Calls -> CallStates]
    /\ DOMAIN log = Calls
    /\ \A m \in flight : m \in Calls \X Nodes \X (0 .. 1)
    /\ \A x \in executed : x \in [call : Calls, node : Nodes, rpc : 0 .. 1, cert : Certs]
    /\ cert \in [Nodes -> Certs]

Under(c) == call[c].pc \in {"dialing", "ready", "waiting"}

Begun(c) ==
    call[c].pc # "idle" =>
        /\ server = "serving"
        /\ call[c].req \in Requests
        /\ Registered(call[c].req.tool)
        /\ call[c].pc # "done" =>
              log[c] = IF call[c].req.tool \in Audited THEN <<"audit">> ELSE <<>>

(* What is under way is what the request asked for, and has passed. *)
Sent(c, n, i) ==
    /\ call[c].pc \in {"ready", "waiting", "done"}
    /\ Passes(call[c].req)
    /\ n \in TargetsOf(call[c].req)
    /\ i < RpcsOf(call[c].req.tool)

Traced ==
    /\ \A m \in flight : Sent(m[1], m[2], m[3]) /\ Verified(call[m[1]].req, m[2])
    /\ \A x \in executed :
          /\ Sent(x.call, x.node, x.rpc)
          /\ LET r == call[x.call].req IN
             r.insecure /\ r.pin # NoPin => x.cert = r.pin

Progress(c) ==
    /\ Under(c) => Passes(call[c].req)
    /\ call[c].pc = "idle" => log[c] = <<>> /\ call[c].rpc = 0
    /\ call[c].pc # "done" => call[c].answer = "none"
    /\ \A i \in 0 .. 1 : i < call[c].rpc => Done(c, i)
    /\ call[c].pc = "waiting" => call[c].rpc < RpcsOf(call[c].req.tool)

(* How a call has ended: a refusal is that of its first failing guard. *)
Returned(c) ==
    LET r == call[c].req IN
    call[c].pc = "done" =>
        \E code \in Codes :
            /\ log[c] = (IF r.tool \in Audited THEN <<"audit">> ELSE <<>>)
                            \o (IF r.tool \in Paired THEN <<code>> ELSE <<>>)
            /\ call[c].answer = IF code = "ok" THEN "result" ELSE "error"
            /\ code = "ok" => \A i \in 0 .. 1 : i < RpcsOf(r.tool) => Done(c, i)
            /\ code \notin {"ok", "rpc-error"} => MessagesOf(c) = {} /\ ExecutedOf(c) = {}
            /\ code \notin {"ok", "rpc-error", "dial-error"} =>
                  \E g \in GatesOf(r) : g.fails /\ g.code = code

IInv ==
    /\ TypeOK
    /\ server = "serving" => Starts(env)
    /\ \A c \in Calls : Begun(c) /\ Progress(c) /\ Returned(c)
    /\ Traced

-----------------------------------------------------------------------------
(* No message a node has executed was unauthorised, whatever the profile,   *)
(* the overrides and the lists: an audit line came first; a change was      *)
(* confirmed, by a server that may write, of a META key that may be         *)
(* written; an insecure message went where an operator who opted in allowed *)
(* it, through an entry whose mask is no shorter than the ceiling of the    *)
(* family it is written in, to the certificate that was pinned; an          *)
(* authenticated one to a node that is listed, or to the default.  What an  *)
(* entry covers is not bounded by the ceiling of its family: a range of all *)
(* IPv4 addresses that is written as IPv6 passes as IPv6, although          *)
(* README.md:73 refuses IPv4 masks below 16.                                *)
Authorised ==
    \A x \in executed :
        LET r == call[x.call].req IN
        /\ r.tool \in Audited => log[x.call] # <<>> /\ log[x.call][1] = "audit"
        /\ Mutates(r) => r.confirm /\ ~Opted("readOnly")
        /\ Mutates(r) /\ r.tool = "meta" => PermittedKey(r.key)
        /\ r.insecure =>
              /\ Opted("enableInsecure")
              /\ Dialable(r.endpoint)
              /\ \E e \in env.insecure : Covers(e, r.endpoint) /\ Narrow(e)
              /\ x.node = Target[r.endpoint]
              /\ r.pin # NoPin => x.cert = r.pin
        /\ ~r.insecure =>
              /\ \A t \in r.nodes : Listed(env.allowed, t)
              /\ x.node \in Default \cup {Target[t] : t \in r.nodes}
              /\ r.tool = "apply_config" => env.blocked = {}

(* The rule of the environment, or of the tool, that an outcome names. *)
Broken(code, r) ==
    \/ code = "refused:enable-insecure-unset" /\ ~Opted("enableInsecure")
    \/ code = "refused:confirm-required" /\ Mutates(r) /\ ~r.confirm
    \/ code = "refused:nodes-and-endpoint-exclusive" /\ r.insecure /\ r.nodes # {}
    \/ code = "refused:fingerprint-requires-insecure" /\ ~r.insecure /\ r.pin # NoPin
    \/ code = "refused:endpoint-empty" /\ r.endpoint = NoText
    \/ code = "refused:endpoint-not-canonical-ip" /\ ~Dialable(r.endpoint)
    \/ /\ code = "refused:endpoint-not-in-allowlist"
       /\ IF r.insecure THEN ~Listed(env.insecure, r.endpoint)
          ELSE \E t \in r.nodes : ~Listed(env.allowed, t)
    \/ code = "refused:fingerprint-invalid" /\ r.pin = BadPin
    \/ code = "refused:meta-key-not-privileged" /\ ~PermittedKey(r.key)
    \/ /\ code = "refused:args-invalid"
       /\ \/ r.tool = "meta" /\ (~KeyParses(r.key) \/ r.action \in {"", "other"})
          \/ r.tool = "apply_config"
             /\ (~r.sound \/ env.blocked # {} \/ Cardinality(r.nodes) > 1)

(* Whoever reads the log can tell what was tried from what was done: a      *)
(* paired tool has written one audit line and then one outcome, which is    *)
(* "ok" just when the caller was given a result and every node executed     *)
(* every RPC; after a refusal, which names a rule that really was broken,   *)
(* and after a failed dial, no node has been or will be sent anything.      *)
OutcomeHonest ==
    \A c \in Calls :
        LET r == call[c].req
            line == log[c][2]
        IN  call[c].pc = "done" /\ r.tool \in Paired =>
                /\ Len(log[c]) = 2 /\ log[c][1] = "audit"
                /\ line = "ok" <=> call[c].answer = "result"
                /\ line = "ok" => \A i \in 0 .. 1 : i < RpcsOf(r.tool) => Done(c, i)
                /\ line \notin {"ok", "rpc-error"} =>
                      MessagesOf(c) = {} /\ ExecutedOf(c) = {}
                /\ line \notin {"ok", "rpc-error", "dial-error"} => Broken(line, r)

(* The verdict on a request does not depend on how it is written: another   *)
(* spelling of the same addresses, host names and META key passes the       *)
(* guards just when the one that was made does.                             *)
Respelled(r, s) ==
    /\ [r EXCEPT !.nodes = {}, !.endpoint = NoText, !.key = NoRequest.key]
          = [s EXCEPT !.nodes = {}, !.endpoint = NoText, !.key = NoRequest.key]
    /\ Cardinality(r.nodes) = Cardinality(s.nodes)
    /\ \A t \in r.nodes : \E u \in s.nodes : SameNode(t, u)
    /\ \A u \in s.nodes : \E t \in r.nodes : SameNode(t, u)
    /\ \/ r.endpoint = s.endpoint
       \/ NoText \notin {r.endpoint, s.endpoint} /\ SameNode(r.endpoint, s.endpoint)
    /\ \/ r.key = s.key
       \/ KeyParses(r.key) /\ KeyParses(s.key) /\ KeyValue(r.key) = KeyValue(s.key)

SpellingIrrelevant ==
    \A c \in Calls, s \in Requests :
        Respelled(call[c].req, s) => (Passes(call[c].req) <=> Passes(s))

(* A call with a deadline returns, though no node ever answers. *)
TimedAnswered ==
    \A c \in Calls :
        call[c].pc = "checking" /\ call[c].req.tool \in ReadOnlyTools \cup {"meta"}
            ~> call[c].pc = "done"
=============================================================================
