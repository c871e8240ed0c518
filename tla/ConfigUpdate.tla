---------------------------- MODULE ConfigUpdate ----------------------------
(***************************************************************************)
(* internal/tools/lifecycle.go: talos_patch_config (HandlePatchConfig) and *)
(* talos_apply_config, authenticated (HandleApplyConfig) and on a node in  *)
(* maintenance mode (handleApplyConfigInsecure), called by several clients *)
(* at once, with the per-node mutex of helpers.go (nodePatchMu).           *)
(*                                                                         *)
(* One action is one step of a handler between two points where another    *)
(* can interleave: the guards, the mutex, the fetch of the current         *)
(* configuration, the ApplyConfiguration RPC, its answer.                  *)
(*                                                                         *)
(* A configuration is the set of calls whose change it carries.  A client  *)
(* may cancel its request: the RPC then fails here at once, while the node *)
(* may still be executing it.                                              *)
(*                                                                         *)
(* Left out: apply modes.  Every mode takes effect when the node accepts   *)
(* it; a staged or tried configuration, which the node activates later or  *)
(* takes back, is not told apart.  Progress notifications and log lines.   *)
(***************************************************************************)
CONSTANTS
    Calls,          \* tool calls, each made once
    Nodes,          \* Talos nodes
    Names,          \* node names and addresses in requests
    Default,        \* "<default>": the request names no node
    Target,         \* the node a name reaches
    Canon,          \* CanonicalIP of an endpoint
    AllowedNodes,   \* names TALOS_MCP_ALLOWED_NODES lets through
    InsecureNodes,  \* endpoints TALOS_MCP_INSECURE_ALLOWED_NODES lets through
    EnableInsecure, \* TALOS_MCP_ENABLE_INSECURE
    Blocklist,      \* TALOS_MCP_BLOCKED_CONFIG_PATHS is not empty
    Cancels,        \* clients may cancel a request whose RPC is under way
    NoCall,         \* an unlocked mutex
    Requests        \* the requests clients make

Kinds == {"patch", "apply", "insecure"}

(* dry is resolveDryRun of the argument; blocked says that the patch names a *)
(* blocked path; sound that the request names at most one node and that its  *)
(* mode, patch and file can be parsed and read.                              *)
AllRequests == [kind : Kinds, name : Names \cup {Default},
                dry : BOOLEAN, confirm : BOOLEAN,
                blocked : BOOLEAN, sound : BOOLEAN]

ASSUME ConfigAssumption ==
    /\ Default \notin Names
    /\ Target \in [Names \cup {Default} -> Nodes]
    /\ Canon \in [Names -> Names]
    /\ \A e \in Names : Target[Canon[e]] = Target[e]
    /\ AllowedNodes \subseteq Names
    /\ InsecureNodes \subseteq Names
    /\ NoCall \notin Calls
    /\ Requests \subseteq AllRequests
    /\ EnableInsecure \in BOOLEAN
    /\ Blocklist \in BOOLEAN
    /\ Cancels \in BOOLEAN

(* One name at most of those that WithNodes lets through reaches the node.  *)
(* The code does not see to it: the mutex is keyed by the name as it was    *)
(* written.                                                                 *)
OneName(n) ==
    \A x, y \in AllowedNodes \cup {Default} : Target[x] = n /\ Target[y] = n => x = y
AliasFree == \A n \in Nodes : OneName(n)

VARIABLES
    call,       \* each call: where its handler is, its request, what it fetched
    holder,     \* who holds each per-node mutex
    config,     \* each node's configuration
    phase,      \* each node: "maintenance" (no configuration yet) or "running"
    replaced    \* history: calls whose change was on a node when a full
                \* configuration took its place

vars == <<call, holder, config, phase, replaced>>

NoRequest == [kind |-> "patch", name |-> Default, dry |-> TRUE,
              confirm |-> FALSE, blocked |-> FALSE, sound |-> FALSE]

(* "ok": answered with success.  "refused" and "failed": answered with an  *)
(* error, no effect.  "lost": an effect, answered with an error.  "late":  *)
(* cancelled, its RPC still under way; "landed": that RPC took effect.     *)
Finished == {"refused", "failed", "ok", "lost", "late", "landed"}
Inside == {"fetching", "applying", "replying"}
Pcs == {"idle", "locking"} \cup Inside \cup Finished

(* nodePatchMu's keys: the name as the request gives it, or "insecure:" and *)
(* the canonical endpoint.                                                  *)
Keys == {"node", "insecure"} \X (Names \cup {Default})

TypeOK ==
    /\ call \in [Calls -> [pc : Pcs, req : AllRequests, fetched : SUBSET Calls]]
    /\ holder \in [Keys -> Calls \cup {NoCall}]
    /\ config \in [Nodes -> SUBSET Calls]
    /\ phase \in [Nodes -> {"maintenance", "running"}]
    /\ replaced \subseteq Calls

Init ==
    /\ call = [c \in Calls |-> [pc |-> "idle", req |-> NoRequest, fetched |-> {}]]
    /\ holder = [k \in Keys |-> NoCall]
    /\ config = [n \in Nodes |-> {}]
    /\ phase \in [Nodes -> {"maintenance", "running"}]
    /\ replaced = {}

-----------------------------------------------------------------------------
Kind(c) == call[c].req.kind
NodeOf(c) == Target[call[c].req.name]

(* Mutant: the lock is keyed by the kind of request as well. *)
KeyOf_PerKind(c) == <<IF Kind(c) = "patch" THEN "node" ELSE "insecure", call[c].req.name>>
KeyOf(c) ==
    IF Kind(c) = "insecure" THEN <<"insecure", Canon[call[c].req.name]>>
    ELSE <<"node", call[c].req.name>>

Confirmed(r) == r.dry \/ r.confirm

(* The guards of the three handlers, all before the lock and without effect. *)
Admitted(r) ==
    /\ Confirmed(r)
    /\ r.sound
    /\ \/ /\ r.kind = "patch"
          /\ ~(Blocklist /\ r.blocked)
          /\ r.name \in AllowedNodes \cup {Default}
       \/ /\ r.kind = "apply"
          /\ ~Blocklist
          /\ r.name \in AllowedNodes \cup {Default}
       \/ /\ r.kind = "insecure"
          /\ EnableInsecure
          /\ r.name \in Names /\ Canon[r.name] \in InsecureNodes

Goto(c, pc) == call' = [call EXCEPT ![c].pc = pc]

Refuse(c, r) ==
    /\ call[c].pc = "idle"
    /\ ~Admitted(r)
    /\ Goto(c, "refused")
    /\ UNCHANGED <<holder, config, phase, replaced>>

Admit(c, r) ==
    /\ call[c].pc = "idle"
    /\ Admitted(r)
    /\ call' = [call EXCEPT ![c] = [pc |-> "locking", req |-> r, fetched |-> {}]]
    /\ UNCHANGED <<holder, config, phase, replaced>>

(* Mutant: no mutex around the sequence. *)
Free_Always(c) == TRUE
Free(c) == holder[KeyOf(c)] = NoCall

(* mu.Lock(): it does not watch the request's context. *)
Lock(c) ==
    /\ call[c].pc = "locking"
    /\ Free(c)
    /\ holder' = [holder EXCEPT ![KeyOf(c)] = c]
    /\ Goto(c, IF Kind(c) = "patch" THEN "fetching" ELSE "applying")
    /\ UNCHANGED <<config, phase, replaced>>

(* Mutant: a handler that fails early returns without unlocking. *)
Return_KeepsLock(c, pc) ==
    /\ Goto(c, pc)
    /\ holder' = IF pc = "failed" THEN holder ELSE [holder EXCEPT ![KeyOf(c)] = NoCall]
(* The deferred mu.Unlock() of a handler that returns. *)
Return(c, pc) ==
    /\ Goto(c, pc)
    /\ holder' = [holder EXCEPT ![KeyOf(c)] = NoCall]

(* COSI Get of the active machine configuration. *)
Fetch(c) ==
    /\ call[c].pc = "fetching"
    /\ phase[NodeOf(c)] = "running"
    /\ call' = [call EXCEPT ![c].pc = "applying", ![c].fetched = config[NodeOf(c)]]
    /\ UNCHANGED <<holder, config, phase, replaced>>

(* The Get fails, or its body or the patched configuration cannot be made. *)
FetchFails(c) ==
    /\ call[c].pc = "fetching"
    /\ Return(c, "failed")
    /\ UNCHANGED <<config, phase, replaced>>

-----------------------------------------------------------------------------
(* What the call submits: the fetched configuration with the patch in it,   *)
(* or the file.                                                             *)
Submitted(c) == IF Kind(c) = "patch" THEN call[c].fetched \cup {c} ELSE {c}

(* Mutant: DryRun is not passed on. *)
Writes_Always(c) == TRUE
Writes(c) == ~call[c].req.dry

(* The node executes ApplyConfiguration.  A node in maintenance mode is     *)
(* reached by the insecure client only, and leaves that mode with it.       *)
Effect(c) ==
    /\ phase[NodeOf(c)] = (IF Kind(c) = "insecure" THEN "maintenance" ELSE "running")
    /\ IF Writes(c)
       THEN /\ config' = [config EXCEPT ![NodeOf(c)] = Submitted(c)]
            /\ phase' = [phase EXCEPT ![NodeOf(c)] = "running"]
            /\ replaced' = IF Kind(c) = "patch" THEN replaced
                           ELSE replaced \cup config[NodeOf(c)]
       ELSE UNCHANGED <<config, phase, replaced>>

Apply(c) ==
    /\ call[c].pc = "applying"
    /\ Effect(c)
    /\ Goto(c, "replying")
    /\ UNCHANGED holder

(* The dial or the RPC fails before the node executes it. *)
ApplyFails(c) ==
    /\ call[c].pc = "applying"
    /\ Return(c, "failed")
    /\ UNCHANGED <<config, phase, replaced>>

(* The answer arrives, or is lost. *)
Reply(c) ==
    /\ call[c].pc = "replying"
    /\ \/ Return(c, "ok")
       \/ Return(c, IF Writes(c) THEN "lost" ELSE "failed")
    /\ UNCHANGED <<config, phase, replaced>>

(* The request is cancelled while the RPC is on its way: the handler        *)
(* returns and unlocks.                                                     *)
Cancel(c) ==
    /\ Cancels
    /\ call[c].pc = "applying"
    /\ Writes(c)
    /\ Return(c, "late")
    /\ UNCHANGED <<config, phase, replaced>>

(* The node executes the RPC of a cancelled call after all. *)
Land(c) ==
    /\ call[c].pc = "late"
    /\ Effect(c)
    /\ Goto(c, "landed")
    /\ UNCHANGED holder

-----------------------------------------------------------------------------
Handler(c) ==
    \/ \E r \in Requests : Refuse(c, r) \/ Admit(c, r)
    \/ Lock(c)
    \/ Fetch(c)
    \/ FetchFails(c)
    \/ Apply(c)
    \/ ApplyFails(c)
    \/ Reply(c)
    \/ Cancel(c)

Next == \E c \in Calls : Handler(c) \/ Land(c)

Spec == Init /\ [][Next]_vars

(***************************************************************************)
(* Fairness.  Every RPC returns: gRPC keepalive closes a dead connection   *)
(* (client.go:35).  A sync.Mutex hands itself to a waiter that has waited  *)
(* long enough, so a caller does not wait for ever while others go by.     *)
(***************************************************************************)
RpcReturns(c) ==
    Fetch(c) \/ FetchFails(c) \/ Apply(c) \/ ApplyFails(c) \/ Reply(c) \/ Cancel(c)

Fairness == \A c \in Calls : WF_vars(RpcReturns(c)) /\ SF_vars(Lock(c))

FairSpec == Spec /\ Fairness

-----------------------------------------------------------------------------
(* A change leaves a node's configuration only when a full configuration   *)
(* replaces it.  The exceptions are a node on which a cancelled call took  *)
(* effect after its handler had given up the lock (lifecycle.go:552-556),  *)
(* and one that has two names, which are two locks (lifecycle.go:559).     *)
CancelledOn(n) == \E d \in Calls : call[d].pc = "landed" /\ NodeOf(d) = n

UpdatesKept ==
    [][\A n \in Nodes :
          \/ config[n] \subseteq config'[n]
          \/ \E c \in Calls : c \in config'[n] \ config[n] /\ Kind(c) # "patch"
          \/ CancelledOn(n)'
          \/ ~OneName(n)
      ]_vars

(* A node carries only changes that were confirmed, meant for that node,   *)
(* let through by the allowlist of their path, and, where paths are        *)
(* blocked, do not touch them unless they bootstrapped the node.           *)
OnlyAuthorised ==
    \A n \in Nodes : \A c \in config[n] :
        LET r == call[c].req IN
        /\ ~r.dry /\ r.confirm
        /\ Target[r.name] = n
        /\ \/ r.kind = "insecure" /\ Canon[r.name] \in InsecureNodes
           \/ /\ r.kind # "insecure"
              /\ r.name \in AllowedNodes \cup {Default}
              /\ Blocklist => r.kind = "patch" /\ ~r.blocked

(* An answer of success means that the change is on the node, or stayed    *)
(* there until a full configuration took its place, or a cancelled call    *)
(* took effect on the node, or the node has another name; an answer of     *)
(* failure before the RPC means that the change is not there.              *)
AnswersTrue ==
    \A c \in Calls :
        /\ call[c].pc = "ok" /\ ~call[c].req.dry =>
             \/ c \in config[NodeOf(c)]
             \/ c \in replaced
             \/ CancelledOn(NodeOf(c))
             \/ ~OneName(NodeOf(c))
        /\ call[c].pc \in {"refused", "failed"} => \A n \in Nodes : c \notin config[n]

(* Whoever waits for a node's lock gets its answer. *)
Answered == \A c \in Calls : call[c].pc = "locking" ~> call[c].pc \in Finished

-----------------------------------------------------------------------------
(* The inductive invariant. *)

(* A call inside the critical section, and no other, holds its key's lock. *)
Locked ==
    \A k \in Keys, c \in Calls :
        holder[k] = c <=> call[c].pc \in Inside /\ KeyOf(c) = k

(* An admitted call passed the guards. *)
AdmittedOnly ==
    \A c \in Calls :
        call[c].pc \notin {"idle", "refused"} => Admitted(call[c].req)

(* What a handler is about to submit was made from the node's present       *)
(* configuration, if the node has one name.                                 *)
BaseIsCurrent ==
    \A c \in Calls :
        call[c].pc = "applying" /\ Kind(c) = "patch" /\ OneName(NodeOf(c)) =>
            \/ call[c].fetched = config[NodeOf(c)]
            \/ CancelledOn(NodeOf(c))

(* A node in maintenance mode has no configuration; nobody fetched from it. *)
Maintenance ==
    /\ \A n \in Nodes : phase[n] = "maintenance" => config[n] = {}
    /\ \A c \in Calls : call[c].pc \in {"applying", "late"} /\ Kind(c) = "patch" =>
            phase[NodeOf(c)] = "running"

(* A configuration carries calls that have taken effect, and a fetched one  *)
(* those of its node.                                                       *)
Effective == {"replying", "ok", "lost", "landed"}
HadEffect(c) == call[c].pc \in Effective /\ ~call[c].req.dry
Provenance ==
    /\ \A n \in Nodes : \A c \in config[n] : HadEffect(c) /\ NodeOf(c) = n
    /\ \A c \in Calls : \A d \in call[c].fetched :
            HadEffect(d) /\ NodeOf(d) = NodeOf(c)
    /\ \A c \in Calls : call[c].pc \in {"late", "landed", "lost"} => Writes(c)

(* A change that took effect on a node with one name is still there, or was *)
(* until a full configuration took its place.                               *)
Kept ==
    \A c \in Calls : HadEffect(c) /\ OneName(NodeOf(c)) =>
        \/ c \in config[NodeOf(c)]
        \/ c \in replaced
        \/ CancelledOn(NodeOf(c))

IInv ==
    /\ TypeOK
    /\ Locked
    /\ AdmittedOnly
    /\ Maintenance
    /\ Provenance
    /\ BaseIsCurrent
    /\ Kept

-----------------------------------------------------------------------------
Service == INSTANCE ConfigService WITH
    spent <- {c \in Calls : HadEffect(c)}

(* The handlers implement the service: concurrent read-modify-write        *)
(* sequences look like changes made one at a time, each at most once.      *)
ServiceSpec == Service!Spec

=============================================================================
