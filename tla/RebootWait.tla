----------------------------- MODULE RebootWait -----------------------------
(***************************************************************************)
(* internal/tools/lifecycle.go: talos_reboot (HandleReboot, readBootID,    *)
(* waitForNodeReboot): one call that reboots nodes and, with wait, follows *)
(* each of them with a goroutine until it is back or the deadline passes.  *)
(*                                                                         *)
(* A boot ID is the number of times the node has booted.  Time is not      *)
(* counted: the deadline may pass at any moment of the wait, and a probe   *)
(* takes as long as it takes.  A client that cancels the call is the same  *)
(* to the goroutines as the deadline.                                      *)
(***************************************************************************)
EXTENDS Naturals

CONSTANTS
    Nodes,      \* Talos nodes
    Slots,      \* positions of the argument list
    Requests,   \* the calls a client makes
    Blips,      \* an RPC may fail although the node is up
    Crashes,    \* a node may go down for reasons of its own
    MaxBoots,   \* bound: how often a node boots
    None        \* no boot ID

(* A request: the listed nodes (one may be listed twice), whether to wait,  *)
(* the timeout ("spent": parsed, but zero or negative), and whether it is   *)
(* confirmed with a mode that exists.                                       *)
Lists == UNION {[S -> Nodes] : S \in SUBSET Slots}
AllRequests == [nodes : Lists, wait : BOOLEAN,
                timeout : {"bad", "spent", "some"}, sound : BOOLEAN, allowed : BOOLEAN]

ASSUME RebootAssumption ==
    /\ Requests \subseteq AllRequests
    /\ Blips \in BOOLEAN /\ Crashes \in BOOLEAN
    /\ MaxBoots \in Nat
    /\ None \notin Nat

VARIABLES
    pc,         \* HandleReboot
    req,        \* its arguments
    toRead,     \* positions whose boot ID is still to be read
    pre,        \* preBootIDs, by node
    expired,    \* timeoutCtx is done
    waiter,     \* waitForNodeReboot, one for each position
    result,     \* what it sent to outCh
    reply,      \* the answer of the call
    up,         \* the node answers RPCs
    boots,      \* its boot ID
    accepted    \* it has accepted the reboot and not yet gone down

callVars == <<pc, req, toRead, pre, reply>>
waitVars == <<expired, waiter, result>>
nodeVars == <<up, boots, accepted>>
vars == <<callVars, waitVars, nodeVars>>

WaiterPcs == {"off", "probeDown", "restDown", "probeBack", "restBack", "verify", "done"}
Succeeded == {"rebooted", "unverified"}
Results == Succeeded \cup {"none", "notDown", "notBack", "unchanged"}

TypeOK ==
    /\ pc \in {"idle", "reading", "issuing", "waiting", "answered"}
    /\ req \in AllRequests
    /\ toRead \subseteq DOMAIN req.nodes
    /\ pre \in [Nodes -> Nat \cup {None}]
    /\ expired \in BOOLEAN
    /\ waiter \in [Slots -> WaiterPcs]
    /\ result \in [Slots -> Results]
    /\ reply \in {"none", "refused", "failed", "ok"}
    /\ up \in [Nodes -> BOOLEAN]
    /\ boots \in [Nodes -> Nat]
    /\ accepted \in [Nodes -> BOOLEAN]

Init ==
    /\ pc = "idle"
    /\ req \in Requests
    /\ toRead = {}
    /\ pre = [n \in Nodes |-> None]
    /\ expired = FALSE
    /\ waiter = [s \in Slots |-> "off"]
    /\ result = [s \in Slots |-> "none"]
    /\ reply = "none"
    /\ up = [n \in Nodes |-> TRUE]
    /\ boots = [n \in Nodes |-> 0]
    /\ accepted = [n \in Nodes |-> FALSE]

-----------------------------------------------------------------------------
Listed == DOMAIN req.nodes
Targets == {req.nodes[s] : s \in Listed}

(* Confirm, nodes, mode, timeout (only with wait), allowlist. *)
Admitted ==
    /\ req.sound /\ Listed # {}
    /\ req.wait => req.timeout # "bad"
    /\ req.allowed

Answer(r) == pc' = "answered" /\ reply' = r

Refuse ==
    /\ pc = "idle" /\ ~Admitted
    /\ Answer("refused")
    /\ UNCHANGED <<req, toRead, pre, waitVars, nodeVars>>

Admit ==
    /\ pc = "idle" /\ Admitted
    /\ pc' = IF req.wait THEN "reading" ELSE "issuing"
    /\ toRead' = IF req.wait THEN Listed ELSE {}
    /\ UNCHANGED <<req, pre, reply, waitVars, nodeVars>>

CanFail(n) == Blips \/ ~up[n]

(* Mutant: a boot ID that cannot be read is left out. *)
PreFails_Ignored(s) ==
    /\ toRead' = toRead \ {s}
    /\ UNCHANGED <<pc, reply>>
PreFails(s) ==
    /\ Answer("failed")
    /\ UNCHANGED toRead

ReadPre(s) ==
    /\ pc = "reading" /\ s \in toRead
    /\ \/ /\ up[req.nodes[s]]
          /\ pre' = [pre EXCEPT ![req.nodes[s]] = boots[req.nodes[s]]]
          /\ toRead' = toRead \ {s}
          /\ UNCHANGED <<pc, reply>>
       \/ /\ CanFail(req.nodes[s])
          /\ PreFails(s)
          /\ UNCHANGED pre
    /\ UNCHANGED <<req, waitVars, nodeVars>>

ReadAll ==
    /\ pc = "reading" /\ toRead = {}
    /\ pc' = "issuing"
    /\ UNCHANGED <<req, toRead, pre, reply, waitVars, nodeVars>>

(* Mutant: one goroutine for each key of preBootIDs. *)
Followed_ByNode == {CHOOSE s \in Listed : req.nodes[s] = n : n \in Targets}
(* The positions followed by a goroutine. *)
Followed == Listed

(* Reboot goes to all nodes at once; some may accept it and others fail,    *)
(* and the answer may be lost.                                              *)
Issue ==
    /\ pc = "issuing"
    /\ \E A \in SUBSET {n \in Targets : up[n]} :
          /\ accepted' = [n \in Nodes |-> accepted[n] \/ n \in A]
          /\ \/ /\ A = Targets /\ ~req.wait
                /\ Answer("ok")
                /\ UNCHANGED waitVars
             \/ /\ A = Targets /\ req.wait
                /\ pc' = "waiting"
                /\ waiter' = [s \in Slots |-> IF s \in Followed THEN "probeDown" ELSE "off"]
                /\ expired' = (req.timeout = "spent")
                /\ UNCHANGED <<reply, result>>
             \/ /\ A # Targets \/ Blips
                /\ Answer("failed")
                /\ UNCHANGED waitVars
    /\ UNCHANGED <<req, toRead, pre, up, boots>>

-----------------------------------------------------------------------------
Move(s, to) ==
    /\ waiter' = [waiter EXCEPT ![s] = to]
    /\ UNCHANGED <<expired, result, callVars, nodeVars>>

Finish(s, r) ==
    /\ waiter' = [waiter EXCEPT ![s] = "done"]
    /\ result' = [result EXCEPT ![s] = r]
    /\ UNCHANGED <<expired, callVars, nodeVars>>

(* A call under timeoutCtx: GetNodeVersion, or the read of the boot ID. *)
Answers(s) == up[req.nodes[s]] /\ ~expired
Errs(s) == CanFail(req.nodes[s]) \/ expired

(* Phase 1: an error of any kind is taken for the node going down. *)
ProbeDown(s) ==
    /\ waiter[s] = "probeDown"
    /\ \/ Answers(s) /\ Move(s, "restDown")
       \/ Errs(s) /\ Move(s, "probeBack")

(* Phase 2. *)
ProbeBack(s) ==
    /\ waiter[s] = "probeBack"
    /\ \/ Answers(s) /\ Move(s, "verify")
       \/ Errs(s) /\ Move(s, "restBack")

(* The select between two probes: the timer, or the context. *)
RestDown(s) ==
    /\ waiter[s] = "restDown"
    /\ \/ Move(s, "probeDown")
       \/ expired /\ Finish(s, "notDown")

RestBack(s) ==
    /\ waiter[s] = "restBack"
    /\ \/ Move(s, "probeBack")
       \/ expired /\ Finish(s, "notBack")

(* Mutant: the boot IDs are not compared. *)
Changed_Always(n) == TRUE
Changed(n) == boots[n] # pre[n]

(* Phase 3: a boot ID that cannot be read does not fail the wait. *)
Verify(s) ==
    /\ waiter[s] = "verify"
    /\ \/ Answers(s) /\ Finish(s, IF Changed(req.nodes[s]) THEN "rebooted" ELSE "unchanged")
       \/ Errs(s) /\ Finish(s, "unverified")

Waiter(s) == ProbeDown(s) \/ ProbeBack(s) \/ RestDown(s) \/ RestBack(s) \/ Verify(s)

(* Mutant: partial results are a success. *)
Verdict_Any == IF \E s \in Listed : result[s] \in Succeeded THEN "ok" ELSE "failed"
Verdict == IF \A s \in Listed : result[s] \in Succeeded THEN "ok" ELSE "failed"

(* An outcome has been received for every position. *)
Collect ==
    /\ pc = "waiting"
    /\ \A s \in Listed : waiter[s] = "done"
    /\ Answer(Verdict)
    /\ UNCHANGED <<req, toRead, pre, waitVars, nodeVars>>

Expire ==
    /\ pc = "waiting" /\ ~expired
    /\ expired' = TRUE
    /\ UNCHANGED <<waiter, result, callVars, nodeVars>>

-----------------------------------------------------------------------------
GoDown(n) ==
    /\ up[n] /\ boots[n] < MaxBoots
    /\ accepted[n] \/ Crashes
    /\ up' = [up EXCEPT ![n] = FALSE]
    /\ accepted' = [accepted EXCEPT ![n] = FALSE]
    /\ UNCHANGED <<boots, callVars, waitVars>>

ComeBack(n) ==
    /\ ~up[n]
    /\ up' = [up EXCEPT ![n] = TRUE]
    /\ boots' = [boots EXCEPT ![n] = @ + 1]
    /\ UNCHANGED <<accepted, callVars, waitVars>>

Handler == Refuse \/ Admit \/ (\E s \in Slots : ReadPre(s)) \/ ReadAll \/ Issue \/ Collect

Next ==
    \/ Handler
    \/ \E s \in Slots : Waiter(s)
    \/ Expire
    \/ \E n \in Nodes : GoDown(n) \/ ComeBack(n)

Spec == Init /\ [][Next]_vars

(* The goroutines run, RPCs return, and the deadline passes; nodes promise  *)
(* nothing.  A goroutine that finds the context done may draw the timer a   *)
(* few times, not for ever: the select chooses at random.                   *)
Fairness ==
    /\ WF_vars(Handler) /\ WF_vars(Expire)
    /\ \A s \in Slots :
          /\ WF_vars(Waiter(s))
          /\ SF_vars(RestDown(s) /\ waiter'[s] = "done")
          /\ SF_vars(RestBack(s) /\ waiter'[s] = "done")

FairSpec == Spec /\ Fairness

-----------------------------------------------------------------------------
(* A node reported as rebooted has booted since its boot ID was read, and a *)
(* call that is answered with success followed every listed node to such a  *)
(* report, or to one that says the boot ID could not be read (lifecycle.go: *)
(* 213-239, 318-335), also where a node is listed twice.                    *)
ReportsTrue ==
    /\ \A s \in Slots : result[s] = "rebooted" =>
            LET n == req.nodes[s] IN pre[n] # None /\ pre[n] < boots[n]
    /\ reply = "ok" /\ req.wait => \A s \in Listed : result[s] \in Succeeded

(* No node is asked to reboot by a call that is refused, or, with wait,     *)
(* before the boot IDs of all nodes are known (lifecycle.go:175-187).       *)
AskedInOrder ==
    (\E n \in Nodes : accepted[n]) =>
        /\ Admitted
        /\ req.wait => \A n \in Targets : pre[n] \in 0 .. boots[n]

(* Every call is answered, whatever the nodes do: the goroutines end by the *)
(* deadline, and as many outcomes arrive as are waited for (lifecycle.go:   *)
(* 194-228).                                                                *)
EveryCallAnswered == <>(pc = "answered")

-----------------------------------------------------------------------------
(* The inductive invariant. *)

(* Where the handler is, what it has read, and who is at work. *)
Progress ==
    /\ pc \notin {"idle", "answered"} => Admitted
    /\ pc = "idle" \/ (pc = "answered" /\ ~Admitted) =>
            \A n \in Nodes : pre[n] = None
    /\ pc \in {"idle", "reading", "issuing"} => \A s \in Slots : waiter[s] = "off"
    /\ pc = "reading" => req.wait
    /\ pc = "waiting" => req.wait
    /\ pc = "idle" => toRead = {}
    /\ pc # "answered" => reply = "none"

(* What has been read is a boot ID the node had. *)
PreKnown ==
    /\ \A n \in Nodes : pre[n] # None => pre[n] <= boots[n]
    /\ pc \in {"reading", "issuing", "waiting"} /\ req.wait =>
            \A s \in Listed \ toRead : pre[req.nodes[s]] # None
    /\ pc \in {"issuing", "waiting"} => toRead = {}
    /\ pc \in {"idle", "reading", "issuing"} => \A n \in Nodes : ~accepted[n]

(* Only a listed position is followed, and it sends one outcome. *)
Followers ==
    \A s \in Slots :
        /\ waiter[s] # "off" =>
                s \in Listed /\ req.wait /\ \A n \in Targets : pre[n] # None
        /\ waiter[s] = "done" <=> result[s] # "none"

IInv == TypeOK /\ Progress /\ PreKnown /\ Followers /\ ReportsTrue /\ AskedInOrder

-----------------------------------------------------------------------------
(* lifecycle.go:90: with wait the call blocks until all nodes complete the  *)
(* reboot and are back up, verified via boot ID change.                     *)
OkMeansRebooted ==
    reply = "ok" /\ req.wait => \A n \in Targets : boots[n] > pre[n]
=============================================================================
