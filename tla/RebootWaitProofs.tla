-------------------------- MODULE RebootWaitProofs --------------------------
(***************************************************************************)
(* Proofs about RebootWait, for any nodes, argument lists and requests,    *)
(* whatever fails and however often nodes boot.                            *)
(***************************************************************************)
EXTENDS RebootWait, TLAPS

(* The request does not change, and with it nothing that is read off it.     *)
LEMMA SameRequest ==
    ASSUME req' = req
    PROVE  Listed' = Listed /\ Targets' = Targets /\ Admitted' = Admitted
<1>1. Listed' = Listed /\ Targets' = Targets
  BY DEF Listed, Targets
<1> QED BY <1>1 DEF Admitted

(* The invariant holds when the call arrives. *)
LEMMA InitIInv == Init => IInv
<1> SUFFICES ASSUME Init PROVE IInv
  OBVIOUS
<1> USE RebootAssumption DEF Init
<1>1. TypeOK
  <2>1. req \in AllRequests
    OBVIOUS
  <2>2. pre \in [Nodes -> Nat \cup {None}] /\ boots \in [Nodes -> Nat]
    OBVIOUS
  <2> QED BY <2>1, <2>2 DEF TypeOK, WaiterPcs, Results
<1>2. Progress /\ PreKnown /\ Followers
  BY DEF Progress, PreKnown, Followers
<1>3. ReportsTrue /\ AskedInOrder
  BY DEF ReportsTrue, AskedInOrder, Succeeded
<1> QED BY <1>1, <1>2, <1>3 DEF IInv

-----------------------------------------------------------------------------
(* The handler until it asks the nodes: nobody waits, no node has been asked. *)
LEMMA BeforeKeepsIInv ==
    ASSUME IInv, Refuse \/ Admit \/ ReadAll
    PROVE  IInv'
<1> USE DEF IInv
<1>1. /\ UNCHANGED <<req, pre, expired, waiter, result, up, boots, accepted>>
      /\ Listed' = Listed /\ Targets' = Targets /\ Admitted' = Admitted
  BY SameRequest DEF Refuse, Admit, ReadAll, waitVars, nodeVars
<1>2. CASE Refuse
  <2>1. TypeOK'
    BY <1>1, <1>2 DEF Refuse, Answer, TypeOK
  <2>2. Progress' /\ PreKnown'
    BY <1>1, <1>2 DEF Refuse, Answer, Progress, PreKnown
  <2>3. Followers' /\ ReportsTrue' /\ AskedInOrder'
    BY <1>1, <1>2 DEF Refuse, Answer, Followers, ReportsTrue, AskedInOrder
  <2> QED BY <2>1, <2>2, <2>3
<1>3. CASE Admit
  <2>1. TypeOK'
    BY <1>1, <1>3 DEF Admit, TypeOK, Listed
  <2>2. Progress' /\ PreKnown'
    BY <1>1, <1>3 DEF Admit, Progress, PreKnown, Listed
  <2>3. Followers' /\ ReportsTrue' /\ AskedInOrder'
    BY <1>1, <1>3 DEF Admit, Followers, ReportsTrue, AskedInOrder
  <2> QED BY <2>1, <2>2, <2>3
<1>4. CASE ReadAll
  <2>1. TypeOK'
    BY <1>1, <1>4 DEF ReadAll, TypeOK
  <2>2. Progress' /\ PreKnown'
    BY <1>1, <1>4 DEF ReadAll, Progress, PreKnown, Listed
  <2>3. Followers' /\ ReportsTrue' /\ AskedInOrder'
    BY <1>1, <1>4 DEF ReadAll, Followers, ReportsTrue, AskedInOrder
  <2> QED BY <2>1, <2>2, <2>3
<1> QED BY <1>2, <1>3, <1>4

(* Reading one boot ID before the reboot. *)
LEMMA ReadPreKeepsIInv ==
    ASSUME IInv, NEW s \in Slots, ReadPre(s)
    PROVE  IInv'
<1> USE DEF IInv
<1> DEFINE n == req.nodes[s]
<1>1. /\ pc = "reading" /\ s \in toRead
      /\ UNCHANGED <<req, expired, waiter, result, up, boots, accepted>>
      /\ Listed' = Listed /\ Targets' = Targets /\ Admitted' = Admitted
  BY SameRequest DEF ReadPre, waitVars, nodeVars
<1>2. s \in Listed /\ n \in Nodes
  BY <1>1 DEF TypeOK, AllRequests, Lists, Listed
<1>3. \/ /\ pre' = [pre EXCEPT ![n] = boots[n]]
         /\ toRead' = toRead \ {s}
         /\ pc' = pc /\ reply' = reply
      \/ /\ pc' = "answered" /\ reply' = "failed"
         /\ UNCHANGED <<pre, toRead>>
  BY DEF ReadPre, PreFails, Answer
<1>4. TypeOK'
  BY <1>1, <1>2, <1>3 DEF TypeOK
<1>5. Progress'
  BY <1>1, <1>3 DEF Progress
<1>6. PreKnown'
  <2>1. \A m \in Nodes : boots[m] \in Nat /\ boots[m] # None
    BY RebootAssumption DEF TypeOK
  <2>2. \A m \in Nodes : pre'[m] # None => pre'[m] <= boots'[m]
    BY <1>1, <1>2, <1>3, <2>1 DEF PreKnown, TypeOK
  <2>3. pc' = "reading" /\ req.wait =>
            \A t \in Listed \ toRead' : pre'[req.nodes[t]] # None
    <3> SUFFICES ASSUME pc' = "reading", req.wait, NEW t \in Listed, t \notin toRead'
                 PROVE  pre'[req.nodes[t]] # None
      OBVIOUS
    <3>1. pre' = [pre EXCEPT ![n] = boots[n]] /\ toRead' = toRead \ {s}
      BY <1>3
    <3>2. req.nodes[t] \in Nodes /\ pre \in [Nodes -> Nat \cup {None}]
      BY DEF TypeOK, AllRequests, Lists, Listed
    <3>3. CASE req.nodes[t] = n
      BY <1>2, <2>1, <3>1, <3>2, <3>3
    <3>4. CASE req.nodes[t] # n
      <4>1. t \notin toRead
        BY <3>1, <3>4
      <4>2. pre[req.nodes[t]] # None
        BY <1>1, <4>1 DEF PreKnown
      <4> QED BY <3>1, <3>2, <3>4, <4>2
    <3> QED BY <3>3, <3>4
  <2> QED BY <1>1, <1>3, <2>2, <2>3 DEF PreKnown
<1>7. Followers'
  BY <1>1 DEF Followers, Progress
<1>8. ReportsTrue' /\ AskedInOrder'
  BY <1>1, <1>3 DEF ReportsTrue, AskedInOrder, PreKnown, Progress, Followers, Succeeded
<1> QED BY <1>4, <1>5, <1>6, <1>7, <1>8

(* The RPC that reboots. *)
LEMMA IssueKeepsIInv ==
    ASSUME IInv, Issue
    PROVE  IInv'
<1> USE DEF IInv
<1>1. /\ pc = "issuing"
      /\ UNCHANGED <<req, toRead, pre, result, up, boots>>
      /\ Listed' = Listed /\ Targets' = Targets /\ Admitted' = Admitted
  BY SameRequest DEF Issue, waitVars
<1>2. accepted' \in [Nodes -> BOOLEAN]
  BY DEF Issue, TypeOK
<1>3. \/ /\ pc' = "answered" /\ reply' \in {"ok", "failed"}
         /\ reply' = "ok" => ~req.wait
         /\ UNCHANGED <<expired, waiter>>
      \/ /\ pc' = "waiting" /\ req.wait /\ reply' = reply
         /\ waiter' = [s \in Slots |-> IF s \in Followed THEN "probeDown" ELSE "off"]
         /\ expired' \in BOOLEAN
  BY DEF Issue, Answer, waitVars
<1>4. req.wait => \A n \in Targets : pre[n] # None /\ n \in Nodes
  BY <1>1 DEF PreKnown, Targets, Listed, TypeOK, AllRequests, Lists
<1>5. Admitted /\ \A s \in Slots : waiter[s] = "off" /\ result[s] = "none"
  BY <1>1 DEF Progress, Followers
<1>6. TypeOK'
  BY <1>1, <1>2, <1>3 DEF TypeOK, WaiterPcs
<1>7. Progress' /\ PreKnown'
  BY <1>1, <1>3, <1>5 DEF Progress, PreKnown
<1>8. Followers'
  BY <1>1, <1>3, <1>4, <1>5 DEF Followers, Followed
<1>9. ReportsTrue'
  BY <1>1, <1>3, <1>5 DEF ReportsTrue
<1>10. AskedInOrder'
  <2>1. \A n \in Targets : req.wait => pre[n] \in 0 .. boots[n]
    BY <1>4, RebootAssumption DEF PreKnown, TypeOK
  <2> QED BY <1>1, <1>5, <2>1 DEF AskedInOrder
<1> QED BY <1>6, <1>7, <1>8, <1>9, <1>10

-----------------------------------------------------------------------------
(* A goroutine takes a step; the last one reports. *)
LEMMA WaiterKeepsIInv ==
    ASSUME IInv, NEW s \in Slots, Waiter(s)
    PROVE  IInv'
<1> USE DEF IInv
<1>1. /\ UNCHANGED <<pc, req, toRead, pre, reply, expired, up, boots, accepted>>
      /\ Listed' = Listed /\ Targets' = Targets /\ Admitted' = Admitted
      /\ waiter[s] \notin {"off", "done"}
  BY SameRequest DEF Waiter, ProbeDown, ProbeBack, RestDown, RestBack, Verify,
                     Move, Finish, callVars, nodeVars
<1>2. \/ \E to \in WaiterPcs \ {"off", "done"} :
            waiter' = [waiter EXCEPT ![s] = to] /\ result' = result
      \/ \E r \in Results \ {"none"} :
            /\ waiter' = [waiter EXCEPT ![s] = "done"]
            /\ result' = [result EXCEPT ![s] = r]
            /\ r = "rebooted" => boots[req.nodes[s]] # pre[req.nodes[s]]
  BY DEF Waiter, ProbeDown, ProbeBack, RestDown, RestBack, Verify, Move, Finish,
         Changed, WaiterPcs, Results, Succeeded
<1>3. /\ s \in Listed /\ result[s] = "none"
      /\ \A n \in Targets : pre[n] # None
  BY <1>1 DEF Followers
<1>4. /\ req.nodes[s] \in Targets /\ req.nodes[s] \in Nodes
      /\ pre[req.nodes[s]] \in Nat /\ boots[req.nodes[s]] \in Nat
      /\ pre[req.nodes[s]] <= boots[req.nodes[s]]
  <2>1. req.nodes[s] \in Targets /\ req.nodes[s] \in Nodes
    BY <1>3 DEF Targets, Listed, TypeOK, AllRequests, Lists
  <2> QED BY <1>3, <2>1, RebootAssumption DEF TypeOK, PreKnown
<1>5. pc \notin {"idle", "reading", "issuing"}
  BY <1>1 DEF Progress
<1>6. TypeOK'
  BY <1>1, <1>2 DEF TypeOK, WaiterPcs, Results
<1>7. Progress' /\ PreKnown' /\ AskedInOrder'
  BY <1>1, <1>5 DEF Progress, PreKnown, AskedInOrder
<1>8. Followers'
  BY <1>1, <1>2, <1>3 DEF Followers, TypeOK
<1>9. ReportsTrue'
  <2>1. \A t \in Slots : t # s => result'[t] = result[t]
    BY <1>2 DEF TypeOK
  <2>2. result'[s] = "rebooted" => pre[req.nodes[s]] # None /\ pre[req.nodes[s]] < boots[req.nodes[s]]
    BY <1>2, <1>3, <1>4 DEF TypeOK
  <2>3. ~(reply = "ok" /\ req.wait)
    BY <1>3 DEF ReportsTrue, Succeeded
  <2> QED BY <1>1, <2>1, <2>2, <2>3 DEF ReportsTrue
<1> QED BY <1>6, <1>7, <1>8, <1>9

(* The handler answers when every goroutine has reported. *)
LEMMA CollectKeepsIInv == ASSUME IInv, Collect PROVE IInv'
<1> USE DEF IInv
<1>1. /\ pc = "waiting" /\ pc' = "answered" /\ reply' = Verdict
      /\ UNCHANGED <<req, toRead, pre, expired, waiter, result, up, boots, accepted>>
      /\ Listed' = Listed /\ Targets' = Targets /\ Admitted' = Admitted
  BY SameRequest DEF Collect, Answer, waitVars, nodeVars
<1>2. TypeOK' /\ Progress' /\ PreKnown'
  BY <1>1 DEF TypeOK, Progress, PreKnown, Verdict
<1>3. Followers' /\ AskedInOrder'
  BY <1>1 DEF Followers, AskedInOrder
<1>4. ReportsTrue'
  BY <1>1 DEF ReportsTrue, Verdict
<1> QED BY <1>2, <1>3, <1>4

(* The deadline. *)
LEMMA ExpireKeepsIInv == ASSUME IInv, Expire PROVE IInv'
<1> USE DEF IInv
<1>1. /\ UNCHANGED <<callVars, waiter, result, nodeVars>> /\ expired' = TRUE
      /\ Listed' = Listed /\ Targets' = Targets /\ Admitted' = Admitted
  BY SameRequest DEF Expire, callVars
<1> QED BY <1>1 DEF TypeOK, Progress, PreKnown, Followers, ReportsTrue, AskedInOrder,
                    callVars, nodeVars

(* Nodes go down and come back with another boot ID. *)
LEMMA NodeKeepsIInv ==
    ASSUME IInv, NEW n \in Nodes, GoDown(n) \/ ComeBack(n)
    PROVE  IInv'
<1> USE DEF IInv
<1>1. /\ UNCHANGED <<pc, req, toRead, pre, reply, expired, waiter, result>>
      /\ Listed' = Listed /\ Targets' = Targets /\ Admitted' = Admitted
  BY SameRequest DEF GoDown, ComeBack, callVars, waitVars
<1>2. TypeOK'
  <2>1. up' \in [Nodes -> BOOLEAN]
    BY DEF GoDown, ComeBack, TypeOK
  <2>2. accepted' \in [Nodes -> BOOLEAN]
    BY DEF GoDown, ComeBack, TypeOK
  <2>3. boots' \in [Nodes -> Nat]
    <3>1. CASE GoDown(n)
      BY <3>1 DEF GoDown, TypeOK
    <3>2. CASE ComeBack(n)
      <4>1. boots \in [Nodes -> Nat] /\ boots[n] + 1 \in Nat
        BY DEF TypeOK
      <4>2. boots' = [boots EXCEPT ![n] = boots[n] + 1]
        BY <3>2 DEF ComeBack
      <4> QED BY <4>1, <4>2
    <3> QED BY <3>1, <3>2
  <2> QED BY <1>1, <2>1, <2>2, <2>3 DEF TypeOK
<1>3. /\ \A m \in Nodes : boots[m] \in Nat /\ boots'[m] \in Nat /\ boots[m] <= boots'[m]
      /\ \A m \in Nodes : accepted'[m] => accepted[m]
  BY DEF GoDown, ComeBack, TypeOK
<1>4. \A m \in Nodes : pre[m] # None => pre[m] \in Nat
  BY DEF TypeOK
<1>5. Progress' /\ Followers'
  BY <1>1 DEF Progress, Followers
<1>6. PreKnown'
  BY <1>1, <1>3, <1>4 DEF PreKnown
<1>7. ReportsTrue'
  <2>1. \A s \in Slots : result[s] = "rebooted" => req.nodes[s] \in Nodes
    BY DEF Followers, TypeOK, AllRequests, Lists, Listed
  <2> QED BY <1>1, <1>3, <1>4, <2>1 DEF ReportsTrue
<1>8. AskedInOrder'
  <2>1. Targets \subseteq Nodes
    BY DEF TypeOK, AllRequests, Lists, Listed, Targets
  <2> QED BY <1>1, <1>3, <1>4, <2>1 DEF AskedInOrder
<1> QED BY <1>2, <1>5, <1>6, <1>7, <1>8

(* Every step keeps the invariant. *)
LEMMA NextIInv == IInv /\ [Next]_vars => IInv'
<1> SUFFICES ASSUME IInv, [Next]_vars PROVE IInv'
  OBVIOUS
<1>1. CASE Handler
  BY <1>1, BeforeKeepsIInv, ReadPreKeepsIInv, IssueKeepsIInv, CollectKeepsIInv DEF Handler
<1>2. CASE \E s \in Slots : Waiter(s)
  BY <1>2, WaiterKeepsIInv
<1>3. CASE Expire
  BY <1>3, ExpireKeepsIInv
<1>4. CASE \E n \in Nodes : GoDown(n) \/ ComeBack(n)
  BY <1>4, NodeKeepsIInv
<1>5. CASE UNCHANGED vars
  <2>1. UNCHANGED <<pc, req, toRead, pre, reply, expired, waiter, result, up, boots, accepted>>
    BY <1>5 DEF vars, callVars, waitVars, nodeVars
  <2>2. Listed' = Listed /\ Targets' = Targets /\ Admitted' = Admitted
    BY <2>1, SameRequest
  <2> QED BY <2>1, <2>2 DEF IInv, TypeOK, Progress, PreKnown, Followers, ReportsTrue, AskedInOrder
<1> QED BY <1>1, <1>2, <1>3, <1>4, <1>5 DEF Next

(* IInv holds in every reachable state, for any nodes and requests.          *)
THEOREM Invariance == Spec => []IInv
  BY InitIInv, NextIInv, PTL DEF Spec

(* A reboot that is reported took place after the boot ID was read, and an   *)
(* answer of success has a report for every listed node (lifecycle.go:       *)
(* 213-239, 318-335).                                                        *)
THEOREM ReportsAreTrue == Spec => []ReportsTrue
<1>1. IInv => ReportsTrue
  BY DEF IInv
<1> QED BY <1>1, Invariance, PTL

(* No node is asked to reboot by a refused call, nor, with wait, before all  *)
(* boot IDs are known (lifecycle.go:175-187).                                *)
THEOREM NodesAskedInOrder == Spec => []AskedInOrder
<1>1. IInv => AskedInOrder
  BY DEF IInv
<1> QED BY <1>1, Invariance, PTL
=============================================================================
