------------------------- MODULE ConfigUpdateProofs -------------------------
(***************************************************************************)
(* Proofs about ConfigUpdate, for any calls, nodes, names and settings.    *)
(* That a node has one name is a hypothesis where it is needed, and only   *)
(* about that node.                                                        *)
(***************************************************************************)
EXTENDS ConfigUpdate, TLAPS

(* The invariant holds when the server starts. *)
LEMMA InitIInv == Init => IInv
<1> SUFFICES ASSUME Init PROVE IInv
  OBVIOUS
<1> USE ConfigAssumption DEF Init
<1>1. TypeOK
  BY DEF TypeOK, Pcs, NoRequest, AllRequests, Kinds
<1>2. Locked
  BY DEF Locked, Inside
<1>3. AdmittedOnly /\ Maintenance /\ BaseIsCurrent
  BY DEF AdmittedOnly, Maintenance, BaseIsCurrent
<1>4. Provenance /\ Kept
  BY DEF Provenance, Kept, HadEffect, Effective
<1> QED BY <1>1, <1>2, <1>3, <1>4 DEF IInv

(* What Goto does to a call, and that it does nothing else. *)
LEMMA GotoFacts ==
    ASSUME TypeOK, NEW c \in Calls, NEW pc \in Pcs, Goto(c, pc)
    PROVE  /\ call' \in [Calls -> [pc : Pcs, req : AllRequests, fetched : SUBSET Calls]]
           /\ \A d \in Calls : d # c => call'[d] = call[d]
           /\ call'[c].pc = pc
           /\ \A d \in Calls : call'[d].req = call[d].req /\ call'[d].fetched = call[d].fetched
  BY DEF TypeOK, Goto

(* An admitted call has a key of the table of mutexes. *)
LEMMA KeyOfType ==
    ASSUME TypeOK, NEW c \in Calls, Admitted(call[c].req)
    PROVE  KeyOf(c) \in Keys
  BY ConfigAssumption DEF TypeOK, KeyOf, Kind, Keys, Admitted, AllRequests

(* Two handlers for a node with one name that are not on the insecure path   *)
(* use one key.                                                             *)
LEMMA SameNodeSameKey ==
    ASSUME TypeOK, AdmittedOnly,
           NEW c \in Calls, NEW d \in Calls,
           call[c].pc \notin {"idle", "refused"}, call[d].pc \notin {"idle", "refused"},
           Kind(c) # "insecure", Kind(d) # "insecure", NodeOf(c) = NodeOf(d),
           OneName(NodeOf(c))
    PROVE  KeyOf(c) = KeyOf(d)
<1>1. \A x \in {c, d} : call[x].req.name \in AllowedNodes \cup {Default}
  BY DEF AdmittedOnly, Admitted, Kind
<1>2. call[c].req.name = call[d].req.name
  BY <1>1 DEF OneName, NodeOf
<1> QED BY <1>2 DEF KeyOf

-----------------------------------------------------------------------------
(* The guards: a call that is refused, or goes to the lock. *)
LEMMA BeginKeepsIInv ==
    ASSUME IInv, NEW c \in Calls, NEW r \in Requests, Refuse(c, r) \/ Admit(c, r)
    PROVE  IInv'
<1> USE DEF IInv
<1>1. /\ call[c].pc = "idle"
      /\ call'[c].pc \in {"refused", "locking"}
      /\ call'[c].pc = "locking" => Admitted(call'[c].req)
      /\ \/ call'[c].fetched = {}
         \/ call'[c].req = call[c].req /\ call'[c].fetched = call[c].fetched
      /\ \A d \in Calls : d # c => call'[d] = call[d]
      /\ UNCHANGED <<holder, config, phase, replaced>>
  <2>1. CASE Refuse(c, r)
    BY <2>1, GotoFacts DEF Refuse, Pcs, Finished
  <2>2. CASE Admit(c, r)
    BY <2>2 DEF TypeOK, Admit
  <2> QED BY <2>1, <2>2
<1>2. TypeOK'
  <2>1. CASE Refuse(c, r)
    BY <2>1, <1>1, GotoFacts DEF TypeOK, Refuse, Pcs, Finished
  <2>2. CASE Admit(c, r)
    <3>1. [pc |-> "locking", req |-> r, fetched |-> {}]
             \in [pc : Pcs, req : AllRequests, fetched : SUBSET Calls]
      BY ConfigAssumption DEF Pcs
    <3> QED BY <2>2, <3>1 DEF TypeOK, Admit
  <2> QED BY <2>1, <2>2
<1>3. Locked'
  BY <1>1 DEF Locked, Inside, KeyOf, Kind
<1>4. AdmittedOnly'
  BY <1>1 DEF AdmittedOnly
<1>5. \A d \in Calls : HadEffect(d)' <=> HadEffect(d)
  BY <1>1 DEF HadEffect, Effective
<1>6. \A d \in Calls : HadEffect(d) => NodeOf(d)' = NodeOf(d) /\ Kind(d)' = Kind(d)
  BY <1>1 DEF HadEffect, Effective, NodeOf, Kind
<1>7. \A n \in Nodes : CancelledOn(n) => CancelledOn(n)'
  BY <1>1 DEF CancelledOn, NodeOf
<1>8. Maintenance'
  BY <1>1 DEF Maintenance, Kind, NodeOf
<1>10. Provenance'
  <2>1. \A n \in Nodes : \A d \in config'[n] : HadEffect(d)' /\ NodeOf(d)' = n
    BY <1>1, <1>5, <1>6 DEF Provenance, TypeOK
  <2>2. ASSUME NEW x \in Calls, NEW d \in call'[x].fetched
        PROVE  HadEffect(d)' /\ NodeOf(d)' = NodeOf(x)'
    <3>1. d \in call[x].fetched /\ call'[x].req = call[x].req
      BY <2>2, <1>1
    <3> QED BY <3>1, <1>5, <1>6 DEF Provenance, TypeOK, NodeOf
  <2>3. \A x \in Calls : call'[x].pc \in {"late", "landed", "lost"} => Writes(x)'
    BY <1>1 DEF Provenance, Writes
  <2> QED BY <2>1, <2>2, <2>3 DEF Provenance
<1>11. BaseIsCurrent'
  BY <1>1, <1>7 DEF BaseIsCurrent, Kind, NodeOf, CancelledOn
<1>12. Kept'
  <2> SUFFICES ASSUME NEW d \in Calls, HadEffect(d)', OneName(NodeOf(d)')
               PROVE  \/ d \in config'[NodeOf(d)']
                      \/ d \in replaced'
                      \/ CancelledOn(NodeOf(d))'
    BY DEF Kept
  <2>1. HadEffect(d) /\ NodeOf(d)' = NodeOf(d) /\ NodeOf(d) \in Nodes
    BY <1>5, <1>6, ConfigAssumption DEF NodeOf, TypeOK, AllRequests
  <2> QED BY <1>1, <1>7, <2>1 DEF Kept, CancelledOn
<1> QED BY <1>2, <1>3, <1>4, <1>8, <1>10, <1>11, <1>12
-----------------------------------------------------------------------------
(* A step that moves one call on without touching a node: every conjunct    *)
(* about the nodes carries over, whatever the lock does.                    *)
LEMMA MoveKeepsNodes ==
    ASSUME IInv, NEW c \in Calls, NEW pc \in Pcs, Goto(c, pc), UNCHANGED <<config, phase, replaced>>,
           call[c].pc \in {"locking"} \cup Inside,
           HadEffect(c)' <=> HadEffect(c),
           pc # "landed", pc \in {"late", "lost"} => Writes(c),
           pc \in {"applying", "late"} =>
              Kind(c) # "patch" \/ call[c].pc = "applying"
    PROVE  /\ AdmittedOnly' /\ Maintenance' /\ Provenance'
           /\ BaseIsCurrent'
           /\ Kept'
<1> USE DEF IInv
<1>1. /\ \A d \in Calls : d # c => call'[d] = call[d]
      /\ call'[c].pc = pc
      /\ \A d \in Calls : call'[d].req = call[d].req /\ call'[d].fetched = call[d].fetched
  BY GotoFacts
<1>2. \A d \in Calls : HadEffect(d)' <=> HadEffect(d)
  BY <1>1 DEF HadEffect
<1>3. \A d \in Calls : NodeOf(d)' = NodeOf(d) /\ Kind(d)' = Kind(d) /\ (Writes(d)' <=> Writes(d))
  BY <1>1 DEF NodeOf, Kind, Writes
<1>4. \A n \in Nodes : CancelledOn(n) => CancelledOn(n)'
  BY <1>1, <1>3 DEF CancelledOn, Inside
<1>5. \A d \in Calls : NodeOf(d) \in Nodes
  BY ConfigAssumption DEF NodeOf, TypeOK, AllRequests
<1>6. AdmittedOnly'
  BY <1>1 DEF AdmittedOnly, Inside
<1>7. Maintenance'
  BY <1>1, <1>3 DEF Maintenance
<1>8. Provenance'
  <2>1. \A n \in Nodes : \A d \in config'[n] : HadEffect(d)' /\ NodeOf(d)' = n
    BY <1>2, <1>3 DEF Provenance, TypeOK
  <2>2. \A x \in Calls : \A d \in call'[x].fetched : HadEffect(d)' /\ NodeOf(d)' = NodeOf(x)'
    BY <1>1, <1>2, <1>3 DEF Provenance, TypeOK
  <2>3. \A x \in Calls : call'[x].pc \in {"late", "landed", "lost"} => Writes(x)'
    BY <1>1, <1>3 DEF Provenance
  <2> QED BY <2>1, <2>2, <2>3 DEF Provenance
<1>9. BaseIsCurrent'
  <2> SUFFICES ASSUME NEW d \in Calls, OneName(NodeOf(d)'),
                      call'[d].pc = "applying", Kind(d)' = "patch"
               PROVE  call'[d].fetched = config'[NodeOf(d)'] \/ CancelledOn(NodeOf(d))'
    BY DEF BaseIsCurrent
  <2>1. call[d].pc = "applying" /\ Kind(d) = "patch"
    BY <1>1, <1>3
  <2>2. call[d].fetched = config[NodeOf(d)] \/ CancelledOn(NodeOf(d))
    BY <1>3, <2>1 DEF BaseIsCurrent
  <2>3. CancelledOn(NodeOf(d)) => CancelledOn(NodeOf(d))'
    BY <1>3, <1>4, <1>5 DEF CancelledOn
  <2> QED BY <1>1, <1>3, <2>2, <2>3
<1>10. Kept'
  <2> SUFFICES ASSUME NEW d \in Calls, HadEffect(d)', OneName(NodeOf(d)')
               PROVE  \/ d \in config'[NodeOf(d)']
                      \/ d \in replaced'
                      \/ CancelledOn(NodeOf(d))'
    BY DEF Kept
  <2>1. CancelledOn(NodeOf(d)) => CancelledOn(NodeOf(d))'
    BY <1>3, <1>4, <1>5 DEF CancelledOn
  <2> QED BY <1>2, <1>3, <2>1 DEF Kept
<1> QED BY <1>6, <1>7, <1>8, <1>9, <1>10

(* Taking the lock: nobody else with the same key is inside. *)
LEMMA LockKeepsIInv ==
    ASSUME IInv, NEW c \in Calls, Lock(c)
    PROVE  IInv'
<1> USE DEF IInv
<1> DEFINE pc == IF Kind(c) = "patch" THEN "fetching" ELSE "applying"
<1>1. /\ call[c].pc = "locking" /\ holder[KeyOf(c)] = NoCall
      /\ Goto(c, pc) /\ pc \in Pcs /\ pc \in Inside
      /\ holder' = [holder EXCEPT ![KeyOf(c)] = c]
      /\ UNCHANGED <<config, phase, replaced>>
  BY DEF Lock, Free, Pcs, Inside
<1>2. /\ call' \in [Calls -> [pc : Pcs, req : AllRequests, fetched : SUBSET Calls]]
      /\ \A d \in Calls : d # c => call'[d] = call[d]
      /\ call'[c].pc = pc
      /\ \A d \in Calls : call'[d].req = call[d].req /\ call'[d].fetched = call[d].fetched
  BY <1>1, GotoFacts
<1>3. KeyOf(c) \in Keys
  BY <1>1, KeyOfType DEF AdmittedOnly
<1>4. TypeOK'
  BY <1>1, <1>2, <1>3 DEF TypeOK
<1>5. \A d \in Calls : KeyOf(d)' = KeyOf(d)
  BY <1>2 DEF KeyOf, Kind
<1>6. Locked'
  BY <1>1, <1>2, <1>3, <1>5, ConfigAssumption DEF Locked, TypeOK, Inside
<1>7. HadEffect(c)' <=> HadEffect(c)
  BY <1>1, <1>2 DEF HadEffect, Effective, Inside
<1>8. AdmittedOnly' /\ Maintenance' /\ Provenance'
      /\ BaseIsCurrent' /\ Kept'
  <2>1. pc # "landed" /\ pc \notin {"late", "lost"} /\ (pc = "applying" => Kind(c) # "patch")
    OBVIOUS
  <2> HIDE DEF pc
  <2> QED BY <1>1, <1>7, <2>1, MoveKeepsNodes
<1> QED BY <1>4, <1>6, <1>8

(* The steps that leave the critical section without an effect. *)
LEMMA ReturnKeepsIInv ==
    ASSUME IInv, NEW c \in Calls, NEW pc \in Finished, Return(c, pc),
           UNCHANGED <<config, phase, replaced>>,
           call[c].pc \in Inside, HadEffect(c)' <=> HadEffect(c),
           pc # "landed", pc \in {"late", "lost"} => Writes(c),
           pc = "late" => call[c].pc = "applying"
    PROVE  IInv'
<1> USE DEF IInv
<1>1. Goto(c, pc) /\ pc \in Pcs /\ holder' = [holder EXCEPT ![KeyOf(c)] = NoCall]
  BY DEF Return, Pcs
<1>2. /\ call' \in [Calls -> [pc : Pcs, req : AllRequests, fetched : SUBSET Calls]]
      /\ \A d \in Calls : d # c => call'[d] = call[d]
      /\ call'[c].pc = pc
      /\ \A d \in Calls : call'[d].req = call[d].req /\ call'[d].fetched = call[d].fetched
  BY <1>1, GotoFacts
<1>3. KeyOf(c) \in Keys
  BY KeyOfType DEF AdmittedOnly, Inside
<1>4. TypeOK'
  BY <1>1, <1>2, <1>3 DEF TypeOK
<1>5. \A d \in Calls : KeyOf(d)' = KeyOf(d)
  BY <1>2 DEF KeyOf, Kind
<1>6. Locked'
  BY <1>1, <1>2, <1>3, <1>5, ConfigAssumption DEF Locked, TypeOK, Inside, Finished
<1>7. pc # "applying"
  BY DEF Finished
<1>8. AdmittedOnly' /\ Maintenance' /\ Provenance'
      /\ BaseIsCurrent' /\ Kept'
  BY <1>1, <1>7, MoveKeepsNodes
<1> QED BY <1>4, <1>6, <1>8

(* The ways in which a handler returns. *)
LEMMA FailKeepsIInv ==
    ASSUME IInv, NEW c \in Calls, FetchFails(c) \/ ApplyFails(c) \/ Reply(c) \/ Cancel(c)
    PROVE  IInv'
<1>1. /\ call[c].pc \in Inside
      /\ \E pc \in {"failed", "ok", "lost", "late"} :
            /\ Return(c, pc)
            /\ pc \in {"late", "lost"} => Writes(c)
            /\ pc = "late" => call[c].pc = "applying"
            /\ pc \in {"ok", "lost"} => call[c].pc = "replying"
            /\ call[c].pc = "replying" /\ pc = "failed" => ~Writes(c)
      /\ UNCHANGED <<config, phase, replaced>>
  BY DEF FetchFails, ApplyFails, Reply, Cancel, Inside
<1>2. PICK pc \in {"failed", "ok", "lost", "late"} :
            /\ Return(c, pc)
            /\ pc \in {"late", "lost"} => Writes(c)
            /\ pc = "late" => call[c].pc = "applying"
            /\ pc \in {"ok", "lost"} => call[c].pc = "replying"
            /\ call[c].pc = "replying" /\ pc = "failed" => ~Writes(c)
  BY <1>1
<1>3. pc \in Finished /\ pc \in Pcs
  BY DEF Finished, Pcs
<1>4. call'[c].pc = pc /\ call'[c].req = call[c].req
  BY <1>2, <1>3, GotoFacts DEF Return, IInv
<1>5. HadEffect(c)' <=> HadEffect(c)
  BY <1>1, <1>2, <1>4 DEF HadEffect, Effective, Inside, Writes
<1> QED BY <1>1, <1>2, <1>3, <1>5, ReturnKeepsIInv

(* What is fetched is the present configuration. *)
LEMMA FetchKeepsIInv ==
    ASSUME IInv, NEW c \in Calls, Fetch(c)
    PROVE  IInv'
<1> USE DEF IInv
<1>0. \A d \in Calls : NodeOf(d) \in Nodes
  BY ConfigAssumption DEF NodeOf, TypeOK, AllRequests
<1> PICK n \in Nodes : n = NodeOf(c)
  BY <1>0
<1>1. /\ call[c].pc = "fetching" /\ phase[n] = "running"
      /\ call' = [call EXCEPT ![c].pc = "applying", ![c].fetched = config[n]]
      /\ UNCHANGED <<holder, config, phase, replaced>>
  BY DEF Fetch
<1>3. /\ \A d \in Calls : d # c => call'[d] = call[d]
      /\ call'[c].pc = "applying" /\ call'[c].fetched = config[n]
      /\ \A d \in Calls : call'[d].req = call[d].req
  BY <1>1 DEF TypeOK
<1>4. TypeOK'
  <2>1. [call[c] EXCEPT !.pc = "applying", !.fetched = config[n]]
           \in [pc : Pcs, req : AllRequests, fetched : SUBSET Calls]
    <3>1. /\ call[c] \in [pc : Pcs, req : AllRequests, fetched : SUBSET Calls]
          /\ config[n] \in SUBSET Calls /\ "applying" \in Pcs
      BY DEF TypeOK, Pcs, Inside
    <3> HIDE DEF IInv
    <3> QED BY <3>1
  <2>2. call' = [call EXCEPT ![c] = [call[c] EXCEPT !.pc = "applying", !.fetched = config[n]]]
    BY <1>1 DEF TypeOK
  <2> HIDE DEF IInv
  <2> QED BY <1>1, <2>1, <2>2 DEF TypeOK, IInv
<1>2. \A d \in Calls : KeyOf(d)' = KeyOf(d)
  BY <1>3 DEF KeyOf, Kind
<1>5. \A d \in Calls : NodeOf(d)' = NodeOf(d) /\ Kind(d)' = Kind(d) /\ (Writes(d)' <=> Writes(d))
  BY <1>3 DEF NodeOf, Kind, Writes
<1>5a. \A d \in Calls : HadEffect(d)' <=> HadEffect(d)
  BY <1>1, <1>3 DEF HadEffect, Effective
<1>6. Locked'
  <2>1. \A d \in Calls : call'[d].pc \in Inside <=> call[d].pc \in Inside
    BY <1>1, <1>3 DEF Inside
  <2>2. holder' = holder
    BY <1>1
  <2> QED BY <1>2, <2>1, <2>2 DEF Locked
<1>7. AdmittedOnly' /\ Maintenance'
  <2>1. AdmittedOnly'
    BY <1>1, <1>3 DEF AdmittedOnly
  <2>2. \A d \in Calls : call'[d].pc \in {"applying", "late"} /\ Kind(d)' = "patch" =>
            phase'[NodeOf(d)'] = "running"
    <3> TAKE d \in Calls
    <3>1. CASE d = c
      BY <1>1, <1>5, <3>1
    <3>2. CASE d # c
      BY <1>1, <1>3, <1>5, <3>2 DEF Maintenance
    <3> QED BY <3>1, <3>2
  <2> QED BY <1>1, <2>1, <2>2 DEF Maintenance
<1>8. Provenance'
  <2>1. \A m \in Nodes : \A d \in config'[m] : HadEffect(d)' /\ NodeOf(d)' = m
    BY <1>1, <1>5, <1>5a DEF Provenance, TypeOK
  <2>2. \A x \in Calls : \A d \in call'[x].fetched : HadEffect(d)' /\ NodeOf(d)' = NodeOf(x)'
    BY <1>0, <1>3, <1>5, <1>5a DEF Provenance, TypeOK
  <2>3. \A x \in Calls : call'[x].pc \in {"late", "landed", "lost"} => Writes(x)'
    BY <1>3, <1>5, <1>5a DEF Provenance
  <2> QED BY <2>1, <2>2, <2>3 DEF Provenance
<1>9. \A d \in Calls : CancelledOn(NodeOf(d)) => CancelledOn(NodeOf(d))'
  <2>1. \A x \in Calls : call[x].pc = "landed" => x # c /\ call'[x].pc = "landed"
    BY <1>1, <1>3
  <2> QED BY <2>1, <1>5 DEF CancelledOn
<1>10. BaseIsCurrent'
  <2> SUFFICES ASSUME NEW d \in Calls, OneName(NodeOf(d)'),
                      call'[d].pc = "applying", Kind(d)' = "patch"
               PROVE  call'[d].fetched = config'[NodeOf(d)'] \/ CancelledOn(NodeOf(d))'
    BY DEF BaseIsCurrent
  <2>1. CASE d = c
    BY <1>1, <1>3, <1>5, <2>1
  <2>2. CASE d # c
    BY <1>1, <1>3, <1>5, <1>9, <2>2 DEF BaseIsCurrent
  <2> QED BY <2>1, <2>2
<1>11. Kept'
  <2> SUFFICES ASSUME NEW d \in Calls, HadEffect(d)', OneName(NodeOf(d)')
               PROVE  \/ d \in config'[NodeOf(d)']
                      \/ d \in replaced'
                      \/ CancelledOn(NodeOf(d))'
    BY DEF Kept
  <2> QED BY <1>1, <1>5, <1>5a, <1>9 DEF Kept
<1> QED BY <1>4, <1>6, <1>7, <1>8, <1>10, <1>11

-----------------------------------------------------------------------------
(* While a handler of the authenticated tools is inside for a node, no      *)
(* other one is.                                                            *)
LEMMA OneInside ==
    ASSUME TypeOK, Locked, AdmittedOnly,
           NEW c \in Calls, NEW d \in Calls,
           call[c].pc \in Inside, call[d].pc \in Inside,
           Kind(c) # "insecure", Kind(d) # "insecure", NodeOf(c) = NodeOf(d),
           OneName(NodeOf(c))
    PROVE  c = d
<1>1. KeyOf(c) = KeyOf(d) /\ KeyOf(c) \in Keys
  BY SameNodeSameKey, KeyOfType DEF AdmittedOnly, Inside
<1> QED BY <1>1 DEF Locked

(* The node executes ApplyConfiguration: for its handler (Apply), or after   *)
(* the handler has gone (Land).                                             *)
LEMMA EffectKeepsIInv ==
    ASSUME IInv, NEW c \in Calls, Effect(c), UNCHANGED holder,
           \/ call[c].pc = "applying" /\ Goto(c, "replying")
           \/ call[c].pc = "late" /\ Goto(c, "landed")
    PROVE  IInv'
<1> USE DEF IInv
<1>0. \A d \in Calls : NodeOf(d) \in Nodes
  BY ConfigAssumption DEF NodeOf, TypeOK, AllRequests
<1> PICK n \in Nodes : n = NodeOf(c)
  BY <1>0
<1>1. /\ \A d \in Calls : d # c => call'[d] = call[d]
      /\ \A d \in Calls : call'[d].req = call[d].req /\ call'[d].fetched = call[d].fetched
      /\ \/ call[c].pc = "applying" /\ call'[c].pc = "replying"
         \/ call[c].pc = "late" /\ call'[c].pc = "landed"
      /\ call' \in [Calls -> [pc : Pcs, req : AllRequests, fetched : SUBSET Calls]]
  BY GotoFacts DEF Pcs, Inside, Finished
<1>2. \A d \in Calls : KeyOf(d)' = KeyOf(d)
  BY <1>1 DEF KeyOf, Kind
<1>3. \A d \in Calls : NodeOf(d)' = NodeOf(d) /\ Kind(d)' = Kind(d) /\ (Writes(d)' <=> Writes(d))
  BY <1>1 DEF NodeOf, Kind, Writes
<1>3a. \A d \in Calls : d # c => (HadEffect(d)' <=> HadEffect(d))
  BY <1>1 DEF HadEffect
<1>4. ~HadEffect(c) /\ (HadEffect(c)' <=> Writes(c))
  BY <1>1 DEF HadEffect, Effective, Writes
<1>5. \/ ~Writes(c) /\ UNCHANGED <<config, phase, replaced>>
      \/ /\ Writes(c)
         /\ config' = [config EXCEPT ![n] = Submitted(c)]
         /\ phase' = [phase EXCEPT ![n] = "running"]
         /\ replaced' = IF Kind(c) = "patch" THEN replaced ELSE replaced \cup config[n]
  BY DEF Effect
<1>6. call[c].pc = "late" => Writes(c)
  BY DEF Provenance
<1>7. \A d \in Calls : CancelledOn(NodeOf(d)) => CancelledOn(NodeOf(d))'
  BY <1>1, <1>3 DEF CancelledOn
<1>8. call[c].pc = "late" => CancelledOn(n)'
  BY <1>1, <1>3 DEF CancelledOn
<1>9. n \in Nodes /\ Submitted(c) \subseteq Calls
  BY <1>0 DEF Submitted, TypeOK
<1>10. TypeOK'
  <2>1. config \in [Nodes -> SUBSET Calls] /\ phase \in [Nodes -> {"maintenance", "running"}]
    BY DEF TypeOK
  <2>2. config' \in [Nodes -> SUBSET Calls] /\ phase' \in [Nodes -> {"maintenance", "running"}]
    BY <1>5, <1>9, <2>1
  <2>4. replaced' \subseteq Calls
    BY <1>5, <1>9 DEF TypeOK
  <2>3. holder' \in [Keys -> Calls \cup {NoCall}]
    BY DEF TypeOK
  <2> QED BY <1>1, <2>2, <2>3, <2>4 DEF TypeOK
<1>11. Locked' /\ AdmittedOnly'
  BY <1>1, <1>2 DEF Locked, AdmittedOnly, Inside
<1>12. \A d \in Submitted(c) : d = c \/ (HadEffect(d) /\ NodeOf(d) = n)
  BY DEF Submitted, Provenance
<1>13. Maintenance'
  <2>1. \A m \in Nodes : phase'[m] = "maintenance" => config'[m] = {}
    BY <1>5, <1>9 DEF Maintenance, TypeOK
  <2>2. \A m \in Nodes : phase[m] = "running" => phase'[m] = "running"
    BY <1>5, <1>9 DEF TypeOK
  <2>3. \A d \in Calls : call'[d].pc \in {"applying", "late"} /\ Kind(d)' = "patch" =>
              phase'[NodeOf(d)'] = "running"
    BY <1>1, <1>0, <1>3, <2>2 DEF Maintenance
  <2> QED BY <2>1, <2>3 DEF Maintenance
<1>14. Provenance'
  <2>1. ASSUME NEW m \in Nodes, NEW d \in config'[m]
        PROVE  HadEffect(d)' /\ NodeOf(d)' = m
    <3>1. CASE d \in config[m]
      BY <1>3, <1>3a, <1>4, <3>1 DEF Provenance, TypeOK
    <3>2. CASE d \notin config[m]
      <4>1. Writes(c) /\ m = n /\ d \in Submitted(c)
        BY <1>5, <1>9, <2>1, <3>2 DEF TypeOK
      <4> QED BY <1>3, <1>3a, <1>4, <1>9, <1>12, <4>1
    <3> QED BY <3>1, <3>2
  <2>2. \A x \in Calls : \A d \in call'[x].fetched : HadEffect(d)' /\ NodeOf(d)' = NodeOf(x)'
    BY <1>1, <1>3, <1>3a, <1>4 DEF Provenance, TypeOK
  <2>3. \A x \in Calls : call'[x].pc \in {"late", "landed", "lost"} => Writes(x)'
    BY <1>1, <1>3, <1>6 DEF Provenance
  <2> QED BY <2>1, <2>2, <2>3 DEF Provenance
<1>15. BaseIsCurrent'
  <2> SUFFICES ASSUME NEW d \in Calls, OneName(NodeOf(d)'),
                      call'[d].pc = "applying", Kind(d)' = "patch"
               PROVE  call'[d].fetched = config'[NodeOf(d)'] \/ CancelledOn(NodeOf(d))'
    BY DEF BaseIsCurrent
  <2>1. d # c /\ call[d].pc = "applying" /\ Kind(d) = "patch"
    BY <1>1, <1>3
  <2>2. call[d].fetched = config[NodeOf(d)] \/ CancelledOn(NodeOf(d))
    BY <1>3, <2>1 DEF BaseIsCurrent
  <2>3. CASE NodeOf(d) # n \/ ~Writes(c)
    BY <1>1, <1>0, <1>3, <1>5, <1>7, <1>9, <2>2, <2>3 DEF TypeOK
  <2>4. CASE NodeOf(d) = n /\ call[c].pc = "late"
    BY <1>3, <1>8, <2>4
  <2>5. CASE NodeOf(d) = n /\ call[c].pc = "applying" /\ Kind(c) # "insecure"
    BY <1>3, <2>1, <2>5, OneInside DEF Inside
  <2>6. CASE NodeOf(d) = n /\ Kind(c) = "insecure"
    BY <2>1, <2>6 DEF Effect, Maintenance
  <2> QED BY <1>1, <2>3, <2>4, <2>5, <2>6
<1>16. Kept'
  <2> SUFFICES ASSUME NEW d \in Calls, HadEffect(d)', OneName(NodeOf(d)')
               PROVE  \/ d \in config'[NodeOf(d)']
                      \/ d \in replaced'
                      \/ CancelledOn(NodeOf(d))'
    BY DEF Kept
  <2>1. CASE d = c
    BY <1>3, <1>4, <1>5, <1>9, <2>1 DEF Submitted, TypeOK
  <2>2. CASE d # c
    <3>1. \/ d \in config[NodeOf(d)]
          \/ d \in replaced
          \/ CancelledOn(NodeOf(d))
      BY <1>3, <1>3a, <2>2 DEF Kept
    <3>2. replaced \subseteq replaced'
      BY <1>5
    <3>3. CASE NodeOf(d) # n \/ ~Writes(c)
      <4>1. config'[NodeOf(d)] = config[NodeOf(d)]
        BY <1>0, <1>5, <1>9, <3>3 DEF TypeOK
      <4> QED BY <1>3, <1>7, <3>1, <3>2, <4>1
    <3>4. CASE NodeOf(d) = n /\ Writes(c)
      <4>1. config'[n] = Submitted(c)
        BY <1>5, <1>9, <3>4 DEF TypeOK
      <4>2. CASE Kind(c) # "patch"
        BY <1>3, <1>5, <1>7, <3>1, <3>2, <3>4, <4>2
      <4>3. CASE call[c].pc = "late"
        BY <1>3, <1>8, <3>4, <4>3
      <4>4. CASE Kind(c) = "patch" /\ call[c].pc = "applying"
        <5>1. config[n] \subseteq Submitted(c) \/ CancelledOn(n)
          BY <1>3, <3>4, <4>4 DEF BaseIsCurrent, Submitted
        <5> QED BY <1>3, <1>7, <3>1, <3>2, <3>4, <4>1, <5>1
      <4> QED BY <1>1, <4>2, <4>3, <4>4
    <3> QED BY <3>3, <3>4
  <2> QED BY <2>1, <2>2
<1> QED BY <1>10, <1>11, <1>13, <1>14, <1>15, <1>16

(* Every step keeps the invariant. *)
LEMMA NextIInv == IInv /\ [Next]_vars => IInv'
<1> SUFFICES ASSUME IInv, [Next]_vars PROVE IInv'
  OBVIOUS
<1>1. ASSUME NEW c \in Calls, Handler(c) PROVE IInv'
  <2>1. CASE \E r \in Requests : Refuse(c, r) \/ Admit(c, r)
    BY <2>1, BeginKeepsIInv
  <2>2. CASE Lock(c)
    BY <2>2, LockKeepsIInv
  <2>3. CASE Fetch(c)
    BY <2>3, FetchKeepsIInv
  <2>4. CASE FetchFails(c) \/ ApplyFails(c) \/ Reply(c) \/ Cancel(c)
    BY <2>4, FailKeepsIInv
  <2>5. CASE Apply(c)
    BY <2>5, EffectKeepsIInv DEF Apply
  <2> QED BY <1>1, <2>1, <2>2, <2>3, <2>4, <2>5 DEF Handler
<1>2. ASSUME NEW c \in Calls, Land(c) PROVE IInv'
  BY <1>2, EffectKeepsIInv DEF Land
<1>3. CASE UNCHANGED vars
  BY <1>3 DEF vars, IInv, TypeOK, Locked, AdmittedOnly, Maintenance, Provenance,
              BaseIsCurrent, Kept, HadEffect, CancelledOn, NodeOf, Kind, KeyOf, Writes
<1> QED BY <1>1, <1>2, <1>3 DEF Next
(* IInv holds in every reachable state: for any calls, nodes, names, settings *)
(* and requests.                                                              *)
THEOREM Invariance == Spec => []IInv
  BY InitIInv, NextIInv, PTL DEF Spec

(* Only what was confirmed and let through ever reaches a node: the guards   *)
(* (lifecycle.go:494-550, 700-763, 836-864) hold of every change on a node.  *)
THEOREM Authorised == Spec => []OnlyAuthorised
<1>1. IInv => OnlyAuthorised
  <2> SUFFICES ASSUME IInv, NEW n \in Nodes, NEW c \in config[n]
               PROVE  LET r == call[c].req IN
                      /\ ~r.dry /\ r.confirm
                      /\ Target[r.name] = n
                      /\ \/ r.kind = "insecure" /\ Canon[r.name] \in InsecureNodes
                         \/ /\ r.kind # "insecure"
                            /\ r.name \in AllowedNodes \cup {Default}
                            /\ Blocklist => r.kind = "patch" /\ ~r.blocked
    BY DEF OnlyAuthorised
  <2>1. c \in Calls
    BY DEF IInv, TypeOK
  <2>2. HadEffect(c) /\ NodeOf(c) = n
    BY DEF IInv, Provenance
  <2>3. Admitted(call[c].req)
    BY <2>1, <2>2 DEF IInv, AdmittedOnly, HadEffect, Effective
  <2> QED BY <2>2, <2>3 DEF HadEffect, NodeOf, Admitted, Confirmed
<1> QED BY <1>1, Invariance, PTL

(* An answer of success can be believed of a node with one name, and one of  *)
(* failure before the RPC of every node.                                     *)
THEOREM Believable == Spec => []AnswersTrue
<1>1. ASSUME IInv PROVE AnswersTrue
  <2>1. \A c \in Calls : call[c].pc = "ok" /\ ~call[c].req.dry =>
             \/ c \in config[NodeOf(c)]
             \/ c \in replaced
             \/ CancelledOn(NodeOf(c))
             \/ ~OneName(NodeOf(c))
    BY <1>1 DEF IInv, Kept, HadEffect, Effective
  <2>2. \A c \in Calls : call[c].pc \in {"refused", "failed"} => ~HadEffect(c)
    BY DEF HadEffect, Effective
  <2>3. \A c \in Calls : \A n \in Nodes : c \in config[n] => HadEffect(c)
    BY <1>1 DEF IInv, Provenance
  <2>4. \A c \in Calls : call[c].pc \in {"refused", "failed"} =>
             \A n \in Nodes : c \notin config[n]
    BY <2>2, <2>3
  <2> HIDE DEF IInv
  <2> QED BY <2>1, <2>4, Zenon DEF AnswersTrue
<1> QED BY <1>1, Invariance, PTL

-----------------------------------------------------------------------------
(* What a node with one name executes is a full configuration, or the        *)
(* present one with a patch in it, or comes of a cancelled call.             *)
LEMMA EffectOnPresent ==
    ASSUME IInv, NEW c \in Calls, OneName(NodeOf(c)), Effect(c), Writes(c),
           \/ call[c].pc = "applying" /\ Goto(c, "replying")
           \/ call[c].pc = "late" /\ Goto(c, "landed")
    PROVE  /\ NodeOf(c) \in Nodes
           /\ \A n \in Nodes : c \notin config[n]
           /\ \/ Kind(c) # "patch" /\ config' = [config EXCEPT ![NodeOf(c)] = {c}]
              \/ /\ Kind(c) = "patch"
                 /\ config' = [config EXCEPT ![NodeOf(c)] = config[NodeOf(c)] \cup {c}]
              \/ /\ config' = [config EXCEPT ![NodeOf(c)] = Submitted(c)]
                 /\ CancelledOn(NodeOf(c)) \/ call[c].pc = "late"
<1>1. NodeOf(c) \in Nodes
  BY ConfigAssumption DEF NodeOf, IInv, TypeOK, AllRequests
<1>2. \A n \in Nodes : c \notin config[n]
  BY DEF IInv, Provenance, HadEffect, Effective
<1>3. config' = [config EXCEPT ![NodeOf(c)] = Submitted(c)]
  BY DEF Effect
<1>4. CASE Kind(c) # "patch"
  BY <1>1, <1>2, <1>3, <1>4 DEF Submitted
<1>5. CASE Kind(c) = "patch" /\ call[c].pc = "applying"
  <2>1. call[c].fetched = config[NodeOf(c)] \/ CancelledOn(NodeOf(c))
    BY <1>5 DEF IInv, BaseIsCurrent
  <2> QED BY <1>1, <1>2, <1>3, <1>5, <2>1 DEF Submitted
<1>6. CASE call[c].pc = "late"
  BY <1>1, <1>2, <1>3, <1>6
<1> QED BY <1>4, <1>5, <1>6

(* The steps that change a configuration, and those that do not. *)
LEMMA StepKinds ==
    ASSUME [Next]_vars
    PROVE  \/ UNCHANGED config
           \/ \E c \in Calls :
                 /\ Effect(c) /\ Writes(c)
                 /\ \/ call[c].pc = "applying" /\ Goto(c, "replying")
                    \/ call[c].pc = "late" /\ Goto(c, "landed")
  BY DEF Next, Handler, vars, Refuse, Admit, Lock, Fetch, FetchFails, Apply,
         ApplyFails, Reply, Cancel, Land, Effect

(* No change leaves the configuration of a node with one name but by a full  *)
(* replacement or on account of a cancelled call (lifecycle.go:552-556),     *)
(* whatever names the other nodes have.                                      *)
THEOREM NothingLost == Spec => UpdatesKept
<1>1. ASSUME IInv, [Next]_vars, NEW n \in Nodes, OneName(n)
      PROVE  \/ config[n] \subseteq config'[n]
             \/ \E c \in Calls : c \in config'[n] \ config[n] /\ Kind(c) # "patch"
             \/ CancelledOn(n)'
  <2>1. CASE UNCHANGED config
    BY <2>1
  <2>2. ASSUME NEW c \in Calls, Effect(c), Writes(c),
               \/ call[c].pc = "applying" /\ Goto(c, "replying")
               \/ call[c].pc = "late" /\ Goto(c, "landed")
        PROVE  \/ config[n] \subseteq config'[n]
               \/ \E d \in Calls : d \in config'[n] \ config[n] /\ Kind(d) # "patch"
               \/ CancelledOn(n)'
    <3>1. /\ \A d \in Calls : call'[d].req = call[d].req
          /\ \A d \in Calls : d # c => call'[d] = call[d]
          /\ call[c].pc # "landed"
          /\ call[c].pc = "late" => call'[c].pc = "landed"
      BY <1>1, <2>2, GotoFacts DEF IInv, Pcs, Inside, Finished
    <3>2. \A d \in Calls : NodeOf(d)' = NodeOf(d)
      BY <3>1 DEF NodeOf
    <3>3. CancelledOn(n) \/ (call[c].pc = "late" /\ NodeOf(c) = n) => CancelledOn(n)'
      BY <3>1, <3>2 DEF CancelledOn
    <3>4. n # NodeOf(c) => config'[n] = config[n]
      BY <1>1, <2>2 DEF Effect, IInv, TypeOK
    <3>5. CASE n = NodeOf(c)
      <4>1. CASE Kind(c) # "patch" /\ config' = [config EXCEPT ![NodeOf(c)] = {c}]
        <5>1. c \in config'[n] /\ c \notin config[n]
          BY <1>1, <2>2, <3>5, <4>1, EffectOnPresent DEF IInv, TypeOK
        <5> QED BY <4>1, <5>1
      <4>2. CASE config' = [config EXCEPT ![NodeOf(c)] = config[NodeOf(c)] \cup {c}]
        BY <1>1, <3>5, <4>2 DEF IInv, TypeOK
      <4>3. CASE CancelledOn(NodeOf(c)) \/ call[c].pc = "late"
        BY <3>3, <3>5, <4>3
      <4> QED BY <1>1, <2>2, <3>5, <4>1, <4>2, <4>3, EffectOnPresent
    <3> QED BY <3>4, <3>5
  <2> QED BY <1>1, <2>1, <2>2, StepKinds
<1>2. IInv /\ [Next]_vars =>
        [\A n \in Nodes :
            \/ config[n] \subseteq config'[n]
            \/ \E c \in Calls : c \in config'[n] \ config[n] /\ Kind(c) # "patch"
            \/ CancelledOn(n)'
            \/ ~OneName(n)]_vars
  BY <1>1
<1> QED BY <1>2, Invariance, PTL DEF Spec, UpdatesKept

-----------------------------------------------------------------------------
NoneLate == \A c \in Calls : call[c].pc \notin {"late", "landed"}

(* Where no client cancels, no RPC outlives its handler. *)
LEMMA NoneLateInv == ~Cancels => (Spec => []NoneLate)
<1> SUFFICES ASSUME ~Cancels PROVE Spec => []NoneLate
  OBVIOUS
<1>1. ASSUME Init PROVE NoneLate
  <2>1. \A c \in Calls : call[c].pc = "idle"
    BY <1>1 DEF Init
  <2> QED BY <2>1 DEF NoneLate
<1>2. IInv /\ NoneLate /\ [Next]_vars => NoneLate'
  <2> SUFFICES ASSUME IInv, NoneLate, [Next]_vars PROVE NoneLate'
    OBVIOUS
  <2>1. CASE UNCHANGED vars
    BY <2>1 DEF vars, NoneLate
  <2>2. ASSUME NEW c \in Calls, NEW r \in Requests, Admit(c, r) PROVE NoneLate'
    BY <2>2 DEF Admit, NoneLate, IInv, TypeOK
  <2>3. ASSUME NEW c \in Calls, Fetch(c) PROVE NoneLate'
    BY <2>3 DEF Fetch, NoneLate, IInv, TypeOK
  <2>4. ASSUME NEW c \in Calls, NEW pc \in Pcs \ {"late", "landed"}, Goto(c, pc)
        PROVE  NoneLate'
    BY <2>4, GotoFacts DEF NoneLate, IInv
  <2>5. ASSUME NEW c \in Calls, Handler(c) \/ Land(c) PROVE NoneLate'
    <3>1. CASE \E r \in Requests : Refuse(c, r)
      BY <3>1, <2>4 DEF Refuse, Pcs, Finished
    <3>2. CASE Lock(c)
      BY <3>2, <2>4 DEF Lock, Pcs, Inside
    <3>3. CASE FetchFails(c) \/ ApplyFails(c) \/ Reply(c)
      BY <3>3, <2>4 DEF FetchFails, ApplyFails, Reply, Return, Pcs, Finished
    <3>4. CASE Apply(c)
      BY <3>4, <2>4 DEF Apply, Pcs, Inside
    <3>5. ~Cancel(c) /\ ~Land(c)
      BY DEF Cancel, Land, NoneLate
    <3> QED BY <2>2, <2>3, <2>5, <3>1, <3>2, <3>3, <3>4, <3>5 DEF Handler
  <2> QED BY <2>1, <2>5 DEF Next
<1> QED BY <1>1, <1>2, Invariance, PTL DEF Spec

(* The steps without an effect leave the set of calls that had one.          *)
LEMMA NoEffectNoSpending ==
    ASSUME IInv, [Next]_vars,
           ~ \E c \in Calls : Apply(c) /\ Writes(c),
           ~ \E c \in Calls : Land(c)
    PROVE  /\ \A c \in Calls : HadEffect(c)' <=> HadEffect(c)
           /\ UNCHANGED config
<1>1. UNCHANGED config
  BY DEF Next, Handler, vars, Refuse, Admit, Lock, Fetch, FetchFails, Apply,
         ApplyFails, Reply, Cancel, Effect
<1>2. CASE UNCHANGED vars
  BY <1>1, <1>2 DEF vars, HadEffect
<1>3. ASSUME NEW c \in Calls, Handler(c)
      PROVE  \A d \in Calls : HadEffect(d)' <=> HadEffect(d)
  <2>1. CASE \E r \in Requests : Admit(c, r)
    BY <2>1 DEF Admit, IInv, TypeOK, HadEffect, Effective
  <2>2. CASE Fetch(c)
    BY <2>2 DEF Fetch, IInv, TypeOK, HadEffect, Effective
  <2>3. ASSUME NEW pc \in Pcs, Goto(c, pc),
               (pc \in Effective /\ Writes(c)) <=> HadEffect(c)
        PROVE  \A d \in Calls : HadEffect(d)' <=> HadEffect(d)
    BY <2>3, GotoFacts DEF IInv, HadEffect, Writes
  <2>4. CASE \E r \in Requests : Refuse(c, r)
    BY <2>3, <2>4 DEF Refuse, HadEffect, Effective, Pcs, Finished
  <2>5. CASE Lock(c)
    BY <2>3, <2>5 DEF Lock, HadEffect, Effective, Pcs, Inside
  <2>6. CASE FetchFails(c) \/ ApplyFails(c) \/ Cancel(c)
    BY <2>3, <2>6 DEF FetchFails, ApplyFails, Cancel, Return, HadEffect, Effective,
                      Pcs, Finished
  <2>7. CASE Reply(c)
    BY <2>3, <2>7 DEF Reply, Return, HadEffect, Effective, Writes, Pcs, Finished
  <2>8. CASE Apply(c)
    BY <2>3, <2>8 DEF Apply, HadEffect, Effective, Pcs, Inside
  <2> QED BY <1>3, <2>1, <2>2, <2>4, <2>5, <2>6, <2>7, <2>8 DEF Handler
<1> QED BY <1>1, <1>2, <1>3 DEF Next

(* One name per node and no cancelled call: the concurrent handlers behave   *)
(* like changes made one at a time, each on top of the one before.           *)
THEOREM HandlersImplementService == AliasFree /\ ~Cancels => (Spec => ServiceSpec)
<1> SUFFICES ASSUME AliasFree, ~Cancels PROVE Spec => ServiceSpec
  OBVIOUS
<1>1. Init => Service!Init
  BY DEF Init, Service!Init, HadEffect, Effective
<1>2. IInv /\ NoneLate /\ [Next]_vars => [Service!Next]_(Service!cvars)
  <2> SUFFICES ASSUME IInv, NoneLate, [Next]_vars PROVE [Service!Next]_(Service!cvars)
    OBVIOUS
  <2>1. ~ \E c \in Calls : Land(c)
    BY DEF Land, NoneLate
  <2>2. ASSUME NEW c \in Calls, Apply(c), Writes(c)
        PROVE  Service!Next
    <3>1. /\ \A d \in Calls : d # c => call'[d] = call[d]
          /\ \A d \in Calls : call'[d].req = call[d].req
          /\ call[c].pc = "applying" /\ call'[c].pc = "replying"
      BY <2>2, GotoFacts DEF Apply, IInv, Pcs, Inside
    <3>2. HadEffect(c)' /\ ~HadEffect(c)
      BY <2>2, <3>1 DEF HadEffect, Effective, Writes
    <3>3. \A d \in Calls : d # c => (HadEffect(d)' <=> HadEffect(d))
      BY <3>1 DEF HadEffect
    <3>4. {d \in Calls : HadEffect(d)'} = {d \in Calls : HadEffect(d)} \cup {c}
      BY <3>2, <3>3
    <3>5. ~CancelledOn(NodeOf(c))
      BY DEF CancelledOn, NoneLate
    <3>6. OneName(NodeOf(c))
      <4>1. NodeOf(c) \in Nodes
        BY ConfigAssumption DEF NodeOf, IInv, TypeOK, AllRequests
      <4> QED BY <4>1 DEF AliasFree
    <3>7. /\ NodeOf(c) \in Nodes
          /\ \/ config' = [config EXCEPT ![NodeOf(c)] = {c}]
             \/ config' = [config EXCEPT ![NodeOf(c)] = config[NodeOf(c)] \cup {c}]
      BY <2>2, <3>1, <3>5, <3>6, EffectOnPresent DEF Apply
    <3> QED BY <3>2, <3>4, <3>7 DEF Service!Next, Service!Patch, Service!Replace
  <2>3. CASE ~ \E c \in Calls : Apply(c) /\ Writes(c)
    <3>1. (\A c \in Calls : HadEffect(c)' <=> HadEffect(c)) /\ UNCHANGED config
      BY <2>1, <2>3, NoEffectNoSpending
    <3>2. {d \in Calls : HadEffect(d)'} = {d \in Calls : HadEffect(d)}
      BY <3>1
    <3> QED BY <3>1, <3>2 DEF Service!cvars
  <2> QED BY <2>2, <2>3
<1> QED BY <1>1, <1>2, Invariance, NoneLateInv, PTL DEF Spec, ServiceSpec, Service!Spec
=============================================================================
