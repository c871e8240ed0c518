--------------------- MODULE SubscriptionDeliveryProofs ---------------------
(***************************************************************************)
(* Proofs about SubscriptionDelivery, the Manager between the MCP SDK, the *)
(* clients and the nodes, for every value of its constants.  DIInv is      *)
(* inductive.  Its parts concern different variables, so each has lemmas   *)
(* of its own: the registry (which requests, sessions and keys), staleness *)
(* (what a watch carries to a client) and tokens (what a limiter lets      *)
(* through).  That the Manager's own invariant IInv survives comes from    *)
(* SubscriptionManagerProofs: a step here is one of its steps, or a change *)
(* of a resource, published to several watches at once.                    *)
(***************************************************************************)
EXTENDS SubscriptionDelivery, SubscriptionManagerProofs

-----------------------------------------------------------------------------
(* The Manager's own invariant. *)

(* One event makes a batch. *)
LEMMA OneEventBatch == ASSUME NEW e \in Events PROVE <<e>> \in Seq(Events) /\ <<e>> # <<>>
  OBVIOUS

(* A change of a resource, a break of a stream or a marker in it. *)
LEMMA StreamKeepsIInv ==
    ASSUME IInv,
           \/ \E u \in Uris : Change(u)
           \/ \E w \in Watches, e \in Events \ {"Change"} : StreamEvent(w, e)
    PROVE  IInv'
<1>1. ASSUME NEW u \in Uris, Change(u) PROVE IInv'
  <2>1. Recipients(u) \in SUBSET Watches /\ "Change" \in Events
    BY DEF Recipients, Events
  <2> QED BY <1>1, <2>1, OneEventBatch, PublishKeepsIInv DEF Change
<1>2. ASSUME NEW w \in Watches, NEW e \in Events \ {"Change"}, StreamEvent(w, e) PROVE IInv'
  BY <1>2, OneEventBatch, PublishKeepsIInv DEF StreamEvent
<1> QED BY <1>1, <1>2

(* Every other step is one of the Manager, or none. *)
LEMMA OtherStepsAreManagers ==
    ASSUME DNext,
           ~ \E u \in Uris : Change(u),
           ~ \E w \in Watches, e \in Events \ {"Change"} : StreamEvent(w, e)
    PROVE  [Next]_vars
<1>1. ASSUME NEW c \in Callers, NEW k \in Keys,
             ClientSubscribes(c, k) \/ ClientUnsubscribes(c, k)
      PROVE  Next
  <2>1. BeginSubscribe(c, k) \/ BeginUnsubscribe(c, k)
    BY <1>1 DEF ClientSubscribes, ClientUnsubscribes
  <2> QED BY <2>1 DEF Next, SubscribeCall, UnsubscribeCall
<1>2. ASSUME NEW c \in Callers, Register(c) \/ Deregister(c) PROVE Next
  <2>1. ReturnSubscribe(c) \/ ReturnUnsubscribe(c)
    BY <1>2 DEF Register, Deregister
  <2> QED BY <2>1 DEF Next, SubscribeCall, UnsubscribeCall
<1>3. ASSUME NEW s \in Sessions, ClientLeaves(s) PROVE Next
  BY <1>3 DEF ClientLeaves, Next, Supervisor
<1>4. ASSUME NEW s \in Sessions, DropSession(s) PROVE UNCHANGED vars
  BY <1>4 DEF DropSession
<1>5. ASSUME NEW k \in Keys, ClientReads(k) PROVE UNCHANGED vars
  BY <1>5 DEF ClientReads
<1>6. ASSUME NEW w \in Watches, NEW told, Deliver(w, told) \/ Drop(w) PROVE Next
  <2>1. Notify(w) \/ DropOverRate(w)
    BY <1>6 DEF Deliver, Drop
  <2> QED BY <2>1 DEF Next, Watcher
<1>7. CASE Interval
  BY <1>7 DEF Interval, Next
<1>8. CASE Internal
  BY <1>8 DEF Internal, Next, SubscribeCall, UnsubscribeCall, Supervisor, Watcher
<1> QED BY <1>1, <1>2, <1>3, <1>4, <1>5, <1>6, <1>7, <1>8 DEF DNext

LEMMA DNextKeepsIInv == IInv /\ [DNext]_dvars => IInv'
<1> SUFFICES ASSUME IInv, [DNext]_dvars PROVE IInv'
  OBVIOUS
<1>1. CASE UNCHANGED dvars
  BY <1>1, NextIInv DEF dvars
<1>2. CASE DNext
  BY <1>2, StreamKeepsIInv, OtherStepsAreManagers, NextIInv
<1> QED BY <1>1, <1>2

-----------------------------------------------------------------------------
(* The types of what this module adds. *)
DeliveryTypes ==
    /\ registered \subseteq Keys
    /\ synced \subseteq Keys
    /\ stale \subseteq synced
    /\ due \subseteq Keys
    /\ missed \subseteq synced
    /\ early \subseteq Keys
    /\ sent \in [Keys \X Watches -> 0..MaxSent]
    /\ emitted \in 0..MaxEvents

LEMMA DTypeOKSplits == DTypeOK <=> TypeOK /\ DeliveryTypes
  BY DEF DTypeOK, DeliveryTypes

(* Forgetting keys leaves types as they are. *)
LEMMA ForgetKeepsTypes ==
    ASSUME DeliveryTypes, NEW ks, Forget(ks), UNCHANGED <<registered, sent, emitted>>
    PROVE  DeliveryTypes'
  BY DEF DeliveryTypes, Forget, MaxSent

(* The bound is kept. *)
LEMMA EmitTypes == ASSUME emitted \in 0..MaxEvents, Emit PROVE emitted' \in 0..MaxEvents
  BY EventsAssumption DEF EventsAssumption, Emit

LEMMA DNextKeepsTypes ==
    ASSUME IInv, DeliveryTypes, DNext
    PROVE  DeliveryTypes'
<1>1. CASE UNCHANGED <<registered, clientVars, sent>> /\ emitted' \in 0..MaxEvents
  BY <1>1 DEF DeliveryTypes, clientVars, MaxSent
<1>2. ASSUME NEW c \in Callers, NEW k \in Keys, ClientUnsubscribes(c, k)
      PROVE  DeliveryTypes'
  BY <1>2, ForgetKeepsTypes DEF ClientUnsubscribes
<1>3. ASSUME NEW s \in Sessions, ClientLeaves(s) PROVE DeliveryTypes'
  BY <1>3, ForgetKeepsTypes DEF ClientLeaves
<1>4. ASSUME NEW c \in Callers, Register(c) \/ Deregister(c) PROVE DeliveryTypes'
  <2>1. calls[c].key \in Keys
    BY <1>4 DEF Register, Deregister, ReturnSubscribe, ReturnUnsubscribe,
                IInv, CallShape, InFlight
  <2>2. registered' \subseteq registered \cup {calls[c].key} /\ UNCHANGED <<clientVars, sent, emitted>>
    BY <1>4 DEF Register, Deregister
  <2> QED BY <2>1, <2>2 DEF DeliveryTypes, clientVars, MaxSent
<1>5. ASSUME NEW s \in Sessions, DropSession(s) PROVE DeliveryTypes'
  BY <1>5 DEF DropSession, DeliveryTypes, clientVars, MaxSent
<1>6. ASSUME NEW k \in Keys, ClientReads(k) PROVE DeliveryTypes'
  BY <1>6 DEF ClientReads, DeliveryTypes, MaxSent
<1>7. ASSUME NEW u \in Uris, Change(u) PROVE DeliveryTypes'
  <2>1. emitted' \in 0..MaxEvents
    BY <1>7, EmitTypes DEF Change, DeliveryTypes
  <2> QED BY <1>7, <2>1 DEF Change, DeliveryTypes, MaxSent
<1>8. ASSUME NEW w \in Watches, NEW told, Deliver(w, told) PROVE DeliveryTypes'
  <2>1. sent' \in [Keys \X Watches -> 0..MaxSent]
    <3>1. MaxSent \in Nat
      BY BoundAssumption DEF BoundAssumption, MaxSent
    <3>2. \A kw \in Keys \X Watches : sent[kw] \in 0..MaxSent
      BY DEF DeliveryTypes
    <3>3. \A kw \in Keys \X Watches : sent[kw] < MaxSent => sent[kw] + 1 \in 0..MaxSent
      BY <3>1, <3>2
    <3> QED BY <1>8, <3>2, <3>3 DEF Deliver
  <2>2. /\ due' \subseteq due \cup synced
        /\ missed' \subseteq missed \cup synced
        /\ UNCHANGED <<registered, synced, stale, early, emitted>>
    BY <1>8 DEF Deliver
  <2> QED BY <2>1, <2>2 DEF DeliveryTypes
<1>9. ASSUME NEW w \in Watches, Drop(w) PROVE DeliveryTypes'
  BY <1>9 DEF Drop, DeliveryTypes, MaxSent
<1>10. CASE Interval
  <2>1. sent' \in [Keys \X Watches -> 0..MaxSent]
    <3>1. 0 \in 0..MaxSent
      BY BoundAssumption DEF BoundAssumption, MaxSent
    <3> QED BY <1>10, <3>1 DEF Interval
  <2> QED BY <1>10, <2>1 DEF Interval, DeliveryTypes, clientVars
<1>11. ASSUME NEW w \in Watches, NEW e \in Events, StreamEvent(w, e) PROVE DeliveryTypes'
  <2>1. emitted' \in 0..MaxEvents
    BY <1>11, EmitTypes DEF StreamEvent, DeliveryTypes
  <2> QED BY <1>1, <1>11, <2>1 DEF StreamEvent
<1> QED BY <1>1, <1>2, <1>3, <1>4, <1>5, <1>6, <1>7, <1>8, <1>9, <1>10, <1>11
        DEF DNext, ClientSubscribes, Internal, DeliveryTypes

-----------------------------------------------------------------------------
(* The registry: requests, sessions and the two tables. *)
RegistryInv == OneRequest /\ RegistryAgrees /\ RequestAgrees /\ SyncedShape


(* Where the tables stand for a key whose one request is at pc. *)
Stands(k, pc) ==
    /\ pc \in {"idle", "resolving", "unsubscribing"} =>
          (k \in registered <=> subs[k] # NoWatch)
    /\ pc = "subscribed" => subs[k] # NoWatch
    /\ pc \in {"cancelling", "unsubscribed"} => subs[k] = NoWatch
Leaving == {"unsubscribing", "cancelling", "unsubscribed"}

(* Steps of the watches and of the supervisors' last loop. *)
LEMMA QuietRegistry ==
    ASSUME RegistryInv, UNCHANGED <<calls, sess, subs, registered, synced>>
    PROVE  RegistryInv'
<1> USE DEF RegistryInv
<1>1. OneRequest'
  BY DEF OneRequest, InFlight
<1>2. RegistryAgrees'
  BY DEF RegistryAgrees, Settled, InFlight
<1>3. RequestAgrees'
  BY DEF RequestAgrees, InFlight
<1>4. SyncedShape'
  BY DEF SyncedShape
<1> QED BY <1>1, <1>2, <1>3, <1>4

(* A client sends a request for a key that has none under way. *)
LEMMA BeginKeepsRegistry ==
    ASSUME RegistryInv, NEW c \in Callers, NEW k \in Keys, Settled(k),
           NEW pc \in {"resolving", "unsubscribing"},
           calls'[c].pc = pc, calls'[c].key = k,
           ~InFlight(c),
           \A d \in Callers \ {c} : calls'[d] = calls[d],
           sess[SessionOf(k)] = "up",
           pc = "unsubscribing" => k \notin synced',
           synced' \subseteq synced,
           UNCHANGED <<sess, subs, registered>>
    PROVE  RegistryInv'
<1> USE DEF RegistryInv
<1>1. \A d \in Callers : InFlight(d)' <=> d = c \/ InFlight(d)
  BY DEF InFlight
<1>2. OneRequest'
  BY <1>1 DEF OneRequest, Settled
<1>3. RegistryAgrees'
  <2>1. \A j \in Keys : Settled(j)' => Settled(j)
    BY <1>1 DEF Settled
  <2> QED BY <2>1 DEF RegistryAgrees
<1>4. RequestAgrees'
  <2>1. k \in registered <=> subs[k] # NoWatch
    BY DEF RegistryAgrees
  <2>2. ASSUME NEW d \in Callers, d # c, InFlight(d)' , sess[SessionOf(calls[d].key)] = "up"
        PROVE  Stands(calls[d].key, calls[d].pc)
    <3>1. InFlight(d) /\ calls[d].pc # "idle"
      BY <1>1, <2>2 DEF InFlight
    <3> QED BY <2>2, <3>1 DEF RequestAgrees, Stands
  <2>3. Stands(k, pc)
    BY <2>1 DEF Stands
  <2> QED BY <2>2, <2>3 DEF RequestAgrees, Stands
<1>5. SyncedShape'
  BY DEF SyncedShape
<1> QED BY <1>2, <1>3, <1>4, <1>5

(* A request goes on, or is answered: only its own key is concerned. *)
LEMMA RequestKeepsRegistry ==
    ASSUME IInv, RegistryInv, NEW c \in Callers, InFlight(c),
           NEW k \in Keys, k = calls[c].key,
           NEW pc, calls'[c].pc = pc,
           pc # "idle" => calls'[c].key = k,
           \A d \in Callers \ {c} : calls'[d] = calls[d],
           \A j \in Keys \ {k} : /\ subs'[j] # NoWatch <=> subs[j] # NoWatch
                                 /\ j \in registered' <=> j \in registered,
           sess[SessionOf(k)] = "up" => Stands(k, pc)',
           k \in synced => k \in registered' /\ pc \notin Leaving,
           synced \subseteq Keys,
           UNCHANGED <<sess, synced>>
    PROVE  RegistryInv'
<1> USE DEF RegistryInv
<1>1. \A d \in Callers \ {c} : InFlight(d)' <=> InFlight(d)
  BY DEF InFlight
<1>2. InFlight(c)' <=> pc # "idle"
  BY DEF InFlight
<1>3. \A d \in Callers : d # c /\ InFlight(d) => calls[d].key \in Keys \ {k}
  BY DEF OneRequest, IInv, CallShape
<1>4. OneRequest'
  <2>1. \A d \in Callers \ {c} : InFlight(d)' => calls'[d].key # k
    BY <1>1, <1>3
  <2>2. \A d, e \in Callers \ {c} :
            InFlight(d)' /\ InFlight(e)' /\ calls'[d].key = calls'[e].key => d = e
    BY <1>1 DEF OneRequest
  <2> QED BY <1>2, <2>1, <2>2 DEF OneRequest
<1>5. RegistryAgrees'
  <2>1. ASSUME NEW j \in Keys, Settled(j)', sess[SessionOf(j)] = "up"
        PROVE  j \in registered' <=> subs'[j] # NoWatch
    <3>1. CASE j # k
      <4>1. Settled(j)
        BY <1>1, <2>1, <3>1 DEF Settled
      <4> QED BY <2>1, <3>1, <4>1 DEF RegistryAgrees
    <3>2. CASE j = k
      <4>1. pc = "idle"
        BY <1>2, <2>1, <3>2 DEF Settled
      <4> QED BY <2>1, <3>2, <4>1 DEF Stands
    <3> QED BY <3>1, <3>2
  <2> QED BY <2>1 DEF RegistryAgrees
<1>6. RequestAgrees'
  <2>1. ASSUME NEW d \in Callers, InFlight(d)', sess[SessionOf(calls'[d].key)] = "up"
        PROVE  Stands(calls[d].key, calls[d].pc)'
    <3>1. CASE d = c
      BY <1>2, <2>1, <3>1
    <3>2. CASE d # c
      <4>1. calls'[d] = calls[d] /\ InFlight(d) /\ calls[d].key \in Keys \ {k}
        BY <1>1, <1>3, <2>1, <3>2
      <4>2. Stands(calls[d].key, calls[d].pc)
        BY <2>1, <4>1 DEF RequestAgrees, Stands, InFlight
      <4> QED BY <4>1, <4>2 DEF Stands
    <3> QED BY <3>1, <3>2
  <2> QED BY <2>1 DEF RequestAgrees, Stands
<1>7. SyncedShape'
  <2>1. ASSUME NEW j \in synced
        PROVE  /\ sess'[SessionOf(j)] = "up" /\ j \in registered'
               /\ \A d \in Callers : calls'[d].key = j => calls'[d].pc \notin Leaving
    <3>1. sess'[SessionOf(j)] = "up" /\ j \in registered'
      BY DEF SyncedShape
    <3>2. ASSUME NEW d \in Callers, calls'[d].key = j PROVE calls'[d].pc \notin Leaving
      <4>1. CASE d # c
        BY <3>2, <4>1 DEF SyncedShape, Leaving
      <4>2. CASE d = c /\ pc = "idle"
        BY <4>2 DEF Leaving
      <4>3. CASE d = c /\ pc # "idle"
        BY <3>2, <4>3
      <4> QED BY <4>1, <4>2, <4>3
    <3> QED BY <3>1, <3>2
  <2> QED BY <2>1 DEF SyncedShape, Leaving
<1> QED BY <1>4, <1>5, <1>6, <1>7

(* A session that is not up: what happens to its keys concerns nobody. *)
LEMMA SessionKeepsRegistry ==
    ASSUME IInv, RegistryInv, NEW s \in Sessions, synced \subseteq Keys,
           sess'[s] # "up",
           \A t \in Sessions \ {s} : sess'[t] = sess[t],
           \A j \in Keys : SessionOf(j) # s =>
               /\ subs'[j] # NoWatch <=> subs[j] # NoWatch
               /\ j \in registered' <=> j \in registered,
           synced' \subseteq synced,
           \A j \in synced' : SessionOf(j) # s,
           UNCHANGED calls
    PROVE  RegistryInv'
<1> USE DEF RegistryInv
<1>1. \A c \in Callers : InFlight(c)' <=> InFlight(c)
  BY DEF InFlight
<1>2. \A j \in Keys : SessionOf(j) \in Sessions
  BY DEF Keys, SessionOf
<1>3. \A j \in Keys : sess'[SessionOf(j)] = "up" =>
         SessionOf(j) # s /\ sess[SessionOf(j)] = "up"
  BY <1>2
<1>4. OneRequest'
  BY <1>1 DEF OneRequest
<1>5. RegistryAgrees'
  BY <1>1, <1>3 DEF RegistryAgrees, Settled
<1>6. RequestAgrees'
  <2>1. ASSUME NEW c \in Callers, InFlight(c), sess'[SessionOf(calls[c].key)] = "up"
        PROVE  Stands(calls[c].key, calls[c].pc)'
    <3>1. calls[c].key \in Keys
      BY <2>1 DEF IInv, CallShape
    <3>2. Stands(calls[c].key, calls[c].pc)
      BY <1>3, <2>1, <3>1 DEF RequestAgrees, Stands, InFlight
    <3> QED BY <1>3, <2>1, <3>1, <3>2 DEF Stands
  <2> QED BY <1>1, <2>1 DEF RequestAgrees, Stands
<1>7. SyncedShape'
  <2>1. ASSUME NEW j \in synced'
        PROVE  sess'[SessionOf(j)] = "up" /\ j \in registered'
    BY <1>2 DEF SyncedShape
  <2> QED BY <2>1 DEF SyncedShape
<1> QED BY <1>4, <1>5, <1>6, <1>7

(* The steps of a request, one by one. *)
LEMMA RequestsKeepRegistry ==
    ASSUME IInv, RegistryInv, synced \subseteq Keys, NEW c \in Callers,
           \/ \E k \in Keys : ClientSubscribes(c, k) \/ ClientUnsubscribes(c, k)
           \/ Register(c) \/ Deregister(c)
           \/ /\ \/ RejectSubscribe(c) \/ DuplicateSubscribe(c)
                 \/ \E w \in Watches : OpenSubscription(c, w)
                 \/ RemoveSubscription(c) \/ NothingToRemove(c) \/ CancelRemoved(c)
              /\ UNCHANGED <<registered, clientVars>>
    PROVE  RegistryInv'
<1> PICK k \in Keys \cup {NoKey} : k = calls[c].key
  BY DEF IInv, TypeOK
<1>0. /\ calls \in [Callers -> [pc : CallPcs, key : Keys \cup {NoKey}, watch : Watches \cup {NoWatch}]]
      /\ subs \in [Keys -> Watches \cup {NoWatch}]
  BY DEF IInv, TypeOK
<1>1. ASSUME NEW j \in Keys, ClientSubscribes(c, j) PROVE RegistryInv'
  <2>1. /\ Settled(j) /\ calls[c].pc = "idle" /\ sess[SessionOf(j)] = "up"
        /\ calls' = [calls EXCEPT ![c] = [pc |-> "resolving", key |-> j, watch |-> NoWatch]]
        /\ UNCHANGED <<sess, subs, registered, synced>>
    BY <1>1 DEF ClientSubscribes, BeginSubscribe, SetCall, mapVars, sessVars, clientVars
  <2>2. /\ calls'[c].pc = "resolving" /\ calls'[c].key = j
        /\ \A d \in Callers \ {c} : calls'[d] = calls[d]
    BY <1>0, <2>1
  <2> QED BY <2>1, <2>2, BeginKeepsRegistry DEF InFlight
<1>2. ASSUME NEW j \in Keys, ClientUnsubscribes(c, j) PROVE RegistryInv'
  <2>1. /\ Settled(j) /\ calls[c].pc = "idle" /\ sess[SessionOf(j)] = "up"
        /\ calls' = [calls EXCEPT ![c] = [pc |-> "unsubscribing", key |-> j, watch |-> NoWatch]]
        /\ synced' = synced \ {j}
        /\ UNCHANGED <<sess, subs, registered>>
    BY <1>2 DEF ClientUnsubscribes, BeginUnsubscribe, SetCall, Forget, mapVars, sessVars
  <2>2. /\ calls'[c].pc = "unsubscribing" /\ calls'[c].key = j
        /\ \A d \in Callers \ {c} : calls'[d] = calls[d]
    BY <1>0, <2>1
  <2> QED BY <2>1, <2>2, BeginKeepsRegistry DEF InFlight
(* A request under way: its key is one, and how the tables stand for it. *)
<1>3. ASSUME InFlight(c)
      PROVE  /\ k \in Keys
             /\ sess[SessionOf(k)] = "up" => Stands(k, calls[c].pc)
             /\ k \in synced => k \in registered /\ calls[c].pc \notin Leaving
  <2>1. k \in Keys
    BY <1>3 DEF IInv, CallShape
  <2>2. sess[SessionOf(k)] = "up" => Stands(k, calls[c].pc)
    BY <1>3 DEF RegistryInv, RequestAgrees, Stands, InFlight
  <2>3. k \in synced => k \in registered /\ calls[c].pc \notin Leaving
    BY DEF RegistryInv, SyncedShape, Leaving
  <2> QED BY <2>1, <2>2, <2>3
(* What one step of it must show. *)
<1>4. ASSUME InFlight(c), NEW r, calls' = [calls EXCEPT ![c] = r],
             r.pc # "idle" => r.key = k,
             \A j \in Keys \ {k} : /\ subs'[j] # NoWatch <=> subs[j] # NoWatch
                                   /\ j \in registered' <=> j \in registered,
             sess[SessionOf(k)] = "up" => Stands(k, r.pc)',
             k \in synced => k \in registered' /\ r.pc \notin Leaving,
             UNCHANGED <<sess, synced>>
      PROVE  RegistryInv'
  <2>1. calls'[c] = r /\ \A d \in Callers \ {c} : calls'[d] = calls[d]
    BY <1>0, <1>4
  <2> QED BY <1>3, <1>4, <2>1, RequestKeepsRegistry
<1>5. IdleCall.pc = "idle" /\ "idle" \notin Leaving
  BY DEF IdleCall, Leaving
<1>6. CASE Register(c)
  <2>1. /\ calls[c].pc = "subscribed" /\ InFlight(c)
        /\ calls' = [calls EXCEPT ![c] = IdleCall]
        /\ registered' = registered \cup {k}
        /\ UNCHANGED <<sess, subs, synced>>
    BY <1>6 DEF Register, ReturnSubscribe, InFlight, mapVars, sessVars, clientVars
  <2>2. sess[SessionOf(k)] = "up" => Stands(k, "idle")'
    BY <1>3, <2>1 DEF Stands
  <2> QED BY <1>4, <1>5, <2>1, <2>2
<1>7. CASE Deregister(c)
  <2>1. /\ calls[c].pc = "unsubscribed" /\ InFlight(c)
        /\ calls' = [calls EXCEPT ![c] = IdleCall]
        /\ registered' = registered \ {k}
        /\ UNCHANGED <<sess, subs, synced>>
    BY <1>7 DEF Deregister, ReturnUnsubscribe, InFlight, mapVars, sessVars, clientVars
  <2>2. sess[SessionOf(k)] = "up" => Stands(k, "idle")'
    BY <1>3, <2>1 DEF Stands
  <2>3. k \notin synced
    BY <1>3, <2>1 DEF Leaving
  <2> QED BY <1>4, <1>5, <2>1, <2>2, <2>3
<1>8. CASE RejectSubscribe(c) /\ UNCHANGED <<registered, clientVars>>
  <2>1. /\ calls[c].pc = "resolving" /\ InFlight(c)
        /\ calls' = [calls EXCEPT ![c] = IdleCall]
        /\ UNCHANGED <<sess, subs, registered, synced>>
    BY <1>8 DEF RejectSubscribe, InFlight, mapVars, sessVars, clientVars
  <2>2. sess[SessionOf(k)] = "up" => Stands(k, "idle")'
    BY <1>3, <2>1 DEF Stands
  <2> QED BY <1>3, <1>4, <1>5, <2>1, <2>2
<1>9. CASE DuplicateSubscribe(c) /\ UNCHANGED <<registered, clientVars>>
  <2>1. /\ calls[c].pc = "resolving" /\ InFlight(c) /\ subs[k] # NoWatch
        /\ calls' = [calls EXCEPT ![c] = [pc |-> "subscribed", key |-> k, watch |-> NoWatch]]
        /\ UNCHANGED <<sess, subs, registered, synced>>
    BY <1>9 DEF DuplicateSubscribe, Vacant, SetCall, InFlight, mapVars, sessVars, clientVars
  <2>2. Stands(k, "subscribed")'
    BY <2>1 DEF Stands
  <2> QED BY <1>3, <1>4, <2>1, <2>2 DEF Leaving
<1>10. ASSUME NEW w \in Watches, OpenSubscription(c, w), UNCHANGED <<registered, clientVars>>
       PROVE  RegistryInv'
  <2>1. /\ calls[c].pc = "resolving" /\ InFlight(c)
        /\ calls' = [calls EXCEPT ![c] = [pc |-> "subscribed", key |-> k, watch |-> w]]
        /\ subs' = [subs EXCEPT ![k] = w]
        /\ UNCHANGED <<sess, registered, synced>>
    BY <1>10 DEF OpenSubscription, SetCall, InFlight, sessVars, clientVars
  <2>2. subs'[k] = w /\ w # NoWatch /\ \A j \in Keys \ {k} : subs'[j] = subs[j]
    BY <1>0, <1>3, <2>1, KeyAssumption DEF KeyAssumption
  <2>3. Stands(k, "subscribed")'
    BY <2>2 DEF Stands
  <2> QED BY <1>3, <1>4, <2>1, <2>2, <2>3 DEF Leaving
<1>11. CASE RemoveSubscription(c) /\ UNCHANGED <<registered, clientVars>>
  <2>1. PICK w : /\ calls[c].pc = "unsubscribing" /\ InFlight(c)
                 /\ calls' = [calls EXCEPT ![c] = [pc |-> "cancelling", key |-> k, watch |-> w]]
                 /\ subs' = [subs EXCEPT ![k] = NoWatch]
                 /\ UNCHANGED <<sess, registered, synced>>
    BY <1>11 DEF RemoveSubscription, Removed, SetCall, InFlight, sessVars, clientVars
  <2>2. subs'[k] = NoWatch /\ \A j \in Keys \ {k} : subs'[j] = subs[j]
    BY <1>0, <1>3, <2>1
  <2>3. Stands(k, "cancelling")'
    BY <2>2 DEF Stands
  <2>4. k \notin synced
    BY <1>3, <2>1 DEF Leaving
  <2> QED BY <1>3, <1>4, <2>1, <2>2, <2>3, <2>4
<1>12. CASE NothingToRemove(c) /\ UNCHANGED <<registered, clientVars>>
  <2>1. /\ calls[c].pc = "unsubscribing" /\ InFlight(c) /\ subs[k] = NoWatch
        /\ calls' = [calls EXCEPT ![c] = [pc |-> "unsubscribed", key |-> k, watch |-> NoWatch]]
        /\ UNCHANGED <<sess, subs, registered, synced>>
    BY <1>12 DEF NothingToRemove, SetCall, InFlight, mapVars, sessVars, clientVars
  <2>2. Stands(k, "unsubscribed")'
    BY <2>1 DEF Stands
  <2>3. k \notin synced
    BY <1>3, <2>1 DEF Leaving
  <2> QED BY <1>3, <1>4, <2>1, <2>2, <2>3
<1>13. CASE CancelRemoved(c) /\ UNCHANGED <<registered, clientVars>>
  <2>1. PICK w : /\ calls[c].pc = "cancelling" /\ InFlight(c)
                 /\ calls' = [calls EXCEPT ![c] = [pc |-> "unsubscribed", key |-> k, watch |-> w]]
                 /\ UNCHANGED <<sess, subs, registered, synced>>
    BY <1>13 DEF CancelRemoved, SetCall, InFlight, mapVars, sessVars, clientVars
  <2>2. sess[SessionOf(k)] = "up" => Stands(k, "unsubscribed")'
    BY <1>3, <2>1 DEF Stands
  <2>3. k \notin synced
    BY <1>3, <2>1 DEF Leaving
  <2> QED BY <1>3, <1>4, <2>1, <2>2, <2>3
<1> QED BY <1>1, <1>2, <1>6, <1>7, <1>8, <1>9, <1>10, <1>11, <1>12, <1>13

(* A client reads: its key is registered and no request for it is under way. *)
LEMMA ReadKeepsRegistry ==
    ASSUME RegistryInv, NEW k \in Keys, ClientReads(k)
    PROVE  RegistryInv'
<1>1. /\ k \in registered /\ sess[SessionOf(k)] = "up" /\ Settled(k)
      /\ synced' = synced \cup {k}
      /\ UNCHANGED <<subs, sess, calls, registered>>
  BY DEF ClientReads, vars
<1>2. OneRequest' /\ RegistryAgrees' /\ RequestAgrees'
  BY <1>1 DEF RegistryInv, OneRequest, RegistryAgrees, RequestAgrees, Settled, InFlight
<1>3. \A c \in Callers : calls[c].key = k => calls[c].pc \notin Leaving
  BY <1>1 DEF Settled, InFlight, Leaving
<1>4. SyncedShape'
  BY <1>1, <1>3 DEF RegistryInv, SyncedShape, Leaving
<1> QED BY <1>2, <1>4 DEF RegistryInv

(* The end of a session: the client, the supervisor and the SDK forget it. *)
LEMMA SessionEndKeepsRegistry ==
    ASSUME IInv, RegistryInv, synced \subseteq Keys, NEW s \in Sessions,
           ClientLeaves(s) \/ DropSession(s)
             \/ (CleanupSession(s) /\ UNCHANGED <<registered, clientVars>>)
    PROVE  RegistryInv'
<1>0. sess \in [Sessions -> {"up", "closed", "cleaned"}]
  BY DEF IInv, TypeOK
<1>1. \A j \in Keys : SessionOf(j) = s <=> j \in KeysOfSession(s)
  BY DEF Keys, SessionOf, KeysOfSession
<1>2. sess[s] # "up" => \A j \in synced : SessionOf(j) # s
  BY DEF RegistryInv, SyncedShape
<1>3. CASE ClientLeaves(s)
  <2>1. /\ sess' = [sess EXCEPT ![s] = "closed"]
        /\ synced' = synced \ KeysOfSession(s)
        /\ UNCHANGED <<calls, subs, registered>>
    BY <1>3 DEF ClientLeaves, Disconnect, Forget, mapVars
  <2>2. sess'[s] # "up" /\ \A t \in Sessions \ {s} : sess'[t] = sess[t]
    BY <1>0, <2>1
  <2> QED BY <1>1, <2>1, <2>2, SessionKeepsRegistry
<1>4. CASE DropSession(s)
  <2>1. /\ sess[s] # "up"
        /\ registered' = registered \ KeysOfSession(s)
        /\ UNCHANGED <<calls, subs, sess, synced>>
    BY <1>4 DEF DropSession, vars, clientVars
  <2> QED BY <1>1, <1>2, <2>1, SessionKeepsRegistry
<1>5. CASE CleanupSession(s) /\ UNCHANGED <<registered, clientVars>>
  <2>1. /\ sess[s] = "closed" /\ sess' = [sess EXCEPT ![s] = "cleaned"]
        /\ subs' = WithoutKeysOf(s)
        /\ UNCHANGED <<calls, registered, synced>>
    BY <1>5 DEF CleanupSession, clientVars
  <2>2. sess'[s] # "up" /\ \A t \in Sessions \ {s} : sess'[t] = sess[t]
    BY <1>0, <2>1
  <2>3. \A j \in Keys : SessionOf(j) # s => subs'[j] = subs[j]
    BY <2>1 DEF WithoutKeysOf
  <2> QED BY <1>2, <2>1, <2>2, <2>3, SessionKeepsRegistry
<1> QED BY <1>3, <1>4, <1>5

(* Every step. *)
LEMMA DNextKeepsRegistry ==
    ASSUME IInv, DeliveryTypes, RegistryInv, DNext
    PROVE  RegistryInv'
<1>0. synced \subseteq Keys
  BY DEF DeliveryTypes
<1>1. ASSUME NEW c \in Callers, NEW k \in Keys,
             ClientSubscribes(c, k) \/ ClientUnsubscribes(c, k)
      PROVE  RegistryInv'
  BY <1>0, <1>1, RequestsKeepRegistry
<1>2. ASSUME NEW c \in Callers, Register(c) \/ Deregister(c) PROVE RegistryInv'
  BY <1>0, <1>2, RequestsKeepRegistry
<1>3. ASSUME NEW s \in Sessions, ClientLeaves(s) \/ DropSession(s) PROVE RegistryInv'
  BY <1>0, <1>3, SessionEndKeepsRegistry
<1>4. ASSUME NEW k \in Keys, ClientReads(k) PROVE RegistryInv'
  BY <1>4, ReadKeepsRegistry
<1>5. ASSUME NEW u \in Uris, Change(u) PROVE RegistryInv'
  BY <1>5, QuietRegistry DEF Change, Publish, mapVars, sessVars
<1>6. ASSUME NEW w \in Watches, NEW e \in Events, StreamEvent(w, e) PROVE RegistryInv'
  BY <1>6, QuietRegistry DEF StreamEvent, Publish, mapVars, sessVars, clientVars
<1>7. ASSUME NEW w \in Watches, NEW told, Deliver(w, told) \/ Drop(w) PROVE RegistryInv'
  BY <1>7, QuietRegistry
     DEF Deliver, Drop, Notify, DropOverRate, EventDone, mapVars, sessVars
<1>8. CASE Interval
  BY <1>8, QuietRegistry DEF Interval, Refill, mapVars, sessVars, clientVars
<1>9. CASE Internal
  <2>0. UNCHANGED <<registered, clientVars>>
    BY <1>9 DEF Internal
  <2>1. ASSUME NEW c \in Callers,
               \/ RejectSubscribe(c) \/ DuplicateSubscribe(c)
               \/ \E w \in Watches : OpenSubscription(c, w)
               \/ RemoveSubscription(c) \/ NothingToRemove(c) \/ CancelRemoved(c)
        PROVE  RegistryInv'
    BY <1>0, <2>0, <2>1, RequestsKeepRegistry
  <2>2. ASSUME NEW s \in Sessions, CleanupSession(s) PROVE RegistryInv'
    BY <1>0, <2>0, <2>2, SessionEndKeepsRegistry
  <2>3. ASSUME NEW s \in Sessions, NEW w \in Watches, CancelDoomed(s, w) PROVE RegistryInv'
    BY <2>0, <2>3, QuietRegistry DEF CancelDoomed, mapVars, clientVars
  <2>4. ASSUME NEW w \in Watches,
               \/ StartWatch(w) \/ StartFails(w) \/ ObserveDone(w)
               \/ TakeBatch(w) \/ SkipEvent(w) \/ WatchErrored(w)
        PROVE  RegistryInv'
    <3>1. UNCHANGED <<mapVars, calls, sessVars>>
      BY <2>4 DEF StartWatch, StartFails, ObserveDone, TakeBatch, SkipEvent, WatchErrored,
                  Stop, EventDone
    <3> QED BY <2>0, <3>1, QuietRegistry DEF mapVars, sessVars, clientVars
  <2>5. CASE Shutdown
    BY <2>0, <2>5, QuietRegistry DEF Shutdown, mapVars, sessVars, clientVars
  <2> QED BY <1>9, <2>1, <2>2, <2>3, <2>4, <2>5 DEF Internal
<1> QED BY <1>1, <1>2, <1>3, <1>4, <1>5, <1>6, <1>7, <1>8, <1>9 DEF DNext

-----------------------------------------------------------------------------
(* Staleness: what a watch carries to a client that has not read since. *)
StaleInv == NoSilentStale /\ EarlyKnown /\ NothingBuffered

(* The change is in the goroutine's hands or in its channel. *)
Carries(w) == ChangeIn(batch[w]) \/ \E i \in DOMAIN buf[w] : ChangeIn(buf[w][i])
Excused(k) ==
    \/ OnItsWay(k)
    \/ WatchEnded(k)
    \/ k \in missed
    \/ ReadTooEarly(k)
    \/ UriOf(k) \notin Reached

LEMMA NoSilentStaleIs == NoSilentStale <=> \A k \in stale : Excused(k)
  BY DEF NoSilentStale, Excused

LEMMA OnItsWayIs ==
    ASSUME NEW k
    PROVE  OnItsWay(k) <=>
             \/ k \in due
             \/ /\ subs[k] # NoWatch
                /\ \/ wpc[subs[k]] = "starting" /\ UriOf(k) \notin Lists
                   \/ Carries(subs[k])
  BY DEF OnItsWay, Carries

(* A client that has read, and has not unsubscribed, has a watch. *)
LEMMA SyncedHasWatch ==
    ASSUME IInv, DeliveryTypes, RegistryInv, NEW k \in synced
    PROVE  k \in Keys /\ subs[k] \in Watches
<1>1. k \in Keys /\ subs[k] \in Watches \cup {NoWatch}
  BY DEF DeliveryTypes, IInv, TypeOK
<1>2. sess[SessionOf(k)] = "up" /\ k \in registered
  BY DEF RegistryInv, SyncedShape
<1>3. subs[k] # NoWatch
  <2>1. CASE Settled(k)
    BY <1>1, <1>2, <2>1 DEF RegistryInv, RegistryAgrees
  <2>2. CASE ~Settled(k)
    <3>1. PICK c \in Callers : InFlight(c) /\ calls[c].key = k
      BY <2>2 DEF Settled
    <3>2. calls[c].pc \in {"resolving", "subscribed"}
      <4>1. calls[c].pc \in CallPcs
        BY DEF IInv, TypeOK
      <4> QED BY <3>1, <4>1 DEF RegistryInv, SyncedShape, CallPcs, InFlight
    <3> QED BY <1>2, <3>1, <3>2 DEF RegistryInv, RequestAgrees
  <2> QED BY <2>1, <2>2
<1> QED BY <1>1, <1>3

(* A step that leaves the synchronised keys' watches where they are, and    *)
(* may only forget keys.                                                    *)
LEMMA QuietStale ==
    ASSUME StaleInv, stale' \subseteq synced',
           \A k \in synced' : /\ k \in synced
                              /\ k \in early => k \in early'
                              /\ subs'[k] = subs[k]
                              /\ wpc'[subs[k]] = wpc[subs[k]],
           \A k \in stale' : /\ k \in stale
                             /\ k \in due => k \in due'
                             /\ k \in missed => k \in missed',
           \A w \in Watches : wpc'[w] \in {"unused", "starting"} =>
                                  wpc[w] \in {"unused", "starting"},
           rootDone => rootDone',
           UNCHANGED <<buf, batch>>
    PROVE  StaleInv'
<1> USE DEF StaleInv
<1>1. EarlyKnown'
  BY DEF EarlyKnown
<1>2. NothingBuffered'
  BY DEF NothingBuffered
<1>3. ASSUME NEW k \in stale' PROVE Excused(k)'
  <2>1. k \in synced' /\ Excused(k)
    BY <1>3, NoSilentStaleIs
  <2>2. subs'[k] = subs[k] /\ wpc'[subs[k]] = wpc[subs[k]]
    BY <2>1
  <2>3. Carries(subs[k]) <=> Carries(subs[k])'
    BY <2>2 DEF Carries
  <2>4. OnItsWay(k) => OnItsWay(k)'
    BY <1>3, <2>2, <2>3 DEF OnItsWay, Carries
  <2>5. WatchEnded(k) => WatchEnded(k)'
    BY <2>2 DEF WatchEnded
  <2>6. ReadTooEarly(k) => ReadTooEarly(k)'
    BY <2>1 DEF ReadTooEarly
  <2> QED BY <1>3, <2>1, <2>4, <2>5, <2>6 DEF Excused
<1>4. NoSilentStale'
  BY <1>3 DEF NoSilentStale, Excused
<1> QED BY <1>1, <1>2, <1>4

(* A step of one watch: what it carried is with the client, given up, still  *)
(* carried, or the watch has ended.                                         *)
LEMMA WatchKeepsStale ==
    ASSUME IInv, DeliveryTypes, StaleInv, NEW w \in Watches,
           \A v \in Watches \ {w} :
               wpc'[v] = wpc[v] /\ buf'[v] = buf[v] /\ batch'[v] = batch[v],
           wpc'[w] \notin {"unused", "starting"},
           wpc[w] = "stopped" => wpc'[w] = "stopped",
           \A k \in stale :
               /\ subs[k] = w
               /\ Carries(w) \/ (wpc[w] = "starting" /\ UriOf(k) \notin Lists)
               => k \in due' \/ k \in missed' \/ Carries(w)' \/ wpc'[w] = "stopped",
           due \subseteq due', missed \subseteq missed',
           UNCHANGED <<subs, rootDone, synced, stale, early>>
    PROVE  StaleInv'
<1> USE DEF StaleInv
<1>0. \A k \in synced : subs[k] \in Watches \cup {NoWatch}
  BY DEF DeliveryTypes, IInv, TypeOK
<1>1. EarlyKnown'
  BY <1>0 DEF EarlyKnown
<1>2. NothingBuffered'
  BY DEF NothingBuffered
<1>3. ASSUME NEW k \in stale PROVE Excused(k)'
  <2>1. Excused(k) /\ subs[k] \in Watches \cup {NoWatch}
    BY <1>0, NoSilentStaleIs DEF DeliveryTypes
  <2>2. CASE subs[k] # w
    <3>1. subs[k] # NoWatch =>
            /\ wpc'[subs[k]] = wpc[subs[k]]
            /\ Carries(subs[k]) <=> Carries(subs[k])'
      BY <2>1, <2>2 DEF Carries
    <3>2. OnItsWay(k) => OnItsWay(k)'
      BY <3>1 DEF OnItsWay, Carries
    <3>3. WatchEnded(k) => WatchEnded(k)'
      BY <3>1 DEF WatchEnded
    <3> QED BY <2>1, <3>2, <3>3 DEF Excused, ReadTooEarly
  <2>3. CASE subs[k] = w
    <3>1. OnItsWay(k) => k \in due' \/ k \in missed' \/ Carries(w)' \/ wpc'[w] = "stopped"
      BY <2>3, OnItsWayIs
    <3>2. w # NoWatch /\ subs'[k] = w
      BY <2>3, KeyAssumption DEF KeyAssumption
    <3>3. k \in due' \/ Carries(w)' => OnItsWay(k)'
      BY <3>2 DEF OnItsWay, Carries
    <3>4. wpc'[w] = "stopped" \/ WatchEnded(k) => WatchEnded(k)'
      BY <2>3, <3>2 DEF WatchEnded
    <3> QED BY <2>1, <3>1, <3>3, <3>4 DEF Excused, ReadTooEarly
  <2> QED BY <2>2, <2>3
<1>4. NoSilentStale'
  BY <1>3 DEF NoSilentStale, Excused
<1> QED BY <1>1, <1>2, <1>4

(* What is in a sequence is its head or in its tail. *)
LEMMA HeadOrTail ==
    ASSUME NEW S, NEW q \in Seq(S), NEW i \in DOMAIN q
    PROVE  \/ q[i] = Head(q)
           \/ \E j \in DOMAIN Tail(q) : Tail(q)[j] = q[i]
<1>1. Len(q) \in Nat /\ i \in 1..Len(q) /\ q # <<>>
  OBVIOUS
<1>2. CASE i = 1
  BY <1>1, <1>2, HeadTailProperties
<1>3. CASE i # 1
  <2>1. i - 1 \in 1..(Len(q) - 1)
    BY <1>1, <1>3
  <2>2. DOMAIN Tail(q) = 1..(Len(q) - 1) /\ Tail(q)[i - 1] = q[i]
    BY <1>1, <2>1
  <2> QED BY <2>1, <2>2
<1> QED BY <1>2, <1>3

(* The watch a stale key maps to was opened for it. *)
LEMMA StaleWatch ==
    ASSUME IInv, DeliveryTypes, RegistryInv, NEW k \in stale
    PROVE  /\ k \in synced /\ k \in Keys /\ k \in registered
           /\ subs[k] \in Watches
           /\ wkey[subs[k]] = k
           /\ wpc[subs[k]] # "unused"
<1>1. k \in synced /\ k \in registered
  BY DEF DeliveryTypes, RegistryInv, SyncedShape
<1>2. k \in Keys /\ subs[k] \in Watches
  BY <1>1, SyncedHasWatch
<1>3. subs[k] # NoWatch
  BY <1>2, KeyAssumption DEF KeyAssumption
<1> QED BY <1>1, <1>2, <1>3 DEF IInv, OpenIsNotCancelled

(* The first event of an aggregated watch is not the resource's state; of   *)
(* any other it is.                                                         *)
LEMMA StartKeepsStale ==
    ASSUME IInv, DeliveryTypes, RegistryInv, StaleInv, NEW w \in Watches, StartWatch(w),
           UNCHANGED clientVars
    PROVE  StaleInv'
<1>0. wpc \in [Watches -> WatchPcs] /\ buf \in [Watches -> Seq(Seq(Events))]
  BY DEF IInv, TypeOK
<1>1. /\ wpc[w] = "starting"
      /\ wpc' = [wpc EXCEPT ![w] = "selecting"]
      /\ buf' = [buf EXCEPT ![w] = InitialEvents(UriOf(wkey[w]))]
      /\ UNCHANGED <<batch, subs, rootDone, synced, stale, early, due, missed>>
  BY DEF StartWatch, mapVars, ctxVars, clientVars
<1>2. /\ \A v \in Watches \ {w} :
             wpc'[v] = wpc[v] /\ buf'[v] = buf[v] /\ batch'[v] = batch[v]
      /\ wpc'[w] = "selecting"
      /\ buf'[w] = InitialEvents(UriOf(wkey[w]))
  BY <1>0, <1>1
<1>3. ~Carries(w)
  <2>1. buf[w] = <<>>
    BY <1>1 DEF StaleInv, NothingBuffered
  <2>2. batch[w] = <<>>
    BY <1>1 DEF IInv, WatchShape
  <2> QED BY <2>1, <2>2 DEF Carries, ChangeIn
<1>4. ASSUME NEW k \in stale, subs[k] = w, UriOf(k) \notin Lists PROVE Carries(w)'
  <2>1. wkey[w] = k
    BY <1>4, StaleWatch
  <2>2. buf'[w] = << <<"Change">> >>
    BY <1>2, <1>4, <2>1 DEF InitialEvents
  <2>3. 1 \in DOMAIN buf'[w] /\ ChangeIn(buf'[w][1])
    BY <2>2 DEF ChangeIn
  <2> QED BY <2>3 DEF Carries
<1> QED BY <1>1, <1>2, <1>3, <1>4, WatchKeepsStale

(* A goroutine that returns ends its watch. *)
LEMMA StopKeepsStale ==
    ASSUME IInv, DeliveryTypes, RegistryInv, StaleInv, NEW w \in Watches, Stop(w),
           UNCHANGED clientVars
    PROVE  StaleInv'
<1>0. /\ wpc \in [Watches -> WatchPcs]
      /\ buf \in [Watches -> Seq(Seq(Events))]
      /\ batch \in [Watches -> Seq(Events)]
  BY DEF IInv, TypeOK
<1>1. /\ wpc' = [wpc EXCEPT ![w] = "stopped"]
      /\ buf' = [buf EXCEPT ![w] = <<>>]
      /\ batch' = [batch EXCEPT ![w] = <<>>]
      /\ UNCHANGED <<subs, rootDone, synced, stale, early, due, missed>>
  BY DEF Stop, mapVars, ctxVars, clientVars
<1>2. /\ \A v \in Watches \ {w} :
             wpc'[v] = wpc[v] /\ buf'[v] = buf[v] /\ batch'[v] = batch[v]
      /\ wpc'[w] = "stopped"
  BY <1>0, <1>1
<1> QED BY <1>1, <1>2, WatchKeepsStale

(* A batch goes from the channel into the goroutine's hands. *)
LEMMA TakeKeepsStale ==
    ASSUME IInv, DeliveryTypes, RegistryInv, StaleInv, NEW w \in Watches, TakeBatch(w),
           UNCHANGED clientVars
    PROVE  StaleInv'
<1>0. /\ wpc \in [Watches -> WatchPcs]
      /\ buf \in [Watches -> Seq(Seq(Events))]
      /\ batch \in [Watches -> Seq(Events)]
  BY DEF IInv, TypeOK
<1>1. /\ wpc[w] = "selecting"
      /\ wpc' = [wpc EXCEPT ![w] = "forwarding"]
      /\ batch' = [batch EXCEPT ![w] = Head(buf[w])]
      /\ buf' = [buf EXCEPT ![w] = Tail(buf[w])]
      /\ UNCHANGED <<subs, rootDone, synced, stale, early, due, missed>>
  BY DEF TakeBatch, mapVars, ctxVars, clientVars
<1>2. /\ \A v \in Watches \ {w} :
             wpc'[v] = wpc[v] /\ buf'[v] = buf[v] /\ batch'[v] = batch[v]
      /\ wpc'[w] = "forwarding" /\ batch'[w] = Head(buf[w]) /\ buf'[w] = Tail(buf[w])
  BY <1>0, <1>1
<1>3. Carries(w) => Carries(w)'
  <2>1. batch[w] = <<>> /\ buf[w] \in Seq(Seq(Events))
    BY <1>0, <1>1 DEF IInv, WatchShape
  <2>2. ASSUME NEW i \in DOMAIN buf[w], ChangeIn(buf[w][i]) PROVE Carries(w)'
    <3>1. \/ buf[w][i] = Head(buf[w])
          \/ \E j \in DOMAIN Tail(buf[w]) : Tail(buf[w])[j] = buf[w][i]
      BY <2>1, HeadOrTail
    <3>2. CASE buf[w][i] = Head(buf[w])
      BY <1>2, <2>2, <3>2 DEF Carries, ChangeIn
    <3>3. CASE \E j \in DOMAIN Tail(buf[w]) : Tail(buf[w])[j] = buf[w][i]
      BY <1>2, <2>2, <3>3 DEF Carries, ChangeIn
    <3> QED BY <3>1, <3>2, <3>3
  <2>3. ~ChangeIn(batch[w])
    BY <2>1 DEF ChangeIn
  <2> QED BY <2>2, <2>3 DEF Carries
<1> QED BY <1>1, <1>2, <1>3, WatchKeepsStale

(* One event is done with: a change must be with the client or the limiter. *)
LEMMA EventKeepsStale ==
    ASSUME IInv, DeliveryTypes, RegistryInv, StaleInv, NEW w \in Watches,
           wpc[w] = "forwarding", EventDone(w),
           Head(batch[w]) = "Change" =>
               \A k \in stale : subs[k] = w => k \in due' \/ k \in missed',
           due \subseteq due', missed \subseteq missed',
           UNCHANGED <<synced, stale, early>>
    PROVE  StaleInv'
<1>0. wpc \in [Watches -> WatchPcs] /\ batch \in [Watches -> Seq(Events)]
  BY DEF IInv, TypeOK
<1>1. /\ wpc' = [wpc EXCEPT ![w] = IF BatchUsedUp(w) THEN "selecting" ELSE "forwarding"]
      /\ batch' = [batch EXCEPT ![w] = Tail(batch[w])]
      /\ UNCHANGED <<buf, subs, rootDone>>
  BY <1>0 DEF EventDone, mapVars, ctxVars
<1>2. /\ \A v \in Watches \ {w} :
             wpc'[v] = wpc[v] /\ buf'[v] = buf[v] /\ batch'[v] = batch[v]
      /\ wpc'[w] \in {"selecting", "forwarding"}
      /\ batch'[w] = Tail(batch[w]) /\ buf'[w] = buf[w]
  BY <1>0, <1>1
<1>3. Carries(w) => Carries(w)' \/ Head(batch[w]) = "Change"
  <2>1. ASSUME NEW i \in DOMAIN batch[w], batch[w][i] = "Change"
        PROVE  ChangeIn(Tail(batch[w])) \/ Head(batch[w]) = "Change"
    <3>1. batch[w] \in Seq(Events)
      BY <1>0
    <3>2. \/ batch[w][i] = Head(batch[w])
          \/ \E j \in DOMAIN Tail(batch[w]) : Tail(batch[w])[j] = batch[w][i]
      BY <3>1, HeadOrTail
    <3> QED BY <2>1, <3>2 DEF ChangeIn
  <2>2. ChangeIn(batch[w]) => ChangeIn(batch'[w]) \/ Head(batch[w]) = "Change"
    BY <1>2, <2>1 DEF ChangeIn
  <2>3. (\E i \in DOMAIN buf[w] : ChangeIn(buf[w][i])) =>
            \E i \in DOMAIN buf'[w] : ChangeIn(buf'[w][i])
    BY <1>2
  <2> QED BY <2>2, <2>3 DEF Carries, ChangeIn
<1> QED BY <1>1, <1>2, <1>3, WatchKeepsStale

(* The three ways to be done with an event. *)
LEMMA ForwardKeepsStale ==
    ASSUME IInv, DeliveryTypes, RegistryInv, StaleInv, NEW w \in Watches, NEW told,
           Deliver(w, told) \/ Drop(w) \/ (SkipEvent(w) /\ UNCHANGED clientVars)
    PROVE  StaleInv'
<1>1. ASSUME NEW k \in stale, subs[k] = w
      PROVE  wkey[w] = k /\ k \in registered /\ k \in synced
  BY <1>1, StaleWatch
<1>2. CASE Deliver(w, told)
  <2>1. /\ wpc[w] = "forwarding" /\ EventDone(w)
        /\ due' = due \cup (told \cap synced)
        /\ missed' = missed \cup (({wkey[w]} \cap synced) \ told)
        /\ UNCHANGED <<synced, stale, early>>
    BY <1>2 DEF Deliver, Notify, NextEventIs
  <2>2. \A k \in stale : subs[k] = w => k \in due' \/ k \in missed'
    BY <1>1, <2>1
  <2> QED BY <2>1, <2>2, EventKeepsStale
<1>3. CASE Drop(w)
  <2>1. /\ wpc[w] = "forwarding" /\ EventDone(w)
        /\ missed' = missed \cup ({wkey[w]} \cap synced)
        /\ UNCHANGED <<synced, stale, due, early>>
    BY <1>3 DEF Drop, DropOverRate, NextEventIs
  <2>2. \A k \in stale : subs[k] = w => k \in missed'
    BY <1>1, <2>1
  <2> QED BY <2>1, <2>2, EventKeepsStale
<1>4. CASE SkipEvent(w) /\ UNCHANGED clientVars
  <2>1. /\ wpc[w] = "forwarding" /\ EventDone(w) /\ Head(batch[w]) # "Change"
        /\ UNCHANGED <<synced, stale, due, missed, early>>
    BY <1>4 DEF SkipEvent, NextEventIs, Skipped, clientVars
  <2> QED BY <2>1, EventKeepsStale
<1> QED BY <1>2, <1>3, <1>4

(* What is published is carried by every watch it is sent to, and nothing   *)
(* that was carried before is lost.                                         *)
LEMMA PublishCarries ==
    ASSUME IInv, StaleInv, NEW ws \in SUBSET Watches, NEW b \in Seq(Events), Publish(ws, b)
    PROVE  /\ \A v \in Watches : Carries(v) => Carries(v)'
           /\ \A v \in ws : ChangeIn(b) => Carries(v)'
           /\ NothingBuffered'
           /\ UNCHANGED <<wpc, wkey, batch, subs, rootDone>>
<1>1. /\ buf' = [v \in Watches |-> IF v \in ws THEN Append(buf[v], b) ELSE buf[v]]
      /\ \A v \in ws : Established(v)
      /\ UNCHANGED <<wpc, wkey, batch, subs, rootDone>>
  BY DEF Publish, mapVars, ctxVars
<1>2. ASSUME NEW v \in ws
      PROVE  /\ \A i \in DOMAIN buf[v] : i \in DOMAIN buf'[v] /\ buf'[v][i] = buf[v][i]
             /\ \E i \in DOMAIN buf'[v] : buf'[v][i] = b
  <2>1. buf[v] \in Seq(Seq(Events)) /\ buf'[v] = Append(buf[v], b)
    BY <1>1 DEF IInv, TypeOK
  <2>2. Len(buf[v]) \in Nat /\ DOMAIN buf[v] = 1..Len(buf[v])
    BY <2>1
  <2>3. DOMAIN buf'[v] = 1..(Len(buf[v]) + 1) /\ buf'[v][Len(buf[v]) + 1] = b
    BY <2>1
  <2>4. \A i \in 1..Len(buf[v]) : i \in 1..(Len(buf[v]) + 1) /\ buf'[v][i] = buf[v][i]
    BY <2>1, <2>2
  <2> QED BY <2>2, <2>3, <2>4
<1>3. \A v \in Watches : Carries(v) => Carries(v)'
  <2>1. ASSUME NEW v \in Watches, Carries(v) PROVE Carries(v)'
    <3>1. \A i \in DOMAIN buf[v] : i \in DOMAIN buf'[v] /\ buf'[v][i] = buf[v][i]
      BY <1>1, <1>2
    <3>2. CASE ChangeIn(batch[v])
      BY <1>1, <3>2 DEF Carries
    <3>3. ASSUME NEW i \in DOMAIN buf[v], ChangeIn(buf[v][i]) PROVE Carries(v)'
      <4>1. i \in DOMAIN buf'[v] /\ ChangeIn(buf'[v][i])
        BY <3>1, <3>3
      <4> QED BY <4>1 DEF Carries
    <3> QED BY <2>1, <3>2, <3>3 DEF Carries
  <2> QED BY <2>1
<1>4. \A v \in ws : ChangeIn(b) => Carries(v)'
  BY <1>2 DEF Carries
<1>5. NothingBuffered'
  BY <1>1 DEF StaleInv, NothingBuffered, Established
<1> QED BY <1>1, <1>3, <1>4, <1>5

(* Whatever a stream carries, the clients stay as well served as they were. *)
LEMMA PublishKeepsExcuses ==
    ASSUME IInv, DeliveryTypes, RegistryInv, StaleInv,
           NEW ws \in SUBSET Watches, NEW b \in Seq(Events), Publish(ws, b),
           UNCHANGED <<synced, due, missed, early>>
    PROVE  EarlyKnown' /\ \A k \in stale : Excused(k)'
<1>1. /\ \A v \in Watches : Carries(v) => Carries(v)'
      /\ UNCHANGED <<wpc, subs, rootDone>>
  BY PublishCarries
<1>2. EarlyKnown'
  BY <1>1 DEF StaleInv, EarlyKnown
<1>3. ASSUME NEW k \in stale PROVE Excused(k)'
  <2>1. Excused(k) /\ subs[k] \in Watches
    BY NoSilentStaleIs, StaleWatch DEF StaleInv
  <2>2. OnItsWay(k) => OnItsWay(k)'
    BY <1>1, <2>1 DEF OnItsWay, Carries
  <2>3. WatchEnded(k) => WatchEnded(k)'
    BY <1>1 DEF WatchEnded
  <2> QED BY <2>1, <2>2, <2>3 DEF Excused, ReadTooEarly
<1> QED BY <1>2, <1>3

(* A resource changes: the watch of each client that has read it is sent    *)
(* the change, or is still to send the state it starts with, or was read    *)
(* too early, or has ended, or reaches another node.                        *)
LEMMA ChangeKeepsStale ==
    ASSUME IInv, DeliveryTypes, RegistryInv, StaleInv, NEW u \in Uris, Change(u)
    PROVE  StaleInv'
<1>1. /\ Publish(Recipients(u), <<"Change">>)
      /\ stale' = stale \cup {k \in synced : UriOf(k) = u}
      /\ UNCHANGED <<synced, due, missed, early>>
  BY DEF Change
<1>2. /\ <<"Change">> \in Seq(Events) /\ ChangeIn(<<"Change">>)
      /\ Recipients(u) \in SUBSET Watches
  BY DEF Events, ChangeIn, Recipients
<1>3. /\ \A v \in Recipients(u) : Carries(v)'
      /\ NothingBuffered'
      /\ UNCHANGED <<wpc, wkey, subs, rootDone>>
  BY <1>1, <1>2, PublishCarries
<1>4. EarlyKnown' /\ \A k \in stale : Excused(k)'
  BY <1>1, <1>2, PublishKeepsExcuses
<1>5. ASSUME NEW k \in synced, UriOf(k) = u PROVE Excused(k)'
  <2> PICK w \in Watches : w = subs[k] /\ k \in Keys
    BY SyncedHasWatch
  <2>1. /\ w # NoWatch /\ wkey[w] = k /\ wpc[w] \in WatchPcs \ {"unused"}
        /\ subs'[k] = w /\ wpc'[w] = wpc[w]
    BY <1>3, KeyAssumption DEF KeyAssumption, IInv, OpenIsNotCancelled, TypeOK
  <2>2. CASE u \notin Reached
    BY <1>5, <2>2 DEF Excused
  <2>3. CASE wpc[w] = "starting"
    <3>1. k \in early
      BY <2>1, <2>3 DEF StaleInv, EarlyKnown
    <3>2. UriOf(k) \in Lists => ReadTooEarly(k)'
      BY <1>1, <3>1 DEF ReadTooEarly
    <3>3. UriOf(k) \notin Lists => OnItsWay(k)'
      BY <2>1, <2>3 DEF OnItsWay
    <3> QED BY <3>2, <3>3 DEF Excused
  <2>4. CASE wpc[w] = "stopped"
    BY <2>1, <2>4 DEF Excused, WatchEnded
  <2>5. CASE u \in Reached /\ wpc[w] \in {"selecting", "forwarding"}
    <3>1. w \in Recipients(u)
      BY <1>5, <2>1, <2>5 DEF Recipients, Established
    <3>2. OnItsWay(k)'
      BY <1>3, <2>1, <3>1 DEF OnItsWay, Carries
    <3> QED BY <3>2 DEF Excused
  <2> QED BY <2>1, <2>2, <2>3, <2>4, <2>5 DEF WatchPcs
<1>6. NoSilentStale'
  BY <1>1, <1>4, <1>5 DEF NoSilentStale, Excused
<1> QED BY <1>3, <1>4, <1>6 DEF StaleInv

(* A break or a marker of one stream changes no resource. *)
LEMMA StreamEventKeepsStale ==
    ASSUME IInv, DeliveryTypes, RegistryInv, StaleInv,
           NEW w \in Watches, NEW e \in Events, StreamEvent(w, e)
    PROVE  StaleInv'
<1>1. /\ Publish({w}, <<e>>) /\ <<e>> \in Seq(Events) /\ {w} \in SUBSET Watches
      /\ UNCHANGED <<synced, stale, due, missed, early>>
  BY DEF StreamEvent, clientVars
<1>2. EarlyKnown' /\ \A k \in stale : Excused(k)'
  BY <1>1, PublishKeepsExcuses
<1>3. NothingBuffered'
  BY <1>1, PublishCarries
<1>4. NoSilentStale'
  BY <1>1, <1>2 DEF NoSilentStale, Excused
<1> QED BY <1>2, <1>3, <1>4 DEF StaleInv

(* A client that reads is not stale, and knows whether it read too early.   *)
LEMMA ReadKeepsStale ==
    ASSUME DeliveryTypes, StaleInv, NEW k \in Keys, ClientReads(k)
    PROVE  StaleInv'
<1>1. /\ synced' = synced \cup {k}
      /\ stale' = stale \ {k}
      /\ due' = due \ {k}
      /\ missed' = missed \ {k}
      /\ UNCHANGED <<subs, wpc, buf, batch, rootDone>>
  BY DEF ClientReads, vars
<1>2. /\ \A j : j # k => (j \in early' <=> j \in early)
      /\ subs[k] # NoWatch /\ wpc[subs[k]] = "starting" => k \in early'
  BY DEF ClientReads
<1>3. EarlyKnown'
  BY <1>1, <1>2 DEF StaleInv, EarlyKnown
<1>4. NothingBuffered'
  BY <1>1 DEF StaleInv, NothingBuffered
<1>5. ASSUME NEW j \in stale' PROVE Excused(j)'
  <2>1. j # k /\ Excused(j)
    BY <1>1, <1>5, NoSilentStaleIs DEF StaleInv
  <2>2. OnItsWay(j) => OnItsWay(j)'
    BY <1>1, <2>1 DEF OnItsWay
  <2>3. WatchEnded(j) => WatchEnded(j)'
    BY <1>1 DEF WatchEnded
  <2>4. ReadTooEarly(j) => ReadTooEarly(j)'
    BY <1>2, <2>1 DEF ReadTooEarly
  <2> QED BY <1>1, <2>1, <2>2, <2>3, <2>4 DEF Excused
<1>6. NoSilentStale'
  BY <1>5 DEF NoSilentStale, Excused
<1> QED BY <1>3, <1>4, <1>6 DEF StaleInv

(* A new subscription is for a key no client has read. *)
LEMMA OpenKeepsStale ==
    ASSUME IInv, DeliveryTypes, RegistryInv, StaleInv,
           NEW c \in Callers, NEW w \in Watches, OpenSubscription(c, w), UNCHANGED clientVars
    PROVE  StaleInv'
<1> PICK k \in Keys : k = calls[c].key
  BY DEF OpenSubscription, IInv, CallShape, InFlight
<1>0. subs \in [Keys -> Watches \cup {NoWatch}] /\ wpc \in [Watches -> WatchPcs]
  BY DEF IInv, TypeOK
<1>1. /\ subs[k] = NoWatch /\ wpc[w] = "unused"
      /\ subs' = [subs EXCEPT ![k] = w]
      /\ wpc' = [wpc EXCEPT ![w] = "starting"]
      /\ UNCHANGED <<rootDone, buf, batch, synced, stale, early, due, missed>>
  BY DEF OpenSubscription, Vacant, ctxVars, clientVars
<1>2. ASSUME NEW j \in synced PROVE subs'[j] = subs[j] /\ wpc'[subs[j]] = wpc[subs[j]]
  <2>1. j \in Keys /\ subs[j] \in Watches
    BY SyncedHasWatch
  <2>2. j # k /\ subs[j] # NoWatch
    BY <1>1, <2>1, KeyAssumption DEF KeyAssumption
  <2>3. subs[j] # w
    BY <1>1, <2>1, <2>2 DEF IInv, OpenIsNotCancelled
  <2> QED BY <1>0, <1>1, <2>1, <2>2, <2>3
<1>3. \A v \in Watches : wpc'[v] \in {"unused", "starting"} => wpc[v] \in {"unused", "starting"}
  BY <1>0, <1>1
<1>4. stale \subseteq synced
  BY DEF DeliveryTypes
<1> QED BY <1>1, <1>2, <1>3, <1>4, QuietStale

(* The other steps move no watch of a key that a client has read. *)
LEMMA RequestsKeepStale ==
    ASSUME IInv, DeliveryTypes, RegistryInv, StaleInv, NEW c \in Callers,
           \/ \E k \in Keys : ClientSubscribes(c, k) \/ ClientUnsubscribes(c, k)
           \/ Register(c) \/ Deregister(c)
           \/ /\ \/ RejectSubscribe(c) \/ DuplicateSubscribe(c)
                 \/ RemoveSubscription(c) \/ NothingToRemove(c) \/ CancelRemoved(c)
              /\ UNCHANGED clientVars
    PROVE  StaleInv'
<1>0. stale \subseteq synced /\ synced \subseteq Keys
  BY DEF DeliveryTypes
<1>1. CASE \E k \in Keys : ClientUnsubscribes(c, k)
  <2> PICK k \in Keys : ClientUnsubscribes(c, k)
    BY <1>1
  <2>1. Forget({k}) /\ UNCHANGED <<subs, wpc, buf, batch, rootDone>>
    BY DEF ClientUnsubscribes, BeginUnsubscribe, mapVars, ctxVars, loopVars
  <2> QED BY <1>0, <2>1, QuietStale DEF Forget
<1>2. CASE RemoveSubscription(c) /\ UNCHANGED clientVars
  <2>1. /\ calls[c].pc = "unsubscribing"
        /\ subs' = [subs EXCEPT ![calls[c].key] = NoWatch]
        /\ UNCHANGED <<wpc, buf, batch, rootDone, synced, stale, due, missed, early>>
    BY <1>2 DEF RemoveSubscription, Removed, ctxVars, loopVars, clientVars
  <2>2. calls[c].key \notin synced
    BY <2>1 DEF RegistryInv, SyncedShape
  <2>3. \A j \in synced : subs'[j] = subs[j]
    BY <1>0, <2>1, <2>2 DEF IInv, TypeOK
  <2> QED BY <1>0, <2>1, <2>3, QuietStale
<1>3. CASE UNCHANGED <<subs, wpc, buf, batch, rootDone, synced, stale, due, missed, early>>
  BY <1>0, <1>3, QuietStale
<1>4. CASE \E k \in Keys : ClientSubscribes(c, k)
  BY <1>3, <1>4 DEF ClientSubscribes, BeginSubscribe, mapVars, ctxVars, loopVars, clientVars
<1>5. CASE Register(c) \/ Deregister(c)
  BY <1>3, <1>5 DEF Register, Deregister, ReturnSubscribe, ReturnUnsubscribe,
                    mapVars, ctxVars, loopVars, clientVars
<1>6. CASE /\ RejectSubscribe(c) \/ DuplicateSubscribe(c) \/ NothingToRemove(c)
           /\ UNCHANGED clientVars
  BY <1>3, <1>6 DEF RejectSubscribe, DuplicateSubscribe, NothingToRemove,
                    mapVars, ctxVars, loopVars, clientVars
<1>7. CASE CancelRemoved(c) /\ UNCHANGED clientVars
  BY <1>3, <1>7 DEF CancelRemoved, mapVars, loopVars, clientVars
<1> QED BY <1>1, <1>2, <1>4, <1>5, <1>6, <1>7

LEMMA SessionsKeepStale ==
    ASSUME IInv, DeliveryTypes, RegistryInv, StaleInv, NEW s \in Sessions,
           \/ ClientLeaves(s) \/ DropSession(s)
           \/ /\ CleanupSession(s) \/ \E w \in Watches : CancelDoomed(s, w)
              /\ UNCHANGED clientVars
    PROVE  StaleInv'
<1>0. stale \subseteq synced /\ synced \subseteq Keys
  BY DEF DeliveryTypes
<1>1. CASE ClientLeaves(s)
  <2>1. Forget(KeysOfSession(s)) /\ UNCHANGED <<subs, wpc, buf, batch, rootDone>>
    BY <1>1 DEF ClientLeaves, Disconnect, mapVars, ctxVars, loopVars
  <2> QED BY <1>0, <2>1, QuietStale DEF Forget
<1>2. CASE CleanupSession(s) /\ UNCHANGED clientVars
  <2>1. /\ sess[s] = "closed" /\ subs' = WithoutKeysOf(s)
        /\ UNCHANGED <<wpc, buf, batch, rootDone, synced, stale, due, missed, early>>
    BY <1>2 DEF CleanupSession, ctxVars, loopVars, clientVars
  <2>2. \A j \in synced : SessionOf(j) # s
    BY <2>1 DEF RegistryInv, SyncedShape
  <2>3. \A j \in synced : subs'[j] = subs[j]
    BY <1>0, <2>1, <2>2 DEF WithoutKeysOf
  <2> QED BY <1>0, <2>1, <2>3, QuietStale
<1>3. CASE UNCHANGED <<subs, wpc, buf, batch, rootDone, synced, stale, due, missed, early>>
  BY <1>0, <1>3, QuietStale
<1>4. CASE DropSession(s)
  BY <1>3, <1>4 DEF DropSession, vars, clientVars
<1>5. CASE (\E w \in Watches : CancelDoomed(s, w)) /\ UNCHANGED clientVars
  BY <1>3, <1>5 DEF CancelDoomed, mapVars, loopVars, clientVars
<1> QED BY <1>1, <1>2, <1>4, <1>5

LEMMA TimeKeepsStale ==
    ASSUME DeliveryTypes, StaleInv, Interval \/ (Shutdown /\ UNCHANGED clientVars)
    PROVE  StaleInv'
<1>0. stale \subseteq synced
  BY DEF DeliveryTypes
<1>1. /\ rootDone => rootDone'
      /\ UNCHANGED <<subs, wpc, buf, batch, synced, stale, due, missed, early>>
  BY DEF Interval, Refill, Shutdown, mapVars, ctxVars, loopVars, clientVars
<1> QED BY <1>0, <1>1, QuietStale

LEMMA DNextKeepsStale ==
    ASSUME IInv, DeliveryTypes, RegistryInv, StaleInv, DNext
    PROVE  StaleInv'
<1>1. ASSUME NEW c \in Callers, NEW k \in Keys,
             ClientSubscribes(c, k) \/ ClientUnsubscribes(c, k)
      PROVE  StaleInv'
  BY <1>1, RequestsKeepStale
<1>2. ASSUME NEW c \in Callers, Register(c) \/ Deregister(c) PROVE StaleInv'
  BY <1>2, RequestsKeepStale
<1>3. ASSUME NEW s \in Sessions, ClientLeaves(s) \/ DropSession(s) PROVE StaleInv'
  BY <1>3, SessionsKeepStale
<1>4. ASSUME NEW k \in Keys, ClientReads(k) PROVE StaleInv'
  BY <1>4, ReadKeepsStale
<1>5. ASSUME NEW u \in Uris, Change(u) PROVE StaleInv'
  BY <1>5, ChangeKeepsStale
<1>6. ASSUME NEW w \in Watches, NEW e \in Events, StreamEvent(w, e) PROVE StaleInv'
  BY <1>6, StreamEventKeepsStale
<1>7. ASSUME NEW w \in Watches, NEW told, Deliver(w, told) \/ Drop(w) PROVE StaleInv'
  BY <1>7, ForwardKeepsStale
<1>8. CASE Interval
  BY <1>8, TimeKeepsStale
<1>9. CASE Internal
  <2>0. UNCHANGED clientVars
    BY <1>9 DEF Internal
  <2>1. ASSUME NEW c \in Callers,
               \/ RejectSubscribe(c) \/ DuplicateSubscribe(c)
               \/ RemoveSubscription(c) \/ NothingToRemove(c) \/ CancelRemoved(c)
        PROVE  StaleInv'
    BY <2>0, <2>1, RequestsKeepStale
  <2>2. ASSUME NEW c \in Callers, NEW w \in Watches, OpenSubscription(c, w) PROVE StaleInv'
    BY <2>0, <2>2, OpenKeepsStale
  <2>3. ASSUME NEW s \in Sessions, CleanupSession(s) \/ \E w \in Watches : CancelDoomed(s, w)
        PROVE  StaleInv'
    BY <2>0, <2>3, SessionsKeepStale
  <2>4. ASSUME NEW w \in Watches, StartWatch(w) \/ TakeBatch(w) \/ SkipEvent(w)
        PROVE  StaleInv'
    BY <2>0, <2>4, StartKeepsStale, TakeKeepsStale, ForwardKeepsStale
  <2>5. ASSUME NEW w \in Watches, StartFails(w) \/ ObserveDone(w) \/ WatchErrored(w)
        PROVE  StaleInv'
    <3>1. Stop(w)
      BY <2>5 DEF StartFails, ObserveDone, WatchErrored
    <3> QED BY <2>0, <3>1, StopKeepsStale
  <2>6. CASE Shutdown
    BY <2>0, <2>6, TimeKeepsStale
  <2> QED BY <1>9, <2>1, <2>2, <2>3, <2>4, <2>5, <2>6 DEF Internal
<1> QED BY <1>1, <1>2, <1>3, <1>4, <1>5, <1>6, <1>7, <1>8, <1>9 DEF DNext

-----------------------------------------------------------------------------
(* Tokens: each notification of a watch cost one of its limiter's. *)
LEMMA QuietTokens ==
    ASSUME TokenPerNotification, UNCHANGED <<sent, tokens, wkey>>
    PROVE  TokenPerNotification'
  BY DEF TokenPerNotification

(* A watch that is opened has not notified anybody. *)
LEMMA OpenKeepsTokens ==
    ASSUME IInv, TokenPerNotification, UNCHANGED sent,
           NEW c \in Callers, NEW w \in Watches, OpenSubscription(c, w)
    PROVE  TokenPerNotification'
<1>1. /\ wkey[w] = NoKey
      /\ \A v \in Watches \ {w} : wkey'[v] = wkey[v]
      /\ UNCHANGED <<sent, tokens>>
  BY DEF OpenSubscription, IInv, WatchShape, TypeOK
<1>2. \A k \in Keys : ~ (sent[<<k, w>>] > 0)
  BY <1>1 DEF TokenPerNotification
<1> QED BY <1>1, <1>2 DEF TokenPerNotification

(* ResourceUpdated: one token, at most one more notification for each       *)
(* session that is registered for the URI.                                  *)
LEMMA DeliverKeepsTokens ==
    ASSUME IInv, DeliveryTypes, TokenPerNotification,
           NEW w \in Watches, NEW told, Deliver(w, told)
    PROVE  TokenPerNotification'
<1>0. /\ tokens \in [Watches -> 0..Burst] /\ Burst \in Nat
      /\ sent \in [Keys \X Watches -> 0..MaxSent] /\ MaxSent \in Nat
  BY BoundAssumption DEF BoundAssumption, IInv, TypeOK, DeliveryTypes, MaxSent
<1>1. /\ wpc[w] = "forwarding"
      /\ tokens' = [tokens EXCEPT ![w] = tokens[w] - 1]
      /\ wkey' = wkey
  BY DEF Deliver, Notify, NextEventIs, EventDone
<1>2. /\ \A v \in Watches \ {w} : tokens'[v] = tokens[v]
      /\ tokens'[w] = tokens[w] - 1
  BY <1>0, <1>1
<1>3. wkey[w] # NoKey
  BY <1>1 DEF IInv, WatchShape
<1>4. ASSUME NEW k \in Keys, NEW v \in Watches
      PROVE  /\ sent'[<<k, v>>] + tokens'[v] <= Burst
             /\ sent'[<<k, v>>] > 0 => wkey[v] # NoKey /\ UriOf(wkey[v]) = UriOf(k)
  <2>0. /\ sent[<<k, v>>] \in Nat /\ tokens[v] \in Nat
        /\ sent[<<k, v>>] + tokens[v] <= Burst
        /\ sent[<<k, v>>] > 0 => wkey[v] # NoKey /\ UriOf(wkey[v]) = UriOf(k)
    <3>1. <<k, v>> \in Keys \X Watches
      OBVIOUS
    <3> QED BY <1>0, <3>1 DEF TokenPerNotification
  <2>1. sent'[<<k, v>>] = IF k \in told /\ v = w /\ sent[<<k, v>>] < MaxSent
                          THEN sent[<<k, v>>] + 1 ELSE sent[<<k, v>>]
    BY DEF Deliver
  <2>2. CASE v # w
    BY <1>2, <2>0, <2>1, <2>2
  <2>3. CASE v = w
    <3>1. k \in told => UriOf(wkey[w]) = UriOf(k)
      BY DEF Deliver, Audience
    <3>2. sent'[<<k, w>>] \in {sent[<<k, w>>], sent[<<k, w>>] + 1}
      BY <2>1, <2>3
    <3>3. sent'[<<k, w>>] + tokens'[w] <= Burst
      BY <1>0, <1>2, <2>0, <2>3, <3>2
    <3>4. sent'[<<k, w>>] > 0 => sent[<<k, w>>] > 0 \/ k \in told
      BY <2>1, <2>3
    <3> QED BY <1>3, <2>0, <2>3, <3>1, <3>3, <3>4
  <2> QED BY <2>2, <2>3
<1> QED BY <1>1, <1>4 DEF TokenPerNotification

(* An interval later the count starts again. *)
LEMMA IntervalKeepsTokens ==
    ASSUME IInv, Interval
    PROVE  TokenPerNotification'
<1>1. tokens' \in [Watches -> 0..Burst]
  BY BoundAssumption DEF BoundAssumption, Interval, Refill, IInv, TypeOK
<1>2. ASSUME NEW k \in Keys, NEW w \in Watches
      PROVE  sent'[<<k, w>>] = 0 /\ tokens'[w] \in Nat /\ tokens'[w] <= Burst
  <2>1. sent'[<<k, w>>] = 0
    BY DEF Interval
  <2>2. tokens'[w] \in 0..Burst
    BY <1>1
  <2> QED BY <2>1, <2>2, BoundAssumption DEF BoundAssumption
<1>3. ASSUME NEW k \in Keys, NEW w \in Watches
      PROVE  /\ sent'[<<k, w>>] + tokens'[w] <= Burst
             /\ ~ (sent'[<<k, w>>] > 0)
  BY <1>2
<1> QED BY <1>3 DEF TokenPerNotification

LEMMA DNextKeepsTokens ==
    ASSUME IInv, DeliveryTypes, TokenPerNotification, DNext
    PROVE  TokenPerNotification'
<1>1. ASSUME NEW c \in Callers, NEW k \in Keys,
             ClientSubscribes(c, k) \/ ClientUnsubscribes(c, k)
      PROVE  TokenPerNotification'
  BY <1>1, QuietTokens DEF ClientSubscribes, ClientUnsubscribes, BeginSubscribe,
                           BeginUnsubscribe, loopVars
<1>2. ASSUME NEW c \in Callers, Register(c) \/ Deregister(c) PROVE TokenPerNotification'
  BY <1>2, QuietTokens DEF Register, Deregister, ReturnSubscribe, ReturnUnsubscribe, loopVars
<1>3. ASSUME NEW s \in Sessions, ClientLeaves(s) \/ DropSession(s) PROVE TokenPerNotification'
  BY <1>3, QuietTokens DEF ClientLeaves, DropSession, Disconnect, loopVars, vars
<1>4. ASSUME NEW k \in Keys, ClientReads(k) PROVE TokenPerNotification'
  BY <1>4, QuietTokens DEF ClientReads, vars
<1>5. ASSUME NEW u \in Uris, Change(u) PROVE TokenPerNotification'
  BY <1>5, QuietTokens DEF Change, Publish
<1>6. ASSUME NEW w \in Watches, NEW e \in Events, StreamEvent(w, e)
      PROVE  TokenPerNotification'
  BY <1>6, QuietTokens DEF StreamEvent, Publish
<1>7. ASSUME NEW w \in Watches, Drop(w) PROVE TokenPerNotification'
  BY <1>7, QuietTokens DEF Drop, DropOverRate, EventDone
<1>8. ASSUME NEW w \in Watches, NEW told, Deliver(w, told) PROVE TokenPerNotification'
  BY <1>8, DeliverKeepsTokens
<1>9. CASE Interval
  BY <1>9, IntervalKeepsTokens
<1>10. CASE Internal
  <2>0. UNCHANGED sent
    BY <1>10 DEF Internal
  <2>1. ASSUME NEW c \in Callers,
               \/ RejectSubscribe(c) \/ DuplicateSubscribe(c)
               \/ RemoveSubscription(c) \/ NothingToRemove(c) \/ CancelRemoved(c)
        PROVE  TokenPerNotification'
    <3>1. UNCHANGED loopVars
      BY <2>1 DEF RejectSubscribe, DuplicateSubscribe, RemoveSubscription,
                  NothingToRemove, CancelRemoved
    <3> QED BY <2>0, <3>1, QuietTokens DEF loopVars
  <2>2. ASSUME NEW c \in Callers, NEW w \in Watches, OpenSubscription(c, w)
        PROVE  TokenPerNotification'
    BY <2>0, <2>2, OpenKeepsTokens
  <2>3. ASSUME NEW s \in Sessions, CleanupSession(s) \/ \E w \in Watches : CancelDoomed(s, w)
        PROVE  TokenPerNotification'
    BY <2>0, <2>3, QuietTokens DEF CleanupSession, CancelDoomed, loopVars
  <2>4. ASSUME NEW w \in Watches,
               \/ StartWatch(w) \/ StartFails(w) \/ ObserveDone(w)
               \/ TakeBatch(w) \/ SkipEvent(w) \/ WatchErrored(w)
        PROVE  TokenPerNotification'
    <3>1. UNCHANGED <<tokens, wkey>>
      BY <2>4 DEF StartWatch, StartFails, ObserveDone, TakeBatch, SkipEvent, WatchErrored,
                  Stop, EventDone
    <3> QED BY <2>0, <3>1, QuietTokens
  <2>5. CASE Shutdown
    BY <2>0, <2>5, QuietTokens DEF Shutdown, loopVars
  <2> QED BY <1>10, <2>1, <2>2, <2>3, <2>4, <2>5 DEF Internal
<1> QED BY <1>1, <1>2, <1>3, <1>4, <1>5, <1>6, <1>7, <1>8, <1>9, <1>10 DEF DNext

-----------------------------------------------------------------------------
(* The parts put together. *)
LEMMA DIInvSplits ==
    DIInv <=> IInv /\ DeliveryTypes /\ RegistryInv /\ StaleInv /\ TokenPerNotification
<1>1. IInv => TypeOK
  BY DEF IInv
<1> QED BY <1>1, DTypeOKSplits DEF DIInv, WiringShape, RegistryInv, StaleInv

LEMMA InitDIInv == DInit => DIInv
<1> SUFFICES ASSUME DInit PROVE DIInv
  OBVIOUS
<1>1. /\ registered = {} /\ synced = {} /\ stale = {} /\ due = {} /\ missed = {} /\ early = {}
      /\ sent = [kw \in Keys \X Watches |-> 0] /\ emitted = 0
      /\ subs = [k \in Keys |-> NoWatch]
      /\ buf = [w \in Watches |-> <<>>]
      /\ tokens = [w \in Watches |-> Burst]
      /\ \A c \in Callers : ~InFlight(c)
  BY DEF DInit, Init, InFlight, IdleCall
<1>2. IInv
  BY InitIInv DEF DInit
<1>3. DeliveryTypes
  <2>1. 0 \in 0..MaxSent /\ 0 \in 0..MaxEvents
    BY BoundAssumption, EventsAssumption DEF BoundAssumption, EventsAssumption, MaxSent
  <2> QED BY <1>1, <2>1 DEF DeliveryTypes
<1>4. RegistryInv
  BY <1>1 DEF RegistryInv, OneRequest, RegistryAgrees, RequestAgrees, SyncedShape
<1>5. StaleInv
  BY <1>1 DEF StaleInv, NoSilentStale, EarlyKnown, NothingBuffered
<1>6. TokenPerNotification
  BY <1>1, BoundAssumption DEF BoundAssumption, TokenPerNotification
<1> QED BY <1>2, <1>3, <1>4, <1>5, <1>6, DIInvSplits

LEMMA DNextDIInv == DIInv /\ [DNext]_dvars => DIInv'
<1> SUFFICES ASSUME DIInv, [DNext]_dvars PROVE DIInv'
  OBVIOUS
<1>1. IInv /\ DeliveryTypes /\ RegistryInv /\ StaleInv /\ TokenPerNotification
  BY DIInvSplits
<1>2. IInv'
  BY <1>1, DNextKeepsIInv
<1>3. CASE DNext
  <2>1. DeliveryTypes' /\ RegistryInv' /\ StaleInv' /\ TokenPerNotification'
    BY <1>1, <1>3, DNextKeepsTypes, DNextKeepsRegistry, DNextKeepsStale, DNextKeepsTokens
  <2> QED BY <1>2, <2>1, DIInvSplits, PTL
<1>4. CASE UNCHANGED dvars
  <2>1. /\ UNCHANGED <<registered, synced, stale, due, missed, early, sent, emitted>>
        /\ UNCHANGED <<subs, rootDone, calls, sess, wpc, wkey, buf, batch, tokens>>
    BY <1>4 DEF dvars, vars, clientVars
  <2>2. DeliveryTypes'
    BY <1>1, <2>1 DEF DeliveryTypes, MaxSent
  <2>3. RegistryInv'
    BY <1>1, <2>1, QuietRegistry
  <2>4. StaleInv'
    BY <1>1, <2>1, QuietStale DEF DeliveryTypes
  <2>5. TokenPerNotification'
    BY <1>1, <2>1, QuietTokens
  <2> QED BY <1>2, <2>2, <2>3, <2>4, <2>5, DIInvSplits, PTL
<1> QED BY <1>3, <1>4

(* The inductive invariant holds of every execution of the Manager with the *)
(* SDK, the clients and the nodes around it.                                *)
THEOREM DeliveryInvariance == DSpec => []DIInv
<1>1. DInit => DIInv
  BY InitDIInv
<1>2. DIInv /\ [DNext]_dvars => DIInv'
  BY DNextDIInv
<1> QED BY <1>1, <1>2, PTL DEF DSpec

(* The shape of the SDK's, the clients' and the limiters' state. *)
THEOREM WiringCorrect == DSpec => []WiringShape
<1>1. DIInv => WiringShape
  BY DEF DIInv
<1> QED BY <1>1, DeliveryInvariance, PTL

(* The SDK's table of subscribed sessions and Manager.subs agree on every   *)
(* key that has no request under way, however the requests of all clients,  *)
(* disconnects and cleanups interleave.                                     *)
THEOREM RegistriesAgree == DSpec => []RegistryAgrees
<1>1. DIInv => RegistryAgrees
  BY DEF DIInv
<1> QED BY <1>1, DeliveryInvariance, PTL

(* A client that follows the protocol misses a change only for one of the   *)
(* reasons NoSilentStale lists.                                             *)
THEOREM NoMissedChange == DSpec => []NoSilentStale
<1>1. DIInv => NoSilentStale
  BY DEF DIInv
<1> QED BY <1>1, DeliveryInvariance, PTL

(* Between two refills a session gets at most a burst from each watch of a  *)
(* URI it is registered for, and nothing from the others.                   *)
THEOREM FanOutBounded == DSpec => []FanOutBound
<1>1. ASSUME DIInv PROVE FanOutBound
  <2>1. ASSUME NEW k \in Keys, NEW w \in Watches
        PROVE  /\ sent[<<k, w>>] <= Burst
               /\ sent[<<k, w>>] > 0 => wkey[w] # NoKey /\ UriOf(wkey[w]) = UriOf(k)
    <3>1. <<k, w>> \in Keys \X Watches
      OBVIOUS
    <3>2. sent[<<k, w>>] \in 0..MaxSent /\ tokens[w] \in 0..Burst
      BY <1>1, <3>1 DEF DIInv, WiringShape, DTypeOK, TypeOK
    <3>3. sent[<<k, w>>] \in Nat /\ tokens[w] \in Nat /\ Burst \in Nat
      BY <3>2, BoundAssumption DEF BoundAssumption, MaxSent
    <3>4. /\ sent[<<k, w>>] + tokens[w] <= Burst
          /\ sent[<<k, w>>] > 0 => wkey[w] # NoKey /\ UriOf(wkey[w]) = UriOf(k)
      BY <1>1 DEF DIInv, WiringShape, TokenPerNotification
    <3> QED BY <3>3, <3>4
  <2> QED BY <2>1 DEF FanOutBound
<1> QED BY <1>1, DeliveryInvariance, PTL

(* Nothing the SDK, the clients or the nodes do breaks what the Manager     *)
(* keeps: no goroutine leaks here either.                                   *)
THEOREM DeliveryNoLeak == DSpec => []OwnedOrDoomed
<1>1. DIInv => OwnedOrDoomed
  BY DEF DIInv, IInv, Accounted, OwnedOrDoomed, CtxDone, Running
<1> QED BY <1>1, DeliveryInvariance, PTL

(* The change of a resource, and the steps of the SDK and the clients, are  *)
(* no steps of the service: seen through the mapping of SubscriptionManager *)
(* the whole behaves as SubscriptionService allows.                         *)
THEOREM DeliveryImplementsService == DSpec => Service!Spec
<1>1. DInit => Service!Init
  BY InitRefines DEF DInit
<1>2. ASSUME DIInv, [DNext]_dvars PROVE [Service!Next]_(Service!svars)
  <2>1. IInv
    BY <1>2 DEF DIInv
  <2>2. CASE \/ \E u \in Uris : Change(u)
             \/ \E w \in Watches, e \in Events \ {"Change"} : StreamEvent(w, e)
    <3>1. UNCHANGED <<subs, wpc, wkey, sess, rootDone>>
      BY <2>2 DEF Change, StreamEvent, Publish, mapVars, ctxVars, sessVars
    <3> QED BY <3>1, QuietRefines DEF Service!svars, OpenKeys, RunningKeys,
                                      LeavingSessions, GoneSessions, View
  <2>3. CASE UNCHANGED dvars
    <3>1. UNCHANGED <<subs, wpc, wkey, sess, rootDone>>
      BY <2>3 DEF dvars, vars
    <3> QED BY <3>1, QuietRefines DEF Service!svars, OpenKeys, RunningKeys,
                                      LeavingSessions, GoneSessions, View
  <2>4. CASE /\ DNext
             /\ ~ \E u \in Uris : Change(u)
             /\ ~ \E w \in Watches, e \in Events \ {"Change"} : StreamEvent(w, e)
    <3>1. [Next]_vars
      BY <2>4, OtherStepsAreManagers
    <3> QED BY <2>1, <3>1, NextRefines DEF Service!svars, OpenKeys, RunningKeys,
                                           LeavingSessions, GoneSessions, View
  <2> QED BY <1>2, <2>2, <2>3, <2>4
<1> QED BY <1>1, <1>2, DeliveryInvariance, PTL DEF DSpec, Service!Spec

=============================================================================
