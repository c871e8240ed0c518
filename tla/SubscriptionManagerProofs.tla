--------------------- MODULE SubscriptionManagerProofs ---------------------
(***************************************************************************)
(* Proofs about SubscriptionManager for every value of its constants.      *)
(* IInv is inductive; the safety invariants of the module follow from it,  *)
(* and with it that the Manager implements SubscriptionService.            *)
(* Most actions change one group of variables only: ForwardingKeepsIInv    *)
(* and AnswerKeepsIInv treat those together, the actions that move a watch *)
(* between the maps, the handlers and the supervisors are treated each on  *)
(* its own.                                                                *)
(***************************************************************************)
EXTENDS SubscriptionManager, SequenceTheorems, TLAPS

USE KeyAssumption, BoundAssumption DEF KeyAssumption, BoundAssumption

-----------------------------------------------------------------------------
(* A batch that COSI may send is a non-empty sequence of events. *)
LEMMA BatchesAreSequences ==
    ASSUME NEW u, NEW b \in BatchesOf(u)
    PROVE  b \in Seq(Events) /\ b # <<>>
<1>1. PICK n \in Nat \ {0} : b \in [1..n -> Events]
  <2>1. PICK n \in 1..(IF u \in Lists THEN MaxBatch ELSE 1) : b \in [1..n -> Events]
    BY DEF BatchesOf
  <2>2. n \in Nat \ {0}
    BY <2>1
  <2> QED BY <2>1, <2>2
<1>2. b \in Seq(Events)
  BY <1>1, SeqDef
<1>3. DOMAIN b = 1..n /\ 1 \in 1..n
  BY <1>1
<1> QED BY <1>2, <1>3

(* The initial state satisfies the inductive invariant. *)
LEMMA InitIInv == Init => IInv
<1> SUFFICES ASSUME Init PROVE IInv
  OBVIOUS
<1> USE DEF Init
<1>1. TypeOK
  <2>1. calls \in [Callers -> [pc : CallPcs, key : Keys \cup {NoKey},
                              watch : Watches \cup {NoWatch}]]
    BY DEF IdleCall, CallPcs
  <2>2. DOMAIN sessions \subseteq Sessions /\ sessions \in [DOMAIN sessions -> SUBSET Uris]
    OBVIOUS
  <2>3. <<>> \in Seq(Events) /\ <<>> \in Seq(Seq(Events))
    OBVIOUS
  <2>4. Burst \in 0..Burst
    BY DEF BoundAssumption
  <2> QED BY <2>1, <2>2, <2>3, <2>4 DEF TypeOK, WatchPcs
<1>2. WatchShape
  BY DEF WatchShape
<1>3. CallShape /\ DoomedShape
  BY DEF CallShape, DoomedShape, InFlight, IdleCall
<1>4. Accounted /\ TornDown
  BY DEF Accounted, TornDown, Keys, SessionOf
<1>5. IndexAgrees /\ OpenIsNotCancelled
  BY DEF IndexAgrees, OpenIsNotCancelled, Keys
<1> QED BY <1>1, <1>2, <1>3, <1>4, <1>5 DEF IInv

-----------------------------------------------------------------------------
(* A step of the event loop, which leaves the maps, the contexts, the       *)
(* handlers and the supervisors alone and opens no watch, preserves the     *)
(* invariant as soon as it preserves the shape of the watchers.             *)
LEMMA ForwardingKeepsIInv ==
    ASSUME IInv, TypeOK', WatchShape',
           UNCHANGED <<mapVars, ctxVars, calls, sessVars, wkey>>,
           \A w \in Watches : wpc'[w] = "unused" <=> wpc[w] = "unused"
    PROVE  IInv'
<1> USE DEF IInv, mapVars, ctxVars, sessVars
<1>1. CallShape' /\ DoomedShape'
  BY DEF CallShape, DoomedShape, InFlight
<1>2. \A w : CancelDue(w)' <=> CancelDue(w)
  BY DEF CancelDue
<1>3. Accounted'
  BY <1>2 DEF Accounted
<1>4. IndexAgrees'
  BY DEF IndexAgrees
<1>5. OpenIsNotCancelled'
  BY <1>2 DEF OpenIsNotCancelled, TypeOK
<1>6. TornDown'
  BY DEF TornDown
<1> QED BY <1>1, <1>3, <1>4, <1>5, <1>6

(* A step of a request handler that changes its own record only and neither *)
(* takes nor gives up a CancelFunc preserves the invariant.                 *)
LEMMA AnswerKeepsIInv ==
    ASSUME IInv, NEW c \in Callers, NEW r,
           r \in [pc : CallPcs, key : Keys \cup {NoKey}, watch : Watches \cup {NoWatch}],
           calls[c].pc # "cancelling",
           r.pc # "cancelling",
           r.pc # "idle" => r.key \in Keys /\ sess[SessionOf(r.key)] # "cleaned",
           calls' = [calls EXCEPT ![c] = r],
           UNCHANGED <<mapVars, ctxVars, sessVars, loopVars>>
    PROVE  IInv'
<1> USE DEF IInv, mapVars, ctxVars, sessVars, loopVars
<1>0. calls \in [Callers -> [pc : CallPcs, key : Keys \cup {NoKey}, watch : Watches \cup {NoWatch}]]
  BY DEF TypeOK
<1>1. TypeOK' /\ WatchShape'
  BY <1>0 DEF TypeOK, WatchShape
<1>2. CallShape'
  BY <1>0 DEF CallShape, InFlight
<1>3. DoomedShape'
  BY DEF DoomedShape
<1>4. \A w : CancelDue(w)' <=> CancelDue(w)
  BY <1>0 DEF CancelDue
<1>5. Accounted'
  BY <1>4 DEF Accounted
<1>6. IndexAgrees'
  BY DEF IndexAgrees
<1>7. OpenIsNotCancelled' /\ TornDown'
  BY <1>4 DEF OpenIsNotCancelled, TornDown
<1> QED BY <1>1, <1>2, <1>3, <1>5, <1>6, <1>7

-----------------------------------------------------------------------------
(* The steps of one watcher goroutine, of COSI and of time. *)
LEMMA WatcherKeepsIInv ==
    ASSUME IInv, NEW w \in Watches, Watcher(w)
    PROVE  IInv'
<1> DEFINE Frame == UNCHANGED <<mapVars, ctxVars, calls, sessVars, wkey>>
           SameUse == \A v \in Watches : wpc'[v] = "unused" <=> wpc[v] = "unused"
<1> USE DEF IInv
<1>0. /\ wpc \in [Watches -> WatchPcs]
      /\ buf \in [Watches -> Seq(Seq(Events))]
      /\ batch \in [Watches -> Seq(Events)]
      /\ tokens \in [Watches -> 0..Burst]
  BY DEF TypeOK
<1>1. ASSUME StartWatch(w) PROVE IInv'
  <2>1. Frame /\ SameUse
    BY <1>1, <1>0 DEF StartWatch, WatchPcs, mapVars, ctxVars, sessVars
  <2>2. InitialEvents(UriOf(wkey[w])) \in Seq(Seq(Events))
    <3>1. <<"Change">> \in Seq(Events)
      BY DEF Events
    <3> QED BY <3>1 DEF InitialEvents
  <2>3. TypeOK'
    BY <1>1, <2>2 DEF StartWatch, TypeOK, WatchPcs, mapVars, ctxVars, sessVars
  <2>4. \A i \in DOMAIN InitialEvents(UriOf(wkey[w])) :
            InitialEvents(UriOf(wkey[w]))[i] # <<>>
    BY DEF InitialEvents
  <2>5. WatchShape'
    BY <1>1, <1>0, <2>4 DEF StartWatch, WatchShape, WatchPcs, ctxVars
  <2> QED BY <2>1, <2>3, <2>5, ForwardingKeepsIInv
<1>2. ASSUME Stop(w), wpc[w] # "unused" PROVE IInv'
  <2>1. Frame /\ SameUse
    BY <1>2, <1>0 DEF Stop, WatchPcs, mapVars, ctxVars, sessVars
  <2>2. <<>> \in Seq(Events) /\ <<>> \in Seq(Seq(Events))
    OBVIOUS
  <2>3. TypeOK'
    BY <1>2, <2>2 DEF Stop, TypeOK, WatchPcs, mapVars, ctxVars, sessVars
  <2>4. WatchShape'
    BY <1>2, <1>0 DEF Stop, WatchShape, WatchPcs, ctxVars
  <2> QED BY <2>1, <2>3, <2>4, ForwardingKeepsIInv
<1>3. ASSUME TakeBatch(w) PROVE IInv'
  <2>1. Frame /\ SameUse
    BY <1>3, <1>0 DEF TakeBatch, WatchPcs, mapVars, ctxVars, sessVars
  <2>2. buf[w] \in Seq(Seq(Events)) /\ buf[w] # <<>>
    BY <1>3, <1>0 DEF TakeBatch
  <2>3. /\ Head(buf[w]) \in Seq(Events)
        /\ Tail(buf[w]) \in Seq(Seq(Events))
    BY <2>2
  <2>4. TypeOK'
    BY <1>3, <2>3 DEF TakeBatch, TypeOK, WatchPcs, mapVars, ctxVars, sessVars
  <2>5. Head(buf[w]) # <<>> /\ \A i \in DOMAIN Tail(buf[w]) : Tail(buf[w])[i] # <<>>
    BY <2>2 DEF WatchShape
  <2>6. WatchShape'
    BY <1>3, <1>0, <2>5 DEF TakeBatch, WatchShape, WatchPcs, ctxVars
  <2> QED BY <2>1, <2>4, <2>6, ForwardingKeepsIInv
<1>4. ASSUME wpc[w] = "forwarding", EventDone(w), tokens' \in [Watches -> 0..Burst]
      PROVE  IInv'
  <2>1. Frame /\ SameUse
    BY <1>4, <1>0 DEF EventDone, WatchPcs, mapVars, ctxVars, sessVars
  <2>2. batch[w] \in Seq(Events) /\ batch[w] # <<>>
    BY <1>4, <1>0 DEF WatchShape
  <2>3. Tail(batch[w]) \in Seq(Events) /\ (Tail(batch[w]) = <<>> <=> BatchUsedUp(w))
    <3>1. Tail(batch[w]) \in Seq(Events) /\ Len(Tail(batch[w])) = Len(batch[w]) - 1
      BY <2>2, HeadTailProperties
    <3>2. Tail(batch[w]) = <<>> <=> Len(Tail(batch[w])) = 0
      BY <3>1, EmptySeq
    <3>3. Len(batch[w]) \in Nat
      BY <2>2
    <3> QED BY <3>1, <3>2, <3>3 DEF BatchUsedUp
  <2>4. TypeOK'
    BY <1>4, <2>3 DEF EventDone, TypeOK, WatchPcs, mapVars, ctxVars, sessVars
  <2>5. WatchShape'
    BY <1>4, <1>0, <2>3 DEF EventDone, WatchShape, WatchPcs, ctxVars
  <2> QED BY <2>1, <2>4, <2>5, ForwardingKeepsIInv
<1>5. CASE StartWatch(w)
  BY <1>5, <1>1
<1>6. CASE StartFails(w) \/ ObserveDone(w) \/ WatchErrored(w)
  BY <1>6, <1>2 DEF StartFails, ObserveDone, WatchErrored, NextEventIs
<1>7. CASE TakeBatch(w)
  BY <1>7, <1>3
<1>8. CASE SkipEvent(w) \/ DropOverRate(w)
  BY <1>8, <1>4, <1>0 DEF SkipEvent, DropOverRate, NextEventIs
<1>9. CASE Notify(w)
  <2>1. tokens[w] - 1 \in 0..Burst
    BY <1>9, <1>0 DEF Notify, Allow
  <2>2. tokens' \in [Watches -> 0..Burst]
    BY <1>9, <1>0, <2>1 DEF Notify
  <2> QED BY <1>9, <2>2, <1>4 DEF Notify, NextEventIs
<1> QED BY <1>5, <1>6, <1>7, <1>8, <1>9 DEF Watcher

(* A non-empty batch at the end of a channel of non-empty batches. *)
LEMMA AppendBatch ==
    ASSUME NEW q \in Seq(Seq(Events)), NEW b \in Seq(Events), b # <<>>,
           \A i \in DOMAIN q : q[i] # <<>>
    PROVE  /\ Append(q, b) \in Seq(Seq(Events))
           /\ \A i \in DOMAIN Append(q, b) : Append(q, b)[i] # <<>>
<1>1. Append(q, b) \in Seq(Seq(Events))
  OBVIOUS
<1>2. ASSUME NEW i \in DOMAIN Append(q, b) PROVE Append(q, b)[i] # <<>>
  <2>1. Len(q) \in Nat /\ DOMAIN q = 1..Len(q) /\ i \in 1..(Len(q) + 1)
    BY <1>2
  <2>2. i = Len(q) + 1 \/ i \in DOMAIN q
    BY <2>1
  <2> QED BY <2>1, <2>2, AppendProperties
<1> QED BY <1>1, <1>2

(* What the stream delivers, to however many watches, concerns no part of   *)
(* the invariant but the channels.                                          *)
LEMMA PublishKeepsIInv ==
    ASSUME IInv, NEW ws \in SUBSET Watches, NEW b \in Seq(Events), b # <<>>, Publish(ws, b)
    PROVE  IInv'
<1> USE DEF IInv
<1>1. /\ buf' = [v \in Watches |-> IF v \in ws THEN Append(buf[v], b) ELSE buf[v]]
      /\ UNCHANGED <<subs, sessions, rootDone, cancelled, calls, sess, doomed>>
      /\ UNCHANGED <<wpc, wkey, batch, tokens>>
  BY DEF Publish, mapVars, ctxVars, sessVars
<1>2. \A v \in Watches : /\ buf[v] \in Seq(Seq(Events))
                         /\ \A i \in DOMAIN buf[v] : buf[v][i] # <<>>
  BY DEF TypeOK, WatchShape
<1>3. \A v \in Watches : /\ buf'[v] \in Seq(Seq(Events))
                         /\ \A i \in DOMAIN buf'[v] : buf'[v][i] # <<>>
  <2> TAKE v \in Watches
  <2>1. CASE v \in ws
    <3>1. buf'[v] = Append(buf[v], b)
      BY <1>1, <2>1
    <3> QED BY <1>2, <3>1, AppendBatch
  <2>2. CASE v \notin ws
    BY <1>1, <1>2, <2>2
  <2> QED BY <2>1, <2>2
<1>4. buf' \in [Watches -> Seq(Seq(Events))]
  <2>1. buf' = [v \in Watches |-> buf'[v]]
    BY <1>1
  <2> QED BY <1>3, <2>1
<1>6. TypeOK'
  BY <1>1, <1>4 DEF TypeOK
<1>7. WatchShape'
  <2>1. ASSUME NEW v \in Watches
        PROVE  /\ wkey[v] = NoKey <=> wpc[v] = "unused"
               /\ wpc[v] = "unused" => v \notin cancelled
               /\ wpc[v] = "forwarding" <=> batch[v] # <<>>
    BY DEF WatchShape
  <2> QED BY <1>1, <1>3, <2>1 DEF WatchShape
<1> QED BY <1>1, <1>6, <1>7, ForwardingKeepsIInv DEF mapVars, ctxVars, sessVars

LEMMA CosiKeepsIInv == IInv /\ Cosi => IInv'
<1> SUFFICES ASSUME IInv, NEW w \in Watches, NEW u \in Uris, NEW b \in BatchesOf(u),
                    Publish({w}, b)
             PROVE  IInv'
  BY DEF Cosi
<1>1. b \in Seq(Events) /\ b # <<>>
  BY BatchesAreSequences
<1> QED BY <1>1, PublishKeepsIInv

(* Tokens grow up to the burst. *)
LEMMA RefillKeepsIInv == IInv /\ Refill => IInv'
<1> SUFFICES ASSUME IInv, Refill PROVE IInv'
  OBVIOUS
<1>1. TypeOK'
  <2>1. tokens' \in [Watches -> 0..Burst]
    BY DEF IInv, TypeOK, Refill
  <2> QED BY <2>1 DEF IInv, TypeOK, Refill, mapVars, ctxVars, sessVars
<1>2. WatchShape'
  BY DEF IInv, WatchShape, Refill, ctxVars
<1> QED BY <1>1, <1>2, ForwardingKeepsIInv DEF Refill, mapVars, ctxVars, sessVars

-----------------------------------------------------------------------------
(* The request handlers. *)

(* A handler that answers without touching the maps. *)
LEMMA AnsweringKeepsIInv ==
    ASSUME IInv, NEW c \in Callers,
           \/ \E k \in Keys : BeginSubscribe(c, k) \/ BeginUnsubscribe(c, k)
           \/ RejectSubscribe(c) \/ DuplicateSubscribe(c) \/ ReturnSubscribe(c)
           \/ NothingToRemove(c) \/ ReturnUnsubscribe(c)
    PROVE  IInv'
<1>0. /\ IdleCall \in [pc : CallPcs, key : Keys \cup {NoKey}, watch : Watches \cup {NoWatch}]
      /\ IdleCall.pc = "idle"
  BY DEF IdleCall, CallPcs
<1>1. ASSUME NEW k \in Keys, BeginSubscribe(c, k) PROVE IInv'
  <2>1. sess[SessionOf(k)] # "cleaned"
    BY <1>1 DEF BeginSubscribe
  <2> QED BY <1>1, <2>1, AnswerKeepsIInv DEF BeginSubscribe, SetCall, CallPcs
<1>2. ASSUME NEW k \in Keys, BeginUnsubscribe(c, k) PROVE IInv'
  <2>1. sess[SessionOf(k)] # "cleaned"
    BY <1>2 DEF BeginUnsubscribe
  <2> QED BY <1>2, <2>1, AnswerKeepsIInv DEF BeginUnsubscribe, SetCall, CallPcs
<1>3. CASE RejectSubscribe(c) \/ ReturnSubscribe(c) \/ ReturnUnsubscribe(c)
  BY <1>3, <1>0, AnswerKeepsIInv DEF RejectSubscribe, ReturnSubscribe, ReturnUnsubscribe
<1>4. CASE DuplicateSubscribe(c) \/ NothingToRemove(c)
  <2>1. calls[c].key \in Keys /\ sess[SessionOf(calls[c].key)] # "cleaned"
    BY <1>4 DEF DuplicateSubscribe, NothingToRemove, IInv, CallShape, InFlight
  <2>2. CASE DuplicateSubscribe(c)
    BY <2>1, <2>2, AnswerKeepsIInv DEF DuplicateSubscribe, SetCall, CallPcs
  <2>3. CASE NothingToRemove(c)
    BY <2>1, <2>3, AnswerKeepsIInv DEF NothingToRemove, SetCall, CallPcs
  <2> QED BY <1>4, <2>2, <2>3
<1> QED BY <1>1, <1>2, <1>3, <1>4

(* What AddUri and DropUri do to the index, element by element. *)
LEMMA AddUriIndex ==
    ASSUME NEW s \in Sessions, NEW u \in Uris, TypeOK
    PROVE  /\ DOMAIN AddUri(s, u) = DOMAIN sessions \cup {s}
           /\ AddUri(s, u) \in [DOMAIN sessions \cup {s} -> SUBSET Uris]
           /\ \A t \in DOMAIN sessions \ {s} : AddUri(s, u)[t] = sessions[t]
           /\ \A v : v \in AddUri(s, u)[s] <=>
                       v = u \/ (s \in DOMAIN sessions /\ v \in sessions[s])
  BY DEF AddUri, TypeOK

(* What dropping one key does to the index. *)
LEMMA DropUriIndex ==
    ASSUME NEW s \in Sessions, NEW u \in Uris, TypeOK
    PROVE  /\ DOMAIN DropUri(s, u) \subseteq DOMAIN sessions
           /\ DropUri(s, u) \in [DOMAIN DropUri(s, u) -> SUBSET Uris]
           /\ \A t \in DOMAIN sessions \ {s} :
                 t \in DOMAIN DropUri(s, u) /\ DropUri(s, u)[t] = sessions[t]
           /\ s \in DOMAIN DropUri(s, u) =>
                 DropUri(s, u)[s] = sessions[s] \ {u} /\ DropUri(s, u)[s] # {}
           /\ s \in DOMAIN sessions /\ s \notin DOMAIN DropUri(s, u) =>
                 sessions[s] \ {u} = {}
<1>1. CASE s \notin DOMAIN sessions
  BY <1>1 DEF DropUri, TypeOK
<1>2. CASE s \in DOMAIN sessions /\ sessions[s] \ {u} = {}
  BY <1>2 DEF DropUri, WithoutSession, TypeOK
<1>3. CASE s \in DOMAIN sessions /\ sessions[s] \ {u} # {}
  BY <1>3 DEF DropUri, TypeOK
<1> QED BY <1>1, <1>2, <1>3

(* The critical section of subscribe. *)
LEMMA OpenKeepsIInv ==
    ASSUME IInv, NEW c \in Callers, NEW w \in Watches, OpenSubscription(c, w)
    PROVE  IInv'
<1> DEFINE k == calls[c].key
           s == SessionOf(k)
           u == UriOf(k)
<1> USE DEF IInv
<1>0. /\ subs \in [Keys -> Watches \cup {NoWatch}]
      /\ calls \in [Callers -> [pc : CallPcs, key : Keys \cup {NoKey}, watch : Watches \cup {NoWatch}]]
      /\ wpc \in [Watches -> WatchPcs]
      /\ wkey \in [Watches -> Keys \cup {NoKey}]
      /\ cancelled \subseteq Watches
      /\ doomed \in [Sessions -> SUBSET Watches]
  BY DEF TypeOK
<1>1. /\ calls[c].pc = "resolving" /\ subs[k] = NoWatch /\ wpc[w] = "unused"
      /\ subs' = [subs EXCEPT ![k] = w]
      /\ sessions' = AddUri(s, u)
      /\ wpc' = [wpc EXCEPT ![w] = "starting"]
      /\ wkey' = [wkey EXCEPT ![w] = k]
      /\ calls' = [calls EXCEPT ![c] = [pc |-> "subscribed", key |-> k, watch |-> w]]
      /\ UNCHANGED <<rootDone, cancelled, sess, doomed, buf, batch, tokens>>
  BY DEF OpenSubscription, SetCall, Vacant, ctxVars, sessVars
<1>2. /\ k \in Keys /\ s \in Sessions /\ u \in Uris /\ k = <<s, u>> /\ sess[s] # "cleaned"
  BY <1>1 DEF CallShape, InFlight, Keys, SessionOf, UriOf
<1>ix. /\ DOMAIN sessions' = DOMAIN sessions \cup {s}
       /\ sessions' \in [DOMAIN sessions \cup {s} -> SUBSET Uris]
       /\ \A t \in DOMAIN sessions \ {s} : sessions'[t] = sessions[t]
       /\ \A v : v \in sessions'[s] <=>
                   v = u \/ (s \in DOMAIN sessions /\ v \in sessions[s])
  <2> HIDE DEF k, s, u
  <2> QED BY <1>1, <1>2, AddUriIndex
<1>3. /\ wkey[w] = NoKey /\ w \notin cancelled /\ batch[w] = <<>>
  BY <1>1 DEF WatchShape
<1>4. ~CancelDue(w) /\ \A j \in Keys : subs[j] # w
  <2>1. \A j \in Keys : subs[j] # w
    BY <1>3 DEF OpenIsNotCancelled
  <2>2. \A d \in Callers : ~(calls[d].pc = "cancelling" /\ calls[d].watch = w)
    BY <1>3 DEF CallShape, InFlight
  <2>3. \A t \in Sessions : w \notin doomed[t]
    BY <1>3 DEF DoomedShape, KeysOfSession, Keys
  <2> QED BY <2>1, <2>2, <2>3 DEF CancelDue
<1>5. \A v : CancelDue(v)' <=> CancelDue(v)
  BY <1>1, <1>0 DEF CancelDue
<1>6. TypeOK'
  <2>1. DOMAIN sessions' \subseteq Sessions /\ sessions' \in [DOMAIN sessions' -> SUBSET Uris]
    BY <1>ix, <1>2 DEF TypeOK
  <2>2. calls' \in [Callers -> [pc : CallPcs, key : Keys \cup {NoKey}, watch : Watches \cup {NoWatch}]]
    BY <1>0, <1>1, <1>2 DEF CallPcs
  <2> QED BY <1>1, <1>2, <2>1, <2>2 DEF TypeOK, WatchPcs
<1>7. WatchShape'
  BY <1>0, <1>1, <1>2, <1>3 DEF WatchShape
<1>8. CallShape'
  BY <1>0, <1>1, <1>2, <1>3 DEF CallShape, InFlight
<1>9. DoomedShape'
  BY <1>0, <1>1, <1>4 DEF DoomedShape, CancelDue
<1>10. Accounted'
  BY <1>0, <1>1, <1>2, <1>5 DEF Accounted, WatchShape
<1>11. IndexAgrees'
  <2>1. ASSUME NEW t \in Sessions, NEW v \in Uris
        PROVE  subs'[<<t, v>>] # NoWatch <=> t \in DOMAIN sessions' /\ v \in sessions'[t]
    <3>1. CASE t = s
      <4>1. <<t, v>> = k <=> v = u
        BY <1>2, <3>1
      <4>2. <<t, v>> \in Keys
        BY DEF Keys
      <4> QED BY <1>0, <1>1, <1>2, <1>ix, <3>1, <4>1, <4>2 DEF IndexAgrees
    <3>2. CASE t # s
      <4>1. <<t, v>> # k /\ <<t, v>> \in Keys
        BY <1>2, <3>2 DEF Keys
      <4> QED BY <1>0, <1>1, <1>2, <1>ix, <3>2, <4>1 DEF IndexAgrees
    <3> QED BY <3>1, <3>2
  <2>2. \A t \in DOMAIN sessions' : sessions'[t] # {}
    BY <1>ix DEF IndexAgrees
  <2> QED BY <2>1, <2>2 DEF IndexAgrees
<1>12. OpenIsNotCancelled'
  BY <1>0, <1>1, <1>2, <1>3, <1>4, <1>5 DEF OpenIsNotCancelled
<1>13. TornDown'
  BY <1>0, <1>1, <1>2 DEF TornDown
<1> QED BY <1>6, <1>7, <1>8, <1>9, <1>10, <1>11, <1>12, <1>13

(* The critical section of unsubscribe: the watch leaves the map and its    *)
(* cancel becomes due in the same step.                                     *)
LEMMA RemoveKeepsIInv ==
    ASSUME IInv, NEW c \in Callers, RemoveSubscription(c)
    PROVE  IInv'
<1> DEFINE k == calls[c].key
           s == SessionOf(k)
           u == UriOf(k)
           w == subs[k]
<1> USE DEF IInv
<1>0. /\ subs \in [Keys -> Watches \cup {NoWatch}]
      /\ calls \in [Callers -> [pc : CallPcs, key : Keys \cup {NoKey}, watch : Watches \cup {NoWatch}]]
  BY DEF TypeOK
<1>1. /\ calls[c].pc = "unsubscribing" /\ w # NoWatch
      /\ subs' = [subs EXCEPT ![k] = NoWatch]
      /\ sessions' = DropUri(s, u)
      /\ calls' = [calls EXCEPT ![c] = [pc |-> "cancelling", key |-> k, watch |-> w]]
      /\ UNCHANGED <<rootDone, cancelled, sess, doomed, wpc, wkey, buf, batch, tokens>>
  BY DEF RemoveSubscription, Removed, SetCall, ctxVars, sessVars, loopVars
<1>2. /\ k \in Keys /\ s \in Sessions /\ u \in Uris /\ k = <<s, u>> /\ sess[s] # "cleaned"
  BY <1>1 DEF CallShape, InFlight, Keys, SessionOf, UriOf
<1>3. w \in Watches /\ wkey[w] = k /\ wpc[w] # "unused"
  BY <1>0, <1>1, <1>2 DEF OpenIsNotCancelled
<1>ix. /\ DOMAIN sessions' \subseteq DOMAIN sessions
       /\ sessions' \in [DOMAIN sessions' -> SUBSET Uris]
       /\ \A t \in DOMAIN sessions \ {s} : t \in DOMAIN sessions' /\ sessions'[t] = sessions[t]
       /\ s \in DOMAIN sessions' => sessions'[s] = sessions[s] \ {u} /\ sessions'[s] # {}
       /\ s \in DOMAIN sessions /\ s \notin DOMAIN sessions' => sessions[s] \ {u} = {}
  <2> HIDE DEF k, s, u
  <2> QED BY <1>1, <1>2, DropUriIndex
<1>4. \A v : CancelDue(v)' <=> v = w \/ CancelDue(v)
  BY <1>0, <1>1 DEF CancelDue
<1>5. TypeOK'
  <2>1. calls' \in [Callers -> [pc : CallPcs, key : Keys \cup {NoKey}, watch : Watches \cup {NoWatch}]]
    BY <1>0, <1>1, <1>2, <1>3 DEF CallPcs
  <2> QED BY <1>1, <1>2, <1>ix, <2>1 DEF TypeOK
<1>6. WatchShape'
  BY <1>1 DEF WatchShape
<1>7. CallShape'
  BY <1>0, <1>1, <1>2, <1>3 DEF CallShape, InFlight
<1>8. DoomedShape'
  BY <1>1 DEF DoomedShape
<1>9. Accounted'
  <2>1. ASSUME NEW v \in Watches, wpc'[v] # "unused"
        PROVE  subs'[wkey'[v]] = v \/ v \in cancelled' \/ CancelDue(v)'
    <3>1. wkey[v] \in Keys
      BY <1>1, <2>1 DEF WatchShape, TypeOK
    <3>2. subs[wkey[v]] = v \/ v \in cancelled \/ CancelDue(v)
      BY <1>1, <2>1 DEF Accounted
    <3>3. subs[wkey[v]] = v => v = w \/ subs'[wkey[v]] = v
      BY <1>0, <1>1, <3>1
    <3> QED BY <1>1, <1>4, <3>2, <3>3
  <2> QED BY <2>1 DEF Accounted
<1>10. IndexAgrees'
  <2>1. ASSUME NEW t \in Sessions, NEW v \in Uris
        PROVE  subs'[<<t, v>>] # NoWatch <=> t \in DOMAIN sessions' /\ v \in sessions'[t]
    <3>1. CASE t = s
      <4>1. <<t, v>> = k <=> v = u
        BY <1>2, <3>1
      <4>2. <<t, v>> \in Keys
        BY DEF Keys
      <4>3. subs[<<t, v>>] # NoWatch <=> t \in DOMAIN sessions /\ v \in sessions[t]
        BY DEF IndexAgrees
      <4> QED BY <1>0, <1>1, <1>2, <1>ix, <3>1, <4>1, <4>2, <4>3
    <3>2. CASE t # s
      <4>1. <<t, v>> # k /\ <<t, v>> \in Keys
        BY <1>2, <3>2 DEF Keys
      <4> QED BY <1>0, <1>1, <1>2, <1>ix, <3>2, <4>1 DEF IndexAgrees
    <3> QED BY <3>1, <3>2
  <2>2. \A t \in DOMAIN sessions' : sessions'[t] # {}
    BY <1>ix DEF IndexAgrees
  <2> QED BY <2>1, <2>2 DEF IndexAgrees
<1>11. OpenIsNotCancelled'
  <2>1. \A j \in Keys : subs'[j] # NoWatch => j # k /\ subs'[j] = subs[j]
    BY <1>0, <1>1, <1>2
  <2>2. \A j \in Keys : subs[j] # NoWatch => wkey[subs[j]] = j
    BY DEF OpenIsNotCancelled
  <2>3. \A j \in Keys : subs'[j] # NoWatch => subs[j] # w
    BY <1>1, <1>3, <2>1, <2>2
  <2> HIDE DEF k, w
  <2> QED BY <1>1, <1>4, <2>1, <2>3 DEF OpenIsNotCancelled
<1>12. TornDown'
  BY <1>0, <1>1, <1>2 DEF TornDown
<1> QED BY <1>5, <1>6, <1>7, <1>8, <1>9, <1>10, <1>11, <1>12

(* cancel() called by unsubscribe after it has released the mutex. *)
LEMMA CancelRemovedKeepsIInv ==
    ASSUME IInv, NEW c \in Callers, CancelRemoved(c)
    PROVE  IInv'
<1> DEFINE w == calls[c].watch
<1> USE DEF IInv
<1>0. calls \in [Callers -> [pc : CallPcs, key : Keys \cup {NoKey}, watch : Watches \cup {NoWatch}]]
  BY DEF TypeOK
<1>1. /\ calls[c].pc = "cancelling"
      /\ cancelled' = cancelled \cup {w}
      /\ calls' = [calls EXCEPT ![c] = [pc |-> "unsubscribed", key |-> calls[c].key, watch |-> w]]
      /\ UNCHANGED <<subs, sessions, rootDone, sess, doomed, wpc, wkey, buf, batch, tokens>>
  BY DEF CancelRemoved, SetCall, mapVars, sessVars, loopVars
<1>2. w \in Watches /\ wkey[w] = calls[c].key /\ calls[c].key \in Keys /\ CancelDue(w)
  BY <1>1 DEF CallShape, InFlight, CancelDue
<1>3. wpc[w] # "unused"
  BY <1>2 DEF WatchShape
<1>4. \A v : /\ CancelDue(v)' => CancelDue(v)
             /\ CancelDue(v) => v = w \/ CancelDue(v)'
  BY <1>0, <1>1 DEF CancelDue
<1>5. TypeOK'
  <2>1. calls' \in [Callers -> [pc : CallPcs, key : Keys \cup {NoKey}, watch : Watches \cup {NoWatch}]]
    BY <1>0, <1>1, <1>2 DEF CallPcs
  <2> QED BY <1>1, <1>2, <2>1 DEF TypeOK
<1>6. WatchShape'
  BY <1>1, <1>3 DEF WatchShape
<1>7. CallShape'
  BY <1>0, <1>1, <1>2 DEF CallShape, InFlight
<1>8. DoomedShape' /\ IndexAgrees'
  BY <1>1 DEF DoomedShape, IndexAgrees
<1>9. Accounted'
  BY <1>1, <1>4 DEF Accounted
<1>10. OpenIsNotCancelled'
  <2>1. \A j \in Keys : subs[j] # NoWatch => subs[j] # w
    BY <1>2 DEF OpenIsNotCancelled
  <2> QED BY <1>1, <1>4, <2>1 DEF OpenIsNotCancelled
<1>11. TornDown'
  BY <1>1 DEF TornDown
<1> QED BY <1>5, <1>6, <1>7, <1>8, <1>9, <1>10, <1>11

-----------------------------------------------------------------------------
(* The supervisors, and Shutdown. *)
LEMMA DisconnectKeepsIInv == ASSUME IInv, NEW s \in Sessions, Disconnect(s) PROVE IInv'
<1> USE DEF IInv
<1>0. sess \in [Sessions -> {"up", "closed", "cleaned"}]
  BY DEF TypeOK
<1>1. /\ sess[s] = "up" /\ sess' = [sess EXCEPT ![s] = "closed"]
      /\ UNCHANGED <<subs, sessions, rootDone, cancelled, calls, doomed, wpc, wkey, buf, batch, tokens>>
  BY DEF Disconnect, mapVars, ctxVars, loopVars
<1>2. \A t \in Sessions : sess'[t] = "cleaned" <=> sess[t] = "cleaned"
  BY <1>0, <1>1
<1>3. TypeOK' /\ WatchShape'
  BY <1>1 DEF TypeOK, WatchShape
<1>4. CallShape'
  BY <1>1, <1>2 DEF CallShape, InFlight, Keys, SessionOf
<1>5. DoomedShape'
  BY <1>1, <1>2 DEF DoomedShape
<1>6. \A v : CancelDue(v)' <=> CancelDue(v)
  BY <1>1 DEF CancelDue
<1>7. Accounted' /\ IndexAgrees' /\ OpenIsNotCancelled'
  BY <1>1, <1>6 DEF Accounted, IndexAgrees, OpenIsNotCancelled
<1>8. TornDown'
  BY <1>1, <1>2 DEF TornDown, Keys, SessionOf
<1> QED BY <1>3, <1>4, <1>5, <1>7, <1>8

(* Cancelling the root context touches neither map. *)
LEMMA ShutdownKeepsIInv == ASSUME IInv, Shutdown PROVE IInv'
<1> USE DEF IInv
<1>1. UNCHANGED <<subs, sessions, cancelled, calls, sess, doomed, wpc, wkey, buf, batch, tokens>>
  BY DEF Shutdown, mapVars, sessVars, loopVars
<1>2. TypeOK' /\ WatchShape'
  BY <1>1 DEF TypeOK, WatchShape, Shutdown
<1>3. CallShape' /\ DoomedShape'
  BY <1>1 DEF CallShape, InFlight, DoomedShape
<1>4. \A v : CancelDue(v)' <=> CancelDue(v)
  BY <1>1 DEF CancelDue
<1>5. Accounted' /\ IndexAgrees' /\ OpenIsNotCancelled' /\ TornDown'
  BY <1>1, <1>4 DEF Accounted, IndexAgrees, OpenIsNotCancelled, TornDown
<1> QED BY <1>2, <1>3, <1>5

(* cleanupSession's critical section.  Every entry of the session leaves    *)
(* the map and its cancel becomes due, because the index lists exactly the  *)
(* session's keys; no handler holds a cancel of the session, because the    *)
(* connection is drained.                                                   *)
LEMMA CleanupKeepsIInv ==
    ASSUME IInv, NEW s \in Sessions, CleanupSession(s)
    PROVE  IInv'
<1> USE DEF IInv
<1>0. /\ subs \in [Keys -> Watches \cup {NoWatch}]
      /\ sess \in [Sessions -> {"up", "closed", "cleaned"}]
      /\ doomed \in [Sessions -> SUBSET Watches]
      /\ DOMAIN sessions \subseteq Sessions
      /\ sessions \in [DOMAIN sessions -> SUBSET Uris]
  BY DEF TypeOK
<1>1. /\ sess[s] = "closed" /\ Drained(s)
      /\ sess' = [sess EXCEPT ![s] = "cleaned"]
      /\ doomed' = [doomed EXCEPT ![s] = OwnedBy(s)]
      /\ subs' = WithoutKeysOf(s)
      /\ sessions' = WithoutSession(s)
      /\ UNCHANGED <<rootDone, cancelled, calls, wpc, wkey, buf, batch, tokens>>
  BY DEF CleanupSession, ctxVars, loopVars
<1>2. \A k \in Keys : SessionOf(k) \in Sessions /\ UriOf(k) \in Uris /\ k = <<SessionOf(k), UriOf(k)>>
  BY DEF Keys, SessionOf, UriOf
<1>3. \A k \in Keys : SessionOf(k) = s =>
         (subs[k] # NoWatch <=> s \in DOMAIN sessions /\ UriOf(k) \in sessions[s])
  BY <1>2 DEF IndexAgrees
<1>4. \A k \in Keys : subs'[k] = IF SessionOf(k) = s THEN NoWatch ELSE subs[k]
  BY <1>1, <1>3 DEF WithoutKeysOf
<1>5. \A w : w \in OwnedBy(s) <=>
         w # NoWatch /\ \E k \in Keys : SessionOf(k) = s /\ subs[k] = w
  <2>1. ASSUME NEW k \in Keys, SessionOf(k) = s, subs[k] # NoWatch
        PROVE  subs[k] \in OwnedBy(s)
    <3>1. s \in DOMAIN sessions /\ UriOf(k) \in sessions[s] /\ k = <<s, UriOf(k)>>
      BY <1>2, <1>3, <2>1
    <3> QED BY <2>1, <3>1 DEF OwnedBy
  <2>2. ASSUME NEW w, w \in OwnedBy(s)
        PROVE  w # NoWatch /\ \E k \in Keys : SessionOf(k) = s /\ subs[k] = w
    <3>1. PICK u \in sessions[s] : s \in DOMAIN sessions /\ w = subs[<<s, u>>] /\ w # NoWatch
      BY <2>2 DEF OwnedBy
    <3>2. <<s, u>> \in Keys /\ SessionOf(<<s, u>>) = s
      BY <1>0, <3>1 DEF Keys, SessionOf
    <3> QED BY <3>1, <3>2
  <2> QED BY <2>1, <2>2
<1>6. doomed[s] = {}
  BY <1>1 DEF DoomedShape
<1>7. \A v \in Watches : CancelDue(v)' <=> CancelDue(v) \/ v \in OwnedBy(s)
  BY <1>0, <1>1, <1>6 DEF CancelDue
<1>8. OwnedBy(s) \subseteq Watches
  BY <1>0, <1>5
<1>9. TypeOK'
  <2>1. subs' \in [Keys -> Watches \cup {NoWatch}]
    BY <1>0, <1>1 DEF WithoutKeysOf
  <2>2. DOMAIN sessions' \subseteq Sessions /\ sessions' \in [DOMAIN sessions' -> SUBSET Uris]
    BY <1>0, <1>1 DEF WithoutSession
  <2> QED BY <1>1, <1>8, <2>1, <2>2 DEF TypeOK
<1>10. WatchShape'
  BY <1>1 DEF WatchShape
<1>11. CallShape'
  <2>1. ASSUME NEW c \in Callers, InFlight(c)
        PROVE  calls[c].key \in Keys /\ sess'[SessionOf(calls[c].key)] # "cleaned"
    BY <1>0, <1>1, <1>2, <2>1 DEF CallShape, Drained
  <2> QED BY <1>1, <2>1 DEF CallShape, InFlight
<1>12. DoomedShape'
  <2>1. \A w \in OwnedBy(s) : wkey[w] \in KeysOfSession(s)
    <3>1. ASSUME NEW w \in OwnedBy(s) PROVE wkey[w] \in KeysOfSession(s)
      <4>1. PICK k \in Keys : SessionOf(k) = s /\ subs[k] = w /\ w # NoWatch
        BY <1>5
      <4>2. wkey[w] = k
        BY <4>1 DEF OpenIsNotCancelled
      <4> QED BY <1>2, <4>1, <4>2 DEF KeysOfSession
    <3> QED BY <3>1
  <2> QED BY <1>0, <1>1, <2>1 DEF DoomedShape
<1>13. Accounted'
  <2>1. ASSUME NEW v \in Watches, wpc[v] # "unused"
        PROVE  subs'[wkey[v]] = v \/ v \in cancelled \/ CancelDue(v)'
    <3>1. wkey[v] \in Keys
      BY <2>1 DEF WatchShape, TypeOK
    <3>2. subs[wkey[v]] = v \/ v \in cancelled \/ CancelDue(v)
      BY <2>1 DEF Accounted
    <3>3. subs[wkey[v]] = v => subs'[wkey[v]] = v \/ v \in OwnedBy(s)
      BY <1>4, <1>5, <3>1, KeyAssumption
    <3> QED BY <1>7, <3>2, <3>3
  <2> QED BY <1>1, <2>1 DEF Accounted
<1>14. IndexAgrees'
  <2>1. ASSUME NEW t \in Sessions, NEW u \in Uris
        PROVE  subs'[<<t, u>>] # NoWatch <=> t \in DOMAIN sessions' /\ u \in sessions'[t]
    <3>1. <<t, u>> \in Keys /\ SessionOf(<<t, u>>) = t
      BY DEF Keys, SessionOf
    <3>2. DOMAIN sessions' = DOMAIN sessions \ {s} /\ \A r \in DOMAIN sessions \ {s} : sessions'[r] = sessions[r]
      BY <1>1 DEF WithoutSession
    <3> QED BY <1>4, <3>1, <3>2 DEF IndexAgrees
  <2>2. \A t \in DOMAIN sessions' : sessions'[t] # {}
    BY <1>1 DEF WithoutSession, IndexAgrees
  <2> QED BY <2>1, <2>2 DEF IndexAgrees
<1>15. OpenIsNotCancelled'
  <2>1. \A k \in Keys : subs'[k] # NoWatch => subs'[k] = subs[k] /\ SessionOf(k) # s
    BY <1>4
  <2>2. \A k \in Keys : subs'[k] # NoWatch => subs[k] \notin OwnedBy(s)
    BY <1>5, <2>1 DEF OpenIsNotCancelled
  <2>3. \A k \in Keys : subs[k] # NoWatch => subs[k] \in Watches
    BY <1>0
  <2> QED BY <1>1, <1>7, <2>1, <2>2, <2>3 DEF OpenIsNotCancelled
<1>16. TornDown'
  <2>1. ASSUME NEW k \in Keys, sess'[SessionOf(k)] = "cleaned"
        PROVE  /\ subs'[k] = NoWatch
               /\ \A w \in Watches : wkey[w] = k => w \in cancelled \cup doomed'[SessionOf(k)]
    <3>1. CASE SessionOf(k) # s
      BY <1>0, <1>1, <1>2, <1>4, <2>1, <3>1 DEF TornDown
    <3>2. CASE SessionOf(k) = s
      <4>1. ASSUME NEW w \in Watches, wkey[w] = k
            PROVE  w \in cancelled \cup OwnedBy(s)
        <5>1. wpc[w] # "unused"
          BY <4>1, KeyAssumption DEF WatchShape
        <5>2. subs[k] = w \/ w \in cancelled \/ CancelDue(w)
          BY <4>1, <5>1 DEF Accounted
        <5>3. \A c \in Callers : ~(calls[c].pc = "cancelling" /\ calls[c].watch = w)
          BY <1>1, <3>2, <4>1 DEF CallShape, InFlight, Drained
        <5>4. \A t \in Sessions : w \in doomed[t] => t = s
          BY <3>2, <4>1 DEF DoomedShape, KeysOfSession, SessionOf
        <5>5. ~CancelDue(w)
          BY <1>6, <5>3, <5>4 DEF CancelDue
        <5>6. subs[k] = w => w \in OwnedBy(s)
          BY <1>5, <3>2, KeyAssumption
        <5> QED BY <5>2, <5>5, <5>6
      <4> QED BY <1>0, <1>1, <1>4, <3>2, <4>1
    <3> QED BY <3>1, <3>2
  <2> QED BY <1>1, <2>1 DEF TornDown
<1> QED BY <1>9, <1>10, <1>11, <1>12, <1>13, <1>14, <1>15, <1>16

(* One cancel of the loop that ends cleanupSession. *)
LEMMA CancelDoomedKeepsIInv ==
    ASSUME IInv, NEW s \in Sessions, NEW w \in Watches, CancelDoomed(s, w)
    PROVE  IInv'
<1> USE DEF IInv
<1>0. doomed \in [Sessions -> SUBSET Watches]
  BY DEF TypeOK
<1>1. /\ w \in doomed[s]
      /\ doomed' = [doomed EXCEPT ![s] = @ \ {w}]
      /\ cancelled' = cancelled \cup {w}
      /\ UNCHANGED <<subs, sessions, rootDone, calls, sess, wpc, wkey, buf, batch, tokens>>
  BY DEF CancelDoomed, mapVars, loopVars
<1>2. CancelDue(w) /\ wkey[w] \in Keys
  BY <1>1 DEF CancelDue, DoomedShape, KeysOfSession, Keys
<1>3. wpc[w] # "unused"
  BY <1>2, KeyAssumption DEF WatchShape
<1>4. \A v : /\ CancelDue(v)' => CancelDue(v)
             /\ CancelDue(v) => v = w \/ CancelDue(v)'
  BY <1>0, <1>1 DEF CancelDue
<1>5. TypeOK'
  BY <1>0, <1>1 DEF TypeOK
<1>6. WatchShape'
  BY <1>1, <1>3 DEF WatchShape
<1>7. CallShape' /\ IndexAgrees'
  BY <1>1 DEF CallShape, InFlight, IndexAgrees
<1>8. DoomedShape'
  BY <1>0, <1>1 DEF DoomedShape
<1>9. Accounted'
  BY <1>1, <1>4 DEF Accounted
<1>10. OpenIsNotCancelled'
  <2>1. \A j \in Keys : subs[j] # NoWatch => subs[j] # w
    BY <1>2 DEF OpenIsNotCancelled
  <2> QED BY <1>1, <1>4, <2>1 DEF OpenIsNotCancelled
<1>11. TornDown'
  <2>1. \A t \in Sessions : \A v \in Watches :
           v \in cancelled \cup doomed[t] => v \in cancelled' \cup doomed'[t]
    BY <1>0, <1>1
  <2>2. \A k \in Keys : SessionOf(k) \in Sessions
    BY DEF Keys, SessionOf
  <2> QED BY <1>1, <2>1, <2>2 DEF TornDown
<1> QED BY <1>5, <1>6, <1>7, <1>8, <1>9, <1>10, <1>11

-----------------------------------------------------------------------------
LEMMA NextIInv == IInv /\ [Next]_vars => IInv'
<1> SUFFICES ASSUME IInv, [Next]_vars PROVE IInv'
  OBVIOUS
<1>1. ASSUME NEW c \in Callers, SubscribeCall(c) PROVE IInv'
  BY <1>1, AnsweringKeepsIInv, OpenKeepsIInv DEF SubscribeCall
<1>2. ASSUME NEW c \in Callers, UnsubscribeCall(c) PROVE IInv'
  BY <1>2, AnsweringKeepsIInv, RemoveKeepsIInv, CancelRemovedKeepsIInv DEF UnsubscribeCall
<1>3. ASSUME NEW s \in Sessions, Supervisor(s) PROVE IInv'
  BY <1>3, DisconnectKeepsIInv, CleanupKeepsIInv, CancelDoomedKeepsIInv DEF Supervisor
<1>4. ASSUME NEW w \in Watches, Watcher(w) PROVE IInv'
  BY <1>4, WatcherKeepsIInv
<1>5. CASE Cosi \/ Refill \/ Shutdown
  BY <1>5, CosiKeepsIInv, RefillKeepsIInv, ShutdownKeepsIInv
<1>6. CASE UNCHANGED vars
  <2>1. \A v : CancelDue(v)' <=> CancelDue(v)
    BY <1>6 DEF CancelDue, vars
  <2>2. TypeOK' /\ WatchShape' /\ CallShape' /\ DoomedShape'
    BY <1>6 DEF IInv, TypeOK, WatchShape, CallShape, InFlight, DoomedShape, vars
  <2>3. Accounted' /\ IndexAgrees' /\ OpenIsNotCancelled' /\ TornDown'
    BY <1>6, <2>1 DEF IInv, Accounted, IndexAgrees, OpenIsNotCancelled, TornDown, vars
  <2> QED BY <2>2, <2>3 DEF IInv
<1> QED BY <1>1, <1>2, <1>3, <1>4, <1>5, <1>6 DEF Next

(* The inductive invariant holds of every execution of the Manager. *)
THEOREM Invariance == Spec => []IInv
<1>1. Init => IInv
  BY InitIInv
<1>2. IInv /\ [Next]_vars => IInv'
  BY NextIInv
<1> QED BY <1>1, <1>2, PTL DEF Spec

(* Every variable of the Manager keeps to its type; no limiter is overdrawn. *)
THEOREM TypeCorrect == Spec => []TypeOK
<1>1. IInv => TypeOK
  BY DEF IInv
<1> QED BY <1>1, Invariance, PTL

(* The two maps guarded by Manager.mu always agree. *)
THEOREM IndexCorrect == Spec => []IndexAgrees
<1>1. IInv => IndexAgrees
  BY DEF IInv
<1> QED BY <1>1, Invariance, PTL

(* No watcher goroutine leaks, whatever the interleaving of subscribes,     *)
(* unsubscribes, disconnects and Shutdown.                                  *)
THEOREM NoLeak == Spec => []OwnedOrDoomed
<1>1. IInv => OwnedOrDoomed
  BY DEF IInv, Accounted, OwnedOrDoomed, CtxDone, Running
<1> QED BY <1>1, Invariance, PTL

(* No cancel, however late, reaches the watch of an open subscription. *)
THEOREM NoStrayCancel == Spec => []OpenIsNotCancelled
<1>1. IInv => OpenIsNotCancelled
  BY DEF IInv
<1> QED BY <1>1, Invariance, PTL

(* A session that was cleaned up has no subscription and never gets one. *)
THEOREM NoResurrection == Spec => []TornDown
<1>1. IInv => TornDown
  BY DEF IInv
<1> QED BY <1>1, Invariance, PTL

-----------------------------------------------------------------------------
(* The Manager implements SubscriptionService: under the refinement mapping *)
(* of SubscriptionManager every step of the Manager is a step of the        *)
(* service or changes nothing it can see.                                   *)

(* The refinement mapping, named. *)
OpenKeys == {k \in Keys : subs[k] # NoWatch}
RunningKeys == {k \in Keys : \E w \in Watches : wkey[w] = k /\ wpc[w] \in Running}
LeavingSessions == {s \in Sessions : sess[s] = "closed"}
GoneSessions == {s \in Sessions : sess[s] = "cleaned"}
View == <<OpenKeys, RunningKeys, LeavingSessions, GoneSessions, rootDone>>

USE DEF OpenKeys, RunningKeys, LeavingSessions, GoneSessions, View

(* The Manager starts as the service does. *)
LEMMA InitRefines == Init => Service!Init
  BY DEF Init, Service!Init, Running

(* Steps that leave every mapped variable as it is. *)
LEMMA QuietRefines ==
    ASSUME UNCHANGED <<subs, wpc, wkey, sess, rootDone>>
    PROVE  UNCHANGED View
  OBVIOUS

(* A new entry of the map opens a subscription. *)
LEMMA OpenRefines ==
    ASSUME IInv, NEW c \in Callers, NEW w \in Watches, OpenSubscription(c, w)
    PROVE  Service!Next
<1> DEFINE k == calls[c].key
<1>1. /\ calls[c].pc = "resolving" /\ subs[k] = NoWatch /\ wpc[w] = "unused"
      /\ subs' = [subs EXCEPT ![k] = w]
      /\ wpc' = [wpc EXCEPT ![w] = "starting"]
      /\ wkey' = [wkey EXCEPT ![w] = k]
      /\ UNCHANGED <<rootDone, sess>>
  BY DEF OpenSubscription, Vacant, ctxVars, sessVars
<1>2. /\ k \in Keys
      /\ \E s \in Sessions, u \in Uris : k = <<s, u>> /\ sess[s] # "cleaned"
  BY <1>1 DEF IInv, CallShape, InFlight, Keys, SessionOf, UriOf
<1>3. /\ subs \in [Keys -> Watches \cup {NoWatch}]
      /\ wpc \in [Watches -> WatchPcs]
      /\ wkey \in [Watches -> Keys \cup {NoKey}]
  BY DEF IInv, TypeOK
<1>4. wkey[w] = NoKey
  BY <1>1 DEF IInv, WatchShape
<1> HIDE DEF k
<1> PICK s \in Sessions, u \in Uris : k = <<s, u>> /\ sess[s] # "cleaned"
  BY <1>2
<1>5. OpenKeys' = OpenKeys \cup {<<s, u>>}
  <2>1. subs'[k] # NoWatch
    BY <1>1, <1>2, <1>3, KeyAssumption
  <2>2. \A j \in Keys : j # k => subs'[j] = subs[j]
    BY <1>1, <1>3
  <2> QED BY <1>2, <2>1, <2>2
<1>6. RunningKeys' = RunningKeys \cup {<<s, u>>}
  <2>1. \A v \in Watches : v # w => wkey'[v] = wkey[v] /\ wpc'[v] = wpc[v]
    BY <1>1, <1>3
  <2>2. wkey'[w] = <<s, u>> /\ wpc'[w] \in Running /\ wpc[w] \notin Running
    BY <1>1, <1>2, <1>3 DEF Running
  <2> QED BY <1>2, <2>1, <2>2
<1>7. s \notin GoneSessions /\ <<s, u>> \notin OpenKeys
  BY <1>1, <1>2
<1>8. UNCHANGED <<LeavingSessions, GoneSessions, rootDone>>
  BY <1>1
<1>9. Service!Open(s, u)
  BY <1>5, <1>6, <1>7, <1>8 DEF Service!Open
<1> QED BY <1>9 DEF Service!Next

(* Removing the entry closes it. *)
LEMMA RemoveRefines ==
    ASSUME IInv, NEW c \in Callers, RemoveSubscription(c)
    PROVE  Service!Next
<1> DEFINE k == calls[c].key
<1>1. /\ calls[c].pc = "unsubscribing" /\ subs[k] # NoWatch
      /\ subs' = [subs EXCEPT ![k] = NoWatch]
      /\ UNCHANGED <<wpc, wkey, rootDone, sess>>
  BY DEF RemoveSubscription, Removed, ctxVars, sessVars, loopVars
<1>2. /\ k \in Keys
      /\ \E s \in Sessions, u \in Uris : k = <<s, u>> /\ sess[s] # "cleaned"
  BY <1>1 DEF IInv, CallShape, InFlight, Keys, SessionOf, UriOf
<1>3. subs \in [Keys -> Watches \cup {NoWatch}]
  BY DEF IInv, TypeOK
<1> HIDE DEF k
<1> PICK s \in Sessions, u \in Uris : k = <<s, u>> /\ sess[s] # "cleaned"
  BY <1>2
<1>4. OpenKeys' = OpenKeys \ {<<s, u>>}
  BY <1>1, <1>2, <1>3
<1>5. s \notin GoneSessions /\ <<s, u>> \in OpenKeys
  BY <1>1, <1>2
<1>6. UNCHANGED <<RunningKeys, LeavingSessions, GoneSessions, rootDone>>
  BY <1>1
<1>7. Service!Close(s, u)
  BY <1>4, <1>5, <1>6 DEF Service!Close
<1> QED BY <1>7 DEF Service!Next

(* A disconnect is the service's Leave. *)
LEMMA DisconnectRefines ==
    ASSUME IInv, NEW s \in Sessions, Disconnect(s)
    PROVE  Service!Next
<1>1. /\ sess[s] = "up" /\ sess' = [sess EXCEPT ![s] = "closed"]
      /\ UNCHANGED <<subs, wpc, wkey, rootDone>>
  BY DEF Disconnect, mapVars, ctxVars, loopVars
<1>2. sess \in [Sessions -> {"up", "closed", "cleaned"}]
  BY DEF IInv, TypeOK
<1>3. LeavingSessions' = LeavingSessions \cup {s} /\ GoneSessions' = GoneSessions
  BY <1>1, <1>2
<1>4. s \notin LeavingSessions \cup GoneSessions
  BY <1>1
<1>5. UNCHANGED <<OpenKeys, RunningKeys, rootDone>>
  BY <1>1
<1> QED BY <1>3, <1>4, <1>5 DEF Service!Next, Service!Leave

(* The supervisor's cleanup ends the session. *)
LEMMA CleanupRefines ==
    ASSUME IInv, NEW s \in Sessions, CleanupSession(s)
    PROVE  Service!Next
<1>1. /\ sess[s] = "closed" /\ sess' = [sess EXCEPT ![s] = "cleaned"]
      /\ subs' = WithoutKeysOf(s)
      /\ UNCHANGED <<wpc, wkey, rootDone>>
  BY DEF CleanupSession, ctxVars, loopVars
<1>2. sess \in [Sessions -> {"up", "closed", "cleaned"}]
  BY DEF IInv, TypeOK
<1>3. \A k \in Keys : SessionOf(k) = s /\ subs[k] # NoWatch =>
         s \in DOMAIN sessions /\ UriOf(k) \in sessions[s]
  BY DEF IInv, IndexAgrees, Keys, SessionOf, UriOf
<1>4. \A k \in Keys : subs'[k] = IF SessionOf(k) = s THEN NoWatch ELSE subs[k]
  BY <1>1, <1>3 DEF WithoutKeysOf
<1>5. \A k \in Keys : k \in {s} \X Uris <=> SessionOf(k) = s
  BY DEF Keys, SessionOf
<1>6. OpenKeys' = OpenKeys \ ({s} \X Uris)
  BY <1>4, <1>5
<1>7. /\ LeavingSessions' = LeavingSessions \ {s}
      /\ GoneSessions' = GoneSessions \cup {s}
      /\ s \in LeavingSessions
  BY <1>1, <1>2
<1>8. UNCHANGED <<RunningKeys, rootDone>>
  BY <1>1
<1> QED BY <1>6, <1>7, <1>8 DEF Service!Next, Service!EndSession, Service!KeysOf

(* A goroutine that returns ends the watch of its key, unless another one   *)
(* still watches it.                                                        *)
LEMMA StopRefines ==
    ASSUME IInv, NEW w \in Watches, Stop(w), wpc[w] \in Running
    PROVE  Service!Next \/ UNCHANGED View
<1>1. /\ wpc' = [wpc EXCEPT ![w] = "stopped"]
      /\ UNCHANGED <<subs, sess, wkey, rootDone>>
  BY DEF Stop, mapVars, ctxVars, sessVars
<1>2. wpc \in [Watches -> WatchPcs] /\ wkey[w] \in Keys
  BY DEF IInv, TypeOK, WatchShape, Running
<1>3. UNCHANGED <<OpenKeys, LeavingSessions, GoneSessions, rootDone>>
  BY <1>1
<1>4. RunningKeys' = RunningKeys \/ RunningKeys' = RunningKeys \ {wkey[w]}
  BY <1>1, <1>2 DEF Running
<1>5. wkey[w] \in RunningKeys
  BY <1>2
<1>6. CASE RunningKeys' = RunningKeys
  BY <1>3, <1>6
<1>7. CASE RunningKeys' = RunningKeys \ {wkey[w]}
  BY <1>2, <1>3, <1>5, <1>7 DEF Service!Next, Service!Exit, Keys
<1> QED BY <1>4, <1>6, <1>7

(* A watcher that returns is the service's Exit; its other steps stutter. *)
LEMMA WatcherRefines ==
    ASSUME IInv, NEW w \in Watches, Watcher(w)
    PROVE  Service!Next \/ UNCHANGED View
<1>0. wpc \in [Watches -> WatchPcs]
  BY DEF IInv, TypeOK
<1>1. CASE StartFails(w) \/ ObserveDone(w) \/ WatchErrored(w)
  BY <1>1, StopRefines DEF StartFails, ObserveDone, WatchErrored, NextEventIs, Running
<1>2. CASE StartWatch(w) \/ TakeBatch(w) \/ SkipEvent(w) \/ DropOverRate(w) \/ Notify(w)
  <2>1. /\ UNCHANGED <<subs, wkey, sess, rootDone>>
        /\ wpc[w] \in Running
        /\ \E p \in Running : wpc' = [wpc EXCEPT ![w] = p]
    BY <1>2, <1>0 DEF StartWatch, TakeBatch, SkipEvent, DropOverRate, Notify, EventDone,
                NextEventIs, Running, mapVars, ctxVars, sessVars
  <2>2. \A v \in Watches : wpc'[v] \in Running <=> wpc[v] \in Running
    BY <1>0, <2>1
  <2> QED BY <2>1, <2>2
<1> QED BY <1>1, <1>2 DEF Watcher

(* Every step of the Manager is one of the service, or a stutter. *)
LEMMA NextRefines ==
    ASSUME IInv, [Next]_vars
    PROVE  Service!Next \/ UNCHANGED View
<1>1. ASSUME NEW c \in Callers, SubscribeCall(c) PROVE Service!Next \/ UNCHANGED View
  <2>1. CASE \E w \in Watches : OpenSubscription(c, w)
    BY <2>1, OpenRefines
  <2>2. CASE \/ \E k \in Keys : BeginSubscribe(c, k)
             \/ RejectSubscribe(c) \/ DuplicateSubscribe(c) \/ ReturnSubscribe(c)
    BY <2>2, QuietRefines DEF BeginSubscribe, RejectSubscribe, DuplicateSubscribe,
                 ReturnSubscribe, mapVars, ctxVars, sessVars, loopVars
  <2> QED BY <1>1, <2>1, <2>2 DEF SubscribeCall
<1>2. ASSUME NEW c \in Callers, UnsubscribeCall(c) PROVE Service!Next \/ UNCHANGED View
  <2>1. CASE RemoveSubscription(c)
    BY <2>1, RemoveRefines
  <2>2. CASE \/ \E k \in Keys : BeginUnsubscribe(c, k)
             \/ NothingToRemove(c) \/ CancelRemoved(c) \/ ReturnUnsubscribe(c)
    BY <2>2, QuietRefines DEF BeginUnsubscribe, NothingToRemove, CancelRemoved,
                 ReturnUnsubscribe, mapVars, ctxVars, sessVars, loopVars
  <2> QED BY <1>2, <2>1, <2>2 DEF UnsubscribeCall
<1>3. ASSUME NEW s \in Sessions, Supervisor(s) PROVE Service!Next \/ UNCHANGED View
  <2>1. CASE Disconnect(s) \/ CleanupSession(s)
    BY <2>1, DisconnectRefines, CleanupRefines
  <2>2. CASE \E w \in Watches : CancelDoomed(s, w)
    BY <2>2, QuietRefines DEF CancelDoomed, mapVars, loopVars
  <2> QED BY <1>3, <2>1, <2>2 DEF Supervisor
<1>4. ASSUME NEW w \in Watches, Watcher(w) PROVE Service!Next \/ UNCHANGED View
  BY <1>4, WatcherRefines
<1>5. CASE Cosi \/ Refill
  BY <1>5, QuietRefines DEF Cosi, Publish, Refill, mapVars, ctxVars, sessVars
<1>6. CASE Shutdown
  <2>1. UNCHANGED <<OpenKeys, RunningKeys, LeavingSessions, GoneSessions>>
    BY <1>6 DEF Shutdown, mapVars, sessVars, loopVars
  <2> QED BY <1>6, <2>1 DEF Shutdown, Service!Next, Service!ShutDown
<1>7. CASE UNCHANGED vars
  BY <1>7, QuietRefines DEF vars
<1> QED BY <1>1, <1>2, <1>3, <1>4, <1>5, <1>6, <1>7 DEF Next

(* Seen through the mapping, the Manager behaves as SubscriptionService     *)
(* allows: subscriptions open and close at once, those of a session close   *)
(* together when it ends, and none opens afterwards.                        *)
THEOREM ManagerImplementsService == Spec => Service!Spec
<1>1. Init => Service!Init
  BY InitRefines
<1>2. IInv /\ [Next]_vars => [Service!Next]_(Service!svars)
  BY NextRefines DEF Service!svars
<1> QED BY <1>1, <1>2, Invariance, PTL DEF Spec, Service!Spec

HIDE DEF OpenKeys, RunningKeys, LeavingSessions, GoneSessions, View
=============================================================================
