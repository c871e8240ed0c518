------------------------ MODULE SubscriptionManager ------------------------
(***************************************************************************)
(* internal/subscriptions/manager.go: the Manager behind the MCP requests  *)
(* resources/subscribe and resources/unsubscribe.                          *)
(*                                                                         *)
(* Every subscribe and unsubscribe request runs in a goroutine of its own  *)
(* (a Caller); every open subscription owns a goroutine that reads a COSI  *)
(* watch (a Watch); every session has a supervisor goroutine.  They share  *)
(* the maps subs and sessions under Manager.mu, and contexts outside it.   *)
(* One action is one critical section of mu, one context.CancelFunc call,  *)
(* one select of a watcher, or one event it forwards.                      *)
(*                                                                         *)
(* Left out: the notify pointer, because main.go:300 binds it before       *)
(* runServer (main.go:306) lets a session exist, so the branch "server not *)
(* bound" of forwardEvent is not reachable in the program; log lines.      *)
(***************************************************************************)
EXTENDS Integers, Sequences, FiniteSets

CONSTANTS
    Sessions,      \* MCP session identifiers; the SDK never reuses one
    Uris,          \* resource URIs clients name in their requests
    Subscribable,  \* URIs that parse, whose node is allowed, of an AllowedType
    Lists,         \* URIs without a resource id: WatchKindAggregated
    Watches,       \* identities of subscription structs and their goroutines
    NoWatch,       \* the nil *subscription
    NoKey,         \* the key of a caller or watch not in use
    Callers,       \* request-handler goroutines
    Burst,         \* rateBurst: size of a limiter's token bucket
    MaxBatch,      \* bound: events in one batch of an aggregated watch
    MaxPending     \* bound: batches waiting in the channel of one watch

Keys == Sessions \X Uris
SessionOf(k) == k[1]
KeysOfSession(s) == {s} \X Uris
UriOf(k) == k[2]

ASSUME KeyAssumption ==
    /\ NoWatch \notin Watches
    /\ NoKey \notin Keys
    /\ Subscribable \subseteq Uris
    /\ Lists \subseteq Uris

ASSUME BoundAssumption ==
    /\ Burst \in Nat \ {0}       \* parseSubscriptionLimits refuses burst <= 0
    /\ MaxBatch \in Nat \ {0}
    /\ MaxPending \in Nat

VARIABLES
    subs,       \* Manager.subs: the subscription under each key
    sessions,   \* Manager.sessions: the URIs of each session that has an entry
    rootDone,   \* rootCtx is cancelled
    calls,      \* the requests in flight, by caller
    sess,       \* each session: "up", "closed" (disconnected), "cleaned"
    doomed,     \* the cancels a supervisor has collected and not yet called
    wpc,        \* where each watcher goroutine is
    wkey,       \* the key a watcher was opened for
    cancelled,  \* watchers whose own CancelFunc has been called
    buf,        \* batches a watcher has not received yet
    batch,      \* rest of the batch a watcher is forwarding
    tokens      \* whole tokens in each watcher's rate limiter

mapVars == <<subs, sessions>>
ctxVars == <<rootDone, cancelled>>
sessVars == <<sess, doomed>>
loopVars == <<wpc, wkey, buf, batch, tokens>>
vars == <<subs, sessions, rootDone, calls, sess, doomed,
          wpc, wkey, cancelled, buf, batch, tokens>>

Events == {"Change", "Noop", "Bootstrapped", "Errored"}
CallPcs == {"idle", "resolving", "subscribed",
            "unsubscribing", "cancelling", "unsubscribed"}
WatchPcs == {"unused", "starting", "selecting", "forwarding", "stopped"}
Running == {"starting", "selecting", "forwarding"}

IdleCall == [pc |-> "idle", key |-> NoKey, watch |-> NoWatch]

TypeOK ==
    /\ subs \in [Keys -> Watches \cup {NoWatch}]
    /\ DOMAIN sessions \subseteq Sessions
    /\ sessions \in [DOMAIN sessions -> SUBSET Uris]
    /\ rootDone \in BOOLEAN
    /\ calls \in [Callers -> [pc : CallPcs, key : Keys \cup {NoKey},
                              watch : Watches \cup {NoWatch}]]
    /\ sess \in [Sessions -> {"up", "closed", "cleaned"}]
    /\ doomed \in [Sessions -> SUBSET Watches]
    /\ wpc \in [Watches -> WatchPcs]
    /\ wkey \in [Watches -> Keys \cup {NoKey}]
    /\ cancelled \subseteq Watches
    /\ buf \in [Watches -> Seq(Seq(Events))]
    /\ batch \in [Watches -> Seq(Events)]
    /\ tokens \in [Watches -> 0..Burst]

Init ==
    /\ subs = [k \in Keys |-> NoWatch]
    /\ sessions = [s \in {} |-> {}]
    /\ rootDone = FALSE
    /\ calls = [c \in Callers |-> IdleCall]
    /\ sess = [s \in Sessions |-> "up"]
    /\ doomed = [s \in Sessions |-> {}]
    /\ wpc = [w \in Watches |-> "unused"]
    /\ wkey = [w \in Watches |-> NoKey]
    /\ cancelled = {}
    /\ buf = [w \in Watches |-> <<>>]
    /\ batch = [w \in Watches |-> <<>>]
    /\ tokens = [w \in Watches |-> Burst]

-----------------------------------------------------------------------------
(* Mutant: watchCtx derived from context.Background() instead of rootCtx. *)
CtxDone_OwnOnly(w) == w \in cancelled
(* The watch context: derived from rootCtx, cancelled by its own cancel too. *)
CtxDone(w) == rootDone \/ w \in cancelled

InFlight(c) == calls[c].pc # "idle"

(* Mutant: cleanupSession without waiting for ss.Wait(). *)
Drained_NoWait(s) == TRUE
(* A session is drained once no handler of its connection is running. *)
Drained(s) == \A c \in Callers : InFlight(c) => SessionOf(calls[c].key) # s

(* Bound: a subscribe starts only while an identity is left for its watcher. *)
Unused == {w \in Watches : wpc[w] = "unused"}
Resolving == {c \in Callers : calls[c].pc = "resolving"}
Room == Cardinality(Resolving) < Cardinality(Unused)

SetCall(c, pc, k, w) ==
    calls' = [calls EXCEPT ![c] = [pc |-> pc, key |-> k, watch |-> w]]

(* sessions[s] with uri added, the inner map made on first use. *)
AddUri(s, u) ==
    [t \in DOMAIN sessions \cup {s} |->
        IF t # s THEN sessions[t]
        ELSE IF s \in DOMAIN sessions THEN sessions[s] \cup {u} ELSE {u}]

WithoutSession(s) == [t \in DOMAIN sessions \ {s} |-> sessions[t]]

(* Mutant: the emptied inner map stays behind. *)
DropUri_KeepsEntry(s, u) == [sessions EXCEPT ![s] = @ \ {u}]
(* sessions[s] without uri, the entry deleted with its last URI. *)
DropUri(s, u) ==
    IF s \notin DOMAIN sessions THEN sessions
    ELSE IF sessions[s] \ {u} = {} THEN WithoutSession(s)
    ELSE [sessions EXCEPT ![s] = @ \ {u}]

(* Mutant: the duplicate check is left out of the critical section. *)
Vacant_Unchecked(k) == TRUE
(* The duplicate check of subscribe, made under mu. *)
Vacant(k) == subs[k] = NoWatch

-----------------------------------------------------------------------------
(* subscribe, up to and including the ResolveResourceKind call. *)
BeginSubscribe(c, k) ==
    /\ calls[c].pc = "idle"
    /\ sess[SessionOf(k)] = "up"
    /\ Room
    /\ SetCall(c, "resolving", k, NoWatch)
    /\ UNCHANGED <<mapVars, ctxVars, sessVars, loopVars>>

(* Bad URI, node or type, or a failed RPC: the request is answered with an  *)
(* error and nothing has changed.                                           *)
RejectSubscribe(c) ==
    /\ calls[c].pc = "resolving"
    /\ calls' = [calls EXCEPT ![c] = IdleCall]
    /\ UNCHANGED <<mapVars, ctxVars, sessVars, loopVars>>

(* The key already has a subscription: success, nothing opened. *)
DuplicateSubscribe(c) ==
    /\ calls[c].pc = "resolving"
    /\ UriOf(calls[c].key) \in Subscribable
    /\ ~Vacant(calls[c].key)
    /\ SetCall(c, "subscribed", calls[c].key, NoWatch)
    /\ UNCHANGED <<mapVars, ctxVars, sessVars, loopVars>>

(* The critical section that opens a subscription, and its go statement: a  *)
(* goroutine not yet started and one not yet scheduled are the same state.  *)
OpenSubscription(c, w) ==
    LET k == calls[c].key IN
    /\ calls[c].pc = "resolving"
    /\ UriOf(k) \in Subscribable
    /\ Vacant(k)
    /\ wpc[w] = "unused"
    /\ subs' = [subs EXCEPT ![k] = w]
    /\ sessions' = AddUri(SessionOf(k), UriOf(k))
    /\ wpc' = [wpc EXCEPT ![w] = "starting"]
    /\ wkey' = [wkey EXCEPT ![w] = k]
    /\ SetCall(c, "subscribed", k, w)
    /\ UNCHANGED <<ctxVars, sessVars, buf, batch, tokens>>

(* subscribe returns nil to the SDK. *)
ReturnSubscribe(c) ==
    /\ calls[c].pc = "subscribed"
    /\ calls' = [calls EXCEPT ![c] = IdleCall]
    /\ UNCHANGED <<mapVars, ctxVars, sessVars, loopVars>>

-----------------------------------------------------------------------------
BeginUnsubscribe(c, k) ==
    /\ calls[c].pc = "idle"
    /\ sess[SessionOf(k)] = "up"
    /\ SetCall(c, "unsubscribing", k, NoWatch)
    /\ UNCHANGED <<mapVars, ctxVars, sessVars, loopVars>>

(* Mutant: the watcher is cancelled and its map entry forgotten. *)
Removed_Kept(k) == subs
(* delete(m.subs, key) *)
Removed(k) == [subs EXCEPT ![k] = NoWatch]

(* unsubscribe's critical section finds the key ... *)
RemoveSubscription(c) ==
    LET k == calls[c].key IN
    /\ calls[c].pc = "unsubscribing"
    /\ subs[k] # NoWatch
    /\ subs' = Removed(k)
    /\ sessions' = DropUri(SessionOf(k), UriOf(k))
    /\ SetCall(c, "cancelling", k, subs[k])
    /\ UNCHANGED <<ctxVars, sessVars, loopVars>>

(* ... or does not. *)
NothingToRemove(c) ==
    /\ calls[c].pc = "unsubscribing"
    /\ subs[calls[c].key] = NoWatch
    /\ SetCall(c, "unsubscribed", calls[c].key, NoWatch)
    /\ UNCHANGED <<mapVars, ctxVars, sessVars, loopVars>>

(* sub.cancel(), after the mutex is released. *)
CancelRemoved(c) ==
    /\ calls[c].pc = "cancelling"
    /\ cancelled' = cancelled \cup {calls[c].watch}
    /\ SetCall(c, "unsubscribed", calls[c].key, calls[c].watch)
    /\ UNCHANGED <<mapVars, rootDone, sessVars, loopVars>>

ReturnUnsubscribe(c) ==
    /\ calls[c].pc = "unsubscribed"
    /\ calls' = [calls EXCEPT ![c] = IdleCall]
    /\ UNCHANGED <<mapVars, ctxVars, sessVars, loopVars>>

-----------------------------------------------------------------------------
(* The client goes away (SDK): no request of the session starts any more. *)
Disconnect(s) ==
    /\ sess[s] = "up"
    /\ sess' = [sess EXCEPT ![s] = "closed"]
    /\ UNCHANGED <<mapVars, ctxVars, calls, doomed, loopVars>>

(* Mutant: the entries are deleted before the cancels are collected. *)
OwnedBy_AfterDelete(s) == {}
(* The watches cleanupSession finds: those of the URIs sessions lists. *)
OwnedBy(s) ==
    IF s \in DOMAIN sessions
    THEN {subs[<<s, u>>] : u \in sessions[s]} \ {NoWatch}
    ELSE {}

(* subs without the keys cleanupSession deletes. *)
WithoutKeysOf(s) ==
    [k \in Keys |-> IF /\ SessionOf(k) = s
                       /\ s \in DOMAIN sessions
                       /\ UriOf(k) \in sessions[s]
                    THEN NoWatch ELSE subs[k]]

(* ss.Wait() returns when the connection is closed and its handlers have    *)
(* answered; then cleanupSession's critical section.                        *)
CleanupSession(s) ==
    /\ sess[s] = "closed"
    /\ Drained(s)
    /\ sess' = [sess EXCEPT ![s] = "cleaned"]
    /\ doomed' = [doomed EXCEPT ![s] = OwnedBy(s)]
    /\ subs' = WithoutKeysOf(s)
    /\ sessions' = WithoutSession(s)
    /\ UNCHANGED <<ctxVars, calls, loopVars>>

(* One cancel of cleanupSession's final loop, in any order. *)
CancelDoomed(s, w) ==
    /\ w \in doomed[s]
    /\ doomed' = [doomed EXCEPT ![s] = @ \ {w}]
    /\ cancelled' = cancelled \cup {w}
    /\ UNCHANGED <<mapVars, rootDone, calls, sess, loopVars>>

Shutdown ==
    /\ ~rootDone
    /\ rootDone' = TRUE
    /\ UNCHANGED <<mapVars, cancelled, calls, sessVars, loopVars>>

-----------------------------------------------------------------------------
(* COSI: a single-resource watch first sends the resource's present state;  *)
(* an aggregated watch without bootstrap contents sends nothing.            *)
InitialEvents(u) == IF u \in Lists THEN <<>> ELSE << <<"Change">> >>

(* Batches a watch of this URI may receive. *)
BatchesOf(u) ==
    UNION {[1..n -> Events] : n \in 1..(IF u \in Lists THEN MaxBatch ELSE 1)}

Established(w) == wpc[w] \in {"selecting", "forwarding"}

(* COSI hands a batch to the channels of the watches ws, as often as it     *)
(* likes: the bound is on what waits in a channel, not on what ever comes.  *)
Publish(ws, b) ==
    /\ \A w \in ws : /\ Established(w)
                      /\ Len(buf[w]) < MaxPending
                      /\ b \in BatchesOf(UriOf(wkey[w]))
    /\ buf' = [w \in Watches |-> IF w \in ws THEN Append(buf[w], b) ELSE buf[w]]
    /\ UNCHANGED <<mapVars, ctxVars, calls, sessVars, wpc, wkey, batch, tokens>>

(* Time passes: every limiter earns a token, up to its burst. *)
Refill ==
    /\ tokens' = [w \in Watches |->
                    IF tokens[w] < Burst THEN tokens[w] + 1 ELSE tokens[w]]
    /\ UNCHANGED <<mapVars, ctxVars, calls, sessVars, wpc, wkey, buf, batch>>

-----------------------------------------------------------------------------
(* runWatch and forwardEvent. *)
StartWatch(w) ==
    /\ wpc[w] = "starting"
    /\ wpc' = [wpc EXCEPT ![w] = "selecting"]
    /\ buf' = [buf EXCEPT ![w] = InitialEvents(UriOf(wkey[w]))]
    /\ UNCHANGED <<mapVars, ctxVars, calls, sessVars, wkey, batch, tokens>>

(* A goroutine returns; its channel and batch are garbage. *)
Stop(w) ==
    /\ wpc' = [wpc EXCEPT ![w] = "stopped"]
    /\ buf' = [buf EXCEPT ![w] = <<>>]
    /\ batch' = [batch EXCEPT ![w] = <<>>]
    /\ UNCHANGED <<mapVars, ctxVars, calls, sessVars, wkey, tokens>>

(* Watch or WatchKindAggregated returns an error: the goroutine returns. *)
StartFails(w) == wpc[w] = "starting" /\ Stop(w)

(* Mutant: the channel is served first, ctx.Done() only when it is empty. *)
ObserveDone_WhenEmpty(w) ==
    wpc[w] = "selecting" /\ buf[w] = <<>> /\ CtxDone(w) /\ Stop(w)
(* select with ctx.Done() ready. *)
ObserveDone(w) == wpc[w] = "selecting" /\ CtxDone(w) /\ Stop(w)

(* select with the channel ready; when both are, Go picks either. *)
TakeBatch(w) ==
    /\ wpc[w] = "selecting"
    /\ buf[w] # <<>>
    /\ wpc' = [wpc EXCEPT ![w] = "forwarding"]
    /\ batch' = [batch EXCEPT ![w] = Head(buf[w])]
    /\ buf' = [buf EXCEPT ![w] = Tail(@)]
    /\ UNCHANGED <<mapVars, ctxVars, calls, sessVars, wkey, tokens>>

NextEventIs(w, evs) == wpc[w] = "forwarding" /\ Head(batch[w]) \in evs

(* Mutant: back to select one event before the batch is used up. *)
BatchUsedUp_Early(w) == Len(batch[w]) <= 2
(* The range loop over the batch is over after this event. *)
BatchUsedUp(w) == Len(batch[w]) = 1

(* forwardEvent returned true: on to the rest of the batch, or to select. *)
EventDone(w) ==
    /\ batch' = [batch EXCEPT ![w] = Tail(@)]
    /\ wpc' = [wpc EXCEPT ![w] = IF BatchUsedUp(w) THEN "selecting" ELSE @]
    /\ UNCHANGED <<mapVars, ctxVars, calls, sessVars, wkey, buf>>

(* Mutant: Created is taken for initial state and dropped too. *)
Skipped_Changes == {"Bootstrapped", "Noop", "Change"}
(* Event types forwardEvent drops without asking the limiter. *)
Skipped == {"Bootstrapped", "Noop"}

SkipEvent(w) ==
    /\ NextEventIs(w, Skipped)
    /\ EventDone(w)
    /\ UNCHANGED tokens

(* Created, Updated or Destroyed with no token left. *)
DropOverRate(w) ==
    /\ NextEventIs(w, {"Change"})
    /\ tokens[w] = 0
    /\ EventDone(w)
    /\ UNCHANGED tokens

(* Mutant: notify without limiter.Allow(). *)
Allow_Unlimited(w) == TRUE
(* limiter.Allow() *)
Allow(w) == tokens[w] > 0

(* Created, Updated or Destroyed: a token, and notify, whose error is only  *)
(* logged: the event is done with, whoever it reached.                      *)
Notify(w) ==
    /\ NextEventIs(w, {"Change"})
    /\ Allow(w)
    /\ tokens' = [tokens EXCEPT ![w] = @ - 1]
    /\ EventDone(w)

(* Errored: forwardEvent returns false and runWatch returns. *)
WatchErrored(w) == NextEventIs(w, {"Errored"}) /\ Stop(w)

-----------------------------------------------------------------------------
SubscribeCall(c) ==
    \/ \E k \in Keys : BeginSubscribe(c, k)
    \/ RejectSubscribe(c)
    \/ DuplicateSubscribe(c)
    \/ \E w \in Watches : OpenSubscription(c, w)
    \/ ReturnSubscribe(c)

UnsubscribeCall(c) ==
    \/ \E k \in Keys : BeginUnsubscribe(c, k)
    \/ RemoveSubscription(c)
    \/ NothingToRemove(c)
    \/ CancelRemoved(c)
    \/ ReturnUnsubscribe(c)

Supervisor(s) ==
    \/ Disconnect(s)
    \/ CleanupSession(s)
    \/ \E w \in Watches : CancelDoomed(s, w)

Watcher(w) ==
    \/ StartWatch(w)
    \/ StartFails(w)
    \/ ObserveDone(w)
    \/ TakeBatch(w)
    \/ SkipEvent(w)
    \/ DropOverRate(w)
    \/ Notify(w)
    \/ WatchErrored(w)

Cosi == \E w \in Watches, b \in UNION {BatchesOf(u) : u \in Uris} : Publish({w}, b)

Next ==
    \/ \E c \in Callers : SubscribeCall(c) \/ UnsubscribeCall(c)
    \/ \E s \in Sessions : Supervisor(s)
    \/ \E w \in Watches : Watcher(w)
    \/ Cosi
    \/ Refill
    \/ Shutdown

Spec == Init /\ [][Next]_vars

(***************************************************************************)
(* Fairness.  A request handler runs to its end once begun (this assumes   *)
(* that the ResolveResourceKind RPC returns), a supervisor cleans up and   *)
(* calls every cancel, a goroutine takes what is in its channel and        *)
(* forwards it.  A watch RPC is only known to return once its context is   *)
(* cancelled.                                                              *)
(* select chooses uniformly among the ready cases, so one that is ready    *)
(* infinitely often is taken: strong fairness for ctx.Done().  Weak would  *)
(* not do: a stream that does not end takes the watcher away from select   *)
(* again and again.  Clients, COSI and time owe nothing.                   *)
(***************************************************************************)
HandlerStep(c) ==
    \/ RejectSubscribe(c) \/ DuplicateSubscribe(c)
    \/ \E w \in Watches : OpenSubscription(c, w)
    \/ ReturnSubscribe(c)
    \/ RemoveSubscription(c) \/ NothingToRemove(c) \/ CancelRemoved(c)
    \/ ReturnUnsubscribe(c)

LoopStep(w) ==
    TakeBatch(w) \/ SkipEvent(w) \/ DropOverRate(w) \/ Notify(w) \/ WatchErrored(w)

Fairness ==
    /\ \A c \in Callers : WF_vars(HandlerStep(c))
    /\ \A s \in Sessions : /\ WF_vars(CleanupSession(s))
                           /\ WF_vars(\E w \in Watches : CancelDoomed(s, w))
    /\ \A w \in Watches : /\ WF_vars(CtxDone(w) /\ (StartWatch(w) \/ StartFails(w)))
                          /\ WF_vars(LoopStep(w))
                          /\ SF_vars(ObserveDone(w))

FairSpec == Spec /\ Fairness

-----------------------------------------------------------------------------
(* Cancels that are due: a handler or a supervisor holds the CancelFunc. *)
CancelDue(w) ==
    \/ \E c \in Callers : calls[c].pc = "cancelling" /\ calls[c].watch = w
    \/ \E s \in Sessions : w \in doomed[s]

(* The two maps that mu guards agree: a session's entry lists exactly the  *)
(* URIs it has subscriptions for, and there is no empty entry.  Without it *)
(* cleanupSession, which finds its keys through sessions, would miss some. *)
IndexAgrees ==
    /\ \A s \in Sessions, u \in Uris :
          subs[<<s, u>>] # NoWatch <=> s \in DOMAIN sessions /\ u \in sessions[s]
    /\ \A s \in DOMAIN sessions : sessions[s] # {}

(* No goroutine leaks: every watcher still running is the one its key maps *)
(* to, or its context is cancelled, or somebody is about to cancel it.     *)
OwnedOrDoomed ==
    \A w \in Watches : wpc[w] \in Running =>
        \/ subs[wkey[w]] = w
        \/ CtxDone(w)
        \/ CancelDue(w)

(* A late cancel never hits a newer subscription: the watcher a key maps   *)
(* to was opened for that key, and no CancelFunc of it has been called or  *)
(* collected, whatever unsubscribes of the same key are still under way.   *)
OpenIsNotCancelled ==
    \A k \in Keys : LET w == subs[k] IN w # NoWatch =>
        /\ wkey[w] = k
        /\ wpc[w] # "unused"
        /\ w \notin cancelled
        /\ ~CancelDue(w)

(* A torn-down session stays so: it has no subscription, and every watcher *)
(* it ever had is cancelled or in the supervisor's list, so a subscribe    *)
(* that was resolving its type when the client left resurrects nothing.    *)
TornDown ==
    \A k \in Keys : sess[SessionOf(k)] = "cleaned" =>
        /\ subs[k] = NoWatch
        /\ \A w \in Watches : wkey[w] = k =>
              w \in cancelled \cup doomed[SessionOf(k)]

-----------------------------------------------------------------------------
(* The inductive invariant behind the four above. *)

(* A watch in use has a key, one not in use has none and nothing refers to  *)
(* it; only a forwarding goroutine holds events, and never none.            *)
WatchShape ==
    \A w \in Watches :
        /\ wkey[w] = NoKey <=> wpc[w] = "unused"
        /\ wpc[w] = "unused" => w \notin cancelled
        /\ wpc[w] = "forwarding" <=> batch[w] # <<>>
        /\ \A i \in DOMAIN buf[w] : buf[w][i] # <<>>

(* A request in flight names a key of a session not torn down; one that is  *)
(* about to cancel holds a watch of that key that the map no longer has.    *)
CallShape ==
    \A c \in Callers : InFlight(c) =>
        /\ calls[c].key \in Keys
        /\ sess[SessionOf(calls[c].key)] # "cleaned"
        /\ calls[c].pc = "cancelling" =>
              /\ calls[c].watch \in Watches
              /\ wkey[calls[c].watch] = calls[c].key

(* A supervisor holds cancels only after its critical section, and only of  *)
(* its own session's watches.                                               *)
DoomedShape ==
    \A s \in Sessions : \A w \in doomed[s] :
        sess[s] = "cleaned" /\ wkey[w] \in KeysOfSession(s)

(* Every watch ever opened is the one its key maps to, or is cancelled, or  *)
(* its cancel is due, whether its goroutine still runs or not.              *)
Accounted ==
    \A w \in Watches : wpc[w] # "unused" =>
        subs[wkey[w]] = w \/ w \in cancelled \/ CancelDue(w)

IInv ==
    /\ TypeOK
    /\ WatchShape
    /\ CallShape
    /\ DoomedShape
    /\ Accounted
    /\ IndexAgrees
    /\ OpenIsNotCancelled
    /\ TornDown

-----------------------------------------------------------------------------
(* A watcher that lost its entry (unsubscribe, disconnect) returns, even   *)
(* if COSI keeps sending: the package comment, manager.go:7-10.            *)
RemovedStops ==
    \A w \in Watches :
        (wpc[w] \in Running /\ subs[wkey[w]] # w) ~> wpc[w] = "stopped"

(* Shutdown: every watcher goroutine observes the root cancel and exits    *)
(* (manager.go:110-111).                                                   *)
ShutdownStops ==
    \A w \in Watches : (rootDone /\ wpc[w] \in Running) ~> wpc[w] = "stopped"

(* A disconnected session is cleaned up and all its goroutines return.     *)
SessionEnds ==
    \A s \in Sessions :
        sess[s] = "closed" ~>
            /\ sess[s] = "cleaned"
            /\ \A w \in Watches : wkey[w] \in KeysOfSession(s) => wpc[w] = "stopped"

-----------------------------------------------------------------------------
Service == INSTANCE SubscriptionService WITH
    open    <- {k \in Keys : subs[k] # NoWatch},
    running <- {k \in Keys : \E w \in Watches : wkey[w] = k /\ wpc[w] \in Running},
    leaving <- {s \in Sessions : sess[s] = "closed"},
    gone    <- {s \in Sessions : sess[s] = "cleaned"},
    down    <- rootDone

(* The Manager implements the service: requests, disconnects and cancels   *)
(* in any interleaving look like subscriptions opened and closed at once,  *)
(* a session ended at once, and watches that end when they must.           *)
ServiceSpec == Service!FairSpec

=============================================================================
