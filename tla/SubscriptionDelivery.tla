------------------------ MODULE SubscriptionDelivery ------------------------
(***************************************************************************)
(* The subscription Manager with what stands on its two sides.             *)
(*   - The MCP SDK: its table of subscribed sessions, filled after the     *)
(*     SubscribeHandler has returned (manager.go:11-16), and               *)
(*     Server.ResourceUpdated, which takes a URI only (manager.go:103-108) *)
(*     and so notifies every session registered for it.                    *)
(*   - The client, which follows README.md:238: it reads the resource once *)
(*     after its subscribe is answered and again after each notification.  *)
(*   - The Talos nodes: a resource changes and every established watch     *)
(*     that reaches its node is sent the change.                           *)
(* Requests of one client for one URI do not overlap here: a client waits  *)
(* for the answer before it sends the next.                                *)
(***************************************************************************)
EXTENDS SubscriptionManager

CONSTANTS
    Reached,    \* URIs whose node is the one a request without WithNodes
                \* metadata goes to
    MaxEvents   \* bound: changes and stream events of a behaviour

ASSUME ReachedAssumption == Reached \subseteq Uris
ASSUME EventsAssumption == MaxEvents \in Nat

VARIABLES
    registered, \* SDK: keys whose session is in resourceSubscriptions
    synced,     \* keys whose client has read since it subscribed
    stale,      \* synced keys whose resource changed since the client's last read
    due,        \* keys whose client has been notified and has yet to re-read
    missed,     \* synced keys whose watch gave an event up since the client's last
                \* read: no token, or a notification that did not reach it
    early,      \* keys whose client last read before its watch was established
    sent,       \* notifications each key got from each watch since the
                \* limiters last refilled
    emitted     \* changes and stream events so far (bounded by MaxEvents)

clientVars == <<synced, stale, due, missed, early>>
dvars == <<vars, registered, clientVars, sent, emitted>>

(* Bound: sent counts up to one more than any property mentions. *)
MaxSent == Burst + 1

DTypeOK ==
    /\ TypeOK
    /\ registered \subseteq Keys
    /\ synced \subseteq Keys
    /\ stale \subseteq synced
    /\ due \subseteq Keys
    /\ missed \subseteq synced
    /\ early \subseteq Keys
    /\ sent \in [Keys \X Watches -> 0..MaxSent]
    /\ emitted \in 0..MaxEvents

DInit ==
    /\ Init
    /\ registered = {}
    /\ synced = {}
    /\ stale = {}
    /\ due = {}
    /\ missed = {}
    /\ early = {}
    /\ sent = [kw \in Keys \X Watches |-> 0]
    /\ emitted = 0

-----------------------------------------------------------------------------
(* No request for the key is being served. *)
Settled(k) == \A c \in Callers : InFlight(c) => calls[c].key # k

(* The client of these keys no longer expects anything. *)
Forget(ks) ==
    /\ synced' = synced \ ks
    /\ stale' = stale \ ks
    /\ due' = due \ ks
    /\ missed' = missed \ ks
    /\ early' = early \ ks

ClientSubscribes(c, k) ==
    /\ Settled(k)
    /\ BeginSubscribe(c, k)
    /\ UNCHANGED <<registered, clientVars, sent, emitted>>

(* The SDK registers the session, then answers. *)
Register(c) ==
    /\ ReturnSubscribe(c)
    /\ registered' = registered \cup {calls[c].key}
    /\ UNCHANGED <<clientVars, sent, emitted>>

ClientUnsubscribes(c, k) ==
    /\ Settled(k)
    /\ BeginUnsubscribe(c, k)
    /\ Forget({k})
    /\ UNCHANGED <<registered, sent, emitted>>

Deregister(c) ==
    /\ ReturnUnsubscribe(c)
    /\ registered' = registered \ {calls[c].key}
    /\ UNCHANGED <<clientVars, sent, emitted>>

ClientLeaves(s) ==
    /\ Disconnect(s)
    /\ Forget(KeysOfSession(s))
    /\ UNCHANGED <<registered, sent, emitted>>

(* Server.disconnect, once the connection is done. *)
DropSession(s) ==
    /\ sess[s] # "up"
    /\ Drained(s)
    /\ registered \cap KeysOfSession(s) # {}
    /\ registered' = registered \ KeysOfSession(s)
    /\ UNCHANGED <<vars, clientVars, sent, emitted>>

(* resources/read, after the subscribe is answered or a notification came. *)
ClientReads(k) ==
    /\ k \in registered
    /\ sess[SessionOf(k)] = "up"
    /\ Settled(k)
    /\ k \notin synced \/ k \in due
    /\ synced' = synced \cup {k}
    /\ stale' = stale \ {k}
    /\ due' = due \ {k}
    /\ missed' = missed \ {k}
    /\ early' = IF subs[k] # NoWatch /\ wpc[subs[k]] = "starting"
                THEN early \cup {k} ELSE early \ {k}
    /\ UNCHANGED <<vars, registered, sent, emitted>>

-----------------------------------------------------------------------------
(* The watches a change of u's resource is sent to. *)
Recipients(u) ==
    {w \in Watches : Established(w) /\ UriOf(wkey[w]) = u /\ u \in Reached}

(* Bound: the nodes send no more than MaxEvents in a behaviour. *)
Emit == emitted < MaxEvents /\ emitted' = emitted + 1

(* The resource behind u changes on its node. *)
Change(u) ==
    /\ Publish(Recipients(u), <<"Change">>)
    /\ stale' = stale \cup {k \in synced : UriOf(k) = u}
    /\ Emit
    /\ UNCHANGED <<registered, synced, due, missed, early, sent>>

(* The stream of one watch breaks, or carries a marker. *)
StreamEvent(w, e) ==
    /\ Publish({w}, <<e>>)
    /\ Emit
    /\ UNCHANGED <<registered, clientVars, sent>>

(* Everyone ResourceUpdated(uri) reaches: the manager passes no session. *)
Audience(w) == {k \in registered : UriOf(k) = UriOf(wkey[w])}

(* forwardEvent notifies; told are those the notification reaches.  If it   *)
(* fails for the key the watch was opened for, that is logged (301-303) and *)
(* the change is given up like one over the rate.                           *)
Deliver(w, told) ==
    /\ Notify(w)
    /\ told \subseteq Audience(w)
    /\ due' = due \cup (told \cap synced)
    /\ missed' = missed \cup (({wkey[w]} \cap synced) \ told)
    /\ sent' = [kw \in Keys \X Watches |->
                  IF kw[1] \in told /\ kw[2] = w /\ sent[kw] < MaxSent
                  THEN sent[kw] + 1 ELSE sent[kw]]
    /\ UNCHANGED <<registered, synced, stale, early, emitted>>

Drop(w) ==
    /\ DropOverRate(w)
    /\ missed' = missed \cup ({wkey[w]} \cap synced)
    /\ UNCHANGED <<registered, synced, stale, due, early, sent, emitted>>

Interval ==
    /\ Refill
    /\ sent' = [kw \in Keys \X Watches |-> 0]
    /\ UNCHANGED <<registered, clientVars, emitted>>

(* The other steps of the manager touch neither the SDK nor the client. *)
Internal ==
    /\ \/ \E c \in Callers :
            \/ RejectSubscribe(c)
            \/ DuplicateSubscribe(c)
            \/ \E w \in Watches : OpenSubscription(c, w)
            \/ RemoveSubscription(c)
            \/ NothingToRemove(c)
            \/ CancelRemoved(c)
       \/ \E s \in Sessions : CleanupSession(s)
       \/ \E s \in Sessions, w \in Watches : CancelDoomed(s, w)
       \/ \E w \in Watches :
            \/ StartWatch(w)
            \/ StartFails(w)
            \/ ObserveDone(w)
            \/ TakeBatch(w)
            \/ SkipEvent(w)
            \/ WatchErrored(w)
       \/ Shutdown
    /\ UNCHANGED <<registered, clientVars, sent, emitted>>

DNext ==
    \/ \E c \in Callers :
         \/ \E k \in Keys : ClientSubscribes(c, k) \/ ClientUnsubscribes(c, k)
         \/ Register(c)
         \/ Deregister(c)
    \/ \E s \in Sessions : ClientLeaves(s) \/ DropSession(s)
    \/ \E k \in Keys : ClientReads(k)
    \/ \E u \in Uris : Change(u)
    \/ \E w \in Watches, e \in Events \ {"Change"} : StreamEvent(w, e)
    \/ \E w \in Watches : \E told \in SUBSET registered : Deliver(w, told)
    \/ \E w \in Watches : Drop(w)
    \/ Interval
    \/ Internal

DSpec == DInit /\ [][DNext]_dvars

-----------------------------------------------------------------------------
(* While no request for a key is under way, the SDK's table and the         *)
(* manager's map agree on it, although each side updates its own at a       *)
(* different moment of the request.                                         *)
RegistryAgrees ==
    \A k \in Keys : Settled(k) /\ sess[SessionOf(k)] = "up" =>
        (k \in registered <=> subs[k] # NoWatch)

(* A notification that will reach the client, or an event that will lead to *)
(* one, is on its way.                                                      *)
ChangeIn(q) == \E i \in DOMAIN q : q[i] = "Change"
OnItsWay(k) ==
    LET w == subs[k] IN
    \/ k \in due
    \/ /\ w # NoWatch
       /\ \/ wpc[w] = "starting" /\ UriOf(k) \notin Lists
          \/ ChangeIn(batch[w])
          \/ \E i \in DOMAIN buf[w] : ChangeIn(buf[w][i])

WatchEnded(k) == rootDone \/ (subs[k] # NoWatch /\ wpc[subs[k]] = "stopped")
ReadTooEarly(k) == k \in early /\ UriOf(k) \in Lists

(* A client that follows the protocol misses a change only where the code   *)
(* gives it up: its watch has ended, the limiter dropped the event or the   *)
(* notification of it failed (manager.go:292-303), it read an aggregated    *)
(* resource before the watch was established, or the URI's node is not the  *)
(* one the watch reaches.                                                   *)
NoSilentStale ==
    \A k \in stale :
        \/ OnItsWay(k)
        \/ WatchEnded(k)
        \/ k \in missed
        \/ ReadTooEarly(k)
        \/ UriOf(k) \notin Reached

(* What the limiters do bound: between two refills a session gets, for one  *)
(* URI, at most a burst from every watch of that URI, whoever opened it,    *)
(* and nothing from the other watches.                                      *)
FanOutBound ==
    \A k \in Keys, w \in Watches :
        /\ sent[<<k, w>>] <= Burst
        /\ sent[<<k, w>>] > 0 => wkey[w] # NoKey /\ UriOf(wkey[w]) = UriOf(k)

-----------------------------------------------------------------------------
(* The inductive invariant behind the three above. *)

(* A client has one request for a key under way at most.                    *)
OneRequest ==
    \A c, d \in Callers :
        InFlight(c) /\ InFlight(d) /\ calls[c].key = calls[d].key => c = d

(* Where the two tables stand while a request is under way: they agree      *)
(* until its critical section; then the manager's is the one in advance.    *)
RequestAgrees ==
    \A c \in Callers :
        LET k == calls[c].key  pc == calls[c].pc IN
        InFlight(c) /\ sess[SessionOf(k)] = "up" =>
            /\ pc \in {"resolving", "unsubscribing"} =>
                  (k \in registered <=> subs[k] # NoWatch)
            /\ pc = "subscribed" => subs[k] # NoWatch
            /\ pc \in {"cancelling", "unsubscribed"} => subs[k] = NoWatch

(* A client that has read is connected and registered, and is not about to  *)
(* unsubscribe.                                                             *)
SyncedShape ==
    \A k \in synced :
        /\ sess[SessionOf(k)] = "up"
        /\ k \in registered
        /\ \A c \in Callers : calls[c].key = k =>
              calls[c].pc \notin {"unsubscribing", "cancelling", "unsubscribed"}

(* What a client has read while its watch still starts, it read too early.  *)
EarlyKnown ==
    \A k \in synced : subs[k] # NoWatch /\ wpc[subs[k]] = "starting" => k \in early

(* A watch that has not been established has received nothing.              *)
NothingBuffered == \A w \in Watches : wpc[w] \in {"unused", "starting"} => buf[w] = <<>>

(* A notification costs a token of the limiter of the watch it is for.      *)
TokenPerNotification ==
    \A k \in Keys, w \in Watches :
        /\ sent[<<k, w>>] + tokens[w] <= Burst
        /\ sent[<<k, w>>] > 0 => wkey[w] # NoKey /\ UriOf(wkey[w]) = UriOf(k)

WiringShape ==
    /\ DTypeOK
    /\ OneRequest
    /\ RequestAgrees
    /\ SyncedShape
    /\ EarlyKnown
    /\ NothingBuffered
    /\ TokenPerNotification

DIInv ==
    /\ IInv
    /\ WiringShape
    /\ RegistryAgrees
    /\ NoSilentStale

-----------------------------------------------------------------------------
(* README.md:227: clients are notified whenever the resource changes, on    *)
(* whichever node the URI names.                                            *)
EveryNodeReached ==
    \A k \in stale :
        OnItsWay(k) \/ WatchEnded(k) \/ k \in missed \/ ReadTooEarly(k)
=============================================================================
