------------------------ MODULE SubscriptionService ------------------------
(***************************************************************************)
(* What the subscription Manager promises, without goroutines, locks or    *)
(* contexts: a set of open subscriptions, each opened and closed at once,  *)
(* all those of a session closed at once when it ends, and a watch per     *)
(* subscription that is gone soon after its subscription is.               *)
(* The promises are those of the package comment, manager.go:4-10, and of  *)
(* the comments of Shutdown and SuperviseSession.                          *)
(***************************************************************************)
CONSTANTS Sessions, Uris

VARIABLES
    open,       \* keys (session, URI) subscribed
    running,    \* keys some goroutine still watches
    leaving,    \* sessions whose client has disconnected
    gone,       \* sessions that have been torn down
    down        \* the manager has been shut down

svars == <<open, running, leaving, gone, down>>

KeysOf(s) == {s} \X Uris

Init ==
    /\ open = {}
    /\ running = {}
    /\ leaving = {}
    /\ gone = {}
    /\ down = FALSE

(* A subscription opens only for a session not torn down yet. *)
Open(s, u) ==
    /\ s \notin gone
    /\ <<s, u>> \notin open
    /\ open' = open \cup {<<s, u>>}
    /\ running' = running \cup {<<s, u>>}
    /\ UNCHANGED <<leaving, gone, down>>

Close(s, u) ==
    /\ s \notin gone
    /\ <<s, u>> \in open
    /\ open' = open \ {<<s, u>>}
    /\ UNCHANGED <<running, leaving, gone, down>>

Leave(s) ==
    /\ s \notin leaving \cup gone
    /\ leaving' = leaving \cup {s}
    /\ UNCHANGED <<open, running, gone, down>>

(* Every subscription of the session goes in one step. *)
EndSession(s) ==
    /\ s \in leaving
    /\ open' = open \ KeysOf(s)
    /\ leaving' = leaving \ {s}
    /\ gone' = gone \cup {s}
    /\ UNCHANGED <<running, down>>

ShutDown ==
    /\ ~down
    /\ down' = TRUE
    /\ UNCHANGED <<open, running, leaving, gone>>

(* The watch of a key ends: it may, at any time; it must, once the         *)
(* subscription is closed or the manager is down.                          *)
Exit(k) ==
    /\ k \in running
    /\ running' = running \ {k}
    /\ UNCHANGED <<open, leaving, gone, down>>

MustExit(k) == (k \notin open \/ down) /\ Exit(k)

Next ==
    \/ \E s \in Sessions, u \in Uris : Open(s, u) \/ Close(s, u)
    \/ \E s \in Sessions : Leave(s) \/ EndSession(s)
    \/ \E k \in Sessions \X Uris : Exit(k)
    \/ ShutDown

Spec == Init /\ [][Next]_svars

FairSpec ==
    /\ Spec
    /\ \A s \in Sessions : WF_svars(EndSession(s))
    /\ \A k \in Sessions \X Uris : WF_svars(MustExit(k))
=============================================================================
