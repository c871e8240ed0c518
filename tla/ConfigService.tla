--------------------------- MODULE ConfigService ---------------------------
(***************************************************************************)
(* What the configuration tools promise a client (lifecycle.go:552-556,    *)
(* 767-770): each call changes the configuration of one node at most once, *)
(* at once, and on top of everything the node has accepted before it.      *)
(*                                                                         *)
(* A configuration is the set of calls whose change it carries: a patch    *)
(* adds itself to what is there, a full configuration replaces it.         *)
(***************************************************************************)
CONSTANTS Nodes, Calls

VARIABLES
    config,     \* each node's configuration
    spent       \* calls that have had their effect

cvars == <<config, spent>>

Init ==
    /\ config = [n \in Nodes |-> {}]
    /\ spent = {}

Patch(c, n) ==
    /\ c \notin spent
    /\ config' = [config EXCEPT ![n] = @ \cup {c}]
    /\ spent' = spent \cup {c}

Replace(c, n) ==
    /\ c \notin spent
    /\ config' = [config EXCEPT ![n] = {c}]
    /\ spent' = spent \cup {c}

Next == \E c \in Calls, n \in Nodes : Patch(c, n) \/ Replace(c, n)

Spec == Init /\ [][Next]_cvars
=============================================================================
