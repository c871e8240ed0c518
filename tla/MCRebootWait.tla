---------------------------- MODULE MCRebootWait ----------------------------
(* Instances of RebootWait for TLC: two nodes, up to two of them listed.     *)
EXTENDS RebootWait, TLC

CONSTANTS n1, n2, p1, p2

(* Two nodes, one node twice, one node, and none; every timeout; refusals.   *)
MCLists == {<<>>, p1 :> n1, p1 :> n1 @@ p2 :> n1, p1 :> n1 @@ p2 :> n2}
MCRequests == {r \in AllRequests :
                  /\ r.nodes \in MCLists
                  /\ ~(r.sound /\ r.allowed) => r.timeout = "some"}
MCWaits == {r \in AllRequests : r.nodes = p1 :> n1 /\ r.wait /\ r.timeout = "some"}
=============================================================================
