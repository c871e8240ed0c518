----------------------- MODULE MCSubscriptionManager -----------------------
(* Instances of SubscriptionManager for TLC: the sessions, the URIs with    *)
(* (item) and without (list) a resource id, the watches and the handlers.   *)
EXTENDS SubscriptionManager, TLC

CONSTANTS s1, s2, list, item, w1, w2, w3, c1, c2

(* Sessions, watches and handlers are interchangeable; URIs are not, Lists  *)
(* tells them apart.  Not used with liveness properties.                    *)
Symmetry ==
    Permutations(Sessions) \cup Permutations(Watches) \cup Permutations(Callers)
=============================================================================
