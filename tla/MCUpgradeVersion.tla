-------------------------- MODULE MCUpgradeVersion --------------------------
(* Instances of UpgradeVersion for TLC: two nodes, three calls.              *)
EXTENDS UpgradeVersion, TLC

CONSTANTS n1, n2, c1, c2, c3

(* Three minor versions in a row: the same, the next, one skipped, one back. *)
MCVersions == {<<1, 1, 2>>, <<1, 2, 1>>, <<1, 3, 0>>}

Req(k, ns, v, t) == [kind |-> k, nodes |-> ns, image |-> v, tagged |-> t,
                     sound |-> TRUE, allowed |-> TRUE]
Read == Req("version", <<>>, <<1, 1, 2>>, TRUE)
Rollback == Req("rollback", <<n1>>, <<1, 1, 2>>, TRUE)
Upgrades == {Req("upgrade", ns, v, TRUE) : ns \in {<<n1>>, <<n2, n1>>}, v \in Versions}
Refused == {[Req("upgrade", <<n1>>, <<1, 2, 1>>, TRUE) EXCEPT !.allowed = FALSE],
            Req("upgrade", <<>>, <<1, 2, 1>>, TRUE)}

(* A reader; a reader or an upgrade of the endpoint; any call.               *)
MCRequests ==
    c1 :> {Read} @@
    c2 :> {Read, Req("upgrade", <<n1>>, <<1, 2, 1>>, TRUE)} @@
    c3 :> Upgrades \cup Refused \cup {Read, Rollback, Req("upgrade", <<n1>>, <<1, 3, 0>>, FALSE)}
=============================================================================
