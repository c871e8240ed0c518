--------------------------- MODULE MCConfigUpdate ---------------------------
(* Instances of ConfigUpdate for TLC: two nodes; a and d name the first, b   *)
(* the second; e is another spelling of an address of the first.             *)
EXTENDS ConfigUpdate, TLC

CONSTANTS c1, c2, c3, n1, n2, a, b, e

Symmetry == Permutations(Calls)

(* Every name its own node: only the default may name one of them again. *)
MCTarget == [x \in Names \cup {Default} |-> IF x \in {b, Default} THEN n2 ELSE n1]
MCCanon == [x \in Names |-> IF x = e THEN a ELSE x]

Req(k, x, blocked) == [kind |-> k, name |-> x, dry |-> FALSE, confirm |-> TRUE,
                       blocked |-> blocked, sound |-> TRUE]

(* Writes of every kind to one node. *)
MCWrites == {Req("patch", a, FALSE), Req("apply", a, FALSE), Req("insecure", a, FALSE)}

(* And patches by both names of the other node. *)
MCAliased == MCWrites \cup {Req("patch", b, FALSE), Req("patch", Default, FALSE)}

(* The guards as well: a blocked path, a dry run, a confirmation left out,   *)
(* a node that is not let through, another spelling of an endpoint.          *)
MCGuarded == MCWrites \cup
    {Req("patch", a, TRUE), Req("patch", b, FALSE), Req("insecure", e, FALSE),
     [Req("patch", a, FALSE) EXCEPT !.dry = TRUE, !.confirm = FALSE],
     [Req("apply", Default, FALSE) EXCEPT !.confirm = FALSE]}
=============================================================================
