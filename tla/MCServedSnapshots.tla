------------------------- MODULE MCServedSnapshots --------------------------
(* An instance of ServedSnapshots for TLC: two calls that may write, to one  *)
(* path, or any other request in their place.                                *)
EXTENDS ServedSnapshots, TLC

CONSTANTS a, b, p

Http3(method, token, big) == [method |-> method, token |-> token, big |-> big]
MCHttpRequests == {Http3("POST", TRUE, FALSE), Http3("POST", TRUE, TRUE),
                   Http3("POST", FALSE, FALSE), Http3("GET", TRUE, FALSE),
                   Http3("PROBE", FALSE, FALSE)}

Limit(rate, burst, conc) == [rate |-> rate, burst |-> burst, conc |-> conc]
\* One slot; none; two, and a bucket that is not filled again.
MCSettings == {Limit(1, 2, 1), Limit(Unset, 1, -1), Limit(0, 2, 2)}

MCFileRequests == {q \in AllFileRequests : ~q.sound => q.kind = "snapshot"}
=============================================================================
