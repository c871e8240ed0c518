\* Three calls, some refused, under a blocklist and fairness; none is cancelled.
SPECIFICATION FairSpec
CONSTANTS
    c1 = c1  c2 = c2  c3 = c3  n1 = n1  n2 = n2  a = a  b = b  e = e
    Calls = {c1, c2, c3}
    Nodes = {n1, n2}
    Names = {a, b, e}
    Default = Default
    Target <- MCTarget
    Canon <- MCCanon
    AllowedNodes = {a}
    InsecureNodes = {a}
    EnableInsecure = TRUE
    Blocklist = TRUE
    Cancels = FALSE
    NoCall = NoCall
    Requests <- MCGuarded
INVARIANTS OnlyAuthorised
PROPERTIES ServiceSpec Answered
\* The system stops when every call has been made.
CHECK_DEADLOCK FALSE
