\* Three calls write to a node, patches, files and bootstraps, or to one with two
\* names; clients cancel.
SPECIFICATION Spec
CONSTANTS
    c1 = c1  c2 = c2  c3 = c3  n1 = n1  n2 = n2  a = a  b = b  e = e
    Calls = {c1, c2, c3}
    Nodes = {n1, n2}
    Names = {a, b, e}
    Default = Default
    Target <- MCTarget
    Canon <- MCCanon
    AllowedNodes = {a, b}
    InsecureNodes = {a}
    EnableInsecure = TRUE
    Blocklist = FALSE
    Cancels = TRUE
    NoCall = NoCall
    Requests <- MCAliased
INVARIANTS AnswersTrue IInv
PROPERTIES UpdatesKept
\* The system stops when every call has been made.
CHECK_DEADLOCK FALSE
