\* Three calls of every kind on two nodes, any versions, under fairness.
SPECIFICATION FairSpec
CONSTANTS
    n1 = n1  n2 = n2  c1 = c1  c2 = c2  c3 = c3
    Calls = {c1, c2, c3}
    Nodes = {n1, n2}
    Endpoint = n1
    Versions <- MCVersions
    None = None
    NoCall = NoCall
    SkipCheck = FALSE
    Requests <- MCRequests
INVARIANTS IInv PathChecked NothingStale OneFetch
PROPERTIES Answered
\* The system stops when every call has been made.
CHECK_DEADLOCK FALSE
