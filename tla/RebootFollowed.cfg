\* Every request; nodes go down on their own, and calls fail at any time.
SPECIFICATION FairSpec
CONSTANTS
    n1 = n1  n2 = n2  p1 = p1  p2 = p2
    Nodes = {n1, n2}
    Slots = {p1, p2}
    Requests <- MCRequests
    Blips = TRUE
    Crashes = TRUE
    MaxBoots = 2
    None = None
INVARIANTS IInv ReportsTrue AskedInOrder
PROPERTIES EveryCallAnswered
\* The system stops when the call is answered.
CHECK_DEADLOCK FALSE
