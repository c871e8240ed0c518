\* One node that reboots only because it is asked to.
SPECIFICATION Spec
CONSTANTS
    n1 = n1  n2 = n2  p1 = p1  p2 = p2
    Nodes = {n1, n2}
    Slots = {p1, p2}
    Requests <- MCWaits
    Blips = TRUE
    Crashes = FALSE
    MaxBoots = 2
    None = None
INVARIANTS OkMeansRebooted
\* The system stops when the call is answered.
CHECK_DEADLOCK FALSE
