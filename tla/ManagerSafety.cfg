\* Both kinds of URI, two sessions, two requests at a time, no events.
SPECIFICATION Spec
CONSTANTS
    s1 = s1  s2 = s2  list = list  item = item
    w1 = w1  w2 = w2  w3 = w3  c1 = c1  c2 = c2
    Sessions = {s1, s2}
    Uris = {list, item}
    Subscribable = {list, item}
    Lists = {list}
    Watches = {w1, w2}
    Callers = {c1, c2}
    NoWatch = NoWatch
    NoKey = NoKey
    Burst = 1
    MaxBatch = 1
    MaxPending = 0
SYMMETRY Symmetry
INVARIANTS IndexAgrees OwnedOrDoomed OpenIsNotCancelled TornDown
\* The system stops when its clients are gone and the bounds are used up.
CHECK_DEADLOCK FALSE
