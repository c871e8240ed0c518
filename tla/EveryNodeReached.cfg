\* A shorter run for one statement of the documentation.
SPECIFICATION DSpec
CONSTANTS
    s1 = s1  s2 = s2  list = list  item = item
    w1 = w1  w2 = w2  w3 = w3  c1 = c1  c2 = c2
    Sessions = {s1}
    Uris = {list}
    Subscribable = {list}
    Lists = {list}
    Watches = {w1, w2}
    Callers = {c1}
    NoWatch = NoWatch
    NoKey = NoKey
    Burst = 1
    MaxBatch = 1
    MaxPending = 2
    MaxEvents = 2
    Reached = {}
INVARIANTS EveryNodeReached
\* The system stops when its clients are gone and the bounds are used up.
CHECK_DEADLOCK FALSE
