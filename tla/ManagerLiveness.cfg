\* One session, both kinds of URI, one watch, batches of two without end, fairness.
SPECIFICATION FairSpec
CONSTANTS
    s1 = s1  s2 = s2  list = list  item = item
    w1 = w1  w2 = w2  w3 = w3  c1 = c1  c2 = c2
    Sessions = {s1}
    Uris = {list, item}
    Subscribable = {list, item}
    Lists = {list}
    Watches = {w1}
    Callers = {c1}
    NoWatch = NoWatch
    NoKey = NoKey
    Burst = 1
    MaxBatch = 2
    MaxPending = 1
INVARIANTS IInv
PROPERTIES RemovedStops ShutdownStops SessionEnds ServiceSpec
\* The system stops when its clients are gone and the bounds are used up.
CHECK_DEADLOCK FALSE
