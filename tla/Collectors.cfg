\* Every collecting tool once, on two of three nodes with up to three lines each.
SPECIFICATION FairSpec
CONSTANTS
    Calls = {c1}
    Nodes <- MCNodes
    Default <- MCDefault
    Permitted <- MCPermitted
    AllowedPaths <- MCAllowedPaths
    DefaultLimit = 2
    MaxEntries = 2
    MaxResults = 1
    MaxSend = 3
    Requests <- MCRequests
INVARIANTS
    IInv
    ResultTrue
PROPERTIES
    Returns
\* A call that is answered is over.
CHECK_DEADLOCK FALSE
