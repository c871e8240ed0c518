\* Every environment and request; the certificate of a node changes, calls fail.
SPECIFICATION FairSpec
CONSTANTS
    n1 = n1  n2 = n2
    ip1 = ip1  ip1mapped = ip1mapped  ip2 = ip2  ip2v6 = ip2v6
    loop = loop  host = host  HOST = HOST  other = other
    Calls = {c1}
    Nodes = {n1, n2}
    Default = {n1}
    Certs = {k1, k2}
    NoAddress = NoAddress  NoPin = NoPin  BadPin = BadPin  NoText = NoText
    Texts <- MCTexts
    ParseIP <- MCParseIP
    Lower <- MCLower
    Target <- MCTarget
    Width <- MCWidth
    HardRefuse <- MCHardRefuse
    MappedPrefix = 1
    Special <- MCSpecial
    Requests <- MCRequests
    Envs <- MCEnvs
INVARIANTS IInv Authorised OutcomeHonest SpellingIrrelevant
PROPERTIES TimedAnswered
\* A server that refuses to start stops.
CHECK_DEADLOCK FALSE
