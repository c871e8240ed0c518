\* Two writers of one path behind every kind of limit, with restarts.
SPECIFICATION FairSpec
CONSTANTS
    a = a  b = b  p = p
    Clients = {a, b}
    Jobs = {a, b}
    Paths = {p}
    Chunks = 2
    NoFile = NoFile
    Unset = Unset
    HttpRequests <- MCHttpRequests
    Settings <- MCSettings
    FileRequests <- MCFileRequests
INVARIANTS IInv LeftBehind
PROPERTIES ReportedIsThere EveryoneAnswered
