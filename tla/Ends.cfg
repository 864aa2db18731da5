\* Two requests compete for the mutex of the store, two logins for the port
\* of the call-back, four images for the slots of a download, the events of
\* one item for the channel of a display; one local cluster meets two
\* failures, and its user tries again.
CONSTANTS
    Clusters = {c1}
    Paths = {p1}
    Vals = {v1}
    Reqs = {r1, r2}
    NoReq = NoReq
    NoFile = NoFile
    MaxWrites = 1
    MaxKeys = 1
    MaxCas = 0
    Faults = TRUE
    Logins = {l1, l2}
    Cmds = {k1}
    Seeds = {platform}
    None = None
    NotAsked = NotAsked
    Missing = Missing
    TornFile = TornFile
    NoGuest = NoGuest
SPECIFICATION PartsSpec
CHECK_DEADLOCK FALSE
PROPERTIES
    RequestsAnswered
    LoginEnds
    DownloadEnds
    RetriesSucceed
