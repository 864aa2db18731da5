CONSTANTS
    Clusters = {"a", "b"}
    Requests = {r1}
    NoRequest = NoRequest
    Hour = 2
    MaxAuthTime = 3
    MaxVaultTokens = 1
    MaxGen = 2
    ClientIDs = {"default"}
    Clients = {"default"}
    Logins = {l1, l2}
    CodeTTL = 0
    MaxOidcTime = 1
    MaxCodes = 2
    MaxPairs = 2
    MaxLogins = 2
    Procs = {p1, p2}
    Users = {"u1", "u2"}
    Services = {"s1", "s2"}
    MaxProcs = 2
    MaxRefreshTokens = 2
    Writers = {w1, w2, w3}
    MaxKeys = 2
    Clis = {c1, c2}
    Targets <- LocalAndRemote
    Binaries = {"old", "new"}
    MaxCommands = 2
    Applies = {a1, a2}
    MaxApplies = 3
SPECIFICATION PartsSpec
CHECK_DEADLOCK FALSE
INVARIANTS
    PartsTypeOK
    LoginsSound
    CredentialsHold
    PrerequisitesHold
    ConfiguredWorks
PROPERTIES
    WorkloadsServed
    BootstrapSound
