\* One command at a time, two failures anywhere; writes may be cut.
SPECIFICATION Spec
CONSTANTS
    Cmds = {k1}
    Ops = {"start", "stop", "delete"}
    Seeds = {platform, minimal}
    PlatformSeeds = {platform}
    DefaultSeed = platform
    None = None
    NotAsked = NotAsked
    Missing = Missing
    Torn = Torn
    NoGuest = NoGuest
    MaxCommands = 4
    MaxFaults = 2
    Cuts = TRUE
    Diligent = FALSE
INVARIANTS
    SeededBeforeCreated
    IdentityKept
    DiskHasItsCA
    KeyPairMatches
    DeletedLeavesNothing
