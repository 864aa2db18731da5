\* Two starts at the same time, nothing fails.
SPECIFICATION Spec
CONSTANTS
    Cmds = {k1, k2}
    Ops = {"start", "stop"}
    Seeds = {platform}
    PlatformSeeds = {platform}
    DefaultSeed = platform
    None = None
    NotAsked = NotAsked
    Missing = Missing
    Torn = Torn
    NoGuest = NoGuest
    MaxCommands = 3
    MaxFaults = 0
    Cuts = FALSE
    Diligent = FALSE
SYMMETRY Symmetry
INVARIANT KeyPairMatches
