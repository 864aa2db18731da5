\* Two commands at a time, one failure.
SPECIFICATION Spec
CONSTANTS
    Cmds = {k1, k2}
    Ops = {"start", "stop", "delete"}
    Seeds = {platform}
    PlatformSeeds = {platform}
    DefaultSeed = platform
    None = None
    NotAsked = NotAsked
    Missing = Missing
    Torn = Torn
    NoGuest = NoGuest
    MaxCommands = 2
    MaxFaults = 1
    Cuts = FALSE
    Diligent = FALSE
SYMMETRY Symmetry
PROPERTY SecretsKept
