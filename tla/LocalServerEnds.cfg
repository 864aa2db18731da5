\* Two commands at a time under fairness; no symmetry under liveness.
CONSTANTS
    Cmds = {k1, k2}
    Kinds = {"start", "stop", "quit"}
    Clusters = {c1}
    MaxPid = 2
    MaxPolls = 1
    Crashes = TRUE
    Signals = FALSE
    Interrupts = FALSE
    Patient = FALSE
    SlowExit = FALSE
SPECIFICATION FairSpec
PROPERTIES CommandsEnd
