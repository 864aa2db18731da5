\* Two commands at a time; everything may fail.
CONSTANTS
    Cmds = {k1, k2}
    Kinds = {"server", "status", "start", "stop", "delete", "quit"}
    Clusters = {c1}
    MaxPid = 2
    MaxPolls = 1
    Crashes = TRUE
    Signals = TRUE
    Interrupts = TRUE
    Patient = FALSE
    SlowExit = TRUE
SPECIFICATION Spec
SYMMETRY Symmetry
INVARIANTS PublishedServes EnsuredHasStarted
