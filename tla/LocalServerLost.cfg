\* Two starts race after a crash of the server.
CONSTANTS
    Cmds = {k1, k2}
    Kinds = {"start", "status"}
    Clusters = {c1}
    MaxPid = 3
    MaxPolls = 2
    Crashes = TRUE
    Signals = FALSE
    Interrupts = FALSE
    Patient = FALSE
    SlowExit = FALSE
SPECIFICATION Spec
INVARIANTS Discoverable
