SPECIFICATION Spec
CONSTANTS
    k1 = k1
    k2 = k2
    k3 = k3
    k4 = k4
    k5 = k5
    p1 = p1
    p2 = p2
    p3 = p3
    NoRuntime = NoRuntime
    Runtimes <- ThreeRuntimes
    Procs <- TwoProcs
    MaxAttempts = 2
    Closings <- AnyClosing
    Budget <- MCBudget
    Starts = 0
    Stops = 1
    Deletes = 0
    Losses = 1
    Failures = 0
    Crashes = 0
    Delays = 0
    Total = 2
SYMMETRY Symmetry
INVARIANTS
    DisconnectHolds
