SPECIFICATION Spec
CONSTANTS
    k1 = k1
    k2 = k2
    k3 = k3
    k4 = k4
    k5 = k5
    p1 = p1
    p2 = p2
    p3 = p3
    NoRuntime = NoRuntime
    Runtimes <- FourRuntimes
    Procs <- ThreeProcs
    MaxAttempts = 2
    Closings <- AnyClosing
    Budget <- MCBudget
    Starts = 1
    Stops = 1
    Deletes = 1
    Losses = 2
    Failures = 1
    Crashes = 1
    Delays = 1
    Total = 3
SYMMETRY Symmetry
INVARIANTS
    RuntimeSound
    OneSocket
    StatusTruthful
PROPERTIES
    DeletedForGood
