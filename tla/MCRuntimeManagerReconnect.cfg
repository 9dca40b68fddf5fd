SPECIFICATION FairSpec
CONSTANTS
    k1 = k1
    k2 = k2
    k3 = k3
    k4 = k4
    k5 = k5
    p1 = p1
    p2 = p2
    p3 = p3
    NoRuntime = NoRuntime
    Runtimes <- FiveRuntimes
    Procs <- ThreeProcs
    MaxAttempts = 2
    Closings <- OnlyTransient
    Budget <- MCBudget
    Starts = 0
    Stops = 0
    Deletes = 0
    Losses = 2
    Failures = 1
    Crashes = 0
    Delays = 0
    Total = 3
PROPERTIES
    Recovers
