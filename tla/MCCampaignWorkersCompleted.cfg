SPECIFICATION Spec
CONSTANTS
    w1 = w1
    q1 = q1
    Nobody = Nobody
    Workers <- MCWorkers
    Retriers <- MCRetriers
    Processes <- MCProcesses
    Count = 2
    MaxTries = 2
    BanSample = 2
    Budget <- MCBudget
    Overruns = 1
    Crashes = 1
    Rejections = 1
    Hangs = 1
    Edits = 0
    Total = 0
INVARIANTS
    CompletedMeansDone
