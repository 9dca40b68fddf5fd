SPECIFICATION Spec
CONSTANTS
    r1 = r1
    r2 = r2
    r3 = r3
    r4 = r4
    r5 = r5
    Tasks <- MCRequests
    Impatient <- MCImpatient
    MaxSize = 2
    Concurrency = 2
INVARIANTS
    QueueSound
    SlotsLostOnlyToLeavers
PROPERTIES
    RefusedOnlyWhenFull
    StartsInOrder
    ImplementsPool
    PatientAnswered
