SPECIFICATION Spec
CONSTANTS
    r1 = r1
    r2 = r2
    i1 = i1
    Requests <- MCRequests
    Menu <- MCMenu
    Known = i1
    KnownName = "a"
    Names <- MCNames
    Before <- MCBefore
    Events = 1
INVARIANTS
    ApiSound
    ErrorsLeaveNoTrace
    OneNameOnce
PROPERTIES
    RequestsEnd
CHECK_DEADLOCK FALSE
