SPECIFICATION Spec
CONSTANTS
    Answer = {a1, a2, a3}
    Process = {p1}
    a1 = a1
    a2 = a2
    a3 = a3
    p1 = p1
    p2 = p2
    Home <- MCHome
    MaxAsks = 2
    MaxSweeps = 1
    MaxCrashes = 1
    Live = TRUE
    None = None
INVARIANTS OneResume DeliveredOnce
PROPERTIES AnswerStands
CHECK_DEADLOCK FALSE
