SPECIFICATION FairSpec
CONSTANTS
    Owner = o
    Cli = {c1, c2}
    Api = {a1}
    Home = Home
    Other = Other
    None = None
    Steps = 2
    Patient = {c2}
    Mortal = {o, c1}
    MaxFaults = 1
INVARIANTS OneExecutor
PROPERTIES NoReplay SpentStaysSpent ClosedRunsNothing NeverWedged
CHECK_DEADLOCK FALSE
