SPECIFICATION FairSpec
CONSTANTS
    Plan = 2
    After <- MCAfter
    MaxIterations = 4
    BumpBy = 1
    MaxStep = 6
    MaxExpansions = 1
    MaxInterrupts = 0
    Notes = {}
    Strict = TRUE
    Advisor = TRUE
    Intact = FALSE
    LastPass = TRUE
PROPERTIES LoopEnds
CHECK_DEADLOCK FALSE
