SPECIFICATION Spec
CONSTANTS
    Plan = 3
    After <- MCAfter
    MaxIterations = 4
    BumpBy = 1
    MaxStep = 5
    MaxExpansions = 1
    MaxInterrupts = 1
    Notes = {n1}
    Strict = TRUE
    Advisor = FALSE
    Intact = TRUE
    LastPass = FALSE
INVARIANTS ContextReaches NoStepVanishes DoneOnDoneGround EndIsTyped LandingStaysVisible EveryRowSaved
CHECK_DEADLOCK FALSE
