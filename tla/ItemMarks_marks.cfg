SPECIFICATION Spec
CONSTANTS
    Steps = 2
    Chore = {c1}
    Fresh = Fresh
    MaxEdits = 1
    MaxJams = 1
    MaxLives = 2
    MaxAttempts = 1
INVARIANTS AppliedIsShown FinishedIsDone
CHECK_DEADLOCK FALSE
