SPECIFICATION FairSpec
CONSTANTS
    N = 5
    Deps <- MCDeps
    Declared <- MCDeclared
    GateAll = FALSE
    Workers = 2
    MaxRuns = 1
    MaxFaults = 1
INVARIANTS PrerequisitesFirst ReportIsTrue PauseHolds
PROPERTIES CheckpointAdvances LaneReturns
CHECK_DEADLOCK FALSE
