SPECIFICATION FairSpec
CONSTANTS
    Job = {1, 2}
    Missing = {9}
    NoPid = NoPid
    NoJob = NoJob
    Pid <- MCPid
    Heartbeat = {h1}
    Autonomous = {h1}
    Cli = {c1}
    Dispatcher = {w1}
    Operator = {c1}
    Foreign = {1}
    MaxTasks = 1
    MaxCrashes = 2
INVARIANTS NoDoubleRun DependenciesFirst
PROPERTIES DrainedIsFinal ClaimEndsByOwner ClaimsEnd ClaimableIsTaken UnblockedIsTaken
CHECK_DEADLOCK FALSE
