SPECIFICATION FairSpec
CONSTANTS
    Loop = {a1, a2, b1}
    Process = {pa, pb}
    a1 = a1
    a2 = a2
    b1 = b1
    c1 = c1
    pa = pa
    pb = pb
    pc1 = pc1
    NoLoop = NoLoop
    ProcOf <- MCProcOf
    MaxInode = 3
    MaxPolls = 1
    Worktree = TRUE
    FsErrors = TRUE
INVARIANTS GatedExclusive SlotIsOnPath NoLeakedLock
PROPERTIES ImplementsSlot GateDecides
CHECK_DEADLOCK FALSE
