SPECIFICATION Spec
CONSTANTS
    Loop = {a1, b1, c1}
    Process = {pa, pb, pc1}
    a1 = a1
    a2 = a2
    b1 = b1
    c1 = c1
    pa = pa
    pb = pb
    pc1 = pc1
    NoLoop = NoLoop
    ProcOf <- MCProcOf
    MaxInode = 2
    MaxPolls = 0
    Worktree = TRUE
    FsErrors = FALSE
INVARIANTS SlotExclusive
CHECK_DEADLOCK FALSE
