SPECIFICATION FairSpec
CONSTANTS
    Intr = {i1, i2, i3}
    Stop = {i3}
    Loop = {l1}
    Clearer = {c1}
    Nobody = Nobody
    MaxFaults = 2
INVARIANTS NoLostInterrupt
PROPERTIES ImplementsChannel PostedIsGiven
CHECK_DEADLOCK FALSE
