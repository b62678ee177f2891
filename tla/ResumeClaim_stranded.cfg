SPECIFICATION Spec
CONSTANTS
    Owner = o
    Cli = {c1}
    Api = {}
    Home = Home
    Other = Other
    None = None
    Steps = 2
    Patient = {}
    Mortal = {o, c1}
    MaxFaults = 0
PROPERTIES StrandedIsDead
CHECK_DEADLOCK FALSE
