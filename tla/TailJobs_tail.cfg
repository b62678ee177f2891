SPECIFICATION TailFairSpec
CONSTANTS
    Parent = Parent
    Child = Child
    Sweepers = {h1}
    Operators = {o1}
    NoOne = NoOne
    Rounds = 2
    Mortal = {Parent, Child, o1}
    MaxFaults = 1
INVARIANTS OneDrainer
PROPERTIES DoneIsNotRun TailFinishes
CHECK_DEADLOCK FALSE
