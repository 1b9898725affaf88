SPECIFICATION Spec
CONSTANTS
    a = a
    b = b
    c = c
    N = 2
    Large = {a}
    Small = {b, c}
    Commands <- TwoUploads
    MaxCommands = 2
    MaxFiles = 3
    Lifetime = 2
    Recent = 1
    Epoch = 2
    MaxTime = 2
    Outcomes = {"SUCCESS"}
    Faults = {}
INVARIANT
    ResultsAreCommands
CHECK_DEADLOCK FALSE
