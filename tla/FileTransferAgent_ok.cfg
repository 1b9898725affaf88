SPECIFICATION FairSpec
CONSTANTS
    a = a
    b = b
    c = c
    N = 2
    Large = {a}
    Small = {b, c}
    Commands <- MixedCommands
    MaxCommands = 2
    MaxFiles = 3
    Lifetime = 2
    Recent = 1
    Epoch = 2
    MaxTime = 6
    Outcomes = {"SUCCESS", "FAILED"}
    Faults = {"parse", "list", "mkdir", "upload"}
INVARIANTS
    ListedOnce
    EveryFileReported
    ClientsAlive
    RecentMeansValid
    DeletedOnce
PROPERTIES
    RenewalsApart
    ExecuteReturns
CHECK_DEADLOCK FALSE
