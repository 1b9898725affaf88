SPECIFICATION FairSpec
CONSTANTS
    MaxExpired = 2
    MaxPolls = 2
    MaxOutages = 1
    MaxExecs = 2
    Faults = {"silent", "failed", "half", "refused", "badcode", "other", "lost", "objects", "init", "download"}
    Results <- MCResults
    Settings <- MCSettings
INVARIANTS
    MasterTokenOnlyRenews
    TokensMoveForward
    AnswerIsFinal
    RowsOfOneResult
PROPERTY
    CallReturns
CHECK_DEADLOCK FALSE
