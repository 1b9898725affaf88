SPECIFICATION Spec
CONSTANTS
    MaxExpired = 0
    MaxPolls = 0
    MaxOutages = 0
    MaxExecs = 2
    Faults = {}
    Results <- MCResults
    Settings <- MCSettings
INVARIANT
    RowsOfResult
CHECK_DEADLOCK FALSE
