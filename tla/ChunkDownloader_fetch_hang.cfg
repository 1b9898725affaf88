SPECIFICATION FairSpec
CONSTANTS
    NThreads = 2
    QSize = 3
    RowCount <- MCRowCount
    Offset <- MCOffset
    Faults = {"download"}

PROPERTY FetchReturns
