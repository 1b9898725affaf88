SPECIFICATION Spec
CONSTANTS
    NThreads = 2
    QSize = 3
    RowCount <- MCRowCount
    Offset <- MCOffset
    Faults = {"init", "create", "download", "signal", "broadcast"}
INVARIANTS TypeOK DeliveredInOrder EofMeansAll WindowBound SlotIntegrity MutualExclusion NoUseAfterFree
PROPERTY ImplementsStream
\* A failed broadcast makes term keep queue_lock while it joins the threads.
CHECK_DEADLOCK FALSE
