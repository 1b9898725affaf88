CONSTANTS
    N = 3
    MaxJobs = 4
SPECIFICATION FairSpec
INVARIANTS
    TypeOK
    BusyCount
    JobsOnceInOrder
    WaitedMeansDone
    NoUseAfterDestroy
PROPERTIES
    WaitReturns
    JoinReturns
    JobsRun
    ImplementsPool
