SPECIFICATION FairSpec
CONSTANTS
    e = e
    k1 = k1
    k2 = k2
    t1 = t1
    t2 = t2
    t3 = t3
    NoTask = NoTask
    Task <- MCTask
    Endless <- MCEndless
    Thread <- MCThread
    Requests <- MCRequests
    MaxNum = 2
    FullToo = FALSE
INVARIANTS
    TypeOK
    TaskHasTaker
    ClosedIsQuiet
PROPERTIES
    AcceptedStarts
    CloseCompletes
CHECK_DEADLOCK FALSE
