SPECIFICATION Spec
CONSTANTS
    t1 = t1
    t2 = t2
    t3 = t3
    NoTimer = NoTimer
    Timer <- MCTimer
    Periods <- MCPeriods
    Resolution = 1
    MaxTime = 3
    MaxCalls = 3
    MaxId = 1
SYMMETRY MCSymmetry
INVARIANTS
    TypeOK
    SchedulingIsTrue
    MissesNobody
    PunctualWait
PROPERTY NotEarly
CHECK_DEADLOCK FALSE
