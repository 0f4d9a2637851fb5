SPECIFICATION Spec
CONSTANTS
    Env <- MCAllEvents
    MaxData = 2
    MaxOut = 1
INVARIANTS
    TypeOK
    DeafWhenFullOnly
    ReadinessRemembered
    CleanCloseDeliversAll
CHECK_DEADLOCK FALSE
