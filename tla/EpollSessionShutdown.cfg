SPECIFICATION FairSpec
CONSTANTS
    Env <- MCShutdown
    MaxData = 1
    MaxOut = 1
INVARIANT NoIoOutlivesSession
CHECK_DEADLOCK FALSE
