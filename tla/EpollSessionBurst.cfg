SPECIFICATION FairSpec
CONSTANTS
    Env <- MCBurst
    MaxData = 1
    MaxOut = 1
PROPERTY RemovalCompletes
CHECK_DEADLOCK FALSE
