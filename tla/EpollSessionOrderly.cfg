SPECIFICATION FairSpec
CONSTANTS
    Env <- MCOrderlyShutdown
    MaxData = 1
    MaxOut = 2
INVARIANTS
    NoStrandedOutput
    OneIoPerDirection
    PostedIoIsAnswered
    NoIoOutlivesRemoval
PROPERTIES
    RemovalCompletes
    ShutdownCompletes
CHECK_DEADLOCK FALSE
