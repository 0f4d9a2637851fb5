SPECIFICATION FairSpec
CONSTANTS
    p1 = p1
    p2 = p2
    Producers <- MCProducers
    Consumer = poller
    MaxSent = 2
    MaxBatch = 2
INVARIANTS
    TypeOK
    AllAccountedFor
    NeverSleepsOnMessages
PROPERTIES
    ImplementsChannel
    AcceptedIsHandled
CHECK_DEADLOCK FALSE
