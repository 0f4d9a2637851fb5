SPECIFICATION FairSpec
CONSTANTS
    recv = recv
    connector = connector
    GeneratorQuantity = 2
    ConsumerQuantity = 2
    Pushers <- MCPushers
    GeneratorOf <- MCGeneratorOf
    Targets <- MCTargets
    ListPushers <- MCListPushers
    MaxSent <- MCMaxSent
    MaxBatch = 2
INVARIANTS
    TypeOK
    NoStrandedMessages
    AllAccountedFor
PROPERTIES
    ImplementsChannel
    AcceptedIsHandled
CHECK_DEADLOCK FALSE
