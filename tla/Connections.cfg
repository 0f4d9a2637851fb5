SPECIFICATION FairSpec
CONSTANTS
    s1 = s1
    s2 = s2
    NoStub = NoStub
    Stub <- MCStubs
    MaxPeers = 2
    TransferQuantity = 2
    Limit = 1
INVARIANTS
    TypeOK
    LimitHolds
    CountsAgree
    PendingIsOutstanding
PROPERTIES
    EachConnectIsAnswered
    SlotsReturn
    BacklogIsServed
CHECK_DEADLOCK FALSE
