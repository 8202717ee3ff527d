SPECIFICATION ChainSpec
CONSTANT
    MaxRecords = 3
INVARIANTS
    ChainTypeOK
    InOrderExactlyOnce
    DownstreamDrained
PROPERTIES
    CompletionEndsChain
    ImplementsDelivery
CHECK_DEADLOCK FALSE
