SPECIFICATION Spec
CONSTANTS
    MaxRecords = 2
    Lengths = {1, 2}
    MaxStarts = 1
    MaxStops = 2
    MaxMeasures = 0
INVARIANTS
    
    OnlyTheRacingRecordIsLost
    FinishedAcquireMeansHandled
    FinishedIsLast
PROPERTIES
    ChainSafety
    CommandReturns
CHECK_DEADLOCK FALSE
