SPECIFICATION Spec
CONSTANTS
    Reads = {1, 2}
    MaxGates = 2
    MaxTriggers = 4
    MaxFrames = 3
INVARIANTS
    
    TriggersFollowOn
    NothingFetchedAgainstReplay
PROPERTY
    NoTriggerBetweenRecords
CHECK_DEADLOCK FALSE
