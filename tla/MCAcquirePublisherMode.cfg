SPECIFICATION Spec
CONSTANTS
    MaxRecords = 1
    Lengths = {1}
    MaxStarts = 1
    MaxStops = 1
    MaxMeasures = 1
INVARIANT
    AcquiresReduced
CHECK_DEADLOCK FALSE
