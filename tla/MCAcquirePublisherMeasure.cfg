SPECIFICATION Spec
CONSTANTS
    MaxRecords = 1
    Lengths = {1}
    MaxStarts = 1
    MaxStops = 1
    MaxMeasures = 2
INVARIANT
    CardAtRest
CHECK_DEADLOCK FALSE
