SPECIFICATION Spec
CONSTANTS
    MaxRecords = 1
    Lengths = {1}
    MaxStarts = 1
    MaxStops = 0
    MaxMeasures = 0
INVARIANT
    StartNeverDestroysThread
CHECK_DEADLOCK FALSE
