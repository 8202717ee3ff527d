SPECIFICATION Spec
CONSTANTS
    Triggers = 8
    Periods = {4, 8, 12}
    Leftovers <- mcLeftovers
    Gaps = {33}
    MinPeriod = 2
    MaxPeriod = 40
    Delay = 3
    Rearm = 2
    Align = 4
    HunkSize = 2
    TsBits = 8
    WordBits = 9
    MaxMultiplier = 2
    MaxHunks = 9
INVARIANTS
    
    RequestIsSound
PROPERTIES
    MeasurementEnds
CHECK_DEADLOCK FALSE
