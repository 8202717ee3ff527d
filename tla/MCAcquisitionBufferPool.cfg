SPECIFICATION Spec
CONSTANTS
    InitialCount = 2
    Handle = {h1, h2, h3, h4}
    MaxTakes = 5
SYMMETRY Symmetry
INVARIANTS
    RecordsIntact
    FillIsExclusive
PROPERTY
    GrowsOnlyWhenAllInUse
CHECK_DEADLOCK FALSE
