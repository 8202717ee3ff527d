SPECIFICATION Spec
CONSTANTS
    Batches <- mcBatches
    Axes = {"a", "b"}
    BinAxis = "bins"
    MaxFaults = 2
INVARIANTS
    FileIsWrittenBatches
    RowsOnStatedAxis
    NothingHeldBetweenBatches
PROPERTIES
    WriterNeverWaits
