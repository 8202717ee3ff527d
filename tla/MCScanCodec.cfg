SPECIFICATION Spec
CONSTANTS
    HalfBits = 4
    Bits32 = 8
    Bits64 = 10
    Batches <- mcBatches
    OffsetBins = {0, 4, 8}
    Lags = {0, 16}
    record_size = 26
    post_trigger_samples = 4
    Threshold <- mcThreshold
    Baseline <- mcBaseline
    WideSpectra <- mcWide
INVARIANTS
    ScanIsWhatWasSeen
    ReadersAgree
    ColumnsMatchSamples
    LiveIsTheSum
    
    BlobIsTheScan
CHECK_DEADLOCK FALSE
