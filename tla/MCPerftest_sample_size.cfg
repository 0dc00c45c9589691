\* sample_size0
CONSTANTS
    BURST_SIZE <- MC_BURST_SIZE
    EXIT_SIZE <- MC_EXIT_SIZE
    LATENCY_COUNT <- MC_LATENCY_COUNT
    MaxSamples <- MC_MaxSamples
    DataLen <- MC_DataLen
    LatencyTest = FALSE
    BestEffort = FALSE
    ZeroExecutionTime = FALSE
    SleepSettles = TRUE
    MaxLosses <- MC_NoLosses

SPECIFICATION Spec

INVARIANT SubscriberKnowsSampleSize
