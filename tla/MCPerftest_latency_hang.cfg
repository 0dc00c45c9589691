\* latency_hang0
CONSTANTS
    BURST_SIZE <- MC_BURST_SIZE
    EXIT_SIZE <- MC_EXIT_SIZE
    LATENCY_COUNT <- MC_LATENCY_COUNT
    MaxSamples <- MC_MaxSamples
    DataLen <- MC_DataLen
    LatencyTest = TRUE
    BestEffort = FALSE
    ZeroExecutionTime = FALSE
    SleepSettles = TRUE
    MaxLosses <- MC_NoLosses

SPECIFICATION FairSpec

PROPERTY PublisherTerminates

CHECK_DEADLOCK FALSE
