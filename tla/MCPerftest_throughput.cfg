\* Throughput mode over reliable channels, with the settle sleep long enough.
CONSTANTS
    BURST_SIZE <- MC_BURST_SIZE_3
    EXIT_SIZE <- MC_EXIT_SIZE
    LATENCY_COUNT <- MC_LATENCY_COUNT
    MaxSamples <- MC_MaxSamples_6
    DataLen <- MC_DataLen
    LatencyTest = FALSE
    BestEffort = FALSE
    ZeroExecutionTime = FALSE
    SleepSettles = TRUE
    MaxLosses <- MC_NoLosses

SPECIFICATION Spec

INVARIANT TypeOK
INVARIANT WarmupEchoesNeverRecorded
INVARIANT MeasuredRunLossless
