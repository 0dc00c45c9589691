\* -executionTime 0 in throughput mode over reliable channels, with every
\* thread scheduled fairly.  The run stops in a crashed or blocked state,
\* so deadlock is not checked.
CONSTANTS
    BURST_SIZE <- MC_BURST_SIZE
    EXIT_SIZE <- MC_EXIT_SIZE
    LATENCY_COUNT <- MC_LATENCY_COUNT
    MaxSamples <- MC_MaxSamples
    DataLen <- MC_DataLen
    LatencyTest = FALSE
    BestEffort = FALSE
    ZeroExecutionTime = TRUE
    SleepSettles = TRUE
    MaxLosses <- MC_NoLosses

SPECIFICATION FairSpec

PROPERTY RunCompletes

CHECK_DEADLOCK FALSE
