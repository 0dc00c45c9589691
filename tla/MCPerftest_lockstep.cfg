\* Lock-step latency mode over reliable channels with every thread, delivery
\* and discovery weakly fair.  Liveness properties are checked, so deadlock
\* is left to the safety runs.
CONSTANTS
    BURST_SIZE <- MC_BURST_SIZE_3
    EXIT_SIZE <- MC_EXIT_SIZE
    LATENCY_COUNT <- MC_LATENCY_COUNT
    MaxSamples <- MC_MaxSamples_6
    DataLen <- MC_DataLen
    LatencyTest = TRUE
    BestEffort = FALSE
    ZeroExecutionTime = FALSE
    SleepSettles = TRUE
    MaxLosses <- MC_NoLosses

SPECIFICATION FairSpec

PROPERTY LockStepLiveOnceMatched

CHECK_DEADLOCK FALSE
