\* Progress in throughput mode over best-effort channels that lose at most
\* two samples, with a three-sample exit burst, the settle sleep long enough
\* and every thread, delivery and discovery weakly fair.  A stuck state
\* violates these properties itself, so TLC's separate deadlock check is
\* left to MCPerftest_throughput.cfg.
CONSTANTS
    BURST_SIZE <- MC_BURST_SIZE
    EXIT_SIZE <- MC_EXIT_SIZE_3
    LATENCY_COUNT <- MC_LATENCY_COUNT
    MaxSamples <- MC_MaxSamples
    DataLen <- MC_DataLen
    LatencyTest = FALSE
    BestEffort = TRUE
    ZeroExecutionTime = FALSE
    SleepSettles = TRUE
    MaxLosses <- MC_TwoLosses

SPECIFICATION FairSpec

PROPERTY PublisherTerminates
PROPERTY ExitBurstSurvivesLoss

CHECK_DEADLOCK FALSE
