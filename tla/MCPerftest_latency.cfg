\* Lock-step latency mode over best-effort channels, which may lose any
\* sample; this includes every reliable behaviour.  A lost ping or echo
\* leaves the publisher blocked on latency_lock forever, a real hang of the
\* program, so deadlock is not checked.
CONSTANTS
    BURST_SIZE <- MC_BURST_SIZE_3
    EXIT_SIZE <- MC_EXIT_SIZE
    LATENCY_COUNT <- MC_LATENCY_COUNT
    MaxSamples <- MC_MaxSamples_6
    DataLen <- MC_DataLen
    LatencyTest = TRUE
    BestEffort = TRUE
    ZeroExecutionTime = FALSE
    SleepSettles = TRUE
    MaxLosses <- MC_AnyLosses

SPECIFICATION Spec

PROPERTY GateRefinement

CHECK_DEADLOCK FALSE
