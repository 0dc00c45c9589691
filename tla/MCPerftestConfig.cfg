CONSTANTS
    DataLens <- MC_DataLens
    ExecutionTimes <- MC_ExecutionTimes
    Bounds <- MC_Bounds
    BatchSizes <- MC_BatchSizes
    BYTES_OVERHEAD <- MC_BYTES_OVERHEAD
    UNBOUNDED = UNBOUNDED
SPECIFICATION Spec
INVARIANTS
    TypeOK
    SameFlagsEndpointsMatch
