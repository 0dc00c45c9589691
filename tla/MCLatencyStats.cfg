CONSTANTS
    Values <- MC_Values
    MaxCount <- MC_MaxCount
    MIN_INIT <- MC_MIN_INIT
    P_SCALE <- MC_P_SCALE
    Percentiles <- MC_Percentiles
SPECIFICATION Spec
INVARIANTS
    TypeOK
    MinAvgMax
    PercentileExtremes
PROPERTY
    CollectorRefinement
\* An IndexError from get_percentile() on an empty array ends the program.
CHECK_DEADLOCK FALSE
