-------------------------- MODULE MCPerftestConfig --------------------------
EXTENDS PerftestConfig

(* The defaults of main() and the edge values: the smallest -dataLen      *)
(* (an empty payload), -bound 0 (unbounded) and -batchSize 0 (off).       *)
MC_DataLens == {28, 100}
MC_ExecutionTimes == {20}
MC_Bounds == {0, 1000}
MC_BatchSizes == {0, 8192}
MC_BYTES_OVERHEAD == 28
====
