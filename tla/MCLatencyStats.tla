--------------------------- MODULE MCLatencyStats ---------------------------
EXTENDS LatencyStats

(* Three distinct latencies, so that arrays can be unsorted, hold         *)
(* duplicates and have a spread; four updates, so that each report        *)
(* percentile lands on a different index for some array length.           *)
MC_Values == {1, 2, 3}
MC_MaxCount == 4
MC_MIN_INIT == 1000
MC_P_SCALE == 10000
(* get_percentile(50), (90), (99), (99.99) and (99.9999) of the report *)
MC_Percentiles == {500000, 900000, 990000, 999900, 999999}
====
