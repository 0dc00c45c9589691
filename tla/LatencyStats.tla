---------------------------- MODULE LatencyStats ----------------------------
(***************************************************************************)
(* The latency accumulator of the publisher: class LatencyInfo, nested in  *)
(* Perftest.run_publisher (src/srcPy/basic_perftest.py, lines 172-203).    *)
(*                                                                         *)
(* The object is driven by two callers: PongDataListener calls update()    *)
(* once per recorded echo, and the final report of run_publisher calls     *)
(* get_percentile() five times.  Nothing in the class orders these calls   *)
(* (the race between them is the subject of Perftest's report_race run),   *)
(* so the model lets any call follow any other.                            *)
(*                                                                         *)
(* Data abstraction: a latency is a small positive integer from Values.    *)
(* A latency is (perf_counter_ns() - timestamp) / 2000 in the code, taken  *)
(* from the monotonic clock of one process, so it is never <= 0 and the    *)
(* warning branch of update() is unreachable.  A percentile is given in    *)
(* units of 1/P_SCALE of a percent, so that int(len * p / 100) becomes an  *)
(* exact integer division.  average is kept as the fraction               *)
(* <<sum(latency_array), count>> instead of a float.                       *)
(***************************************************************************)
EXTENDS Integers, Sequences, SequencesExt

CONSTANTS
    Values,       \* latencies update() may be given
    MaxCount,     \* bound on the number of update() calls
    MIN_INIT,     \* stands for the 999999999999 that min_value starts at
    P_SCALE,      \* a percentile p is written as p * P_SCALE
    Percentiles   \* the percentiles the report asks for, scaled

ASSUME /\ Values \subseteq 1..(MIN_INIT - 1)
       /\ MaxCount \in Nat \ {0}
       /\ Percentiles \subseteq 0..(100 * P_SCALE)

VARIABLES
    latency_array, \* self.latency_array
    sum,           \* self.sum
    average,       \* self.average, as <<numerator, denominator>>
    max_value,     \* self.max_value
    min_value,     \* self.min_value
    count,         \* self.count
    last_latency_sample,
    std,           \* self.std
    result,        \* the value the last get_percentile() call returned
    failed         \* get_percentile() raised IndexError

vars == <<latency_array, sum, average, max_value, min_value, count,
          last_latency_sample, std, result, failed>>

NoResult == [p |-> -1, n |-> 0, value |-> -1]

(* LatencyInfo.__init__: sorted is set to False and never changed, so the   *)
(* test "if not self.sorted" always holds and is not kept as a variable.   *)
Init ==
    /\ latency_array = <<>>
    /\ sum = 0
    /\ average = <<0, 1>>
    /\ max_value = 0
    /\ min_value = MIN_INIT
    /\ count = 0
    /\ last_latency_sample = 0
    /\ std = 0
    /\ result = NoResult
    /\ failed = FALSE

SumOf(s) == FoldLeft(+, 0, s)

TrackMaxSwapped(v) == IF v < max_value THEN v ELSE max_value
(* if new_value > self.max_value: self.max_value = new_value *)
TrackMax(v) == IF v > max_value THEN v ELSE max_value

TrackMinSwapped(v) == IF v > min_value THEN v ELSE min_value
(* if new_value < self.min_value: self.min_value = new_value *)
TrackMin(v) == IF v < min_value THEN v ELSE min_value

UpdateUncounted(v) ==
    /\ ~failed /\ count < MaxCount
    /\ latency_array' = Append(latency_array, v)
    /\ sum' = sum + v /\ count' = count
    /\ average' = <<SumOf(latency_array'), count'>>
    /\ max_value' = TrackMax(v) /\ min_value' = TrackMin(v)
    /\ last_latency_sample' = v
    /\ UNCHANGED <<std, result, failed>>
(* LatencyInfo.update(new_value).  The "<= 0" test only prints; it is      *)
(* unreachable for the values the listener computes (see above).  std is   *)
(* not touched: no line of the class assigns it after __init__.            *)
Update(v) ==
    /\ ~failed
    /\ count < MaxCount
    /\ latency_array' = Append(latency_array, v)
    /\ sum' = sum + v
    /\ count' = count + 1
    /\ average' = <<SumOf(latency_array'), count'>>
    /\ max_value' = TrackMax(v)
    /\ min_value' = TrackMin(v)
    /\ last_latency_sample' = v
    /\ UNCHANGED <<std, result, failed>>

PercentileIndexCeil(n, p) ==
    LET i == (n * p + 100 * P_SCALE - 1) \div (100 * P_SCALE)
    IN  IF i > n - 1 THEN n - 1 ELSE i
(* index = int(len * percentile / 100), clamped to len - 1 *)
PercentileIndex(n, p) ==
    LET i == (n * p) \div (100 * P_SCALE)
    IN  IF i > n - 1 THEN n - 1 ELSE i

Ascending(s) == SortSeq(s, <)

GetPercentileUnsorted(s, p) == s[PercentileIndex(Len(s), p) + 1]
(* The value get_percentile returns for a non-empty array: the array is   *)
(* sorted, then indexed (Python indexes from 0, TLA+ from 1).             *)
GetPercentile(s, p) == Ascending(s)[PercentileIndex(Len(s), p) + 1]

(* LatencyInfo.get_percentile(percentile).  The sort is in place, so it    *)
(* changes latency_array.  On an empty array the index is clamped to -1    *)
(* and latency_array[-1] raises IndexError, which ends the publisher.     *)
Query(p) ==
    /\ ~failed
    /\ IF latency_array = <<>>
         THEN /\ failed' = TRUE
              /\ UNCHANGED <<latency_array, result>>
         ELSE /\ latency_array' = Ascending(latency_array)
              /\ result' = [p |-> p, n |-> count,
                                   value |-> GetPercentile(latency_array, p)]
              /\ UNCHANGED failed
    /\ UNCHANGED <<sum, average, max_value, min_value, count,
                   last_latency_sample, std>>

Next ==
    \/ \E v \in Values : Update(v)
    \/ \E p \in Percentiles : Query(p)

Spec == Init /\ [][Next]_vars

-----------------------------------------------------------------------------
(* Properties *)

TypeOK ==
    /\ latency_array \in Seq(Values)
    /\ Len(latency_array) = count
    /\ count \in 0..MaxCount
    /\ sum \in Nat /\ average \in Nat \X (Nat \ {0})
    /\ max_value \in Values \cup {0}
    /\ min_value \in Values \cup {MIN_INIT}
    /\ last_latency_sample \in Values \cup {0}
    /\ std = 0
    /\ result \in [p : Percentiles, n : 1..MaxCount, value : Values]
                    \cup {NoResult}
    /\ failed \in BOOLEAN

\* The multiset of the latencies in latency_array, whatever their order.
Recorded == [v \in Range(latency_array) |->
                Cardinality({i \in DOMAIN latency_array : latency_array[i] = v})]

(* The refinement mapping onto StatisticsCollector: the abstract multiset *)
(* is the content of latency_array and the abstract answer is the value   *)
(* the last get_percentile() call returned.                               *)
Collector == INSTANCE StatisticsCollector
               WITH recorded <- Recorded, answer <- result, failed <- failed

(* LatencyInfo implements the StatisticsCollector of spec 4.4, over every *)
(* order of update() and get_percentile() calls: the in-place sort of     *)
(* get_percentile (line 198) never changes which latencies are recorded,  *)
(* update() (lines 185-194) adds exactly its value, and each result of    *)
(* lines 199-203 is the element of rank min(int(n * p / 100), n - 1) of  *)
(* everything recorded when it was called, by a counting definition that *)
(* does not sort, also when the call follows more unsorted appends to an *)
(* array an earlier call sorted.                                          *)
CollectorRefinement == Collector!Spec

(* Spec section 8: min <= average <= max after every update() with        *)
(* positive values.  average is the float sum(latency_array) / count, so  *)
(* it is compared through its fraction; min_value and max_value are the   *)
(* running extremes that update() keeps separately.                       *)
MinAvgMax ==
    count > 0 =>
        /\ min_value * average[2] <= average[1]
        /\ average[1] <= max_value * average[2]

(* Spec section 8, read against the running extremes the report prints   *)
(* beside the percentiles: over the recorded latencies, get_percentile    *)
(* is non-decreasing in p, its value at 0 is min_value and its value at   *)
(* 100 is max_value.                                                      *)
PercentileExtremes ==
    LET P == Percentiles \cup {0, 100 * P_SCALE}
    IN  count > 0 =>
          /\ \A p1, p2 \in P :
                p1 <= p2 => GetPercentile(latency_array, p1)
                              <= GetPercentile(latency_array, p2)
          /\ GetPercentile(latency_array, 0) = min_value
          /\ GetPercentile(latency_array, 100 * P_SCALE) = max_value

====
