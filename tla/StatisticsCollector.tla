------------------------- MODULE StatisticsCollector -------------------------
(***************************************************************************)
(* What the StatisticsCollector promises (spec sections 4.4 and 8), with   *)
(* no array, no sort and no index arithmetic on a sorted list: the         *)
(* collector holds the multiset of latencies recorded so far, and a        *)
(* percentile query answers the element of rank min(floor(n * p / 100),    *)
(* n - 1) of that multiset, n being its size.  A query never changes what *)
(* has been recorded.                                                      *)
(*                                                                         *)
(* Spec section 4.4 leaves a query of an empty collector open; the         *)
(* abstraction lets it make the collector unusable.  Section 9 (line 124)  *)
(* makes "no record after the first query" a precondition of the caller;   *)
(* it is not part of this module but of the caller, and Perftest checks it *)
(* as NoRecordAfterReport.                                                 *)
(*                                                                         *)
(* LatencyStats implements this specification; see                         *)
(* LatencyStats!CollectorRefinement.                                       *)
(***************************************************************************)
EXTENDS Integers, Bags

CONSTANTS
    Values,       \* latencies that may be recorded (all > 0)
    P_SCALE,      \* a percentile p is written as p * P_SCALE
    Percentiles   \* the percentiles that may be asked for, scaled

VARIABLES
    recorded,  \* the multiset of recorded latencies
    answer,    \* the last answer: the percentile, the size n, the value
    failed     \* a query of the empty collector made it unusable

vars == <<recorded, answer, failed>>

NoAnswer == [p |-> -1, n |-> 0, value |-> -1]

\* The number of recorded latencies strictly below v.
CopiesBelow(B, v) == BagCardinality([e \in {x \in DOMAIN B : x < v} |-> B[e]])

\* The element of 0-based rank k of the multiset B.
OrderStatistic(B, k) ==
    CHOOSE v \in BagToSet(B) : CopiesBelow(B, v) <= k /\ k < CopiesBelow(B, v) + B[v]

\* floor(n * p / 100), clamped to n - 1.
Rank(n, p) == LET i == (n * p) \div (100 * P_SCALE)
              IN  IF i > n - 1 THEN n - 1 ELSE i

Init == recorded = EmptyBag /\ answer = NoAnswer /\ failed = FALSE

\* record(v) of a valid latency.
Record(v) == /\ ~failed
             /\ recorded' = recorded (+) SetToBag({v})
             /\ UNCHANGED <<answer, failed>>

\* percentile(p) of a non-empty collector.
Percentile(p) ==
    /\ ~failed /\ recorded # EmptyBag
    /\ LET n == BagCardinality(recorded)
       IN  answer' = [p |-> p, n |-> n, value |-> OrderStatistic(recorded, Rank(n, p))]
    /\ UNCHANGED <<recorded, failed>>

\* percentile(p) of an empty collector.
Unavailable == /\ ~failed /\ recorded = EmptyBag
               /\ failed' = TRUE
               /\ UNCHANGED <<recorded, answer>>

Next == \/ \E v \in Values : Record(v)
        \/ \E p \in Percentiles : Percentile(p)
        \/ Unavailable

Spec == Init /\ [][Next]_vars

====
