----------------------------- MODULE MCPerftest -----------------------------
(***************************************************************************)
(* Bounds for model checking Perftest.  The warm-up and exit bursts are   *)
(* shortened from 100 and 10 samples to 2 and 1: two warm-up samples are  *)
(* enough for a second lock-step acquire to wait on the first echo, and   *)
(* one exit sample is enough to end the subscriber.  A probe every second *)
(* measurement sample (LATENCY_COUNT = 2) with three measurement samples  *)
(* gives throughput mode a probe, a non-probe and a second probe.         *)
(***************************************************************************)
EXTENDS Perftest

MC_BURST_SIZE    == 2
MC_EXIT_SIZE     == 1
MC_LATENCY_COUNT == 2
MC_MaxSamples    == 3
MC_DataLen       == 100

(* The fault budget of best-effort channels.  Reliable runs lose nothing. *)
(* The lock-step and loss-estimate runs may lose every sample they send.  *)
(* The progress run shows the exit burst's redundancy: three exit samples *)
(* and two losses, anywhere in the run, so that two exit samples, or one  *)
(* with a measurement sample or an echo, may be lost.                     *)
MC_NoLosses      == 0
MC_AnyLosses     == 12
MC_TwoLosses     == 2

(* The passing safety runs take a longer instance: a three-sample warm-up *)
(* burst and six measurement samples, three of them probes, so that a    *)
(* lock-step acquire waits on an echo several times in each phase and a  *)
(* gap can open between any two probes.                                   *)
MC_BURST_SIZE_3  == 3
MC_MaxSamples_6  == 6
MC_EXIT_SIZE_3   == 3

=============================================================================
