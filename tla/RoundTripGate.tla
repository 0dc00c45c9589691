--------------------------- MODULE RoundTripGate ---------------------------
(***************************************************************************)
(* What the RoundTripGate of the latency test promises (spec sections 3,   *)
(* 5 and 8), independent of threads, locks and DDS: the sender sends a    *)
(* probe only while the gate is free and takes the gate with it; the gate *)
(* is freed only by the echo of that probe; a probe or its echo may be    *)
(* lost, and then the gate stays taken.  Once the sender leaves lock-step *)
(* (the measurement ends) it sends no more probes, and releases of the    *)
(* gate by stray echoes are harmless no-ops of the protocol.              *)
(*                                                                         *)
(* Perftest in latency mode implements this specification; see            *)
(* Perftest!GateRefinement.                                               *)
(***************************************************************************)

VARIABLES
    held,      \* the gate is taken by an outstanding probe
    inFlight,  \* that probe, or its echo, is still in transit
    active     \* the sender is still in its lock-stepped phases

vars == <<held, inFlight, active>>

Init == held = FALSE /\ inFlight = FALSE /\ active = TRUE

\* Take the gate and send a probe; the transport may drop it at once.
Send == /\ active /\ ~held
        /\ held' = TRUE
        /\ inFlight' \in BOOLEAN
        /\ UNCHANGED active

\* The probe or its echo is lost; the gate stays taken.
Lose == /\ inFlight
        /\ inFlight' = FALSE
        /\ UNCHANGED <<held, active>>

\* The echo of the outstanding probe arrives and frees the gate.
Echo == /\ held /\ inFlight
        /\ held' = FALSE /\ inFlight' = FALSE
        /\ UNCHANGED active

\* The sender leaves lock-step for good.
Retire == /\ active
          /\ active' = FALSE
          /\ UNCHANGED <<held, inFlight>>

\* After lock-step, any message may free the gate.
StrayRelease == /\ ~active
                /\ held' = FALSE
                /\ UNCHANGED <<inFlight, active>>

Next == Send \/ Lose \/ Echo \/ Retire \/ StrayRelease

Spec == Init /\ [][Next]_vars

====
