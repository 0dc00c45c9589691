------------------------------ MODULE Perftest ------------------------------
(***************************************************************************)
(* The test protocol of src/srcPy/basic_perftest.py: the publisher        *)
(* (run_publisher) and its Pong listener, the subscriber (run_subscriber) *)
(* and its Ping listener, and the DDS transport between them as two FIFO  *)
(* channels, Ping (publisher -> subscriber) and Pong (subscriber ->       *)
(* publisher).                                                            *)
(*                                                                         *)
(* Four threads run concurrently: the publisher main thread (spc), the    *)
(* publisher's PongDataListener, the subscriber main thread (rpc) and the *)
(* subscriber's PingDataListener.  A listener handles the samples of one  *)
(* take_data() one at a time; the Pong listener's discard check and its   *)
(* update of latency_info are two steps, since the GIL may switch threads *)
(* between lines 226 and 227.                                             *)
(*                                                                         *)
(* Data is abstracted to what the properties tell apart: a sample is its  *)
(* seq_num and latency_ping flag; a latency value recorded by the Pong    *)
(* listener is the seq_num of the echo it came from.  Time is not         *)
(* modelled: the end of the measurement loop is a nondeterministic choice *)
(* bounded by MaxSamples, and the 1 s settle sleep after the warm-up      *)
(* burst is an assumption (SleepSettles) stated where it is used.         *)
(***************************************************************************)
EXTENDS Integers, Sequences, FiniteSets, Functions, TLC

CONSTANTS
    BURST_SIZE,         \* warm-up samples (seq_num = -1), line 22
    EXIT_SIZE,          \* exit samples (seq_num = -2), line 23
    LATENCY_COUNT,      \* throughput mode: one probe per LATENCY_COUNT samples
    MaxSamples,         \* bound on measurement-loop iterations
    DataLen,            \* the -dataLen argument, the data_size the subscriber learns
    LatencyTest,        \* -latencyTest
    BestEffort,         \* -bestEffort: the channels may lose samples
    ZeroExecutionTime,  \* -executionTime 0, so timeout_us = 0
    SleepSettles,       \* timing assumption on time.sleep(1), see PubSettle
    MaxLosses           \* bound on the samples best-effort channels lose

ASSUME /\ BURST_SIZE \in Nat \ {0}
       /\ EXIT_SIZE \in Nat \ {0}
       /\ LATENCY_COUNT \in Nat \ {0}
       /\ MaxSamples \in Nat \ {0}
       /\ DataLen \in Nat
       /\ MaxLosses \in Nat
       /\ {LatencyTest, BestEffort, ZeroExecutionTime, SleepSettles} \subseteq BOOLEAN

VARIABLES
    \* transport and discovery
    pingMatched,     \* ping_writer <-> ping_reader matched
    pongMatched,     \* pong_writer <-> pong_reader matched
    ping,            \* Ping samples in transit, in order
    pong,            \* Pong samples in transit, in order
    lost,            \* samples the channels have lost so far
    \* publisher main thread
    spc,             \* where run_publisher is
    count,           \* the loop counter reused by the three loops
    latencyLock,     \* latency_lock is held
    \* publisher PongDataListener and LatencyInfo
    discardData,     \* discard_data_value
    pending,         \* <<v>> when a value passed the discard check, not yet appended
    latencyArray,    \* latency_info.latency_array
    \* subscriber PingDataListener
    recvCount,       \* count
    previousSeq,     \* previous_sequence_num
    lostSamples,     \* lost_samples
    testStarted,     \* test_started
    testFinished,    \* test_finished
    dataSize,        \* data_size
    startTestLock,   \* start_test lock is held
    \* subscriber main thread
    rpc,             \* where run_subscriber is
    sampleSize,      \* self.sample_size of the subscriber
    lastSampleCount, \* last_sample_count
    sps,             \* samples_per_second of the interval being reported
    avgDefined,      \* avg_samples has been assigned (loop body ran once)
    \* history, read only by properties
    sent,            \* every sample ping_writer.write() was given
    echoed,          \* Pong samples taken by the publisher, exit echoes excluded
    received,        \* seq_nums >= 0 the Ping listener has taken
    reportedSum,     \* sum of the samples/s column printed so far
    initialCount     \* count when the subscriber passed the start gate

transport == <<pingMatched, pongMatched, ping, pong, lost>>
pubMain   == <<spc, count, latencyLock>>
pubListen == <<discardData, pending, latencyArray>>
subListen == <<recvCount, previousSeq, lostSamples, testStarted, testFinished,
               dataSize, startTestLock>>
subMain   == <<rpc, sampleSize, lastSampleCount, sps, avgDefined>>
history   == <<sent, echoed, received, reportedSum, initialCount>>
vars == <<transport, pubMain, pubListen, subListen, subMain, history>>

Seqs    == -2..MaxSamples - 1
Sample  == [seq : Seqs, ping : {0, 1}]
PubEnd  == {"done", "crashed"}
SubEnd  == {"done", "crashed"}

-----------------------------------------------------------------------------
(* Environment: discovery and sample loss.                                *)

\* Discovery matches each pair of endpoints at some time, independently.
MatchPing == /\ ~pingMatched
             /\ pingMatched' = TRUE
             /\ UNCHANGED <<lost, pongMatched, ping, pong, pubMain, pubListen,
                            subListen, subMain, history>>

MatchPong == /\ ~pongMatched
             /\ pongMatched' = TRUE
             /\ UNCHANGED <<lost, pingMatched, ping, pong, pubMain, pubListen,
                            subListen, subMain, history>>

(* A best-effort channel may drop a sample (the head, when it is next),  *)
(* at most MaxLosses times in a behaviour.                                *)
LosePing == /\ BestEffort /\ ping # <<>> /\ lost < MaxLosses
            /\ ping' = Tail(ping)
            /\ lost' = lost + 1
            /\ UNCHANGED <<pingMatched, pongMatched, pong, pubMain, pubListen,
                           subListen, subMain, history>>

LosePong == /\ BestEffort /\ pong # <<>> /\ lost < MaxLosses
            /\ pong' = Tail(pong)
            /\ lost' = lost + 1
            /\ UNCHANGED <<pingMatched, pongMatched, ping, pubMain, pubListen,
                           subListen, subMain, history>>

\* A write reaches only the readers matched at the time (volatile history).
Deliver(ch, matched, m) == IF matched THEN Append(ch, m) ELSE ch

-----------------------------------------------------------------------------
(* Publisher main thread: run_publisher.                                  *)

\* ping_writer.write(sample)
Write(m) == /\ ping' = Deliver(ping, pingMatched, m)
            /\ sent' = Append(sent, m)

\* Mutant: the acquire is not conditional on latency_test.
AcquireAlways == ~latencyLock /\ latencyLock' = TRUE

\* Mutant: the acquire does not wait for the lock.
AcquireNoWait == latencyLock' = (LatencyTest \/ latencyLock)

\* latency_lock.acquire() in latency mode: blocks while the lock is held.
AcquireIfLatency == IF LatencyTest
                    THEN ~latencyLock /\ latencyLock' = TRUE
                    ELSE UNCHANGED latencyLock

\* Mutant: the burst loop runs while count <= BURST_SIZE.
BurstLoopOffByOne == count <= BURST_SIZE

\* The burst loop condition.
BurstLoop == count < BURST_SIZE

\* Mutant: the exit burst is one sample short.
ExitLoopShort == count < EXIT_SIZE - 1

\* The exit loop condition.
ExitLoop == count < EXIT_SIZE

\* pong_reader_listener.discard_data(value), called from the main thread.
DiscardData(value) == discardData' = value

\* The discovery loop exits as soon as EITHER endpoint has a match.
PubDiscovery == /\ spc = "discovery"
                /\ pingMatched \/ pongMatched
                /\ spc' = "burst"
                /\ count' = 0
                /\ UNCHANGED <<latencyLock, transport, pubListen, subListen,
                               subMain, history>>

\* One iteration of the warm-up burst loop.
PubBurst == /\ spc = "burst"
            /\ BurstLoop
            /\ AcquireIfLatency
            /\ Write([seq |-> -1, ping |-> 1])
            /\ count' = count + 1
            /\ UNCHANGED <<spc, lost, pingMatched, pongMatched, pong, pubListen,
                           subListen, subMain, echoed, received, reportedSum,
                           initialCount>>

(* After the burst: time.sleep(1), then discard_data(False).  With          *)
(* SleepSettles the sleep is assumed long enough for discovery of both    *)
(* endpoints to finish and for every warm-up sample and echo to be        *)
(* delivered and handled.                                                 *)
Settled == /\ pingMatched /\ pongMatched
           /\ \A i \in DOMAIN ping : ping[i].seq # -1
           /\ \A i \in DOMAIN pong : pong[i].seq # -1

PubSettle == /\ spc = "burst"
             /\ ~BurstLoop
             /\ SleepSettles => Settled
             /\ DiscardData(FALSE)
             /\ spc' = "measure"
             /\ count' = 0
             /\ UNCHANGED <<latencyLock, transport, pending, latencyArray,
                            subListen, subMain, history>>

\* The measurement loop condition total_time_us < timeout_us holds: the
\* first check holds unless timeout_us = 0, later ones until time is up.
PubMeasureContinue == /\ spc = "measure"
                      /\ count < MaxSamples
                      /\ count > 0 \/ ~ZeroExecutionTime
                      /\ spc' = "write"
                      /\ UNCHANGED <<count, latencyLock, transport, pubListen,
                                     subListen, subMain, history>>

\* The loop condition fails; then discard_data(True).
PubMeasureStop == /\ spc = "measure"
                  /\ count > 0 \/ ZeroExecutionTime
                  /\ DiscardData(TRUE)
                  /\ spc' = "report"
                  /\ UNCHANGED <<count, latencyLock, transport, pending,
                                 latencyArray, subListen, subMain, history>>

\* The body of the measurement loop.
IsProbe(n) == IF LatencyTest \/ n % LATENCY_COUNT = 0 THEN 1 ELSE 0

PubMeasureWrite == /\ spc = "write"
                   /\ AcquireIfLatency
                   /\ Write([seq |-> count, ping |-> IsProbe(count)])
                   /\ count' = count + 1
                   /\ spc' = "measure"
                   /\ UNCHANGED <<lost, pingMatched, pongMatched, pong, pubListen,
                                  subListen, subMain, echoed, received,
                                  reportedSum, initialCount>>

(* The final report: get_percentile sorts latency_array in place; on an   *)
(* empty array the clamped index is -1 and latency_array[-1] raises       *)
(* IndexError, ending the publisher before its exit burst.                *)
PubReport == /\ spc = "report"
             /\ IF latencyArray = <<>>
                THEN spc' = "crashed" /\ UNCHANGED <<count, latencyArray>>
                ELSE /\ latencyArray' = SortSeq(latencyArray, <)
                     /\ spc' = "exit"
                     /\ count' = 0
             /\ UNCHANGED <<latencyLock, transport, discardData, pending,
                            subListen, subMain, history>>

\* One iteration of the exit burst loop (no lock in this loop).
PubExit == /\ spc = "exit"
           /\ ExitLoop
           /\ Write([seq |-> -2, ping |-> 1])
           /\ count' = count + 1
           /\ spc' = IF ExitLoop' THEN "exit" ELSE "done"
           /\ UNCHANGED <<latencyLock, lost, pingMatched, pongMatched, pong,
                          pubListen, subListen, subMain, echoed, received,
                          reportedSum, initialCount>>

-----------------------------------------------------------------------------
(* Publisher PongDataListener.on_data_available, one sample per step.     *)

\* Mutant: the release is moved under the discard check of line 226.
ReleaseLatencyLockUnlessDiscarding ==
    latencyLock' = IF LatencyTest /\ ~discardData THEN FALSE ELSE latencyLock

\* latency_lock.release() in latency mode; releasing an unheld lock raises
\* RuntimeError, which is caught and ignored.
ReleaseLatencyLock == latencyLock' = IF LatencyTest THEN FALSE ELSE latencyLock

\* Take an echo: release the lock in latency mode (a release of an unheld
\* lock raises and is ignored), then the discard check.
PongTake == /\ spc \notin PubEnd
            /\ pong # <<>>
            /\ pending = <<>>
            /\ LET m == Head(pong) IN
                 /\ pong' = Tail(pong)
                 /\ ReleaseLatencyLock
                 /\ pending' = IF discardData THEN <<>> ELSE <<m.seq>>
                 /\ echoed' = IF m.seq # -2 THEN echoed + 1 ELSE echoed
            /\ UNCHANGED <<lost, pingMatched, pongMatched, ping, spc, count,
                           discardData, latencyArray, subListen, subMain,
                           sent, received, reportedSum, initialCount>>

\* latency_info.update(latency_us): the append.
PongUpdate == /\ spc \notin PubEnd
              /\ pending # <<>>
              /\ latencyArray' = Append(latencyArray, Head(pending))
              /\ pending' = <<>>
              /\ UNCHANGED <<transport, pubMain, discardData, subListen,
                             subMain, history>>

-----------------------------------------------------------------------------
(* Subscriber PingDataListener.on_data_available, one sample per step.    *)

\* The first measurement sample releases start_test.
ReleaseStartGate == /\ testStarted' = TRUE
                    /\ startTestLock' = IF testStarted THEN startTestLock ELSE FALSE

\* Mutant: a gap is counted when seq_num - previous - 1 >= 0.
CountLossOffByOne(s) == lostSamples' = IF s - previousSeq - 1 >= 0
                                       THEN lostSamples + (s - previousSeq)
                                       ELSE lostSamples

\* The loss estimate.
CountLoss(s) == lostSamples' = IF s - previousSeq - 1 > 0
                               THEN lostSamples + (s - previousSeq)
                               ELSE lostSamples

\* The branch for seq_num >= 0: start gate, count and loss estimate.
ObserveSequence(s) ==
    /\ ReleaseStartGate
    /\ recvCount' = recvCount + 1
    /\ CountLoss(s)
    /\ previousSeq' = s
    /\ received' = received \cup {s}

PingTake == /\ rpc \notin SubEnd
            /\ ping # <<>>
            /\ LET m == Head(ping) IN
                 /\ ping' = Tail(ping)
                 /\ \/ /\ m.seq >= 0
                       /\ ObserveSequence(m.seq)
                       /\ UNCHANGED <<testFinished, dataSize>>
                    \/ /\ m.seq = -2
                       /\ testFinished' = TRUE
                       /\ UNCHANGED <<recvCount, previousSeq, lostSamples,
                                      testStarted, dataSize, startTestLock,
                                      received>>
                    \/ /\ m.seq = -1
                       /\ dataSize' = DataLen
                       /\ UNCHANGED <<recvCount, previousSeq, lostSamples,
                                      testStarted, testFinished, startTestLock,
                                      received>>
                 \* echo probes on the Pong channel
                 /\ pong' = IF m.ping = 1 THEN Deliver(pong, pongMatched, m)
                                          ELSE pong
            /\ UNCHANGED <<lost, pingMatched, pongMatched, pubMain, pubListen,
                           subMain, sent, echoed, reportedSum, initialCount>>

-----------------------------------------------------------------------------
(* Subscriber main thread: run_subscriber.                                *)

\* The discovery loop exits as soon as EITHER endpoint has a match.
SubDiscovery == /\ rpc = "discovery"
                /\ pingMatched \/ pongMatched
                /\ rpc' = "wait"
                /\ UNCHANGED <<transport, pubMain, pubListen, subListen,
                               sampleSize, lastSampleCount, sps, avgDefined,
                               history>>

\* start_test.acquire() returns once the listener released it; then the
\* subscriber takes data_size as its sample size and snapshots count.
SubStart == /\ rpc = "wait"
            /\ ~startTestLock
            /\ startTestLock' = TRUE
            /\ sampleSize' = dataSize
            /\ lastSampleCount' = recvCount
            /\ initialCount' = recvCount
            /\ rpc' = "loop"
            /\ UNCHANGED <<transport, pubMain, pubListen, recvCount,
                           previousSeq, lostSamples, testStarted, testFinished,
                           dataSize, sps, avgDefined, sent, echoed, received,
                           reportedSum>>

\* while not test_finished; on exit, the final print reads avg_samples,
\* which is unbound (NameError) when the loop body never ran.
SubLoop == /\ rpc = "loop"
           /\ rpc' = IF ~testFinished THEN "read"
                     ELSE IF avgDefined THEN "done" ELSE "crashed"
           /\ UNCHANGED <<transport, pubMain, pubListen, subListen, sampleSize,
                          lastSampleCount, sps, avgDefined, history>>

\* After time.sleep(1): samples_per_second = count - last_sample_count.
SubRead == /\ rpc = "read"
           /\ sps' = recvCount - lastSampleCount
           /\ rpc' = "report"
           /\ UNCHANGED <<transport, pubMain, pubListen, subListen, sampleSize,
                          lastSampleCount, avgDefined, history>>

\* last_sample_count = count (read again), the averages and the row.
SubReport == /\ rpc = "report"
             /\ lastSampleCount' = recvCount
             /\ reportedSum' = reportedSum + sps
             /\ avgDefined' = TRUE
             /\ rpc' = "loop"
             /\ UNCHANGED <<transport, pubMain, pubListen, subListen,
                            sampleSize, sps, sent, echoed, received,
                            initialCount>>

-----------------------------------------------------------------------------

\* Mutant: the Pong listener starts with discard_data_value = False.
InitPublisherNoDiscard == /\ spc = "discovery" /\ count = 0
                          /\ latencyLock = FALSE /\ discardData = FALSE
                          /\ pending = <<>> /\ latencyArray = <<>>

InitPublisher == /\ spc = "discovery"
                 /\ count = 0
                 /\ latencyLock = FALSE
                 /\ discardData = TRUE
                 /\ pending = <<>>
                 /\ latencyArray = <<>>

InitSubscriber == /\ recvCount = 0
                  /\ previousSeq = 0
                  /\ lostSamples = 0
                  /\ testStarted = FALSE
                  /\ testFinished = FALSE
                  /\ dataSize = -1
                  /\ startTestLock = TRUE
                  /\ rpc = "discovery"
                  /\ sampleSize = DataLen
                  /\ lastSampleCount = 0
                  /\ sps = 0
                  /\ avgDefined = FALSE

Init == /\ pingMatched = FALSE /\ pongMatched = FALSE /\ lost = 0
        /\ ping = <<>> /\ pong = <<>>
        /\ InitPublisher
        /\ InitSubscriber
        /\ sent = <<>> /\ echoed = 0 /\ received = {}
        /\ reportedSum = 0 /\ initialCount = 0

\* Both processes have ended.
Terminated == spc \in PubEnd /\ rpc \in SubEnd /\ UNCHANGED vars

Next == \/ MatchPing \/ MatchPong \/ LosePing \/ LosePong
        \/ PubDiscovery \/ PubBurst \/ PubSettle \/ PubMeasureContinue
        \/ PubMeasureStop \/ PubMeasureWrite \/ PubReport \/ PubExit
        \/ PongTake \/ PongUpdate
        \/ PingTake
        \/ SubDiscovery \/ SubStart \/ SubLoop \/ SubRead \/ SubReport
        \/ Terminated

(* Threads are scheduled by the OS, DDS delivers every sample of a        *)
(* reliable channel to a matched reader, and discovery completes: every   *)
(* step but a loss is weakly fair.                                        *)
Fairness == /\ WF_vars(MatchPing) /\ WF_vars(MatchPong)
            /\ WF_vars(PubDiscovery) /\ WF_vars(PubBurst) /\ WF_vars(PubSettle)
            /\ WF_vars(PubMeasureContinue \/ PubMeasureStop)
            /\ WF_vars(PubMeasureWrite) /\ WF_vars(PubReport) /\ WF_vars(PubExit)
            /\ WF_vars(PongTake) /\ WF_vars(PongUpdate) /\ WF_vars(PingTake)
            /\ WF_vars(SubDiscovery) /\ WF_vars(SubStart) /\ WF_vars(SubLoop)
            /\ WF_vars(SubRead) /\ WF_vars(SubReport)

Spec == Init /\ [][Next]_vars
FairSpec == Spec /\ Fairness

-----------------------------------------------------------------------------
(* Properties.                                                            *)

TypeOK == /\ pingMatched \in BOOLEAN /\ pongMatched \in BOOLEAN
          /\ lost \in 0..MaxLosses
          /\ ping \in Seq(Sample) /\ pong \in Seq(Sample)
          /\ spc \in {"discovery", "burst", "measure", "write", "report",
                      "exit", "done", "crashed"}
          /\ count \in 0..MaxSamples + BURST_SIZE + EXIT_SIZE
          /\ count <= (CASE spc = "burst" -> BURST_SIZE
                         [] spc \in {"exit", "done"} -> EXIT_SIZE
                         [] OTHER -> MaxSamples)
          /\ latencyLock \in BOOLEAN /\ discardData \in BOOLEAN
          /\ pending \in Seq(Seqs) /\ Len(pending) <= 1
          /\ latencyArray \in Seq(Seqs)
          /\ recvCount \in Nat /\ previousSeq \in Seqs /\ lostSamples \in Nat
          /\ {testStarted, testFinished, startTestLock, avgDefined} \subseteq BOOLEAN
          /\ dataSize \in {-1, DataLen} /\ sampleSize \in {-1, DataLen}
          /\ rpc \in {"discovery", "wait", "loop", "read", "report", "done",
                      "crashed"}
          /\ lastSampleCount \in Nat /\ sps \in Nat
          /\ sent \in Seq(Sample) /\ echoed \in Nat
          /\ received \subseteq Seqs /\ reportedSum \in Nat
          /\ initialCount \in Nat

\* A warm-up or measurement probe, or its echo, is in one of the channels.
ProbeInTransit == \E m \in Range(ping) \cup Range(pong) : m.ping = 1 /\ m.seq # -2

(* The refinement mapping of lock-step mode onto RoundTripGate: the gate  *)
(* is latency_lock, and the sender is in lock-step until its exit burst.  *)
Gate == INSTANCE RoundTripGate
          WITH held <- latencyLock, inFlight <- ProbeInTransit,
               active <- spc \notin {"exit", "done", "crashed"}

(* Lock-step mode (latency_lock, lines 284, 304 and 222) implements the   *)
(* RoundTripGate: a probe is written only after the lock is acquired, at  *)
(* most one is outstanding, and until the exit burst the lock is released *)
(* only by the echo of the outstanding probe, whatever is lost and        *)
(* however the four threads interleave.                                   *)
GateRefinement == Gate!Spec

(* The discard window (discard_data_value, lines 213, 226, 290, 317):     *)
(* latency_info only ever holds latencies of measurement probes, never of *)
(* a warm-up echo (timestamp 0) nor of an exit echo.                      *)
WarmupEchoesNeverRecorded == \A v \in Range(latencyArray) \cup Range(pending) : v >= 0

\* Measurement samples the publisher wrote.
MeasurementSent == Len(SelectSeq(sent, LAMBDA m : m.seq >= 0))

(* The end-to-end scenario of a reliable run (PingDataListener, lines     *)
(* 379-386): once the subscriber has seen an exit sample it has counted   *)
(* every measurement sample the publisher wrote and reports no loss.      *)
MeasuredRunLossless == testFinished => /\ recvCount = MeasurementSent
                                       /\ lostSamples = 0

(* The loss estimate (lines 384-386) equals the number of measurement     *)
(* samples below the last one received that never arrived.               *)
LostSamplesExact == testStarted =>
    lostSamples = Cardinality((0..previousSeq) \ received)

(* The subscriber's reported sample size (line 435) is the data_size      *)
(* learned from the warm-up burst, never the -1 it starts with.          *)
SubscriberKnowsSampleSize == rpc \in {"loop", "read", "report", "done"} =>
    sampleSize # -1

(* Once the percentile report has been computed, the Pong listener never  *)
(* appends to latency_array again (discard_data(True), line 317, is meant *)
(* to freeze it).                                                         *)
NoRecordAfterReport ==
    [][(spc \in {"exit", "done"}) => latencyArray' = latencyArray]_vars

(* Every sample the subscriber counted after the start gate appears in    *)
(* exactly one printed samples/s figure (lines 449-451).                  *)
IntervalsAccountForAllSamples ==
    rpc = "loop" => reportedSum = lastSampleCount - initialCount

(* The publisher finishes its run (lines 170-350): it does not block      *)
(* forever in discovery, on latency_lock, or anywhere else.               *)
PublisherTerminates == <>(spc \in PubEnd)

(* Both processes complete the run once discovery is possible (spec 5:   *)
(* only discovery and the lock-step wait may block indefinitely, and an   *)
(* out-of-range percentile index is not fatal): the publisher sends its   *)
(* exit burst (lines 337-350) and the subscriber prints its final report  *)
(* (lines 458-463).                                                       *)
RunCompletes == <>(spc = "done" /\ rpc = "done")

(* Lock-step (lines 283-284, 303-304 and 220-224) is live once discovery *)
(* is complete: when both topics are matched before the first warm-up     *)
(* write, every probe is echoed and releases latency_lock, so the         *)
(* publisher gets through the warm-up burst and the measurement loop and  *)
(* finishes.  It shows that the latency_hang counterexample is caused by  *)
(* the single-match exit of discovery (line 272), not by lock-step.       *)
LockStepLiveOnceMatched ==
    (spc = "burst" /\ count = 0 /\ pingMatched /\ pongMatched) ~> (spc \in PubEnd)

(* The exit burst is EXIT_SIZE copies of the same end marker (lines      *)
(* 337-348) because a best-effort channel may drop some: as long as fewer *)
(* than EXIT_SIZE samples are lost, once the publisher has sent the burst *)
(* the subscriber sees a marker (lines 388-389), leaves its reporting     *)
(* loop and ends (line 446).  The publisher only gets this far with a     *)
(* recorded measurement echo, so the subscriber has passed start_test.    *)
ExitBurstSurvivesLoss == (spc = "done") ~> (rpc \in SubEnd)

=============================================================================
