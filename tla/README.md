# TLA+ models of the Python perftest (`src/srcPy/basic_perftest.py`)

This directory model-checks the test protocol of `basic_perftest.py`. That protocol is the
publisher/subscriber handshake that measures throughput and round-trip
latency over two DDS topics, Ping and Pong. The models are checked with TLC.

## 1. Inventory

### Components, their state and operations

| Component | Code | State it keeps | Operations |
|---|---|---|---|
| Publisher main thread | `run_publisher` 170-350 | `count` (reused by three loops), `latency_lock`, the reused `sample` | discovery poll (271-274), warm-up burst of `BURST_SIZE` samples with `seq_num = -1` (277-288), `sleep(1)` then `discard_data(False)` (289-290), timed measurement loop (296-315), `discard_data(True)` (317), percentile report (319-335), exit burst of `EXIT_SIZE` samples with `seq_num = -2` (337-348) |
| PongDataListener (EchoProtocol, sender side) | 206-238 | `discard_data_value`, a copy of `latency_test` | per echo: release `latency_lock` in latency mode and ignore the error when it is not held (220-224); compute the latency; if not discarding, `latency_info.update` (226-235) |
| LatencyInfo (StatisticsCollector) | 172-203 | `latency_array`, `sum`, `average`, `min_value`, `max_value`, `count`, `last_latency_sample`, `std` (never computed), `sorted` (never set) | `update` (185-194), `get_percentile`, which sorts in place and clamps the index (196-203) |
| PingDataListener (SequenceTracker, start gate, echo) | 358-394 | `count`, `previous_sequence_num`, `lost_samples`, `test_started`, `test_finished`, `data_size`, `start_test_lock` | per sample: for `seq >= 0`, release the start gate the first time, count it and estimate loss; for `-2`, finish; for `-1`, learn `data_size`; echo it if `latency_ping == 1` (375-394) |
| Subscriber main thread | `run_subscriber` 396-463 | `sample_size`, `last_sample_count`, the times | discovery poll (420-425), wait on the start gate (431-433), take `data_size` (435), reporting loop with a 1 s period (446-457), final row (459-463) |
| DDS transport and discovery | external | matched endpoints, samples in flight | write, deliver in order to matched readers, lose (best effort) |
| QoS configuration | 107-168, set-up in 249-269 and 405-418 | `self.batch_size` (changed by `configure_writer_qos`) | writer and reader QoS per topic: throughput profile for Ping and latency profile for Pong, batching for the Ping writer unless latency mode forces `batch_size = 0` (122-127), best effort with `-bestEffort` (133-136, 153-156) |
| Command line and lifecycle | 43-45, 467-510 | the `Perftest` object (`__init__`, 47-105) | argparse, `sequence_size = dataLen - 28`, `timeout_us = executionTime * 10^6`, the `bin_data` bound, SIGINT handler, printing |

### How the components interact

- **Messages.** The publisher writes to Ping. The subscriber's listener echoes every
  `latency_ping == 1` sample on Pong, and the publisher's listener takes those echoes.
- **Callbacks.** Both listeners are DDS callbacks that run on their own threads,
  concurrent with the main threads. They share plain Python fields with the main
  threads and no mutex guards them: `discard_data_value`, `latency_array`, `count`,
  `lost_samples` and `test_finished`.
- **Locks used as signals.** `latency_lock` (lock-step latency mode) is acquired by
  the publisher main thread before each warm-up and measurement write, and released
  by the Pong listener on every echo. `start_test` is acquired at construction and
  released by the Ping listener on the first measurement sample. The subscriber
  main thread waits on it.
- **Discovery.** Each side polls the `matched_*` lists.

### What is hard

- **Interleavings.** Four threads interleave, with check-then-act on shared fields
  (the discard flag, the two reads of `count`).
- **Timing instead of synchronisation.** The warm-up discard window ends after a
  fixed 1 s sleep. The measurement ends on a wall clock.
- **Asymmetric discovery.** Each side's discovery loop exits on *one* match.
  Samples written to an unmatched writer are lost, even on a reliable channel.
- **Loss.** Best-effort channels lose samples. Lock-step mode then waits forever,
  and the loss estimate must stay right.
- **Edge values.** `executionTime = 0`, an empty `latency_array`, and gaps at the
  very first sequence number.

### What makes each component correct

- **Publisher and Pong listener.**
  - Lock-step keeps at most one probe outstanding.
  - Warm-up and exit echoes never enter the statistics.
  - The report is computed on a non-empty array that no one modifies afterwards.
  - The run ends; in lock-step mode it ends whenever discovery completed
    before the first warm-up write.
- **Ping listener and subscriber.**
  - The loss estimate equals the samples really lost, and a loss-free run reports
    none.
  - The sample size is learned before it is used.
  - Each counted sample is reported in exactly one interval.
  - The subscriber ends once the exit burst is sent, even when a best-effort
    channel loses fewer samples than the burst has copies.
- **LatencyInfo.**
  - `min <= average <= max`.
  - Percentiles are monotone in `p`: `p0` is the minimum and `p100` is the maximum.
  - `LatencyInfo` implements the abstract `StatisticsCollector`: the sort keeps
    the recorded multiset, and each percentile is the right order statistic of
    it, also after more samples arrive.
  - Invalid values (`<= 0`) are excluded. The listener can never produce one,
    because a latency is a difference of the same process's monotonic clock.
- **Configuration.**
  - Two processes started with the same flags create endpoints that can match.

## 2. Modules

### `Perftest.tla`: the protocol (all four threads and the transport)

| Code | Model |
|---|---|
| `run_publisher` | `spc` ∈ discovery, burst, measure, write, report, exit, done, crashed. The actions are `PubDiscovery`, `PubBurst`, `PubSettle`, `PubMeasureContinue`, `PubMeasureStop`, `PubMeasureWrite`, `PubReport` and `PubExit`. Each takes the code's loop condition and its lock acquire (`BurstLoop`, `ExitLoop`, `AcquireIfLatency`). `PubSettle` and `PubMeasureStop` set the listener's flag through `DiscardData`, the `discard_data` method (237-238). `PubReport` sorts `latency_array` in place, or ends in `crashed` when the array is empty (`IndexError`). |
| `PongDataListener.on_data_available` | `PongTake` takes an echo, releases the lock in latency mode and makes the discard check. `PongUpdate` does the append. The two are separate because the GIL can switch between lines 226 and 227. A recorded latency is abstracted to the `seq_num` of its echo. |
| `PingDataListener.on_data_available` | `PingTake`, with the seq ≥ 0 branch in `ObserveSequence`, which is made of `ReleaseStartGate` and `CountLoss`. The -2 and -1 branches and the echo are in the same step. |
| `run_subscriber` | `rpc`. The actions are `SubDiscovery`, `SubStart` (start gate and `data_size`), `SubLoop` (loop condition and final print, which ends in `crashed` when `avg_samples` is unbound), `SubRead` (first read of `count`) and `SubReport` (second read). |
| Transport | `ping` and `pong` are FIFO sequences. `Deliver` appends only when the pair is matched. `MatchPing` and `MatchPong` model discovery. `LosePing` and `LosePong` drop the head sample, only with `BestEffort` and only while `lost < MaxLosses`. `lost` counts the losses of the behaviour. |
| History (read only by properties) | `sent`, `echoed`, `received`, `reportedSum` and `initialCount`. |

- **Data abstraction.** A sample is `[seq, ping]`. Payload, timestamps and latency
  values are omitted, because no property distinguishes them. The one exception is
  which echo a recorded latency came from.
- **Time.** The measurement loop ends by a nondeterministic choice.
  - The first check passes unless `ZeroExecutionTime` is set.
  - `MaxSamples` caps the number of iterations.
  - `SleepSettles` states the timing assumption behind `time.sleep(1)`: when the
    sleep ends, both pairs are matched and no warm-up sample or echo is still in
    flight. Every run sets it TRUE.

`MCPerftest.tla` gives the bounds:

| Bound | Value | Why it is enough |
|---|---|---|
| `BURST_SIZE` | 2; 3 in throughput, latency and lockstep | A second lock-step acquire must wait for the first echo. |
| `EXIT_SIZE` | 1; 3 in the liveness run | One exit sample is enough to end the subscriber. The liveness run uses three, so that two may be lost. |
| `MaxLosses` | 0 reliable; 2 liveness; 12 latency and lost_count | 12 exceeds the samples a run can send, so those two runs may lose every sample. The liveness run allows two losses, fewer than the three exit samples, placed anywhere in the run. |
| `LATENCY_COUNT` | 2 | With `MaxSamples` = 3, throughput mode gets probe, non-probe, probe. |
| `MaxSamples` | 3; 6 in throughput, latency and lockstep | Three is enough to open a gap inside the run (lose sample 1 of 0..2) and to have two probes. The throughput, latency and lockstep runs take six, so a lock-step acquire waits on an echo six times in the measurement loop. |

These bounds reach:
- every branch of both listeners;
- every loss position;
- every order of the two matches relative to the bursts;
- every thread interleaving of the check-then-act pairs.

Larger bursts only repeat states already covered.

### `RoundTripGate.tla`: what lock-step promises, and the refinement

`RoundTripGate` is the abstract gate of spec §3, §5 and §8. It has no threads,
locks or channels. Its variables are:
- `held`: the gate is taken;
- `inFlight`: a probe or its echo is in transit;
- `active`: the sender is still lock-stepping.

Its steps are:
- `Send`: only while the gate is free; the probe may be lost at once;
- `Lose`;
- `Echo`: frees the gate, and only while it is held with a probe in flight;
- `Retire`: the sender leaves lock-step;
- `StrayRelease`: any message frees the gate, allowed only after `Retire`.

`Perftest` defines the refinement mapping:
- `held <- latencyLock`;
- `inFlight <- ProbeInTransit`, a warm-up or measurement probe, or its echo, in
  `ping` or `pong`;
- `active <- spc ∉ {exit, done, crashed}`.

`GateRefinement == Gate!Spec` is checked as a PROPERTY in the latency run. This
is spec §8's gate invariant, "acquire before send, release only on matching
echo", and it is stronger than "one probe in flight". It also pins down the
exit burst: exit echoes still release `latency_lock` (line 222, since the
listener's copy of `latency_test` is never cleared). That is harmless only
because the publisher has left lock-step by then.

### `LatencyStats.tla`: `LatencyInfo` (lines 172-203)

The whole class:
- **`Update(v)`** is `update()`. It appends, adds to `sum` and increments
  `count`. It recomputes `average` from the array, kept as the fraction
  `<<sum(latency_array), count>>`, and then applies `TrackMax`, `TrackMin` and
  `last_latency_sample`.
- **`Query(p)`** is `get_percentile()`. It does an in-place `SortSeq`. The index
  `PercentileIndex(n, p) = min(n*p div 100, n-1)` is computed with `p` scaled by
  `P_SCALE = 10^4`, so that 99.9999 is exact. On an empty array it ends in
  `failed` (the `IndexError`).

`sorted` is never set in the code, so every call sorts, and the model has no
flag for it. Calls come in any order, because nothing in the class orders them.

A note on floats: `int(n * p / 100)` in Python floats equals the exact integer
division for every `n <= 200000` at the report's five percentiles. This was
checked while modelling, so the exact model is faithful.

`MCLatencyStats` uses latencies {1,2,3}, at most 4 updates, and the report's
five percentiles. That covers:
- unsorted arrays;
- duplicates;
- a call after further appends to a sorted array;
- all five percentile indices.

### `StatisticsCollector.tla`: what the collector promises, and the refinement

`StatisticsCollector` is the collector of spec §4.4 and §8 without an array,
a sort or a sorted index. Its variables are:
- `recorded`: the multiset (a `Bags` bag) of recorded latencies;
- `answer`: the last percentile answer `[p, n, value]`;
- `failed`: a query of the empty collector made it unusable. The spec leaves
  this case open; the code raises `IndexError`.

`Record(v)` adds `v` to the bag. `Percentile(p)` answers the element of rank
`min(n*p div 100, n-1)` of the bag, found by counting copies below a value
(`OrderStatistic`), and leaves the bag alone. `Unavailable` is a query of an
empty collector.

`LatencyStats` maps onto it with `recorded <- Recorded` (the multiplicities
of `latency_array`), `answer <- result` and `failed <- failed`. The run checks
`CollectorRefinement == Collector!Spec`. Recording after the first query
(spec line 124) is a precondition on the caller, not on the class, so the
abstract module allows it; Perftest checks the caller with
`NoRecordAfterReport`.

### `PerftestConfig.tla`: arguments, QoS and endpoint set-up

The publisher and the subscriber are separate processes. Each has its own
command line (`pubArgs`, `subArgs` over the defaults and the edge values).
- `NewPerftest` is `main()` plus `__init__`: `sequence_size = dataLen - 28`,
  the `bin_data` bound (`BinBound`), and `timeout_us`.
- `WriterQos` / `WriterBatchSize` and `ReaderQos` are
  `configure_writer_qos` and `configure_reader_qos`.
- The set-up steps are in code order:
  - publisher: `PubBanner`, `PubPingWriter`, `PubPongReader`;
  - subscriber: `SubPongWriter`, `SubPingReader`.
  `PubPingWriter` keeps the side effect on `self.batch_size`.

A QoS is reduced to its reliability kind and batch size. The XML profiles are not
in the source; they are assumed RELIABLE and unbatched. Matching uses DDS's
request/offered rule: a BEST_EFFORT writer does not match a RELIABLE reader.

### Fairness

`FairSpec` makes every step weakly fair except a loss:
- OS threads get scheduled;
- DDS delivers every sample of a reliable channel to a matched reader;
- discovery eventually matches both pairs.

Loss is never forced, and it is bounded by the fault budget `MaxLosses`. With
an unbounded budget, a fair behaviour could lose every exit sample. That is the
real limit of the exit burst's redundancy, not a property of the code. `LatencyStats` and `PerftestConfig` have no liveness
properties and no fairness.

## 3. Runs

| Run | cfg | Expect | What it shows |
|---|---|---|---|
| throughput | `MCPerftest_throughput.cfg` | pass | In reliable throughput mode: warm-up and exit echoes never enter `latency_array` (`WarmupEchoesNeverRecorded`), and when the exit sample arrives, the subscriber has counted every measurement sample with `lost_samples = 0` (`MeasuredRunLossless`). Deadlock is checked. |
| liveness | `MCPerftest_liveness.cfg` | pass | Under `FairSpec`, over best-effort channels that lose up to two samples anywhere in the run, the publisher ends (`PublisherTerminates`). Once it has sent its three-sample exit burst, the subscriber ends too (`ExitBurstSurvivesLoss`). The publisher reaches `done` only with a recorded measurement echo, so the subscriber has passed its start gate by then. |
| latency | `MCPerftest_latency.cfg` | pass | Lock-step mode over lossy channels implements `RoundTripGate` (`GateRefinement`). Deadlock is not checked: a lost sample really leaves the publisher blocked. |
| lockstep | `MCPerftest_lockstep.cfg` | pass | In lock-step mode over reliable channels under `FairSpec`, a publisher whose two topics are matched before its first warm-up write always finishes (`LockStepLiveOnceMatched`). So the latency_hang counterexample comes from the single-match exit of discovery, not from lock-step itself. |
| lost_count | `MCPerftest_lost_count.cfg` | violation | `LostSamplesExact` fails. Sample 0 is lost, sample 1 arrives, and `lost_samples` stays 0. A gap inside the run is counted one too high. |
| latency_hang | `MCPerftest_latency_hang.cfg` | violation | `PublisherTerminates` fails over *reliable* channels. Ping matches, the publisher starts, and the first echo is dropped because Pong is not yet matched. The publisher then waits on `latency_lock` forever. |
| sample_size | `MCPerftest_sample_size.cfg` | violation | `SubscriberKnowsSampleSize` fails. The warm-up burst goes to an unmatched writer, and the subscriber reports a sample size of -1. |
| zero_time | `MCPerftest_zero_time.cfg` | violation | `RunCompletes` fails. With `-executionTime 0`, `get_percentile` reads an empty array (`IndexError`) before the exit burst, and the subscriber waits at its start gate forever. |
| report_race | `MCPerftest_report_race.cfg` | violation | `NoRecordAfterReport` fails. The Pong listener passes the discard check, the main thread sets `discard_data(True)` and sorts, and then the append lands. |
| intervals | `MCPerftest_intervals.cfg` | violation | `IntervalsAccountForAllSamples` fails. A sample is counted between the two reads of `count` (lines 449 and 451), so it is never in any samples/s figure. |
| latency_stats | `MCLatencyStats.cfg` | pass | Over every order of `update()` and `get_percentile()` calls: `MinAvgMax` holds; `LatencyInfo` implements `StatisticsCollector` (`CollectorRefinement`): the in-place sort never changes the recorded multiset, and each result is the order statistic of rank `min(n*p div 100, n-1)` of what was recorded when it was called, by a counting definition that does not sort; the percentiles are monotone, with p0 = `min_value` and p100 = `max_value` (`PercentileExtremes`). |
| config | `MCPerftestConfig.cfg` | pass | For every pair of command lines: with the same `-bestEffort`, all four endpoints can match (`SameFlagsEndpointsMatch`). |

Every property of a passing run has a mutant in `PROJECT.json`. The mutant is a
plausible bug in the code the property is about, and TLC finds it:

| Mutant | Bug it stands for | Property that catches it |
|---|---|---|
| `BurstLoopOffByOne` | The warm-up loop runs once too often. | `TypeOK` (Perftest) |
| `InitPublisherNoDiscard` | The listener starts without discarding. | `WarmupEchoesNeverRecorded` |
| `CountLossOffByOne` | `>= 0` instead of `> 0` in the gap test. | `MeasuredRunLossless` |
| `AcquireAlways` | The acquire does not depend on `latency_test`. | `PublisherTerminates` |
| `ReleaseLatencyLockUnlessDiscarding` | The lock release is moved under the discard check, so warm-up echoes no longer release it. | `LockStepLiveOnceMatched` |
| `ExitLoopShort` | The exit loop sends one sample fewer than `EXIT_SIZE`. | `ExitBurstSurvivesLoss` |
| `AcquireNoWait` | The acquire does not block. | `GateRefinement` |
| `UpdateUncounted` | `update()` forgets `count += 1`. | `TypeOK` (LatencyStats) |
| `TrackMinSwapped` | The min comparison is reversed. | `MinAvgMax` |
| `PercentileIndexCeil` | The index rounds up. | `CollectorRefinement` |
| `GetPercentileUnsorted` | The array is not sorted before indexing, as it would be if `sorted` were set once and never reset. | `PercentileExtremes` |
| `SequenceSizeSwapped` | `28 - dataLen`. | `TypeOK` (PerftestConfig) |
| `ReaderQosIgnoringBestEffort` | The reader does not apply `-bestEffort`. | `SameFlagsEndpointsMatch` |

### Observations from modelling that have no run

These differences from spec §6 were found while translating the code. Each one
is visible in a single run of the program, so no model checking is needed to
show it:
- Line 253 prints `-- Batch Size` before `configure_writer_qos("Ping")` zeroes
  it, so a latency run prints 8192.
- `-bound` is passed to `__init__` and never read. `bin_data` is bounded by
  `sequence_size` (line 66).
- `get_percentile` sorts on every call; the spec says it sorts once and caches.
- `update()` appends a value `<= 0` after warning, where the spec says it is
  excluded. The branch is unreachable, as explained above.
- `std` is set to 0 in `LatencyInfo.__init__` (line 181) and never computed,
  yet every publisher row prints it as the standard deviation.
- Lock-step mode relies on the Ping writer not batching, because the
  measurement loop never flushes. `configure_writer_qos` forces
  `batch_size = 0` in latency mode (lines 122-123), so the guard is there.
- The subscriber prints `Lost Samples (%)` as the constant 0 (lines 456 and
  463), whatever `lost_samples` is.

## 4. Not modelled, and why

- **`configure_participant_qos` and `initialize_dds_entities`.** They hand the
  UDPv4 mask and the NIC list to DDS and change no state a property could observe.
- **Argument parsing, printing, Mbps arithmetic and SIGINT.** These are I/O and
  float formatting. Cancellation is outside the core per spec §1.
- **The serialized sample size** that the publisher prints (line 94). It comes
  from the DDS type support.
- **Separate views of each match.** In DDS, the publisher and the subscriber
  learn of a match at different moments. The model keeps one boolean per topic.
  Only the two discovery loops read the views (lines 272 and 423), and each
  tests a disjunction. A later view only delays a loop exit, which the
  interleavings already allow. An earlier view on the subscriber side lets it
  wait at its start gate before data flows, which is also already reachable.
  Separate views therefore add no behaviour that a property can observe.
- **The SIGINT handler** (lines 43-45, 60). It prints and calls
  `sys.exit(-1)`, and touches no state of the protocol. Spec §1 puts
  cancellation outside the core. Modelled as an action, it would only add a
  terminal state that every wait can reach.
- **Transport details.** History depth, serialization, duplicates and reordering
  are not modelled. DDS neither duplicates nor reorders on these QoS. Each
  topic's match is one boolean, seen by both sides at once.

## 5. Plan

1. **`Perftest`**: done.
2. **`LatencyStats`**: done.
3. **`RoundTripGate`** and `StatisticsCollector`, with their refinements: done.
4. **`PerftestConfig`** (QoS and arguments): done.
5. **Fault model**: a loss budget `MaxLosses` and a three-sample exit burst
   in the liveness run: done. Separate match views and SIGINT are covered under
   "Not modelled".
6. **Larger bounds**: done for the passing runs. The violation runs keep the
   smallest instance, which gives the shortest counterexamples.
