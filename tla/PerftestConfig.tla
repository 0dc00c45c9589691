--------------------------- MODULE PerftestConfig ---------------------------
(***************************************************************************)
(* Start-up of the two processes of src/srcPy/basic_perftest.py: main()   *)
(* turns the command line into a Perftest object (__init__), and each     *)
(* role then creates its endpoints with the QoS of configure_writer_qos / *)
(* configure_reader_qos.  The publisher and the subscriber are separate   *)
(* processes started with their own arguments, so the model picks the    *)
(* arguments of each independently and interleaves their set-up steps.   *)
(*                                                                         *)
(* A QoS is abstracted to what matching and batching depend on: the       *)
(* reliability kind and the batch max_data_bytes (0 = batching off).  The *)
(* XML profiles (perftest_qos_profiles.xml) are not part of the source;   *)
(* they are taken to request RELIABLE delivery and to leave batching off, *)
(* which is what the -bestEffort and -batchSize options presuppose.       *)
(***************************************************************************)
EXTENDS Integers

CONSTANTS
    DataLens,        \* -dataLen values (default 100)
    ExecutionTimes,  \* -executionTime values (default 20)
    Bounds,          \* -bound values (default 1000, 0 = unbounded)
    BatchSizes,      \* -batchSize values (default 8192)
    BYTES_OVERHEAD,  \* line 21: 28
    UNBOUNDED        \* idl.unbounded

ASSUME DataLens \subseteq BYTES_OVERHEAD..1000000

Args == [pub : BOOLEAN, bestEffort : BOOLEAN, latencyTest : BOOLEAN,
         dataLen : DataLens, executionTime : ExecutionTimes,
         bound : Bounds, batchSize : BatchSizes]

VARIABLES
    pubArgs, subArgs,  \* command lines of the two processes
    pubObj, subObj,    \* their Perftest objects, or NoObject
    pubStep, subStep,  \* where each process is in its set-up
    printedBatch,      \* the "-- Batch Size" the publisher printed, or -1
    qos                \* QoS each endpoint was created with, or NoQos

vars == <<pubArgs, subArgs, pubObj, subObj, pubStep, subStep, printedBatch, qos>>

NoObject == [sequence_size |-> -1]
NoQos == [reliability |-> "NONE", batch |-> 0]
Endpoints == {"pingWriter", "pongReader", "pongWriter", "pingReader"}

-----------------------------------------------------------------------------
(* main() and Perftest.__init__ *)

SequenceSizeSwapped(dataLen) == BYTES_OVERHEAD - dataLen
\* main(): sequence_size=int(args.dataLen - BYTES_OVERHEAD)
SequenceSize(dataLen) == dataLen - BYTES_OVERHEAD

\* The member annotation of bin_data: idl.bound(sequence_size).
BinBound(sequence_size, bound) == sequence_size

(* main(): sequence_size = dataLen - 28, timeout_us = executionTime * 1e6; *)
(* __init__ keeps the flags and batch_size and bounds bin_data.  The       *)
(* "bound" argument (idl.bound(args.bound), or unbounded for 0) is passed  *)
(* but never read.                                                         *)
NewPerftest(a) ==
    LET sequence_size == SequenceSize(a.dataLen)
    IN  [sequence_size |-> sequence_size,
         bin_bound     |-> BinBound(sequence_size,
                                    IF a.bound # 0 THEN a.bound ELSE UNBOUNDED),
         timeout_us    |-> a.executionTime * 1000 * 1000,
         batch_size    |-> a.batchSize,
         latency_test  |-> a.latencyTest,
         be            |-> a.bestEffort]

\* Best effort is applied on top of the profile when -bestEffort is given.
Reliability(o) == IF o.be THEN "BEST_EFFORT" ELSE "RELIABLE"

(* configure_writer_qos(topic): the Ping writer forces self.batch_size to  *)
(* 0 in latency mode, then batches with max_data_bytes = batch_size when   *)
(* it is not 0; the Pong writer takes the latency profile unchanged.       *)
WriterBatchSize(o, topic) ==
    IF topic = "Ping" /\ o.latency_test THEN 0 ELSE o.batch_size

WriterQos(o, topic) ==
    [reliability |-> Reliability(o),
     batch       |-> IF topic = "Ping" THEN WriterBatchSize(o, topic) ELSE 0]

ReaderQosIgnoringBestEffort(o, topic) == [reliability |-> "RELIABLE", batch |-> 0]
\* configure_reader_qos(topic): the profile of the topic, best effort if -bestEffort.
ReaderQos(o, topic) == [reliability |-> Reliability(o), batch |-> 0]

-----------------------------------------------------------------------------
(* Set-up steps of each role. *)

\* main(): Perftest(...) for a process started with -pub.
PubConstruct == /\ pubStep = "args"
                /\ pubObj' = NewPerftest(pubArgs)
                /\ pubStep' = "banner"
                /\ UNCHANGED <<pubArgs, subArgs, subObj, subStep, printedBatch, qos>>

\* The "-- Batch Size" banner, printed from self.batch_size.
PubBanner == /\ pubStep = "banner"
             /\ printedBatch' = pubObj.batch_size
             /\ pubStep' = "pingWriter"
             /\ UNCHANGED <<pubArgs, subArgs, pubObj, subObj, subStep, qos>>

\* writer_qos = configure_writer_qos("Ping"); the Ping DataWriter.
PubPingWriter == /\ pubStep = "pingWriter"
                 /\ qos' = [qos EXCEPT !.pingWriter = WriterQos(pubObj, "Ping")]
                 /\ pubObj' = [pubObj EXCEPT !.batch_size = WriterBatchSize(pubObj, "Ping")]
                 /\ pubStep' = "pongReader"
                 /\ UNCHANGED <<pubArgs, subArgs, subObj, subStep, printedBatch>>

\* reader_qos = configure_reader_qos("Pong"); the Pong DataReader.
PubPongReader == /\ pubStep = "pongReader"
                 /\ qos' = [qos EXCEPT !.pongReader = ReaderQos(pubObj, "Pong")]
                 /\ pubStep' = "discovery"
                 /\ UNCHANGED <<pubArgs, subArgs, pubObj, subObj, subStep, printedBatch>>

\* main(): Perftest(...) for a process started without -pub.
SubConstruct == /\ subStep = "args"
                /\ subObj' = NewPerftest(subArgs)
                /\ subStep' = "pongWriter"
                /\ UNCHANGED <<pubArgs, subArgs, pubObj, pubStep, printedBatch, qos>>

\* writer_qos = configure_writer_qos("Pong"); the Pong DataWriter.
SubPongWriter == /\ subStep = "pongWriter"
                 /\ qos' = [qos EXCEPT !.pongWriter = WriterQos(subObj, "Pong")]
                 /\ subStep' = "pingReader"
                 /\ UNCHANGED <<pubArgs, subArgs, pubObj, subObj, pubStep, printedBatch>>

\* reader_qos = configure_reader_qos("Ping"); the Ping DataReader.
SubPingReader == /\ subStep = "pingReader"
                 /\ qos' = [qos EXCEPT !.pingReader = ReaderQos(subObj, "Ping")]
                 /\ subStep' = "discovery"
                 /\ UNCHANGED <<pubArgs, subArgs, pubObj, subObj, pubStep, printedBatch>>

Init == /\ pubArgs \in {a \in Args : a.pub}
        /\ subArgs \in {a \in Args : ~a.pub}
        /\ pubObj = NoObject /\ subObj = NoObject
        /\ pubStep = "args" /\ subStep = "args"
        /\ printedBatch = -1
        /\ qos = [e \in Endpoints |-> NoQos]

\* Both processes have created their endpoints and wait in discovery.
SetUp == pubStep = "discovery" /\ subStep = "discovery" /\ UNCHANGED vars

Next == \/ PubConstruct \/ PubBanner \/ PubPingWriter \/ PubPongReader
        \/ SubConstruct \/ SubPongWriter \/ SubPingReader
        \/ SetUp

Spec == Init /\ [][Next]_vars

-----------------------------------------------------------------------------
(* Properties *)

Qos == [reliability : {"RELIABLE", "BEST_EFFORT"}, batch : {0} \cup BatchSizes]

TypeOK ==
    /\ pubArgs \in Args /\ subArgs \in Args
    /\ \A o \in {pubObj, subObj} :
          o = NoObject \/
          o \in [sequence_size : Nat, bin_bound : Nat \cup {UNBOUNDED},
                timeout_us : Nat, batch_size : {0} \cup BatchSizes,
                latency_test : BOOLEAN, be : BOOLEAN]
    /\ pubStep \in {"args", "banner", "pingWriter", "pongReader", "discovery"}
    /\ subStep \in {"args", "pongWriter", "pingReader", "discovery"}
    /\ printedBatch \in {-1} \cup BatchSizes
    /\ qos \in [Endpoints -> Qos \cup {NoQos}]

(* DDS request/offered rule for reliability: a BEST_EFFORT writer does not *)
(* match a reader that requests RELIABLE.                                  *)
Compatible(w, r) == ~(w.reliability = "BEST_EFFORT" /\ r.reliability = "RELIABLE")

(* Two processes started with the same -bestEffort choice create Ping and  *)
(* Pong endpoints that can match: configure_writer_qos of one process and  *)
(* configure_reader_qos of the other agree on reliability for each topic,  *)
(* whatever the other options.  Without that, discovery of a topic never   *)
(* completes.                                                              *)
SameFlagsEndpointsMatch ==
    /\ pubStep = "discovery" /\ subStep = "discovery"
    /\ pubArgs.bestEffort = subArgs.bestEffort
    => /\ Compatible(qos.pingWriter, qos.pingReader)
       /\ Compatible(qos.pongWriter, qos.pongReader)

====
