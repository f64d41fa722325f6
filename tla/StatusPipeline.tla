---------------------------- MODULE StatusPipeline ----------------------------
(***************************************************************************)
(* How status reaches the database: tags of the transmit stream become     *)
(* dictionaries, these and the PDUs delivered by the controllers become    *)
(* status messages, and these become bodies in the database                *)
(* (python/phy_layer.py:272-274, 316-334).  Every block has a thread of    *)
(* its own and a queue at its message port; the scheduler cuts the stream  *)
(* as it likes.                                                            *)
(***************************************************************************)
EXTENDS TagsToMsgDict, StatusCollector, ElasticsearchConnector

CONSTANTS
    SampleKinds(_),  \* the samples that a mark may come with
    OtherShapes,     \* shapes of further messages that reach the collector
    MaxStream,       \* bound: samples not yet read
    MarkOrder,       \* the marks in the order in which they are used
    MaxQueue,        \* bound: messages waiting at the collector
    MaxStatus        \* bound: messages waiting at the connector

\* Marks are used once each.
ASSUME PipelineAssumption ==
    /\ MarkOrder \in Seq(Marks) /\ Range(MarkOrder) = Marks /\ IsInjective(MarkOrder)
    /\ MaxStream \in Nat /\ MaxQueue \in Nat /\ MaxStatus \in Nat

\* A sample that has tags has its mark among them, and a marked sample a transmit time.
ASSUME SamplesAssumption ==
    \A mark \in Marks \cup {Plain} : \A sample \in SampleKinds(mark) :
        /\ sample \in Seq(Range(sample))
        /\ \A i \in DOMAIN sample : sample[i].key = "mark" => sample[i].value = mark
        /\ sample # <<>> => \E i \in DOMAIN sample : sample[i].key = "mark"
        /\ mark \in Marks => \E i \in DOMAIN sample : sample[i].key = "tx_time"

VARIABLES
    stream,     \* samples that tags_to_msg_dict has not read
    statusIn,   \* queue at the collector's port in
    statusOut,  \* queue at the connector's port in
    given       \* history: marks put on the stream, and those of delivered PDUs

pipelineVars == <<connectorVars, stream, statusIn, statusOut, given>>

\* Marks that may come now: all bodies are alike, so the order of marks does not matter.
Fresh == {Plain} \cup
    { MarkOrder[i] : i \in { i \in DOMAIN MarkOrder : i = Len(given["tx"]) + Len(given["rx"]) + 1 } }

Note(direction, mark) ==
    given' = IF mark = Plain THEN given ELSE [given EXCEPT ![direction] = Append(@, mark)]

PipelineInit ==
    /\ ConnectorInit
    /\ stream = <<>> /\ statusIn = <<>> /\ statusOut = <<>>
    /\ given = [tx |-> <<>>, rx |-> <<>>]

\* The transmitter produces a sample, with or without tags.
Produce ==
    /\ Len(stream) < MaxStream
    /\ \E mark \in Fresh : \E sample \in SampleKinds(mark) :
         stream' = Append(stream, sample) /\ Note("tx", mark)
    /\ UNCHANGED <<connectorVars, statusIn, statusOut>>

\* tags_to_msg_dict::work on the first n samples.
ReadTags ==
    /\ \E n \in 1 .. Len(stream) :
         \E dicts \in WorkMayPublish(SubSeq(stream, 1, n)) :
           /\ Len(statusIn) + Len(dicts) <= MaxQueue
           /\ statusIn' = statusIn \o [i \in DOMAIN dicts |-> [shape |-> "dict", fields |-> dicts[i]]]
           /\ stream' = SubSeq(stream, n + 1, Len(stream))
    /\ UNCHANGED <<connectorVars, statusOut, given>>

\* A controller delivers a PDU, which the UDP interface forwards to its port status.
ReportPdu ==
    /\ Len(statusIn) < MaxQueue
    /\ \E mark \in Fresh :
         /\ statusIn' = Append(statusIn, [shape |-> "pdu", fields |-> [mark |-> mark]])
         /\ Note("rx", mark)
    /\ UNCHANGED <<connectorVars, stream, statusOut>>

\* Anything else that may be connected to the collector.
ReportOther ==
    /\ Len(statusIn) < MaxQueue
    /\ \E shape \in OtherShapes :
         statusIn' = Append(statusIn, [shape |-> shape, fields |-> [mark |-> Plain]])
    /\ UNCHANGED <<connectorVars, stream, statusOut, given>>

\* status_collector::handle_msg always publishes.
Collect ==
    /\ statusIn # <<>> /\ Len(statusOut) < MaxStatus
    /\ statusOut' = Append(statusOut, Collected(Head(statusIn)))
    /\ statusIn' = Tail(statusIn)
    /\ UNCHANGED <<connectorVars, stream, given>>

\* The connector's thread takes the next status message.
Connect ==
    /\ statusOut # <<>>
    /\ HandleStatus(Head(statusOut))
    /\ statusOut' = Tail(statusOut)
    /\ UNCHANGED <<stream, statusIn, given>>

ConnectorEnvironment ==
    /\ UpdateAdditionalData \/ Grow \/ DatabaseChange
    /\ UNCHANGED <<stream, statusIn, statusOut, given>>

PipelineNext ==
    \/ Produce
    \/ ReadTags
    \/ ReportPdu
    \/ ReportOther
    \/ Collect
    \/ Connect
    \/ ConnectorEnvironment

PipelineSpec == PipelineInit /\ [][PipelineNext]_pipelineVars
-----------------------------------------------------------------------------
\* Bodies, samples and messages in their order, as marked items with a direction.
MarksOf(items, Mark(_)) == Only([i \in DOMAIN items |-> Mark(items[i])], Marks)

MarkOfMessage(msg) == msg.fields.mark
MarkOfSample(sample) ==
    IF \E i \in DOMAIN sample : sample[i].key = "mark"
    THEN sample[CHOOSE i \in DOMAIN sample : sample[i].key = "mark"].value ELSE Plain
MarkOfStatus(status) == IF status.pair THEN status.fields.mark ELSE Plain

From(direction, marks) == Only(marks, Range(given[direction]))

InPipeline ==
    MarksOf(stored, LAMBDA b : b.mark) \o MarksOf(buffer, LAMBDA b : b.mark)
        \o MarksOf(statusOut, MarkOfStatus) \o MarksOf(statusIn, MarkOfMessage)
        \o MarksOf(stream, MarkOfSample)

\* Type correctness of the pipeline, with the buffer below its size between two calls.
StatusTypeOK ==
    /\ running \in BOOLEAN /\ available \in BOOLEAN /\ up \in BOOLEAN
    /\ additional \in 0 .. MaxUpdates
    /\ Range(buffer) \cup Range(stored) \subseteq Bodies(Marks \cup {Plain})
    /\ running => Len(buffer) < BufferSize
    /\ age \in 0 .. FlushAge + 1
    /\ Len(stream) <= MaxStream /\ Len(statusIn) <= MaxQueue /\ Len(statusOut) <= MaxStatus
    /\ buffer = <<>> => age = 0

\* If there is a database at the start, nothing that was reported is lost, doubled or
\* overtaken by what the same source reported later, wherever the scheduler cuts the
\* stream, however the threads interleave, whether size or age flushes the buffer, and
\* also after a flush that fails because the database went away
\* (tags_to_msg_dict_impl.cc:36-67, status_collector_impl.cc:117-149,
\* elasticsearch_connector.py:110-151).
NoStatusLost ==
    available =>
        \A direction \in {"tx", "rx"} : From(direction, InPipeline) = given[direction]

\* What the database holds is told from where it came: transmit times as tx, delivered
\* PDUs as rx, and with additional data no older than that of the bodies before
\* (status_collector_impl.cc:125-134, elasticsearch_connector.py:107-108, 129-141).
StoredAsReported ==
    \A i \in DOMAIN stored :
        /\ stored[i].direction \in {"tx", "rx"} /\ stored[i].mark \in Range(given[stored[i].direction])
        /\ \A j \in 1 .. i : stored[j].extra <= stored[i].extra

\* Bodies do not get stuck as long as status messages keep coming: the buffer's size
\* flushes it at last, if its age does not.  Without further messages they may stay
\* (elasticsearch_connector.py:110-121).
StoredIfMessagesContinue ==
    []<><<Connect>>_pipelineVars =>
        \A m \in Marks : (\E b \in Range(buffer) : b.mark = m) ~> (\E b \in Range(stored) : b.mark = m)
=============================================================================
