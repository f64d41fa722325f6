------------------------ MODULE MacControllerProofs ------------------------
(***************************************************************************)
(* Theorems about the controllers in an arbitrary environment, for every   *)
(* set of controllers, every width, MTU, clock and bound.                  *)
(***************************************************************************)
EXTENDS MacController, MacFrameProofs, SequenceTheorems, WellFoundedInduction

LEMMA ControllerTypes ==
    /\ MTU \in Nat
    /\ Ticks \subseteq 0 .. Size - 1 /\ Ticks \subseteq Nat
    /\ PduSizes \subseteq Nat
    /\ ReplayUsers \subseteq Controllers
    /\ \A c \in Controllers : /\ SrcId(c) \in Nat /\ DstId(c) \in Nat
                              /\ SrcId(c) # DstId(c)
                              /\ c = <<SrcId(c), DstId(c)>>
<1>1. Byte \in Nat /\ Size \in Nat
  BY WidthTypes
<1>2. ASSUME NEW c \in Controllers
      PROVE  SrcId(c) \in Nat /\ DstId(c) \in Nat /\ SrcId(c) # DstId(c) /\ c = <<SrcId(c), DstId(c)>>
  <2>1. c \in (0 .. Byte) \X (0 .. Byte) /\ c[1] # c[2]
    BY ControllerAssumption
  <2> QED
    BY <2>1, <1>1 DEF SrcId, DstId
<1> QED
  BY <1>1, <1>2, ControllerAssumption

-----------------------------------------------------------------------------
(***************************************************************************)
(* Typing.                                                                 *)
(***************************************************************************)
LEMMA CreateHeaderType ==
    ASSUME NEW dst \in Int, NEW src \in Int, NEW n \in Int, NEW ticks \in Int, NEW size \in Int
    PROVE  CreateHeader(dst, src, n, ticks, size) \in Header
BY WidthTypes DEF CreateHeader, Header

LEMMA DamagedType ==
    ASSUME NEW frame \in Frame, NEW header \in Damaged(frame.header)
    PROVE  [frame EXCEPT !.header = header] \in Frame
<1>1. frame.header \in Header
  BY DEF Frame
<1>2. header \in Header
  BY <1>1 DEF Damaged, Header
<1> QED
  BY <1>2 DEF Frame

LEMMA FrameForType ==
    ASSUME MacTypeOK, NEW c \in Controllers, NEW pdu \in Pdu, NEW ticks \in Ticks
    PROVE  FrameFor(c, pdu, ticks) \in Frame
<1> DEFINE echo == (ticks - phy[c].last_ticks) % Size
           h1 == CreateHeader(DstId(c), SrcId(c), ReplaySequence, ReplayTicks, MTU)
           h2 == CreateHeader(DstId(c), SrcId(c), d_tx_frame_counter[c], ticks, pdu.size)
<1>1. echo \in 0 .. Size - 1
  <2>1. phy[c].last_ticks \in Ticks \cup {0}
    BY DEF MacTypeOK, PhyCounters
  <2> QED
    BY <2>1, ControllerTypes, WidthTypes
<1>2. h1 \in Header
  BY CreateHeaderType, ControllerTypes, ReplayAssumption, WidthTypes
<1>3. h2 \in Header
  <2>1. d_tx_frame_counter[c] \in Int /\ pdu.size \in Int
    BY WidthTypes DEF MacTypeOK, Pdu
  <2> QED
    BY <2>1, CreateHeaderType, ControllerTypes
<1>4. ReplayPattern(c) \in Pdu
  BY ControllerTypes DEF ReplayPattern, Pdu
<1> HIDE DEF echo, h1, h2
<1>5. [header |-> h1, data |-> ReplayPattern(c), len |-> MTU, echo_ticks |-> echo] \in Frame
  BY <1>1, <1>2, <1>4 DEF Frame
<1>6. [header |-> h2, data |-> pdu, len |-> MTU, echo_ticks |-> echo] \in Frame
  BY <1>1, <1>3 DEF Frame
<1> QED
  BY <1>5, <1>6 DEF FrameFor, echo, h1, h2

LEMMA PduFromType ==
    ASSUME MacTypeOK, NEW c \in Controllers, NEW frame \in Frame, NEW ticks \in Ticks
    PROVE  /\ PduFrom(c, frame, ticks) \in LlcMessage
           /\ TimingMessage(frame, ticks) \in TimingInfo
<1>1. /\ frame.header \in Header /\ frame.data \in Pdu
      /\ frame.header.sequence \in 0 .. Word - 1
      /\ frame.header.payload_size \in Nat
      /\ frame.header.timestamp \in 0 .. Size - 1
  BY WidthTypes DEF Frame, Header
<1>2. Cut(frame.data, frame.header.payload_size) \in Pdu
  BY <1>1 DEF Cut, Pdu
<1>3. LostPackets(frame.header.sequence, d_rx_frame_counter[c]) \in 0 .. FrameCounterMax - 1
  <2>1. d_rx_frame_counter[c] \in 0 .. Word - 1
    BY DEF MacTypeOK, FrameCounterMax
  <2> QED
    BY <2>1, <1>1, LostPacketsIsSkipped
<1>4. Latency(frame.header.timestamp, ticks) \in 0 .. Size - 1
  BY <1>1, ControllerTypes, WidthTypes DEF Latency
<1>5. FrameCounterMax = Word - 1
  BY DEF FrameCounterMax
<1>6. PduFrom(c, frame, ticks) \in LlcMessage
  BY <1>1, <1>2, <1>3, <1>4, <1>5 DEF PduFrom, LlcMessage
<1>7. TimingMessage(frame, ticks) \in TimingInfo
  BY <1>1, <1>5 DEF TimingMessage, TimingInfo, Header
<1> QED
  BY <1>6, <1>7

\* Appending to one queue of a family of queues.
LEMMA AppendType ==
    ASSUME NEW S, NEW family \in [Controllers -> Seq(S)], NEW c \in Controllers, NEW e \in S
    PROVE  [family EXCEPT ![c] = Append(@, e)] \in [Controllers -> Seq(S)]
<1>1. Append(family[c], e) \in Seq(S)
  OBVIOUS
<1> QED
  BY <1>1

LEMMA AppendFacts ==
    ASSUME NEW S, NEW seq \in Seq(S), NEW e \in S
    PROVE  LET out == Append(seq, e)
               n   == Len(seq)
           IN  /\ Len(out) = n + 1 /\ out[n + 1] = e /\ out # <<>>
               /\ DOMAIN out = 1 .. n + 1 /\ DOMAIN seq = 1 .. n
               /\ \A i \in 1 .. n : out[i] = seq[i]
<1> DEFINE out == Append(seq, e)
           n   == Len(seq)
<1>1. /\ out \in Seq(S) /\ n \in Nat
      /\ Len(out) = n + 1 /\ out[n + 1] = e
      /\ \A i \in 1 .. n : out[i] = seq[i]
  OBVIOUS
<1>2. DOMAIN out = 1 .. n + 1 /\ DOMAIN seq = 1 .. n
  BY <1>1
<1>3. out # <<>>
  BY <1>1
<1> QED
  BY <1>1, <1>2, <1>3

LEMMA HandleLlcMsgType ==
    ASSUME MacTypeOK, NEW c \in Controllers, NEW pdu \in Pdu, NEW ticks \in Ticks,
           HandleLlcMsg(c, pdu, ticks)
    PROVE  MacTypeOK'
<1> DEFINE counted == LlcCounted(c, pdu, ticks)
           reset == LlcReset(counted, ticks)
<1>1. counted \in LlcCounters /\ reset \in LlcCounters
  <2>1. llc[c] \in LlcCounters /\ pdu.size \in Nat
    BY DEF MacTypeOK, Pdu
  <2> QED
    BY <2>1 DEF LlcCounted, LlcReset, LlcCounters
<1>2. d_tx_frame_counter' \in [Controllers -> 0 .. FrameCounterMax - 1]
  <2>1. NextFrameCounter(d_tx_frame_counter[c]) \in 0 .. FrameCounterMax - 1
    BY NextFrameCounterType DEF MacTypeOK
  <2> QED
    BY <2>1 DEF MacTypeOK, HandleLlcMsg
<1> HIDE DEF counted, reset
<1>3. \/ llc' = [llc EXCEPT ![c] = counted] /\ llcLines' = llcLines
      \/ llc' = [llc EXCEPT ![c] = reset] /\ llcLines' = [llcLines EXCEPT ![c] = Append(@, counted)]
  BY DEF HandleLlcMsg, PrintLlcStatus, counted, reset
<1>4. /\ llc' \in [Controllers -> LlcCounters]
      /\ llcLines' \in [Controllers -> Seq(LlcCounters)]
  <2>1. [llcLines EXCEPT ![c] = Append(@, counted)] \in [Controllers -> Seq(LlcCounters)]
    BY <1>1, AppendType DEF MacTypeOK
  <2> QED
    BY <2>1, <1>1, <1>3 DEF MacTypeOK
<1>5. phyOut' \in [Controllers -> Seq(Frame)]
  <2>1. phyOut' = phyOut \/ phyOut' = [phyOut EXCEPT ![c] = Append(@, FrameFor(c, pdu, ticks))]
    BY DEF HandleLlcMsg
  <2>2. FrameFor(c, pdu, ticks) \in Frame
    BY FrameForType
  <2>3. [phyOut EXCEPT ![c] = Append(@, FrameFor(c, pdu, ticks))] \in [Controllers -> Seq(Frame)]
    BY <2>2, AppendType DEF MacTypeOK
  <2> QED
    BY <2>1, <2>3 DEF MacTypeOK
<1> QED
  BY <1>2, <1>4, <1>5 DEF MacTypeOK, HandleLlcMsg

LEMMA HandlePhyMsgType ==
    ASSUME MacTypeOK, NEW c \in Controllers, NEW frame \in Frame, NEW intact \in BOOLEAN,
           NEW ticks \in Ticks, HandlePhyMsg(c, frame, intact, ticks)
    PROVE  MacTypeOK'
<1>1. CASE ~Accepts(c, frame, intact)
  BY <1>1 DEF HandlePhyMsg, MacTypeOK, macVars, counters, status, outputs
<1>2. CASE Accepts(c, frame, intact)
  <2> DEFINE msg == PduFrom(c, frame, ticks)
             counted == PhyCounted(c, msg, ticks)
             reset == PhyReset(counted, ticks)
  <2>1. msg \in LlcMessage /\ TimingMessage(frame, ticks) \in TimingInfo
    BY PduFromType
  <2> HIDE DEF msg
  <2>2. counted \in PhyCounters
    <3>1. /\ phy[c] \in PhyCounters /\ msg.data.size \in Nat /\ msg.lost_packets \in Nat
          /\ msg.latency \in Nat
      BY <2>1, WidthTypes DEF MacTypeOK, LlcMessage, Pdu
    <3>2. (phy[c].latency + msg.latency) % Size \in 0 .. Size - 1
      BY <3>1, WidthTypes DEF PhyCounters
    <3> QED
      BY <3>1, <3>2 DEF PhyCounted, PhyCounters
  <2> HIDE DEF counted
  <2>3. reset \in PhyCounters
    BY <2>2, WidthTypes DEF PhyReset, PhyCounters
  <2> HIDE DEF reset
  <2>4. \/ phy' = [phy EXCEPT ![c] = counted] /\ phyLines' = phyLines
        \/ phy' = [phy EXCEPT ![c] = reset] /\ phyLines' = [phyLines EXCEPT ![c] = Append(@, counted)]
    BY <1>2 DEF HandlePhyMsg, PrintPhyStatus, msg, counted, reset
  <2>5. /\ phy' \in [Controllers -> PhyCounters]
        /\ phyLines' \in [Controllers -> Seq(PhyCounters)]
    <3>1. [phyLines EXCEPT ![c] = Append(@, counted)] \in [Controllers -> Seq(PhyCounters)]
      BY <2>2, AppendType DEF MacTypeOK
    <3> QED
      BY <3>1, <2>2, <2>3, <2>4 DEF MacTypeOK
  <2>6. /\ llcOut' = [llcOut EXCEPT ![c] = Append(@, msg)]
        /\ timing' = [timing EXCEPT ![c] = Append(@, TimingMessage(frame, ticks))]
        /\ d_rx_frame_counter' = [d_rx_frame_counter EXCEPT ![c] = msg.sequence]
    BY <1>2 DEF HandlePhyMsg, msg
  <2>7. /\ llcOut' \in [Controllers -> Seq(LlcMessage)]
        /\ timing' \in [Controllers -> Seq(TimingInfo)]
    BY <2>1, <2>6, AppendType DEF MacTypeOK
  <2>8. d_rx_frame_counter' \in [Controllers -> 0 .. FrameCounterMax]
    BY <2>1, <2>6 DEF MacTypeOK, LlcMessage
  <2> QED
    BY <1>2, <2>5, <2>7, <2>8 DEF MacTypeOK, HandlePhyMsg
<1> QED
  BY <1>1, <1>2

LEMMA ActivateReplayModeType ==
    ASSUME MacTypeOK, NEW c \in Controllers, NEW activate \in BOOLEAN,
           ActivateReplayMode(c, activate)
    PROVE  MacTypeOK'
BY DEF MacTypeOK, ActivateReplayMode, counters, status, outputs

LEMMA MacInitType == MacInit => MacTypeOK
BY WidthTypes DEF MacInit, MacTypeOK, LlcCounters, PhyCounters

LEMMA ReceptionType ==
    ASSUME MacTypeOK, NEW c \in Controllers, NEW frame \in Frame, NEW ticks \in Ticks,
           Reception(c, frame, ticks)
    PROVE  MacTypeOK'
<1>1. CASE HandlePhyMsg(c, frame, TRUE, ticks)
  BY <1>1, HandlePhyMsgType
<1>2. ASSUME NEW header \in Damaged(frame.header),
             HandlePhyMsg(c, [frame EXCEPT !.header = header], FALSE, ticks)
      PROVE  MacTypeOK'
  BY <1>2, DamagedType, HandlePhyMsgType
<1> QED
  BY <1>1, <1>2 DEF Reception

LEMMA MacNextType == MacTypeOK /\ [MacNext]_macVars => MacTypeOK'
<1> SUFFICES ASSUME MacTypeOK, [MacNext]_macVars PROVE MacTypeOK'
  OBVIOUS
<1>1. ASSUME NEW c \in Controllers, ReceivePdu(c) PROVE MacTypeOK'
  <2>1. PICK size \in PduSizes, ticks \in Ticks :
          HandleLlcMsg(c, [origin |-> c, rank |-> llc[c].total + 1, size |-> size], ticks)
    BY <1>1 DEF ReceivePdu
  <2>2. [origin |-> c, rank |-> llc[c].total + 1, size |-> size] \in Pdu
    BY ControllerTypes DEF MacTypeOK, LlcCounters, Pdu
  <2> QED
    BY <2>1, <2>2, HandleLlcMsgType
<1>2. ASSUME NEW c \in Controllers, ReceiveFrame(c) PROVE MacTypeOK'
  <2>0. PICK s \in Controllers :
          \E i \in DOMAIN phyOut[s], ticks \in Ticks : Reception(c, phyOut[s][i], ticks)
    BY <1>2 DEF ReceiveFrame
  <2>1. PICK i \in DOMAIN phyOut[s], ticks \in Ticks : Reception(c, phyOut[s][i], ticks)
    BY <2>0
  <2>2. phyOut[s][i] \in Frame
    BY DEF MacTypeOK
  <2> QED
    BY <2>1, <2>2, ReceptionType
<1>3. ASSUME NEW c \in ReplayUsers, NEW activate \in BOOLEAN, ActivateReplayMode(c, activate)
      PROVE  MacTypeOK'
  BY <1>3, ControllerTypes, ActivateReplayModeType
<1>4. CASE UNCHANGED macVars
  BY <1>4 DEF MacTypeOK, macVars, counters, status, outputs
<1> QED
  BY <1>1, <1>2, <1>3, <1>4 DEF MacNext

\* The members of the controllers keep their types and the frame counters their
\* ranges: the transmitter's never reaches 2^16 - 1, the receiver's may.
THEOREM MacTyping == MacSpec => []MacTypeOK
<1>1. MacInit => MacTypeOK
  BY MacInitType
<1>2. MacTypeOK /\ [MacNext]_macVars => MacTypeOK'
  BY MacNextType
<1> QED
  BY <1>1, <1>2, PTL DEF MacSpec

-----------------------------------------------------------------------------
(***************************************************************************)
(* The loss report.  The receiver's counter is the sequence number it      *)
(* delivered last; with that LossReportIsSkipped is inductive.             *)
(***************************************************************************)
RxCounterIsLast ==
    \A c \in Controllers :
        d_rx_frame_counter[c] = IF llcOut[c] = <<>> THEN FrameCounterMax
                                ELSE llcOut[c][Len(llcOut[c])].sequence

LossInv == MacTypeOK /\ LossReportIsSkipped /\ RxCounterIsLast

LEMMA LossUnchanged ==
    ASSUME LossInv, UNCHANGED <<llcOut, d_rx_frame_counter>>
    PROVE  (LossReportIsSkipped /\ RxCounterIsLast)'
BY DEF LossInv, LossReportIsSkipped, RxCounterIsLast

LEMMA LossHandlePhyMsg ==
    ASSUME LossInv, NEW c \in Controllers, NEW frame \in Frame, NEW intact \in BOOLEAN,
           NEW ticks \in Ticks, HandlePhyMsg(c, frame, intact, ticks)
    PROVE  (LossReportIsSkipped /\ RxCounterIsLast)'
<1>1. CASE ~Accepts(c, frame, intact)
  BY <1>1, LossUnchanged DEF HandlePhyMsg, macVars, counters, outputs
<1>2. CASE Accepts(c, frame, intact)
  <2> DEFINE msg == PduFrom(c, frame, ticks)
             n == Len(llcOut[c])
             out == Append(llcOut[c], msg)
  <2>1. /\ llcOut' = [llcOut EXCEPT ![c] = out]
        /\ d_rx_frame_counter' = [d_rx_frame_counter EXCEPT ![c] = msg.sequence]
    BY <1>2 DEF HandlePhyMsg
  <2>2. /\ llcOut \in [Controllers -> Seq(LlcMessage)]
        /\ d_rx_frame_counter \in [Controllers -> 0 .. FrameCounterMax]
        /\ llcOut[c] \in Seq(LlcMessage) /\ n \in Nat
        /\ msg \in LlcMessage
    BY PduFromType DEF LossInv, MacTypeOK
  <2>3. /\ msg.sequence = frame.header.sequence
        /\ msg.lost_packets = LostPackets(msg.sequence, d_rx_frame_counter[c])
    BY DEF PduFrom
  <2>4. msg.lost_packets = SkippedNumbers(msg.sequence, d_rx_frame_counter[c])
    <3>1. msg.sequence \in 0 .. Word - 1 /\ d_rx_frame_counter[c] \in 0 .. Word - 1
      BY <2>2 DEF LlcMessage, FrameCounterMax
    <3> QED
      BY <3>1, <2>3, LostPacketsIsSkipped
  <2> HIDE DEF msg
  <2>5. /\ Len(out) = n + 1 /\ out[n + 1] = msg /\ out # <<>>
        /\ DOMAIN out = 1 .. n + 1 /\ DOMAIN llcOut[c] = 1 .. n
        /\ \A i \in 1 .. n : out[i] = llcOut[c][i]
    BY <2>2, AppendFacts
  <2>6. /\ llcOut'[c] = out /\ d_rx_frame_counter'[c] = msg.sequence
        /\ \A d \in Controllers \ {c} : /\ llcOut'[d] = llcOut[d]
                                       /\ d_rx_frame_counter'[d] = d_rx_frame_counter[d]
    BY <2>1, <2>2
  <2> HIDE DEF out
  <2>7. RxCounterIsLast'
    BY <2>5, <2>6 DEF LossInv, RxCounterIsLast
  <2>8. ASSUME NEW d \in Controllers, NEW i \in DOMAIN llcOut'[d]
        PROVE  LET last == IF i = 1 THEN FrameCounterMax ELSE llcOut'[d][i - 1].sequence
               IN  llcOut'[d][i].lost_packets = SkippedNumbers(llcOut'[d][i].sequence, last)
    <3>1. CASE d # c
      BY <3>1, <2>6 DEF LossInv, LossReportIsSkipped
    <3>2. CASE d = c /\ i \in 1 .. n
      <4>1. /\ llcOut'[d][i] = llcOut[c][i]
            /\ i # 1 => llcOut'[d][i - 1] = llcOut[c][i - 1]
        BY <3>2, <2>2, <2>5, <2>6
      <4>2. LET last == IF i = 1 THEN FrameCounterMax ELSE llcOut[c][i - 1].sequence
            IN  llcOut[c][i].lost_packets = SkippedNumbers(llcOut[c][i].sequence, last)
        BY <3>2, <2>5 DEF LossInv, LossReportIsSkipped
      <4> QED
        BY <4>1, <4>2
    <3>3. CASE d = c /\ i = n + 1
      <4>1. llcOut'[d][i] = msg
        BY <3>3, <2>5, <2>6
      <4>2. d_rx_frame_counter[c] = IF i = 1 THEN FrameCounterMax ELSE llcOut'[d][i - 1].sequence
        <5>1. i = 1 <=> llcOut[c] = <<>>
          BY <3>3, <2>2
        <5>2. i # 1 => llcOut'[d][i - 1] = llcOut[c][n]
          BY <3>3, <2>2, <2>5, <2>6
        <5> QED
          BY <5>1, <5>2 DEF LossInv, RxCounterIsLast
      <4> QED
        BY <4>1, <4>2, <2>4
    <3> QED
      BY <3>1, <3>2, <3>3, <2>2, <2>5, <2>6
  <2> QED
    BY <2>7, <2>8 DEF LossReportIsSkipped
<1> QED
  BY <1>1, <1>2

LEMMA LossNext == LossInv /\ [MacNext]_macVars => LossInv'
<1> SUFFICES ASSUME LossInv, [MacNext]_macVars PROVE LossInv'
  OBVIOUS
<1> USE DEF LossInv
<1>0. MacTypeOK'
  BY MacNextType
<1>1. ASSUME NEW c \in Controllers, ReceivePdu(c)
      PROVE  (LossReportIsSkipped /\ RxCounterIsLast)'
  BY <1>1, LossUnchanged DEF ReceivePdu, HandleLlcMsg
<1>2. ASSUME NEW c \in Controllers, ReceiveFrame(c)
      PROVE  (LossReportIsSkipped /\ RxCounterIsLast)'
  <2>0. PICK s \in Controllers :
          \E i \in DOMAIN phyOut[s], ticks \in Ticks : Reception(c, phyOut[s][i], ticks)
    BY <1>2 DEF ReceiveFrame
  <2>1. PICK i \in DOMAIN phyOut[s], ticks \in Ticks : Reception(c, phyOut[s][i], ticks)
    BY <2>0
  <2>2. phyOut[s][i] \in Frame
    BY DEF MacTypeOK
  <2>3. CASE HandlePhyMsg(c, phyOut[s][i], TRUE, ticks)
    BY <2>2, <2>3, LossHandlePhyMsg
  <2>4. ASSUME NEW header \in Damaged(phyOut[s][i].header),
               HandlePhyMsg(c, [phyOut[s][i] EXCEPT !.header = header], FALSE, ticks)
        PROVE  (LossReportIsSkipped /\ RxCounterIsLast)'
    BY <2>2, <2>4, DamagedType, LossHandlePhyMsg
  <2> QED
    BY <2>1, <2>3, <2>4 DEF Reception
<1>3. ASSUME NEW c \in ReplayUsers, NEW activate \in BOOLEAN, ActivateReplayMode(c, activate)
      PROVE  (LossReportIsSkipped /\ RxCounterIsLast)'
  BY <1>3, LossUnchanged DEF ActivateReplayMode, counters, outputs
<1>4. ASSUME UNCHANGED macVars
      PROVE  (LossReportIsSkipped /\ RxCounterIsLast)'
  BY <1>4, LossUnchanged DEF macVars, counters, outputs
<1>5. (LossReportIsSkipped /\ RxCounterIsLast)'
  BY <1>1, <1>2, <1>3, <1>4 DEF MacNext
<1> QED
  BY <1>0, <1>5

\* However the radio loses, repeats and reorders frames, the number of lost packets
\* a controller reports is the number of sequence numbers it skipped.
THEOREM LossReport == MacSpec => []LossReportIsSkipped
<1>1. MacInit => LossInv
  <2> SUFFICES ASSUME MacInit PROVE LossReportIsSkipped /\ RxCounterIsLast
    BY MacInitType DEF LossInv
  <2> QED
    BY DEF MacInit, LossReportIsSkipped, RxCounterIsLast
<1>2. LossInv /\ [MacNext]_macVars => LossInv'
  BY LossNext
<1>3. LossInv => LossReportIsSkipped
  BY DEF LossInv
<1> QED
  BY <1>1, <1>2, <1>3, PTL DEF MacSpec

-----------------------------------------------------------------------------
(***************************************************************************)
(* Delivery.  Every published frame carries its sender's pair of           *)
(* identifiers and the size of its data; an intact frame that passes the   *)
(* test therefore comes from the peer and is cut where it was filled up.   *)
(***************************************************************************)
WellFormed(c, f) ==
    /\ f.header.dst = DstId(c) /\ f.header.src = SrcId(c)
    /\ f.header.payload_size = f.data.size

FramesWellFormed ==
    \A c \in Controllers : \A i \in DOMAIN phyOut[c] : WellFormed(c, phyOut[c][i])

DeliveryInv == MacTypeOK /\ FramesWellFormed /\ DeliveredWasSent

LEMMA ByteRemainder == ASSUME NEW n \in 0 .. Byte - 1 PROVE n % Byte = n
<1>1. 0 * Byte + n = n
  BY WidthTypes
<1> QED
  BY <1>1, WidthTypes, RemainderOf

LEMMA ProperIds ==
    ASSUME ProperConfiguration
    PROVE  \A c \in Controllers : SrcId(c) \in 0 .. Byte - 1 /\ DstId(c) \in 0 .. Byte - 1
<1> SUFFICES ASSUME NEW c \in Controllers
             PROVE  SrcId(c) \in 0 .. Byte - 1 /\ DstId(c) \in 0 .. Byte - 1
  OBVIOUS
<1>1. c \in (0 .. Byte - 1) \X (0 .. Byte - 1)
  BY DEF ProperConfiguration
<1> QED
  BY <1>1 DEF SrcId, DstId

\* A controller that lets an intact, well-formed frame pass is the peer of its sender.
LEMMA AcceptedIsFromPeer ==
    ASSUME NEW c \in Controllers, NEW s \in Controllers, NEW f \in Frame,
           WellFormed(s, f), Accepts(c, f, TRUE)
    PROVE  s = Peer(c)
<1>1. f.header.src = DstId(c) /\ f.header.dst = SrcId(c)
  BY DEF Accepts, CheckPhyPacket
<1>2. s = <<DstId(c), SrcId(c)>>
  BY <1>1, ControllerTypes DEF WellFormed
<1> QED
  BY <1>2 DEF Peer, SrcId, DstId

LEMMA FrameForWellFormed ==
    ASSUME ProperConfiguration, MacTypeOK, NEW c \in Controllers, NEW pdu \in Pdu,
           NEW ticks \in Ticks, pdu.size <= MTU
    PROVE  WellFormed(c, FrameFor(c, pdu, ticks))
<1>1. /\ SrcId(c) % Byte = SrcId(c) /\ DstId(c) % Byte = DstId(c)
  BY ProperIds, ByteRemainder
<1>2. MTU \in 0 .. Byte - 1 /\ pdu.size \in 0 .. Byte - 1
  BY ControllerTypes, WidthTypes DEF ProperConfiguration, Pdu
<1>3. MTU % Byte = MTU /\ pdu.size % Byte = pdu.size
  BY <1>2, ByteRemainder
<1>4. ReplayPattern(c).size = MTU
  BY DEF ReplayPattern
<1> QED
  BY <1>1, <1>3, <1>4 DEF WellFormed, FrameFor, CreateHeader

LEMMA CutWhole == ASSUME NEW data \in Pdu PROVE Cut(data, data.size) = data
BY DEF Cut, Pdu

LEMMA DeliveryUnchanged ==
    ASSUME DeliveryInv, UNCHANGED <<phyOut, llcOut>>
    PROVE  (FramesWellFormed /\ DeliveredWasSent)'
<1>1. FramesWellFormed'
  BY DEF DeliveryInv, FramesWellFormed, WellFormed
<1>2. DeliveredWasSent'
  BY DEF DeliveryInv, DeliveredWasSent
<1> QED
  BY <1>1, <1>2

LEMMA DeliveryHandleLlcMsg ==
    ASSUME ProperConfiguration, DeliveryInv, NEW c \in Controllers, NEW pdu \in Pdu,
           NEW ticks \in Ticks, HandleLlcMsg(c, pdu, ticks)
    PROVE  (FramesWellFormed /\ DeliveredWasSent)'
<1> DEFINE frame == FrameFor(c, pdu, ticks)
           n == Len(phyOut[c])
           out == Append(phyOut[c], frame)
<1>0. /\ llcOut' = llcOut
      /\ phyOut \in [Controllers -> Seq(Frame)] /\ phyOut[c] \in Seq(Frame) /\ n \in Nat
      /\ pdu.size \in Nat /\ MTU \in Nat
  <2>1. llcOut' = llcOut
    BY DEF HandleLlcMsg
  <2>2. phyOut \in [Controllers -> Seq(Frame)]
    BY DEF DeliveryInv, MacTypeOK
  <2>3. phyOut[c] \in Seq(Frame) /\ n \in Nat
    BY <2>2
  <2> QED
    BY <2>1, <2>2, <2>3, ControllerTypes DEF Pdu
<1>1. CASE pdu.size > MTU
  BY <1>0, <1>1, DeliveryUnchanged DEF HandleLlcMsg, TooLarge
<1>2. CASE pdu.size <= MTU
  <2>1. frame \in Frame /\ WellFormed(c, frame)
    BY <1>0, <1>2, FrameForType, FrameForWellFormed DEF DeliveryInv
  <2>2. phyOut' = [phyOut EXCEPT ![c] = out]
    BY <1>0, <1>2 DEF HandleLlcMsg, TooLarge
  <2> HIDE DEF frame
  <2>3. /\ out[n + 1] = frame
        /\ DOMAIN out = 1 .. n + 1 /\ DOMAIN phyOut[c] = 1 .. n
        /\ \A i \in 1 .. n : out[i] = phyOut[c][i]
    BY <1>0, <2>1, AppendFacts
  <2>4. /\ phyOut'[c] = out
        /\ \A d \in Controllers \ {c} : phyOut'[d] = phyOut[d]
    BY <1>0, <2>2
  <2> HIDE DEF out
  <2>5. ASSUME NEW d \in Controllers, NEW i \in DOMAIN phyOut'[d]
        PROVE  WellFormed(d, phyOut'[d][i])
    <3>1. CASE d # c
      BY <3>1, <2>4 DEF DeliveryInv, FramesWellFormed
    <3>2. CASE d = c /\ i \in 1 .. n
      BY <3>2, <2>3, <2>4 DEF DeliveryInv, FramesWellFormed
    <3>3. CASE d = c /\ i = n + 1
      BY <3>3, <2>1, <2>3, <2>4
    <3> QED
      BY <3>1, <3>2, <3>3, <1>0, <2>3, <2>4
  <2>6. FramesWellFormed'
    BY <2>5 DEF FramesWellFormed, WellFormed
  <2>7. ASSUME NEW d \in Controllers, NEW i \in DOMAIN llcOut[d]
        PROVE  \E j \in DOMAIN phyOut'[Peer(d)] : llcOut[d][i].data = phyOut'[Peer(d)][j].data
    <3>1. PICK j \in DOMAIN phyOut[Peer(d)] : llcOut[d][i].data = phyOut[Peer(d)][j].data
      BY DEF DeliveryInv, DeliveredWasSent
    <3>2. CASE Peer(d) = c
      BY <3>1, <3>2, <2>3, <2>4, <1>0
    <3>3. CASE Peer(d) # c
      BY <3>1, <3>3, <2>2
    <3> QED
      BY <3>2, <3>3
  <2>8. DeliveredWasSent'
    BY <2>7, <1>0 DEF DeliveredWasSent
  <2> QED
    BY <2>6, <2>8
<1> QED
  BY <1>0, <1>1, <1>2

LEMMA DeliveryHandlePhyMsg ==
    ASSUME DeliveryInv, NEW c \in Controllers, NEW s \in Controllers,
           NEW k \in DOMAIN phyOut[s], NEW ticks \in Ticks,
           HandlePhyMsg(c, phyOut[s][k], TRUE, ticks)
    PROVE  (FramesWellFormed /\ DeliveredWasSent)'
<1> DEFINE frame == phyOut[s][k]
           msg == PduFrom(c, frame, ticks)
           n == Len(llcOut[c])
           out == Append(llcOut[c], msg)
<1>0. frame \in Frame /\ WellFormed(s, frame)
  BY DEF DeliveryInv, MacTypeOK, FramesWellFormed
<1>1. CASE ~Accepts(c, frame, TRUE)
  BY <1>1, DeliveryUnchanged DEF HandlePhyMsg, macVars, outputs
<1>2. CASE Accepts(c, frame, TRUE)
  <2>1. s = Peer(c)
    BY <1>0, <1>2, AcceptedIsFromPeer
  <2>2. msg.data = frame.data
    <3>1. frame.data \in Pdu /\ frame.header.payload_size = frame.data.size
      BY <1>0 DEF Frame, WellFormed
    <3> QED
      BY <3>1, CutWhole DEF PduFrom
  <2>3. /\ llcOut' = [llcOut EXCEPT ![c] = out] /\ phyOut' = phyOut
        /\ llcOut \in [Controllers -> Seq(LlcMessage)]
        /\ llcOut[c] \in Seq(LlcMessage) /\ n \in Nat
    BY <1>2, SMTT(30) DEF HandlePhyMsg, DeliveryInv, MacTypeOK
  <2>4. msg \in LlcMessage
    BY <1>0, PduFromType DEF DeliveryInv
  <2> HIDE DEF msg
  <2>5. /\ out[n + 1] = msg
        /\ DOMAIN out = 1 .. n + 1 /\ DOMAIN llcOut[c] = 1 .. n
        /\ \A i \in 1 .. n : out[i] = llcOut[c][i]
    BY <2>3, <2>4, AppendFacts
  <2>6. /\ llcOut'[c] = out
        /\ \A d \in Controllers \ {c} : llcOut'[d] = llcOut[d]
    BY <2>3
  <2> HIDE DEF out
  <2>7. ASSUME NEW d \in Controllers, NEW i \in DOMAIN llcOut'[d]
        PROVE  \E j \in DOMAIN phyOut[Peer(d)] : llcOut'[d][i].data = phyOut[Peer(d)][j].data
    <3>1. CASE d # c
      BY <3>1, <2>6 DEF DeliveryInv, DeliveredWasSent
    <3>2. CASE d = c /\ i \in 1 .. n
      BY <3>2, <2>5, <2>6 DEF DeliveryInv, DeliveredWasSent
    <3>3. CASE d = c /\ i = n + 1
      BY <3>3, <2>1, <2>2, <2>5, <2>6
    <3> QED
      BY <3>1, <3>2, <3>3, <2>3, <2>5, <2>6
  <2>8. DeliveredWasSent'
    BY <2>7, <2>3 DEF DeliveredWasSent
  <2>9. FramesWellFormed'
    BY <2>3 DEF DeliveryInv, FramesWellFormed, WellFormed
  <2> QED
    BY <2>8, <2>9
<1> QED
  BY <1>1, <1>2

LEMMA DamagedIsRejected ==
    ASSUME NEW c, NEW frame, NEW ticks, HandlePhyMsg(c, frame, FALSE, ticks)
    PROVE  UNCHANGED macVars
<1>1. ~Accepts(c, frame, FALSE)
  BY DEF Accepts, CheckPhyPacket
<1> QED
  BY <1>1 DEF HandlePhyMsg

LEMMA DeliveryNext ==
    ASSUME ProperConfiguration
    PROVE  DeliveryInv /\ [MacNext]_macVars => DeliveryInv'
<1> SUFFICES ASSUME DeliveryInv, [MacNext]_macVars PROVE DeliveryInv'
  OBVIOUS
<1>0. MacTypeOK /\ MacTypeOK'
  BY MacNextType DEF DeliveryInv
<1>1. ASSUME NEW c \in Controllers, ReceivePdu(c)
      PROVE  (FramesWellFormed /\ DeliveredWasSent)'
  <2>1. PICK size \in PduSizes, ticks \in Ticks :
          HandleLlcMsg(c, [origin |-> c, rank |-> llc[c].total + 1, size |-> size], ticks)
    BY <1>1 DEF ReceivePdu
  <2>2. [origin |-> c, rank |-> llc[c].total + 1, size |-> size] \in Pdu
    <3>1. llc[c].total \in Nat
      BY <1>0 DEF MacTypeOK, LlcCounters
    <3>2. size \in Nat
      BY ControllerTypes
    <3> QED
      BY <3>1, <3>2 DEF Pdu
  <2> QED
    BY <2>1, <2>2, DeliveryHandleLlcMsg
<1>2. ASSUME NEW c \in Controllers, ReceiveFrame(c)
      PROVE  (FramesWellFormed /\ DeliveredWasSent)'
  <2>0. PICK s \in Controllers :
          \E i \in DOMAIN phyOut[s], ticks \in Ticks : Reception(c, phyOut[s][i], ticks)
    BY <1>2 DEF ReceiveFrame
  <2>1. PICK i \in DOMAIN phyOut[s], ticks \in Ticks : Reception(c, phyOut[s][i], ticks)
    BY <2>0
  <2>2. CASE HandlePhyMsg(c, phyOut[s][i], TRUE, ticks)
    BY <2>2, DeliveryHandlePhyMsg
  <2>3. ASSUME NEW header \in Damaged(phyOut[s][i].header),
               HandlePhyMsg(c, [phyOut[s][i] EXCEPT !.header = header], FALSE, ticks)
        PROVE  (FramesWellFormed /\ DeliveredWasSent)'
    <3>1. UNCHANGED macVars
      BY <2>3, DamagedIsRejected
    <3> QED
      BY <3>1, DeliveryUnchanged DEF macVars, outputs
  <2> QED
    BY <2>1, <2>2, <2>3 DEF Reception
<1>3. ASSUME NEW c \in ReplayUsers, NEW activate \in BOOLEAN, ActivateReplayMode(c, activate)
      PROVE  (FramesWellFormed /\ DeliveredWasSent)'
  BY <1>3, DeliveryUnchanged DEF ActivateReplayMode, outputs
<1>4. ASSUME UNCHANGED macVars
      PROVE  (FramesWellFormed /\ DeliveredWasSent)'
  BY <1>4, DeliveryUnchanged DEF macVars, outputs
<1>5. (FramesWellFormed /\ DeliveredWasSent)'
  BY <1>1, <1>2, <1>3, <1>4 DEF MacNext
<1> QED
  BY <1>0, <1>5 DEF DeliveryInv

\* With identifiers and MTU in [0, 256) a controller delivers only what its peer
\* published, unchanged, whatever reaches its port PHYin.  With the value 256, which
\* the constructor accepts too, this fails.
THEOREM Delivery ==
    ASSUME ProperConfiguration
    PROVE  MacSpec => []DeliveredWasSent
<1>1. MacInit => DeliveryInv
  <2> SUFFICES ASSUME MacInit PROVE FramesWellFormed /\ DeliveredWasSent
    BY MacInitType DEF DeliveryInv
  <2> QED
    BY DEF MacInit, FramesWellFormed, DeliveredWasSent
<1>2. DeliveryInv /\ [MacNext]_macVars => DeliveryInv'
  BY DeliveryNext
<1>3. DeliveryInv => DeliveredWasSent
  BY DEF DeliveryInv
<1> QED
  BY <1>1, <1>2, <1>3, PTL DEF MacSpec

-----------------------------------------------------------------------------
(***************************************************************************)
(* Sequence numbers.  The transmitter's counter is the number of PDUs that *)
(* came in, reduced; a frame is numbered before the counter moves on.      *)
(***************************************************************************)
TxCounterIsTotal ==
    \A c \in Controllers : d_tx_frame_counter[c] = llc[c].total % FrameCounterMax

SequenceInv == MacTypeOK /\ SequenceCountsPdus /\ TxCounterIsTotal

LEMMA NextOfRemainder ==
    ASSUME NEW n \in Nat
    PROVE  (n + 1) % FrameCounterMax = NextFrameCounter(n % FrameCounterMax)
<1> DEFINE m == FrameCounterMax
           q == n \div m
           r == n % m
<1>1. /\ m \in Nat \ {0} /\ q \in Int /\ r \in 0 .. m - 1
      /\ n = q * m + r /\ 0 \in 0 .. m - 1
  BY WidthTypes, SMT
<1>2. NextFrameCounter(r) = IF r + 1 = m THEN 0 ELSE r + 1
  BY <1>1, NextFrameCounterType
<1>3. CASE r + 1 = m
  <2>1. n + 1 = (q + 1) * m + 0 /\ q + 1 \in Int
    BY <1>1, <1>3, SMT
  <2>2. ((q + 1) * m + 0) % m = 0
    BY <1>1, <2>1, RemainderOf
  <2> QED
    BY <1>2, <1>3, <2>1, <2>2
<1>4. CASE r + 1 # m
  <2>1. n + 1 = q * m + (r + 1) /\ r + 1 \in 0 .. m - 1
    BY <1>1, <1>4, SMT
  <2>2. (q * m + (r + 1)) % m = r + 1
    BY <1>1, <2>1, RemainderOf
  <2> QED
    BY <1>2, <1>4, <2>1, <2>2
<1> QED
  BY <1>3, <1>4

LEMMA SequenceUnchanged ==
    ASSUME SequenceInv, UNCHANGED <<phyOut, d_tx_frame_counter, llc>>
    PROVE  (SequenceCountsPdus /\ TxCounterIsTotal)'
BY DEF SequenceInv, SequenceCountsPdus, TxCounterIsTotal

\* Every PDU is counted and takes a number, dropped or not.
LEMMA TxCounterHandleLlcMsg ==
    ASSUME SequenceInv, NEW c \in Controllers, NEW pdu \in Pdu, NEW ticks \in Ticks,
           HandleLlcMsg(c, pdu, ticks)
    PROVE  TxCounterIsTotal'
<1>0. /\ d_tx_frame_counter \in [Controllers -> 0 .. FrameCounterMax - 1]
      /\ llc \in [Controllers -> LlcCounters] /\ llc[c].total \in Nat
  BY DEF SequenceInv, MacTypeOK, LlcCounters
<1>1. d_tx_frame_counter' = [d_tx_frame_counter EXCEPT ![c] = NextFrameCounter(@)]
  BY DEF HandleLlcMsg
<1>2. PICK side : llc' = [llc EXCEPT ![c] = side] /\ side.total = llc[c].total + 1
  <2>1. /\ LlcCounted(c, pdu, ticks).total = llc[c].total + 1
        /\ LlcReset(LlcCounted(c, pdu, ticks), ticks).total = llc[c].total + 1
    BY DEF LlcCounted, LlcReset
  <2>2. \/ llc' = [llc EXCEPT ![c] = LlcCounted(c, pdu, ticks)]
        \/ llc' = [llc EXCEPT ![c] = LlcReset(LlcCounted(c, pdu, ticks), ticks)]
    BY DEF HandleLlcMsg, PrintLlcStatus
  <2> QED
    BY <2>1, <2>2
<1>3. SUFFICES ASSUME NEW d \in Controllers
               PROVE  d_tx_frame_counter'[d] = llc'[d].total % FrameCounterMax
  BY DEF TxCounterIsTotal
<1>4. d_tx_frame_counter[d] = llc[d].total % FrameCounterMax
  BY DEF SequenceInv, TxCounterIsTotal
<1>5. CASE d = c
  BY <1>0, <1>1, <1>2, <1>4, <1>5, NextOfRemainder
<1>6. CASE d # c
  BY <1>0, <1>1, <1>2, <1>4, <1>6
<1> QED
  BY <1>5, <1>6

\* The number of the frame for the PDU that comes in next.
LEMMA FrameForSequence ==
    ASSUME SequenceInv, NEW c \in Controllers, NEW pdu \in Pdu, NEW ticks \in Ticks,
           pdu.rank = llc[c].total + 1, FrameFor(c, pdu, ticks).data.rank # 0
    PROVE  /\ FrameFor(c, pdu, ticks).data.rank = llc[c].total + 1
           /\ FrameFor(c, pdu, ticks).header.sequence = llc[c].total % FrameCounterMax
<1>1. ~d_replay_mode_active[c]
  BY DEF FrameFor, ReplayPattern
<1>2. /\ FrameFor(c, pdu, ticks).data = pdu
      /\ FrameFor(c, pdu, ticks).header.sequence = d_tx_frame_counter[c] % Word
  BY <1>1 DEF FrameFor, CreateHeader
<1>3. d_tx_frame_counter[c] \in 0 .. Word - 1
  BY WidthTypes DEF SequenceInv, MacTypeOK, FrameCounterMax
<1>4. d_tx_frame_counter[c] % Word = d_tx_frame_counter[c]
  BY <1>3, WidthTypes, RemainderOf, 0 * Word + d_tx_frame_counter[c] = d_tx_frame_counter[c]
<1> QED
  BY <1>2, <1>4 DEF SequenceInv, TxCounterIsTotal

LEMMA SequenceHandleLlcMsg ==
    ASSUME SequenceInv, NEW c \in Controllers, NEW pdu \in Pdu, NEW ticks \in Ticks,
           pdu.rank = llc[c].total + 1, HandleLlcMsg(c, pdu, ticks)
    PROVE  SequenceCountsPdus'
<1> DEFINE frame == FrameFor(c, pdu, ticks)
           n == Len(phyOut[c])
           out == Append(phyOut[c], frame)
<1>0. /\ phyOut \in [Controllers -> Seq(Frame)] /\ phyOut[c] \in Seq(Frame)
      /\ n \in Nat /\ llc[c].total \in Nat
  BY SMTT(30) DEF SequenceInv, MacTypeOK, LlcCounters
<1>1. CASE TooLarge(pdu)
  BY <1>1 DEF HandleLlcMsg, SequenceInv, SequenceCountsPdus
<1>2. CASE ~TooLarge(pdu)
  <2>1. frame \in Frame
    <3>1. pdu.size \in Nat /\ MTU \in Nat
      BY ControllerTypes DEF Pdu
    <3> QED
      BY <1>2, <3>1, FrameForType DEF SequenceInv, TooLarge
  <2>2. phyOut' = [phyOut EXCEPT ![c] = out]
    BY <1>2 DEF HandleLlcMsg
  <2>3. frame.data.rank # 0 =>
           frame.header.sequence = (frame.data.rank - 1) % FrameCounterMax
    <3> SUFFICES ASSUME frame.data.rank # 0
                 PROVE  frame.header.sequence = (frame.data.rank - 1) % FrameCounterMax
      OBVIOUS
    <3>1. /\ frame.data.rank = llc[c].total + 1
          /\ frame.header.sequence = llc[c].total % FrameCounterMax
      BY FrameForSequence
    <3>2. (llc[c].total + 1) - 1 = llc[c].total
      BY <1>0
    <3> QED
      BY <3>1, <3>2
  <2> HIDE DEF frame
  <2>4. /\ out[n + 1] = frame
        /\ DOMAIN out = 1 .. n + 1 /\ DOMAIN phyOut[c] = 1 .. n
        /\ \A i \in 1 .. n : out[i] = phyOut[c][i]
    BY <1>0, <2>1, AppendFacts
  <2>5. /\ phyOut'[c] = out
        /\ \A d \in Controllers \ {c} : phyOut'[d] = phyOut[d]
    BY <1>0, <2>2
  <2> HIDE DEF out
  <2>6. ASSUME NEW d \in Controllers, NEW i \in DOMAIN phyOut'[d], phyOut'[d][i].data.rank # 0
        PROVE  phyOut'[d][i].header.sequence = (phyOut'[d][i].data.rank - 1) % FrameCounterMax
    <3>1. CASE d # c
      BY <2>6, <3>1, <2>5 DEF SequenceInv, SequenceCountsPdus
    <3>2. CASE d = c /\ i \in 1 .. n
      BY <2>6, <3>2, <2>4, <2>5 DEF SequenceInv, SequenceCountsPdus
    <3>3. CASE d = c /\ i = n + 1
      BY <2>6, <3>3, <2>3, <2>4, <2>5
    <3> QED
      BY <3>1, <3>2, <3>3, <1>0, <2>4, <2>5
  <2> QED
    BY <2>6 DEF SequenceCountsPdus
<1> QED
  BY <1>1, <1>2

LEMMA SequenceNext == SequenceInv /\ [MacNext]_macVars => SequenceInv'
<1> SUFFICES ASSUME SequenceInv, [MacNext]_macVars PROVE SequenceInv'
  OBVIOUS
<1>0. MacTypeOK /\ MacTypeOK'
  BY MacNextType DEF SequenceInv
<1>1. ASSUME NEW c \in Controllers, ReceivePdu(c)
      PROVE  (SequenceCountsPdus /\ TxCounterIsTotal)'
  <2>1. PICK size \in PduSizes, ticks \in Ticks :
          HandleLlcMsg(c, [origin |-> c, rank |-> llc[c].total + 1, size |-> size], ticks)
    BY <1>1 DEF ReceivePdu
  <2>2. [origin |-> c, rank |-> llc[c].total + 1, size |-> size] \in Pdu
    <3>1. llc[c].total \in Nat /\ size \in Nat
      BY <1>0, ControllerTypes DEF MacTypeOK, LlcCounters
    <3> QED
      BY <3>1 DEF Pdu
  <2> QED
    BY <2>1, <2>2, SequenceHandleLlcMsg, TxCounterHandleLlcMsg
<1>2. ASSUME NEW c, NEW frame, NEW intact, NEW ticks, HandlePhyMsg(c, frame, intact, ticks)
      PROVE  (SequenceCountsPdus /\ TxCounterIsTotal)'
  <2>1. UNCHANGED <<phyOut, d_tx_frame_counter, llc>>
    BY <1>2 DEF HandlePhyMsg, macVars, counters, status, outputs
  <2> QED
    BY <2>1, SequenceUnchanged
<1>3. ASSUME NEW c \in Controllers, ReceiveFrame(c)
      PROVE  (SequenceCountsPdus /\ TxCounterIsTotal)'
  BY <1>2, <1>3 DEF ReceiveFrame, Reception
<1>4. ASSUME NEW c \in ReplayUsers, NEW activate \in BOOLEAN, ActivateReplayMode(c, activate)
      PROVE  (SequenceCountsPdus /\ TxCounterIsTotal)'
  BY <1>4, SequenceUnchanged DEF ActivateReplayMode, counters, status, outputs
<1>5. ASSUME UNCHANGED macVars
      PROVE  (SequenceCountsPdus /\ TxCounterIsTotal)'
  BY <1>5, SequenceUnchanged DEF macVars, counters, status, outputs
<1>6. (SequenceCountsPdus /\ TxCounterIsTotal)'
  BY <1>1, <1>3, <1>4, <1>5 DEF MacNext
<1> QED
  BY <1>0, <1>6 DEF SequenceInv

\* The sequence number of every published frame is the rank of its PDU among all that
\* came in at LLCin, reduced modulo 2^16 - 1: PDUs dropped for their size and those
\* replaced in replay mode take a number too (handle_llc_msg).
THEOREM Sequence == MacSpec => []SequenceCountsPdus
<1>1. MacInit => SequenceInv
  <2> SUFFICES ASSUME MacInit PROVE SequenceCountsPdus /\ TxCounterIsTotal
    BY MacInitType DEF SequenceInv
  <2>1. 0 % FrameCounterMax = 0
    BY WidthTypes, RemainderOf, 0 * FrameCounterMax + 0 = 0
  <2> QED
    BY <2>1 DEF MacInit, SequenceCountsPdus, TxCounterIsTotal
<1>2. SequenceInv /\ [MacNext]_macVars => SequenceInv'
  BY SequenceNext
<1>3. SequenceInv => SequenceCountsPdus
  BY DEF SequenceInv
<1> QED
  BY <1>1, <1>2, <1>3, PTL DEF MacSpec

-----------------------------------------------------------------------------
(***************************************************************************)
(* Status lines.  What a sum yields is an induction over its length: if it *)
(* were wrong, it would be wrong at a first place.                         *)
(***************************************************************************)
\* A set of numbers that is not empty has a least one.
LEMMA SmallestExists ==
    ASSUME NEW S, S \subseteq Nat, S # {}
    PROVE  \E x \in S : \A y \in S : x <= y
<1> DEFINE Less == OpToRel(<, Nat)
<1>1. IsWellFoundedOn(Less, Nat)
  BY NatLessThanWellFounded
<1>2. PICK x \in S : \A y \in S : <<y, x>> \notin Less
  <2> HIDE DEF Less
  <2> QED
    BY <1>1, WFMin
<1>3. ASSUME NEW y \in S PROVE x <= y
  <2>1. x \in Nat /\ y \in Nat /\ <<y, x>> \notin Less
    BY <1>2
  <2>2. ~(y < x)
    BY <2>1 DEF OpToRel
  <2>3. \A m, n \in Nat : ~(n < m) => m <= n
    OBVIOUS
  <2> QED
    BY <2>1, <2>2, <2>3
<1> QED
  BY <1>3

\* f has the sums of the values up to each place up to n.
Sums(v, n, f) == f = [i \in 0 .. n |-> IF i = 0 THEN 0 ELSE f[i - 1] + v[i]]

\* They exist, although they are defined by themselves.
LEMMA SumsExist ==
    ASSUME NEW v \in Seq(Nat), NEW n \in 0 .. Len(v)
    PROVE  \E f : Sums(v, n, f)
<1> DEFINE bad == { k \in 0 .. n : ~\E f : Sums(v, k, f) }
<1>1. bad \subseteq Nat /\ n \in Nat
  OBVIOUS
<1>2. SUFFICES ASSUME bad # {} PROVE FALSE
  <2>1. n \in 0 .. n
    BY <1>1
  <2> QED
    BY <2>1
<1>3. PICK k \in bad : \A j \in bad : k <= j
  <2> HIDE DEF bad
  <2> QED
    BY <1>1, <1>2, SmallestExists
<1>4. k \in 0 .. n /\ ~\E f : Sums(v, k, f)
  OBVIOUS
<1>5. CASE k = 0
  <2> DEFINE g == [i \in 0 .. 0 |-> 0]
  <2>1. g = [i \in 0 .. k |-> IF i = 0 THEN 0 ELSE g[i - 1] + v[i]]
    BY <1>5
  <2> QED
    BY <2>1, <1>4 DEF Sums
<1>6. CASE k # 0
  <2>1. k - 1 \in 0 .. n /\ k - 1 \notin bad
    BY <1>1, <1>3, <1>4, <1>6
  <2>2. PICK f : Sums(v, k - 1, f)
    BY <2>1
  <2> DEFINE g == [i \in 0 .. k |-> IF i = k THEN f[k - 1] + v[k] ELSE f[i]]
  <2>3. ASSUME NEW i \in 0 .. k
        PROVE  g[i] = IF i = 0 THEN 0 ELSE g[i - 1] + v[i]
    <3>1. CASE i = k
      BY <1>1, <1>4, <1>6, <3>1
    <3>2. CASE i # k
      <4>1. i \in 0 .. k - 1 /\ g[i] = f[i] /\ i # 0 => i - 1 \in 0 .. k /\ i - 1 # k
        BY <1>4, <3>2
      <4>2. f[i] = IF i = 0 THEN 0 ELSE f[i - 1] + v[i]
        BY <2>2, <3>2, <1>4 DEF Sums
      <4> QED
        BY <3>2, <1>4, <4>1, <4>2
    <3> QED
      BY <3>1, <3>2
  <2>4. g = [i \in 0 .. k |-> IF i = 0 THEN 0 ELSE g[i - 1] + v[i]]
    <3>1. g = [i \in 0 .. k |-> g[i]]
      OBVIOUS
    <3> HIDE DEF g
    <3> QED
      BY <2>3, <3>1
  <2> QED
    BY <2>4, <1>4 DEF Sums
<1> QED
  BY <1>5, <1>6

LEMMA SumOfIsLast ==
    ASSUME NEW v \in Seq(Nat)
    PROVE  \E f : Sums(v, Len(v), f) /\ SumOf(v) = f[Len(v)]
<1>1. Len(v) \in 0 .. Len(v)
  OBVIOUS
<1>2. \E f : Sums(v, Len(v), f)
  BY <1>1, SumsExist
<1> DEFINE h == CHOOSE f : Sums(v, Len(v), f)
<1>3. Sums(v, Len(v), h)
  BY <1>2
<1>4. SumOf(v) = h[Len(v)]
  BY DEF SumOf, Sums
<1> QED
  BY <1>3, <1>4

\* The sums up to each place are numbers, and those of the same values are the same.
LEMMA SumsAgree ==
    ASSUME NEW v \in Seq(Nat), NEW w \in Seq(Nat), NEW m \in 0 .. Len(w), NEW n \in 0 .. Len(v), n <= m,
           \A i \in 1 .. n : v[i] = w[i],
           NEW f, Sums(v, n, f), NEW g, Sums(w, m, g)
    PROVE  \A i \in 0 .. n : f[i] = g[i] /\ f[i] \in Nat
<1> DEFINE bad == { k \in 0 .. n : ~(f[k] = g[k] /\ f[k] \in Nat) }
<1>1. bad \subseteq Nat /\ n \in Nat /\ m \in Nat
  OBVIOUS
<1>2. SUFFICES ASSUME bad # {} PROVE FALSE
  OBVIOUS
<1>3. PICK k \in bad : \A j \in bad : k <= j
  <2> HIDE DEF bad
  <2> QED
    BY <1>1, <1>2, SmallestExists
<1>4. k \in 0 .. n /\ k \in 0 .. m /\ ~(f[k] = g[k] /\ f[k] \in Nat)
  BY <1>1
<1>5. /\ f[k] = IF k = 0 THEN 0 ELSE f[k - 1] + v[k]
      /\ g[k] = IF k = 0 THEN 0 ELSE g[k - 1] + w[k]
  BY <1>4 DEF Sums
<1>6. CASE k # 0
  <2>1. k - 1 \in 0 .. n /\ k - 1 \notin bad /\ k \in 1 .. n /\ k \in 1 .. Len(v)
    BY <1>1, <1>3, <1>4, <1>6
  <2>2. f[k - 1] = g[k - 1] /\ f[k - 1] \in Nat
    BY <2>1
  <2>3. v[k] = w[k] /\ v[k] \in Nat
    BY <2>1, SMTT(30)
  <2>4. f[k] = f[k - 1] + v[k] /\ g[k] = g[k - 1] + w[k]
    BY <1>5, <1>6
  <2>5. f[k] = g[k]
    BY <2>2, <2>3, <2>4, Zenon
  <2>6. f[k] \in Nat
    <3> DEFINE before == f[k - 1]
               value == v[k]
    <3>1. before \in Nat /\ value \in Nat /\ f[k] = before + value
      BY <2>2, <2>3, <2>4
    <3> HIDE DEF before, value, bad
    <3> QED
      BY <3>1
  <2> QED
    BY <1>4, <2>5, <2>6
<1> QED
  BY <1>4, <1>5, <1>6

\* The sum of a sequence is a number, nothing for an empty one, and grows with what is
\* appended.
LEMMA SumOfFacts ==
    /\ SumOf(<<>>) = 0
    /\ \A v \in Seq(Nat) : SumOf(v) \in Nat
    /\ \A v \in Seq(Nat), x \in Nat : SumOf(Append(v, x)) = SumOf(v) + x
<1>1. ASSUME NEW v \in Seq(Nat) PROVE SumOf(v) \in Nat
  <2>1. PICK f : Sums(v, Len(v), f) /\ SumOf(v) = f[Len(v)]
    BY SumOfIsLast
  <2>2. Len(v) \in 0 .. Len(v) /\ Len(v) <= Len(v) /\ \A i \in 1 .. Len(v) : v[i] = v[i]
    OBVIOUS
  <2>3. \A i \in 0 .. Len(v) : f[i] = f[i] /\ f[i] \in Nat
    BY <2>1, <2>2, SumsAgree
  <2> QED
    BY <2>1, <2>2, <2>3
<1>2. ASSUME NEW v \in Seq(Nat), NEW x \in Nat PROVE SumOf(Append(v, x)) = SumOf(v) + x
  <2> DEFINE w == Append(v, x)
             n == Len(v)
  <2>1. w \in Seq(Nat) /\ Len(w) = n + 1 /\ n \in Nat /\ w[n + 1] = x /\ \A i \in 1 .. n : v[i] = w[i]
    OBVIOUS
  <2>2. PICK f : Sums(v, n, f) /\ SumOf(v) = f[n]
    BY SumOfIsLast
  <2> HIDE DEF w
  <2>3. PICK g : Sums(w, Len(w), g) /\ SumOf(w) = g[Len(w)]
    BY <2>1, SumOfIsLast
  <2>4. n \in 0 .. n /\ Len(w) \in 0 .. Len(w) /\ n <= Len(w)
    BY <2>1
  <2>5. f[n] = g[n]
    <3> DEFINE m == Len(w)
    <3>1. /\ n \in 0 .. Len(v) /\ m \in 0 .. Len(w) /\ n <= m /\ n \in 0 .. n
          /\ \A i \in 1 .. n : v[i] = w[i]
          /\ Sums(v, n, f) /\ Sums(w, m, g) /\ w \in Seq(Nat)
      BY <2>1, <2>2, <2>3, <2>4
    <3> HIDE DEF n, m
    <3>2. \A i \in 0 .. n : f[i] = g[i] /\ f[i] \in Nat
      BY <3>1, SumsAgree
    <3> QED
      BY <3>1, <3>2
  <2>6. g[n + 1] = g[n] + w[n + 1]
    BY <2>1, <2>3 DEF Sums
  <2> QED
    BY <2>1, <2>2, <2>3, <2>5, <2>6 DEF w
<1>3. SumOf(<<>>) = 0
  <2>0. <<>> \in Seq(Nat)
    OBVIOUS
  <2>1. PICK f : Sums(<<>>, Len(<<>>), f) /\ SumOf(<<>>) = f[Len(<<>>)]
    BY <2>0, SumOfIsLast
  <2>2. Len(<<>>) = 0
    OBVIOUS
  <2> QED
    BY <2>1, <2>2 DEF Sums
<1> QED
  BY <1>1, <1>2, <1>3

\* What one more message adds to the sum of something of messages.
LEMMA SumOfMessages ==
    ASSUME NEW F \in [LlcMessage -> Nat], NEW covered \in Seq(LlcMessage), NEW msg \in LlcMessage
    PROVE  LET sums(seq) == SumOf([i \in DOMAIN seq |-> F[seq[i]]]) IN
           /\ sums(<<>>) = 0
           /\ sums(covered) \in Nat
           /\ sums(Append(covered, msg)) = sums(covered) + F[msg]
<1> DEFINE n == Len(covered)
           v == [i \in 1 .. n |-> F[covered[i]]]
           more == Append(covered, msg)
           w == [i \in 1 .. n + 1 |-> F[more[i]]]
<1>1. /\ n \in Nat /\ DOMAIN covered = 1 .. n /\ DOMAIN more = 1 .. n + 1
      /\ more[n + 1] = msg /\ \A i \in 1 .. n : more[i] = covered[i] /\ covered[i] \in LlcMessage
  OBVIOUS
<1> HIDE DEF n, more
<1>2. v \in Seq(Nat) /\ w \in Seq(Nat) /\ F[msg] \in Nat
  BY <1>1
<1>3. w = Append(v, F[msg])
  <2>1. Append(v, F[msg]) \in Seq(Nat) /\ Len(w) = n + 1 /\ Len(Append(v, F[msg])) = n + 1
    BY <1>1, <1>2
  <2>2. ASSUME NEW i \in 1 .. n + 1 PROVE w[i] = Append(v, F[msg])[i]
    BY <1>1, <1>2
  <2> HIDE DEF v, w
  <2> QED
    BY <1>2, <2>1, <2>2, SeqEqual
<1>4. [i \in DOMAIN <<>> |-> F[<<>>[i]]] = <<>>
  OBVIOUS
<1>5. SumOf(v) \in Nat /\ SumOf(w) = SumOf(v) + F[msg] /\ SumOf(<<>>) = 0
  <2> HIDE DEF v, w
  <2> QED
    BY <1>2, <1>3, SumOfFacts
<1> QED
  BY <1>1, <1>4, <1>5 DEF more

\* A sum that is kept modulo m is the sum modulo m.
LEMMA RemainderOfSum ==
    ASSUME NEW m \in Nat \ {0}, NEW a \in Nat, NEW x \in Nat
    PROVE  ((a % m) + x) % m = (a + x) % m
<1> DEFINE q == a \div m
           r == a % m
           k == (r + x) \div m
           t == (r + x) % m
<1>1. q \in Int /\ r \in 0 .. m - 1 /\ a = m * q + r
  BY SMT
<1>2. k \in Int /\ t \in 0 .. m - 1 /\ r + x = m * k + t
  BY <1>1, SMT
<1> HIDE DEF q, r, k, t
<1>3. a + x = (q + k) * m + t
  <2>1. (q + k) * m = m * q + m * k
    BY <1>1, <1>2, SMT
  <2>2. m * q \in Int /\ m * k \in Int
    BY <1>1, <1>2, SMT
  <2> HIDE DEF q, r, k, t
  <2> QED
    BY <1>1, <1>2, <2>1, <2>2
<1>4. ((q + k) * m + t) % m = t
  <2>1. q + k \in Int
    BY <1>1, <1>2
  <2> DEFINE j == q + k
  <2> HIDE DEF j
  <2>2. (j * m + t) % m = t
    BY <1>2, <2>1, RemainderOf DEF j
  <2> QED
    BY <2>2 DEF j
<1> QED
  BY <1>3, <1>4 DEF r, t

\* A delivered message is counted (handle_phy_msg).
LEMMA TellsOfMore ==
    ASSUME NEW covered \in Seq(LlcMessage), NEW msg \in LlcMessage,
           NEW line \in PhyCounters, TellsOf(line, covered),
           NEW counted,
           counted.interval = line.interval + 1,
           counted.payload = line.payload + msg.data.size,
           counted.latency = (line.latency + msg.latency) % Size,
           counted.lost = line.lost + msg.lost_packets
    PROVE  TellsOf(counted, Append(covered, msg))
<1> DEFINE sizes == [m \in LlcMessage |-> m.data.size]
           lost == [m \in LlcMessage |-> m.lost_packets]
           late == [m \in LlcMessage |-> m.latency]
           more == Append(covered, msg)
           sums(F, seq) == SumOf([i \in DOMAIN seq |-> F[seq[i]]])
<1>1. sizes \in [LlcMessage -> Nat] /\ lost \in [LlcMessage -> Nat] /\ late \in [LlcMessage -> Nat]
  BY WidthTypes DEF LlcMessage, Pdu
<1>2. /\ more \in Seq(LlcMessage) /\ Len(more) = Len(covered) + 1
      /\ \A i \in DOMAIN covered : covered[i] \in LlcMessage
      /\ \A i \in DOMAIN more : more[i] \in LlcMessage
  OBVIOUS
<1> HIDE DEF more
<1>3. /\ \A i \in DOMAIN covered : /\ covered[i].data.size = sizes[covered[i]]
                                    /\ covered[i].lost_packets = lost[covered[i]]
                                    /\ covered[i].latency = late[covered[i]]
      /\ \A i \in DOMAIN more : /\ more[i].data.size = sizes[more[i]]
                                 /\ more[i].lost_packets = lost[more[i]]
                                 /\ more[i].latency = late[more[i]]
      /\ msg.data.size = sizes[msg] /\ msg.lost_packets = lost[msg] /\ msg.latency = late[msg]
  BY <1>2
<1> HIDE DEF sizes, lost, late
<1>4. /\ [i \in DOMAIN covered |-> covered[i].data.size] = [i \in DOMAIN covered |-> sizes[covered[i]]]
      /\ [i \in DOMAIN covered |-> covered[i].lost_packets] = [i \in DOMAIN covered |-> lost[covered[i]]]
      /\ [i \in DOMAIN covered |-> covered[i].latency] = [i \in DOMAIN covered |-> late[covered[i]]]
      /\ [i \in DOMAIN more |-> more[i].data.size] = [i \in DOMAIN more |-> sizes[more[i]]]
      /\ [i \in DOMAIN more |-> more[i].lost_packets] = [i \in DOMAIN more |-> lost[more[i]]]
      /\ [i \in DOMAIN more |-> more[i].latency] = [i \in DOMAIN more |-> late[more[i]]]
  BY <1>3
<1>5. /\ line.interval = Len(covered) /\ line.payload = sums(sizes, covered)
      /\ line.lost = sums(lost, covered) /\ line.latency = sums(late, covered) % Size
  BY <1>4 DEF TellsOf
<1>6. ASSUME NEW F \in [LlcMessage -> Nat]
      PROVE  sums(F, covered) \in Nat /\ sums(F, more) = sums(F, covered) + F[msg]
  BY <1>6, SumOfMessages DEF more
<1> HIDE DEF sums
<1>7. /\ sums(sizes, more) = sums(sizes, covered) + sizes[msg]
      /\ sums(lost, more) = sums(lost, covered) + lost[msg]
      /\ sums(late, covered) \in Nat /\ sums(late, more) = sums(late, covered) + late[msg]
  BY <1>1, <1>6
<1>8. late[msg] \in Nat /\ Size \in Nat \ {0}
  BY <1>1, WidthTypes
<1>9. ((sums(late, covered) % Size) + late[msg]) % Size = (sums(late, covered) + late[msg]) % Size
  BY <1>7, <1>8, RemainderOfSum
<1>10. /\ counted.interval = Len(more) /\ counted.payload = sums(sizes, more)
       /\ counted.lost = sums(lost, more) /\ counted.latency = sums(late, more) % Size
  BY <1>2, <1>3, <1>5, <1>7, <1>9
<1> QED
  BY <1>4, <1>10 DEF TellsOf, sums, more

\* What lines cover of the messages delivered so far, each those since the one before.
Covered(out, lines, k) == SubSeq(out, CountedBefore(lines, k) + 1, lines[k].total)

Accounts(lines, out) ==
    \A k \in DOMAIN lines :
        /\ CountedBefore(lines, k) <= lines[k].total /\ lines[k].total <= Len(out)
        /\ TellsOf(lines[k], Covered(out, lines, k))

\* A delivered message does not belong to lines that are already logged ...
LEMMA SubSeqOfMore ==
    ASSUME NEW S, NEW out \in Seq(S), NEW msg \in S, NEW a \in Nat, NEW b \in Nat,
           a <= b, b <= Len(out)
    PROVE  /\ SubSeq(out, a + 1, b) \in Seq(S)
           /\ SubSeq(Append(out, msg), a + 1, b) = SubSeq(out, a + 1, b)
           /\ b = Len(out) => SubSeq(Append(out, msg), a + 1, b + 1) = Append(SubSeq(out, a + 1, b), msg)
<1> DEFINE more == Append(out, msg)
           s == SubSeq(out, a + 1, b)
           t == SubSeq(more, a + 1, b)
           u == SubSeq(more, a + 1, b + 1)
           n == Len(out)
<1>1. /\ more \in Seq(S) /\ n \in Nat /\ Len(more) = n + 1 /\ more[n + 1] = msg
      /\ \A i \in 1 .. n : more[i] = out[i] /\ out[i] \in S
      /\ \A i \in 1 .. n + 1 : more[i] \in S
  OBVIOUS
<1> HIDE DEF more
<1>2. /\ s \in Seq(S) /\ Len(s) = b - a /\ \A i \in 1 .. b - a : s[i] = out[a + i]
  <2>1. a + 1 \in Int /\ b \in Int /\ \A i \in a + 1 .. b : out[i] \in S
    BY <1>1
  <2>2. /\ s \in Seq(S) /\ Len(s) = (IF a + 1 <= b THEN b - (a + 1) + 1 ELSE 0)
        /\ \A i \in 1 .. b - (a + 1) + 1 : s[i] = out[(a + 1) + i - 1]
    BY <2>1, SubSeqProperties
  <2> HIDE DEF s
  <2> QED
    BY <2>2
<1>3. /\ t \in Seq(S) /\ Len(t) = b - a /\ \A i \in 1 .. b - a : t[i] = more[a + i]
  <2>1. a + 1 \in Int /\ b \in Int /\ \A i \in a + 1 .. b : more[i] \in S
    BY <1>1
  <2>2. /\ t \in Seq(S) /\ Len(t) = (IF a + 1 <= b THEN b - (a + 1) + 1 ELSE 0)
        /\ \A i \in 1 .. b - (a + 1) + 1 : t[i] = more[(a + 1) + i - 1]
    BY <2>1, SubSeqProperties
  <2> HIDE DEF t
  <2> QED
    BY <2>2
<1>4. b = n => /\ u \in Seq(S) /\ Len(u) = b - a + 1
               /\ \A i \in 1 .. b - a + 1 : u[i] = more[a + i]
  <2> SUFFICES ASSUME b = n PROVE /\ u \in Seq(S) /\ Len(u) = b - a + 1
                                 /\ \A i \in 1 .. b - a + 1 : u[i] = more[a + i]
    OBVIOUS
  <2>1. a + 1 \in Int /\ b + 1 \in Int /\ \A i \in a + 1 .. b + 1 : more[i] \in S
    BY <1>1
  <2>2. /\ u \in Seq(S) /\ Len(u) = (IF a + 1 <= b + 1 THEN (b + 1) - (a + 1) + 1 ELSE 0)
        /\ \A i \in 1 .. (b + 1) - (a + 1) + 1 : u[i] = more[(a + 1) + i - 1]
    BY <2>1, SubSeqProperties
  <2> HIDE DEF u
  <2> QED
    BY <2>2
<1> HIDE DEF s, t, u, n
<1>5. t = s
  <2>1. ASSUME NEW i \in 1 .. Len(t) PROVE t[i] = s[i]
    <3>1. i \in 1 .. b - a /\ a + i \in 1 .. n
      BY <1>3, <2>1 DEF n
    <3> QED
      BY <1>1, <1>2, <1>3, <3>1
  <2> QED
    BY <1>2, <1>3, <2>1, SeqEqual
<1>6. ASSUME b = n PROVE u = Append(s, msg)
  <2> DEFINE v == Append(s, msg)
  <2>1. v \in Seq(S) /\ Len(v) = b - a + 1 /\ v[b - a + 1] = msg /\ \A i \in 1 .. b - a : v[i] = s[i]
    BY <1>2
  <2> HIDE DEF v
  <2>2. ASSUME NEW i \in 1 .. Len(u) PROVE u[i] = v[i]
    <3>1. i \in 1 .. b - a + 1 /\ u[i] = more[a + i]
      BY <1>4, <1>6, <2>2
    <3>2. CASE i = b - a + 1
      <4>1. a + i = n + 1
        BY <1>1, <1>6, <3>2
      <4> QED
        BY <1>1, <2>1, <3>1, <3>2, <4>1
    <3>3. CASE i # b - a + 1
      <4>1. i \in 1 .. b - a /\ a + i \in 1 .. n
        BY <1>1, <1>6, <3>1, <3>3
      <4> QED
        BY <1>1, <1>2, <2>1, <3>1, <4>1
    <3> QED
      BY <3>2, <3>3
  <2> QED
    BY <1>4, <1>6, <2>1, <2>2, SeqEqual DEF v
<1> QED
  BY <1>2, <1>5, <1>6 DEF s, t, u, n, more

LEMMA CountedType ==
    ASSUME NEW lines \in Seq(PhyCounters), NEW k \in DOMAIN lines
    PROVE  lines[k] \in PhyCounters /\ lines[k].total \in Nat /\ CountedBefore(lines, k) \in Nat
<1>1. lines[k] \in PhyCounters /\ (k # 1 => lines[k - 1] \in PhyCounters)
  OBVIOUS
<1> QED
  BY <1>1 DEF CountedBefore, PhyCounters

\* ... but to the interval still open.
LEMMA AccountsOfMore ==
    ASSUME NEW past \in Seq(PhyCounters), NEW line \in PhyCounters, NEW counted \in PhyCounters,
           NEW out \in Seq(LlcMessage), NEW msg \in LlcMessage,
           Accounts(Append(past, line), out), line.total = Len(out),
           counted.total = line.total + 1, counted.interval = line.interval + 1,
           counted.payload = line.payload + msg.data.size,
           counted.latency = (line.latency + msg.latency) % Size,
           counted.lost = line.lost + msg.lost_packets
    PROVE  /\ Accounts(Append(past, counted), Append(out, msg))
           /\ counted.total = Len(Append(out, msg))
<1> DEFINE old == Append(past, line)
           new == Append(past, counted)
           more == Append(out, msg)
           n == Len(past)
<1>1. /\ n \in Nat /\ DOMAIN old = 1 .. n + 1 /\ DOMAIN new = 1 .. n + 1
      /\ old \in Seq(PhyCounters) /\ new \in Seq(PhyCounters)
      /\ old[n + 1] = line /\ new[n + 1] = counted /\ \A k \in 1 .. n : new[k] = old[k]
  BY AppendFacts
<1>2. Len(more) = Len(out) + 1 /\ Len(out) \in Nat
  OBVIOUS
<1> HIDE DEF old, new, n
<1>3. ASSUME NEW k \in 1 .. n + 1
      PROVE  /\ CountedBefore(new, k) = CountedBefore(old, k)
             /\ CountedBefore(old, k) \in Nat /\ old[k].total \in Nat
             /\ CountedBefore(old, k) <= old[k].total /\ old[k].total <= Len(out)
             /\ TellsOf(old[k], Covered(out, old, k))
  <2>1. k # 1 => k - 1 \in 1 .. n
    BY <1>1
  <2>2. CountedBefore(new, k) = CountedBefore(old, k)
    BY <1>1, <2>1 DEF CountedBefore
  <2>3. CountedBefore(old, k) \in Nat /\ old[k].total \in Nat
    BY <1>1, CountedType
  <2> QED
    BY <1>1, <2>2, <2>3 DEF Accounts, old
<1>4. ASSUME NEW k \in 1 .. n + 1
      PROVE  /\ CountedBefore(new, k) <= new[k].total /\ new[k].total <= Len(more)
             /\ TellsOf(new[k], Covered(more, new, k))
  <2> DEFINE a == CountedBefore(old, k)
             b == old[k].total
  <2>1. /\ a \in Nat /\ b \in Nat /\ a <= b /\ b <= Len(out) /\ CountedBefore(new, k) = a
        /\ TellsOf(old[k], SubSeq(out, a + 1, b))
    BY <1>3 DEF Covered
  <2> HIDE DEF a, b, more
  <2>2. /\ SubSeq(out, a + 1, b) \in Seq(LlcMessage)
        /\ SubSeq(more, a + 1, b) = SubSeq(out, a + 1, b)
        /\ b = Len(out) => SubSeq(more, a + 1, b + 1) = Append(SubSeq(out, a + 1, b), msg)
    <3>1. ASSUME NEW x \in Nat, NEW y \in Nat, x <= y, y <= Len(out)
          PROVE  /\ SubSeq(out, x + 1, y) \in Seq(LlcMessage)
                 /\ SubSeq(Append(out, msg), x + 1, y) = SubSeq(out, x + 1, y)
                 /\ y = Len(out) =>
                      SubSeq(Append(out, msg), x + 1, y + 1) = Append(SubSeq(out, x + 1, y), msg)
      BY <3>1, SubSeqOfMore, SMTT(30)
    <3>2. a \in Nat /\ b \in Nat /\ a <= b /\ b <= Len(out)
      BY <2>1
    <3> QED
      BY <3>1, <3>2 DEF more
  <2>3. CASE k \in 1 .. n
    <3>1. new[k] = old[k] /\ new[k].total = b
      BY <1>1, <2>3 DEF b
    <3>2. Covered(more, new, k) = SubSeq(out, a + 1, b)
      BY <2>1, <2>2, <3>1 DEF Covered
    <3> QED
      BY <1>2, <2>1, <3>1, <3>2
  <2>4. CASE k = n + 1
    <3>1. old[k] = line /\ new[k] = counted /\ b = Len(out) /\ new[k].total = b + 1
      BY <1>1, <2>4 DEF b
    <3>2. TellsOf(counted, Append(SubSeq(out, a + 1, b), msg))
      <4> DEFINE covered == SubSeq(out, a + 1, b)
      <4>1. covered \in Seq(LlcMessage) /\ TellsOf(line, covered)
        BY <2>1, <2>2, <3>1
      <4> HIDE DEF covered
      <4>2. TellsOf(counted, Append(covered, msg))
        BY <4>1, TellsOfMore
      <4> QED
        BY <4>2 DEF covered
    <3>3. Covered(more, new, k) = Append(SubSeq(out, a + 1, b), msg)
      BY <2>1, <2>2, <3>1 DEF Covered
    <3> QED
      BY <1>2, <2>1, <3>1, <3>2, <3>3
  <2> QED
    BY <2>3, <2>4, <1>1
<1> QED
  BY <1>1, <1>2, <1>4 DEF Accounts, new

\* A logged line is followed by an empty interval (print_phy_message_status).
LEMMA AccountsOfReset ==
    ASSUME NEW lines \in Seq(PhyCounters), lines # <<>>, NEW fresh \in PhyCounters,
           NEW out \in Seq(LlcMessage),
           Accounts(lines, out), lines[Len(lines)].total = Len(out),
           fresh.total = Len(out), fresh.interval = 0, fresh.payload = 0,
           fresh.latency = 0, fresh.lost = 0
    PROVE  Accounts(Append(lines, fresh), out)
<1> DEFINE new == Append(lines, fresh)
           n == Len(lines)
<1>1. /\ n \in Nat /\ n # 0 /\ DOMAIN lines = 1 .. n /\ DOMAIN new = 1 .. n + 1
      /\ new[n + 1] = fresh /\ \A k \in 1 .. n : new[k] = lines[k]
  BY AppendFacts
<1>2. Len(out) \in Nat
  OBVIOUS
<1> HIDE DEF new
<1>3. ASSUME NEW k \in 1 .. n
      PROVE  /\ CountedBefore(new, k) <= new[k].total /\ new[k].total <= Len(out)
             /\ TellsOf(new[k], Covered(out, new, k))
  <2>1. k # 1 => k - 1 \in 1 .. n
    BY <1>1
  <2>2. CountedBefore(new, k) = CountedBefore(lines, k) /\ new[k] = lines[k]
    BY <1>1, <2>1 DEF CountedBefore
  <2> QED
    BY <1>1, <2>2 DEF Accounts, Covered
<1>4. /\ CountedBefore(new, n + 1) = Len(out) /\ new[n + 1] = fresh
      /\ Covered(out, new, n + 1) = <<>>
  <2>1. CountedBefore(new, n + 1) = Len(out) /\ new[n + 1] = fresh
    BY <1>1 DEF CountedBefore
  <2>2. SubSeq(out, Len(out) + 1, Len(out)) = <<>>
    BY <1>2, SubSeqEmpty
  <2> QED
    BY <2>1, <2>2 DEF Covered
<1>5. TellsOf(fresh, <<>>)
  <2>1. SumOf(<<>>) = 0 /\ 0 % Size = 0 /\ Len(<<>>) = 0
    BY SumOfFacts, WidthTypes
  <2>2. /\ [i \in DOMAIN <<>> |-> <<>>[i].data.size] = <<>>
        /\ [i \in DOMAIN <<>> |-> <<>>[i].lost_packets] = <<>>
        /\ [i \in DOMAIN <<>> |-> <<>>[i].latency] = <<>>
    OBVIOUS
  <2> QED
    BY <2>1, <2>2 DEF TellsOf
<1>6. ASSUME NEW k \in 1 .. n + 1
      PROVE  /\ CountedBefore(new, k) <= new[k].total /\ new[k].total <= Len(out)
             /\ TellsOf(new[k], Covered(out, new, k))
  <2>1. CASE k \in 1 .. n
    BY <1>3, <2>1
  <2>2. CASE k = n + 1
    BY <1>2, <1>4, <1>5, <2>2
  <2> QED
    BY <1>1, <2>1, <2>2
<1> QED
  BY <1>1, <1>6 DEF Accounts, new

\* The intervals of the LLC side add up.
AddUp(lines) ==
    \A k \in DOMAIN lines : lines[k].total = CountedBefore(lines, k) + lines[k].interval

LEMMA AddUpCounted ==
    ASSUME NEW past \in Seq(LlcCounters), NEW line \in LlcCounters, NEW counted \in LlcCounters,
           AddUp(Append(past, line)),
           counted.total = line.total + 1, counted.interval = line.interval + 1
    PROVE  AddUp(Append(past, counted))
<1> DEFINE old == Append(past, line)
           new == Append(past, counted)
           n == Len(past)
<1>1. /\ n \in Nat /\ DOMAIN old = 1 .. n + 1 /\ DOMAIN new = 1 .. n + 1
      /\ old \in Seq(LlcCounters)
      /\ old[n + 1] = line /\ new[n + 1] = counted /\ \A k \in 1 .. n : new[k] = old[k]
  BY AppendFacts
<1> HIDE DEF old, new, n
<1>2. ASSUME NEW k \in 1 .. n + 1
      PROVE  new[k].total = CountedBefore(new, k) + new[k].interval
  <2>1. k # 1 => k - 1 \in 1 .. n
    BY <1>1
  <2>2. CountedBefore(new, k) = CountedBefore(old, k) /\ CountedBefore(old, k) \in Nat
    <3>1. k # 1 => old[k - 1] \in LlcCounters
      BY <1>1, <2>1
    <3> QED
      BY <1>1, <2>1, <3>1 DEF CountedBefore, LlcCounters
  <2>3. old[k].total = CountedBefore(old, k) + old[k].interval
    BY <1>1 DEF AddUp, old
  <2>4. CASE k \in 1 .. n
    BY <1>1, <2>2, <2>3, <2>4
  <2>5. CASE k = n + 1
    <3>1. line.total \in Nat /\ line.interval \in Nat
      BY DEF LlcCounters
    <3> QED
      BY <1>1, <2>2, <2>3, <2>5, <3>1
  <2> QED
    BY <1>1, <2>4, <2>5
<1> QED
  BY <1>1, <1>2 DEF AddUp, new

LEMMA AddUpReset ==
    ASSUME NEW lines \in Seq(LlcCounters), lines # <<>>, NEW fresh \in LlcCounters,
           AddUp(lines), fresh.total = lines[Len(lines)].total, fresh.interval = 0
    PROVE  AddUp(Append(lines, fresh))
<1> DEFINE new == Append(lines, fresh)
           n == Len(lines)
<1>1. /\ n \in Nat /\ n # 0 /\ DOMAIN lines = 1 .. n /\ DOMAIN new = 1 .. n + 1
      /\ new[n + 1] = fresh /\ \A k \in 1 .. n : new[k] = lines[k]
  BY AppendFacts
<1> HIDE DEF new
<1>2. ASSUME NEW k \in 1 .. n + 1
      PROVE  new[k].total = CountedBefore(new, k) + new[k].interval
  <2>1. CASE k \in 1 .. n
    <3>1. k # 1 => k - 1 \in 1 .. n
      BY <1>1
    <3>2. CountedBefore(new, k) = CountedBefore(lines, k)
      BY <1>1, <2>1, <3>1 DEF CountedBefore
    <3> QED
      BY <1>1, <2>1, <3>2 DEF AddUp
  <2>2. CASE k = n + 1
    <3>1. CountedBefore(new, k) = fresh.total
      <4>1. k # 1 /\ k - 1 = n /\ n \in 1 .. n
        BY <1>1, <2>2
      <4> QED
        BY <1>1, <4>1 DEF CountedBefore
    <3>2. fresh.total \in Nat
      BY DEF LlcCounters
    <3> QED
      BY <1>1, <2>2, <3>1, <3>2
  <2> QED
    BY <1>1, <2>1, <2>2
<1> QED
  BY <1>1, <1>2 DEF AddUp, new

\* The total of the PHY side is the number of messages delivered, which makes the account
\* of the status lines inductive.
PhySideAccounts(c) ==
    /\ phy[c].total = Len(llcOut[c])
    /\ Accounts(Append(phyLines[c], phy[c]), llcOut[c])

LlcSideAccounts(c) == AddUp(Append(llcLines[c], llc[c]))

StatusInv == MacTypeOK /\ \A c \in Controllers : PhySideAccounts(c) /\ LlcSideAccounts(c)

LEMMA StatusInvAccounts == StatusInv => StatusLinesAccount
BY DEF StatusInv, PhySideAccounts, LlcSideAccounts, AddUp, Accounts, Covered, StatusLinesAccount

LEMMA StatusInit == MacInit => StatusInv
<1> SUFFICES ASSUME MacInit PROVE StatusInv
  OBVIOUS
<1>1. MacTypeOK
  BY MacInitType
<1>2. ASSUME NEW c \in Controllers PROVE PhySideAccounts(c) /\ LlcSideAccounts(c)
  <2>1. /\ phyLines[c] = <<>> /\ llcLines[c] = <<>> /\ llcOut[c] = <<>>
        /\ phy[c].total = 0 /\ phy[c].interval = 0 /\ phy[c].payload = 0
        /\ phy[c].latency = 0 /\ phy[c].lost = 0
        /\ llc[c].total = 0 /\ llc[c].interval = 0
    BY DEF MacInit
  <2>2. Append(phyLines[c], phy[c]) = <<phy[c]>> /\ Append(llcLines[c], llc[c]) = <<llc[c]>>
    BY <2>1
  <2>3. /\ SumOf(<<>>) = 0 /\ 0 % Size = 0
        /\ [i \in DOMAIN <<>> |-> <<>>[i].data.size] = <<>>
        /\ [i \in DOMAIN <<>> |-> <<>>[i].lost_packets] = <<>>
        /\ [i \in DOMAIN <<>> |-> <<>>[i].latency] = <<>>
    BY SumOfFacts, WidthTypes
  <2>4. TellsOf(phy[c], <<>>)
    BY <2>1, <2>3 DEF TellsOf
  <2>5. SubSeq(<<>>, 1, 0) = <<>>
    BY SubSeqEmpty
  <2>6. Accounts(<<phy[c]>>, <<>>)
    <3>1. DOMAIN <<phy[c]>> = {1} /\ <<phy[c]>>[1] = phy[c] /\ Len(<<>>) = 0
      OBVIOUS
    <3>2. CountedBefore(<<phy[c]>>, 1) = 0 /\ Covered(<<>>, <<phy[c]>>, 1) = <<>>
      BY <2>1, <2>5, <3>1 DEF CountedBefore, Covered
    <3> QED
      BY <2>1, <2>4, <3>1, <3>2 DEF Accounts
  <2>7. AddUp(<<llc[c]>>)
    BY <2>1 DEF AddUp, CountedBefore
  <2> QED
    BY <2>1, <2>2, <2>6, <2>7 DEF PhySideAccounts, LlcSideAccounts
<1> QED
  BY <1>1, <1>2 DEF StatusInv

LEMMA StatusHandleLlcMsg ==
    ASSUME StatusInv, NEW c \in Controllers, NEW pdu \in Pdu, NEW ticks \in Ticks,
           HandleLlcMsg(c, pdu, ticks)
    PROVE  \A d \in Controllers : (PhySideAccounts(d) /\ LlcSideAccounts(d))'
<1> DEFINE counted == LlcCounted(c, pdu, ticks)
           fresh == LlcReset(counted, ticks)
           past == llcLines[c]
           line == llc[c]
<1>1. /\ llc \in [Controllers -> LlcCounters] /\ llcLines \in [Controllers -> Seq(LlcCounters)]
      /\ line \in LlcCounters /\ past \in Seq(LlcCounters) /\ AddUp(Append(past, line))
  BY DEF StatusInv, MacTypeOK, LlcSideAccounts
<1>2. counted \in LlcCounters /\ fresh \in LlcCounters
  BY <1>1 DEF LlcCounted, LlcReset, LlcCounters, Pdu
<1>3. /\ counted.total = line.total + 1 /\ counted.interval = line.interval + 1
      /\ fresh.total = counted.total /\ fresh.interval = 0
  BY DEF LlcCounted, LlcReset
<1>4. \/ llc' = [llc EXCEPT ![c] = counted] /\ llcLines' = llcLines
      \/ llc' = [llc EXCEPT ![c] = fresh] /\ llcLines' = [llcLines EXCEPT ![c] = Append(@, counted)]
  BY DEF HandleLlcMsg, PrintLlcStatus
<1> HIDE DEF counted, fresh, past, line
<1>5. AddUp(Append(past, counted))
  BY <1>1, <1>2, <1>3, AddUpCounted
<1>6. AddUp(Append(Append(past, counted), fresh))
  <2> DEFINE lines == Append(past, counted)
  <2>1. lines \in Seq(LlcCounters) /\ lines # <<>> /\ lines[Len(lines)] = counted
    BY <1>1, <1>2, AppendFacts
  <2> HIDE DEF lines
  <2>2. AddUp(lines)
    BY <1>5 DEF lines
  <2>3. AddUp(Append(lines, fresh))
    BY <1>2, <1>3, <2>1, <2>2, AddUpReset
  <2> QED
    BY <2>3 DEF lines
<1>7. LlcSideAccounts(c)'
  <2>1. CASE llc' = [llc EXCEPT ![c] = counted] /\ llcLines' = llcLines
    BY <1>1, <1>5, <2>1 DEF LlcSideAccounts, past
  <2>2. CASE llc' = [llc EXCEPT ![c] = fresh] /\ llcLines' = [llcLines EXCEPT ![c] = Append(@, counted)]
    BY <1>1, <1>6, <2>2 DEF LlcSideAccounts, past
  <2> QED
    BY <1>4, <2>1, <2>2
<1>8. ASSUME NEW d \in Controllers, d # c PROVE LlcSideAccounts(d)'
  <2>1. llc'[d] = llc[d] /\ llcLines'[d] = llcLines[d]
    BY <1>1, <1>4, <1>8
  <2> QED
    BY <2>1 DEF StatusInv, LlcSideAccounts
<1>9. ASSUME NEW d \in Controllers PROVE PhySideAccounts(d)'
  BY DEF HandleLlcMsg, StatusInv, PhySideAccounts
<1> QED
  BY <1>7, <1>8, <1>9

LEMMA StatusUnchanged ==
    ASSUME StatusInv, UNCHANGED <<status, llcOut>>
    PROVE  \A d \in Controllers : (PhySideAccounts(d) /\ LlcSideAccounts(d))'
BY DEF StatusInv, PhySideAccounts, LlcSideAccounts, status

LEMMA StatusHandlePhyMsg ==
    ASSUME StatusInv, NEW c \in Controllers, NEW frame \in Frame, NEW intact \in BOOLEAN,
           NEW ticks \in Ticks, HandlePhyMsg(c, frame, intact, ticks)
    PROVE  \A d \in Controllers : (PhySideAccounts(d) /\ LlcSideAccounts(d))'
<1>1. CASE ~Accepts(c, frame, intact)
  BY <1>1, StatusUnchanged DEF HandlePhyMsg, macVars, outputs
<1>2. CASE Accepts(c, frame, intact)
  <2> DEFINE msg == PduFrom(c, frame, ticks)
             counted == PhyCounted(c, msg, ticks)
             fresh == PhyReset(counted, ticks)
             past == phyLines[c]
             line == phy[c]
             out == llcOut[c]
  <2>1. MacTypeOK
    BY DEF StatusInv
  <2>2. msg \in LlcMessage
    BY <2>1, PduFromType
  <2>3. /\ phy \in [Controllers -> PhyCounters] /\ phyLines \in [Controllers -> Seq(PhyCounters)]
        /\ llcOut \in [Controllers -> Seq(LlcMessage)]
        /\ line \in PhyCounters /\ past \in Seq(PhyCounters) /\ out \in Seq(LlcMessage)
        /\ Accounts(Append(past, line), out) /\ line.total = Len(out)
    BY <2>1 DEF StatusInv, MacTypeOK, PhySideAccounts
  <2>4. /\ llcOut' = [llcOut EXCEPT ![c] = Append(@, msg)] /\ UNCHANGED <<llc, llcLines>>
        /\ \/ phy' = [phy EXCEPT ![c] = counted] /\ phyLines' = phyLines
           \/ phy' = [phy EXCEPT ![c] = fresh] /\ phyLines' = [phyLines EXCEPT ![c] = Append(@, counted)]
    BY <1>2 DEF HandlePhyMsg, PrintPhyStatus
  <2> HIDE DEF msg
  <2>5. /\ counted.total = line.total + 1 /\ counted.interval = line.interval + 1
        /\ counted.payload = line.payload + msg.data.size
        /\ counted.latency = (line.latency + msg.latency) % Size
        /\ counted.lost = line.lost + msg.lost_packets
        /\ fresh.total = counted.total /\ fresh.interval = 0 /\ fresh.payload = 0
        /\ fresh.latency = 0 /\ fresh.lost = 0
    BY DEF PhyCounted, PhyReset
  <2>6. counted \in PhyCounters
    <3>1. msg.data.size \in Nat /\ msg.lost_packets \in Nat /\ msg.latency \in Nat
      BY <2>2, WidthTypes DEF LlcMessage, Pdu
    <3>2. (phy[c].latency + msg.latency) % Size \in 0 .. Size - 1
      BY <2>3, <3>1, WidthTypes, SMTT(30) DEF PhyCounters
    <3>3. phy[c] \in PhyCounters
      BY <2>3
    <3> QED
      BY <3>1, <3>2, <3>3 DEF PhyCounted, PhyCounters
  <2>7. fresh \in PhyCounters
    <3> HIDE DEF counted
    <3> QED
      BY <2>6, WidthTypes DEF PhyReset, PhyCounters
  <2> HIDE DEF counted, fresh, past, line, out
  <2>8. /\ Accounts(Append(past, counted), Append(out, msg))
        /\ counted.total = Len(Append(out, msg))
    BY <2>2, <2>3, <2>5, <2>6, AccountsOfMore
  <2>9. Accounts(Append(Append(past, counted), fresh), Append(out, msg))
    <3> DEFINE lines == Append(past, counted)
               more == Append(out, msg)
    <3>1. /\ lines \in Seq(PhyCounters) /\ lines # <<>> /\ lines[Len(lines)] = counted
      BY <2>3, <2>6, AppendFacts
    <3>2. more \in Seq(LlcMessage)
      BY <2>2, <2>3
    <3>3. Accounts(lines, more) /\ lines[Len(lines)].total = Len(more) /\ fresh.total = Len(more)
      BY <2>5, <2>8, <3>1
    <3> HIDE DEF lines, more
    <3>4. Accounts(Append(lines, fresh), more)
      BY <2>5, <2>7, <3>1, <3>2, <3>3, AccountsOfReset
    <3> QED
      BY <3>4 DEF lines, more
  <2>10. PhySideAccounts(c)'
    <3>1. llcOut'[c] = Append(out, msg)
      BY <2>3, <2>4 DEF out
    <3>2. CASE phy' = [phy EXCEPT ![c] = counted] /\ phyLines' = phyLines
      <4>1. phy'[c] = counted /\ phyLines'[c] = past
        BY <2>3, <3>2 DEF past
      <4> QED
        BY <2>8, <3>1, <4>1 DEF PhySideAccounts
    <3>3. CASE phy' = [phy EXCEPT ![c] = fresh] /\ phyLines' = [phyLines EXCEPT ![c] = Append(@, counted)]
      <4>1. phy'[c] = fresh /\ phyLines'[c] = Append(past, counted)
        BY <2>3, <3>3 DEF past
      <4> QED
        BY <2>5, <2>8, <2>9, <3>1, <4>1 DEF PhySideAccounts
    <3> QED
      BY <2>4, <3>2, <3>3
  <2>11. ASSUME NEW d \in Controllers, d # c PROVE PhySideAccounts(d)'
    <3>1. phy'[d] = phy[d] /\ phyLines'[d] = phyLines[d] /\ llcOut'[d] = llcOut[d]
      BY <2>3, <2>4, <2>11
    <3> QED
      BY <3>1 DEF StatusInv, PhySideAccounts
  <2>12. ASSUME NEW d \in Controllers PROVE LlcSideAccounts(d)'
    BY <2>4 DEF StatusInv, LlcSideAccounts
  <2> QED
    BY <2>10, <2>11, <2>12
<1> QED
  BY <1>1, <1>2

LEMMA StatusNext == StatusInv /\ [MacNext]_macVars => StatusInv'
<1> SUFFICES ASSUME StatusInv, [MacNext]_macVars
             PROVE  \A d \in Controllers : (PhySideAccounts(d) /\ LlcSideAccounts(d))'
  BY MacNextType DEF StatusInv
<1>0. MacTypeOK
  BY DEF StatusInv
<1>1. ASSUME NEW c \in Controllers, ReceivePdu(c)
      PROVE  \A d \in Controllers : (PhySideAccounts(d) /\ LlcSideAccounts(d))'
  <2>1. PICK size \in PduSizes, ticks \in Ticks :
          HandleLlcMsg(c, [origin |-> c, rank |-> llc[c].total + 1, size |-> size], ticks)
    BY <1>1 DEF ReceivePdu
  <2>2. [origin |-> c, rank |-> llc[c].total + 1, size |-> size] \in Pdu
    BY <1>0, ControllerTypes, SMTT(30) DEF MacTypeOK, LlcCounters, Pdu
  <2> QED
    BY <2>1, <2>2, StatusHandleLlcMsg
<1>2. ASSUME NEW c \in Controllers, ReceiveFrame(c)
      PROVE  \A d \in Controllers : (PhySideAccounts(d) /\ LlcSideAccounts(d))'
  <2>0. PICK s \in Controllers :
          \E i \in DOMAIN phyOut[s], ticks \in Ticks : Reception(c, phyOut[s][i], ticks)
    BY <1>2 DEF ReceiveFrame
  <2>1. PICK i \in DOMAIN phyOut[s], ticks \in Ticks : Reception(c, phyOut[s][i], ticks)
    BY <2>0
  <2>2. phyOut[s][i] \in Frame
    BY <1>0 DEF MacTypeOK
  <2>3. CASE HandlePhyMsg(c, phyOut[s][i], TRUE, ticks)
    BY <2>2, <2>3, StatusHandlePhyMsg
  <2>4. ASSUME NEW header \in Damaged(phyOut[s][i].header),
               HandlePhyMsg(c, [phyOut[s][i] EXCEPT !.header = header], FALSE, ticks)
        PROVE  \A d \in Controllers : (PhySideAccounts(d) /\ LlcSideAccounts(d))'
    BY <2>2, <2>4, DamagedType, StatusHandlePhyMsg
  <2> QED
    BY <2>1, <2>3, <2>4 DEF Reception
<1>3. ASSUME NEW c \in ReplayUsers, NEW activate \in BOOLEAN, ActivateReplayMode(c, activate)
      PROVE  \A d \in Controllers : (PhySideAccounts(d) /\ LlcSideAccounts(d))'
  BY <1>3, StatusUnchanged DEF ActivateReplayMode, outputs
<1>4. ASSUME UNCHANGED macVars
      PROVE  \A d \in Controllers : (PhySideAccounts(d) /\ LlcSideAccounts(d))'
  BY <1>4, StatusUnchanged DEF macVars, outputs
<1> QED
  BY <1>1, <1>2, <1>3, <1>4 DEF MacNext

\* Whatever is received and however the clock jumps, every delivered message is in one
\* status line, with its bytes, its loss report and its latency, and every PDU taken at
\* LLCin in one interval (print_phy_message_status, print_llc_message_status).
THEOREM StatusAccount == MacSpec => []StatusLinesAccount
<1> QED
  BY StatusInit, StatusNext, StatusInvAccounts, PTL DEF MacSpec
=============================================================================
