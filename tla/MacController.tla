--------------------------- MODULE MacController ---------------------------
(***************************************************************************)
(* The MAC controllers (lib/mac_controller_impl.cc).  A controller talks   *)
(* from d_src_id to d_dst_id: PDUs that enter at its port LLCin leave as   *)
(* frames at PHYout, frames that enter at PHYin and pass the address and   *)
(* checksum test leave as PDUs at LLCout.  GNU Radio runs the handlers of  *)
(* one block one after the other in the block's thread, so a handler is    *)
(* one action; only activate_replay_mode is called from another thread.    *)
(*                                                                         *)
(* Spec puts the controllers into an environment without any manners: a    *)
(* PDU may come at any time, and a frame that was ever published may reach *)
(* any controller, any number of times, in any order, damaged or not.      *)
(* Module UdpNetwork composes the same handlers with real queues.          *)
(***************************************************************************)
EXTENDS MacFrame, Sequences

CONSTANTS
    Controllers,    \* set of pairs <<d_src_id, d_dst_id>>
    MTU,            \* d_mtu_size
    PrintInterval,  \* d_print_interval_ticks
    Ticks,          \* readings of the host's clock; it may be set back
    PduSizes,       \* sizes of the PDUs offered at LLCin
    ReplayUsers,    \* controllers whose replay mode is ever touched
    Noisy,          \* controllers that may receive a damaged frame
    MaxPdus,        \* bound: PDUs a controller is given at LLCin
    MaxFrames       \* bound: frames a controller accepts at PHYin

\* What the constructor lets through.  It throws on 256 < id, so the
\* identifier 256 and an MTU of 256 are accepted.
ASSUME ControllerAssumption ==
    /\ Controllers \subseteq (0 .. Byte) \X (0 .. Byte)
    /\ \A c \in Controllers : c[1] # c[2]
    /\ MTU \in 0 .. Byte
    /\ PrintInterval \in Nat
    /\ Ticks \subseteq 0 .. Size - 1
    /\ PduSizes \subseteq Nat
    /\ ReplayUsers \subseteq Controllers
    /\ Noisy \subseteq Controllers
    /\ MaxPdus \in [Controllers -> Nat]
    /\ MaxFrames \in [Controllers -> Nat]

\* The range the constructor's messages state: [0, 256) for both.
ProperConfiguration ==
    /\ Controllers \subseteq (0 .. Byte - 1) \X (0 .. Byte - 1)
    /\ MTU < Byte

VARIABLES
    d_tx_frame_counter,   \* next sequence number to send
    d_rx_frame_counter,   \* sequence number accepted last
    d_replay_mode_active,
    llc,                  \* counters and clock readings of the LLC side
    phy,                  \* the same of the PHY side
    llcLines,             \* status lines logged for the LLC side
    phyLines,             \* status lines logged for the PHY side
    phyOut,               \* frames published at PHYout
    llcOut,               \* PDUs published at LLCout, with their metadata
    timing                \* messages published at the port timing

counters == <<d_tx_frame_counter, d_rx_frame_counter>>
outputs  == <<phyOut, llcOut, timing>>
status   == <<llc, phy, llcLines, phyLines>>
macVars  == <<counters, d_replay_mode_active, status, outputs>>

SrcId(c) == c[1]
DstId(c) == c[2]
Peer(c)  == <<c[2], c[1]>>

(***************************************************************************)
(* A PDU is known by the controller it was offered to, its rank there and  *)
(* its size; the replay pattern has rank 0.  The bytes cut out of a frame  *)
(* are the PDU that went in only if the size is right.                     *)
(***************************************************************************)
Pdu == [origin : Controllers, rank : Nat, size : Nat]
ReplayPattern(c) == [origin |-> c, rank |-> 0, size |-> MTU]
Cut(data, n) == [data EXCEPT !.size = n]

Frame == [header : Header, data : Pdu, len : {MTU}, echo_ticks : 0 .. Size - 1]

MacInit ==
    /\ d_tx_frame_counter = [c \in Controllers |-> 0]
    /\ d_rx_frame_counter = [c \in Controllers |-> FrameCounterMax]
    /\ d_replay_mode_active = [c \in Controllers |-> FALSE]
    /\ llc = [c \in Controllers |->
                [total |-> 0, interval |-> 0, payload |-> 0,
                 last_print |-> 0, last_ticks |-> 0]]
    /\ phy = [c \in Controllers |->
                [total |-> 0, interval |-> 0, payload |-> 0, latency |-> 0,
                 lost |-> 0, last_print |-> 0, last_ticks |-> 0]]
    /\ llcLines = [c \in Controllers |-> <<>>]
    /\ phyLines = [c \in Controllers |-> <<>>]
    /\ phyOut = [c \in Controllers |-> <<>>]
    /\ llcOut = [c \in Controllers |-> <<>>]
    /\ timing = [c \in Controllers |-> <<>>]

(***************************************************************************)
(* LLCin.                                                                  *)
(***************************************************************************)
\* The counters of the LLC side after a PDU came in, before the status line.
LlcCounted(c, pdu, ticks) ==
    [total |-> llc[c].total + 1, interval |-> llc[c].interval + 1,
     payload |-> llc[c].payload + pdu.size,
     last_print |-> llc[c].last_print, last_ticks |-> ticks]

\* The counters after a status line: a fresh interval.
LlcReset(counted, ticks) ==
    [total |-> counted.total, interval |-> 0, payload |-> 0,
     last_print |-> ticks, last_ticks |-> counted.last_ticks]

\* The frame for a PDU.  In replay mode header and payload are replaced as a
\* whole; the frame is filled up to the MTU in any case.
FrameFor(c, pdu, ticks) ==
    LET echo == (ticks - phy[c].last_ticks) % Size
        frame(header, data) ==
            [header |-> header, data |-> data, len |-> MTU, echo_ticks |-> echo]
    IN  IF d_replay_mode_active[c]
        THEN frame(CreateHeader(DstId(c), SrcId(c), ReplaySequence, ReplayTicks, MTU),
                   ReplayPattern(c))
        ELSE frame(CreateHeader(DstId(c), SrcId(c), d_tx_frame_counter[c], ticks, pdu.size),
                   pdu)

\* A status line is due when the last one is older than the print interval.
PrintLlcStatus(c, counted, ticks) ==
    IF ticks > counted.last_print + PrintInterval
    THEN /\ llcLines' = [llcLines EXCEPT ![c] = Append(@, counted)]
         /\ llc' = [llc EXCEPT ![c] = LlcReset(counted, ticks)]
    ELSE /\ llc' = [llc EXCEPT ![c] = counted]
         /\ UNCHANGED llcLines

\* Mutant: a PDU that fills the frame is taken for too large.
FillsFrame(pdu) == pdu.size >= MTU

TooLarge(pdu) == pdu.size > MTU

\* A PDU above the MTU is dropped after it took a sequence number and without
\* a look at the status line.
HandleLlcMsg(c, pdu, ticks) ==
    /\ d_tx_frame_counter' = [d_tx_frame_counter EXCEPT ![c] = NextFrameCounter(@)]
    /\ IF TooLarge(pdu)
       THEN /\ llc' = [llc EXCEPT ![c] = LlcCounted(c, pdu, ticks)]
            /\ UNCHANGED <<llcLines, phyOut>>
       ELSE /\ phyOut' = [phyOut EXCEPT ![c] = Append(@, FrameFor(c, pdu, ticks))]
            /\ PrintLlcStatus(c, LlcCounted(c, pdu, ticks), ticks)
    /\ UNCHANGED <<d_rx_frame_counter, d_replay_mode_active, phy, phyLines, llcOut, timing>>

(***************************************************************************)
(* PHYin.                                                                  *)
(***************************************************************************)
Accepts(c, frame, intact) ==
    CheckPhyPacket(DstId(c), SrcId(c), frame.header, intact) = "OK"

Latency(timestamp, ticks) ==
    IF ticks >= timestamp THEN ticks - timestamp ELSE timestamp - ticks

\* The PDU published at LLCout for an accepted frame.
PduFrom(c, frame, ticks) ==
    [data         |-> Cut(frame.data, frame.header.payload_size),
     sequence     |-> frame.header.sequence,
     lost_packets |-> LostPackets(frame.header.sequence, d_rx_frame_counter[c]),
     time         |-> frame.header.timestamp,
     latency      |-> Latency(frame.header.timestamp, ticks)]

\* The sum of latencies may exceed uint64_t; the other counters cannot.
PhyCounted(c, msg, ticks) ==
    [total |-> phy[c].total + 1, interval |-> phy[c].interval + 1,
     payload |-> phy[c].payload + msg.data.size,
     latency |-> (phy[c].latency + msg.latency) % Size,
     lost |-> phy[c].lost + msg.lost_packets,
     last_print |-> phy[c].last_print, last_ticks |-> ticks]

\* Mutant: the number of lost packets is not reset.
PhyResetButLost(counted, ticks) ==
    [total |-> counted.total, interval |-> 0, payload |-> 0, latency |-> 0,
     lost |-> counted.lost, last_print |-> ticks, last_ticks |-> counted.last_ticks]

PhyReset(counted, ticks) ==
    [total |-> counted.total, interval |-> 0, payload |-> 0, latency |-> 0,
     lost |-> 0, last_print |-> ticks, last_ticks |-> counted.last_ticks]

PrintPhyStatus(c, counted, ticks) ==
    IF ticks > counted.last_print + PrintInterval
    THEN /\ phyLines' = [phyLines EXCEPT ![c] = Append(@, counted)]
         /\ phy' = [phy EXCEPT ![c] = PhyReset(counted, ticks)]
    ELSE /\ phy' = [phy EXCEPT ![c] = counted]
         /\ UNCHANGED phyLines

TimingMessage(frame, ticks) ==
    [dst_id |-> frame.header.dst, src_id |-> frame.header.src,
     sequence |-> frame.header.sequence, time |-> frame.header.timestamp,
     rx_mac_time |-> ticks]

\* A frame that fails the test leaves no trace but a line in the log.
HandlePhyMsg(c, frame, intact, ticks) ==
    IF Accepts(c, frame, intact)
    THEN LET msg == PduFrom(c, frame, ticks)
         IN  /\ d_rx_frame_counter' = [d_rx_frame_counter EXCEPT ![c] = msg.sequence]
             /\ llcOut' = [llcOut EXCEPT ![c] = Append(@, msg)]
             /\ timing' = [timing EXCEPT ![c] = Append(@, TimingMessage(frame, ticks))]
             /\ PrintPhyStatus(c, PhyCounted(c, msg, ticks), ticks)
             /\ UNCHANGED <<d_tx_frame_counter, d_replay_mode_active, llc, llcLines, phyOut>>
    ELSE UNCHANGED macVars

ActivateReplayMode(c, activate) ==
    /\ d_replay_mode_active' = [d_replay_mode_active EXCEPT ![c] = activate]
    /\ UNCHANGED <<counters, status, outputs>>

(***************************************************************************)
(* The controllers in an arbitrary environment.                            *)
(***************************************************************************)
ReceivePdu(c) ==
    /\ llc[c].total < MaxPdus[c]
    /\ \E size \in PduSizes, ticks \in Ticks :
          HandleLlcMsg(c, [origin |-> c, rank |-> llc[c].total + 1, size |-> size], ticks)

\* The radio hands over a frame as it was sent, or damaged.
Reception(c, frame, ticks) ==
    \/ HandlePhyMsg(c, frame, TRUE, ticks)
    \/ /\ c \in Noisy
       /\ \E header \in Damaged(frame.header) :
             HandlePhyMsg(c, [frame EXCEPT !.header = header], FALSE, ticks)

ReceiveFrame(c) ==
    /\ phy[c].total < MaxFrames[c]
    /\ \E s \in Controllers :
          \E i \in DOMAIN phyOut[s], ticks \in Ticks : Reception(c, phyOut[s][i], ticks)

MacNext ==
    \/ \E c \in Controllers : ReceivePdu(c)
    \/ \E c \in Controllers : ReceiveFrame(c)
    \/ \E c \in ReplayUsers, activate \in BOOLEAN : ActivateReplayMode(c, activate)

MacSpec == MacInit /\ [][MacNext]_macVars

-----------------------------------------------------------------------------
LlcCounters == [total : Nat, interval : Nat, payload : Nat,
                last_print : Ticks \cup {0}, last_ticks : Ticks \cup {0}]
PhyCounters == [total : Nat, interval : Nat, payload : Nat,
                latency : 0 .. Size - 1, lost : Nat,
                last_print : Ticks \cup {0}, last_ticks : Ticks \cup {0}]
LlcMessage  == [data : Pdu, sequence : 0 .. FrameCounterMax,
                lost_packets : 0 .. FrameCounterMax - 1,
                time : 0 .. Size - 1, latency : 0 .. Size - 1]
TimingInfo  == [dst_id : 0 .. Byte - 1, src_id : 0 .. Byte - 1,
                sequence : 0 .. FrameCounterMax,
                time : 0 .. Size - 1, rx_mac_time : Ticks]

\* Every controller's state has the shape of the members of the class, and what
\* it publishes that of the messages.
MacTypeOK ==
    /\ d_tx_frame_counter \in [Controllers -> 0 .. FrameCounterMax - 1]
    /\ d_rx_frame_counter \in [Controllers -> 0 .. FrameCounterMax]
    /\ d_replay_mode_active \in [Controllers -> BOOLEAN]
    /\ llc \in [Controllers -> LlcCounters]
    /\ phy \in [Controllers -> PhyCounters]
    /\ llcLines \in [Controllers -> Seq(LlcCounters)]
    /\ phyLines \in [Controllers -> Seq(PhyCounters)]
    /\ phyOut \in [Controllers -> Seq(Frame)]
    /\ llcOut \in [Controllers -> Seq(LlcMessage)]
    /\ timing \in [Controllers -> Seq(TimingInfo)]

(***************************************************************************)
(* Safety.                                                                 *)
(***************************************************************************)
\* The sum of a sequence of numbers.
SumOf(values) ==
    LET sum[i \in 0 .. Len(values)] == IF i = 0 THEN 0 ELSE sum[i - 1] + values[i]
    IN  sum[Len(values)]

\* A status line of the PHY side tells of these PDUs.
TellsOf(line, covered) ==
    /\ line.interval = Len(covered)
    /\ line.payload = SumOf([i \in DOMAIN covered |-> covered[i].data.size])
    /\ line.lost = SumOf([i \in DOMAIN covered |-> covered[i].lost_packets])
    /\ line.latency = SumOf([i \in DOMAIN covered |-> covered[i].latency]) % Size

\* What line k of a log covers: the messages counted since line k - 1.
CountedBefore(lines, k) == IF k = 1 THEN 0 ELSE lines[k - 1].total

\* The status lines account for every message exactly once.  Line by line, and
\* in the interval still open, the logged number of packets, bytes, lost packets
\* and nanoseconds of latency are those of the PDUs published at LLCout since the
\* line before (handle_phy_msg adds up, print_phy_message_status resets), and
\* the LLC side's intervals add up to its total (handle_llc_msg, which returns
\* before the status line when it drops a PDU).
StatusLinesAccount ==
    \A c \in Controllers :
        /\ LET lines == Append(phyLines[c], phy[c])
           IN  \A k \in DOMAIN lines :
                 TellsOf(lines[k], SubSeq(llcOut[c], CountedBefore(lines, k) + 1, lines[k].total))
        /\ LET lines == Append(llcLines[c], llc[c])
           IN  \A k \in DOMAIN lines :
                 lines[k].total = CountedBefore(lines, k) + lines[k].interval

\* The number of lost packets in the metadata is the number of sequence numbers
\* skipped since the PDU delivered before, on the circle of 2^16 numbers, however
\* frames were lost, repeated, reordered or rejected in between; a repeated
\* number counts as nothing lost (lost_packets in handle_phy_msg).
LossReportIsSkipped ==
    \A c \in Controllers : \A i \in DOMAIN llcOut[c] :
        LET last == IF i = 1 THEN FrameCounterMax ELSE llcOut[c][i - 1].sequence
        IN  llcOut[c][i].lost_packets = SkippedNumbers(llcOut[c][i].sequence, last)

\* What a controller delivers was published by its peer, whole and unchanged:
\* never by another controller, its own side, or cut to another size
\* (check_phy_packet and the copy of payload_size bytes in handle_phy_msg).
DeliveredWasSent ==
    \A c \in Controllers : \A i \in DOMAIN llcOut[c] :
        \E j \in DOMAIN phyOut[Peer(c)] : llcOut[c][i].data = phyOut[Peer(c)][j].data

\* The sequence number of a frame tells the rank of its PDU among all that came in
\* at LLCin, those dropped for their size and those replaced in replay mode
\* included (d_tx_frame_counter advances before either is decided).
SequenceCountsPdus ==
    \A c \in Controllers : \A i \in DOMAIN phyOut[c] :
        LET f == phyOut[c][i]
        IN  f.data.rank # 0 => f.header.sequence = (f.data.rank - 1) % FrameCounterMax
=============================================================================
