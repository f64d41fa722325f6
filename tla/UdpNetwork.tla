----------------------------- MODULE UdpNetwork -----------------------------
(***************************************************************************)
(* Base station and devices: the UDP interfaces (python/udp_interface.py)  *)
(* with their MAC controllers, connected by the radio.  The UDP interface  *)
(* of a station gives each of its controllers a UDP server, whose          *)
(* datagrams go to LLCin, and hands every received frame to all of its     *)
(* controllers.  GNU Radio queues the messages of each port in order.      *)
(*                                                                         *)
(* The physical layer is external: a frame is broadcast to all stations,   *)
(* the sender's own included, in the order of publication.  What a         *)
(* receiver makes of it is chosen when its handler runs; a frame the       *)
(* receiver never detects is one it rejects, neither changes its state.    *)
(***************************************************************************)
EXTENDS MacController, SequencesExt

VARIABLES
    llcIn,       \* queue of the port LLCin of each controller
    phyIn,       \* queue of the port PHYin of each controller
    offered,     \* number of datagrams received by each UDP server
    replayCall   \* per station: the call of activate_replay_mode in progress

queues  == <<llcIn, phyIn>>
netVars == <<macVars, queues, offered, replayCall>>

Stations == {SrcId(c) : c \in Controllers}
AtStation(s) == {c \in Controllers : SrcId(c) = s}

\* Mutant: a list that lacks the last controller.
MacControllersButLast(s) ==
    {c \in AtStation(s) : \E d \in AtStation(s) : DstId(c) < DstId(d)}

\* The list _mac_controllers of a station, which is built and visited by increasing dst_id.
MacControllers(s) == AtStation(s)

NetInit ==
    /\ MacInit
    /\ llcIn = [c \in Controllers |-> <<>>]
    /\ phyIn = [c \in Controllers |-> <<>>]
    /\ offered = [c \in Controllers |-> 0]
    /\ replayCall = [s \in Stations |-> [activate |-> FALSE, todo |-> {}]]

\* A datagram arrives at the UDP server of a controller.  The server is told the
\* MTU as its buffer size; the model hands larger datagrams on as well, so that
\* the controller's own check of the size is exercised in the network.
UdpServer(c) ==
    /\ offered[c] < MaxPdus[c]
    /\ offered' = [offered EXCEPT ![c] = @ + 1]
    /\ \E size \in PduSizes :
          llcIn' = [llcIn EXCEPT ![c] =
                       Append(@, [origin |-> c, rank |-> offered[c] + 1, size |-> size])]
    /\ UNCHANGED <<macVars, phyIn, replayCall>>

HandleLlc(c) ==
    /\ llcIn[c] # <<>>
    /\ \E ticks \in Ticks : HandleLlcMsg(c, Head(llcIn[c]), ticks)
    /\ llcIn' = [llcIn EXCEPT ![c] = Tail(@)]
    /\ UNCHANGED <<phyIn, offered, replayCall>>

\* The transmitter takes a frame; it reaches PHYin of every controller.
Transmit(c) ==
    /\ phyOut[c] # <<>>
    /\ phyIn' = [d \in Controllers |-> Append(phyIn[d], Head(phyOut[c]))]
    /\ phyOut' = [phyOut EXCEPT ![c] = Tail(@)]
    /\ UNCHANGED <<counters, d_replay_mode_active, status, llcOut, timing,
                   llcIn, offered, replayCall>>

\* Mutant: a queue that keeps its last message.
HandlePhyButLast(c) ==
    /\ Len(phyIn[c]) > 1
    /\ \E ticks \in Ticks : Reception(c, Head(phyIn[c]), ticks)
    /\ phyIn' = [phyIn EXCEPT ![c] = Tail(@)]
    /\ UNCHANGED <<llcIn, offered, replayCall>>

HandlePhy(c) ==
    /\ phyIn[c] # <<>>
    /\ \E ticks \in Ticks : Reception(c, Head(phyIn[c]), ticks)
    /\ phyIn' = [phyIn EXCEPT ![c] = Tail(@)]
    /\ UNCHANGED <<llcIn, offered, replayCall>>

(***************************************************************************)
(* activate_replay_mode of the UDP interface: the control thread visits    *)
(* the station's controllers one by one while their handlers keep running. *)
(***************************************************************************)
CallActivateReplayMode(s, activate) ==
    /\ AtStation(s) \subseteq ReplayUsers
    /\ replayCall[s].todo = {}
    /\ replayCall' = [replayCall EXCEPT ![s] =
                         [activate |-> activate, todo |-> MacControllers(s)]]
    /\ UNCHANGED <<macVars, queues, offered>>

VisitController(s) ==
    /\ \E c \in replayCall[s].todo :
         /\ \A d \in replayCall[s].todo : DstId(c) <= DstId(d)
         /\ ActivateReplayMode(c, replayCall[s].activate)
         /\ replayCall' = [replayCall EXCEPT ![s].todo = @ \ {c}]
    /\ UNCHANGED <<queues, offered>>

NetNext ==
    \/ \E c \in Controllers : UdpServer(c)
    \/ \E c \in Controllers : HandleLlc(c)
    \/ \E c \in Controllers : Transmit(c)
    \/ \E c \in Controllers : HandlePhy(c)
    \/ \E s \in Stations, activate \in BOOLEAN : CallActivateReplayMode(s, activate)
    \/ \E s \in Stations : VisitController(s)

NetSpec == NetInit /\ [][NetNext]_netVars

\* A block's thread runs whenever a message waits at one of its ports.
NetFairSpec ==
    /\ NetSpec
    /\ \A c \in Controllers : WF_netVars(HandleLlc(c)) /\ WF_netVars(HandlePhy(c))
    /\ \A c \in Controllers : WF_netVars(Transmit(c))

-----------------------------------------------------------------------------
\* The queues hold PDUs of their own controller, and frames of any.
NetTypeOK ==
    /\ MacTypeOK
    /\ llcIn \in [Controllers -> Seq(Pdu)]
    /\ phyIn \in [Controllers -> Seq(Frame)]
    /\ offered \in [Controllers -> Nat]
    /\ replayCall \in [Stations -> [activate : BOOLEAN, todo : SUBSET Controllers]]

\* How often the sender's counter was reset before the PDU with this rank.
Epoch(rank) == (rank - 1) \div FrameCounterMax

\* The number of lost packets is exact as long as the sender's counter was not
\* reset in between: PDUs dropped for their size and frames lost by the radio are
\* counted, frames for others are not.  Across one reset it is one too many.  Holds
\* where nobody uses replay mode (d_tx_frame_counter wraps at 65535, the receiver's
\* arithmetic at 65536).
LossReportExact ==
    \A c \in Controllers : \A i \in DOMAIN llcOut[c] :
        LET this == llcOut[c][i].data.rank
            last == IF i = 1 THEN 0 ELSE llcOut[c][i - 1].data.rank
            gap  == this - last - 1
            lost == llcOut[c][i].lost_packets
        IN  /\ Epoch(this) = (IF last = 0 THEN 0 ELSE Epoch(last)) => lost = gap
            /\ last # 0 /\ Epoch(this) = Epoch(last) + 1 /\ gap < Word - 2
                  => lost = gap + 1

\* On a link that loses nothing no loss is reported: the expectation of
\* qa_mac_controller.py, test_003, for sequence numbers that count modulo 2^16.
LosslessLinkReportsZero ==
    \A c \in Controllers : \A i \in DOMAIN llcOut[c] : llcOut[c][i].lost_packets = 0

\* When no call of activate_replay_mode is under way, the controllers of a station
\* agree on the mode, as the assertion in replay_mode (udp_interface.py) demands.
ReplayModesAgree ==
    \A s \in Stations : replayCall[s].todo = {} =>
        \A c, d \in AtStation(s) : d_replay_mode_active[c] = d_replay_mode_active[d]

\* Everything that came in at a UDP server of a lossless network comes out at the
\* UDP client of the peer, however the handlers of all stations interleave.
LosslessLinkDelivers ==
    \A c \in Controllers : \A n \in 1 .. MaxPdus[c] :
        (offered[c] >= n) ~> (Len(llcOut[Peer(c)]) >= n)

(***************************************************************************)
(* The links the applications see.  In transit from a controller to its    *)
(* peer are the PDUs not yet handled, those in frames not yet transmitted, *)
(* and those in frames waiting at the peer.                                *)
(***************************************************************************)
Senders == {c \in Controllers : Peer(c) \in Controllers}

PdusOf(c, frames) ==
    { frames[i].data : i \in { i \in DOMAIN frames :
                                 frames[i].data.origin = c /\ frames[i].data.rank # 0 } }

offeredPdus == [c \in Senders |-> offered[c]]

inTransitPdus ==
    [c \in Senders |->
        Range(llcIn[c])
        \cup PdusOf(c, phyOut[c]) \cup PdusOf(c, phyIn[Peer(c)])]

deliveredPdus == [c \in Senders |-> [i \in DOMAIN llcOut[Peer(c)] |-> llcOut[Peer(c)][i].data]]

LinkPdus ==
    [c \in Senders |->
        {[origin |-> c, rank |-> r, size |-> n] : r \in 1 .. MaxPdus[c], n \in PduSizes}]

LinkPatterns == [c \in Senders |-> IF c \in ReplayUsers THEN {ReplayPattern(c)} ELSE {}]

Link == INSTANCE LossyLink WITH
            Links <- Senders, Pdus <- LinkPdus, Patterns <- LinkPatterns,
            offered <- offeredPdus, inTransit <- inTransitPdus, delivered <- deliveredPdus

\* Each pair of controllers is a link that may lose PDUs and nothing worse.
ImplementsLossyLink == Link!LinkSpec

\* The same with fairness: every PDU is delivered or lost at last.
ImplementsFairLink == Link!LinkFairSpec
=============================================================================
