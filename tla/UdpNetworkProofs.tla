-------------------------- MODULE UdpNetworkProofs --------------------------
(***************************************************************************)
(* Theorems about the network of stations, for every set of controllers,   *)
(* every width, MTU, traffic and interleaving: that each pair of           *)
(* controllers implements the link of LossyLink, that the number of lost   *)
(* packets is exact, and that the controllers of a station agree on the    *)
(* replay mode.                                                            *)
(***************************************************************************)
EXTENDS UdpNetwork, MacControllerProofs

(***************************************************************************)
(* Queues.                                                                 *)
(***************************************************************************)
LEMMA HeadTailFacts ==
    ASSUME NEW S, NEW q \in Seq(S), q # <<>>
    PROVE  /\ Len(q) \in Nat \ {0} /\ DOMAIN q = 1 .. Len(q)
           /\ Head(q) = q[1] /\ Head(q) \in S
           /\ Tail(q) \in Seq(S)
           /\ Len(Tail(q)) = Len(q) - 1 /\ DOMAIN Tail(q) = 1 .. Len(q) - 1
           /\ \A i \in 1 .. Len(q) - 1 : Tail(q)[i] = q[i + 1]
<1>1. Len(q) \in Nat /\ DOMAIN q = 1 .. Len(q) /\ Len(q) # 0
  OBVIOUS
<1>2. Head(q) = q[1] /\ Head(q) \in S
  BY <1>1
<1>3. Tail(q) \in Seq(S) /\ Len(Tail(q)) = Len(q) - 1
  OBVIOUS
<1>4. \A i \in 1 .. Len(q) - 1 : Tail(q)[i] = q[i + 1]
  BY <1>1
<1>5. DOMAIN Tail(q) = 1 .. Len(q) - 1
  BY <1>3
<1> QED
  BY <1>1, <1>2, <1>3, <1>4, <1>5

LEMMA AppendElements ==
    ASSUME NEW S, NEW q \in Seq(S), NEW x \in S, NEW i \in DOMAIN Append(q, x)
    PROVE  Append(q, x)[i] = x \/ \E k \in DOMAIN q : Append(q, x)[i] = q[k]
<1>1. i \in 1 .. Len(q) + 1 /\ Len(q) \in Nat
  BY AppendFacts
<1>2. CASE i = Len(q) + 1
  BY <1>2, AppendFacts
<1>3. CASE i \in 1 .. Len(q)
  BY <1>3, AppendFacts
<1> QED
  BY <1>1, <1>2, <1>3

LEMMA TailElements ==
    ASSUME NEW S, NEW q \in Seq(S), q # <<>>, NEW i \in DOMAIN Tail(q)
    PROVE  \E k \in DOMAIN q : Tail(q)[i] = q[k]
<1>1. /\ Len(q) \in Nat /\ i \in 1 .. Len(q) - 1 /\ DOMAIN q = 1 .. Len(q)
      /\ Tail(q)[i] = q[i + 1]
  BY HeadTailFacts
<1>2. i + 1 \in DOMAIN q
  BY <1>1
<1> QED
  BY <1>1, <1>2

\* A PDU of controller c that is no replay pattern, in a frame or at LLCout.
Real(c, x) == x.data.origin = c /\ x.data.rank # 0

\* The PDUs of c in q have increasing ranks.
InOrder(c, q) ==
    \A i, j \in DOMAIN q :
        i < j /\ Real(c, q[i]) /\ Real(c, q[j]) => q[i].data.rank < q[j].data.rank

\* The PDUs of c in q have lower ranks than those in r.
Precedes(c, q, r) ==
    \A i \in DOMAIN q, j \in DOMAIN r :
        Real(c, q[i]) /\ Real(c, r[j]) => q[i].data.rank < r[j].data.rank

\* The PDUs of c in q have a lower rank than x, if x is one.
AllBelow(c, q, x) ==
    \A i \in DOMAIN q : Real(c, q[i]) /\ Real(c, x) => q[i].data.rank < x.data.rank

\* x, if it is a PDU of c, has a lower rank than those in q.
BelowAll(c, x, q) ==
    \A i \in DOMAIN q : Real(c, x) /\ Real(c, q[i]) => x.data.rank < q[i].data.rank

LEMMA OrderAppend ==
    ASSUME NEW S, NEW q \in Seq(S), NEW x \in S, NEW c, InOrder(c, q), AllBelow(c, q, x)
    PROVE  InOrder(c, Append(q, x))
<1> DEFINE n == Len(q)
           out == Append(q, x)
<1>1. /\ n \in Nat /\ out[n + 1] = x
      /\ DOMAIN out = 1 .. n + 1 /\ DOMAIN q = 1 .. n
      /\ \A i \in 1 .. n : out[i] = q[i]
  BY AppendFacts
<1> HIDE DEF out, n
<1>2. SUFFICES ASSUME NEW i \in DOMAIN out, NEW j \in DOMAIN out, i < j,
                      Real(c, out[i]), Real(c, out[j])
               PROVE  out[i].data.rank < out[j].data.rank
  BY DEF InOrder, out
<1>3. i \in 1 .. n
  BY <1>1, <1>2
<1>4. CASE j \in 1 .. n
  BY <1>1, <1>2, <1>3, <1>4 DEF InOrder
<1>5. CASE j = n + 1
  BY <1>1, <1>2, <1>3, <1>5 DEF AllBelow
<1> QED
  BY <1>1, <1>4, <1>5

LEMMA OrderTail ==
    ASSUME NEW S, NEW q \in Seq(S), q # <<>>, NEW c, InOrder(c, q)
    PROVE  InOrder(c, Tail(q)) /\ BelowAll(c, Head(q), Tail(q))
<1> DEFINE n == Len(q)
           rest == Tail(q)
<1>1. /\ n \in Nat \ {0} /\ DOMAIN q = 1 .. n /\ Head(q) = q[1]
      /\ DOMAIN rest = 1 .. n - 1
      /\ \A i \in 1 .. n - 1 : rest[i] = q[i + 1]
  BY HeadTailFacts
<1> HIDE DEF n, rest
<1>2. ASSUME NEW i \in 1 .. n - 1
      PROVE  i + 1 \in DOMAIN q /\ 1 \in DOMAIN q /\ rest[i] = q[i + 1] /\ 1 < i + 1
  BY <1>1
<1>3. InOrder(c, rest)
  <2> SUFFICES ASSUME NEW i \in DOMAIN rest, NEW j \in DOMAIN rest, i < j,
                      Real(c, rest[i]), Real(c, rest[j])
               PROVE  rest[i].data.rank < rest[j].data.rank
    BY DEF InOrder
  <2>1. i + 1 < j + 1
    BY <1>1
  <2> QED
    BY <2>1, <1>1, <1>2 DEF InOrder
<1>4. BelowAll(c, Head(q), rest)
  BY <1>1, <1>2 DEF BelowAll, InOrder
<1> QED
  BY <1>3, <1>4 DEF rest

LEMMA PrecedesAppendLeft ==
    ASSUME NEW S, NEW q \in Seq(S), NEW x \in S, NEW r, NEW c,
           Precedes(c, q, r), BelowAll(c, x, r)
    PROVE  Precedes(c, Append(q, x), r)
<1> DEFINE n == Len(q)
           out == Append(q, x)
<1>1. /\ n \in Nat /\ out[n + 1] = x
      /\ DOMAIN out = 1 .. n + 1 /\ DOMAIN q = 1 .. n
      /\ \A i \in 1 .. n : out[i] = q[i]
  BY AppendFacts
<1> HIDE DEF out, n
<1>2. ASSUME NEW i \in DOMAIN out PROVE (i \in DOMAIN q /\ out[i] = q[i]) \/ out[i] = x
  BY <1>1
<1>3. Precedes(c, out, r)
  BY <1>2 DEF Precedes, BelowAll
<1> QED
  BY <1>3 DEF out

LEMMA PrecedesAppendRight ==
    ASSUME NEW S, NEW r \in Seq(S), NEW x \in S, NEW q, NEW c,
           Precedes(c, q, r), AllBelow(c, q, x)
    PROVE  Precedes(c, q, Append(r, x))
<1> DEFINE n == Len(r)
           out == Append(r, x)
<1>1. /\ n \in Nat /\ out[n + 1] = x
      /\ DOMAIN out = 1 .. n + 1 /\ DOMAIN r = 1 .. n
      /\ \A i \in 1 .. n : out[i] = r[i]
  BY AppendFacts
<1> HIDE DEF out, n
<1>2. ASSUME NEW i \in DOMAIN out PROVE (i \in DOMAIN r /\ out[i] = r[i]) \/ out[i] = x
  BY <1>1
<1>3. Precedes(c, q, out)
  BY <1>2 DEF Precedes, AllBelow
<1> QED
  BY <1>3 DEF out

LEMMA PrecedesTail ==
    ASSUME NEW S, NEW q \in Seq(S), q # <<>>, NEW c, NEW r
    PROVE  /\ Precedes(c, q, r) => Precedes(c, Tail(q), r) /\ BelowAll(c, Head(q), r)
           /\ Precedes(c, r, q) => Precedes(c, r, Tail(q)) /\ AllBelow(c, r, Head(q))
<1> DEFINE n == Len(q)
           rest == Tail(q)
<1>1. /\ n \in Nat \ {0} /\ DOMAIN q = 1 .. n /\ Head(q) = q[1]
      /\ DOMAIN rest = 1 .. n - 1
      /\ \A i \in 1 .. n - 1 : rest[i] = q[i + 1]
  BY HeadTailFacts
<1> HIDE DEF n, rest
<1>2. ASSUME NEW i \in DOMAIN rest PROVE \E k \in DOMAIN q : rest[i] = q[k]
  <2>1. i + 1 \in DOMAIN q
    BY <1>1
  <2> QED
    BY <2>1, <1>1
<1>3. 1 \in DOMAIN q
  BY <1>1
<1>4. Precedes(c, q, r) => Precedes(c, rest, r) /\ BelowAll(c, Head(q), r)
  BY <1>1, <1>2, <1>3, Zenon DEF Precedes, BelowAll
<1>5. Precedes(c, r, q) => Precedes(c, r, rest) /\ AllBelow(c, r, Head(q))
  BY <1>1, <1>2, <1>3, Zenon DEF Precedes, AllBelow
<1> QED
  BY <1>4, <1>5 DEF rest

-----------------------------------------------------------------------------
(***************************************************************************)
(* Typing.                                                                 *)
(***************************************************************************)
LEMMA NetInitType == NetInit => NetTypeOK
BY MacInitType DEF NetInit, NetTypeOK

LEMMA UdpServerType ==
    ASSUME NetTypeOK, NEW c \in Controllers, UdpServer(c)
    PROVE  NetTypeOK'
<1>1. PICK size \in PduSizes :
        llcIn' = [llcIn EXCEPT ![c] =
                     Append(@, [origin |-> c, rank |-> offered[c] + 1, size |-> size])]
  BY DEF UdpServer
<1> DEFINE pdu == [origin |-> c, rank |-> offered[c] + 1, size |-> size]
<1>2. pdu \in Pdu
  <2>1. offered[c] + 1 \in Nat /\ size \in Nat
    BY ControllerTypes DEF NetTypeOK
  <2> QED
    BY <2>1 DEF Pdu
<1> HIDE DEF pdu
<1>3. llcIn' \in [Controllers -> Seq(Pdu)]
  <2>1. [llcIn EXCEPT ![c] = Append(@, pdu)] \in [Controllers -> Seq(Pdu)]
    BY <1>2, AppendType DEF NetTypeOK
  <2> QED
    BY <1>1, <2>1 DEF pdu
<1>4. offered' \in [Controllers -> Nat]
  BY DEF UdpServer, NetTypeOK
<1>5. MacTypeOK'
  BY DEF UdpServer, NetTypeOK, MacTypeOK, macVars, counters, status, outputs
<1> QED
  BY <1>3, <1>4, <1>5 DEF NetTypeOK, UdpServer

\* Taking the head off one queue of a family of queues.
LEMMA TailType ==
    ASSUME NEW S, NEW family \in [Controllers -> Seq(S)], NEW c \in Controllers,
           family[c] # <<>>
    PROVE  [family EXCEPT ![c] = Tail(@)] \in [Controllers -> Seq(S)]
<1>1. Tail(family[c]) \in Seq(S)
  OBVIOUS
<1> QED
  BY <1>1

LEMMA HandleLlcType ==
    ASSUME NetTypeOK, NEW c \in Controllers, HandleLlc(c)
    PROVE  NetTypeOK'
<1>1. PICK ticks \in Ticks : HandleLlcMsg(c, Head(llcIn[c]), ticks)
  BY DEF HandleLlc
<1>2. Head(llcIn[c]) \in Pdu
  BY HeadTailFacts DEF HandleLlc, NetTypeOK
<1>3. MacTypeOK'
  BY <1>1, <1>2, HandleLlcMsgType DEF NetTypeOK
<1>4. llcIn' \in [Controllers -> Seq(Pdu)]
  BY TailType DEF HandleLlc, NetTypeOK
<1> QED
  BY <1>3, <1>4 DEF HandleLlc, NetTypeOK

LEMMA TransmitType ==
    ASSUME NetTypeOK, NEW c \in Controllers, Transmit(c)
    PROVE  NetTypeOK'
<1>1. Head(phyOut[c]) \in Frame
  BY HeadTailFacts DEF Transmit, NetTypeOK, MacTypeOK
<1>2. ASSUME NEW d \in Controllers PROVE Append(phyIn[d], Head(phyOut[c])) \in Seq(Frame)
  BY <1>1 DEF NetTypeOK
<1>3. phyIn' \in [Controllers -> Seq(Frame)]
  BY <1>2 DEF Transmit
<1>4. phyOut' \in [Controllers -> Seq(Frame)]
  BY TailType DEF Transmit, NetTypeOK, MacTypeOK
<1>5. MacTypeOK'
  BY <1>4 DEF Transmit, NetTypeOK, MacTypeOK, counters, status
<1> QED
  BY <1>3, <1>5 DEF Transmit, NetTypeOK

LEMMA HandlePhyType ==
    ASSUME NetTypeOK, NEW c \in Controllers, HandlePhy(c)
    PROVE  NetTypeOK'
<1>1. PICK ticks \in Ticks : Reception(c, Head(phyIn[c]), ticks)
  BY DEF HandlePhy
<1>2. Head(phyIn[c]) \in Frame
  BY HeadTailFacts DEF HandlePhy, NetTypeOK
<1>3. MacTypeOK'
  BY <1>1, <1>2, ReceptionType DEF NetTypeOK
<1>4. phyIn' \in [Controllers -> Seq(Frame)]
  BY TailType DEF HandlePhy, NetTypeOK
<1> QED
  BY <1>3, <1>4 DEF HandlePhy, NetTypeOK

LEMMA CallActivateReplayModeType ==
    ASSUME NetTypeOK, NEW s \in Stations, NEW activate \in BOOLEAN,
           CallActivateReplayMode(s, activate)
    PROVE  NetTypeOK'
<1>1. MacTypeOK'
  BY DEF CallActivateReplayMode, NetTypeOK, MacTypeOK, macVars, counters, status, outputs
<1>2. AtStation(s) \subseteq Controllers
  BY DEF AtStation
<1>3. replayCall' \in [Stations -> [activate : BOOLEAN, todo : SUBSET Controllers]]
  BY <1>2 DEF CallActivateReplayMode, NetTypeOK, MacControllers
<1> QED
  BY <1>1, <1>3 DEF CallActivateReplayMode, NetTypeOK, queues

LEMMA VisitControllerType ==
    ASSUME NetTypeOK, NEW s \in Stations, VisitController(s)
    PROVE  NetTypeOK'
<1>1. PICK c \in replayCall[s].todo :
        /\ ActivateReplayMode(c, replayCall[s].activate)
        /\ replayCall' = [replayCall EXCEPT ![s].todo = @ \ {c}]
  BY DEF VisitController
<1>2. c \in Controllers /\ replayCall[s].activate \in BOOLEAN
  BY DEF NetTypeOK
<1>3. MacTypeOK'
  BY <1>1, <1>2, ActivateReplayModeType DEF NetTypeOK
<1>4. replayCall' \in [Stations -> [activate : BOOLEAN, todo : SUBSET Controllers]]
  BY <1>1 DEF NetTypeOK
<1> QED
  BY <1>3, <1>4 DEF VisitController, NetTypeOK, queues

LEMMA NetNextType == NetTypeOK /\ [NetNext]_netVars => NetTypeOK'
<1> SUFFICES ASSUME NetTypeOK, [NetNext]_netVars PROVE NetTypeOK'
  OBVIOUS
<1>1. CASE UNCHANGED netVars
  BY <1>1 DEF NetTypeOK, MacTypeOK, netVars, queues, macVars, counters, status, outputs
<1> QED
  BY <1>1, UdpServerType, HandleLlcType, TransmitType, HandlePhyType,
     CallActivateReplayModeType, VisitControllerType DEF NetNext

\* The queues between the blocks only ever hold PDUs of their own controller's kind and
\* whole frames, and the controllers keep their types and the ranges of their counters.
THEOREM NetTyping == NetSpec => []NetTypeOK
<1>1. NetInit => NetTypeOK
  BY NetInitType
<1>2. NetTypeOK /\ [NetNext]_netVars => NetTypeOK'
  BY NetNextType
<1> QED
  BY <1>1, <1>2, PTL DEF NetSpec

-----------------------------------------------------------------------------
(***************************************************************************)
(* Replay mode.  The control thread walks through the controllers of a     *)
(* station; those it has passed, or all when it is not under way, have the *)
(* mode of the last call.                                                  *)
(***************************************************************************)
VisitedAgree ==
    \A s \in Stations :
        /\ replayCall[s].todo \subseteq AtStation(s)
        /\ \A c \in AtStation(s) \ replayCall[s].todo :
              d_replay_mode_active[c] = replayCall[s].activate

ReplayInv == NetTypeOK /\ VisitedAgree

LEMMA StationOf ==
    /\ \A c \in Controllers : SrcId(c) \in Stations /\ c \in AtStation(SrcId(c))
    /\ \A s, t \in Stations : s # t => AtStation(s) \cap AtStation(t) = {}
BY DEF Stations, AtStation

LEMMA ReplayUnchanged ==
    ASSUME ReplayInv, UNCHANGED <<replayCall, d_replay_mode_active>>
    PROVE  VisitedAgree'
BY DEF ReplayInv, VisitedAgree

LEMMA ReplayNext == ReplayInv /\ [NetNext]_netVars => ReplayInv'
<1> SUFFICES ASSUME ReplayInv, [NetNext]_netVars PROVE VisitedAgree'
  BY NetNextType DEF ReplayInv
<1>1. ASSUME NEW c \in Controllers, UdpServer(c) PROVE VisitedAgree'
  BY <1>1, ReplayUnchanged DEF UdpServer, macVars
<1>2. ASSUME NEW c \in Controllers, HandleLlc(c) PROVE VisitedAgree'
  BY <1>2, ReplayUnchanged DEF HandleLlc, HandleLlcMsg
<1>3. ASSUME NEW c \in Controllers, Transmit(c) PROVE VisitedAgree'
  BY <1>3, ReplayUnchanged DEF Transmit
<1>4. ASSUME NEW c \in Controllers, HandlePhy(c) PROVE VisitedAgree'
  BY <1>4, ReplayUnchanged DEF HandlePhy, Reception, HandlePhyMsg, macVars
<1>5. ASSUME NEW s \in Stations, NEW activate \in BOOLEAN, CallActivateReplayMode(s, activate)
      PROVE  VisitedAgree'
  <2>1. /\ replayCall' = [replayCall EXCEPT ![s] =
                             [activate |-> activate, todo |-> AtStation(s)]]
        /\ d_replay_mode_active' = d_replay_mode_active
    BY <1>5 DEF CallActivateReplayMode, MacControllers, macVars
  <2>2. replayCall'[s].todo = AtStation(s)
    BY <2>1 DEF ReplayInv, NetTypeOK
  <2>3. \A t \in Stations \ {s} : replayCall'[t] = replayCall[t]
    BY <2>1 DEF ReplayInv, NetTypeOK
  <2> QED
    BY <2>1, <2>2, <2>3 DEF ReplayInv, VisitedAgree
<1>6. ASSUME NEW s \in Stations, VisitController(s) PROVE VisitedAgree'
  <2>1. PICK c \in replayCall[s].todo :
          /\ ActivateReplayMode(c, replayCall[s].activate)
          /\ replayCall' = [replayCall EXCEPT ![s].todo = @ \ {c}]
    BY <1>6 DEF VisitController
  <2>2. c \in AtStation(s) /\ c \in Controllers
    BY DEF ReplayInv, VisitedAgree, AtStation
  <2>3. /\ replayCall'[s].todo = replayCall[s].todo \ {c}
        /\ replayCall'[s].activate = replayCall[s].activate
        /\ \A t \in Stations \ {s} : replayCall'[t] = replayCall[t]
    BY <2>1 DEF ReplayInv, NetTypeOK
  <2>4. /\ d_replay_mode_active'[c] = replayCall[s].activate
        /\ \A d \in Controllers \ {c} : d_replay_mode_active'[d] = d_replay_mode_active[d]
    BY <2>1, <2>2 DEF ActivateReplayMode, ReplayInv, NetTypeOK, MacTypeOK
  <2>5. ASSUME NEW t \in Stations
        PROVE  /\ replayCall'[t].todo \subseteq AtStation(t)
               /\ \A d \in AtStation(t) \ replayCall'[t].todo :
                     d_replay_mode_active'[d] = replayCall'[t].activate
    <3>1. AtStation(t) \subseteq Controllers
      BY DEF AtStation
    <3>2. CASE t = s
      BY <3>1, <3>2, <2>3, <2>4 DEF ReplayInv, VisitedAgree
    <3>3. CASE t # s
      <4>1. c \notin AtStation(t)
        BY <2>2, <3>3, StationOf
      <4> QED
        BY <4>1, <3>1, <3>3, <2>3, <2>4 DEF ReplayInv, VisitedAgree
    <3> QED
      BY <3>2, <3>3
  <2> QED
    BY <2>5 DEF VisitedAgree, AtStation
<1>7. CASE UNCHANGED netVars
  BY <1>7, ReplayUnchanged DEF netVars, macVars
<1> QED
  BY <1>1, <1>2, <1>3, <1>4, <1>5, <1>6, <1>7 DEF NetNext

\* However the calls of activate_replay_mode interleave with the handlers and with the
\* calls at other stations: whenever none is under way at a station its controllers
\* agree, so the assertion in replay_mode (udp_interface.py) holds.
THEOREM ReplayModesAlwaysAgree == NetSpec => []ReplayModesAgree
<1>1. NetInit => ReplayInv
  <2> SUFFICES ASSUME NetInit PROVE VisitedAgree
    BY NetInitType DEF ReplayInv
  <2>1. \A s \in Stations : replayCall[s].todo = {} /\ ~replayCall[s].activate
    BY DEF NetInit
  <2>2. \A c \in Controllers : ~d_replay_mode_active[c]
    BY DEF NetInit, MacInit
  <2>3. \A s \in Stations : AtStation(s) \subseteq Controllers
    BY DEF AtStation
  <2> QED
    BY <2>1, <2>2, <2>3 DEF VisitedAgree, NetInit, MacInit
<1>2. ReplayInv /\ [NetNext]_netVars => ReplayInv'
  BY ReplayNext
<1>3. ReplayInv => ReplayModesAgree
  BY DEF ReplayInv, VisitedAgree, ReplayModesAgree
<1> QED
  BY <1>1, <1>2, <1>3, PTL DEF NetSpec

-----------------------------------------------------------------------------
(***************************************************************************)
(* The inductive invariant of the links.  The rank of a PDU says where it  *)
(* is: the PDUs in the queue of LLCin are numbered on from the number of   *)
(* PDUs handled, those in frames and at LLCout are among the ones handled, *)
(* and from LLCout of a receiver over its queue to PHYout of the sender    *)
(* the ranks increase.                                                     *)
(***************************************************************************)
WaitingKnown ==
    \A c \in Controllers :
        /\ offered[c] = llc[c].total + Len(llcIn[c])
        /\ \A i \in DOMAIN llcIn[c] :
              llcIn[c][i].origin = c /\ llcIn[c][i].rank = llc[c].total + i

\* A PDU of controller c, of which total were handled, with its sequence number.
Numbered(c, total, pdu, sequence) ==
    /\ pdu.origin = c
    /\ pdu.rank <= total
    /\ pdu.rank # 0 => sequence = (pdu.rank - 1) % FrameCounterMax
    /\ pdu.rank = 0 => c \in ReplayUsers /\ pdu = ReplayPattern(c)

Sound(c, total, f) == WellFormed(c, f) /\ Numbered(c, total, f.data, f.header.sequence)

PublishedSound ==
    \A c \in Controllers : \A i \in DOMAIN phyOut[c] : Sound(c, llc[c].total, phyOut[c][i])

FrameSound(f) == Sound(f.data.origin, llc[f.data.origin].total, f)

InAirSound == \A d \in Controllers : \A i \in DOMAIN phyIn[d] : FrameSound(phyIn[d][i])

PduSound(d, m) == Numbered(Peer(d), llc[m.data.origin].total, m.data, m.sequence)

DeliveredSound == \A d \in Controllers : \A i \in DOMAIN llcOut[d] : PduSound(d, llcOut[d][i])

OrderAt(c, sent, arrived, taken) ==
    /\ InOrder(c, sent) /\ InOrder(c, arrived) /\ InOrder(c, taken)
    /\ Precedes(c, arrived, sent) /\ Precedes(c, taken, sent) /\ Precedes(c, taken, arrived)

OrderKept == \A c, d \in Controllers : OrderAt(c, phyOut[c], phyIn[d], llcOut[d])

ReplayersOnly ==
    /\ \A c \in Controllers : d_replay_mode_active[c] => c \in ReplayUsers
    /\ \A s \in Stations : replayCall[s].todo \subseteq ReplayUsers

LinkInv ==
    /\ NetTypeOK
    /\ TxCounterIsTotal
    /\ WaitingKnown
    /\ PublishedSound
    /\ InAirSound
    /\ DeliveredSound
    /\ OrderKept
    /\ ReplayersOnly

LEMMA LinkTypes ==
    ASSUME NetTypeOK
    PROVE  /\ \A c \in Controllers :
                /\ llc[c].total \in Nat /\ offered[c] \in Nat
                /\ llcIn[c] \in Seq(Pdu) /\ phyOut[c] \in Seq(Frame)
                /\ phyIn[c] \in Seq(Frame) /\ llcOut[c] \in Seq(LlcMessage)
           /\ \A f \in Frame \cup LlcMessage : /\ f.data \in Pdu
                                              /\ f.data.origin \in Controllers
                                              /\ f.data.rank \in Nat
<1>1. ASSUME NEW c \in Controllers PROVE llc[c].total \in Nat
  BY DEF NetTypeOK, MacTypeOK, LlcCounters
<1>2. ASSUME NEW f \in Frame \cup LlcMessage
      PROVE  f.data \in Pdu /\ f.data.origin \in Controllers /\ f.data.rank \in Nat
  <2>1. f.data \in Pdu
    BY DEF Frame, LlcMessage
  <2> QED
    BY <2>1 DEF Pdu
<1> QED
  BY <1>1, <1>2 DEF NetTypeOK, MacTypeOK

LEMMA NumberedStays ==
    ASSUME NEW c \in Controllers, NEW total \in Nat, NEW later \in Nat, total <= later,
           NEW pdu \in Pdu, NEW n, Numbered(c, total, pdu, n)
    PROVE  Numbered(c, later, pdu, n)
<1>1. pdu.rank \in Nat
  BY DEF Pdu
<1> QED
  BY <1>1 DEF Numbered

(***************************************************************************)
(* What the steps do to the queues.                                        *)
(***************************************************************************)
LEMMA UdpServerEffect ==
    ASSUME NetTypeOK, NEW c \in Controllers, UdpServer(c)
    PROVE  /\ offered[c] < MaxPdus[c]
           /\ offered' = [offered EXCEPT ![c] = offered[c] + 1]
           /\ \E pdu \in Pdu : /\ pdu.origin = c /\ pdu.rank = offered[c] + 1
                               /\ pdu.size \in PduSizes
                               /\ llcIn' = [llcIn EXCEPT ![c] = Append(llcIn[c], pdu)]
           /\ UNCHANGED <<macVars, phyIn, replayCall>>
<1>1. PICK size \in PduSizes :
        llcIn' = [llcIn EXCEPT ![c] =
                     Append(@, [origin |-> c, rank |-> offered[c] + 1, size |-> size])]
  BY DEF UdpServer
<1> DEFINE pdu == [origin |-> c, rank |-> offered[c] + 1, size |-> size]
<1>2. pdu \in Pdu
  <2>1. offered[c] + 1 \in Nat /\ size \in Nat
    BY ControllerTypes DEF NetTypeOK
  <2> QED
    BY <2>1 DEF Pdu
<1>3. pdu.origin = c /\ pdu.rank = offered[c] + 1 /\ pdu.size \in PduSizes
  OBVIOUS
<1>4. llcIn' = [llcIn EXCEPT ![c] = Append(llcIn[c], pdu)]
  BY <1>1
<1> HIDE DEF pdu
<1> QED
  BY <1>2, <1>3, <1>4 DEF UdpServer

\* What a controller may publish for the PDU it handles.
FrameOf(c, pdu, total, f) ==
    /\ WellFormed(c, f)
    /\ \/ f.data = pdu /\ f.header.sequence = total % FrameCounterMax
       \/ f.data = ReplayPattern(c) /\ c \in ReplayUsers

LEMMA HandleLlcEffect ==
    ASSUME ProperConfiguration, LinkInv, NEW c \in Controllers, HandleLlc(c)
    PROVE  LET pdu == Head(llcIn[c])
           IN  /\ llcIn[c] # <<>> /\ pdu \in Pdu
               /\ pdu.origin = c /\ pdu.rank = llc[c].total + 1
               /\ llcIn' = [llcIn EXCEPT ![c] = Tail(llcIn[c])]
               /\ llc'[c].total = llc[c].total + 1
               /\ \A d \in Controllers \ {c} : llc'[d].total = llc[d].total
               /\ \/ phyOut' = phyOut
                  \/ \E f \in Frame : /\ FrameOf(c, pdu, llc[c].total, f)
                                      /\ phyOut' = [phyOut EXCEPT ![c] = Append(phyOut[c], f)]
               /\ UNCHANGED <<phyIn, offered, replayCall, llcOut, d_replay_mode_active>>
<1> DEFINE pdu == Head(llcIn[c])
<1>1. PICK ticks \in Ticks : HandleLlcMsg(c, pdu, ticks)
  BY DEF HandleLlc
<1>2. /\ llcIn[c] # <<>> /\ llcIn[c] \in Seq(Pdu)
      /\ llcIn' = [llcIn EXCEPT ![c] = Tail(llcIn[c])]
      /\ UNCHANGED <<phyIn, offered, replayCall, llcOut, d_replay_mode_active>>
  <2>1. UNCHANGED <<llcOut, d_replay_mode_active>>
    BY <1>1 DEF HandleLlcMsg
  <2> QED
    BY <2>1, LinkTypes DEF HandleLlc, LinkInv
<1>3. pdu \in Pdu /\ pdu.origin = c /\ pdu.rank = llc[c].total + 1
  <2>1. pdu \in Pdu /\ pdu = llcIn[c][1] /\ 1 \in DOMAIN llcIn[c]
    BY <1>2, HeadTailFacts
  <2> QED
    BY <2>1 DEF LinkInv, WaitingKnown
<1> HIDE DEF pdu
<1>4. /\ llc'[c].total = llc[c].total + 1
      /\ \A d \in Controllers \ {c} : llc'[d].total = llc[d].total
  <2>1. /\ LlcCounted(c, pdu, ticks).total = llc[c].total + 1
        /\ LlcReset(LlcCounted(c, pdu, ticks), ticks).total = llc[c].total + 1
    BY DEF LlcCounted, LlcReset
  <2>2. \/ llc' = [llc EXCEPT ![c] = LlcCounted(c, pdu, ticks)]
        \/ llc' = [llc EXCEPT ![c] = LlcReset(LlcCounted(c, pdu, ticks), ticks)]
    BY <1>1 DEF HandleLlcMsg, PrintLlcStatus
  <2>3. llc \in [Controllers -> LlcCounters]
    BY DEF LinkInv, NetTypeOK, MacTypeOK
  <2> QED
    BY <2>1, <2>2, <2>3
<1>5. CASE TooLarge(pdu)
  <2>1. phyOut' = phyOut
    BY <1>1, <1>5 DEF HandleLlcMsg
  <2> QED
    BY <2>1, <1>2, <1>3, <1>4 DEF pdu
<1>6. CASE ~TooLarge(pdu)
  <2> DEFINE f == FrameFor(c, pdu, ticks)
  <2>1. phyOut' = [phyOut EXCEPT ![c] = Append(phyOut[c], f)]
    BY <1>1, <1>6 DEF HandleLlcMsg
  <2>2. pdu.size <= MTU
    BY <1>3, <1>6, ControllerTypes DEF TooLarge, Pdu
  <2>3. f \in Frame /\ WellFormed(c, f)
    BY <1>3, <2>2, FrameForType, FrameForWellFormed DEF LinkInv, NetTypeOK
  <2>4. ASSUME d_replay_mode_active[c] PROVE FrameOf(c, pdu, llc[c].total, f)
    <3>1. f.data = ReplayPattern(c)
      BY <2>4 DEF FrameFor
    <3>2. c \in ReplayUsers
      BY <2>4 DEF LinkInv, ReplayersOnly
    <3> QED
      BY <3>1, <3>2, <2>3 DEF FrameOf
  <2>5. ASSUME ~d_replay_mode_active[c] PROVE FrameOf(c, pdu, llc[c].total, f)
    <3>1. /\ f.data = pdu
          /\ f.header.sequence = d_tx_frame_counter[c] % Word
      BY <2>5 DEF FrameFor, CreateHeader
    <3>2. d_tx_frame_counter[c] \in 0 .. Word - 1
      BY WidthTypes DEF LinkInv, NetTypeOK, MacTypeOK, FrameCounterMax
    <3>3. d_tx_frame_counter[c] % Word = d_tx_frame_counter[c]
      BY <3>2, WidthTypes, RemainderOf, 0 * Word + d_tx_frame_counter[c] = d_tx_frame_counter[c]
    <3> QED
      BY <3>1, <3>3, <2>3 DEF FrameOf, LinkInv, TxCounterIsTotal
  <2>6. FrameOf(c, pdu, llc[c].total, f)
    BY <2>4, <2>5
  <2> HIDE DEF f
  <2> QED
    BY <2>1, <2>3, <2>6, <1>2, <1>3, <1>4 DEF pdu
<1> QED
  BY <1>5, <1>6

LEMMA TransmitEffect ==
    ASSUME LinkInv, NEW c \in Controllers, Transmit(c)
    PROVE  LET f == Head(phyOut[c])
           IN  /\ phyOut[c] # <<>> /\ f \in Frame
               /\ f.data.origin = c /\ FrameSound(f)
               /\ phyOut' = [phyOut EXCEPT ![c] = Tail(phyOut[c])]
               /\ phyIn' = [d \in Controllers |-> Append(phyIn[d], f)]
               /\ UNCHANGED <<llc, llcOut, d_tx_frame_counter, d_replay_mode_active,
                              llcIn, offered, replayCall>>
<1> DEFINE f == Head(phyOut[c])
<1>1. /\ phyOut[c] # <<>> /\ phyOut[c] \in Seq(Frame)
      /\ phyOut' = [phyOut EXCEPT ![c] = Tail(phyOut[c])]
      /\ phyIn' = [d \in Controllers |-> Append(phyIn[d], f)]
      /\ UNCHANGED <<llc, llcOut, d_tx_frame_counter, d_replay_mode_active,
                     llcIn, offered, replayCall>>
  BY LinkTypes DEF Transmit, LinkInv, counters, status
<1>2. f \in Frame /\ f = phyOut[c][1] /\ 1 \in DOMAIN phyOut[c]
  BY <1>1, HeadTailFacts
<1>3. Sound(c, llc[c].total, f)
  BY <1>2 DEF LinkInv, PublishedSound
<1>4. f.data.origin = c
  BY <1>3 DEF Sound, Numbered
<1> HIDE DEF f
<1>5. FrameSound(f)
  BY <1>3, <1>4 DEF FrameSound
<1> QED
  BY <1>1, <1>2, <1>4, <1>5 DEF f

LEMMA HandlePhyEffect ==
    ASSUME LinkInv, NEW c \in Controllers, HandlePhy(c)
    PROVE  LET f == Head(phyIn[c])
           IN  /\ phyIn[c] # <<>> /\ f \in Frame /\ FrameSound(f)
               /\ phyIn' = [phyIn EXCEPT ![c] = Tail(phyIn[c])]
               /\ \/ llcOut' = llcOut
                  \/ /\ f.data.origin = Peer(c)
                     /\ \E m \in LlcMessage :
                          /\ m.data = f.data /\ m.sequence = f.header.sequence
                          /\ llcOut' = [llcOut EXCEPT ![c] = Append(llcOut[c], m)]
               /\ UNCHANGED <<llc, phyOut, d_tx_frame_counter, d_replay_mode_active,
                              llcIn, offered, replayCall>>
<1> DEFINE f == Head(phyIn[c])
<1>1. PICK ticks \in Ticks : Reception(c, f, ticks)
  BY DEF HandlePhy
<1>2. /\ phyIn[c] # <<>> /\ phyIn[c] \in Seq(Frame)
      /\ phyIn' = [phyIn EXCEPT ![c] = Tail(phyIn[c])]
      /\ UNCHANGED <<llcIn, offered, replayCall>>
  BY LinkTypes DEF HandlePhy, LinkInv
<1>3. f \in Frame /\ f = phyIn[c][1] /\ 1 \in DOMAIN phyIn[c]
  BY <1>2, HeadTailFacts
<1>4. FrameSound(f)
  BY <1>3 DEF LinkInv, InAirSound
<1>5. f.data.origin \in Controllers /\ WellFormed(f.data.origin, f)
  BY <1>3, <1>4, LinkTypes DEF LinkInv, FrameSound, Sound
<1> HIDE DEF f
<1>6. CASE UNCHANGED macVars
  BY <1>2, <1>3, <1>4, <1>6 DEF f, macVars, counters, status, outputs
<1>7. CASE HandlePhyMsg(c, f, TRUE, ticks) /\ Accepts(c, f, TRUE)
  <2> DEFINE m == PduFrom(c, f, ticks)
  <2>1. /\ llcOut' = [llcOut EXCEPT ![c] = Append(llcOut[c], m)]
        /\ UNCHANGED <<llc, phyOut, d_tx_frame_counter, d_replay_mode_active>>
    BY <1>7 DEF HandlePhyMsg
  <2>2. f.data.origin = Peer(c)
    BY <1>3, <1>5, <1>7, AcceptedIsFromPeer
  <2>3. m \in LlcMessage
    BY <1>3, PduFromType DEF LinkInv, NetTypeOK
  <2>4. m.data = f.data /\ m.sequence = f.header.sequence
    <3>1. f.data \in Pdu /\ f.header.payload_size = f.data.size
      BY <1>3, <1>5 DEF Frame, WellFormed
    <3> QED
      BY <3>1, CutWhole DEF PduFrom
  <2> HIDE DEF m
  <2> QED
    BY <2>1, <2>2, <2>3, <2>4, <1>2, <1>3, <1>4 DEF f
<1>8. CASE HandlePhyMsg(c, f, TRUE, ticks) /\ ~Accepts(c, f, TRUE)
  BY <1>6, <1>8 DEF HandlePhyMsg
<1>9. ASSUME NEW header \in Damaged(f.header),
             HandlePhyMsg(c, [f EXCEPT !.header = header], FALSE, ticks)
      PROVE  UNCHANGED macVars
  BY <1>9, DamagedIsRejected
<1> QED
  BY <1>1, <1>6, <1>7, <1>8, <1>9 DEF Reception

(***************************************************************************)
(* The invariant is kept, part by part.                                    *)
(***************************************************************************)
LEMMA WaitingUnchanged ==
    ASSUME LinkInv, UNCHANGED <<offered, llc, llcIn>> PROVE WaitingKnown'
BY DEF LinkInv, WaitingKnown

LEMMA WaitingUdpServer ==
    ASSUME LinkInv, NEW c \in Controllers, UdpServer(c) PROVE WaitingKnown'
<1>1. /\ offered' = [offered EXCEPT ![c] = offered[c] + 1]
      /\ llc' = llc
  BY UdpServerEffect DEF LinkInv, macVars, status
<1>2. PICK pdu \in Pdu : /\ pdu.origin = c /\ pdu.rank = offered[c] + 1
                         /\ llcIn' = [llcIn EXCEPT ![c] = Append(llcIn[c], pdu)]
  BY UdpServerEffect DEF LinkInv
<1> DEFINE n == Len(llcIn[c])
           out == Append(llcIn[c], pdu)
<1>3. /\ llcIn[c] \in Seq(Pdu) /\ n \in Nat /\ llc[c].total \in Nat
      /\ offered[c] = llc[c].total + n
  BY LinkTypes DEF LinkInv, WaitingKnown
<1>4. /\ Len(out) = n + 1 /\ out[n + 1] = pdu
      /\ DOMAIN out = 1 .. n + 1 /\ DOMAIN llcIn[c] = 1 .. n
      /\ \A i \in 1 .. n : out[i] = llcIn[c][i]
  BY <1>3, AppendFacts
<1>5. /\ llcIn'[c] = out /\ offered'[c] = offered[c] + 1
      /\ \A d \in Controllers \ {c} : llcIn'[d] = llcIn[d] /\ offered'[d] = offered[d]
  BY <1>1, <1>2 DEF LinkInv, NetTypeOK
<1> HIDE DEF n, out
<1>6. offered'[c] = llc'[c].total + Len(llcIn'[c])
  <2>1. llc'[c].total = llc[c].total
    BY <1>1
  <2>2. Len(llcIn'[c]) = n + 1
    BY <1>4, <1>5
  <2>3. offered'[c] = llc[c].total + (n + 1)
    BY <1>3, <1>5
  <2> QED
    BY <2>1, <2>2, <2>3
<1>7. ASSUME NEW i \in DOMAIN llcIn'[c]
      PROVE  llcIn'[c][i].origin = c /\ llcIn'[c][i].rank = llc'[c].total + i
  <2>0. llc'[c].total = llc[c].total
    BY <1>1
  <2>1. CASE i \in 1 .. n
    <3>1. llcIn'[c][i] = llcIn[c][i] /\ i \in DOMAIN llcIn[c]
      BY <2>1, <1>4, <1>5
    <3>2. llcIn[c][i].origin = c /\ llcIn[c][i].rank = llc[c].total + i
      BY <3>1 DEF LinkInv, WaitingKnown
    <3> QED
      BY <2>0, <3>1, <3>2
  <2>2. CASE i = n + 1
    <3>1. llcIn'[c][i] = pdu
      BY <2>2, <1>4, <1>5
    <3>2. pdu.rank = (llc[c].total + n) + 1
      BY <1>2, <1>3
    <3>3. (llc[c].total + n) + 1 = llc[c].total + i
      BY <2>2, <1>3
    <3> QED
      BY <2>0, <3>1, <3>2, <3>3, <1>2
  <2> QED
    BY <2>1, <2>2, <1>3, <1>4, <1>5
<1> QED
  BY <1>1, <1>5, <1>6, <1>7 DEF LinkInv, WaitingKnown

LEMMA WaitingHandleLlc ==
    ASSUME ProperConfiguration, LinkInv, NEW c \in Controllers, HandleLlc(c)
    PROVE  WaitingKnown'
<1>1. /\ llcIn[c] # <<>>
      /\ llcIn' = [llcIn EXCEPT ![c] = Tail(llcIn[c])]
      /\ llc'[c].total = llc[c].total + 1
      /\ \A d \in Controllers \ {c} : llc'[d].total = llc[d].total
      /\ offered' = offered
  BY HandleLlcEffect
<1> DEFINE n == Len(llcIn[c])
           rest == Tail(llcIn[c])
<1>2. /\ llcIn[c] \in Seq(Pdu) /\ llc[c].total \in Nat
      /\ offered[c] = llc[c].total + n
  BY LinkTypes DEF LinkInv, WaitingKnown
<1>3. /\ n \in Nat \ {0} /\ DOMAIN llcIn[c] = 1 .. n
      /\ Len(rest) = n - 1 /\ DOMAIN rest = 1 .. n - 1
      /\ \A i \in 1 .. n - 1 : rest[i] = llcIn[c][i + 1]
  BY <1>1, <1>2, HeadTailFacts
<1>4. /\ llcIn'[c] = rest
      /\ \A d \in Controllers \ {c} : llcIn'[d] = llcIn[d]
  BY <1>1 DEF LinkInv, NetTypeOK
<1> HIDE DEF n, rest
<1>5. offered'[c] = llc'[c].total + Len(llcIn'[c])
  BY <1>1, <1>2, <1>3, <1>4
<1>6. ASSUME NEW i \in DOMAIN llcIn'[c]
      PROVE  llcIn'[c][i].origin = c /\ llcIn'[c][i].rank = llc'[c].total + i
  <2>1. i \in 1 .. n - 1 /\ i + 1 \in DOMAIN llcIn[c] /\ llcIn'[c][i] = llcIn[c][i + 1]
    BY <1>3, <1>4
  <2>2. llcIn[c][i + 1].origin = c /\ llcIn[c][i + 1].rank = llc[c].total + (i + 1)
    BY <2>1 DEF LinkInv, WaitingKnown
  <2>3. llc[c].total + (i + 1) = (llc[c].total + 1) + i
    <3>1. llc[c].total \in Int /\ i \in Int
      BY <2>1, <1>2, <1>3
    <3> QED
      BY <3>1
  <2> QED
    BY <2>1, <2>2, <2>3, <1>1
<1> QED
  BY <1>1, <1>4, <1>5, <1>6 DEF LinkInv, WaitingKnown

LEMMA FrameOfSound ==
    ASSUME NEW c \in Controllers, NEW total \in Nat, NEW f \in Frame, NEW pdu \in Pdu,
           pdu.origin = c, pdu.rank = total + 1, FrameOf(c, pdu, total, f)
    PROVE  Sound(c, total + 1, f)
<1>1. CASE f.data = pdu /\ f.header.sequence = total % FrameCounterMax
  <2>1. f.data.rank = total + 1 /\ f.data.rank # 0 /\ (total + 1) - 1 = total
    BY <1>1
  <2>2. f.header.sequence = (f.data.rank - 1) % FrameCounterMax
    BY <1>1, <2>1
  <2>3. f.data.rank <= total + 1
    BY <2>1
  <2> QED
    BY <1>1, <2>1, <2>2, <2>3 DEF Sound, Numbered, FrameOf
<1>2. CASE f.data = ReplayPattern(c) /\ c \in ReplayUsers
  <2>1. f.data.origin = c /\ f.data.rank = 0
    BY <1>2 DEF ReplayPattern
  <2>2. f.data.rank <= total + 1
    BY <2>1
  <2> QED
    BY <1>2, <2>1, <2>2 DEF Sound, Numbered, FrameOf
<1> QED
  BY <1>1, <1>2 DEF FrameOf

LEMMA SoundStays ==
    ASSUME NEW c \in Controllers, NEW total \in Nat, NEW later \in Nat, total <= later,
           NEW f \in Frame, Sound(c, total, f)
    PROVE  Sound(c, later, f)
<1>1. f.data \in Pdu
  BY DEF Frame
<1> QED
  BY <1>1, NumberedStays DEF Sound

LEMMA PublishedHandleLlc ==
    ASSUME ProperConfiguration, LinkInv, NEW c \in Controllers, HandleLlc(c)
    PROVE  PublishedSound'
<1> DEFINE pdu == Head(llcIn[c])
           total == llc[c].total
<1>1. /\ pdu \in Pdu /\ pdu.origin = c /\ pdu.rank = total + 1
      /\ llc'[c].total = total + 1
      /\ \A d \in Controllers \ {c} : llc'[d].total = llc[d].total
      /\ \/ phyOut' = phyOut
         \/ \E f \in Frame : /\ FrameOf(c, pdu, total, f)
                             /\ phyOut' = [phyOut EXCEPT ![c] = Append(phyOut[c], f)]
  BY HandleLlcEffect
<1>2. /\ total \in Nat /\ phyOut[c] \in Seq(Frame)
      /\ phyOut \in [Controllers -> Seq(Frame)]
  BY LinkTypes DEF LinkInv, NetTypeOK, MacTypeOK
<1> HIDE DEF pdu, total
<1>3. ASSUME NEW i \in DOMAIN phyOut[c] PROVE Sound(c, total + 1, phyOut[c][i])
  <2>1. phyOut[c][i] \in Frame /\ Sound(c, total, phyOut[c][i])
    BY <1>2 DEF LinkInv, PublishedSound, total
  <2> QED
    BY <2>1, <1>2, SoundStays
<1>4. SUFFICES ASSUME NEW d \in Controllers, NEW i \in DOMAIN phyOut'[d]
               PROVE  Sound(d, llc'[d].total, phyOut'[d][i])
  BY DEF PublishedSound
<1>5. CASE phyOut' = phyOut
  BY <1>1, <1>3, <1>5 DEF LinkInv, PublishedSound
<1>6. ASSUME NEW f \in Frame, FrameOf(c, pdu, total, f),
             phyOut' = [phyOut EXCEPT ![c] = Append(phyOut[c], f)]
      PROVE  Sound(d, llc'[d].total, phyOut'[d][i])
  <2>1. CASE d # c
    <3>1. phyOut'[d] = phyOut[d] /\ llc'[d].total = llc[d].total
      BY <2>1, <1>1, <1>2, <1>6
    <3> QED
      BY <3>1 DEF LinkInv, PublishedSound
  <2>2. CASE d = c
    <3>1. phyOut'[d] = Append(phyOut[c], f)
      BY <2>2, <1>2, <1>6
    <3>2. phyOut'[d][i] = f \/ \E k \in DOMAIN phyOut[c] : phyOut'[d][i] = phyOut[c][k]
      BY <3>1, <1>2, AppendElements
    <3>3. Sound(c, total + 1, f)
      BY <1>1, <1>2, <1>6, FrameOfSound
    <3> QED
      BY <2>2, <3>2, <3>3, <1>1, <1>3
  <2> QED
    BY <2>1, <2>2
<1> QED
  BY <1>1, <1>5, <1>6

LEMMA PublishedTransmit ==
    ASSUME LinkInv, NEW c \in Controllers, Transmit(c)
    PROVE  PublishedSound'
<1>1. /\ phyOut[c] # <<>> /\ llc' = llc
      /\ phyOut' = [phyOut EXCEPT ![c] = Tail(phyOut[c])]
  BY TransmitEffect
<1>2. phyOut[c] \in Seq(Frame) /\ phyOut \in [Controllers -> Seq(Frame)]
  BY DEF LinkInv, NetTypeOK, MacTypeOK
<1>3. SUFFICES ASSUME NEW d \in Controllers, NEW i \in DOMAIN phyOut'[d]
               PROVE  Sound(d, llc[d].total, phyOut'[d][i])
  BY <1>1 DEF PublishedSound
<1>4. \E k \in DOMAIN phyOut[d] : phyOut'[d][i] = phyOut[d][k]
  <2>1. CASE d = c
    <3>1. phyOut'[d] = Tail(phyOut[c])
      BY <2>1, <1>1, <1>2
    <3> QED
      BY <2>1, <3>1, <1>1, <1>2, TailElements
  <2>2. CASE d # c
    BY <2>2, <1>1, <1>2
  <2> QED
    BY <2>1, <2>2
<1> QED
  BY <1>4 DEF LinkInv, PublishedSound

LEMMA InAirHandleLlc ==
    ASSUME ProperConfiguration, LinkInv, NEW c \in Controllers, HandleLlc(c)
    PROVE  InAirSound' /\ DeliveredSound'
<1>1. UNCHANGED <<phyIn, llcOut>>
  BY HandleLlcEffect
<1>2. ASSUME NEW d \in Controllers
      PROVE  llc[d].total \in Nat /\ llc'[d].total \in Nat /\ llc[d].total <= llc'[d].total
  <2>1. llc[d].total \in Nat /\ llc[c].total \in Nat
    BY LinkTypes DEF LinkInv
  <2>2. llc'[d].total = IF d = c THEN llc[c].total + 1 ELSE llc[d].total
    BY HandleLlcEffect
  <2> QED
    BY <2>1, <2>2
<1>3. InAirSound'
  <2> SUFFICES ASSUME NEW d \in Controllers, NEW i \in DOMAIN phyIn[d]
               PROVE  Sound(phyIn[d][i].data.origin, llc'[phyIn[d][i].data.origin].total, phyIn[d][i])
    BY <1>1 DEF InAirSound, FrameSound
  <2>1. phyIn[d][i] \in Frame /\ phyIn[d][i].data.origin \in Controllers
    BY LinkTypes DEF LinkInv
  <2>2. Sound(phyIn[d][i].data.origin, llc[phyIn[d][i].data.origin].total, phyIn[d][i])
    BY DEF LinkInv, InAirSound, FrameSound
  <2> QED
    BY <2>1, <2>2, <1>2, SoundStays
<1>4. DeliveredSound'
  <2> SUFFICES ASSUME NEW d \in Controllers, NEW i \in DOMAIN llcOut[d]
               PROVE  Numbered(Peer(d), llc'[llcOut[d][i].data.origin].total,
                               llcOut[d][i].data, llcOut[d][i].sequence)
    BY <1>1 DEF DeliveredSound, PduSound
  <2>1. /\ llcOut[d][i] \in LlcMessage /\ llcOut[d][i].data \in Pdu
        /\ llcOut[d][i].data.origin \in Controllers
    BY LinkTypes DEF LinkInv
  <2>2. Numbered(Peer(d), llc[llcOut[d][i].data.origin].total,
                 llcOut[d][i].data, llcOut[d][i].sequence)
    BY DEF LinkInv, DeliveredSound, PduSound
  <2>3. Peer(d) \in Controllers
    BY <2>1, <2>2 DEF Numbered
  <2> QED
    BY <2>1, <2>2, <2>3, <1>2, NumberedStays
<1> QED
  BY <1>3, <1>4

LEMMA InAirTransmit ==
    ASSUME LinkInv, NEW c \in Controllers, Transmit(c)
    PROVE  InAirSound'
<1> DEFINE f == Head(phyOut[c])
<1>1. /\ f \in Frame /\ FrameSound(f) /\ llc' = llc
      /\ phyIn' = [d \in Controllers |-> Append(phyIn[d], f)]
  BY TransmitEffect
<1> HIDE DEF f
<1>2. SUFFICES ASSUME NEW d \in Controllers, NEW i \in DOMAIN Append(phyIn[d], f)
               PROVE  FrameSound(Append(phyIn[d], f)[i])
  BY <1>1 DEF InAirSound, FrameSound
<1>3. phyIn[d] \in Seq(Frame)
  BY LinkTypes DEF LinkInv
<1>4. \/ Append(phyIn[d], f)[i] = f
      \/ \E k \in DOMAIN phyIn[d] : Append(phyIn[d], f)[i] = phyIn[d][k]
  BY <1>1, <1>3, AppendElements
<1> QED
  BY <1>1, <1>4 DEF LinkInv, InAirSound

LEMMA InAirHandlePhy ==
    ASSUME LinkInv, NEW c \in Controllers, HandlePhy(c)
    PROVE  InAirSound'
<1>1. /\ phyIn[c] # <<>> /\ llc' = llc
      /\ phyIn' = [phyIn EXCEPT ![c] = Tail(phyIn[c])]
  BY HandlePhyEffect
<1>2. phyIn[c] \in Seq(Frame) /\ phyIn \in [Controllers -> Seq(Frame)]
  BY DEF LinkInv, NetTypeOK
<1>3. SUFFICES ASSUME NEW d \in Controllers, NEW i \in DOMAIN phyIn'[d]
               PROVE  \E k \in DOMAIN phyIn[d] : phyIn'[d][i] = phyIn[d][k]
  BY <1>1 DEF LinkInv, InAirSound, FrameSound
<1>4. CASE d = c
  <2>1. phyIn'[d] = Tail(phyIn[c])
    BY <1>4, <1>1, <1>2
  <2> QED
    BY <2>1, <1>1, <1>2, <1>4, TailElements
<1>5. CASE d # c
  BY <1>5, <1>1, <1>2
<1> QED
  BY <1>4, <1>5

LEMMA DeliveredHandlePhy ==
    ASSUME LinkInv, NEW c \in Controllers, HandlePhy(c)
    PROVE  DeliveredSound'
<1> DEFINE f == Head(phyIn[c])
<1>1. /\ f \in Frame /\ FrameSound(f) /\ llc' = llc
      /\ \/ llcOut' = llcOut
         \/ /\ f.data.origin = Peer(c)
            /\ \E m \in LlcMessage :
                 /\ m.data = f.data /\ m.sequence = f.header.sequence
                 /\ llcOut' = [llcOut EXCEPT ![c] = Append(llcOut[c], m)]
  BY HandlePhyEffect
<1> HIDE DEF f
<1>2. CASE llcOut' = llcOut
  BY <1>1, <1>2 DEF LinkInv, DeliveredSound, PduSound
<1>3. ASSUME f.data.origin = Peer(c),
             NEW m \in LlcMessage, m.data = f.data, m.sequence = f.header.sequence,
             llcOut' = [llcOut EXCEPT ![c] = Append(llcOut[c], m)]
      PROVE  DeliveredSound'
  <2>1. PduSound(c, m)
    BY <1>1, <1>3 DEF FrameSound, Sound, PduSound
  <2>2. llcOut[c] \in Seq(LlcMessage) /\ llcOut \in [Controllers -> Seq(LlcMessage)]
    BY DEF LinkInv, NetTypeOK, MacTypeOK
  <2>3. SUFFICES ASSUME NEW d \in Controllers, NEW i \in DOMAIN llcOut'[d]
                 PROVE  PduSound(d, llcOut'[d][i])
    BY <1>1 DEF DeliveredSound, PduSound
  <2>4. CASE d # c
    <3>1. llcOut'[d] = llcOut[d]
      BY <2>2, <2>4, <1>3
    <3> QED
      BY <3>1 DEF LinkInv, DeliveredSound
  <2>5. CASE d = c
    <3>1. llcOut'[d] = Append(llcOut[c], m)
      BY <2>2, <2>5, <1>3
    <3>2. llcOut'[d][i] = m \/ \E k \in DOMAIN llcOut[c] : llcOut'[d][i] = llcOut[c][k]
      BY <3>1, <2>2, AppendElements
    <3> QED
      BY <3>2, <2>1, <2>5 DEF LinkInv, DeliveredSound
  <2> QED
    BY <2>4, <2>5
<1> QED
  BY <1>1, <1>2, <1>3

(***************************************************************************)
(* The order of the ranks along a link, for queues in general.             *)
(***************************************************************************)
LEMMA OrderPublish ==
    ASSUME NEW sent \in Seq(Frame), NEW arrived, NEW taken, NEW c, NEW f \in Frame,
           OrderAt(c, sent, arrived, taken),
           AllBelow(c, sent, f), AllBelow(c, arrived, f), AllBelow(c, taken, f)
    PROVE  OrderAt(c, Append(sent, f), arrived, taken)
<1>1. InOrder(c, Append(sent, f))
  BY OrderAppend DEF OrderAt
<1>2. Precedes(c, arrived, Append(sent, f))
  BY PrecedesAppendRight DEF OrderAt
<1>3. Precedes(c, taken, Append(sent, f))
  BY PrecedesAppendRight DEF OrderAt
<1> QED
  BY <1>1, <1>2, <1>3 DEF OrderAt

LEMMA OrderArrive ==
    ASSUME NEW sent, NEW arrived \in Seq(Frame), NEW taken, NEW c, NEW f \in Frame,
           OrderAt(c, sent, arrived, taken),
           AllBelow(c, arrived, f), BelowAll(c, f, sent), AllBelow(c, taken, f)
    PROVE  OrderAt(c, sent, Append(arrived, f), taken)
<1>1. InOrder(c, Append(arrived, f))
  BY OrderAppend DEF OrderAt
<1>2. Precedes(c, Append(arrived, f), sent)
  BY PrecedesAppendLeft DEF OrderAt
<1>3. Precedes(c, taken, Append(arrived, f))
  BY PrecedesAppendRight DEF OrderAt
<1> QED
  BY <1>1, <1>2, <1>3 DEF OrderAt

LEMMA OrderMove ==
    ASSUME NEW sent \in Seq(Frame), sent # <<>>, NEW arrived \in Seq(Frame), NEW taken, NEW c,
           OrderAt(c, sent, arrived, taken)
    PROVE  OrderAt(c, Tail(sent), Append(arrived, Head(sent)), taken)
<1>1. Head(sent) \in Frame
  BY HeadTailFacts
<1>2. InOrder(c, Tail(sent)) /\ BelowAll(c, Head(sent), Tail(sent))
  BY OrderTail DEF OrderAt
<1>3. Precedes(c, arrived, Tail(sent)) /\ AllBelow(c, arrived, Head(sent))
  BY PrecedesTail DEF OrderAt
<1>4. Precedes(c, taken, Tail(sent)) /\ AllBelow(c, taken, Head(sent))
  BY PrecedesTail DEF OrderAt
<1>5. OrderAt(c, Tail(sent), arrived, taken)
  BY <1>2, <1>3, <1>4 DEF OrderAt
<1> QED
  BY <1>1, <1>2, <1>3, <1>4, <1>5, OrderArrive

LEMMA OrderTake ==
    ASSUME NEW sent, NEW arrived \in Seq(Frame), arrived # <<>>, NEW taken \in Seq(LlcMessage),
           NEW c, OrderAt(c, sent, arrived, taken)
    PROVE  /\ OrderAt(c, sent, Tail(arrived), taken)
           /\ \A m \in LlcMessage : m.data = Head(arrived).data =>
                 OrderAt(c, sent, Tail(arrived), Append(taken, m))
<1>1. InOrder(c, Tail(arrived)) /\ BelowAll(c, Head(arrived), Tail(arrived))
  BY OrderTail DEF OrderAt
<1>2. Precedes(c, Tail(arrived), sent) /\ BelowAll(c, Head(arrived), sent)
  BY PrecedesTail DEF OrderAt
<1>3. Precedes(c, taken, Tail(arrived)) /\ AllBelow(c, taken, Head(arrived))
  BY PrecedesTail DEF OrderAt
<1>4. OrderAt(c, sent, Tail(arrived), taken)
  BY <1>1, <1>2, <1>3 DEF OrderAt
<1>5. ASSUME NEW m \in LlcMessage, m.data = Head(arrived).data
      PROVE  OrderAt(c, sent, Tail(arrived), Append(taken, m))
  <2>1. /\ BelowAll(c, m, Tail(arrived)) /\ BelowAll(c, m, sent)
        /\ AllBelow(c, taken, m)
    BY <1>1, <1>2, <1>3, <1>5 DEF BelowAll, AllBelow, Real
  <2>2. InOrder(c, Append(taken, m))
    BY <2>1, OrderAppend DEF OrderAt
  <2>3. Precedes(c, Append(taken, m), sent)
    BY <2>1, PrecedesAppendLeft DEF OrderAt
  <2>4. Precedes(c, Append(taken, m), Tail(arrived))
    BY <2>1, <1>4, PrecedesAppendLeft DEF OrderAt
  <2> QED
    BY <2>2, <2>3, <2>4, <1>4 DEF OrderAt
<1> QED
  BY <1>4, <1>5

\* Nothing on its way has a higher rank than the PDUs handled.
LEMMA RanksHandled ==
    ASSUME LinkInv, NEW c \in Controllers, NEW d \in Controllers
    PROVE  /\ \A i \in DOMAIN phyOut[d] : Real(c, phyOut[d][i]) => phyOut[d][i].data.rank <= llc[c].total
           /\ \A i \in DOMAIN phyIn[d] : Real(c, phyIn[d][i]) => phyIn[d][i].data.rank <= llc[c].total
           /\ \A i \in DOMAIN llcOut[d] : Real(c, llcOut[d][i]) => llcOut[d][i].data.rank <= llc[c].total
<1>1. \A i \in DOMAIN phyOut[d] : Real(c, phyOut[d][i]) => phyOut[d][i].data.rank <= llc[c].total
  BY DEF LinkInv, PublishedSound, Sound, Numbered, Real
<1>2. \A i \in DOMAIN phyIn[d] : Real(c, phyIn[d][i]) => phyIn[d][i].data.rank <= llc[c].total
  BY DEF LinkInv, InAirSound, FrameSound, Sound, Numbered, Real
<1>3. \A i \in DOMAIN llcOut[d] : Real(c, llcOut[d][i]) => llcOut[d][i].data.rank <= llc[c].total
  BY DEF LinkInv, DeliveredSound, PduSound, Numbered, Real
<1> QED
  BY <1>1, <1>2, <1>3

LEMMA OrderHandleLlc ==
    ASSUME ProperConfiguration, LinkInv, NEW c \in Controllers, HandleLlc(c)
    PROVE  OrderKept'
<1> DEFINE pdu == Head(llcIn[c])
           total == llc[c].total
<1>1. /\ pdu \in Pdu /\ pdu.origin = c /\ pdu.rank = total + 1
      /\ \/ phyOut' = phyOut
         \/ \E f \in Frame : /\ FrameOf(c, pdu, total, f)
                             /\ phyOut' = [phyOut EXCEPT ![c] = Append(phyOut[c], f)]
      /\ UNCHANGED <<phyIn, llcOut>>
  BY HandleLlcEffect
<1>2. total \in Nat /\ phyOut[c] \in Seq(Frame) /\ phyOut \in [Controllers -> Seq(Frame)]
  BY LinkTypes DEF LinkInv, NetTypeOK, MacTypeOK
<1>3. SUFFICES ASSUME NEW e \in Controllers, NEW d \in Controllers
               PROVE  OrderAt(e, phyOut'[e], phyIn[d], llcOut[d])
  BY <1>1 DEF OrderKept
<1>4. OrderAt(e, phyOut[e], phyIn[d], llcOut[d])
  BY DEF LinkInv, OrderKept
<1> HIDE DEF pdu
<1>5. ASSUME NEW f \in Frame, FrameOf(c, pdu, total, f),
             phyOut' = [phyOut EXCEPT ![c] = Append(phyOut[c], f)]
      PROVE  OrderAt(e, phyOut'[e], phyIn[d], llcOut[d])
  <2>1. CASE e # c
    BY <2>1, <1>2, <1>4, <1>5
  <2>2. CASE e = c
    <3>1. phyOut'[e] = Append(phyOut[c], f)
      BY <2>2, <1>2, <1>5
    <3>2. Real(c, f) => f.data.rank = total + 1
      BY <1>1, <1>5 DEF FrameOf, Real, ReplayPattern
    <3>3. ASSUME NEW q, \A i \in DOMAIN q : q[i].data.rank \in Nat,
                 \A i \in DOMAIN q : Real(c, q[i]) => q[i].data.rank <= total
          PROVE  AllBelow(c, q, f)
      BY <3>2, <3>3, <1>2 DEF AllBelow
    <3>4. /\ \A i \in DOMAIN phyOut[c] : phyOut[c][i].data.rank \in Nat
          /\ \A i \in DOMAIN phyIn[d] : phyIn[d][i].data.rank \in Nat
          /\ \A i \in DOMAIN llcOut[d] : llcOut[d][i].data.rank \in Nat
      BY LinkTypes DEF LinkInv
    <3>5. AllBelow(c, phyOut[c], f) /\ AllBelow(c, phyIn[d], f) /\ AllBelow(c, llcOut[d], f)
      BY <3>3, <3>4, RanksHandled
    <3> QED
      BY <2>2, <3>1, <3>5, <1>2, <1>4, OrderPublish
  <2> QED
    BY <2>1, <2>2
<1> QED
  BY <1>1, <1>4, <1>5

LEMMA OrderTransmit ==
    ASSUME LinkInv, NEW c \in Controllers, Transmit(c)
    PROVE  OrderKept'
<1> DEFINE f == Head(phyOut[c])
<1>1. /\ phyOut[c] # <<>> /\ f \in Frame /\ f.data.origin = c
      /\ phyOut' = [phyOut EXCEPT ![c] = Tail(phyOut[c])]
      /\ phyIn' = [d \in Controllers |-> Append(phyIn[d], f)]
      /\ llcOut' = llcOut
  BY TransmitEffect
<1>2. SUFFICES ASSUME NEW e \in Controllers, NEW d \in Controllers
               PROVE  OrderAt(e, phyOut'[e], Append(phyIn[d], f), llcOut[d])
  BY <1>1 DEF OrderKept
<1>3. /\ OrderAt(e, phyOut[e], phyIn[d], llcOut[d])
      /\ phyIn[d] \in Seq(Frame) /\ phyOut[c] \in Seq(Frame)
      /\ phyOut \in [Controllers -> Seq(Frame)]
  BY DEF LinkInv, OrderKept, NetTypeOK, MacTypeOK
<1>4. CASE e # c
  <2>1. phyOut'[e] = phyOut[e]
    BY <1>1, <1>3, <1>4
  <2>2. AllBelow(e, phyIn[d], f) /\ BelowAll(e, f, phyOut[e]) /\ AllBelow(e, llcOut[d], f)
    BY <1>1, <1>4 DEF AllBelow, BelowAll, Real
  <2> HIDE DEF f
  <2> QED
    BY <2>1, <2>2, <1>1, <1>3, OrderArrive
<1>5. CASE e = c
  <2>1. phyOut'[e] = Tail(phyOut[c])
    BY <1>1, <1>3, <1>5
  <2> QED
    BY <2>1, <1>1, <1>3, <1>5, OrderMove
<1> QED
  BY <1>4, <1>5

LEMMA OrderHandlePhy ==
    ASSUME LinkInv, NEW c \in Controllers, HandlePhy(c)
    PROVE  OrderKept'
<1> DEFINE f == Head(phyIn[c])
<1>1. /\ phyIn[c] # <<>>
      /\ phyIn' = [phyIn EXCEPT ![c] = Tail(phyIn[c])]
      /\ \/ llcOut' = llcOut
         \/ \E m \in LlcMessage :
              /\ m.data = f.data
              /\ llcOut' = [llcOut EXCEPT ![c] = Append(llcOut[c], m)]
      /\ phyOut' = phyOut
  BY HandlePhyEffect
<1>2. SUFFICES ASSUME NEW e \in Controllers, NEW d \in Controllers
               PROVE  OrderAt(e, phyOut[e], phyIn'[d], llcOut'[d])
  BY <1>1 DEF OrderKept
<1>3. /\ OrderAt(e, phyOut[e], phyIn[d], llcOut[d])
      /\ phyIn[d] \in Seq(Frame) /\ phyIn \in [Controllers -> Seq(Frame)]
      /\ llcOut[d] \in Seq(LlcMessage) /\ llcOut \in [Controllers -> Seq(LlcMessage)]
  BY DEF LinkInv, OrderKept, NetTypeOK, MacTypeOK
<1>4. CASE d # c
  <2>1. phyIn'[d] = phyIn[d] /\ llcOut'[d] = llcOut[d]
    BY <1>1, <1>3, <1>4
  <2> QED
    BY <2>1, <1>3
<1>5. CASE d = c
  <2>1. phyIn'[d] = Tail(phyIn[d])
    BY <1>1, <1>3, <1>5
  <2>2. \/ llcOut'[d] = llcOut[d]
        \/ \E m \in LlcMessage : m.data = Head(phyIn[d]).data /\ llcOut'[d] = Append(llcOut[d], m)
    BY <1>1, <1>3, <1>5
  <2>3. /\ OrderAt(e, phyOut[e], Tail(phyIn[d]), llcOut[d])
        /\ \A m \in LlcMessage : m.data = Head(phyIn[d]).data =>
              OrderAt(e, phyOut[e], Tail(phyIn[d]), Append(llcOut[d], m))
    BY <1>1, <1>3, <1>5, OrderTake
  <2> QED
    BY <2>1, <2>2, <2>3
<1> QED
  BY <1>4, <1>5

(***************************************************************************)
(* The remaining parts, and the invariant as a whole.                      *)
(***************************************************************************)
LEMMA TxCounterHandleLlc ==
    ASSUME LinkInv, NEW c \in Controllers, HandleLlc(c)
    PROVE  TxCounterIsTotal'
<1>1. PICK ticks \in Ticks : HandleLlcMsg(c, Head(llcIn[c]), ticks)
  BY DEF HandleLlc
<1>2. Head(llcIn[c]) \in Pdu
  BY HeadTailFacts DEF HandleLlc, LinkInv, NetTypeOK
<1>3. SequenceInv
  BY DEF LinkInv, NetTypeOK, PublishedSound, Sound, Numbered, SequenceInv, SequenceCountsPdus
<1> QED
  BY <1>1, <1>2, <1>3, TxCounterHandleLlcMsg

\* Steps of the control thread and of the UDP servers touch no frame.
LEMMA LinkUnchanged ==
    ASSUME LinkInv, UNCHANGED <<d_tx_frame_counter, llc, phyOut, phyIn, llcOut>>
    PROVE  TxCounterIsTotal' /\ PublishedSound' /\ InAirSound' /\ DeliveredSound' /\ OrderKept'
<1>1. TxCounterIsTotal'
  BY DEF LinkInv, TxCounterIsTotal
<1>2. PublishedSound'
  BY DEF LinkInv, PublishedSound
<1>3. InAirSound'
  BY DEF LinkInv, InAirSound, FrameSound
<1>4. DeliveredSound'
  BY DEF LinkInv, DeliveredSound, PduSound
<1>5. OrderKept'
  BY DEF LinkInv, OrderKept
<1> QED
  BY <1>1, <1>2, <1>3, <1>4, <1>5

LEMMA ReplayersUnchanged ==
    ASSUME LinkInv, UNCHANGED <<d_replay_mode_active, replayCall>>
    PROVE  ReplayersOnly'
BY DEF LinkInv, ReplayersOnly

LEMMA ReplayersCall ==
    ASSUME LinkInv, NEW s \in Stations, NEW activate \in BOOLEAN,
           CallActivateReplayMode(s, activate)
    PROVE  ReplayersOnly'
<1>1. /\ AtStation(s) \subseteq ReplayUsers
      /\ replayCall' = [replayCall EXCEPT ![s] = [activate |-> activate, todo |-> AtStation(s)]]
      /\ d_replay_mode_active' = d_replay_mode_active
  BY DEF CallActivateReplayMode, MacControllers, macVars
<1>2. \A t \in Stations : replayCall'[t].todo = AtStation(s) \/ replayCall'[t] = replayCall[t]
  BY <1>1 DEF LinkInv, NetTypeOK
<1> QED
  BY <1>1, <1>2 DEF LinkInv, ReplayersOnly

LEMMA ReplayersVisit ==
    ASSUME LinkInv, NEW s \in Stations, VisitController(s)
    PROVE  ReplayersOnly'
<1>1. PICK c \in replayCall[s].todo :
        /\ ActivateReplayMode(c, replayCall[s].activate)
        /\ replayCall' = [replayCall EXCEPT ![s].todo = @ \ {c}]
  BY DEF VisitController
<1>2. c \in ReplayUsers /\ c \in Controllers
  BY ControllerTypes DEF LinkInv, ReplayersOnly
<1>3. \A d \in Controllers \ {c} : d_replay_mode_active'[d] = d_replay_mode_active[d]
  BY <1>1 DEF ActivateReplayMode, LinkInv, NetTypeOK, MacTypeOK
<1>4. \A t \in Stations : replayCall'[t].todo \subseteq replayCall[t].todo
  BY <1>1 DEF LinkInv, NetTypeOK
<1> QED
  BY <1>2, <1>3, <1>4 DEF LinkInv, ReplayersOnly

LEMMA LinkInvNext ==
    ASSUME ProperConfiguration, LinkInv, [NetNext]_netVars
    PROVE  LinkInv'
<1>0. NetTypeOK'
  BY NetNextType DEF LinkInv
<1>1. ASSUME NEW c \in Controllers, UdpServer(c) PROVE LinkInv'
  <2>1. UNCHANGED <<d_tx_frame_counter, llc, phyOut, phyIn, llcOut>>
    BY <1>1 DEF UdpServer, macVars, counters, status, outputs
  <2>2. UNCHANGED <<d_replay_mode_active, replayCall>>
    BY <1>1 DEF UdpServer, macVars
  <2> QED
    BY <2>1, <2>2, <1>0, <1>1, LinkUnchanged, WaitingUdpServer, ReplayersUnchanged DEF LinkInv
<1>2. ASSUME NEW c \in Controllers, HandleLlc(c) PROVE LinkInv'
  <2>1. UNCHANGED <<d_replay_mode_active, replayCall>>
    BY <1>2, HandleLlcEffect
  <2>2. ReplayersOnly'
    BY <2>1, ReplayersUnchanged
  <2> QED
    BY <2>2, <1>0, <1>2, TxCounterHandleLlc, WaitingHandleLlc, PublishedHandleLlc,
       InAirHandleLlc, OrderHandleLlc DEF LinkInv
<1>3. ASSUME NEW c \in Controllers, Transmit(c) PROVE LinkInv'
  <2>1. UNCHANGED <<llc, llcOut, d_tx_frame_counter, d_replay_mode_active,
                    llcIn, offered, replayCall>>
    BY <1>3, TransmitEffect
  <2>2. TxCounterIsTotal' /\ DeliveredSound'
    BY <2>1 DEF LinkInv, TxCounterIsTotal, DeliveredSound, PduSound
  <2>3. WaitingKnown' /\ ReplayersOnly'
    BY <2>1, WaitingUnchanged, ReplayersUnchanged
  <2> QED
    BY <2>2, <2>3, <1>0, <1>3, PublishedTransmit, InAirTransmit, OrderTransmit DEF LinkInv
<1>4. ASSUME NEW c \in Controllers, HandlePhy(c) PROVE LinkInv'
  <2>1. UNCHANGED <<llc, phyOut, d_tx_frame_counter, d_replay_mode_active,
                    llcIn, offered, replayCall>>
    BY <1>4, HandlePhyEffect
  <2>2. TxCounterIsTotal' /\ PublishedSound'
    BY <2>1 DEF LinkInv, TxCounterIsTotal, PublishedSound
  <2>3. WaitingKnown' /\ ReplayersOnly'
    BY <2>1, WaitingUnchanged, ReplayersUnchanged
  <2> QED
    BY <2>2, <2>3, <1>0, <1>4, InAirHandlePhy, DeliveredHandlePhy, OrderHandlePhy DEF LinkInv
<1>5. ASSUME NEW s \in Stations, NEW activate \in BOOLEAN, CallActivateReplayMode(s, activate)
      PROVE  LinkInv'
  <2>1. UNCHANGED <<d_tx_frame_counter, llc, phyOut, phyIn, llcOut, llcIn, offered>>
    BY <1>5 DEF CallActivateReplayMode, macVars, counters, status, outputs, queues
  <2> QED
    BY <2>1, <1>0, <1>5, LinkUnchanged, WaitingUnchanged, ReplayersCall DEF LinkInv
<1>6. ASSUME NEW s \in Stations, VisitController(s) PROVE LinkInv'
  <2>1. UNCHANGED <<d_tx_frame_counter, llc, phyOut, phyIn, llcOut, llcIn, offered>>
    BY <1>6 DEF VisitController, ActivateReplayMode, counters, status, outputs, queues
  <2> QED
    BY <2>1, <1>0, <1>6, LinkUnchanged, WaitingUnchanged, ReplayersVisit DEF LinkInv
<1>7. CASE UNCHANGED netVars
  <2>1. UNCHANGED <<d_tx_frame_counter, llc, phyOut, phyIn, llcOut, llcIn, offered,
                    d_replay_mode_active, replayCall>>
    BY <1>7 DEF netVars, queues, macVars, counters, status, outputs
  <2> QED
    BY <2>1, <1>0, LinkUnchanged, WaitingUnchanged, ReplayersUnchanged DEF LinkInv
<1> QED
  BY <1>1, <1>2, <1>3, <1>4, <1>5, <1>6, <1>7 DEF NetNext

LEMMA LinkInvInit == NetInit => LinkInv
<1> SUFFICES ASSUME NetInit PROVE LinkInv
  OBVIOUS
<1>1. /\ NetTypeOK
      /\ \A c \in Controllers : /\ llcIn[c] = <<>> /\ phyIn[c] = <<>>
                               /\ phyOut[c] = <<>> /\ llcOut[c] = <<>>
                               /\ offered[c] = 0 /\ llc[c].total = 0
                               /\ ~d_replay_mode_active[c] /\ d_tx_frame_counter[c] = 0
      /\ \A s \in Stations : replayCall[s].todo = {}
  BY NetInitType DEF NetInit, MacInit
<1>2. TxCounterIsTotal
  <2>1. 0 % FrameCounterMax = 0
    BY WidthTypes, RemainderOf, 0 * FrameCounterMax + 0 = 0
  <2> QED
    BY <2>1, <1>1 DEF TxCounterIsTotal
<1>3. WaitingKnown
  BY <1>1 DEF WaitingKnown
<1>4. PublishedSound /\ InAirSound /\ DeliveredSound
  BY <1>1 DEF PublishedSound, InAirSound, DeliveredSound
<1>5. OrderKept
  BY <1>1 DEF OrderKept, OrderAt, InOrder, Precedes
<1>6. ReplayersOnly
  BY <1>1 DEF ReplayersOnly
<1> QED
  BY <1>1, <1>2, <1>3, <1>4, <1>5, <1>6 DEF LinkInv

-----------------------------------------------------------------------------
(***************************************************************************)
(* The loss report.  What a receiver counts are skipped sequence numbers   *)
(* (LossReportIsSkipped); the invariant of the links turns these into      *)
(* ranks.                                                                  *)
(***************************************************************************)
LEMMA RankSplit ==
    ASSUME NEW rank \in Nat \ {0}
    PROVE  /\ Epoch(rank) \in Int /\ (rank - 1) % FrameCounterMax \in 0 .. FrameCounterMax - 1
           /\ rank - 1 = FrameCounterMax * Epoch(rank) + ((rank - 1) % FrameCounterMax)
<1> DEFINE m == FrameCounterMax
           n == rank - 1
<1>1. m \in Nat \ {0} /\ n \in Int
  BY WidthTypes
<1> HIDE DEF m, n
<1>2. n \div m \in Int /\ n % m \in 0 .. m - 1 /\ n = m * (n \div m) + (n % m)
  BY <1>1, SMT
<1> QED
  BY <1>2 DEF Epoch, m, n

\* Nothing was delivered before: the receiver's counter still has its initial value.
LEMMA SkippedFirst ==
    ASSUME NEW this \in Nat \ {0}, Epoch(this) = 0
    PROVE  SkippedNumbers((this - 1) % FrameCounterMax, FrameCounterMax) = this - 1
<1> DEFINE seq == (this - 1) % FrameCounterMax
<1>1. /\ seq \in 0 .. FrameCounterMax - 1
      /\ this - 1 = FrameCounterMax * 0 + seq
  BY RankSplit
<1>2. /\ FrameCounterMax \in Nat /\ Word = FrameCounterMax + 1 /\ Word \in Nat \ {0}
  BY WidthTypes DEF FrameCounterMax
<1> HIDE DEF seq
<1>3. this - 1 = seq /\ seq # FrameCounterMax
  BY <1>1, <1>2
<1>4. (seq - FrameCounterMax) - 1 = (-1) * Word + seq /\ seq \in 0 .. Word - 1
  BY <1>1, <1>2
<1>5. ((-1) * Word + seq) % Word = seq
  BY <1>2, <1>4, RemainderOf
<1>6. SkippedNumbers(seq, FrameCounterMax) = seq
  BY <1>3, <1>4, <1>5 DEF SkippedNumbers
<1> QED
  BY <1>3, <1>6 DEF seq

LEMMA SkippedBetween ==
    ASSUME NEW this \in Nat \ {0}, NEW last \in Nat \ {0}, last < this
    PROVE  LET lost == SkippedNumbers((this - 1) % FrameCounterMax, (last - 1) % FrameCounterMax)
               gap  == this - last - 1
           IN  /\ Epoch(this) = Epoch(last) => lost = gap
               /\ Epoch(this) = Epoch(last) + 1 /\ gap < Word - 2 => lost = gap + 1
<1> DEFINE m == FrameCounterMax
           seq == (this - 1) % FrameCounterMax
           prev == (last - 1) % FrameCounterMax
           turns == m * Epoch(last)
<1>1. /\ m \in Nat /\ Word = m + 1 /\ Word \in Nat \ {0}
  BY WidthTypes DEF FrameCounterMax
<1>2. /\ seq \in 0 .. m - 1 /\ prev \in 0 .. m - 1
      /\ Epoch(this) \in Int /\ Epoch(last) \in Int
      /\ this - 1 = m * Epoch(this) + seq /\ last - 1 = turns + prev
  BY RankSplit
<1>3. turns \in Int
  BY <1>1, <1>2
<1> HIDE DEF m, seq, prev
<1>4. CASE Epoch(this) = Epoch(last)
  <2>1. this - 1 = turns + seq
    BY <1>2, <1>4
  <2> HIDE DEF turns
  <2>2. /\ (seq - prev) - 1 = (this - last) - 1 /\ seq # prev
        /\ (this - last) - 1 \in 0 .. Word - 1
    BY <1>1, <1>2, <1>3, <2>1
  <2>3. ((this - last) - 1) % Word = (this - last) - 1
    BY <2>2, <1>1, RemainderOf, 0 * Word + ((this - last) - 1) = (this - last) - 1
  <2>4. SkippedNumbers(seq, prev) = (this - last) - 1
    BY <2>2, <2>3 DEF SkippedNumbers
  <2>5. Epoch(this) # Epoch(last) + 1
    BY <1>2, <1>4
  <2> QED
    BY <2>4, <2>5, <1>4 DEF seq, prev
<1>5. CASE Epoch(this) = Epoch(last) + 1 /\ (this - last) - 1 < Word - 2
  <2>1. m * (Epoch(last) + 1) = turns + m
    BY <1>1, <1>2
  <2>2. this - 1 = (turns + m) + seq
    BY <2>1, <1>2, <1>5
  <2> HIDE DEF turns
  <2>3. /\ seq # prev
        /\ (seq - prev) - 1 = (-1) * Word + (this - last)
        /\ this - last \in 0 .. Word - 1
    BY <1>1, <1>2, <1>3, <1>5, <2>2
  <2>4. ((-1) * Word + (this - last)) % Word = this - last
    BY <2>3, <1>1, RemainderOf
  <2>5. SkippedNumbers(seq, prev) = this - last
    BY <2>3, <2>4 DEF SkippedNumbers
  <2>6. Epoch(this) # Epoch(last) /\ this - last = ((this - last) - 1) + 1
    BY <1>2, <1>5
  <2> QED
    BY <2>5, <2>6 DEF seq, prev
<1> QED
  BY <1>4, <1>5

NetLossInv == LinkInv /\ LossReportIsSkipped /\ RxCounterIsLast

LEMMA NetLossNext ==
    ASSUME ProperConfiguration, NetLossInv, [NetNext]_netVars
    PROVE  NetLossInv'
<1>0. LinkInv' /\ LossInv
  BY LinkInvNext DEF NetLossInv, LinkInv, NetTypeOK, LossInv
<1>1. ASSUME UNCHANGED <<llcOut, d_rx_frame_counter>> PROVE NetLossInv'
  BY <1>0, <1>1, LossUnchanged DEF NetLossInv
<1>2. ASSUME NEW c \in Controllers, UdpServer(c) PROVE NetLossInv'
  BY <1>1, <1>2 DEF UdpServer, macVars, counters, outputs
<1>3. ASSUME NEW c \in Controllers, HandleLlc(c) PROVE NetLossInv'
  BY <1>1, <1>3 DEF HandleLlc, HandleLlcMsg
<1>4. ASSUME NEW c \in Controllers, Transmit(c) PROVE NetLossInv'
  BY <1>1, <1>4 DEF Transmit, counters
<1>5. ASSUME NEW c \in Controllers, HandlePhy(c) PROVE NetLossInv'
  <2> DEFINE f == Head(phyIn[c])
  <2>1. PICK ticks \in Ticks : Reception(c, f, ticks)
    BY <1>5 DEF HandlePhy
  <2>2. f \in Frame
    BY <1>5, HandlePhyEffect DEF NetLossInv
  <2> HIDE DEF f
  <2>3. CASE HandlePhyMsg(c, f, TRUE, ticks)
    BY <2>2, <2>3, <1>0, LossHandlePhyMsg DEF NetLossInv
  <2>4. ASSUME NEW header \in Damaged(f.header),
               HandlePhyMsg(c, [f EXCEPT !.header = header], FALSE, ticks)
        PROVE  NetLossInv'
    BY <2>4, <1>1, DamagedIsRejected DEF macVars, counters, outputs
  <2> QED
    BY <2>1, <2>3, <2>4 DEF Reception
<1>6. ASSUME NEW s \in Stations, NEW activate \in BOOLEAN, CallActivateReplayMode(s, activate)
      PROVE  NetLossInv'
  BY <1>1, <1>6 DEF CallActivateReplayMode, macVars, counters, outputs
<1>7. ASSUME NEW s \in Stations, VisitController(s) PROVE NetLossInv'
  BY <1>1, <1>7 DEF VisitController, ActivateReplayMode, counters, outputs
<1>8. CASE UNCHANGED netVars
  BY <1>1, <1>8 DEF netVars, macVars, counters, outputs
<1> QED
  BY <1>2, <1>3, <1>4, <1>5, <1>6, <1>7, <1>8 DEF NetNext

LEMMA NetLossInit == NetInit => NetLossInv
<1> SUFFICES ASSUME NetInit PROVE LossReportIsSkipped /\ RxCounterIsLast
  BY LinkInvInit DEF NetLossInv
<1> QED
  BY DEF NetInit, MacInit, LossReportIsSkipped, RxCounterIsLast

\* Where no replay pattern is sent, LLCout holds real PDUs of the peer with increasing ranks.
LEMMA DeliveredFacts ==
    ASSUME LinkInv, ReplayUsers = {}, NEW c \in Controllers, NEW i \in DOMAIN llcOut[c]
    PROVE  /\ llcOut[c] \in Seq(LlcMessage) /\ i \in Nat \ {0}
           /\ Peer(c) \in Controllers /\ Real(Peer(c), llcOut[c][i])
           /\ llcOut[c][i].data.rank \in Nat \ {0}
           /\ llcOut[c][i].sequence = (llcOut[c][i].data.rank - 1) % FrameCounterMax
           /\ \A j \in DOMAIN llcOut[c] :
                 j < i => llcOut[c][j].data.rank < llcOut[c][i].data.rank
<1>1. llcOut[c] \in Seq(LlcMessage) /\ i \in Nat \ {0}
  BY LinkTypes DEF LinkInv
<1>2. ASSUME NEW j \in DOMAIN llcOut[c]
      PROVE  /\ llcOut[c][j].data.origin = Peer(c) /\ Peer(c) \in Controllers
             /\ llcOut[c][j].data.rank \in Nat \ {0}
             /\ Real(Peer(c), llcOut[c][j])
             /\ llcOut[c][j].sequence = (llcOut[c][j].data.rank - 1) % FrameCounterMax
  <2>1. llcOut[c][j].data.origin \in Controllers /\ llcOut[c][j].data.rank \in Nat
    BY <1>1, LinkTypes DEF LinkInv
  <2>2. PduSound(c, llcOut[c][j])
    BY DEF LinkInv, DeliveredSound
  <2> QED
    BY <2>1, <2>2 DEF PduSound, Numbered, Real
<1>3. InOrder(Peer(c), llcOut[c])
  BY <1>2 DEF LinkInv, OrderKept, OrderAt
<1>4. \A j \in DOMAIN llcOut[c] : j < i => llcOut[c][j].data.rank < llcOut[c][i].data.rank
  BY <1>2, <1>3 DEF InOrder
<1> QED
  BY <1>1, <1>2, <1>4

LEMMA LossIsExact ==
    ASSUME ReplayUsers = {}, NetLossInv
    PROVE  LossReportExact
<1>1. SUFFICES ASSUME NEW c \in Controllers, NEW i \in DOMAIN llcOut[c]
               PROVE  LET this == llcOut[c][i].data.rank
                          last == IF i = 1 THEN 0 ELSE llcOut[c][i - 1].data.rank
                          gap  == this - last - 1
                          lost == llcOut[c][i].lost_packets
                      IN  /\ Epoch(this) = (IF last = 0 THEN 0 ELSE Epoch(last)) => lost = gap
                          /\ last # 0 /\ Epoch(this) = Epoch(last) + 1 /\ gap < Word - 2
                                => lost = gap + 1
  BY DEF LossReportExact
<1>2. /\ llcOut[c] \in Seq(LlcMessage) /\ i \in Nat \ {0}
      /\ llcOut[c][i].data.rank \in Nat \ {0}
      /\ llcOut[c][i].sequence = (llcOut[c][i].data.rank - 1) % FrameCounterMax
  BY DeliveredFacts DEF NetLossInv
<1>3. LET last == IF i = 1 THEN FrameCounterMax ELSE llcOut[c][i - 1].sequence
      IN  llcOut[c][i].lost_packets = SkippedNumbers(llcOut[c][i].sequence, last)
  BY DEF NetLossInv, LossReportIsSkipped
<1>4. CASE i = 1
  <2>1. llcOut[c][i].lost_packets =
           SkippedNumbers((llcOut[c][i].data.rank - 1) % FrameCounterMax, FrameCounterMax)
    BY <1>2, <1>3, <1>4
  <2>2. Epoch(llcOut[c][i].data.rank) = 0 =>
           llcOut[c][i].lost_packets = llcOut[c][i].data.rank - 1
    BY <2>1, <1>2, SkippedFirst
  <2>3. (llcOut[c][i].data.rank - 0) - 1 = llcOut[c][i].data.rank - 1
    BY <1>2
  <2> QED
    BY <2>2, <2>3, <1>4
<1>5. CASE i # 1
  <2>1. i - 1 \in DOMAIN llcOut[c] /\ i - 1 < i
    BY <1>2, <1>5
  <2>2. /\ llcOut[c][i - 1].data.rank \in Nat \ {0}
        /\ llcOut[c][i - 1].sequence = (llcOut[c][i - 1].data.rank - 1) % FrameCounterMax
        /\ llcOut[c][i - 1].data.rank < llcOut[c][i].data.rank
    BY <2>1, DeliveredFacts DEF NetLossInv
  <2>3. llcOut[c][i].lost_packets =
           SkippedNumbers((llcOut[c][i].data.rank - 1) % FrameCounterMax,
                          (llcOut[c][i - 1].data.rank - 1) % FrameCounterMax)
    BY <2>2, <1>2, <1>3, <1>5
  <2> QED
    BY <2>2, <2>3, <1>2, <1>5, SkippedBetween
<1> QED
  BY <1>4, <1>5

\* Where nobody uses replay mode, the number of lost packets is exact as long as the
\* sender's counter was not reset in between, and one too high across one reset
\* (handle_phy_msg), for all traffic, noise and interleavings.
THEOREM LossReportAlwaysExact ==
    ASSUME ProperConfiguration, ReplayUsers = {}
    PROVE  NetSpec => []LossReportExact
<1>1. NetInit => NetLossInv
  BY NetLossInit
<1>2. NetLossInv /\ [NetNext]_netVars => NetLossInv'
  BY NetLossNext
<1>3. NetLossInv => LossReportExact
  BY LossIsExact
<1> QED
  BY <1>1, <1>2, <1>3, PTL DEF NetSpec

-----------------------------------------------------------------------------
(***************************************************************************)
(* The links.  What the mapping of UdpNetwork makes of the queues, and     *)
(* what a step of the network does to it.                                  *)
(***************************************************************************)
LEMMA PdusOfMember ==
    ASSUME NEW c, NEW q, NEW pdu
    PROVE  pdu \in PdusOf(c, q) <=> \E i \in DOMAIN q : Real(c, q[i]) /\ pdu = q[i].data
BY DEF PdusOf, Real

LEMMA PdusOfAppend ==
    ASSUME NEW c, NEW S, NEW q \in Seq(S), NEW x \in S
    PROVE  PdusOf(c, Append(q, x)) = PdusOf(c, q) \cup (IF Real(c, x) THEN {x.data} ELSE {})
<1> DEFINE n == Len(q)
           out == Append(q, x)
<1>1. /\ n \in Nat /\ out[n + 1] = x
      /\ DOMAIN out = 1 .. n + 1 /\ DOMAIN q = 1 .. n
      /\ \A i \in 1 .. n : out[i] = q[i]
  BY AppendFacts
<1>2. n + 1 \in DOMAIN out /\ DOMAIN q \subseteq DOMAIN out
  BY <1>1
<1>3. \A i \in DOMAIN out : out[i] = x \/ \E k \in DOMAIN q : out[i] = q[k]
  BY AppendElements
<1> HIDE DEF n, out
<1>4. ASSUME NEW pdu
      PROVE  pdu \in PdusOf(c, out) <=> pdu \in PdusOf(c, q) \/ (Real(c, x) /\ pdu = x.data)
  <2>1. pdu \in PdusOf(c, out) => pdu \in PdusOf(c, q) \/ (Real(c, x) /\ pdu = x.data)
    BY <1>3, PdusOfMember
  <2>2. pdu \in PdusOf(c, q) => pdu \in PdusOf(c, out)
    BY <1>1, <1>2, PdusOfMember
  <2>3. Real(c, x) /\ pdu = x.data => pdu \in PdusOf(c, out)
    BY <1>1, <1>2, PdusOfMember
  <2> QED
    BY <2>1, <2>2, <2>3
<1> QED
  BY <1>4 DEF out

LEMMA PdusOfTail ==
    ASSUME NEW c, NEW S, NEW q \in Seq(S), q # <<>>
    PROVE  PdusOf(c, q) =
              PdusOf(c, Tail(q)) \cup (IF Real(c, Head(q)) THEN {Head(q).data} ELSE {})
<1> DEFINE n == Len(q)
           rest == Tail(q)
           first == Head(q)
<1>1. /\ n \in Nat \ {0} /\ first = q[1] /\ DOMAIN q = 1 .. n
      /\ DOMAIN rest = 1 .. n - 1
      /\ \A i \in 1 .. n - 1 : rest[i] = q[i + 1]
  BY HeadTailFacts
<1>2. \A i \in DOMAIN rest : \E k \in DOMAIN q : rest[i] = q[k]
  BY TailElements
<1> HIDE DEF n, rest, first
<1>3. ASSUME NEW i \in DOMAIN q PROVE q[i] = first \/ \E k \in DOMAIN rest : q[i] = rest[k]
  <2>1. CASE i = 1
    BY <2>1, <1>1
  <2>2. CASE i # 1
    <3>1. i - 1 \in 1 .. n - 1 /\ (i - 1) + 1 = i
      BY <2>2, <1>1
    <3> QED
      BY <3>1, <1>1
  <2> QED
    BY <2>1, <2>2
<1>4. 1 \in DOMAIN q
  BY <1>1
<1>5. ASSUME NEW pdu
      PROVE  pdu \in PdusOf(c, q) <=>
                pdu \in PdusOf(c, rest) \/ (Real(c, first) /\ pdu = first.data)
  <2>1. pdu \in PdusOf(c, q) => pdu \in PdusOf(c, rest) \/ (Real(c, first) /\ pdu = first.data)
    BY <1>3, PdusOfMember
  <2>2. pdu \in PdusOf(c, rest) => pdu \in PdusOf(c, q)
    BY <1>2, PdusOfMember
  <2>3. Real(c, first) /\ pdu = first.data => pdu \in PdusOf(c, q)
    BY <1>1, <1>4, PdusOfMember
  <2> QED
    BY <2>1, <2>2, <2>3
<1> QED
  BY <1>5 DEF rest, first

LEMMA RangeAppend ==
    ASSUME NEW S, NEW q \in Seq(S), NEW x \in S
    PROVE  Range(Append(q, x)) = Range(q) \cup {x}
<1> DEFINE n == Len(q)
           out == Append(q, x)
<1>1. /\ n \in Nat /\ out[n + 1] = x
      /\ DOMAIN out = 1 .. n + 1 /\ DOMAIN q = 1 .. n
      /\ \A i \in 1 .. n : out[i] = q[i]
  BY AppendFacts
<1>2. n + 1 \in DOMAIN out /\ DOMAIN q \subseteq DOMAIN out
  BY <1>1
<1>3. \A i \in DOMAIN out : out[i] = x \/ \E k \in DOMAIN q : out[i] = q[k]
  BY AppendElements
<1> HIDE DEF n, out
<1> QED
  BY <1>1, <1>2, <1>3 DEF Range, out

LEMMA RangeTail ==
    ASSUME NEW S, NEW q \in Seq(S), q # <<>>
    PROVE  Range(q) = Range(Tail(q)) \cup {Head(q)}
<1> DEFINE n == Len(q)
           rest == Tail(q)
<1>1. /\ n \in Nat \ {0} /\ Head(q) = q[1] /\ DOMAIN q = 1 .. n
      /\ DOMAIN rest = 1 .. n - 1
      /\ \A i \in 1 .. n - 1 : rest[i] = q[i + 1]
  BY HeadTailFacts
<1>2. \A i \in DOMAIN rest : \E k \in DOMAIN q : rest[i] = q[k]
  BY TailElements
<1> HIDE DEF n, rest
<1>3. ASSUME NEW i \in DOMAIN q PROVE q[i] = q[1] \/ \E k \in DOMAIN rest : q[i] = rest[k]
  <2>1. CASE i # 1
    <3>1. i - 1 \in 1 .. n - 1 /\ (i - 1) + 1 = i
      BY <2>1, <1>1
    <3> QED
      BY <3>1, <1>1
  <2> QED
    BY <2>1
<1>4. 1 \in DOMAIN q
  BY <1>1
<1>5. Range(q) \subseteq Range(rest) \cup {q[1]}
  BY <1>3 DEF Range
<1>6. Range(rest) \subseteq Range(q)
  BY <1>2 DEF Range
<1>7. q[1] \in Range(q)
  BY <1>4 DEF Range
<1> QED
  BY <1>1, <1>5, <1>6, <1>7 DEF rest

\* The data of the messages at LLCout, and of one more.
DataOf(q) == [i \in DOMAIN q |-> q[i].data]

LEMMA DataOfAppend ==
    ASSUME NEW q \in Seq(LlcMessage), NEW m \in LlcMessage
    PROVE  DataOf(Append(q, m)) = Append(DataOf(q), m.data)
<1> DEFINE n == Len(q)
           out == Append(q, m)
<1>1. /\ n \in Nat /\ out[n + 1] = m
      /\ DOMAIN out = 1 .. n + 1 /\ DOMAIN q = 1 .. n
      /\ \A i \in 1 .. n : out[i] = q[i]
  BY AppendFacts
<1>2. DataOf(q) \in Seq(Pdu) /\ m.data \in Pdu
  <2>1. \A x \in LlcMessage : x.data \in Pdu
    BY DEF LlcMessage
  <2>2. \A i \in 1 .. n : q[i] \in LlcMessage
    BY <1>1
  <2>3. DataOf(q) = [i \in 1 .. n |-> q[i].data]
    BY <1>1 DEF DataOf
  <2> QED
    BY <1>1, <2>1, <2>2, <2>3
<1>3. Len(DataOf(q)) = n /\ \A i \in 1 .. n : DataOf(q)[i] = q[i].data
  BY <1>1, <1>2 DEF DataOf
<1> DEFINE data == Append(DataOf(q), m.data)
<1>4. /\ data \in Seq(Pdu) /\ DOMAIN data = 1 .. n + 1
      /\ data[n + 1] = m.data /\ \A i \in 1 .. n : data[i] = DataOf(q)[i]
  BY <1>2, <1>3, AppendFacts
<1> HIDE DEF n, out, data
<1>5. \A i \in 1 .. n + 1 : data[i] = out[i].data
  BY <1>1, <1>3, <1>4
<1>6. data = [i \in 1 .. n + 1 |-> data[i]]
  BY <1>4
<1>7. DataOf(out) = data
  BY <1>1, <1>5, <1>6 DEF DataOf
<1> QED
  BY <1>7 DEF data, out

LEMMA PeerOfPeer ==
    \A c \in Controllers : /\ Peer(Peer(c)) = c
                           /\ Peer(c) \in Controllers => Peer(c) \in Senders
                           /\ \A k : Peer(k) = c /\ k \in Senders => k = Peer(c)
<1> SUFFICES ASSUME NEW c \in Controllers
             PROVE  /\ Peer(Peer(c)) = c
                    /\ Peer(c) \in Controllers => Peer(c) \in Senders
                    /\ \A k : Peer(k) = c /\ k \in Senders => k = Peer(c)
  OBVIOUS
<1>1. \A d \in Controllers : Peer(Peer(d)) = d
  BY ControllerTypes DEF Peer, SrcId, DstId
<1>2. Senders \subseteq Controllers
  BY DEF Senders
<1> QED
  BY <1>1, <1>2 DEF Senders

LEMMA Mapped ==
    /\ \A c \in Senders :
         /\ offeredPdus[c] = offered[c]
         /\ inTransitPdus[c] =
               Range(llcIn[c]) \cup PdusOf(c, phyOut[c]) \cup PdusOf(c, phyIn[Peer(c)])
         /\ deliveredPdus[c] = DataOf(llcOut[Peer(c)])
    /\ offeredPdus = [c \in Senders |-> offeredPdus[c]]
    /\ inTransitPdus = [c \in Senders |-> inTransitPdus[c]]
    /\ deliveredPdus = [c \in Senders |-> deliveredPdus[c]]
BY DEF offeredPdus, inTransitPdus, deliveredPdus, DataOf

LEMMA MappedNext ==
    /\ \A c \in Senders :
         /\ offeredPdus'[c] = offered'[c]
         /\ inTransitPdus'[c] =
               Range(llcIn'[c]) \cup PdusOf(c, phyOut'[c]) \cup PdusOf(c, phyIn'[Peer(c)])
         /\ deliveredPdus'[c] = DataOf(llcOut'[Peer(c)])
    /\ offeredPdus' = [c \in Senders |-> offeredPdus'[c]]
    /\ inTransitPdus' = [c \in Senders |-> inTransitPdus'[c]]
    /\ deliveredPdus' = [c \in Senders |-> deliveredPdus'[c]]
BY DEF offeredPdus, inTransitPdus, deliveredPdus, DataOf

\* A function that changes at one place at most.
LEMMA ChangedAt ==
    ASSUME NEW S, NEW F, NEW G, F = [x \in S |-> F[x]], G = [x \in S |-> G[x]],
           NEW l \in S, \A k \in S \ {l} : G[k] = F[k]
    PROVE  G = [F EXCEPT ![l] = G[l]]
OBVIOUS

LEMMA Unchanged ==
    ASSUME NEW S, NEW F, NEW G, F = [x \in S |-> F[x]], G = [x \in S |-> G[x]],
           \A k \in S : G[k] = F[k]
    PROVE  G = F
OBVIOUS

LEMMA LinkStutters ==
    ASSUME \A k \in Senders : /\ offeredPdus'[k] = offeredPdus[k]
                              /\ inTransitPdus'[k] = inTransitPdus[k]
                              /\ deliveredPdus'[k] = deliveredPdus[k]
    PROVE  UNCHANGED Link!linkVars
<1>1. offeredPdus' = offeredPdus
  BY Mapped, MappedNext, Unchanged
<1>2. inTransitPdus' = inTransitPdus
  BY Mapped, MappedNext, Unchanged
<1>3. deliveredPdus' = deliveredPdus
  BY Mapped, MappedNext, Unchanged
<1> QED
  BY <1>1, <1>2, <1>3 DEF Link!linkVars

LEMMA LinkOffers ==
    ASSUME NEW l \in Senders,
           \A k \in Senders \ {l} : /\ offeredPdus'[k] = offeredPdus[k]
                                    /\ inTransitPdus'[k] = inTransitPdus[k],
           \A k \in Senders : deliveredPdus'[k] = deliveredPdus[k],
           offeredPdus'[l] = offeredPdus[l] + 1,
           NEW pdu \in LinkPdus[l], pdu.rank = offeredPdus[l] + 1,
           inTransitPdus'[l] = inTransitPdus[l] \cup {pdu}
    PROVE  Link!LinkNext
<1>1. offeredPdus' = [offeredPdus EXCEPT ![l] = offeredPdus'[l]]
  BY Mapped, MappedNext, ChangedAt
<1>2. inTransitPdus' = [inTransitPdus EXCEPT ![l] = inTransitPdus'[l]]
  BY Mapped, MappedNext, ChangedAt
<1>3. deliveredPdus' = deliveredPdus
  BY Mapped, MappedNext, Unchanged
<1>4. Link!Offer(l)
  BY <1>1, <1>2, <1>3 DEF Link!Offer
<1> QED
  BY <1>4 DEF Link!LinkNext

LEMMA LinkLoses ==
    ASSUME NEW l \in Senders,
           \A k \in Senders \ {l} : inTransitPdus'[k] = inTransitPdus[k],
           \A k \in Senders : /\ offeredPdus'[k] = offeredPdus[k]
                              /\ deliveredPdus'[k] = deliveredPdus[k],
           NEW pdu \in inTransitPdus[l],
           inTransitPdus'[l] = inTransitPdus[l] \ {pdu}
    PROVE  Link!LinkNext
<1>1. offeredPdus' = offeredPdus
  BY Mapped, MappedNext, Unchanged
<1>2. inTransitPdus' = [inTransitPdus EXCEPT ![l] = inTransitPdus'[l]]
  BY Mapped, MappedNext, ChangedAt
<1>3. deliveredPdus' = deliveredPdus
  BY Mapped, MappedNext, Unchanged
<1>4. Link!Lose(l)
  BY <1>1, <1>2, <1>3 DEF Link!Lose
<1> QED
  BY <1>4 DEF Link!LinkNext

LEMMA LinkDelivers ==
    ASSUME NEW l \in Senders,
           \A k \in Senders \ {l} : /\ inTransitPdus'[k] = inTransitPdus[k]
                                    /\ deliveredPdus'[k] = deliveredPdus[k],
           \A k \in Senders : offeredPdus'[k] = offeredPdus[k],
           NEW pdu \in inTransitPdus[l],
           \A other \in inTransitPdus[l] : pdu.rank <= other.rank,
           inTransitPdus'[l] = inTransitPdus[l] \ {pdu},
           deliveredPdus'[l] = Append(deliveredPdus[l], pdu)
    PROVE  Link!LinkNext
<1>1. offeredPdus' = offeredPdus
  BY Mapped, MappedNext, Unchanged
<1>2. inTransitPdus' = [inTransitPdus EXCEPT ![l] = inTransitPdus'[l]]
  BY Mapped, MappedNext, ChangedAt
<1>3. deliveredPdus' = [deliveredPdus EXCEPT ![l] = deliveredPdus'[l]]
  BY Mapped, MappedNext, ChangedAt
<1>4. Link!Deliver(l)
  BY <1>1, <1>2, <1>3 DEF Link!Deliver
<1> QED
  BY <1>4 DEF Link!LinkNext

LEMMA LinkReplays ==
    ASSUME NEW l \in Senders,
           \A k \in Senders \ {l} : deliveredPdus'[k] = deliveredPdus[k],
           \A k \in Senders : /\ offeredPdus'[k] = offeredPdus[k]
                              /\ inTransitPdus'[k] = inTransitPdus[k],
           NEW pattern \in LinkPatterns[l],
           deliveredPdus'[l] = Append(deliveredPdus[l], pattern)
    PROVE  Link!LinkNext
<1>1. offeredPdus' = offeredPdus
  BY Mapped, MappedNext, Unchanged
<1>2. inTransitPdus' = inTransitPdus
  BY Mapped, MappedNext, Unchanged
<1>3. deliveredPdus' = [deliveredPdus EXCEPT ![l] = deliveredPdus'[l]]
  BY Mapped, MappedNext, ChangedAt
<1>4. Link!Replay(l)
  BY <1>1, <1>2, <1>3 DEF Link!Replay
<1> QED
  BY <1>4 DEF Link!LinkNext

(***************************************************************************)
(* Each step of the network is a step of one link, or of none.             *)
(***************************************************************************)
LEMMA SameQueues ==
    ASSUME NEW k \in Senders,
           llcIn'[k] = llcIn[k], phyOut'[k] = phyOut[k], phyIn'[Peer(k)] = phyIn[Peer(k)]
    PROVE  inTransitPdus'[k] = inTransitPdus[k]
BY Mapped, MappedNext, ZenonT(30)

LEMMA UdpServerMaps ==
    ASSUME LinkInv, NEW c \in Controllers, UdpServer(c)
    PROVE  [Link!LinkNext]_(Link!linkVars)
<1>1. /\ offered[c] < MaxPdus[c]
      /\ offered' = [offered EXCEPT ![c] = offered[c] + 1]
      /\ UNCHANGED <<phyOut, phyIn, llcOut>>
  BY UdpServerEffect DEF LinkInv, macVars, outputs
<1>2. PICK pdu \in Pdu : /\ pdu.origin = c /\ pdu.rank = offered[c] + 1
                         /\ pdu.size \in PduSizes
                         /\ llcIn' = [llcIn EXCEPT ![c] = Append(llcIn[c], pdu)]
  BY UdpServerEffect DEF LinkInv
<1>3. /\ Senders \subseteq Controllers
      /\ offered \in [Controllers -> Nat] /\ llcIn \in [Controllers -> Seq(Pdu)]
      /\ llcIn[c] \in Seq(Pdu)
  BY DEF Senders, LinkInv, NetTypeOK
<1>4. ASSUME NEW k \in Senders, k # c
      PROVE  offeredPdus'[k] = offeredPdus[k] /\ inTransitPdus'[k] = inTransitPdus[k]
  <2>1. offered'[k] = offered[k] /\ llcIn'[k] = llcIn[k]
    BY <1>1, <1>2, <1>3, <1>4
  <2> QED
    BY <2>1, <1>1, Mapped, MappedNext, SameQueues
<1>5. ASSUME NEW k \in Senders PROVE deliveredPdus'[k] = deliveredPdus[k]
  BY <1>1, Mapped, MappedNext
<1>6. CASE c \notin Senders
  <2>1. UNCHANGED Link!linkVars
    BY <1>4, <1>5, <1>6, LinkStutters
  <2> QED
    BY <2>1
<1>7. CASE c \in Senders
  <2>1. offeredPdus'[c] = offeredPdus[c] + 1 /\ offeredPdus[c] = offered[c]
    BY <1>1, <1>3, <1>7, Mapped, MappedNext
  <2>2. inTransitPdus'[c] = inTransitPdus[c] \cup {pdu}
    <3>1. llcIn'[c] = Append(llcIn[c], pdu)
      BY <1>2, <1>3
    <3>2. Range(llcIn'[c]) = Range(llcIn[c]) \cup {pdu}
      BY <3>1, <1>3, RangeAppend
    <3>3. inTransitPdus'[c] =
             Range(llcIn'[c]) \cup PdusOf(c, phyOut[c]) \cup PdusOf(c, phyIn[Peer(c)])
      BY <1>1, <1>7, MappedNext
    <3>4. inTransitPdus[c] =
             Range(llcIn[c]) \cup PdusOf(c, phyOut[c]) \cup PdusOf(c, phyIn[Peer(c)])
      BY <1>7, Mapped
    <3> QED
      BY <3>2, <3>3, <3>4
  <2>3. pdu \in LinkPdus[c]
    <3>1. pdu = [origin |-> c, rank |-> pdu.rank, size |-> pdu.size]
      BY <1>2 DEF Pdu
    <3>2. pdu.rank \in 1 .. MaxPdus[c]
      BY <1>1, <1>2, <1>3, ControllerAssumption
    <3>3. LinkPdus[c] = {[origin |-> c, rank |-> r, size |-> n] :
                            r \in 1 .. MaxPdus[c], n \in PduSizes}
      BY <1>7 DEF LinkPdus
    <3> QED
      BY <3>1, <3>2, <3>3, <1>2
  <2> QED
    BY <2>1, <2>2, <2>3, <1>2, <1>4, <1>5, <1>7, LinkOffers
<1> QED
  BY <1>6, <1>7

\* Ranks tell the PDUs in transit apart.
LEMMA TransitRanks ==
    ASSUME LinkInv, NEW c \in Controllers
    PROVE  /\ \A p \in Range(llcIn[c]) : p.rank \in Nat /\ llc[c].total < p.rank
           /\ \A d \in Controllers :
                 \A p \in PdusOf(c, phyOut[d]) \cup PdusOf(c, phyIn[d]) :
                    p.rank \in Nat /\ p.rank <= llc[c].total
<1>1. llc[c].total \in Nat /\ llcIn[c] \in Seq(Pdu)
  BY LinkTypes DEF LinkInv
<1>2. ASSUME NEW p \in Range(llcIn[c]) PROVE p.rank \in Nat /\ llc[c].total < p.rank
  <2>1. PICK i \in DOMAIN llcIn[c] : p = llcIn[c][i]
    BY DEF Range
  <2>2. i \in Nat \ {0} /\ p.rank = llc[c].total + i
    BY <2>1, <1>1 DEF LinkInv, WaitingKnown
  <2> QED
    BY <2>2, <1>1
<1>3. ASSUME NEW d \in Controllers, NEW p \in PdusOf(c, phyOut[d])
      PROVE  p.rank \in Nat /\ p.rank <= llc[c].total
  <2>1. PICK i \in DOMAIN phyOut[d] : Real(c, phyOut[d][i]) /\ p = phyOut[d][i].data
    BY PdusOfMember
  <2>2. phyOut[d][i] \in Frame
    BY LinkTypes DEF LinkInv
  <2> QED
    BY <2>1, <2>2, RanksHandled, LinkTypes DEF LinkInv
<1>4. ASSUME NEW d \in Controllers, NEW p \in PdusOf(c, phyIn[d])
      PROVE  p.rank \in Nat /\ p.rank <= llc[c].total
  <2>1. PICK i \in DOMAIN phyIn[d] : Real(c, phyIn[d][i]) /\ p = phyIn[d][i].data
    BY PdusOfMember
  <2>2. phyIn[d][i] \in Frame
    BY LinkTypes DEF LinkInv
  <2> QED
    BY <2>1, <2>2, RanksHandled, LinkTypes DEF LinkInv
<1> QED
  BY <1>2, <1>3, <1>4

LEMMA HandleLlcMaps ==
    ASSUME ProperConfiguration, LinkInv, NEW c \in Controllers, HandleLlc(c)
    PROVE  [Link!LinkNext]_(Link!linkVars)
<1> DEFINE pdu == Head(llcIn[c])
           total == llc[c].total
<1>1. /\ llcIn[c] # <<>> /\ pdu \in Pdu /\ pdu.origin = c /\ pdu.rank = total + 1
      /\ llcIn' = [llcIn EXCEPT ![c] = Tail(llcIn[c])]
      /\ \/ phyOut' = phyOut
         \/ \E f \in Frame : /\ FrameOf(c, pdu, total, f)
                             /\ phyOut' = [phyOut EXCEPT ![c] = Append(phyOut[c], f)]
      /\ UNCHANGED <<phyIn, offered, llcOut>>
  BY HandleLlcEffect
<1>2. /\ Senders \subseteq Controllers
      /\ llcIn \in [Controllers -> Seq(Pdu)] /\ phyOut \in [Controllers -> Seq(Frame)]
      /\ llcIn[c] \in Seq(Pdu) /\ phyOut[c] \in Seq(Frame) /\ total \in Nat
  BY LinkTypes DEF Senders, LinkInv, NetTypeOK, MacTypeOK
<1>3. ASSUME NEW k \in Senders, k # c PROVE inTransitPdus'[k] = inTransitPdus[k]
  <2>1. llcIn'[k] = llcIn[k] /\ phyOut'[k] = phyOut[k]
    BY <1>1, <1>2, <1>3
  <2> QED
    BY <2>1, <1>1, SameQueues
<1>4. ASSUME NEW k \in Senders
      PROVE  offeredPdus'[k] = offeredPdus[k] /\ deliveredPdus'[k] = deliveredPdus[k]
  BY <1>1, Mapped, MappedNext
<1>5. CASE c \notin Senders
  <2>1. UNCHANGED Link!linkVars
    BY <1>3, <1>4, <1>5, LinkStutters
  <2> QED
    BY <2>1
<1>6. CASE c \in Senders
  <2> DEFINE rest == Range(Tail(llcIn[c]))
             onAir == PdusOf(c, phyOut[c]) \cup PdusOf(c, phyIn[Peer(c)])
  <2>1. inTransitPdus[c] = rest \cup {pdu} \cup onAir
    <3>1. Range(llcIn[c]) = rest \cup {pdu}
      BY <1>1, <1>2, RangeTail
    <3> QED
      BY <3>1, <1>6, Mapped
  <2>2. inTransitPdus'[c] = rest \cup PdusOf(c, phyOut'[c]) \cup PdusOf(c, phyIn[Peer(c)])
    <3>1. llcIn'[c] = Tail(llcIn[c])
      BY <1>1, <1>2
    <3> QED
      BY <3>1, <1>1, <1>6, MappedNext
  <2>3. pdu \notin rest
    <3> SUFFICES ASSUME NEW i \in DOMAIN Tail(llcIn[c]), Tail(llcIn[c])[i] = pdu PROVE FALSE
      BY DEF Range
    <3>1. i \in Nat \ {0} /\ i + 1 \in DOMAIN llcIn[c] /\ Tail(llcIn[c])[i] = llcIn[c][i + 1]
      BY <1>1, <1>2, HeadTailFacts
    <3>2. Tail(llcIn[c])[i].rank = total + (i + 1)
      BY <3>1 DEF LinkInv, WaitingKnown
    <3>3. total + (i + 1) # total + 1
      BY <3>1, <1>2
    <3> QED
      BY <3>2, <3>3, <1>1
  <2>4. pdu \notin onAir
    <3>1. Peer(c) \in Controllers
      BY <1>6 DEF Senders
    <3>2. ~(total + 1 <= total)
      BY <1>2
    <3> QED
      BY <3>1, <3>2, <1>1, TransitRanks
  <2> HIDE DEF pdu, total, rest
  <2>5. ASSUME PdusOf(c, phyOut'[c]) = PdusOf(c, phyOut[c]) PROVE Link!LinkNext
    <3>1. inTransitPdus'[c] = inTransitPdus[c] \ {pdu}
      BY <2>1, <2>2, <2>3, <2>4, <2>5
    <3>2. pdu \in inTransitPdus[c]
      BY <2>1
    <3> QED
      BY <3>1, <3>2, <1>3, <1>4, <1>6, LinkLoses
  <2>6. ASSUME PdusOf(c, phyOut'[c]) = PdusOf(c, phyOut[c]) \cup {pdu}
        PROVE  UNCHANGED Link!linkVars
    <3>1. inTransitPdus'[c] = inTransitPdus[c]
      BY <2>1, <2>2, <2>6
    <3> QED
      BY <3>1, <1>3, <1>4, <1>6, LinkStutters
  <2>7. CASE phyOut' = phyOut
    BY <2>5, <2>7
  <2>8. ASSUME NEW f \in Frame, FrameOf(c, pdu, total, f),
               phyOut' = [phyOut EXCEPT ![c] = Append(phyOut[c], f)]
        PROVE  [Link!LinkNext]_(Link!linkVars)
    <3>1. phyOut'[c] = Append(phyOut[c], f)
      BY <2>8, <1>2
    <3>2. PdusOf(c, phyOut'[c]) = PdusOf(c, phyOut[c]) \cup (IF Real(c, f) THEN {f.data} ELSE {})
      BY <3>1, <1>2, PdusOfAppend
    <3>3. CASE f.data = pdu
      <4>1. Real(c, f)
        <5>1. total + 1 # 0
          BY <1>2
        <5> QED
          BY <5>1, <3>3, <1>1 DEF Real
      <4> QED
        BY <4>1, <3>2, <3>3, <2>6
    <3>4. CASE f.data = ReplayPattern(c)
      <4>1. ~Real(c, f)
        BY <3>4 DEF Real, ReplayPattern
      <4> QED
        BY <4>1, <3>2, <2>5
    <3> QED
      BY <2>8, <3>3, <3>4 DEF FrameOf
  <2> QED
    BY <1>1, <2>7, <2>8
<1> QED
  BY <1>5, <1>6

\* A frame that is taken from PHYout is with the receiver.
LEMMA TransmitKeepsPdus ==
    ASSUME LinkInv, NEW c \in Controllers, Transmit(c), NEW k \in Senders
    PROVE  PdusOf(k, phyOut[k]) \cup PdusOf(k, phyIn[Peer(k)]) =
              PdusOf(k, phyOut'[k]) \cup PdusOf(k, phyIn'[Peer(k)])
<1> DEFINE f == Head(phyOut[c])
<1>1. /\ phyOut[c] # <<>> /\ f \in Frame /\ f.data.origin = c
      /\ phyOut' = [phyOut EXCEPT ![c] = Tail(phyOut[c])]
      /\ phyIn' = [d \in Controllers |-> Append(phyIn[d], f)]
  BY TransmitEffect
<1>2. /\ k \in Controllers /\ Peer(k) \in Controllers
      /\ phyOut \in [Controllers -> Seq(Frame)] /\ phyOut[c] \in Seq(Frame)
      /\ phyIn[Peer(k)] \in Seq(Frame)
  BY DEF Senders, LinkInv, NetTypeOK, MacTypeOK
<1>3. phyIn'[Peer(k)] = Append(phyIn[Peer(k)], f)
  BY <1>1, <1>2
<1>4. PdusOf(k, phyOut[k]) = PdusOf(k, phyOut'[k]) \cup (IF Real(k, f) THEN {f.data} ELSE {})
  <2>1. CASE k = c
    <3>1. phyOut'[k] = Tail(phyOut[c])
      BY <2>1, <1>1, <1>2
    <3> QED
      BY <2>1, <3>1, <1>1, <1>2, PdusOfTail
  <2>2. CASE k # c
    <3>1. phyOut'[k] = phyOut[k] /\ ~Real(k, f)
      BY <2>2, <1>1, <1>2 DEF Real
    <3> QED
      BY <3>1
  <2> QED
    BY <2>1, <2>2
<1> HIDE DEF f
<1>5. PdusOf(k, Append(phyIn[Peer(k)], f)) =
         PdusOf(k, phyIn[Peer(k)]) \cup (IF Real(k, f) THEN {f.data} ELSE {})
  BY <1>1, <1>2, PdusOfAppend
<1> QED
  BY <1>3, <1>4, <1>5

LEMMA TransmitMaps ==
    ASSUME LinkInv, NEW c \in Controllers, Transmit(c)
    PROVE  UNCHANGED Link!linkVars
<1>1. UNCHANGED <<llcOut, llcIn, offered>>
  BY TransmitEffect
<1>2. SUFFICES ASSUME NEW k \in Senders PROVE inTransitPdus'[k] = inTransitPdus[k]
  BY <1>1, Mapped, MappedNext, LinkStutters
<1>3. inTransitPdus'[k] =
         Range(llcIn[k]) \cup PdusOf(k, phyOut'[k]) \cup PdusOf(k, phyIn'[Peer(k)])
  BY <1>1, MappedNext
<1>4. inTransitPdus[k] =
         Range(llcIn[k]) \cup PdusOf(k, phyOut[k]) \cup PdusOf(k, phyIn[Peer(k)])
  BY Mapped
<1> QED
  BY <1>3, <1>4, TransmitKeepsPdus

LEMMA HandlePhyMaps ==
    ASSUME LinkInv, NEW c \in Controllers, HandlePhy(c)
    PROVE  [Link!LinkNext]_(Link!linkVars)
<1> DEFINE f == Head(phyIn[c])
           l == Peer(c)
<1>1. /\ phyIn[c] # <<>> /\ f \in Frame /\ FrameSound(f)
      /\ phyIn' = [phyIn EXCEPT ![c] = Tail(phyIn[c])]
      /\ \/ llcOut' = llcOut
         \/ /\ f.data.origin = l
            /\ \E m \in LlcMessage :
                 /\ m.data = f.data
                 /\ llcOut' = [llcOut EXCEPT ![c] = Append(llcOut[c], m)]
      /\ UNCHANGED <<phyOut, llcIn, offered>>
  BY HandlePhyEffect
<1>2. /\ phyIn \in [Controllers -> Seq(Frame)] /\ llcOut \in [Controllers -> Seq(LlcMessage)]
      /\ phyIn[c] \in Seq(Frame) /\ llcOut[c] \in Seq(LlcMessage)
      /\ \A k \in Senders : k \in Controllers /\ Peer(k) \in Controllers
  BY DEF Senders, LinkInv, NetTypeOK, MacTypeOK
<1>3. f.data.origin \in Controllers /\ f.data.rank \in Nat
  BY <1>1, LinkTypes DEF LinkInv
<1> HIDE DEF f, l
<1>4. ASSUME NEW k \in Senders, k # l
      PROVE  inTransitPdus'[k] = inTransitPdus[k] /\ deliveredPdus'[k] = deliveredPdus[k]
  <2>1. Peer(k) # c
    BY <1>4, PeerOfPeer DEF l
  <2>2. phyIn'[Peer(k)] = phyIn[Peer(k)] /\ llcOut'[Peer(k)] = llcOut[Peer(k)]
    BY <2>1, <1>1, <1>2
  <2>3. inTransitPdus'[k] = inTransitPdus[k]
    BY <2>2, <1>1, SameQueues
  <2>4. deliveredPdus'[k] = deliveredPdus[k]
    BY <2>2, Mapped, MappedNext
  <2> QED
    BY <2>3, <2>4
<1>5. ASSUME NEW k \in Senders PROVE offeredPdus'[k] = offeredPdus[k]
  BY <1>1, Mapped, MappedNext
<1>6. CASE l \notin Senders
  <2>1. UNCHANGED Link!linkVars
    BY <1>4, <1>5, <1>6, LinkStutters
  <2> QED
    BY <2>1
<1>7. CASE l \in Senders
  <2> DEFINE pdu == f.data
             rest == PdusOf(l, Tail(phyIn[c]))
             others == Range(llcIn[l]) \cup PdusOf(l, phyOut[l])
  <2>0. l \in Controllers /\ Peer(l) = c
    BY <1>2, <1>7, PeerOfPeer DEF l
  <2>1. inTransitPdus[l] = others \cup rest \cup (IF Real(l, f) THEN {pdu} ELSE {})
    <3>1. PdusOf(l, phyIn[c]) = rest \cup (IF Real(l, f) THEN {pdu} ELSE {})
      BY <1>1, <1>2, PdusOfTail DEF f
    <3> QED
      BY <3>1, <2>0, <1>7, Mapped
  <2>2. inTransitPdus'[l] = others \cup rest
    <3>1. phyIn'[c] = Tail(phyIn[c])
      BY <1>1, <1>2
    <3> QED
      BY <3>1, <2>0, <1>1, <1>7, MappedNext
  <2>3. ASSUME Real(l, f), NEW other \in others \cup rest PROVE pdu.rank < other.rank
    <3>1. OrderAt(l, phyOut[l], phyIn[c], llcOut[c])
      BY <2>0 DEF LinkInv, OrderKept
    <3>2. CASE other \in Range(llcIn[l])
      <4>1. pdu.rank <= llc[l].total
        BY <1>1, <2>3 DEF FrameSound, Sound, Numbered, Real
      <4>2. other.rank \in Nat /\ llc[l].total < other.rank /\ llc[l].total \in Nat
        BY <3>2, <2>0, TransitRanks, LinkTypes DEF LinkInv
      <4> QED
        BY <4>1, <4>2, <1>3
    <3>3. CASE other \in PdusOf(l, phyOut[l])
      <4>1. BelowAll(l, f, phyOut[l])
        BY <3>1, <1>1, <1>2, PrecedesTail DEF OrderAt, f
      <4>2. PICK i \in DOMAIN phyOut[l] : Real(l, phyOut[l][i]) /\ other = phyOut[l][i].data
        BY <3>3, PdusOfMember
      <4> QED
        BY <4>1, <4>2, <2>3 DEF BelowAll
    <3>4. CASE other \in rest
      <4> DEFINE q == Tail(phyIn[c])
      <4>1. BelowAll(l, f, q)
        BY <3>1, <1>1, <1>2, OrderTail DEF OrderAt, f
      <4>2. other \in PdusOf(l, q)
        BY <3>4
      <4> HIDE DEF q
      <4>3. PICK i \in DOMAIN q : Real(l, q[i]) /\ other = q[i].data
        BY <4>2, PdusOfMember
      <4> QED
        BY <4>1, <4>3, <2>3 DEF BelowAll
    <3> QED
      BY <2>3, <3>2, <3>3, <3>4
  <2> HIDE DEF others, rest
  <2>4. ASSUME Real(l, f)
        PROVE  /\ pdu \in inTransitPdus[l]
               /\ inTransitPdus'[l] = inTransitPdus[l] \ {pdu}
               /\ \A other \in inTransitPdus[l] : pdu.rank <= other.rank
    <3>1. pdu.rank \in Nat /\ ~(pdu.rank < pdu.rank)
      BY <1>3
    <3>2. pdu \notin others \cup rest
      BY <3>1, <2>3, <2>4
    <3>3. inTransitPdus[l] = others \cup rest \cup {pdu}
      BY <2>1, <2>4
    <3>4. ASSUME NEW other \in inTransitPdus[l] PROVE pdu.rank <= other.rank
      <4>1. CASE other = pdu
        BY <4>1, <3>1
      <4>2. CASE other \in others \cup rest
        <5>1. other.rank \in Nat
          <6>1. CASE other \in PdusOf(l, Tail(phyIn[c]))
            <7>1. other \in PdusOf(l, phyIn[c])
              BY <6>1, <1>1, <1>2, PdusOfTail
            <7> QED
              BY <7>1, <2>0, TransitRanks
          <6>2. CASE other \in Range(llcIn[l]) \cup PdusOf(l, phyOut[l])
            BY <6>2, <2>0, TransitRanks
          <6> QED
            BY <4>2, <6>1, <6>2 DEF others, rest
        <5> QED
          BY <5>1, <4>2, <3>1, <2>3, <2>4
      <4> QED
        BY <4>1, <4>2, <3>3
    <3> QED
      BY <3>2, <3>3, <3>4, <2>2
  <2>5. ASSUME ~Real(l, f) PROVE inTransitPdus'[l] = inTransitPdus[l]
    BY <2>1, <2>2, <2>5
  <2>6. CASE llcOut' = llcOut
    <3>1. \A k \in Senders : deliveredPdus'[k] = deliveredPdus[k]
      BY <2>6, Mapped, MappedNext
    <3>2. CASE Real(l, f)
      BY <3>1, <3>2, <2>4, <1>4, <1>5, <1>7, LinkLoses
    <3>3. CASE ~Real(l, f)
      <4>1. UNCHANGED Link!linkVars
        BY <3>1, <3>3, <2>5, <1>4, <1>5, <1>7, LinkStutters
      <4> QED
        BY <4>1
    <3> QED
      BY <3>2, <3>3
  <2>7. ASSUME f.data.origin = l, NEW m \in LlcMessage, m.data = pdu,
               llcOut' = [llcOut EXCEPT ![c] = Append(llcOut[c], m)]
        PROVE  Link!LinkNext
    <3>1. deliveredPdus'[l] = Append(deliveredPdus[l], pdu)
      <4>1. llcOut'[c] = Append(llcOut[c], m)
        BY <2>7, <1>2
      <4>2. DataOf(Append(llcOut[c], m)) = Append(DataOf(llcOut[c]), pdu)
        BY <2>7, <1>2, DataOfAppend
      <4> QED
        BY <4>1, <4>2, <2>0, <1>7, Mapped, MappedNext
    <3>2. CASE pdu.rank # 0
      <4>1. Real(l, f)
        BY <2>7, <3>2 DEF Real
      <4> QED
        BY <4>1, <3>1, <2>4, <1>4, <1>5, <1>7, LinkDelivers
    <3>3. CASE pdu.rank = 0
      <4>1. ~Real(l, f)
        BY <3>3 DEF Real
      <4>2. pdu \in LinkPatterns[l]
        <5>1. l \in ReplayUsers /\ pdu = ReplayPattern(l)
          BY <2>7, <3>3, <1>1 DEF FrameSound, Sound, Numbered
        <5> QED
          BY <5>1, <1>7 DEF LinkPatterns
      <4>3. inTransitPdus'[l] = inTransitPdus[l]
        BY <4>1, <2>5
      <4> QED
        BY <4>2, <4>3, <3>1, <1>4, <1>5, <1>7, LinkReplays
    <3> QED
      BY <3>2, <3>3
  <2> QED
    BY <1>1, <2>6, <2>7
<1> QED
  BY <1>6, <1>7

LEMMA LinkInitMaps == NetInit => Link!LinkInit
<1> SUFFICES ASSUME NetInit PROVE Link!LinkInit
  OBVIOUS
<1>1. ASSUME NEW c \in Senders
      PROVE  /\ offered[c] = 0 /\ llcIn[c] = <<>> /\ phyOut[c] = <<>>
             /\ phyIn[Peer(c)] = <<>> /\ llcOut[Peer(c)] = <<>>
  BY DEF Senders, NetInit, MacInit
<1>2. Range(<<>>) = {} /\ \A c : PdusOf(c, <<>>) = {}
  BY DEF Range, PdusOf
<1>3. DataOf(<<>>) = <<>>
  BY DEF DataOf
<1>4. ASSUME NEW c \in Senders
      PROVE  offeredPdus[c] = 0 /\ inTransitPdus[c] = {} /\ deliveredPdus[c] = <<>>
  BY <1>1, <1>2, <1>3, Mapped
<1> QED
  BY <1>4, Mapped DEF Link!LinkInit

LEMMA NetNextMaps ==
    ASSUME ProperConfiguration, LinkInv, [NetNext]_netVars
    PROVE  [Link!LinkNext]_(Link!linkVars)
<1>1. ASSUME UNCHANGED <<offered, llcIn, phyOut, phyIn, llcOut>>
      PROVE  [Link!LinkNext]_(Link!linkVars)
  <2>1. UNCHANGED Link!linkVars
    BY <1>1, Mapped, MappedNext, LinkStutters
  <2> QED
    BY <2>1
<1>2. ASSUME NEW s \in Stations, NEW activate \in BOOLEAN, CallActivateReplayMode(s, activate)
      PROVE  [Link!LinkNext]_(Link!linkVars)
  BY <1>1, <1>2 DEF CallActivateReplayMode, macVars, outputs, queues
<1>3. ASSUME NEW s \in Stations, VisitController(s)
      PROVE  [Link!LinkNext]_(Link!linkVars)
  BY <1>1, <1>3 DEF VisitController, ActivateReplayMode, outputs, queues
<1>4. ASSUME NEW c \in Controllers, Transmit(c)
      PROVE  [Link!LinkNext]_(Link!linkVars)
  <2>1. UNCHANGED Link!linkVars
    BY <1>4, TransmitMaps
  <2> QED
    BY <2>1
<1>5. CASE UNCHANGED netVars
  BY <1>1, <1>5 DEF netVars, macVars, outputs, queues
<1> QED
  BY <1>2, <1>3, <1>4, <1>5, UdpServerMaps, HandleLlcMaps, HandlePhyMaps DEF NetNext

\* Whatever the stations send and however their handlers, the radio and the calls of
\* activate_replay_mode interleave, every pair of controllers is a link that may lose
\* a PDU but delivers what it delivers unchanged, in order, once, and to the other end
\* only (handle_llc_msg, check_phy_packet and handle_phy_msg together).
THEOREM NetImplementsLossyLink ==
    ASSUME ProperConfiguration
    PROVE  NetSpec => ImplementsLossyLink
<1>1. NetInit => LinkInv /\ Link!LinkInit
  BY LinkInvInit, LinkInitMaps
<1>2. LinkInv /\ [NetNext]_netVars => LinkInv'
  BY LinkInvNext
<1>3. LinkInv /\ [NetNext]_netVars => [Link!LinkNext]_(Link!linkVars)
  BY NetNextMaps
<1> QED
  BY <1>1, <1>2, <1>3, PTL DEF NetSpec, ImplementsLossyLink, Link!LinkSpec

-----------------------------------------------------------------------------
(***************************************************************************)
(* A link without loss.  No PDU is dropped for its size or replaced, and   *)
(* no frame is damaged: every PDU handled is in a frame or at LLCout, so   *)
(* the one that comes out has the rank of its place at LLCout.             *)
(***************************************************************************)
Lossless ==
    /\ ReplayUsers = {} /\ Noisy = {}
    /\ \A size \in PduSizes : size <= MTU
    /\ \A c \in Controllers : MaxPdus[c] <= FrameCounterMax

Carried(c, sent, arrived, taken) == PdusOf(c, sent) \cup PdusOf(c, arrived) \cup PdusOf(c, taken)

NoneLost ==
    \A c \in Senders : \A n \in 1 .. llc[c].total :
        \E pdu \in Carried(c, phyOut[c], phyIn[Peer(c)], llcOut[Peer(c)]) : pdu.rank = n

RanksArePlaces ==
    \A c \in Controllers : \A i \in DOMAIN llcOut[c] : llcOut[c][i].data.rank = i

TrafficBounded ==
    \A c \in Controllers : /\ offered[c] <= MaxPdus[c]
                           /\ \A i \in DOMAIN llcIn[c] : llcIn[c][i].size \in PduSizes

LosslessInv == NetLossInv /\ NoneLost /\ RanksArePlaces /\ TrafficBounded

LEMMA TrafficNext ==
    ASSUME ProperConfiguration, LosslessInv, [NetNext]_netVars
    PROVE  TrafficBounded'
<1>0. NetTypeOK /\ LinkInv /\ TrafficBounded
  BY DEF LosslessInv, NetLossInv, LinkInv
<1>1. ASSUME NEW c \in Controllers, UdpServer(c) PROVE TrafficBounded'
  <2>1. /\ offered[c] < MaxPdus[c]
        /\ offered' = [offered EXCEPT ![c] = offered[c] + 1]
    BY <1>0, <1>1, UdpServerEffect
  <2>2. PICK pdu \in Pdu : /\ pdu.size \in PduSizes
                           /\ llcIn' = [llcIn EXCEPT ![c] = Append(llcIn[c], pdu)]
    BY <1>0, <1>1, UdpServerEffect
  <2>3. /\ llcIn \in [Controllers -> Seq(Pdu)] /\ llcIn[c] \in Seq(Pdu)
        /\ offered \in [Controllers -> Nat] /\ MaxPdus \in [Controllers -> Nat]
    BY <1>0, ControllerAssumption DEF NetTypeOK
  <2>4. ASSUME NEW d \in Controllers PROVE offered'[d] <= MaxPdus[d]
    <3>1. offered'[d] = IF d = c THEN offered[c] + 1 ELSE offered[d]
      BY <2>1, <2>3
    <3>2. /\ offered[c] \in Nat /\ MaxPdus[c] \in Nat /\ offered[c] < MaxPdus[c]
          /\ offered[d] <= MaxPdus[d]
      BY <1>0, <2>1, <2>3 DEF TrafficBounded
    <3> QED
      BY <3>1, <3>2
  <2>5. ASSUME NEW d \in Controllers, NEW i \in DOMAIN llcIn'[d] PROVE llcIn'[d][i].size \in PduSizes
    <3>1. CASE d # c
      BY <3>1, <2>2, <2>3, <1>0 DEF TrafficBounded
    <3>2. CASE d = c
      <4>1. llcIn'[d] = Append(llcIn[c], pdu)
        BY <3>2, <2>2, <2>3
      <4>2. llcIn'[d][i] = pdu \/ \E k \in DOMAIN llcIn[c] : llcIn'[d][i] = llcIn[c][k]
        BY <4>1, <2>3, AppendElements
      <4> QED
        BY <4>2, <2>2, <1>0 DEF TrafficBounded
    <3> QED
      BY <3>1, <3>2
  <2> QED
    BY <2>4, <2>5 DEF TrafficBounded
<1>2. ASSUME NEW c \in Controllers, HandleLlc(c) PROVE TrafficBounded'
  <2>1. /\ llcIn[c] # <<>> /\ offered' = offered
        /\ llcIn' = [llcIn EXCEPT ![c] = Tail(llcIn[c])]
    BY <1>0, <1>2, HandleLlcEffect
  <2>2. llcIn \in [Controllers -> Seq(Pdu)] /\ llcIn[c] \in Seq(Pdu)
    BY <1>0 DEF NetTypeOK
  <2>3. ASSUME NEW d \in Controllers, NEW i \in DOMAIN llcIn'[d]
        PROVE  \E k \in DOMAIN llcIn[d] : llcIn'[d][i] = llcIn[d][k]
    <3>1. CASE d # c
      BY <3>1, <2>1, <2>2
    <3>2. CASE d = c
      <4>1. llcIn'[d] = Tail(llcIn[c])
        BY <3>2, <2>1, <2>2
      <4> QED
        BY <4>1, <3>2, <2>1, <2>2, TailElements
    <3> QED
      BY <3>1, <3>2
  <2> QED
    BY <2>1, <2>3, <1>0 DEF TrafficBounded
<1>3. ASSUME UNCHANGED <<offered, llcIn>> PROVE TrafficBounded'
  BY <1>0, <1>3 DEF TrafficBounded
<1>4. ASSUME NEW c \in Controllers, Transmit(c) PROVE TrafficBounded'
  BY <1>3, <1>4 DEF Transmit
<1>5. ASSUME NEW c \in Controllers, HandlePhy(c) PROVE TrafficBounded'
  BY <1>3, <1>5 DEF HandlePhy
<1>6. ASSUME NEW s \in Stations, NEW activate \in BOOLEAN, CallActivateReplayMode(s, activate)
      PROVE  TrafficBounded'
  BY <1>3, <1>6 DEF CallActivateReplayMode, queues
<1>7. ASSUME NEW s \in Stations, VisitController(s) PROVE TrafficBounded'
  BY <1>3, <1>7 DEF VisitController, queues
<1>8. CASE UNCHANGED netVars
  BY <1>3, <1>8 DEF netVars, queues
<1> QED
  BY <1>1, <1>2, <1>4, <1>5, <1>6, <1>7, <1>8 DEF NetNext

LEMMA LosslessUnchanged ==
    ASSUME LosslessInv, UNCHANGED <<llc, phyOut, phyIn, llcOut>>
    PROVE  NoneLost' /\ RanksArePlaces'
BY DEF LosslessInv, NoneLost, RanksArePlaces

LEMMA LosslessHandleLlc ==
    ASSUME ProperConfiguration, Lossless, LosslessInv, NEW c \in Controllers, HandleLlc(c)
    PROVE  NoneLost' /\ RanksArePlaces'
<1> DEFINE pdu == Head(llcIn[c])
<1>0. LinkInv /\ NetTypeOK
  BY DEF LosslessInv, NetLossInv, LinkInv
<1>1. /\ llcIn[c] # <<>> /\ pdu \in Pdu /\ pdu.origin = c /\ pdu.rank = llc[c].total + 1
      /\ llc'[c].total = llc[c].total + 1
      /\ \A d \in Controllers \ {c} : llc'[d].total = llc[d].total
      /\ UNCHANGED <<phyIn, llcOut>>
  BY <1>0, HandleLlcEffect
<1>2. /\ phyOut \in [Controllers -> Seq(Frame)] /\ phyOut[c] \in Seq(Frame)
      /\ llcIn[c] \in Seq(Pdu) /\ llc[c].total \in Nat
      /\ \A k \in Senders : k \in Controllers /\ Peer(k) \in Controllers
  BY <1>0, LinkTypes DEF Senders, NetTypeOK, MacTypeOK
<1>3. \E f \in Frame : f.data = pdu /\ phyOut' = [phyOut EXCEPT ![c] = Append(phyOut[c], f)]
  <2>1. PICK ticks \in Ticks : HandleLlcMsg(c, pdu, ticks)
    BY DEF HandleLlc
  <2>2. pdu.size <= MTU
    <3>1. pdu = llcIn[c][1] /\ 1 \in DOMAIN llcIn[c]
      BY <1>1, <1>2, HeadTailFacts
    <3> QED
      BY <3>1 DEF LosslessInv, TrafficBounded, Lossless
  <2>3. ~TooLarge(pdu)
    BY <2>2, <1>1, ControllerTypes DEF TooLarge, Pdu
  <2>4. phyOut' = [phyOut EXCEPT ![c] = Append(phyOut[c], FrameFor(c, pdu, ticks))]
    BY <2>1, <2>3 DEF HandleLlcMsg
  <2>5. FrameFor(c, pdu, ticks) \in Frame
    BY <1>0, <1>1, FrameForType DEF NetTypeOK
  <2>6. ~d_replay_mode_active[c]
    BY <1>0 DEF LinkInv, ReplayersOnly, Lossless
  <2>7. FrameFor(c, pdu, ticks).data = pdu
    BY <2>6 DEF FrameFor
  <2> QED
    BY <2>4, <2>5, <2>7
<1> HIDE DEF pdu
<1>4. PICK f \in Frame : f.data = pdu /\ phyOut' = [phyOut EXCEPT ![c] = Append(phyOut[c], f)]
  BY <1>3
<1>5. ASSUME NEW k \in Senders, NEW n \in 1 .. llc'[k].total
      PROVE  \E p \in Carried(k, phyOut'[k], phyIn[Peer(k)], llcOut[Peer(k)]) : p.rank = n
  <2>1. CASE k # c
    <3>1. phyOut'[k] = phyOut[k] /\ llc'[k].total = llc[k].total
      BY <2>1, <1>1, <1>2, <1>4
    <3> QED
      BY <3>1 DEF LosslessInv, NoneLost
  <2>2. CASE k = c
    <3>1. phyOut'[k] = Append(phyOut[k], f)
      BY <2>2, <1>2, <1>4
    <3>2. Real(k, f)
      <4>1. llc[c].total + 1 # 0
        BY <1>2
      <4> QED
        BY <4>1, <2>2, <1>1, <1>4 DEF Real
    <3>3. PdusOf(k, phyOut'[k]) = PdusOf(k, phyOut[k]) \cup {pdu}
      BY <3>1, <3>2, <2>2, <1>2, <1>4, PdusOfAppend
    <3>4. CASE n = llc[c].total + 1
      BY <3>3, <3>4, <1>1 DEF Carried
    <3>5. CASE n \in 1 .. llc[k].total
      BY <3>3, <3>5 DEF LosslessInv, NoneLost, Carried
    <3>6. n = llc[c].total + 1 \/ n \in 1 .. llc[k].total
      BY <2>2, <1>1, <1>2
    <3> QED
      BY <3>4, <3>5, <3>6
  <2> QED
    BY <2>1, <2>2
<1>6. NoneLost'
  BY <1>1, <1>5 DEF NoneLost
<1>7. RanksArePlaces'
  BY <1>1 DEF LosslessInv, RanksArePlaces
<1> QED
  BY <1>6, <1>7

LEMMA LosslessTransmit ==
    ASSUME LosslessInv, NEW c \in Controllers, Transmit(c)
    PROVE  NoneLost' /\ RanksArePlaces'
<1>0. LinkInv
  BY DEF LosslessInv, NetLossInv
<1>1. UNCHANGED <<llcOut, llc>>
  BY <1>0, TransmitEffect
<1>2. NoneLost'
  BY <1>0, <1>1, TransmitKeepsPdus DEF LosslessInv, NoneLost, Carried
<1>3. RanksArePlaces'
  BY <1>1 DEF LosslessInv, RanksArePlaces
<1> QED
  BY <1>2, <1>3

\* Without noise a controller takes every frame of its peer and no other.
LEMMA TakesFramesOfPeer ==
    ASSUME Lossless, LinkInv, NEW c \in Controllers, HandlePhy(c)
    PROVE  LET f == Head(phyIn[c])
           IN  \/ f.data.origin # Peer(c) /\ llcOut' = llcOut
               \/ /\ f.data.origin = Peer(c)
                  /\ \E m \in LlcMessage :
                       /\ m.data = f.data
                       /\ llcOut' = [llcOut EXCEPT ![c] = Append(llcOut[c], m)]
<1> DEFINE f == Head(phyIn[c])
           l == f.data.origin
<1>1. f \in Frame /\ FrameSound(f)
  BY HandlePhyEffect
<1>2. l \in Controllers /\ WellFormed(l, f)
  BY <1>1, LinkTypes DEF LinkInv, FrameSound, Sound
<1>3. PICK ticks \in Ticks : HandlePhyMsg(c, f, TRUE, ticks)
  BY DEF HandlePhy, Reception, Lossless
<1> HIDE DEF f
<1>4. CASE l # Peer(c)
  <2>1. ~Accepts(c, f, TRUE)
    BY <1>1, <1>2, <1>4, AcceptedIsFromPeer
  <2> QED
    BY <2>1, <1>3, <1>4 DEF HandlePhyMsg, macVars, outputs, f
<1>5. CASE l = Peer(c)
  <2>1. /\ f.header.src = DstId(c) /\ f.header.dst = SrcId(c) /\ f.header.src # SrcId(c)
    BY <1>2, <1>5, ControllerTypes DEF WellFormed, Peer, SrcId, DstId
  <2>2. Accepts(c, f, TRUE)
    BY <2>1 DEF Accepts, CheckPhyPacket
  <2>3. llcOut' = [llcOut EXCEPT ![c] = Append(llcOut[c], PduFrom(c, f, ticks))]
    BY <2>2, <1>3 DEF HandlePhyMsg
  <2>4. PduFrom(c, f, ticks) \in LlcMessage
    BY <1>1, PduFromType DEF LinkInv, NetTypeOK
  <2>5. PduFrom(c, f, ticks).data = f.data
    <3>1. f.data \in Pdu /\ f.header.payload_size = f.data.size
      BY <1>1, <1>2 DEF Frame, WellFormed
    <3> QED
      BY <3>1, CutWhole DEF PduFrom
  <2> QED
    BY <2>3, <2>4, <2>5, <1>5 DEF f
<1> QED
  BY <1>4, <1>5

\* The next PDU of the peer continues the ranks at LLCout.
LEMMA NextRank ==
    ASSUME Lossless, LosslessInv, NEW c \in Controllers, phyIn[c] # <<>>,
           Head(phyIn[c]).data.origin = Peer(c)
    PROVE  Head(phyIn[c]).data.rank = Len(llcOut[c]) + 1
<1> DEFINE f == Head(phyIn[c])
           l == Peer(c)
           r == f.data.rank
           n == Len(llcOut[c])
<1>0. LinkInv
  BY DEF LosslessInv, NetLossInv
<1>1. /\ phyIn[c] \in Seq(Frame) /\ llcOut[c] \in Seq(LlcMessage)
      /\ n \in Nat /\ DOMAIN llcOut[c] = 1 .. n
  BY <1>0, LinkTypes DEF LinkInv
<1>2. f \in Frame /\ f = phyIn[c][1] /\ 1 \in DOMAIN phyIn[c]
  BY <1>1, HeadTailFacts
<1>3. /\ l \in Controllers /\ r \in Nat /\ llc[l].total \in Nat
      /\ r # 0 /\ r <= llc[l].total /\ Real(l, f)
  <2>1. l \in Controllers /\ r \in Nat
    BY <1>0, <1>2, LinkTypes DEF LinkInv
  <2>2. FrameSound(f)
    BY <1>0, <1>2 DEF LinkInv, InAirSound
  <2> QED
    BY <2>1, <2>2, <1>0, LinkTypes DEF LinkInv, FrameSound, Sound, Numbered, Real, Lossless
<1>4. l \in Senders /\ Peer(l) = c
  BY <1>3, PeerOfPeer
<1>5. OrderAt(l, phyOut[l], phyIn[c], llcOut[c])
  BY <1>0, <1>3 DEF LinkInv, OrderKept
<1>6. /\ BelowAll(l, f, Tail(phyIn[c])) /\ BelowAll(l, f, phyOut[l])
      /\ AllBelow(l, llcOut[c], f)
  BY <1>1, <1>5, OrderTail, PrecedesTail DEF OrderAt
<1>7. PdusOf(l, phyIn[c]) = PdusOf(l, Tail(phyIn[c])) \cup {f.data}
  BY <1>1, <1>3, PdusOfTail
<1> HIDE DEF f, l, n
<1>8. n < r
  <2>1. CASE n = 0
    BY <2>1, <1>3
  <2>2. CASE n # 0
    <3>1. n \in DOMAIN llcOut[c]
      BY <2>2, <1>1
    <3>2. llcOut[c][n].data.rank = n /\ Real(l, llcOut[c][n])
      BY <3>1, <1>0, DeliveredFacts DEF LosslessInv, RanksArePlaces, Lossless, l
    <3> QED
      BY <3>1, <3>2, <1>3, <1>6 DEF AllBelow
  <2> QED
    BY <2>1, <2>2
<1>9. ASSUME n + 1 < r PROVE FALSE
  <2>1. n + 1 \in 1 .. llc[l].total
    BY <1>1, <1>3, <1>9
  <2>2. PICK pdu \in Carried(l, phyOut[l], phyIn[c], llcOut[c]) : pdu.rank = n + 1
    BY <2>1, <1>4 DEF LosslessInv, NoneLost
  <2>3. pdu.rank < r /\ ~(r < pdu.rank) /\ pdu.rank # r
    BY <2>2, <1>1, <1>3, <1>9
  <2>4. CASE pdu \in PdusOf(l, phyOut[l])
    <3>1. PICK i \in DOMAIN phyOut[l] : Real(l, phyOut[l][i]) /\ pdu = phyOut[l][i].data
      BY <2>4, PdusOfMember
    <3> QED
      BY <3>1, <2>3, <1>3, <1>6 DEF BelowAll
  <2>5. CASE pdu \in PdusOf(l, phyIn[c])
    <3> DEFINE q == Tail(phyIn[c])
    <3>1. pdu \in PdusOf(l, q)
      BY <2>3, <2>5, <1>7
    <3>2. BelowAll(l, f, q)
      BY <1>6
    <3> HIDE DEF q
    <3>3. PICK i \in DOMAIN q : Real(l, q[i]) /\ pdu = q[i].data
      BY <3>1, PdusOfMember
    <3> QED
      BY <3>2, <3>3, <2>3, <1>3 DEF BelowAll
  <2>6. CASE pdu \in PdusOf(l, llcOut[c])
    <3>1. PICK i \in DOMAIN llcOut[c] : pdu = llcOut[c][i].data
      BY <2>6, PdusOfMember
    <3>2. pdu.rank = i /\ i \in 1 .. n
      BY <3>1, <1>1 DEF LosslessInv, RanksArePlaces
    <3> QED
      BY <3>2, <2>2, <1>1
  <2> QED
    BY <2>2, <2>4, <2>5, <2>6 DEF Carried
<1> QED
  BY <1>1, <1>3, <1>8, <1>9 DEF f, n

LEMMA LosslessHandlePhy ==
    ASSUME Lossless, LosslessInv, NEW c \in Controllers, HandlePhy(c)
    PROVE  NoneLost' /\ RanksArePlaces'
<1> DEFINE f == Head(phyIn[c])
           l == Peer(c)
<1>0. LinkInv /\ NetTypeOK
  BY DEF LosslessInv, NetLossInv, LinkInv
<1>1. /\ phyIn[c] # <<>> /\ f \in Frame
      /\ phyIn' = [phyIn EXCEPT ![c] = Tail(phyIn[c])]
      /\ UNCHANGED <<phyOut, llc>>
  BY <1>0, HandlePhyEffect
<1>2. /\ phyIn \in [Controllers -> Seq(Frame)] /\ llcOut \in [Controllers -> Seq(LlcMessage)]
      /\ phyIn[c] \in Seq(Frame) /\ llcOut[c] \in Seq(LlcMessage)
  BY <1>0 DEF NetTypeOK, MacTypeOK
<1>3. \/ f.data.origin # l /\ llcOut' = llcOut
      \/ /\ f.data.origin = l
         /\ \E m \in LlcMessage :
              m.data = f.data /\ llcOut' = [llcOut EXCEPT ![c] = Append(llcOut[c], m)]
  BY <1>0, TakesFramesOfPeer
<1>4. PdusOf(l, phyIn[c]) = PdusOf(l, Tail(phyIn[c])) \cup (IF Real(l, f) THEN {f.data} ELSE {})
  BY <1>1, <1>2, PdusOfTail
<1>5. f.data.origin = l => f.data.rank = Len(llcOut[c]) + 1
  BY <1>1, NextRank
<1> HIDE DEF f, l
<1>6. NoneLost'
  <2> SUFFICES ASSUME NEW k \in Senders
               PROVE  Carried(k, phyOut[k], phyIn'[Peer(k)], llcOut'[Peer(k)]) =
                         Carried(k, phyOut[k], phyIn[Peer(k)], llcOut[Peer(k)])
    BY <1>1 DEF LosslessInv, NoneLost
  <2>0. k \in Controllers /\ Peer(k) \in Controllers
    BY DEF Senders
  <2>1. CASE Peer(k) # c
    <3>1. phyIn'[Peer(k)] = phyIn[Peer(k)] /\ llcOut'[Peer(k)] = llcOut[Peer(k)]
      BY <2>0, <2>1, <1>1, <1>2, <1>3
    <3> QED
      BY <3>1
  <2>2. CASE Peer(k) = c
    <3>1. k = l /\ phyIn'[c] = Tail(phyIn[c])
      BY <2>2, <1>1, <1>2, PeerOfPeer DEF l
    <3>2. CASE f.data.origin # l /\ llcOut' = llcOut
      <4>1. ~Real(l, f)
        BY <3>2 DEF Real
      <4> QED
        BY <4>1, <3>1, <3>2, <2>2, <1>4 DEF Carried
    <3>3. ASSUME f.data.origin = l, NEW m \in LlcMessage, m.data = f.data,
                 llcOut' = [llcOut EXCEPT ![c] = Append(llcOut[c], m)]
          PROVE  Carried(k, phyOut[k], phyIn'[c], llcOut'[c]) =
                    Carried(k, phyOut[k], phyIn[c], llcOut[c])
      <4>1. llcOut'[c] = Append(llcOut[c], m)
        BY <3>3, <1>2
      <4>2. Real(l, m) <=> Real(l, f)
        BY <3>3 DEF Real
      <4>3. PdusOf(l, llcOut'[c]) =
               PdusOf(l, llcOut[c]) \cup (IF Real(l, f) THEN {f.data} ELSE {})
        <5>1. PdusOf(l, Append(llcOut[c], m)) =
                 PdusOf(l, llcOut[c]) \cup (IF Real(l, m) THEN {m.data} ELSE {})
          <6>1. llcOut[c] \in Seq(LlcMessage) /\ m \in LlcMessage
            BY <3>3, <1>2
          <6> QED
            BY <6>1, PdusOfAppend
        <5> QED
          BY <5>1, <4>1, <4>2, <3>3
      <4> QED
        BY <4>3, <3>1, <1>4 DEF Carried
    <3> QED
      BY <3>2, <3>3, <2>2, <1>3
  <2> QED
    BY <2>1, <2>2
<1>7. RanksArePlaces'
  <2>1. CASE llcOut' = llcOut
    BY <2>1 DEF LosslessInv, RanksArePlaces
  <2>2. ASSUME f.data.origin = l, NEW m \in LlcMessage, m.data = f.data,
               llcOut' = [llcOut EXCEPT ![c] = Append(llcOut[c], m)],
               NEW d \in Controllers, NEW i \in DOMAIN llcOut'[d]
        PROVE  llcOut'[d][i].data.rank = i
    <3>1. CASE d # c
      BY <3>1, <2>2, <1>2 DEF LosslessInv, RanksArePlaces
    <3>2. CASE d = c
      <4> DEFINE n == Len(llcOut[c])
      <4>1. llcOut'[d] = Append(llcOut[c], m)
        BY <3>2, <2>2, <1>2
      <4>2. /\ llcOut'[d][n + 1] = m /\ DOMAIN llcOut'[d] = 1 .. n + 1
            /\ DOMAIN llcOut[c] = 1 .. n /\ n \in Nat
            /\ \A j \in 1 .. n : llcOut'[d][j] = llcOut[c][j]
        BY <4>1, <1>2, AppendFacts
      <4>3. m.data.rank = n + 1
        BY <2>2, <1>5
      <4> HIDE DEF n
      <4>4. CASE i = n + 1
        BY <4>2, <4>3, <4>4
      <4>5. CASE i \in 1 .. n
        BY <4>2, <4>5 DEF LosslessInv, RanksArePlaces
      <4> QED
        BY <4>2, <4>4, <4>5
    <3> QED
      BY <3>1, <3>2
  <2> QED
    BY <2>1, <2>2, <1>3 DEF RanksArePlaces
<1> QED
  BY <1>6, <1>7

LEMMA LosslessNext ==
    ASSUME ProperConfiguration, Lossless, LosslessInv, [NetNext]_netVars
    PROVE  LosslessInv'
<1>0. NetLossInv' /\ TrafficBounded'
  BY NetLossNext, TrafficNext DEF LosslessInv
<1>1. ASSUME UNCHANGED <<llc, phyOut, phyIn, llcOut>> PROVE LosslessInv'
  BY <1>0, <1>1, LosslessUnchanged DEF LosslessInv
<1>2. ASSUME NEW c \in Controllers, UdpServer(c) PROVE LosslessInv'
  BY <1>1, <1>2 DEF UdpServer, macVars, status, outputs
<1>3. ASSUME NEW s \in Stations, NEW activate \in BOOLEAN, CallActivateReplayMode(s, activate)
      PROVE  LosslessInv'
  BY <1>1, <1>3 DEF CallActivateReplayMode, macVars, status, outputs, queues
<1>4. ASSUME NEW s \in Stations, VisitController(s) PROVE LosslessInv'
  BY <1>1, <1>4 DEF VisitController, ActivateReplayMode, status, outputs, queues
<1>5. CASE UNCHANGED netVars
  BY <1>1, <1>5 DEF netVars, macVars, status, outputs, queues
<1> QED
  BY <1>0, <1>2, <1>3, <1>4, <1>5, LosslessHandleLlc, LosslessTransmit, LosslessHandlePhy
     DEF NetNext, LosslessInv

LEMMA LosslessInit == NetInit => LosslessInv
<1> SUFFICES ASSUME NetInit PROVE LosslessInv
  OBVIOUS
<1>1. \A c \in Controllers : /\ llcIn[c] = <<>> /\ llcOut[c] = <<>>
                            /\ offered[c] = 0 /\ llc[c].total = 0
  BY DEF NetInit, MacInit
<1>2. NoneLost
  BY <1>1 DEF NoneLost, Senders
<1>3. RanksArePlaces
  BY <1>1 DEF RanksArePlaces
<1>4. TrafficBounded
  BY <1>1, ControllerAssumption DEF TrafficBounded
<1> QED
  BY <1>2, <1>3, <1>4, NetLossInit DEF LosslessInv

LEMMA FirstEpoch ==
    ASSUME NEW rank \in 1 .. FrameCounterMax
    PROVE  Epoch(rank) = 0
<1> DEFINE m == FrameCounterMax
           e == Epoch(rank)
           turns == m * e
<1>1. m \in Nat \ {0}
  BY WidthTypes
<1>2. /\ e \in Int /\ (rank - 1) % m \in 0 .. m - 1
      /\ rank - 1 = turns + ((rank - 1) % m)
  BY <1>1, RankSplit
<1> HIDE DEF e, m
<1>3. turns \in Int
  BY <1>1, <1>2
<1>4. e >= 1 => turns >= m
  BY <1>1, <1>2
<1>5. e <= -1 => turns <= -m
  BY <1>1, <1>2
<1> HIDE DEF turns
<1>6. rank \in 1 .. m
  BY DEF m
<1>7. turns < m /\ turns > -m
  BY <1>1, <1>2, <1>3, <1>6
<1>8. e = 0
  BY <1>1, <1>2, <1>3, <1>4, <1>5, <1>7
<1> QED
  BY <1>8 DEF e

\* Within one round of the sequence numbers a link without loss reports no loss, as the
\* test of the controllers (qa_mac_controller.py, test_003) expects, however the
\* handlers of all stations interleave.
THEOREM LosslessAlwaysReportsZero ==
    ASSUME ProperConfiguration, Lossless
    PROVE  NetSpec => []LosslessLinkReportsZero
<1>1. NetInit => LosslessInv
  BY LosslessInit
<1>2. LosslessInv /\ [NetNext]_netVars => LosslessInv'
  BY LosslessNext
<1>3. LosslessInv => LosslessLinkReportsZero
  <2> SUFFICES ASSUME LosslessInv, NEW c \in Controllers, NEW i \in DOMAIN llcOut[c]
               PROVE  llcOut[c][i].lost_packets = 0
    BY DEF LosslessLinkReportsZero
  <2>0. LinkInv /\ LossReportExact
    BY LossIsExact DEF LosslessInv, NetLossInv, Lossless
  <2>1. /\ llcOut[c] \in Seq(LlcMessage) /\ i \in Nat \ {0} /\ Peer(c) \in Controllers
        /\ Real(Peer(c), llcOut[c][i])
    BY <2>0, DeliveredFacts DEF Lossless
  <2>2. llcOut[c][i].data.rank = i /\ (i # 1 => llcOut[c][i - 1].data.rank = i - 1)
    BY <2>1 DEF LosslessInv, RanksArePlaces
  <2>3. i <= FrameCounterMax
    <3>1. i <= llc[Peer(c)].total
      BY <2>0, <2>1, <2>2, RanksHandled
    <3>2. /\ offered[Peer(c)] = llc[Peer(c)].total + Len(llcIn[Peer(c)])
          /\ Len(llcIn[Peer(c)]) \in Nat /\ llc[Peer(c)].total \in Nat
      BY <2>0, <2>1, LinkTypes DEF LinkInv, WaitingKnown
    <3>3. /\ offered[Peer(c)] <= MaxPdus[Peer(c)] /\ MaxPdus[Peer(c)] <= FrameCounterMax
          /\ MaxPdus[Peer(c)] \in Nat /\ FrameCounterMax \in Nat
      BY <2>1, ControllerAssumption, WidthTypes DEF LosslessInv, TrafficBounded, Lossless
    <3> QED
      BY <3>1, <3>2, <3>3, <2>1
  <2>4. Epoch(i) = 0 /\ (i # 1 => Epoch(i - 1) = 0)
    <3>1. i \in 1 .. FrameCounterMax /\ (i # 1 => i - 1 \in 1 .. FrameCounterMax)
      BY <2>1, <2>3, WidthTypes
    <3> QED
      BY <3>1, FirstEpoch
  <2>5. CASE i = 1
    <3>1. (1 - 0) - 1 = 0
      OBVIOUS
    <3> QED
      BY <3>1, <2>0, <2>2, <2>4, <2>5 DEF LossReportExact
  <2>6. CASE i # 1
    <3>1. (i - (i - 1)) - 1 = 0 /\ i - 1 # 0
      BY <2>1, <2>6
    <3> QED
      BY <3>1, <2>0, <2>2, <2>4, <2>6 DEF LossReportExact
  <2> QED
    BY <2>5, <2>6
<1> QED
  BY <1>1, <1>2, <1>3, PTL DEF NetSpec
=============================================================================
