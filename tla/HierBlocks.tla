------------------------------ MODULE HierBlocks ------------------------------
(***************************************************************************)
(* The streams inside the hierarchical blocks of the PHY: the calls of     *)
(* connect of each constructor, in their order, and what GNU Radio         *)
(* (external) makes of them.  A port is <<block, antenna, number>>, with   *)
(* antenna 0 for a block that comes only once.                             *)
(***************************************************************************)
EXTENDS Integers, Sequences

CONSTANT MaxChannels   \* bound: channels of a USRP

ASSUME ChannelsAssumption == MaxChannels \in Nat \ {0}

VARIABLE built         \* the blocks that were constructed, with their numbers of channels

Self == "self"

Of(name, port) == <<name, 0, port>>
Nth(name, antenna, port) == <<name, antenna, port>>

Connection(from, to) == [from |-> from, to |-> to]

\* connect(a, b, c, ...)
Chain(ports) == [i \in 1 .. Len(ports) - 1 |-> Connection(ports[i], ports[i + 1])]

\* for port in range(n), with the calls of each turn
PerPort(n, calls) ==
    LET upTo[k \in 0 .. n] == IF k = 0 THEN <<>> ELSE upTo[k - 1] \o calls[k - 1]
    IN  upTo[n]

\* connect raises if a port of the block itself does not exist or the destination is
\* already in use; the constructor then ends.
Connect(block, call) ==
    IF \/ block.raised
       \/ call.to[1] = Self /\ call.to[3] \notin 0 .. block.outputs - 1
       \/ call.from[1] = Self /\ call.from[3] \notin 0 .. block.inputs - 1
       \/ \E made \in block.made : made.to = call.to
    THEN [block EXCEPT !.raised = TRUE]
    ELSE [block EXCEPT !.made = @ \cup {call}]

\* A block with that many inputs and outputs after the calls of its constructor.
Constructed(inputs, outputs, calls) ==
    LET after[i \in 0 .. Len(calls)] ==
          IF i = 0 THEN [inputs |-> inputs, outputs |-> outputs, made |-> {}, raised |-> FALSE]
          ELSE Connect(after[i - 1], calls[i])
    IN  after[Len(calls)]

\* The port behind an output of a block.
Behind(block, output) == (CHOOSE made \in block.made : made.to = Of(Self, output)).from

IsFed(block, output) == \E made \in block.made : made.to = Of(Self, output)
-----------------------------------------------------------------------------
\* phy_transmitter with n antennas.
TransmitterCalls(n) ==
    Chain(<< Of("blocks_pdu_to_tagged_stream", 0), Of("fec_generic_encoder", 0),
             Of("symbolmapping_interleaver", 0), Of("symbolmapping_symbol_mapper_bc", 0),
             Of("gfdm_transmitter_cc", 0) >>)
    \o PerPort(n, [port \in 0 .. n - 1 |->
         << Connection(Of("gfdm_transmitter_cc", port), Of("gfdm_short_burst_shaper", port)),
            Connection(Of("gfdm_short_burst_shaper", port), Of(Self, port)) >>])

PhyTransmitter(n) == Constructed(0, n, TransmitterCalls(n))

\* phy_receiver with n antennas.
ReceiverCalls(n) ==
    PerPort(n, [port \in 0 .. n - 1 |->
      << Connection(Of(Self, port), Of("synchronizer", port)),
         Connection(Of("synchronizer", port), Of(Self, port)),
         Connection(Of("synchronizer", n + port), Of(Self, n + port)) >>])
    \o PerPort(n, [port \in 0 .. n - 1 |->
      << Connection(Of("synchronizer", port), Of("demodulator", port)),
         Connection(Of("demodulator", 2 * n + port), Of(Self, 2 * n + port)),
         Connection(Of("demodulator", n + port), Of(Self, 3 * n + port)),
         Connection(Of("demodulator", port), Of(Self, 4 * n + port)) >>])
    \o PerPort(n, [port \in 0 .. n - 1 |-> << Connection(Of("demodulator", port), Of("upper_phy", port)) >>])

PhyReceiver(n) == Constructed(n, 5 * n, ReceiverCalls(n))

\* Mutant: the demappers are counted from output 0, which is the decoder's.
UpperReceiverCallsFrom0(n) ==
    PerPort(n, [port \in 0 .. n - 1 |-> << Connection(Nth("symbol_demapper", port, 0), Of(Self, port)) >>])
    \o << Connection(Of("fec_generic_decoder", 0), Of(Self, 0)) >>

\* upper_phy_receiver with n streams.
UpperReceiverCalls(n) ==
    PerPort(n, [port \in 0 .. n - 1 |->
      << Connection(Of(Self, port), Nth("symbol_demapper", port, 0)),
         Connection(Nth("symbol_demapper", port, 0), Of(Self, 1 + port)) >>])
    \o (IF n < 2
        THEN << Connection(Nth("symbol_demapper", 0, 0), Of("symbolmapping_interleaver", 0)) >>
        ELSE PerPort(n, [port \in 0 .. n - 1 |->
               << Connection(Nth("symbol_demapper", port, 0), Of("blocks_add_xx", port)) >>])
             \o << Connection(Of("blocks_add_xx", 0), Of("symbolmapping_interleaver", 0)) >>)
    \o Chain(<< Of("symbolmapping_interleaver", 0), Of("fec_generic_decoder", 0),
                Of("blocks_stream_to_tagged_stream", 0), Of("blocks_tagged_stream_to_pdu", 0) >>)
    \o << Connection(Of("fec_generic_decoder", 0), Of(Self, 0)) >>

UpperPhyReceiver(n) == Constructed(n, 1 + n, UpperReceiverCalls(n))

\* lower_phy_receiver with n ports; with one port there is nothing to align or to add.
LowerReceiverCalls(n) ==
    LET Sync(antenna, port)  == Nth("xfdm_sync_synchronizer", antenna, port)
        Gfdm(antenna, port)  == Nth("gfdm_receiver", antenna, port)
        Demap(antenna, port) == Nth("symbol_demapper", antenna, port)
        Align(port)          == Of("xfdm_sync_sync_tag_align_cc", port)
    IN  PerPort(n, [port \in 0 .. n - 1 |->
          << Connection(Of(Self, port), Sync(port, 0)),
             Connection(Sync(port, 1), Of(Self, 1 + n + port)) >>])
        \o PerPort(n, [port \in 0 .. n - 1 |->
          << Connection(Gfdm(port, 0), Of(Self, 1 + 4 * n + port)),
             Connection(Gfdm(port, 1), Of(Self, 1 + 3 * n + port)) >>])
        \o PerPort(n, [port \in 0 .. n - 1 |->
             IF n < 2
             THEN << Connection(Sync(port, 0), Of(Self, 1 + 2 * n + port)),
                     Connection(Sync(port, 0), Gfdm(port, 0)) >>
             ELSE Chain(<< Sync(port, 0), Align(port), Of(Self, 1 + 2 * n + port) >>)
                  \o << Connection(Align(port), Gfdm(port, 0)) >>])
        \o PerPort(n, [port \in 0 .. n - 1 |->
          << Connection(Gfdm(port, 0), Demap(port, 0)),
             Connection(Demap(port, 0), Of(Self, 1 + port)) >>])
        \o (IF n < 2 THEN << Connection(Demap(0, 0), Of(Self, 0)) >>
            ELSE PerPort(n, [port \in 0 .. n - 1 |-> << Connection(Demap(port, 0), Of("blocks_add_xx", port)) >>])
                 \o << Connection(Of("blocks_add_xx", 0), Of(Self, 0)) >>)

LowerPhyReceiver(n) == Constructed(n, 1 + 5 * n, LowerReceiverCalls(n))

\* Mutant: the receiver's first stream is taken for the correlation values.
LayerCallsSwapped(tx, rx) ==
    PerPort(tx, [i \in 0 .. tx - 1 |-> << Connection(Of("tacmac_phy_transmitter", i), Of(Self, i)) >>])
    \o PerPort(rx, [i \in 0 .. rx - 1 |->
      << Connection(Of("tacmac_phy_receiver", i), Of(Self, rx + i)),
         Connection(Of("tacmac_phy_receiver", rx + i), Of(Self, 2 * rx + i)),
         Connection(Of("tacmac_phy_receiver", 3 * rx + i), Of(Self, 3 * rx + i)),
         Connection(Of("tacmac_phy_receiver", 4 * rx + i), Of(Self, 4 * rx + i)) >>])

\* phy_layer with these numbers of channels.
LayerCalls(tx, rx) ==
    PerPort(tx, [i \in 0 .. tx - 1 |->
      << Connection(Of("tacmac_phy_transmitter", i), Of("uhd_usrp_sink", i)),
         Connection(Of("tacmac_phy_transmitter", i), Of(Self, i)) >>])
    \o << Connection(Of("tacmac_phy_transmitter", 0), Of("tacmac_tags_to_msg_dict", 0)),
          Connection(Of("uhd_usrp_source", 0), Of("tacmac_periodic_time_tag_cc", 0)) >>
    \o PerPort(rx, [i \in 0 .. rx - 1 |-> << Connection(Of("uhd_usrp_source", i), Of("tacmac_phy_receiver", i)) >>])
    \o PerPort(rx, [i \in 0 .. rx - 1 |->
      << Connection(Of("tacmac_phy_receiver", rx + i), Of(Self, rx + i)),
         Connection(Of("tacmac_phy_receiver", i), Of(Self, 2 * rx + i)),
         Connection(Of("tacmac_phy_receiver", 3 * rx + i), Of(Self, 3 * rx + i)),
         Connection(Of("tacmac_phy_receiver", 4 * rx + i), Of(Self, 4 * rx + i)) >>])

PhyLayerBlock(tx, rx) == Constructed(0, tx + 4 * rx, LayerCalls(tx, rx))

\* upper_phy_transmitter
UpperPhyTransmitter ==
    Constructed(0, 1, Chain(<< Of("pdu_to_tagged_stream", 0), Of("fec_generic_encoder", 0),
                               Of("interleaver", 0), Of("symbol_mapper", 0), Of(Self, 0) >>))
-----------------------------------------------------------------------------
BlocksInit == built = <<>>

\* A PHY layer for these channels, and the blocks that are used without it.
Construct ==
    /\ built = <<>>
    /\ \E tx, rx \in 1 .. MaxChannels :
         built' = [tx |-> tx, rx |-> rx, layer |-> PhyLayerBlock(tx, rx),
                   transmitter |-> PhyTransmitter(tx), receiver |-> PhyReceiver(rx),
                   upper_receiver |-> UpperPhyReceiver(rx), lower_receiver |-> LowerPhyReceiver(rx),
                   upper_transmitter |-> UpperPhyTransmitter]

BlocksSpec == BlocksInit /\ [][Construct]_built
-----------------------------------------------------------------------------
\* What the blocks inside put out at a port, when there are n antennas: name and antenna.
StreamAt(port, n) ==
    LET name == port[1] IN
    CASE name = "gfdm_short_burst_shaper" -> <<"tx", port[3]>>
      [] name = "synchronizer" -> <<IF port[3] < n THEN "synced" ELSE "corr", port[3] % n>>
      [] name = "demodulator" -> << <<"symbol", "estimate", "burst">>[port[3] \div n + 1], port[3] % n>>
      [] name = "xfdm_sync_synchronizer" -> <<IF port[3] = 0 THEN "synced" ELSE "corr", port[2]>>
      [] name = "xfdm_sync_sync_tag_align_cc" -> <<"synced", port[3]>>
      [] name = "gfdm_receiver" -> <<IF port[3] = 0 THEN "symbol" ELSE "estimate", port[2]>>
      [] name = "symbol_demapper" -> <<"LLR", port[2]>>
      [] name = "blocks_add_xx" -> <<"sum", 0>>
      [] name = "fec_generic_decoder" -> <<"data", 0>>
      [] name = "symbol_mapper" -> <<"symbol", 0>>

\* The stream at an output of the PHY layer, followed into the block it comes from.
LayerStreamAt(output) ==
    LET port == Behind(built.layer, output) IN
    IF port[1] = "tacmac_phy_transmitter"
    THEN StreamAt(Behind(built.transmitter, port[3]), built.tx)
    ELSE StreamAt(Behind(built.receiver, port[3]), built.rx)

\* Outputs in the order of the descriptions of the blocks: n of each name.
Labels(names, n) ==
    [i \in 1 .. Len(names) * n |-> <<names[(i - 1) \div n + 1], (i - 1) % n>>]

Labelled(block, n, labels) ==
    /\ ~block.raised /\ block.outputs = Len(labels)
    /\ \A output \in 0 .. block.outputs - 1 :
         IsFed(block, output) /\ StreamAt(Behind(block, output), n) = labels[output + 1]

\* A connection inside a block leads from an antenna to the same antenna.
PerAntenna == {"gfdm_receiver", "symbol_demapper", "xfdm_sync_synchronizer"}
AntennaOf(port, n) == IF port[1] \in PerAntenna THEN port[2] ELSE port[3] % n
AntennasApart(block, n) ==
    \A made \in block.made :
        made.to[1] \in PerAntenna \cup {"synchronizer", "demodulator", "upper_phy",
                                     "xfdm_sync_sync_tag_align_cc", "tacmac_phy_receiver"}
            => AntennaOf(made.from, n) = AntennaOf(made.to, n)

\* Every output of the receivers carries the stream and the antenna that the label in its
\* description says (outputs of grc/tacmac_phy_receiver, tacmac_upper_phy_receiver and
\* tacmac_lower_phy_receiver.block.yml against the calls of connect), and no antenna's stream
\* is led into another's chain.  Three outputs have no label that could be compared, so it is
\* said what they carry: the transmitter's the bursts (PHY layer: tx), the lower receiver's
\* first the combined LLRs (lower_phy_receiver.py:194), both without a label, and the upper
\* transmitter's the mapped symbols, which tacmac_upper_phy_transmitter.block.yml:47 calls rx.
StreamsAsLabelled ==
    built # <<>> =>
        LET tx == built.tx
            rx == built.rx
        IN  /\ Labelled(built.transmitter, tx, Labels(<<"tx">>, tx))  \* it has no label
            /\ Labelled(built.receiver, rx,
                        Labels(<<"synced", "corr", "burst", "estimate", "symbol">>, rx))
            /\ Labelled(built.upper_receiver, rx, << <<"data", 0>> >> \o Labels(<<"LLR">>, rx))
            /\ Labelled(built.lower_receiver, rx,
                        << IF rx < 2 THEN <<"LLR", 0>> ELSE <<"sum", 0>> >>
                        \o Labels(<<"LLR", "corr", "synced", "estimate", "symbol">>, rx))
            /\ Labelled(built.upper_transmitter, 1, << <<"symbol", 0>> >>)  \* its label: rx
            /\ AntennasApart(built.receiver, rx) /\ AntennasApart(built.lower_receiver, rx)
            /\ AntennasApart(built.upper_receiver, rx) /\ AntennasApart(built.layer, rx)

\* A PHY layer is never wired wrongly without a word: it is built as labelled, which works
\* for as many transmit as receive channels, or its constructor raises, which it does for
\* any other numbers although the description allows them (phy_layer.py:76, 267-298).
LayerBuiltOrRaised ==
    built # <<>> =>
        /\ built.layer.raised = (built.tx # built.rx)
        /\ ~built.layer.raised =>
             LET labels == Labels(<<"tx">>, built.tx)
                           \o Labels(<<"corr", "synced", "estimate", "symbol">>, built.rx)
             IN  /\ built.layer.outputs = Len(labels)
                 /\ \A output \in 0 .. built.layer.outputs - 1 :
                      IsFed(built.layer, output) /\ LayerStreamAt(output) = labels[output + 1]
=============================================================================
