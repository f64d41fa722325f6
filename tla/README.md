# gr-tacmac: TLA+ models and proofs

This directory models gr-tacmac: the message layer, which moves UDP datagrams
between a base station and its devices over a radio link; the path on which status
reaches a database; how a station is configured, wired, clocked and controlled; the
block that tells slots their time; and the application mockup that exercises the
whole. The signal processing is done by external GNU Radio modules and is
represented by what it does to frames.

Paths below are relative to the repository (`src/`). `cc` is
`lib/mac_controller_impl.cc`.

## 1. Inventory

| Component | State | Operations | Interacts with |
|---|---|---|---|
| MAC controller (`lib/mac_controller_impl.*`) | tx and rx frame counter, replay flag, LLC and PHY counters with their print timestamps and last ticks | `handle_llc_msg`, `handle_phy_msg`, `activate_replay_mode`, the constructor's checks | messages at LLCin, LLCout, PHYin, PHYout, timing; `activate_replay_mode` is called from another thread |
| UDP interface (`python/udp_interface.py`) | list of controllers, UDP ports | constructor, `activate_replay_mode`, `replay_mode` | creates the controllers; connects each to a UDP server and client and all of them to one `rx` and one `tx` port |
| PHY layer and PHY blocks (`python/phy_*.py`, `upper_*`, `lower_*`) | parameters of the blocks inside, clocks of the boards | wiring, set-up of the USRPs, setters and getters | carries frames from `tx` of one station to `rx` of all; setters are called by the user interface's thread |
| Periodic time tag (`lib/periodic_time_tag_cc_impl.*`) | current time, last and next tag offset, slot counter | `work` | `rx_time` and `rx_rate` tags in, slot information to the transmitter |
| Tag to stream value (`lib/tag_to_stream_value_impl.*`) | none between calls | `general_work` | tags in, samples out |
| Tags to message dictionary (`lib/tags_to_msg_dict_impl.*`) | none between calls | `work` | tags of the transmit stream in, dictionaries to the status collector |
| Status collector (`lib/status_collector_impl.*`) | last times | `handle_msg` | UDP interface `status` and tag dictionaries in, `(key . dict)` to the connector |
| Elasticsearch connector (`python/elasticsearch_connector.py`) | availability, buffer, additional data | `handle_msg`, `send_to_buffer`, `update_additional_data` | status collector in, database out |
| Configuration (`python/configurator*.py`, `python/uhd_configuration.py`) | none | padding lengths; merging of configuration files; choice of a device | four files, the devices that are found; parameters of the PHY layer |
| Formatter (`python/formatter/utils.py`) | none | pack and parse a header of 5-bit fields | tests |
| Application mockup (`python/udp_connector_mockup.py`) | round counter, one socket per client | send, wait with timeout, flush; echo | the UDP ports of the stations |
| CRC (`lib/CRC.h`, vendored), utilities, GRC files, bindings, examples, docs | | | |

How a datagram travels: UDP server of station A → LLCin of its controller
(header, sequence number, padding, CRC) → PHYout → transmitter → radio, heard by
every station including A → PHYin of *every* controller there → address and CRC
check → LLCout of the one controller whose peer sent it → UDP client.

What is hard here:

* one block runs its handlers one after the other, but the blocks of all stations
  run concurrently, and `activate_replay_mode` is called by a control thread in
  between;
* the medium broadcasts, loses and damages frames; no handler retries anything;
* sequence numbers wrap, at different numbers on the two sides;
* counters are reported and reset at times given by a clock that may jump;
* early returns leave some counters advanced and others not;
* the scheduler decides how a sample stream is cut into calls of `work`, and how much
  room a call has for its output;
* the database may go away at any time, and the buffer in front of it is looked at
  only when something is added;
* clocks are set for "the next edge" of a signal the host only polls;
* configuration values are overwritten in an order that is nowhere written down;
* the mockup's timeouts race with late replies.

What makes each modelled component correct:

* MAC controller: only the peer's PDUs are delivered, whole; sequence numbers and
  loss reports mean what they say; status lines account for every message once.
* Network: each pair of controllers is an ordered link without duplicates that may
  lose PDUs; nothing stays in it; controllers of a station agree on replay mode.
* UDP interface: ports of peers meet, stations do not feed themselves, built
  controllers are in range.
* Periodic time tag: no slot is missing but those that the code leaves out on purpose at a
  time tag; slots are evenly spaced and carry the right time.
* Mockup: a reply belongs to the request before it; the rounds go on.
* Status path: what is reported is stored, in order, once, told from where it came.
* Tag to stream value: the room is respected and values are complete and in order.
* Configuration: it is known who decides a value; devices that differ are not merged;
  a padding is exact.
* PHY layer: every output carries what its label says, or nothing is built; boards of a
  station agree on time; no setter misses a block, antenna or channel of its parameter, and
  getters speak for all of them.
* Formatter: what is packed or scrambled comes back.

The full list of what is hard to test, each at its line, is under `hazards` in
`PROJECT.json`; the properties are aimed at it.

## 2. Modules

```
module                                        proofs                   run with
MacFrame                                      MacFrameProofs
   │                                               │
MacController                                 MacControllerProofs      MCMacController
   │                                               │
UdpNetwork ─── INSTANCE LossyLink             UdpNetworkProofs         MCUdpNetwork
UdpInterface                                  UdpInterfaceProofs       MCUdpInterface
AppMockup                                     AppMockupProofs          (run directly)

TagsToMsgDict ─┐
StatusCollector ├─ StatusPipeline ─┐
ElasticsearchConnector ┘           ├                                   MCStatus
TagToStreamValue ──────────────────┘          StatusProofs

UhdConfiguration, UsrpClock ──────────────┐   UsrpProofs
HierBlocks                                ├                            MCStation
PhyControl, PaddingConfiguration,         │   PhyProofs
TacmacHeader ─────────────────────────────┘       │
PeriodicTimeTag                               (there, too)             MCPeriodicTimeTag
```

**MacFrame** holds the pure parts of the controller: `CreateHeader`
(`create_header`), `CheckPhyPacket` (`check_phy_packet`: later tests overwrite the
verdict of earlier ones), `NextFrameCounter` (cc:192-194), `LostPackets`
(cc:359-360, a `size_t` subtraction and a remainder) and the reference
`SkippedNumbers`. Widths are constants: `Byte` 2^8, `Word` 2^16, `Size` 2^64 in the
code. `WidthAssumption` says what of them matters: `Size` is 1 modulo `Word - 1`,
as 2^64 is modulo 2^16 - 1.

**MacController** is a set of controllers, each named by `<<d_src_id, d_dst_id>>`.
Variables are the members of the class; `llc` and `phy` gather the counters of the
two sides as records. `HandleLlcMsg` and `HandlePhyMsg` are the two handlers,
including the status line at their end, which is a record appended to `llcLines`
or `phyLines`. `llcOut`, `phyOut` and `timing` are the published messages. A PDU is
`[origin, rank, size]`: who was given it, as which one, and how long; this is all
the properties tell apart. A payload cut to another size is another PDU. `MacSpec`
drives the handlers from an environment without manners: any published frame may
reach any controller, any number of times, in any order, damaged or not.

**UdpNetwork** composes the same handlers with the queues of GNU Radio's message
ports (`llcIn`, `phyIn`), the UDP servers, the broadcast medium (`Transmit`) and
`activate_replay_mode` of the UDP interface, which is a loop over the controllers
and therefore a sequence of steps (`CallActivateReplayMode`, `VisitController`).
A frame is lost by being received damaged and rejected; a receiver that never
detects it is left in the same state.

**LossyLink** is the abstract specification: per direction how many PDUs were offered,
the set of those in transit, and what was delivered. `Offer` puts the next PDU in
transit, `Lose` takes any one out, `Deliver` takes the oldest, and `Replay` delivers a
test pattern, where a link has one. The refinement mapping is at the end of
UdpNetwork: in transit are the PDUs in frames waiting at the peer, in those not yet
transmitted and those not yet handled; replay patterns and other controllers' frames
are nobody's PDUs.

**UdpInterface** is the construction of stations: `RaiseInvalidConfig`, `AddPort`
(one turn of the loop, with the constructor of the controller and its exceptions)
and `Run`. **AppMockup** is `udp_connector_mockup.py`: the server's thread as a
program counter, clients as `Echo`, the network in between as queues that lose and
delay but do not reorder. **PeriodicTimeTag** is `work`, called with any number of samples and tags: `pc` runs
through the call, one tag a step (`SeeTimeTag`), one slot a step (`EmitSlot`); `slots`
are the members of the class, time is counted in samples. History variable `reference` is
the last rx_time tag with the call of `work` that saw it.

**StatusPipeline** composes three blocks as `phy_layer.py:272-334` and a flowgraph do.
`ReadTags` is `tags_to_msg_dict::work` (**TagsToMsgDict**: `Sorted` is everything an
unstable sort may return, `Turn` one turn of the loop) on as many samples as the
scheduler likes; `Collect` is `status_collector::handle_msg` (**StatusCollector**, a
function, since the block's members are never read); `Connect` is `handle_msg` of the
connector (**ElasticsearchConnector**). ElasticBuffer is external: a full buffer is
flushed by `add`, and a flush without a database raises, which ends the thread. The
stream never ends; all bodies look alike except two that are marked and followed.
History variable `given` holds the marks in the order in which they were reported.

**TagToStreamValue** is `general_work`; the block keeps nothing between calls, so a
behaviour is any sequence of calls. The output buffer is a sequence that grows if
something is written behind it. `Tags` is what `get_tag_value` may find, which
`StreamValueAssumption` asks of the samples.

**UhdConfiguration** is the merging of files and devices: a configuration maps paths
`<<section, name, key>>` to values. `Update` replaces sections (`dict.update`),
`UpdateNested` single values. `StartStation` is the choice of a device without an
address (`get_device`); a device that is found and does not fit the inventory
(`add_config_info`) keeps the station from starting. **UsrpClock** is `initialize_usrps` from the sensor gps_locked
on: two queries of the last edge, the polling loop, the sleep, `set_time_next_pps`
board by board, or the two ways to use the host's time. Any step may take up to
`MaxDelay` ticks. **PaddingConfiguration** is the loop of `get_padding_configuration`,
one turn a step. (`phy_layer.py` takes its configuration from an external copy of that
function, `gfdm.pygfdm`; this repository's two copies are equal.) **HierBlocks** holds
the calls of `connect` of six constructors in order; `Connect` is what GNU Radio does
with them: it raises if a port does not exist or is taken. `StreamAt` says what comes
out of a block inside; the labels are those of `grc/*.block.yml`, as far as there are
any (section 4). **PhyControl** is the setters and getters: `Places` are the blocks, antennas
and channels that the constructors create; a setter visits its list of places (`PlacesOf`) one
by one; a getter asks one (`AskedPlace`). Which parameter a place stands for is read off the
place itself (`ParameterOf`), not off the setters. **TacmacHeader** is
the formatter's header and scrambling.

`MCStatus` and `MCStation` run several modules that share no state. A variable that
never changes chooses one of them for a behaviour; this only puts several checks into
one run and hides no interleaving, as nothing of one is read by another.

Definitions named in a comment `Mutant:` are deliberately wrong variants of the
operator that follows them; the runs' properties are tested against them.

## 3. Runs

| Run | Instance | What it shows |
|---|---|---|
| `mac_downlink` | a base station with controllers for two devices, one device listening; `Word` 3, three PDUs for it and one for the other device, below and above the MTU; three receptions in any order, damage, replay; clock readings 100 and 120 with print interval 10, also backwards | `MacTypeOK`; `LossReportIsSkipped` and `SequenceCountsPdus` past the wrap; `StatusLinesAccount`: lines and open intervals add up, across drops and a clock set back; `DeliveredWasSent` with frames for others and damaged ones |
| `net_link` | one noisy link with fair threads, five PDUs, past a reset of the counter | `NetTypeOK`; `LossReportExact`: exact within a round of the sender's counter, one too many across a reset; `ImplementsFairLink`: the link is ordered, without duplicates, and leaves nothing in transit |
| `net_stations` | base station and two devices, traffic both ways, replay mode at the base station | `ImplementsLossyLink` for four links on one medium, `ReplayModesAgree` |
| `net_lossless` | two devices, no noise | `LosslessLinkReportsZero` (within one round of the counter), `LosslessLinkDelivers` |
| `net_wrap` (violated) | one link, no noise, past the reset | the loss report is wrong after the reset |
| `interface` | all arguments around the limits of a byte | `PortsFollowIds`, `NoLocalLoop` |
| `interface_range` (violated) | identifiers at the limit | 256 is accepted |
| `app_prompt` | three clients, four rounds | `RepliesMatch`, `RoundsGoOn` when nothing outlives the sleep |
| `app_late` (violated) | two clients, late replies | the assertion of the mockup fails |
| `time_tag` | second of four samples, slots of three, chunks of one, two or five, up to eight samples | `SlotTimesFollowReference`, `SlotsComplete` |
| `status` | two followed bodies among any number of others; stream and collector's queue of two, connector's queue of one; buffer of two; one update of the additional data; a database that comes and goes. Tag values: six kinds of samples, up to three of them, room for one to four values | `NoStatusLost`, `StoredAsReported`, `StatusTypeOK`; `StoredIfMessagesContinue`; `WithinOutput`, `ValuesComplete` |
| `station` | one parameter that any section of any of four files may set, two devices found or not; two stations and three devices, some not fitting the inventory; three boards, a second of 20 ticks, begun at any tick; frames of 1 to 1300 samples; one to four channels each way; two calls of setters on two channels and three antennas; headers and bodies at the limits | `FirstSpeakerWins`, `DevicesAgree`, `DevicesNotShared`; `BoardsFollowGps`, `BoardsFollowHost`, `SetUpInTime`; `PaddingExact`, `PaddingEnough`; `StreamsAsLabelled`, `LayerBuiltOrRaised`; `GetterSpeaksForAll`; `HeaderComesBack`, `BodyComesBack` |

Bounds and why they are enough. `Word` = 4 makes the sender's counter run 0, 1, 2
on the receiver's circle 0..3 (3: 0, 1 on 0..2), so that one number is never sent,
as with 2^16; `Size` = 256 (257) keeps `Size % (Word - 1) = 1`. `Byte` is 3 or 4, one more than the
identifiers used. `MaxPdus` bounds the PDUs per controller and reaches one or two
rounds of the counter; `MaxFrames` bounds accepted receptions; two sizes, below and
above the MTU, are all that the check of the size tells apart. Two devices are the
least for which the address check matters to a third party. In PeriodicTimeTag a
slot is shorter than a second, as in `python/phy_layer.py:261`, and a second
is not a multiple of it, so carries fall inside and between calls.
Two marked bodies in any position among others are enough to see one lost, doubled,
overtaken or mixed up; a buffer of two is filled by size and by age. A second of 20
ticks leaves each order of edge, poll, sleep and delay that `ClockAssumption` allows:
the steps between two edges fit into a second, as 250 ms of sleeps do. Padding is also
proved for all lengths. In the configuration one parameter stands for each, since no
code looks at two parameters together except `type`, `usrp` and `role`, which are there.

Fairness. A GNU Radio block's thread is woken for every message at its ports, so
`HandleLlc`, `HandlePhy` and `Transmit` are weakly fair; UDP servers and the control
thread are not. In AppMockup the server's thread is fair, since a socket with a
timeout always returns, and what is under way is delivered or lost at last.
`StoredIfMessagesContinue` needs no fairness: it says what happens if the connector
takes messages for ever. Deadlock is not checked: all instances stop when their bounds are used up.

## 4. Disagreements found

* **Sequence numbers wrap differently on the two sides** (`net_wrap`). The sender
  reduces modulo 65535 (cc:194), the receiver assumes numbers modulo 65536
  (cc:359-360), as `python/qa_mac_controller.py:227` does. After every 65535 PDUs
  the receiver reports a loss that did not happen.
* **Identifier and MTU 256 are accepted** (`interface_range`). The constructor's
  messages exclude them (cc:75, 81, 87); in the header they become 0.
* **A late reply ends the mockup's server** (`app_late`): after a timeout and a flush
  that reads one datagram per socket, an old reply meets
  `assert rxpayload == payload` (`python/udp_connector_mockup.py:193`).

The properties of `time_tag`, `status` and `station` hold, and say what the code does where that
may surprise:

* **A late loss of the database ends the connector.** The comment
  `python/elasticsearch_connector.py:125` says data is dropped if the database is
  unavailable; that is asked once (:79). If it goes away later, `flush` (:121) raises
  in the message handler. What was buffered is kept, but nothing takes messages any more.
  A database that comes later is never used.
* **PMT_F reaches the connector.** `status_collector_impl.cc:148` publishes it for every
  message without status; `pmt.car` (:128) raises on it. In `status` this is the
  shape "slot"; `phy_layer.py` connects nothing that would cause it.
* **Vectors overwrite.** `tag_to_stream_value_impl.cc:145, 154, 163` copy to the start of
  the output, although `produced_items` counts on: several vectors in one call, or
  numbers and vectors, come out wrong. `ValuesComplete` is stated for the other calls.
* **Defaults beat the inventory.** `uhd_configuration.py:151` lays the defaults of a type
  over what the inventory says of a device; `FirstSpeakerWins` is the resulting order.
  A file that has a section at all replaces it (:225-226), only
  `tacmac_configuration.yml` changes single values.
* **Boards that were not found.** `load_device_config` (:166) compares values, a missing one
  counting as "N/A". A station starts though only some of its boards were found if the
  inventory gives for the others what was found of these; otherwise the assertion stops it
  (`DevicesAgree`). Keys that only later boards have are dropped without a word (:169).
* **One visible device is taken** (`uhd_configuration.py:131`), whoever is its primary
  host; `filter_devices`, which looks at "claimed", is used by nothing. `DevicesNotShared`
  says when two stations may meet. A device in the network that does not fit its entry in the
  inventory stops every station that sees it (:102-104), also one with a device of its own.
  A USB device has no "addr", so that
  `phy_layer.py:432` raises a KeyError for it.
* **Slots at a time tag.** `work` looks at all tags of its call before it puts out a slot
  (`periodic_time_tag_cc_impl.cc:93-105`): slots that were due in the call before the last
  tag, and the slots of its other tags, are never put out, so which ones are missing depends
  on how the scheduler cuts the stream. `SlotsComplete` says that no others are.
* **A label that does not fit.** `grc/tacmac_upper_phy_transmitter.block.yml:47` calls the
  output of upper_phy_transmitter "rx"; it carries the mapped symbols. The outputs of
  phy_transmitter and the first one of lower_phy_receiver have no label. For these three
  `StreamsAsLabelled` states what they carry; all labels of phy_receiver,
  upper_phy_receiver and lower_phy_receiver fit (`LayerBuiltOrRaised`: those of phy_layer).
* **Channels must be equal in number.** `grc/tacmac_phy_layer.block.yml` lets TX and RX
  channels differ; `phy_layer.py:288-298` numbers ports by RX channels only, and the
  constructor raises for any other number of TX channels (`LayerBuiltOrRaised`).
* **Several boards without GPS may differ by a second** (`phy_layer.py:497`): they are
  told one by one at an arbitrary instant. With GPS the wait for an edge prevents this.
* **Short frames have a negative padding**: up to 128 samples the part behind the frame
  is negative (`configurator_gfdm.py:38`), see `PaddingExact`. Frames are far longer.

Not modelled, but seen: the repository's `README.md:9` names CRC16_XMODEM, the code
calls `CRC_16_CCITTFALSE` (cc:184); they differ in the initial value.

## 5. Proofs

`MacFrameProofs`: `LostPacketsIsSkipped` says that for all widths with
`WidthAssumption` the receiver's arithmetic yields the numbers skipped on a circle
of `Word` numbers, and zero for a repeated one. The subtraction is at least
`-Word`; if it wraps, `Size = q * (Word - 1) + 1` turns it into the same remainder
plus one, which is where the two moduli meet. `RemainderOf` gives the uniqueness of
a remainder, since the solver does not reason about `%` with an open divisor.

`MacControllerProofs`, for every value of the constants that fulfils the
assumptions of MacFrame and MacController:

* `MacTyping`: `MacSpec => []MacTypeOK`. `MacTypeOK` is inductive; the step has one
  case per action, and each published record is typed by a lemma of its own.
* `LossReport`: `MacSpec => []LossReportIsSkipped`. The inductive invariant adds that
  `d_rx_frame_counter` is the sequence number of the last PDU in `llcOut`, or
  65535 before the first; then the new report is `LostPacketsIsSkipped`.
* `Sequence`: `MacSpec => []SequenceCountsPdus`. The inductive invariant adds that
  the transmitter's counter is the number of PDUs counted at LLCin, reduced modulo
  2^16 - 1: both advance for every PDU, before its size and the replay mode are
  looked at.
* `Delivery`: `MacSpec => []DeliveredWasSent`, assuming `ProperConfiguration`
  (identifiers and MTU below 256, not only up to 256 as the constructor checks).
  The inductive invariant adds what every published frame's header says about its
  sender, receiver and payload size; with it an accepted frame can only have come
  from the peer, and the cut to `payload_size` gives back the PDU.

* `StatusAccount`: `MacSpec => []StatusLinesAccount`. `StatusInv` has both sides of each
  controller (`PhySideAccounts`, `LlcSideAccounts`) and that the running total is the
  number of PDUs published so far, which no line in the log exceeds; without it a line
  could cover PDUs that are yet to come. A PDU changes the open interval only
  (`AccountsOfMore`), and a line closes it at the place the next one begins
  (`AccountsOfReset`). `SumOf` is a recursive function over a sequence of any length. The
  library's induction theorems take an operator and cannot be used, so `SumsAgree` and
  `SumsExist` look at the least length at which two sums differ, or at which there is
  none (`SmallestExists`, from the well-founded order of the natural numbers).

`PhyProofs` gathers five small modules around the PHY layer.

* `PaddingIsExact` says `PaddingSpec => []PaddingExact` for any lengths
  below the largest power of two (`ExponentAssumption`). The inductive invariant adds
  that while the loop runs `pre` is 128 ahead of `post`, and that the sum is less than
  one step above what is asked for or has not grown at all; the correction then takes
  less than a step from `post`. That a length can be rounded up follows from the
  well-founded order of the natural numbers.
* `PaddingIsEnough` says `PaddingSpec => []PaddingEnough`. What `PaddingIsExact` leaves
  open is about powers of two: which of them lie between two bounds, and that the double
  of one is one. `2 ^ k` has no definition the solver could unfold, but it is the number
  of subsets of a set of k elements (the library's `FS_SUBSET`): `PowersDouble` and
  `PowersGrow` compare sets of subsets, and `PowersBetween` concludes that there is no
  power strictly between 256 and 512. The padded length may call for one power more than
  the frame's own length, so `ExponentAssumption` keeps one exponent in reserve.
* `HeaderAlwaysComesBack`, `BodyAlwaysComesBack`: for all indices of a byte and bodies of
  any length parsing undoes generating, up to the cut to five bits, and descrambling
  undoes scrambling. `ParseOfGenerate` divides the word into its parts,
  `DescrambleOfScramble` is arithmetic modulo 256.
* `GettersAlwaysSpeakForAll`: `PlacesFacts` compares three things that are stated apart: the
  list that a setter visits, the place that its getter asks, and the constructed places that
  stand for the parameter (`OwnPlaces`, `PlaceKinds`): the list has all of these and no
  others, and the getter asks its first. With that `ControlInv` is inductive: each place of a
  parameter has the value of the last call, or the one before and is still on the list of the
  call under way; places of other parameters are not touched.
* `SlotsAlwaysComplete` from `PlaceInv` (where the next slot is
  between what was processed and the base), `OrderInv` (how the last published slot
  stands to the next one) and `FirstInv`; as long as a call has tags to look at
  (`TagPending`), the slot that follows is not settled, and `LastSlot` says
  how far the last one is from the call. `SlotTimesAlwaysFollowReference` from `TimesInv`, assuming
  `TagInterval <= SampRate`: `phy_layer.py:261` makes a slot 1/10000 s, and for slots of
  more than a second the code, which carries over one second at most, is wrong.
* `StreamsAlwaysAsLabelled` and `LayerAlwaysBuiltOrRaised`: for any numbers of antennas and
  channels the six blocks are wired as the properties say, and a PHY layer with unequal
  numbers of channels raises. `Wires(calls, made)` says that a list of calls makes exactly
  the connections `made` and no two of them go to one place; it is carried over lists put
  one behind the other (`WiresConcat`) and over a loop whose turns connect to different
  places (`WiresPerPort`). If in addition every port exists, the fold of `Connect` over the
  calls makes all of them (`AllMade`), and what is behind an output is the one connection
  that leads to it (`WiredBlock`). If a port does not exist (fewer TX channels) or two
  connections go to one place (more of them), the fold raises (`NotAllMade`, `NotApart`). There is one lemma for each
  block, such as `LowerReceiverFacts`. Labels and ports are then compared group by group:
  `FiveGroups` and `GroupAndPlace` divide numbers below `5 * n` by an open `n`. The fold and the loop
  are recursive functions, so the lemmas about them look at the least number of calls or
  turns for which a statement fails, as for `SumOf`.

`UdpNetworkProofs` builds on `MacControllerProofs`: an action of the network is a
handler of one controller with its queues.

* `NetTyping`: `NetSpec => []NetTypeOK`, and `NetTypeOK` is inductive.
* `ReplayModesAlwaysAgree`: during a call of `activate_replay_mode` the controllers already
  visited agree with it (`VisitedAgree`); this is inductive as no handler writes the
  flag, and with an empty rest of the call it is `ReplayModesAgree`.
* `NetImplementsLossyLink`: `NetSpec => ImplementsLossyLink`, assuming
  `ProperConfiguration`. `NetInit` implies `Link!LinkInit`, and a step of the network is a
  step of the abstract link: `UdpServer` offers; `HandleLlc` keeps the PDU in transit or,
  if it is too large or replay mode replaces it, loses it; `Transmit` changes nothing;
  `HandlePhy` at the peer delivers, loses or delivers a pattern; anywhere else, and in
  `activate_replay_mode`, the link stutters. The mapping needs `LinkInv`: PDUs that wait
  have the ranks after those handled (`WaitingKnown`); frames in the transmitter, in the
  air and delivered carry a PDU of their sender with the sequence number of its rank, or
  a replay pattern (`PublishedSound`, `InAirSound`, `DeliveredSound`); along the way from
  transmitter to client ranks grow strictly (`OrderKept`), which makes the delivered PDU
  the oldest and a loss or delivery remove just one; and only those who may use replay
  mode do (`ReplayersOnly`).
* `LossReportAlwaysExact`: `NetSpec => []LossReportExact`, assuming `ProperConfiguration`
  and that nobody uses replay mode. `NetLossInv` is `LinkInv` with the invariant of
  `LossReport`: the report is the number of sequence numbers skipped, the sequence
  numbers are those of the ranks, and within one round of the sender's counter, or across
  one reset, the difference of ranks follows (`RankSplit`, `SkippedFirst` and
  `SkippedBetween`, arithmetic of quotients and remainders).
* `LosslessAlwaysReportsZero`: `NetSpec => []LosslessLinkReportsZero`, assuming further
  `Lossless`: no noise, no PDU above the MTU, and no more PDUs per controller than the
  counter has numbers. Then every PDU handled is in the transmitter, in the air or
  delivered (`NoneLost`), so with `OrderKept` the i-th delivered is of rank i
  (`RanksArePlaces`) and the gap is zero. `net_wrap` shows that the last hypothesis is
  needed.

`UdpInterfaceProofs`: `PortsAlwaysFollowIds` and `NeverLocalLoop`. The inductive
invariant says that the i-th controller of a station is the one of its i-th port, with
the ports that the constructor's arguments give; the rest is arithmetic on them.

`AppMockupProofs`: `RepliesAlwaysMatch`, assuming `Prompt` (nothing under way outlives
the sleep between two rounds); `app_late` shows that it is needed. `ClientInv`: per
client at most one datagram is anywhere, and within a round, which lasts from the first
request to the sleep, it is the round's; clients whose turn is still to come have none.

`UsrpProofs` is about what happens before a station runs.

* `DevicesNeverShared`: `TakenInv` says that what a station took is its own device, one at
  USB, or the only one it sees. `DeviceTaken` reads this off `get_device`, and a device has
  one primary host and, at USB, one host that sees it (`NetworkAssumption`); so two
  stations have one device only in the third case.
* `FirstSpeakerAlwaysWins`: `LoadedInv` says that the options are what
  `load_default_configuration` returns for some files and some outcome of the search; the
  rest is what a chain of `dict.update` yields. `ConfigSaid` does the four files (whole
  sections replaced, then single values), `SingleSaid` one device, `OptionsSaid` the
  options. Nothing is assumed of the files but that a host's devices are a list of different
  names (`FilesAssumption`).
* `DevicesAlwaysAgree`: `MergedFacts` is what the comparison of `load_device_config` has
  shown if it did not raise; with `SingleSaid` it becomes a statement about what the search
  found and the files say. It needs that the search never answers "N/A", the word that
  stands for a missing value (`FilesAssumption`).

The clocks: `ClockInv` has a part for each way of setting the clocks. With GPS,
the loop leaves within a polling interval of an edge, and all that is between that edge
and the last board fits into the second (`ClockAssumption`), so all boards take the
second after the one that was read: `BoardsAlwaysFollowGps`. With the host's time the
boards up to some m took the time one edge earlier than those after it:
`BoardsAlwaysFollowHost`. `SetUpAlwaysInTime` needs that the loop ends with the first
edge, though its two queries may fall on different sides of one.

`StatusProofs` is about the blocks that read tags and about the path of status. First the
block that makes a stream of the tags' values:

* `AlwaysWithinOutput`: `StreamValueSpec => []WithinOutput`. The loop of `general_work` is a
  recursive function over the tags read. `InLoop` holds after every turn: the call has
  produced no more than its room, less if it is not full, and the buffer has kept its
  length. If there is a turn after which it does not hold, there is a first one
  (`LoopFacts`), and `TurnKeeps` refutes it.
* `ValuesAlwaysComplete`: `StreamValueSpec => []ValuesComplete`. With numbers only, the loop
  has produced i values after i turns, in their order, and is full at its room and not
  before (`NumbersInOrder`); there are no more tags than samples read (`FlattenFacts`) and no
  more samples read than room, so it never ends early. What `FlattenSeq` yields, typing, length
  and elements, is proved from its recursive definition in the same way.

Then the pipeline, for streams, queues, buffers and marks of any number, and for any
samples with `SamplesAssumption` (a sample that has tags carries the mark under which it is
followed, and a marked one a transmit time):

* `StatusTypeAlwaysOK`: `PipelineSpec => []StatusTypeOK`, and `AlwaysStoredAsReported`:
  `PipelineSpec => []StoredAsReported`. `PipelineInv` says of every place on the way what its
  items can be: a marked sample's mark was given as "tx", so was that of a dictionary, and a
  dictionary is never without it; a PDU's was given as "rx"; a status pair has a direction
  that fits its mark, and so have bodies, whose additional data do not decrease from the
  database through the buffer (`Reported(Entered)`) to what the connector has now. Neither property is
  inductive without this, as a body is made of what waits in the queues. `GivenOnce` is
  about the history: the marks given so far are the first of `MarkOrder`, none of them as
  both tx and rx. What `ReadTags` publishes is the hard part: an unstable sort and a loop that
  cuts its result into dictionaries. A sorted sequence is a surjection's image ordered by
  offset, so the tags of one sample are together; `Loop` is a recursive function, and after
  each of its turns the dictionaries published belong, in order, to the tagged samples
  passed so far.
* `NoStatusEverLost`: `PipelineSpec => []NoStatusLost`. `Row` is the sequence of the marks at
  the four parts of the way, database and connector, collector, queue and stream.
  `Kept`, that the marks given in each direction are what is left of the row if one looks at that
  direction only, is inductive together with `PipelineInv`. Each step moves items from one
  part to the next and leaves the row as it was (a call of `work` on any cut of the
  stream, in any order of its tags; a flush; a flush that fails, which empties nothing), or
  adds one at the end of the stream or of the collector's queue, where a new tx mark may be
  overtaken by an rx one but not by another tx. What is dropped carries no mark, unless
  there was no database at the start.

Only model-checked, and why:

* Liveness and refinement under fairness (`ImplementsFairLink`, `LosslessLinkDelivers`,
  `RoundsGoOn`) and `StoredIfMessagesContinue`, out of the prover's reach.

## 6. What the models leave out

* The checksum is taken to detect every damage; undetected errors are not modelled.
* A damaged frame differs in one header field; its length is kept, as the PHY's
  frames have a fixed size. Frames shorter than a header do not occur.
* All controllers have the same MTU, as the two ends of a link must have.
* `d_replay_mode_active` is a plain `bool` read and written by two threads; reading
  either the old or the new value is what the build can produce.
* Metadata keys that are only passed on, log wording, floating point rates.
* Rounding of `d_frac_secs`.
* In the status path: vectors in dictionaries, which are dropped; ticks and event codes;
  the fields of a body; bodies made of something else than a dictionary
  (`elasticsearch_connector.py:136-138`), which the collector never publishes.
* In tag_to_stream_value: the conversion of one number, and values that are missing from
  a dictionary or are no numbers, which raise or become 0.
* In the configuration: finding and parsing files; a host's list that names a device twice
  (excluded by `FilesAssumption`, as the code would work on one dictionary twice); stations
  with different inventories on one network.
* In the clock set-up: failures of the driver and of the sensors; a GPS receiver that is
  slower than the sleep that waits for it (`SensorLag`).
* The set-up of gains and antennas, the writing of samples to files, pilots that are set
  after construction.

Not modelled, and why: `lib/CRC.h` is vendored. `python/bindings/` and
`docs/doxygen/` (with about 15000 lines of generated parsers, the largest part of the
Python code by far) are the tools of GNU Radio's module template and say nothing of this system;
the `qa_*.py` tests are read as statements about the code. The rest of
`configurator*.py` and the constructors' arguments compute filter taps, preambles,
polar codes and constellations with external libraries: there is no state and no
control to check. `lib/tacmac_utilities.h` converts times and flattens dictionaries.

## 7. Plan

All components with state or control of their own are modelled, and every safety property
that a passing run checks is proved. What a next step could add is a closer model of the external
signal processing blocks, whose sources are not part of this repository, and the fields of
the status messages, which the models only tell apart by their marks.
