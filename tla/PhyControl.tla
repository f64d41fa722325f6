------------------------------ MODULE PhyControl ------------------------------
(***************************************************************************)
(* Parameters that are changed while a station runs: the setters and       *)
(* getters of python/phy_layer.py, phy_transmitter.py, phy_receiver.py and *)
(* lower_phy_receiver.py.  A setter is called by the thread of the user    *)
(* interface and visits the blocks that hold the parameter one by one,     *)
(* while their threads go on.  Blocks and devices (external) hold a value  *)
(* per attribute: <<block, antenna, attribute>>.                           *)
(***************************************************************************)
EXTENDS Integers, Sequences, SequencesExt, TLC

CONSTANTS
    TxChannels, RxChannels,  \* numbers of channels of the PHY layer
    Antennas,                \* nport of a lower_phy_receiver
    MaxSettings              \* bound: calls of setters

ASSUME ControlAssumption ==
    TxChannels \in Nat \ {0} /\ RxChannels \in Nat \ {0} /\ Antennas \in Nat \ {0} /\ MaxSettings \in Nat

VARIABLES
    values,    \* per place: the value it has, counted by the calls of setters
    setting,   \* the call under way: parameter, places not yet visited, and (history) the
               \* value of the call before
    settings   \* per parameter: the last call of its setter

controlVars == <<values, setting, settings>>

Synchronizer == {"scorr_threshold_high", "scorr_threshold_low", "xcorr_threshold"}
Demodulator  == {"activate_cfo_compensation", "activate_phase_compensation", "ic_iterations"}
BurstShaper  == {"cycle_interval", "timing_advance", "tx_digital_gain"}
Usrp         == {"carrier_freq", "rx_gain", "tx_gain"}

\* for i in range(n)
Each(block, n, attribute) == [i \in 1 .. n |-> <<block, i - 1, attribute>>]

\* Every block and channel with its attributes, as the constructors create them
\* (lower_phy_receiver.py:60-110, phy_receiver.py:97-155, phy_transmitter.py:128,
\* phy_layer.py:351-410).
Places ==
    ({"xfdm_sync_synchronizers"} \X (0 .. Antennas - 1) \X Synchronizer)
    \cup ({"gfdm_receivers"} \X (0 .. Antennas - 1) \X Demodulator)
    \cup ({"synchronizer"} \X {0} \X Synchronizer)
    \cup ({"demodulator"} \X {0} \X Demodulator)
    \cup ({"gfdm_short_burst_shaper"} \X {0} \X {"cycle_interval", "timing_advance", "scale"})
    \cup ({"uhd_usrp_sink"} \X (0 .. TxChannels - 1) \X {"center_freq", "gain"})
    \cup ({"uhd_usrp_source"} \X (0 .. RxChannels - 1) \X {"center_freq", "gain"})

\* Setters of the PHY layer for its devices: sink first.
UsrpPlaces(parameter) ==
    CASE parameter = "carrier_freq" -> Each("uhd_usrp_sink", TxChannels, "center_freq")
                                       \o Each("uhd_usrp_source", RxChannels, "center_freq")
      [] parameter = "tx_gain" -> Each("uhd_usrp_sink", TxChannels, "gain")
      [] parameter = "rx_gain" -> Each("uhd_usrp_source", RxChannels, "gain")

\* Setters of phy_transmitter and phy_receiver, to which those of the PHY layer lead.
TransmitterPlaces(parameter) ==
    << <<"gfdm_short_burst_shaper", 0, IF parameter = "tx_digital_gain" THEN "scale" ELSE parameter>> >>
ReceiverPlaces(parameter) ==
    << <<IF parameter \in Synchronizer THEN "synchronizer" ELSE "demodulator", 0, parameter>> >>

\* Mutant: only the first antenna's block is set.
LowerPlacesFirst(parameter) ==
    << <<IF parameter \in Synchronizer THEN "xfdm_sync_synchronizers" ELSE "gfdm_receivers", 0, parameter>> >>

\* Setters of lower_phy_receiver.
LowerPlaces(parameter) ==
    Each(IF parameter \in Synchronizer THEN "xfdm_sync_synchronizers" ELSE "gfdm_receivers",
         Antennas, parameter)

Parameters ==
    ({"phy_layer"} \X (Synchronizer \cup Demodulator \cup BurstShaper \cup Usrp))
    \cup ({"lower_phy_receiver"} \X (Synchronizer \cup Demodulator))

PlacesOf(parameter) ==
    CASE parameter[1] = "lower_phy_receiver" -> LowerPlaces(parameter[2])
      [] parameter[1] = "phy_layer" /\ parameter[2] \in Usrp -> UsrpPlaces(parameter[2])
      [] parameter[1] = "phy_layer" /\ parameter[2] \in BurstShaper -> TransmitterPlaces(parameter[2])
      [] OTHER -> ReceiverPlaces(parameter[2])

\* The one place a getter asks.
AskedPlace(parameter) ==
    LET block == parameter[1]
        name  == parameter[2]
    IN  CASE name \in Synchronizer ->
               <<IF block = "lower_phy_receiver" THEN "xfdm_sync_synchronizers" ELSE "synchronizer", 0, name>>
          [] name \in Demodulator ->
               <<IF block = "lower_phy_receiver" THEN "gfdm_receivers" ELSE "demodulator", 0, name>>
          [] name = "tx_digital_gain" -> <<"gfdm_short_burst_shaper", 0, "scale">>
          [] name \in BurstShaper \ {"tx_digital_gain"} -> <<"gfdm_short_burst_shaper", 0, name>>
          [] name = "carrier_freq" -> <<"uhd_usrp_sink", 0, "center_freq">>
          [] name = "tx_gain" -> <<"uhd_usrp_sink", 0, "gain">>
          [] name = "rx_gain" -> <<"uhd_usrp_source", 0, "gain">>

Got(parameter) == values[AskedPlace(parameter)]

NoSetting == <<>>
Calls == Max({0} \cup Range(settings))

\* Everything was configured by the constructors.
ControlInit ==
    /\ values = [place \in Places |-> 0]
    /\ setting = NoSetting
    /\ settings = [parameter \in Parameters |-> 0]

CallSetter ==
    /\ setting = NoSetting /\ Calls < MaxSettings
    /\ \E parameter \in Parameters :
         /\ setting' = [parameter |-> parameter, left |-> PlacesOf(parameter),
                         old |-> settings[parameter]]
         /\ settings' = [settings EXCEPT ![parameter] = Calls + 1]
    /\ UNCHANGED values

\* The next block gets the value; after the last the setter returns.
SetPlace ==
    /\ setting # NoSetting
    /\ values' = [values EXCEPT ![Head(setting.left)] = settings[setting.parameter]]
    /\ setting' = IF Len(setting.left) = 1 THEN NoSetting
                  ELSE [setting EXCEPT !.left = Tail(@)]
    /\ UNCHANGED settings

ControlNext == CallSetter \/ SetPlace

ControlSpec == ControlInit /\ [][ControlNext]_controlVars
-----------------------------------------------------------------------------
\* The parameter that a place stands for, by its block and the name of its attribute, whoever
\* sets it.
ParameterOf(place) ==
    << IF place[1] \in {"xfdm_sync_synchronizers", "gfdm_receivers"} THEN "lower_phy_receiver"
       ELSE "phy_layer",
       CASE place[3] = "scale" -> "tx_digital_gain"
         [] place[3] = "center_freq" -> "carrier_freq"
         [] place[3] = "gain" -> IF place[1] = "uhd_usrp_sink" THEN "tx_gain" ELSE "rx_gain"
         [] OTHER -> place[3] >>

OwnPlaces(parameter) == {place \in Places : ParameterOf(place) = parameter}

\* No setter misses a block, antenna or channel that stands for its parameter, or touches one
\* of another parameter: outside of its calls all of them have the value of the last call,
\* which the getter returns.  During a call each has that value or the one before, and the
\* getter is never behind: as long as it returns the value before, no block has the new one
\* (phy_layer.py:538-617, lower_phy_receiver.py:203-243).
GetterSpeaksForAll ==
    \A parameter \in Parameters :
        IF setting # NoSetting /\ setting.parameter = parameter
        THEN /\ \A place \in OwnPlaces(parameter) : values[place] \in {setting.old, settings[parameter]}
             /\ Got(parameter) = setting.old =>
                  \A place \in OwnPlaces(parameter) : values[place] = setting.old
        ELSE /\ \A place \in OwnPlaces(parameter) : values[place] = settings[parameter]
             /\ Got(parameter) = settings[parameter]
=============================================================================
