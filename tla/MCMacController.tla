-------------------------- MODULE MCMacController --------------------------
(* A small instance of MacController.  Word = 3 makes the transmitter wrap  *)
(* after two PDUs; Size = 257 keeps 2^64 = 1 modulo 2^16 - 1.               *)
EXTENDS MacController

\* A base station that talks to two devices, of which one is running.
BsAndOneDevice == {<<0, 1>>, <<0, 2>>, <<1, 0>>}

LateOrBack == {100, 120}

BelowAndAboveMtu == {1, 3}

DeviceIsSentReplays == {<<0, 1>>}
DeviceListens == {<<1, 0>>}

\* Traffic to the device only: n PDUs meant for it, m for the other one, and r
\* frames it accepts.
DownlinkPdus(n, m) ==
    [c \in Controllers |-> CASE c = <<0, 1>> -> n [] c = <<0, 2>> -> m [] OTHER -> 0]
DownlinkFrames(r) == [c \in Controllers |-> IF c = <<1, 0>> THEN r ELSE 0]
ThreeAndOnePdus == DownlinkPdus(3, 1)
ThreeFrames == DownlinkFrames(3)
=============================================================================
