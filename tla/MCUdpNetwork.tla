---------------------------- MODULE MCUdpNetwork ----------------------------
(* Small instances of UdpNetwork: station 0 is the base station, the others *)
(* are devices.                                                             *)
EXTENDS UdpNetwork

OneLink         == {<<0, 1>>, <<1, 0>>}
BsAndTwoDevices == {<<0, 1>>, <<0, 2>>, <<1, 0>>, <<2, 0>>}

OneReading == {100}

BelowMtu         == {1}
BelowAndAboveMtu == {1, 3}
UpToMtu          == {1, 2}

Nobody        == {}
BsListens     == {<<0, 1>>}
BsReplays     == {<<0, 1>>, <<0, 2>>}

\* Rows of MaxPdus: up to n PDUs from the first device, up to m from every
\* controller of the base station, up to k from the second device.
Traffic(n, m, k) ==
    [c \in Controllers |-> CASE c = <<1, 0>> -> n [] SrcId(c) = 0 -> m [] OTHER -> k]
FiveUp        == Traffic(5, 0, 0)
FourUp        == Traffic(4, 0, 0)
OneUpTwoDown  == Traffic(1, 1, 0)
OneDown       == Traffic(0, 1, 0)
BothUp        == Traffic(2, 0, 1)
NoBound       == Traffic(0, 0, 0)
=============================================================================
