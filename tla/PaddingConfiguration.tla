------------------------- MODULE PaddingConfiguration -------------------------
(***************************************************************************)
(* How many samples are put before and behind a frame                      *)
(* (get_padding_configuration of python/configurator_gfdm.py, and the same *)
(* again in python/configurator.py), with what the PHY layer adds for a    *)
(* USRP of type b200 (python/phy_layer.py:203-207).                        *)
(***************************************************************************)
EXTENDS Integers

CONSTANTS
    FrameLens,    \* lengths of frames
    MaxExponent   \* bound: powers of two that are tried

ASSUME PaddingAssumption == FrameLens \subseteq Nat \ {0} /\ MaxExponent \in Nat

\* The bound is large enough for the lengths, and one more for what is added to them.
ASSUME ExponentAssumption == \A len \in FrameLens : \E k \in 0 .. MaxExponent - 1 : 2 ^ k >= len

VARIABLES
    frame_len, padded_len, pre, post,
    step          \* "call", "while", "return"

paddingVars == <<frame_len, padded_len, pre, post, step>>

PowersOf2 == { 2 ^ k : k \in 0 .. MaxExponent }

\* round_up_power_of_2
RoundUp(value) == CHOOSE p \in PowersOf2 : p >= value /\ \A q \in PowersOf2 : q >= value => q >= p

\* Mutant: what is left of the next power of two, however little.
PaddedLenOnce(len) == RoundUp(len) - len

\* What is left of the next power of two, or of the one behind it if that is too little.
PaddedLen(len) == (IF RoundUp(len) - len < 500 THEN 2 * RoundUp(len) ELSE RoundUp(len)) - len

PaddingInit ==
    /\ frame_len = 0 /\ padded_len = 0 /\ pre = 0 /\ post = 0
    /\ step = "call"

Call ==
    /\ step = "call" /\ step' = "while"
    /\ frame_len' \in FrameLens
    /\ padded_len' = PaddedLen(frame_len')
    /\ pre' = 256 /\ post' = 128

\* The body of the loop.
Grow ==
    /\ step = "while" /\ pre + post < padded_len
    /\ pre' = pre + 128 /\ post' = post + 128
    /\ UNCHANGED <<frame_len, padded_len, step>>

\* Mutant: the rest is taken from the front.
CorrectedTwice(front, behind) == behind - 2 * (front + behind - padded_len)

\* The length behind the frame is corrected by what is too much.
Corrected(front, behind) == behind - (front + behind - padded_len)

Return ==
    /\ step = "while" /\ pre + post >= padded_len /\ step' = "return"
    /\ post' = Corrected(pre, post)
    /\ UNCHANGED <<frame_len, padded_len, pre>>

PaddingNext == Call \/ Grow \/ Return

PaddingSpec == PaddingInit /\ [][PaddingNext]_paddingVars

\* What phy_layer adds before the frame.
MorePadding(usrp_type, padded_frame_len) ==
    IF usrp_type # "b200" \/ padded_frame_len > 4096 THEN 0
    ELSE IF 4096 - padded_frame_len < 1024 THEN 4096 - padded_frame_len ELSE 1024
-----------------------------------------------------------------------------
\* The padding is what is missing to the power of two, and nothing is missing behind the
\* frame: its tail is not cut and the receiver's filters get their samples.  Frames of up
\* to 128 samples would need a negative length (configurator_gfdm.py:28-39).
PaddingExact ==
    step = "return" =>
        /\ pre + post = padded_len
        /\ padded_len >= 256 => post \in 0 .. pre

\* Every frame longer than 128 samples gets that much padding; what goes to a b200 is a
\* power of two of samples with up to 1024 more, and fits if it fits without them
\* (configurator_gfdm.py:29-33, phy_layer.py:203-207).
PaddingEnough ==
    step = "return" =>
        /\ frame_len > 128 => padded_len >= 256
        /\ frame_len > 256 => padded_len >= 500
        /\ pre + frame_len + post \in PowersOf2
        /\ LET all == pre + frame_len + post IN
           /\ all <= 4096 => all + MorePadding("b200", all) <= 4096
           /\ all < 3072 => MorePadding("b200", all) = 1024
=============================================================================
