----------------------------- MODULE TacmacHeader -----------------------------
(***************************************************************************)
(* The header of two bytes and the scrambling of a TACMAC frame            *)
(* (python/formatter/utils.py:26-83).  The bits                            *)
(*     target (5), request or sender (5), direction (1), frame (5)         *)
(* are packed into a word of 16 bits, whose lower byte comes first.        *)
(***************************************************************************)
EXTENDS Integers, Sequences

CONSTANTS
    Indices,  \* indices that are put into a header
    Bodies    \* bodies of frames

Byte == 0 .. 255

ASSUME HeaderAssumption == Indices \subseteq Byte /\ Bodies \subseteq Seq(Byte)

VARIABLES
    given,    \* what was put into the frame, if one was sent
    frame     \* its header and its scrambled body

headerVars == <<given, frame>>

Fields == [target : Indices, sender : Indices, index : Indices, downlink : {0, 1}, body : Bodies]

\* The lower five bits: numpy.unpackbits(...)[3:]
LowFive(byte) == byte % 32

\* generate_tacmac_header
GenerateHeader(target, sender, index, downlink) ==
    LET word == 2048 * LowFive(target) + 64 * LowFive(sender) + 32 * downlink + LowFive(index)
    IN  <<word % 256, word \div 256>>

\* Mutant: the bytes are not turned.
ParseUnturned(header) ==
    LET word == 256 * header[1] + header[2] IN
    [target |-> word \div 2048, sender |-> (word \div 64) % 32,
     index |-> word % 32, downlink |-> (word \div 32) % 2]

\* parse_tacmac_header
ParseHeader(header) ==
    LET word == 256 * header[2] + header[1] IN
    [target |-> word \div 2048, sender |-> (word \div 64) % 32,
     index |-> word % 32, downlink |-> (word \div 32) % 2]

\* scramble_tacmac_frame: each byte plus its place, in bytes.
Scramble(body) == [i \in DOMAIN body |-> (body[i] + (i - 1)) % 256]

\* Mutant: the first byte counts as the first, not as the zeroth.
DescrambleFrom1(body) == [i \in DOMAIN body |-> (body[i] - i) % 256]

\* descramble_tacmac_frame
Descramble(body) == [i \in DOMAIN body |-> (body[i] - (i - 1)) % 256]

HeaderInit == given = <<>> /\ frame = <<>>

MakeFrame(f) ==
    /\ given = <<>> /\ given' = f
    /\ frame' = [header |-> GenerateHeader(f.target, f.sender, f.index, f.downlink),
                 body |-> Scramble(f.body)]

HeaderNext == \E f \in Fields : MakeFrame(f)

HeaderSpec == HeaderInit /\ [][HeaderNext]_headerVars
-----------------------------------------------------------------------------
\* A header is two bytes, and what is read from it is what was put in, each index cut to
\* five bits: no field leaks into another (formatter/utils.py:26-75).
HeaderComesBack ==
    frame # <<>> =>
        /\ frame.header \in Byte \X Byte
        /\ ParseHeader(frame.header) =
             [target |-> given.target % 32, sender |-> given.sender % 32,
              index |-> given.index % 32, downlink |-> given.downlink]

\* A scrambled body is made of bytes again and comes back unchanged, across the overflow
\* of its bytes and of the places (formatter/utils.py:78-83).
BodyComesBack ==
    frame # <<>> => frame.body \in Seq(Byte) /\ Descramble(frame.body) = given.body
=============================================================================
