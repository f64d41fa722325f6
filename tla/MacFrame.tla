------------------------------ MODULE MacFrame ------------------------------
(***************************************************************************)
(* The frame of the MAC layer: the header a controller writes, what a      *)
(* receiver reads back, the address and checksum test, and the arithmetic  *)
(* of the sequence numbers (lib/mac_controller_impl.cc).                   *)
(*                                                                         *)
(* The code fixes the widths: 2^8 for an identifier and for the payload    *)
(* size, 2^16 for a sequence number, 2^64 for size_t.  They are constants  *)
(* here, so that TLC can use small ones and the proofs can leave them      *)
(* open.                                                                   *)
(***************************************************************************)
EXTENDS Integers

CONSTANTS
    Byte,            \* values of one byte                      (code: 2^8)
    Word,            \* values of the two sequence bytes        (code: 2^16)
    Size,            \* values of size_t and uint64_t           (code: 2^64)
    ReplaySequence,  \* the frame counter of every replay frame (code: 4711)
    ReplayTicks      \* their timestamp                   (code: 0xC0FFEE42)

\* The receiver computes in size_t and reduces modulo Word - 1; both agree
\* with 16-bit arithmetic because 2^64 = 1 modulo 2^16 - 1.
ASSUME WidthAssumption ==
    /\ Byte \in Nat \ {0}
    /\ Word \in Nat /\ Word > 2
    /\ \E q \in 1 .. Size : Size = q * (Word - 1) + 1
    /\ Size \in Nat

ASSUME ReplayAssumption ==
    /\ ReplaySequence \in 0 .. (Word - 1)
    /\ ReplayTicks \in 0 .. (Size - 1)

FrameCounterMax == Word - 1   \* std::numeric_limits<uint16_t>::max()

(***************************************************************************)
(* The transmitter's counter: incremented, then reduced.                   *)
(***************************************************************************)
\* Mutant: the counter runs through all 2^16 numbers.
NextFrameCounterOfWord(n) == (n + 1) % Word

NextFrameCounter(n) == (n + 1) % FrameCounterMax

(***************************************************************************)
(* The header written by a controller that talks from src to dst.          *)
(* Identifiers, sequence number and payload size are cast to their bytes.  *)
(***************************************************************************)
\* Mutant: the header is written from the counter after its increment.
CreateHeaderLate(dst, src, frame_counter, ticks, payload_size) ==
    [dst |-> dst % Byte, src |-> src % Byte, sequence |-> NextFrameCounter(frame_counter),
     payload_size |-> payload_size % Byte, timestamp |-> ticks % Size]

CreateHeader(dst, src, frame_counter, ticks, payload_size) ==
    [dst          |-> dst % Byte,
     src          |-> src % Byte,
     sequence     |-> frame_counter % Word,
     payload_size |-> payload_size % Byte,
     timestamp    |-> ticks % Size]

Header == [dst : 0 .. Byte - 1, src : 0 .. Byte - 1, sequence : 0 .. Word - 1,
           payload_size : 0 .. Byte - 1, timestamp : 0 .. Size - 1]

\* What the radio may make of a header: some field comes out changed.  The
\* 16-bit checksum is taken to find every such change.
Damaged(header) ==
    ( {[header EXCEPT !.dst = x] : x \in 0 .. Byte - 1} \cup
      {[header EXCEPT !.src = x] : x \in 0 .. Byte - 1} \cup
      {[header EXCEPT !.sequence = x] : x \in 0 .. Word - 1} \cup
      {[header EXCEPT !.payload_size = x] : x \in 0 .. Byte - 1} ) \ {header}

(***************************************************************************)
(* The verdict on a received frame.  The tests are made one after another  *)
(* and a later one overwrites the verdict of an earlier one, so the last   *)
(* test that fails decides.                                                *)
(***************************************************************************)
Status == {"OK", "NOT_US", "LOOPBACK", "WRONG_SRC", "INVALID_CRC"}

\* Mutant: a receiver that does not look at the destination.
CheckWithoutDst(d_dst_id, d_src_id, header, intact) ==
    IF intact /\ header.src = d_dst_id THEN "OK" ELSE "WRONG_SRC"

\* Mutant: a receiver that does not compare the checksums.
CheckWithoutCrc(d_dst_id, d_src_id, header, intact) ==
    IF header.src = d_dst_id /\ header.dst = d_src_id THEN "OK" ELSE "WRONG_SRC"

CheckPhyPacket(d_dst_id, d_src_id, header, intact) ==
    CASE ~intact                                     -> "INVALID_CRC"
      [] intact /\ header.src # d_dst_id             -> "WRONG_SRC"
      [] intact /\ header.src = d_dst_id
                /\ header.src = d_src_id             -> "LOOPBACK"
      [] intact /\ header.src = d_dst_id
                /\ header.src # d_src_id
                /\ header.dst # d_src_id             -> "NOT_US"
      [] OTHER                                       -> "OK"

(***************************************************************************)
(* What the receiver reports as lost between the frame it accepted last    *)
(* and this one: a size_t subtraction, then the remainder.                 *)
(***************************************************************************)
\* Mutant: the difference reduced by the wrong power of two.
LostPacketsOfWord(sequence, d_rx_frame_counter) ==
    ((sequence - d_rx_frame_counter - 1) % Size) % Word

\* Mutant: the difference not reduced.
LostPacketsUnreduced(sequence, d_rx_frame_counter) ==
    (sequence - d_rx_frame_counter - 1) % Size

\* Mutant: the frame itself counted as lost.
LostPacketsWithThis(sequence, d_rx_frame_counter) ==
    ((sequence - d_rx_frame_counter) % Size) % FrameCounterMax

LostPackets(sequence, d_rx_frame_counter) ==
    ((sequence - d_rx_frame_counter - 1) % Size) % FrameCounterMax

(***************************************************************************)
(* The reference: sequence numbers skipped on a circle of Word numbers,    *)
(* except that a repeated number counts as nothing lost.                   *)
(***************************************************************************)
SkippedNumbers(sequence, last) ==
    IF sequence = last THEN 0 ELSE (sequence - last - 1) % Word
=============================================================================
