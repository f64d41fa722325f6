--------------------------- MODULE MacFrameProofs ---------------------------
(***************************************************************************)
(* Facts about the frame and its arithmetic, for all widths.               *)
(***************************************************************************)
EXTENDS MacFrame, TLAPS

\* The remainder of a known multiple plus a rest below the divisor.
LEMMA RemainderOf ==
    ASSUME NEW m \in Nat \ {0}, NEW q \in Int, NEW r \in 0 .. (m - 1)
    PROVE  (q * m + r) % m = r
<1> DEFINE a == q * m + r
           k == a \div m
           s == a % m
<1>1. a \in Int /\ k \in Int /\ s \in 0 .. (m - 1) /\ a = m * k + s
  BY SMT
<1>2. m * (q - k) = s - r
  BY <1>1, SMT
<1>3. q - k < 1
  <2>1. SUFFICES ASSUME q - k >= 1 PROVE FALSE
    BY <1>1
  <2>2. m * (q - k) >= m
    BY <2>1, <1>1, SMT
  <2> QED
    BY <2>2, <1>2, <1>1
<1>4. q - k > -1
  <2>1. SUFFICES ASSUME q - k <= -1 PROVE FALSE
    BY <1>1
  <2>2. m * (q - k) <= -m
    BY <2>1, <1>1, SMT
  <2> QED
    BY <2>2, <1>2, <1>1
<1>5. q = k
  BY <1>1, <1>3, <1>4
<1> QED
  BY <1>1, <1>2, <1>5

LEMMA WidthTypes ==
    /\ Byte \in Nat \ {0} /\ Word \in Nat /\ Word > 2 /\ Size \in Nat /\ Size > Word - 1
    /\ FrameCounterMax \in Nat /\ FrameCounterMax > 1 /\ FrameCounterMax < Word
<1>1. PICK q \in 1 .. Size : Size = q * (Word - 1) + 1
  BY WidthAssumption
<1>2. q * (Word - 1) >= Word - 1
  BY <1>1, WidthAssumption
<1> QED
  BY <1>1, <1>2, WidthAssumption DEF FrameCounterMax

\* The counter of the transmitter never takes the value 2^16 - 1.
LEMMA NextFrameCounterType ==
    ASSUME NEW n \in 0 .. FrameCounterMax - 1
    PROVE  /\ NextFrameCounter(n) \in 0 .. FrameCounterMax - 1
           /\ NextFrameCounter(n) = IF n + 1 = FrameCounterMax THEN 0 ELSE n + 1
<1>1. CASE n + 1 = FrameCounterMax
  BY <1>1, WidthTypes, RemainderOf, 1 * FrameCounterMax + 0 = n + 1 DEF NextFrameCounter
<1>2. CASE n + 1 # FrameCounterMax
  BY <1>2, WidthTypes, RemainderOf, 0 * FrameCounterMax + (n + 1) = n + 1 DEF NextFrameCounter
<1> QED
  BY <1>1, <1>2

\* The loss report computed in size_t is the number of sequence numbers skipped
\* on the circle of 2^16 numbers, except that a repeated number counts as nothing
\* lost (lost_packets in handle_phy_msg): for all sequence numbers and widths.
THEOREM LostPacketsIsSkipped ==
    ASSUME NEW seq \in 0 .. Word - 1, NEW rx \in 0 .. Word - 1
    PROVE  /\ LostPackets(seq, rx) = SkippedNumbers(seq, rx)
           /\ LostPackets(seq, rx) \in 0 .. FrameCounterMax - 1
<1> DEFINE m == FrameCounterMax
           d == seq - rx - 1
<1>1. /\ m \in Nat \ {0} /\ m = Word - 1 /\ m > 1 /\ m < Size /\ Size \in Nat \ {0}
      /\ d \in Int /\ Word \in Nat \ {0}
  BY WidthTypes DEF FrameCounterMax
<1>2. PICK q \in 1 .. Size : Size = q * m + 1
  BY WidthAssumption DEF FrameCounterMax
<1>3. CASE seq > rx
  <2>1. d \in 0 .. m - 1
    BY <1>1, <1>3
  <2>2. d % Size = d
    <3>1. d \in 0 .. Size - 1 /\ 0 * Size + d = d
      BY <1>1, <2>1
    <3> QED
      BY <3>1, <1>1, RemainderOf
  <2>3. d % m = d
    <3>1. 0 * m + d = d
      BY <1>1
    <3> HIDE DEF m, d
    <3> QED
      BY <3>1, <2>1, <1>1, RemainderOf
  <2>4. d % Word = d
    <3>1. d \in 0 .. Word - 1 /\ 0 * Word + d = d
      BY <1>1, <2>1
    <3> QED
      BY <3>1, <1>1, RemainderOf
  <2> QED
    BY <1>3, <2>1, <2>2, <2>3, <2>4 DEF LostPackets, SkippedNumbers
<1>4. CASE seq <= rx
  <2>1. d \in -Word .. -1
    BY <1>1, <1>4
  <2>2. d % Size = Size + d
    <3>1. Size + d \in 0 .. Size - 1 /\ (-1) * Size + (Size + d) = d
      BY <1>1, <2>1
    <3> QED
      BY <3>1, <1>1, RemainderOf
  <2>3. CASE seq = rx
    <3>1. Size + d = q * m + 0 /\ q \in Int /\ 0 \in 0 .. m - 1
      BY <1>1, <1>2, <2>3
    <3>2. (Size + d) % m = 0
      <4> HIDE DEF m, d
      <4>1. (q * m + 0) % m = 0
        BY <3>1, <1>1, RemainderOf
      <4> QED
        BY <3>1, <4>1
    <3> QED
      BY <1>1, <2>2, <2>3, <3>2 DEF LostPackets, SkippedNumbers
  <2>4. CASE seq # rx
    <3>1. /\ (q - 1) * m = q * m - m
          /\ d + 1 + m \in 0 .. m - 1
      BY <1>1, <1>2, <2>1, <2>4, <1>4
    <3>2. Size + d = (q - 1) * m + (d + 1 + m) /\ q - 1 \in Int
      BY <3>1, <1>1, <1>2
    <3>3. (Size + d) % m = d + 1 + m
      <4> DEFINE r == d + 1 + m
                 k == q - 1
      <4>1. r \in 0 .. m - 1 /\ k \in Int /\ Size + d = k * m + r /\ m \in Nat \ {0}
        BY <3>1, <3>2, <1>1
      <4> HIDE DEF m, d, r, k
      <4>2. (k * m + r) % m = r
        BY <4>1, RemainderOf
      <4> QED
        BY <4>1, <4>2 DEF r
    <3>4. d % Word = d + Word
      <4>1. d + Word \in 0 .. Word - 1 /\ (-1) * Word + (d + Word) = d
        BY <1>1, <2>1
      <4> QED
        BY <4>1, <1>1, RemainderOf
    <3> QED
      BY <1>1, <2>2, <2>4, <3>1, <3>3, <3>4 DEF LostPackets, SkippedNumbers
  <2> QED
    BY <2>3, <2>4
<1> QED
  BY <1>3, <1>4
=============================================================================
