------------------------------- MODULE PhyProofs -------------------------------
(***************************************************************************)
(* Around the PHY layer: the padding of a frame is exact for all lengths,  *)
(* what a TACMAC frame carries comes back for all indices and bodies, a    *)
(* getter of the PHY layer speaks for every block and device for all       *)
(* numbers of channels and antennas, and slots are complete for every      *)
(* cutting of the stream and all rates, intervals and rx_time tags, with   *)
(* the right time if an interval is at most a second; and the hierarchical *)
(* blocks carry the streams of their descriptions for all numbers of       *)
(* antennas and channels, or their constructors raise.                     *)
(***************************************************************************)
EXTENDS PaddingConfiguration, TacmacHeader, PhyControl, PeriodicTimeTag, HierBlocks,
        FiniteSetTheorems, SequenceTheorems, WellFoundedInduction, TLAPS

Power(k) == 2 ^ k

\* Powers of two count subsets: half of the subsets of 1 .. k + 1 have k + 1 in them.
LEMMA PowersDouble ==
    ASSUME NEW k \in Nat
    PROVE  Power(k) \in Nat /\ Power(k + 1) = 2 * Power(k)
<1> DEFINE S == 1 .. k
           T == 1 .. k + 1
           P == SUBSET S
           Q == SUBSET T
           new == { A \cup {k + 1} : A \in SUBSET S }
           Add == [A \in SUBSET S |-> A \cup {k + 1}]
<1>1. /\ IsFiniteSet(S) /\ Cardinality(S) = k
      /\ IsFiniteSet(T) /\ Cardinality(T) = k + 1
  BY FS_Interval
<1>2. /\ IsFiniteSet(P) /\ Cardinality(P) = Power(k)
      /\ IsFiniteSet(Q) /\ Cardinality(Q) = Power(k + 1)
  BY <1>1, FS_SUBSET DEF Power
<1>3. Power(k) \in Nat
  BY <1>2, FS_CardinalityType
<1>4. T = S \cup {k + 1} /\ k + 1 \notin S
  OBVIOUS
<1> HIDE DEF S, T
<1>5. Add \in Bijection(P, new)
  <2>1. \A A, B \in SUBSET S : A \cup {k + 1} = B \cup {k + 1} => A = B
    BY <1>4
  <2>2. Add \in [SUBSET S -> new]
    OBVIOUS
  <2>3. \A A \in SUBSET S : Add[A] = A \cup {k + 1}
    OBVIOUS
  <2>4. \A B \in new : \E A \in SUBSET S : B = A \cup {k + 1}
    OBVIOUS
  <2> HIDE DEF Add, new
  <2>5. \A A, B \in SUBSET S : Add[A] = Add[B] => A = B
    BY <2>1, <2>3
  <2>6. \A B \in new : \E A \in SUBSET S : Add[A] = B
    BY <2>3, <2>4
  <2>7. Add \in Injection(P, new)
    BY <2>2, <2>5 DEF Injection, IsInjective
  <2>8. Add \in Surjection(P, new)
    BY <2>2, <2>6 DEF Surjection
  <2> QED
    BY <2>7, <2>8 DEF Bijection
<1>6. IsFiniteSet(new) /\ Cardinality(new) = Power(k)
  <2>1. ExistsBijection(P, new)
    BY <1>5 DEF ExistsBijection
  <2> HIDE DEF new, P
  <2> QED
    BY <1>2, <2>1, FS_Bijection
<1>7. P \cup new = Q
  <2>1. \A A \in SUBSET S : A \cup {k + 1} \in new
    OBVIOUS
  <2>2. \A B \in new : \E A \in SUBSET S : B = A \cup {k + 1}
    OBVIOUS
  <2> HIDE DEF new
  <2>3. ASSUME NEW B \in SUBSET T, B \notin SUBSET S PROVE B \in new
    <3> DEFINE A == B \ {k + 1}
    <3>1. k + 1 \in B
      BY <1>4, <2>3
    <3>2. B = A \cup {k + 1} /\ A \in SUBSET S
      BY <1>4, <3>1
    <3> HIDE DEF A
    <3> QED
      BY <2>1, <3>2
  <2>4. ASSUME NEW B \in new PROVE B \in SUBSET T
    BY <1>4, <2>2
  <2>5. ASSUME NEW B \in SUBSET S PROVE B \in SUBSET T
    BY <1>4
  <2> HIDE DEF P, Q
  <2> QED
    BY <2>3, <2>4, <2>5 DEF P, Q
<1>8. P \cap new = {}
  <2>1. \A B \in new : k + 1 \in B
    OBVIOUS
  <2>2. \A B \in SUBSET S : k + 1 \notin B
    BY <1>4
  <2> HIDE DEF new, P
  <2> QED
    BY <2>1, <2>2 DEF P
<1>9. Cardinality(P \cup new) = Power(k) + Power(k) - Cardinality({})
  <2> HIDE DEF new, P
  <2> QED
    BY <1>2, <1>6, <1>8, FS_Union
<1> HIDE DEF new, Add, P, Q
<1>10. Power(k + 1) = Power(k) + Power(k) - 0
  BY <1>2, <1>7, <1>9, FS_EmptySet
<1> QED
  BY <1>3, <1>10

\* ... and the subsets of a smaller set are among those of a larger one.
LEMMA PowersGrow ==
    ASSUME NEW k \in Nat, NEW m \in Nat, m <= k
    PROVE  Power(m) <= Power(k)
<1>1. /\ IsFiniteSet(1 .. k) /\ Cardinality(1 .. k) = k
      /\ IsFiniteSet(1 .. m) /\ Cardinality(1 .. m) = m
  BY FS_Interval
<1>2. /\ IsFiniteSet(SUBSET (1 .. k)) /\ Cardinality(SUBSET (1 .. k)) = Power(k)
      /\ Cardinality(SUBSET (1 .. m)) = Power(m)
  BY <1>1, FS_SUBSET DEF Power
<1>3. SUBSET (1 .. m) \subseteq SUBSET (1 .. k)
  OBVIOUS
<1> QED
  BY <1>2, <1>3, FS_Subset

LEMMA SomePowers ==
    /\ Power(0) = 1 /\ Power(7) = 128 /\ Power(8) = 256 /\ Power(9) = 512
BY SMT DEF Power

\* No power of two is between these.
LEMMA PowersBetween ==
    ASSUME NEW p \in PowersOf2
    PROVE  /\ p \in Nat /\ p >= 1
           /\ p > 128 => p >= 256
           /\ p > 256 => p >= 512
<1>1. PICK k \in 0 .. MaxExponent : p = Power(k)
  BY DEF PowersOf2, Power
<1>2. k \in Nat
  BY <1>1, PaddingAssumption
<1>3. ASSUME NEW m \in Nat PROVE Power(k) <= Power(m) \/ Power(m + 1) <= Power(k)
  <2>1. k <= m \/ m + 1 <= k
    BY <1>2
  <2> QED
    BY <1>2, <2>1, PowersGrow
<1>4. /\ Power(k) <= Power(7) \/ Power(7 + 1) <= Power(k)
      /\ Power(k) <= Power(8) \/ Power(8 + 1) <= Power(k)
  BY <1>3
<1>5. Power(0) <= Power(k) /\ Power(k) \in Nat
  BY <1>2, PowersGrow, PowersDouble
<1> QED
  BY <1>1, <1>4, <1>5, SomePowers

\* There is a smallest power of two that is not below a length, so the length can be
\* rounded up (configurator_gfdm.py:24-25).
LEMMA RoundUpExists ==
    ASSUME NEW len \in FrameLens
    PROVE  /\ RoundUp(len) \in PowersOf2 /\ RoundUp(len) >= len
           /\ 2 * RoundUp(len) \in PowersOf2
<1> DEFINE above == { p \in PowersOf2 : p >= len }
           Less  == OpToRel(<, Nat)
<1>1. len \in Nat
  BY PaddingAssumption
<1>2. \A p \in PowersOf2 : p \in Int
  BY PowersBetween
<1>3. above \subseteq Nat
  BY <1>1, <1>2
<1>4. above # {}
  <2>1. PICK k \in 0 .. MaxExponent - 1 : 2 ^ k >= len
    BY ExponentAssumption
  <2>2. k \in 0 .. MaxExponent
    BY PaddingAssumption
  <2> QED
    BY <2>1, <2>2 DEF PowersOf2
<1>5. IsWellFoundedOn(Less, Nat)
  BY NatLessThanWellFounded
<1>6. PICK p \in above : \A q \in above : <<q, p>> \notin Less
  <2> HIDE DEF above, Less
  <2> QED
    BY <1>3, <1>4, <1>5, WFMin
<1>7. p \in PowersOf2 /\ p >= len /\ \A q \in PowersOf2 : q >= len => q >= p
  <2>1. ASSUME NEW q \in PowersOf2, q >= len PROVE q >= p
    <3>1. q \in Nat /\ p \in Nat /\ <<q, p>> \notin Less
      BY <1>3, <1>6, <2>1
    <3>2. ~(q < p)
      BY <3>1 DEF OpToRel
    <3>3. \A m, n \in Nat : ~(m < n) => m >= n
      OBVIOUS
    <3>4. QED
      BY <3>1, <3>2, <3>3
  <2>2. QED
    BY <2>1
<1>8. /\ RoundUp(len) \in PowersOf2 /\ RoundUp(len) >= len
      /\ \A q \in PowersOf2 : q >= len => q >= RoundUp(len)
  BY <1>7 DEF RoundUp
<1>9. 2 * RoundUp(len) \in PowersOf2
  <2>1. PICK k \in 0 .. MaxExponent - 1 : Power(k) >= len
    BY ExponentAssumption DEF Power
  <2>2. PICK r \in 0 .. MaxExponent : RoundUp(len) = Power(r)
    BY <1>8 DEF PowersOf2, Power
  <2>3. k \in Nat /\ r \in Nat /\ MaxExponent \in Nat /\ k + 1 <= MaxExponent
    BY PaddingAssumption
  <2>4. Power(k) \in PowersOf2
    BY <2>3 DEF PowersOf2, Power
  <2>5. Power(k) >= Power(r)
    BY <1>8, <2>1, <2>2, <2>4
  <2>6. r <= k
    <3>1. SUFFICES ASSUME k + 1 <= r PROVE FALSE
      BY <2>3
    <3>2. k + 1 \in Nat
      BY <2>3
    <3>3. Power(k + 1) <= Power(r)
      BY <2>3, <3>1, <3>2, PowersGrow
    <3>4. /\ Power(k + 1) = 2 * Power(k)
          /\ Power(k) \in Nat /\ Power(r) \in Nat
      BY <2>3, PowersDouble
    <3>5. Power(0) <= Power(k)
      BY <2>3, PowersGrow
    <3> QED
      BY <2>5, <3>3, <3>4, <3>5, SomePowers
  <2>7. 2 * RoundUp(len) = Power(r + 1) /\ r + 1 \in 0 .. MaxExponent
    BY <2>2, <2>3, <2>6, PowersDouble
  <2> QED
    BY <2>7 DEF PowersOf2, Power
<1>10. QED
  BY <1>8, <1>9

\* What is added makes a power of two of the frame and is not little
\* (configurator_gfdm.py:29-32).
LEMMA PaddedLenFacts ==
    ASSUME NEW len \in FrameLens
    PROVE  /\ PaddedLen(len) \in Int
           /\ len > 128 => PaddedLen(len) >= 256
           /\ len > 256 => PaddedLen(len) >= 500
           /\ PaddedLen(len) + len \in PowersOf2
<1> DEFINE up == RoundUp(len)
<1>1. /\ len \in Nat /\ up \in PowersOf2 /\ 2 * up \in PowersOf2 /\ up >= len
  BY PaddingAssumption, RoundUpExists
<1>2. /\ up \in Nat
      /\ up > 128 => up >= 256
      /\ up > 256 => up >= 512
  BY <1>1, PowersBetween
<1>3. PaddedLen(len) = (IF up - len < 500 THEN 2 * up ELSE up) - len
  BY DEF PaddedLen
<1> HIDE DEF up
<1>4. CASE up - len < 500
  <2>1. PaddedLen(len) = 2 * up - len
    BY <1>3, <1>4
  <2> QED
    BY <1>1, <1>2, <2>1
<1>5. CASE ~(up - len < 500)
  <2>1. PaddedLen(len) = up - len
    BY <1>3, <1>5
  <2> QED
    BY <1>1, <1>2, <1>5, <2>1
<1> QED
  BY <1>4, <1>5

\* While the padding grows, the part before the frame stays 128 ahead, and it is no
\* more than one step above what is asked for, unless it has not grown at all.
PaddingInv ==
    /\ padded_len \in Int /\ pre \in Int /\ post \in Int
    /\ step \in {"call", "while", "return"}
    /\ step # "call" => frame_len \in FrameLens /\ padded_len = PaddedLen(frame_len)
    /\ step = "while" =>
         /\ pre = post + 128 /\ pre >= 256
         /\ pre = 256 \/ (padded_len > 384 /\ pre + post - 256 < padded_len)
    /\ PaddingExact

\* The loop and the correction behind it keep the invariant (configurator_gfdm.py:33-39).
LEMMA PaddingInvStep == PaddingInv /\ [PaddingNext]_paddingVars => PaddingInv'
<1> SUFFICES ASSUME PaddingInv, [PaddingNext]_paddingVars PROVE PaddingInv'
  OBVIOUS
<1>1. CASE UNCHANGED paddingVars
  BY <1>1 DEF PaddingInv, PaddingExact, paddingVars
<1>2. CASE Call
  <2>1. padded_len' \in Int
    BY <1>2, PaddedLenFacts DEF Call
  <2>2. QED
    BY <1>2, <2>1 DEF Call, PaddingInv, PaddingExact
<1>3. CASE Grow
  <2>1. padded_len > 384
    BY <1>3 DEF Grow, PaddingInv
  <2>2. QED
    BY <1>3, <2>1 DEF Grow, PaddingInv, PaddingExact
<1>4. CASE Return
  <2>1. post' = padded_len - pre
    BY <1>4 DEF Return, Corrected, PaddingInv
  <2>2. padded_len >= 256 => post' \in 0 .. pre
    BY <1>4, <2>1 DEF Return, PaddingInv
  <2>3. QED
    BY <1>4, <2>1, <2>2 DEF Return, PaddingInv, PaddingExact
<1>5. QED
  BY <1>1, <1>2, <1>3, <1>4 DEF PaddingNext

\* The invariant always holds.
LEMMA PaddingAlways == PaddingSpec => []PaddingInv
<1>1. PaddingInit => PaddingInv
  BY DEF PaddingInit, PaddingInv, PaddingExact
<1>2. QED
  BY <1>1, PaddingInvStep, PTL DEF PaddingSpec

\* For all lengths of frames the padding is what is missing to the power of two, and the
\* part behind the frame is not negative unless less than 256 samples are missing
\* (configurator_gfdm.py:28-39).
THEOREM PaddingIsExact == PaddingSpec => []PaddingExact
<1>1. PaddingInv => PaddingExact
  BY DEF PaddingInv
<1>2. QED
  BY <1>1, PaddingAlways, PTL

\* For all lengths of frames the padding is long enough for the receiver, makes a power of
\* two of the frame, and leaves room for what a b200 gets in addition
\* (configurator_gfdm.py:29-33, phy_layer.py:203-207).
THEOREM PaddingIsEnough == PaddingSpec => []PaddingEnough
<1>1. PaddingInv => PaddingEnough
  <2> SUFFICES ASSUME PaddingInv, step = "return" PROVE PaddingEnough
    BY DEF PaddingEnough
  <2> DEFINE all == pre + frame_len + post
  <2>1. /\ frame_len \in FrameLens /\ padded_len = PaddedLen(frame_len)
        /\ padded_len \in Int /\ pre \in Int /\ post \in Int /\ pre + post = padded_len
    BY DEF PaddingInv, PaddingExact
  <2>2. frame_len \in Int /\ all = padded_len + frame_len
    BY <2>1, PaddingAssumption
  <2>3. /\ frame_len > 128 => padded_len >= 256
        /\ frame_len > 256 => padded_len >= 500
        /\ all \in PowersOf2
    BY <2>1, <2>2, PaddedLenFacts
  <2>4. all \in Int
    BY <2>1, <2>2
  <2>5. /\ all <= 4096 => all + MorePadding("b200", all) <= 4096
        /\ all < 3072 => MorePadding("b200", all) = 1024
    <3> HIDE DEF all
    <3> QED
      BY <2>4 DEF MorePadding
  <2> QED
    BY <2>3, <2>5 DEF PaddingEnough
<1>2. QED
  BY <1>1, PaddingAlways, PTL
-----------------------------------------------------------------------------
\* What is put into a header can be told apart: division and remainder find each part of
\* the word in its range, and the two bytes make up the word (formatter/utils.py:26-75).
LEMMA ParseOfGenerate ==
    ASSUME NEW g \in Fields
    PROVE  LET header == GenerateHeader(g.target, g.sender, g.index, g.downlink) IN
           /\ header \in Byte \X Byte
           /\ ParseHeader(header) = [target |-> g.target % 32, sender |-> g.sender % 32,
                                     index |-> g.index % 32, downlink |-> g.downlink]
<1> DEFINE t == g.target % 32
           s == g.sender % 32
           f == g.index % 32
           d == g.downlink
           w == 2048 * t + 64 * s + 32 * d + f
<1>1. t \in 0 .. 31 /\ s \in 0 .. 31 /\ f \in 0 .. 31 /\ d \in 0 .. 1
  <2>1. /\ g.target \in Indices /\ g.sender \in Indices /\ g.index \in Indices
        /\ g.downlink \in {0, 1}
    BY DEF Fields
  <2>2. \A i \in Indices : i \in Nat
    BY HeaderAssumption, SMT DEF Byte
  <2>3. g.target \in Nat /\ g.sender \in Nat /\ g.index \in Nat
    BY <2>1, <2>2
  <2>4. QED
    BY <2>1, <2>3, SMT
<1>2. GenerateHeader(g.target, g.sender, g.index, g.downlink) = <<w % 256, w \div 256>>
  BY DEF GenerateHeader, LowFive
<1> HIDE DEF t, s, f, d
<1>3. w \in Nat /\ w <= 65535
  BY <1>1, SMT
<1>4. w \div 2048 = t /\ w % 32 = f
  BY <1>1, SMT
<1>5. w \div 64 = 32 * t + s /\ (w \div 64) % 32 = s
  BY <1>1, SMT
<1>6. w \div 32 = 64 * t + 2 * s + d /\ (w \div 32) % 2 = d
  BY <1>1, SMT
<1> HIDE DEF w
<1>7. w % 256 \in Byte
  BY <1>3, SMT DEF Byte
<1>8. w \div 256 \in Byte
  BY <1>3, SMT DEF Byte
<1>9. 256 * (w \div 256) + (w % 256) = w
  BY <1>3, SMT
<1>10. ParseHeader(<<w % 256, w \div 256>>) =
         [target |-> w \div 2048, sender |-> (w \div 64) % 32,
          index |-> w % 32, downlink |-> (w \div 32) % 2]
  BY <1>9 DEF ParseHeader
<1>11. ParseHeader(<<w % 256, w \div 256>>) =
         [target |-> t, sender |-> s, index |-> f, downlink |-> d]
  BY <1>4, <1>5, <1>6, <1>10
<1>12. <<w % 256, w \div 256>> \in Byte \X Byte
  BY <1>7, <1>8
<1>13. QED
  BY <1>2, <1>11, <1>12 DEF t, s, f, d

\* Scrambling can be undone, whatever the length (formatter/utils.py:78-83).
LEMMA DescrambleOfScramble ==
    ASSUME NEW body \in Seq(Byte)
    PROVE  Scramble(body) \in Seq(Byte) /\ Descramble(Scramble(body)) = body
<1>1. ASSUME NEW x \in Byte, NEW i \in Nat \ {0}
      PROVE  /\ (x + (i - 1)) % 256 \in Byte
             /\ (((x + (i - 1)) % 256) - (i - 1)) % 256 = x
  BY <1>1, SMT DEF Byte
<1>2. Len(body) \in Nat /\ DOMAIN body = 1 .. Len(body) /\ \A i \in DOMAIN body : body[i] \in Byte
  OBVIOUS
<1>3. /\ Scramble(body) = [i \in 1 .. Len(body) |-> (body[i] + (i - 1)) % 256]
      /\ \A i \in 1 .. Len(body) : (body[i] + (i - 1)) % 256 \in Byte
  BY <1>1, <1>2 DEF Scramble
<1>4. Scramble(body) \in Seq(Byte)
  BY <1>2, <1>3
<1>5. Descramble(Scramble(body)) =
        [i \in 1 .. Len(body) |-> (((body[i] + (i - 1)) % 256) - (i - 1)) % 256]
  BY <1>2, <1>3 DEF Descramble
<1>6. \A i \in 1 .. Len(body) : (((body[i] + (i - 1)) % 256) - (i - 1)) % 256 = body[i]
  BY <1>1, <1>2
<1>7. body = [i \in 1 .. Len(body) |-> body[i]]
  BY <1>2
<1>8. QED
  BY <1>4, <1>5, <1>6, <1>7

FrameInv == HeaderComesBack /\ BodyComesBack /\ (frame = <<>> => given = <<>>)

\* The one step there is makes a frame that keeps all of it.
LEMMA FrameInvHolds == HeaderSpec => []FrameInv
<1>1. HeaderInit => FrameInv
  BY DEF HeaderInit, FrameInv, HeaderComesBack, BodyComesBack
<1>2. FrameInv /\ [HeaderNext]_headerVars => FrameInv'
  <2> SUFFICES ASSUME FrameInv, [HeaderNext]_headerVars PROVE FrameInv'
    OBVIOUS
  <2>1. CASE UNCHANGED headerVars
    BY <2>1 DEF FrameInv, HeaderComesBack, BodyComesBack, headerVars
  <2>2. ASSUME NEW f \in Fields, MakeFrame(f) PROVE FrameInv'
    <3>1. f.body \in Seq(Byte)
      BY HeaderAssumption DEF Fields
    <3>2. /\ given' = f
          /\ frame'.header = GenerateHeader(f.target, f.sender, f.index, f.downlink)
          /\ frame'.body = Scramble(f.body)
          /\ frame' # <<>>
      BY <2>2 DEF MakeFrame
    <3>3. HeaderComesBack'
      <4> DEFINE header == GenerateHeader(f.target, f.sender, f.index, f.downlink)
      <4>1. /\ header \in Byte \X Byte
            /\ ParseHeader(header) =
                 [target |-> f.target % 32, sender |-> f.sender % 32,
                  index |-> f.index % 32, downlink |-> f.downlink]
        BY ParseOfGenerate
      <4> HIDE DEF header
      <4>2. QED
        BY <3>2, <4>1 DEF HeaderComesBack, header
    <3>4. BodyComesBack'
      BY <3>1, <3>2, DescrambleOfScramble DEF BodyComesBack
    <3>5. QED
      BY <3>2, <3>3, <3>4 DEF FrameInv
  <2>3. QED
    BY <2>1, <2>2 DEF HeaderNext
<1>3. QED
  BY <1>1, <1>2, PTL DEF HeaderSpec

\* Every header the formatter makes brings back its fields, cut to five bits
\* (formatter/utils.py:26-75).
THEOREM HeaderAlwaysComesBack == HeaderSpec => []HeaderComesBack
<1>1. FrameInv => HeaderComesBack
  BY DEF FrameInv
<1>2. QED
  BY <1>1, FrameInvHolds, PTL

\* Every body, however long, comes back from its scrambling (formatter/utils.py:78-83).
THEOREM BodyAlwaysComesBack == HeaderSpec => []BodyComesBack
<1>1. FrameInv => BodyComesBack
  BY DEF FrameInv
<1>2. QED
  BY <1>1, FrameInvHolds, PTL
-----------------------------------------------------------------------------
LEMMA EachFacts ==
    ASSUME NEW block, NEW attribute, NEW n \in Nat \ {0}
    PROVE  /\ Each(block, n, attribute) \in Seq({block} \X (0 .. n - 1) \X {attribute})
           /\ Len(Each(block, n, attribute)) = n /\ Each(block, n, attribute) # <<>>
           /\ DOMAIN Each(block, n, attribute) = 1 .. n
           /\ \A i \in 1 .. n : Each(block, n, attribute)[i] = <<block, i - 1, attribute>>
           /\ Range(Each(block, n, attribute)) = {block} \X (0 .. n - 1) \X {attribute}
<1>1. /\ Each(block, n, attribute) \in Seq({block} \X (0 .. n - 1) \X {attribute})
      /\ Len(Each(block, n, attribute)) = n /\ Each(block, n, attribute) # <<>>
      /\ DOMAIN Each(block, n, attribute) = 1 .. n
      /\ \A i \in 1 .. n : Each(block, n, attribute)[i] = <<block, i - 1, attribute>>
  BY DEF Each
<1>2. Range(Each(block, n, attribute)) \subseteq {block} \X (0 .. n - 1) \X {attribute}
  BY <1>1 DEF Range
<1>3. ASSUME NEW place \in {block} \X (0 .. n - 1) \X {attribute}
      PROVE  place \in Range(Each(block, n, attribute))
  <2>1. place = <<block, place[2], attribute>> /\ place[2] \in 0 .. n - 1
    OBVIOUS
  <2>2. place[2] + 1 \in 1 .. n /\ (place[2] + 1) - 1 = place[2]
    BY <2>1
  <2>3. Each(block, n, attribute)[place[2] + 1] = place
    BY <2>1, <2>2, <1>1
  <2>4. QED
    BY <2>2, <2>3, <1>1 DEF Range
<1>4. QED
  BY <1>1, <1>2, <1>3

LEMMA SequenceOf ==
    ASSUME NEW S, NEW T, NEW s \in Seq(S), Range(s) \subseteq T
    PROVE  s \in Seq(T)
BY DEF Range

LEMMA HeadAndTail ==
    ASSUME NEW S, NEW s \in Seq(S), s # <<>>
    PROVE  /\ Tail(s) \in Seq(S) /\ Range(s) = {Head(s)} \cup Range(Tail(s))
           /\ Len(s) = 1 => Range(s) = {Head(s)}
           /\ Len(s) # 1 => Tail(s) # <<>>
<1>1. /\ Len(s) \in Nat /\ Len(s) > 0 /\ DOMAIN s = 1 .. Len(s) /\ Head(s) = s[1]
      /\ Tail(s) \in Seq(S) /\ Len(Tail(s)) = Len(s) - 1 /\ DOMAIN Tail(s) = 1 .. Len(s) - 1
  OBVIOUS
<1>2. \A i \in 1 .. Len(s) - 1 : Tail(s)[i] = s[i + 1]
  BY <1>1
<1>3. ASSUME NEW x \in Range(s)
      PROVE  x \in {Head(s)} \cup Range(Tail(s))
  <2>1. PICK i \in 1 .. Len(s) : s[i] = x
    BY <1>1 DEF Range
  <2>2. CASE i = 1
    BY <2>1, <2>2, <1>1
  <2>3. CASE i # 1
    <3>1. i - 1 \in 1 .. Len(s) - 1 /\ (i - 1) + 1 = i
      BY <2>3, <1>1
    <3>2. Tail(s)[i - 1] = x
      BY <3>1, <2>1, <1>2
    <3>3. QED
      BY <3>1, <3>2, <1>1 DEF Range
  <2>4. QED
    BY <2>2, <2>3
<1>4. ASSUME NEW x \in Range(Tail(s))
      PROVE  x \in Range(s)
  <2>1. PICK i \in 1 .. Len(s) - 1 : Tail(s)[i] = x
    BY <1>1 DEF Range
  <2>2. i + 1 \in 1 .. Len(s) /\ s[i + 1] = x
    BY <2>1, <1>1, <1>2
  <2>3. QED
    BY <2>2, <1>1 DEF Range
<1>5. Head(s) \in Range(s)
  BY <1>1 DEF Range
<1>6. Len(s) = 1 => Range(Tail(s)) = {}
  BY <1>1 DEF Range
<1>7. Len(s) # 1 => Tail(s) # <<>>
  <2>1. Len(s) # 1 => Len(Tail(s)) # 0
    BY <1>1
  <2>2. Len(<<>>) = 0
    OBVIOUS
  <2>3. QED
    BY <2>1, <2>2, Zenon
<1>8. QED
  BY <1>1, <1>3, <1>4, <1>5, <1>6, <1>7

LEMMA ConcatFacts ==
    ASSUME NEW S, NEW s \in Seq(S), NEW t \in Seq(S), s # <<>>
    PROVE  /\ s \o t \in Seq(S) /\ s \o t # <<>>
           /\ Range(s \o t) = Range(s) \cup Range(t)
<1>1. /\ s \o t \in Seq(S) /\ Len(s \o t) = Len(s) + Len(t)
      /\ \A i \in 1 .. Len(s) : (s \o t)[i] = s[i]
      /\ \A i \in 1 .. Len(t) : (s \o t)[Len(s) + i] = t[i]
  OBVIOUS
<1>2. /\ DOMAIN s = 1 .. Len(s) /\ DOMAIN t = 1 .. Len(t) /\ DOMAIN (s \o t) = 1 .. Len(s) + Len(t)
      /\ Len(s) \in Nat /\ Len(t) \in Nat /\ Len(s) > 0
  BY <1>1
<1>3. ASSUME NEW x \in Range(s \o t)
      PROVE  x \in Range(s) \cup Range(t)
  <2>1. PICK i \in 1 .. Len(s) + Len(t) : (s \o t)[i] = x
    BY <1>2 DEF Range
  <2>2. CASE i \in 1 .. Len(s)
    BY <2>1, <2>2, <1>1, <1>2 DEF Range
  <2>3. CASE i \notin 1 .. Len(s)
    <3>1. i - Len(s) \in 1 .. Len(t) /\ Len(s) + (i - Len(s)) = i
      BY <2>3, <1>2
    <3>2. t[i - Len(s)] = x
      BY <3>1, <2>1, <1>1
    <3>3. QED
      BY <3>1, <3>2, <1>2 DEF Range
  <2>4. QED
    BY <2>2, <2>3
<1>4. ASSUME NEW x \in Range(s)
      PROVE  x \in Range(s \o t)
  <2>1. PICK i \in 1 .. Len(s) : s[i] = x
    BY <1>2 DEF Range
  <2>2. (s \o t)[i] = x /\ i \in 1 .. Len(s) + Len(t)
    BY <2>1, <1>1, <1>2
  <2>3. QED
    BY <2>2, <1>2 DEF Range
<1>5. ASSUME NEW x \in Range(t)
      PROVE  x \in Range(s \o t)
  <2>1. PICK i \in 1 .. Len(t) : t[i] = x
    BY <1>2 DEF Range
  <2>2. (s \o t)[Len(s) + i] = x /\ Len(s) + i \in 1 .. Len(s) + Len(t)
    BY <2>1, <1>1, <1>2
  <2>3. QED
    BY <2>2, <1>2 DEF Range
<1>6. QED
  BY <1>1, <1>2, <1>3, <1>4, <1>5

\* What each kind of block has, and the parameter it stands for.
PlaceOf(place, block, n, attributes, parameter) ==
    /\ place \in {block} \X (0 .. n - 1) \X attributes
    /\ ParameterOf(place) = parameter

LEMMA PlaceKinds ==
    ASSUME NEW place \in Places
    PROVE  \/ PlaceOf(place, "xfdm_sync_synchronizers", Antennas, Synchronizer, <<"lower_phy_receiver", place[3]>>)
           \/ PlaceOf(place, "gfdm_receivers", Antennas, Demodulator, <<"lower_phy_receiver", place[3]>>)
           \/ PlaceOf(place, "synchronizer", 1, Synchronizer, <<"phy_layer", place[3]>>)
           \/ PlaceOf(place, "demodulator", 1, Demodulator, <<"phy_layer", place[3]>>)
           \/ PlaceOf(place, "gfdm_short_burst_shaper", 1, {"cycle_interval", "timing_advance"},
                      <<"phy_layer", place[3]>>)
           \/ PlaceOf(place, "gfdm_short_burst_shaper", 1, {"scale"}, <<"phy_layer", "tx_digital_gain">>)
           \/ PlaceOf(place, "uhd_usrp_sink", TxChannels, {"center_freq"}, <<"phy_layer", "carrier_freq">>)
           \/ PlaceOf(place, "uhd_usrp_sink", TxChannels, {"gain"}, <<"phy_layer", "tx_gain">>)
           \/ PlaceOf(place, "uhd_usrp_source", RxChannels, {"center_freq"}, <<"phy_layer", "carrier_freq">>)
           \/ PlaceOf(place, "uhd_usrp_source", RxChannels, {"gain"}, <<"phy_layer", "rx_gain">>)
<1>1. CASE place \in {"xfdm_sync_synchronizers"} \X (0 .. Antennas - 1) \X Synchronizer
  <2>1. place[1] = "xfdm_sync_synchronizers" /\ place[3] \notin {"scale", "center_freq", "gain"}
    BY <1>1 DEF Synchronizer
  <2>2. ParameterOf(place) = <<"lower_phy_receiver", place[3]>>
    BY <2>1 DEF ParameterOf
  <2>3. QED
    BY <1>1, <2>2 DEF PlaceOf
<1>2. CASE place \in {"gfdm_receivers"} \X (0 .. Antennas - 1) \X Demodulator
  <2>1. place[1] = "gfdm_receivers" /\ place[3] \notin {"scale", "center_freq", "gain"}
    BY <1>2 DEF Demodulator
  <2>2. ParameterOf(place) = <<"lower_phy_receiver", place[3]>>
    BY <2>1 DEF ParameterOf
  <2>3. QED
    BY <1>2, <2>2 DEF PlaceOf
<1>3. CASE place \in {"synchronizer"} \X {0} \X Synchronizer
  <2>1. place[1] = "synchronizer" /\ place[3] \notin {"scale", "center_freq", "gain"}
    BY <1>3 DEF Synchronizer
  <2>2. ParameterOf(place) = <<"phy_layer", place[3]>>
    BY <2>1 DEF ParameterOf
  <2>3. QED
    BY <1>3, <2>2 DEF PlaceOf
<1>4. CASE place \in {"demodulator"} \X {0} \X Demodulator
  <2>1. place[1] = "demodulator" /\ place[3] \notin {"scale", "center_freq", "gain"}
    BY <1>4 DEF Demodulator
  <2>2. ParameterOf(place) = <<"phy_layer", place[3]>>
    BY <2>1 DEF ParameterOf
  <2>3. QED
    BY <1>4, <2>2 DEF PlaceOf
<1>5. CASE place \in {"gfdm_short_burst_shaper"} \X {0} \X {"cycle_interval", "timing_advance", "scale"}
  <2>1. place[1] = "gfdm_short_burst_shaper" /\ place[3] \in {"cycle_interval", "timing_advance", "scale"}
    BY <1>5
  <2>2. CASE place[3] = "scale"
    <3>1. ParameterOf(place) = <<"phy_layer", "tx_digital_gain">>
      BY <2>1, <2>2 DEF ParameterOf
    <3>2. QED
      BY <1>5, <2>2, <3>1 DEF PlaceOf
  <2>3. CASE place[3] # "scale"
    <3>1. ParameterOf(place) = <<"phy_layer", place[3]>>
      BY <2>1, <2>3 DEF ParameterOf
    <3>2. QED
      BY <1>5, <2>3, <3>1 DEF PlaceOf
  <2>4. QED
    BY <2>2, <2>3
<1>6. CASE place \in {"uhd_usrp_sink"} \X (0 .. TxChannels - 1) \X {"center_freq", "gain"}
  <2>1. /\ place[1] = "uhd_usrp_sink"
        /\ place[3] = "center_freq" => ParameterOf(place) = <<"phy_layer", "carrier_freq">>
        /\ place[3] = "gain" => ParameterOf(place) = <<"phy_layer", "tx_gain">>
    BY <1>6 DEF ParameterOf
  <2>2. QED
    BY <1>6, <2>1 DEF PlaceOf
<1>7. CASE place \in {"uhd_usrp_source"} \X (0 .. RxChannels - 1) \X {"center_freq", "gain"}
  <2>1. /\ place[1] = "uhd_usrp_source"
        /\ place[3] = "center_freq" => ParameterOf(place) = <<"phy_layer", "carrier_freq">>
        /\ place[3] = "gain" => ParameterOf(place) = <<"phy_layer", "rx_gain">>
    BY <1>7 DEF ParameterOf
  <2>2. QED
    BY <1>7, <2>1 DEF PlaceOf
<1>8. QED
  BY <1>1, <1>2, <1>3, <1>4, <1>5, <1>6, <1>7, Zenon DEF Places

\* The places of a parameter that one kind of block holds are those of that kind.
LEMMA OwnPlacesFacts ==
    /\ \A q \in Synchronizer :
         /\ OwnPlaces(<<"lower_phy_receiver", q>>) = {"xfdm_sync_synchronizers"} \X (0 .. Antennas - 1) \X {q}
         /\ OwnPlaces(<<"phy_layer", q>>) = {"synchronizer"} \X {0} \X {q}
    /\ \A q \in Demodulator :
         /\ OwnPlaces(<<"lower_phy_receiver", q>>) = {"gfdm_receivers"} \X (0 .. Antennas - 1) \X {q}
         /\ OwnPlaces(<<"phy_layer", q>>) = {"demodulator"} \X {0} \X {q}
    /\ \A q \in {"cycle_interval", "timing_advance"} :
         OwnPlaces(<<"phy_layer", q>>) = {"gfdm_short_burst_shaper"} \X {0} \X {q}
    /\ OwnPlaces(<<"phy_layer", "tx_digital_gain">>) = {"gfdm_short_burst_shaper"} \X {0} \X {"scale"}
    /\ OwnPlaces(<<"phy_layer", "carrier_freq">>) =
         ({"uhd_usrp_sink"} \X (0 .. TxChannels - 1) \X {"center_freq"})
         \cup ({"uhd_usrp_source"} \X (0 .. RxChannels - 1) \X {"center_freq"})
    /\ OwnPlaces(<<"phy_layer", "tx_gain">>) = {"uhd_usrp_sink"} \X (0 .. TxChannels - 1) \X {"gain"}
    /\ OwnPlaces(<<"phy_layer", "rx_gain">>) = {"uhd_usrp_source"} \X (0 .. RxChannels - 1) \X {"gain"}
<1>1. ASSUME NEW q \in Synchronizer
      PROVE  /\ OwnPlaces(<<"lower_phy_receiver", q>>) = {"xfdm_sync_synchronizers"} \X (0 .. Antennas - 1) \X {q}
             /\ OwnPlaces(<<"phy_layer", q>>) = {"synchronizer"} \X {0} \X {q}
  <2>1. ASSUME NEW place \in Places
        PROVE  /\ ParameterOf(place) = <<"lower_phy_receiver", q>>
                    => place \in {"xfdm_sync_synchronizers"} \X (0 .. Antennas - 1) \X {q}
               /\ ParameterOf(place) = <<"phy_layer", q>> => place \in {"synchronizer"} \X {0} \X {q}
    BY PlaceKinds DEF PlaceOf, Synchronizer, Demodulator
  <2>2. ASSUME NEW place \in {"xfdm_sync_synchronizers"} \X (0 .. Antennas - 1) \X {q}
        PROVE  place \in Places /\ ParameterOf(place) = <<"lower_phy_receiver", q>>
    BY DEF Places, ParameterOf, Synchronizer
  <2>3. ASSUME NEW place \in {"synchronizer"} \X {0} \X {q}
        PROVE  place \in Places /\ ParameterOf(place) = <<"phy_layer", q>>
    BY DEF Places, ParameterOf, Synchronizer
  <2>4. QED
    BY <2>1, <2>2, <2>3 DEF OwnPlaces
<1>2. ASSUME NEW q \in Demodulator
      PROVE  /\ OwnPlaces(<<"lower_phy_receiver", q>>) = {"gfdm_receivers"} \X (0 .. Antennas - 1) \X {q}
             /\ OwnPlaces(<<"phy_layer", q>>) = {"demodulator"} \X {0} \X {q}
  <2>1. ASSUME NEW place \in Places
        PROVE  /\ ParameterOf(place) = <<"lower_phy_receiver", q>>
                    => place \in {"gfdm_receivers"} \X (0 .. Antennas - 1) \X {q}
               /\ ParameterOf(place) = <<"phy_layer", q>> => place \in {"demodulator"} \X {0} \X {q}
    BY PlaceKinds DEF PlaceOf, Synchronizer, Demodulator
  <2>2. ASSUME NEW place \in {"gfdm_receivers"} \X (0 .. Antennas - 1) \X {q}
        PROVE  place \in Places /\ ParameterOf(place) = <<"lower_phy_receiver", q>>
    BY DEF Places, ParameterOf, Demodulator
  <2>3. ASSUME NEW place \in {"demodulator"} \X {0} \X {q}
        PROVE  place \in Places /\ ParameterOf(place) = <<"phy_layer", q>>
    BY DEF Places, ParameterOf, Demodulator
  <2>4. QED
    BY <2>1, <2>2, <2>3 DEF OwnPlaces
<1>3. ASSUME NEW q \in {"cycle_interval", "timing_advance"}
      PROVE  OwnPlaces(<<"phy_layer", q>>) = {"gfdm_short_burst_shaper"} \X {0} \X {q}
  <2>1. ASSUME NEW place \in Places, ParameterOf(place) = <<"phy_layer", q>>
        PROVE  place \in {"gfdm_short_burst_shaper"} \X {0} \X {q}
    BY <2>1, PlaceKinds DEF PlaceOf, Synchronizer, Demodulator
  <2>2. ASSUME NEW place \in {"gfdm_short_burst_shaper"} \X {0} \X {q}
        PROVE  place \in Places /\ ParameterOf(place) = <<"phy_layer", q>>
    BY DEF Places, ParameterOf
  <2>3. QED
    BY <2>1, <2>2 DEF OwnPlaces
<1>4. OwnPlaces(<<"phy_layer", "tx_digital_gain">>) = {"gfdm_short_burst_shaper"} \X {0} \X {"scale"}
  <2>1. ASSUME NEW place \in Places, ParameterOf(place) = <<"phy_layer", "tx_digital_gain">>
        PROVE  place \in {"gfdm_short_burst_shaper"} \X {0} \X {"scale"}
    BY <2>1, PlaceKinds DEF PlaceOf, Synchronizer, Demodulator
  <2>2. ASSUME NEW place \in {"gfdm_short_burst_shaper"} \X {0} \X {"scale"}
        PROVE  place \in Places /\ ParameterOf(place) = <<"phy_layer", "tx_digital_gain">>
    BY DEF Places, ParameterOf
  <2>3. QED
    BY <2>1, <2>2 DEF OwnPlaces
<1>5. OwnPlaces(<<"phy_layer", "carrier_freq">>) =
         ({"uhd_usrp_sink"} \X (0 .. TxChannels - 1) \X {"center_freq"})
         \cup ({"uhd_usrp_source"} \X (0 .. RxChannels - 1) \X {"center_freq"})
  <2>1. ASSUME NEW place \in Places, ParameterOf(place) = <<"phy_layer", "carrier_freq">>
        PROVE  \/ place \in {"uhd_usrp_sink"} \X (0 .. TxChannels - 1) \X {"center_freq"}
               \/ place \in {"uhd_usrp_source"} \X (0 .. RxChannels - 1) \X {"center_freq"}
    BY <2>1, PlaceKinds DEF PlaceOf, Synchronizer, Demodulator
  <2>2. ASSUME NEW place \in {"uhd_usrp_sink"} \X (0 .. TxChannels - 1) \X {"center_freq"}
        PROVE  place \in Places /\ ParameterOf(place) = <<"phy_layer", "carrier_freq">>
    BY DEF Places, ParameterOf
  <2>3. ASSUME NEW place \in {"uhd_usrp_source"} \X (0 .. RxChannels - 1) \X {"center_freq"}
        PROVE  place \in Places /\ ParameterOf(place) = <<"phy_layer", "carrier_freq">>
    BY DEF Places, ParameterOf
  <2>4. QED
    BY <2>1, <2>2, <2>3 DEF OwnPlaces
<1>6. OwnPlaces(<<"phy_layer", "tx_gain">>) = {"uhd_usrp_sink"} \X (0 .. TxChannels - 1) \X {"gain"}
  <2>1. ASSUME NEW place \in Places, ParameterOf(place) = <<"phy_layer", "tx_gain">>
        PROVE  place \in {"uhd_usrp_sink"} \X (0 .. TxChannels - 1) \X {"gain"}
    BY <2>1, PlaceKinds DEF PlaceOf, Synchronizer, Demodulator
  <2>2. ASSUME NEW place \in {"uhd_usrp_sink"} \X (0 .. TxChannels - 1) \X {"gain"}
        PROVE  place \in Places /\ ParameterOf(place) = <<"phy_layer", "tx_gain">>
    BY DEF Places, ParameterOf
  <2>3. QED
    BY <2>1, <2>2 DEF OwnPlaces
<1>7. OwnPlaces(<<"phy_layer", "rx_gain">>) = {"uhd_usrp_source"} \X (0 .. RxChannels - 1) \X {"gain"}
  <2>1. ASSUME NEW place \in Places, ParameterOf(place) = <<"phy_layer", "rx_gain">>
        PROVE  place \in {"uhd_usrp_source"} \X (0 .. RxChannels - 1) \X {"gain"}
    BY <2>1, PlaceKinds DEF PlaceOf, Synchronizer, Demodulator
  <2>2. ASSUME NEW place \in {"uhd_usrp_source"} \X (0 .. RxChannels - 1) \X {"gain"}
        PROVE  place \in Places /\ ParameterOf(place) = <<"phy_layer", "rx_gain">>
    BY DEF Places, ParameterOf
  <2>3. QED
    BY <2>1, <2>2 DEF OwnPlaces
<1>8. QED
  BY <1>1, <1>2, <1>3, <1>4, <1>5, <1>6, <1>7

\* A setter visits exactly the places of its parameter, the one its getter asks first.
Visits(p) ==
    /\ PlacesOf(p) \in Seq(Places) /\ PlacesOf(p) # <<>>
    /\ Range(PlacesOf(p)) = OwnPlaces(p)
    /\ AskedPlace(p) = Head(PlacesOf(p))

LEMMA VisitsEach ==
    ASSUME NEW p, NEW block, NEW attribute, NEW n \in Nat \ {0},
           PlacesOf(p) = Each(block, n, attribute),
           OwnPlaces(p) = {block} \X (0 .. n - 1) \X {attribute},
           AskedPlace(p) = <<block, 0, attribute>>
    PROVE  Visits(p)
<1> DEFINE each == Each(block, n, attribute)
<1>1. /\ each \in Seq({block} \X (0 .. n - 1) \X {attribute}) /\ each # <<>>
      /\ Range(each) = OwnPlaces(p)
      /\ 1 \in 1 .. n => each[1] = <<block, 1 - 1, attribute>>
  BY EachFacts
<1>2. OwnPlaces(p) \subseteq Places
  BY DEF OwnPlaces
<1> HIDE DEF each
<1>3. each \in Seq(Places)
  BY <1>1, <1>2, SequenceOf
<1>4. Head(each) = <<block, 0, attribute>>
  <2>1. Head(each) = each[1]
    BY <1>1
  <2>2. 1 \in 1 .. n /\ 1 - 1 = 0
    OBVIOUS
  <2>3. QED
    BY <2>1, <2>2, <1>1
<1>5. PlacesOf(p) = each
  BY DEF each
<1>6. QED
  BY <1>1, <1>3, <1>4, <1>5 DEF Visits

LEMMA VisitsOne ==
    ASSUME NEW p, NEW place,
           PlacesOf(p) = <<place>>, OwnPlaces(p) = {place}, AskedPlace(p) = place
    PROVE  Visits(p)
<1>1. place \in Places
  BY DEF OwnPlaces
<1>2. Range(<<place>>) = {place} /\ Head(<<place>>) = place /\ <<place>> # <<>>
  BY DEF Range
<1>3. QED
  BY <1>1, <1>2 DEF Visits

\* What the setters of a device visit (phy_layer.py:587-605).
LEMMA UsrpVisits ==
    /\ PlacesOf(<<"phy_layer", "carrier_freq">>) =
         Each("uhd_usrp_sink", TxChannels, "center_freq") \o Each("uhd_usrp_source", RxChannels, "center_freq")
    /\ PlacesOf(<<"phy_layer", "tx_gain">>) = Each("uhd_usrp_sink", TxChannels, "gain")
    /\ PlacesOf(<<"phy_layer", "rx_gain">>) = Each("uhd_usrp_source", RxChannels, "gain")
<1>1. ASSUME NEW q \in Usrp
      PROVE  PlacesOf(<<"phy_layer", q>>) = UsrpPlaces(q)
  <2>1. q \notin BurstShaper
    BY DEF Usrp, BurstShaper
  <2>2. QED
    BY <2>1 DEF PlacesOf
<1>2. /\ UsrpPlaces("carrier_freq") =
           Each("uhd_usrp_sink", TxChannels, "center_freq") \o Each("uhd_usrp_source", RxChannels, "center_freq")
      /\ UsrpPlaces("tx_gain") = Each("uhd_usrp_sink", TxChannels, "gain")
      /\ UsrpPlaces("rx_gain") = Each("uhd_usrp_source", RxChannels, "gain")
  BY DEF UsrpPlaces
<1>3. "carrier_freq" \in Usrp /\ "tx_gain" \in Usrp /\ "rx_gain" \in Usrp
  BY DEF Usrp
<1>4. QED
  BY <1>1, <1>2, <1>3

LEMMA VisitsCarrier == Visits(<<"phy_layer", "carrier_freq">>)
<1> DEFINE p == <<"phy_layer", "carrier_freq">>
           sink == Each("uhd_usrp_sink", TxChannels, "center_freq")
           source == Each("uhd_usrp_source", RxChannels, "center_freq")
           sinks == {"uhd_usrp_sink"} \X (0 .. TxChannels - 1) \X {"center_freq"}
           sources == {"uhd_usrp_source"} \X (0 .. RxChannels - 1) \X {"center_freq"}
<1>1. PlacesOf(p) = sink \o source
  BY UsrpVisits
<1>2. AskedPlace(p) = <<"uhd_usrp_sink", 0, "center_freq">>
  BY DEF AskedPlace, Synchronizer, Demodulator, BurstShaper
<1>3. OwnPlaces(p) = sinks \cup sources
  BY OwnPlacesFacts
<1>4. TxChannels \in Nat \ {0} /\ RxChannels \in Nat \ {0}
  BY ControlAssumption
<1>5. /\ sink \in Seq(sinks) /\ sink # <<>> /\ Range(sink) = sinks
      /\ 1 \in 1 .. TxChannels => sink[1] = <<"uhd_usrp_sink", 1 - 1, "center_freq">>
  BY <1>4, EachFacts
<1>6. source \in Seq(sources) /\ Range(source) = sources
  BY <1>4, EachFacts
<1> HIDE DEF p, sink, source, sinks, sources
<1>7. sinks \subseteq Places /\ sources \subseteq Places
  BY <1>3 DEF OwnPlaces
<1>8. sink \in Seq(Places) /\ source \in Seq(Places)
  BY <1>5, <1>6, <1>7, SequenceOf
<1>9. sink \o source \in Seq(Places) /\ sink \o source # <<>> /\ Range(sink \o source) = sinks \cup sources
  BY <1>5, <1>6, <1>8, ConcatFacts
<1>10. Head(sink \o source) = sink[1]
  BY <1>5, <1>8
<1>11. 1 \in 1 .. TxChannels /\ 1 - 1 = 0
  BY <1>4
<1>12. Visits(p)
  BY <1>1, <1>2, <1>3, <1>5, <1>9, <1>10, <1>11 DEF Visits
<1>13. QED
  BY <1>12 DEF p

LEMMA AskedOfSynchronizer ==
    ASSUME NEW q \in Synchronizer
    PROVE  /\ AskedPlace(<<"lower_phy_receiver", q>>) = <<"xfdm_sync_synchronizers", 0, q>>
           /\ AskedPlace(<<"phy_layer", q>>) = <<"synchronizer", 0, q>>
<1>1. /\ q \notin Demodulator /\ q \notin BurstShaper
      /\ q \notin {"tx_digital_gain", "carrier_freq", "tx_gain", "rx_gain"}
  BY DEF Synchronizer, Demodulator, BurstShaper
<1>2. QED
  BY <1>1 DEF AskedPlace

LEMMA PlacesFacts ==
    ASSUME NEW p \in Parameters
    PROVE  Visits(p)
<1>1. ASSUME NEW q \in Synchronizer, p = <<"lower_phy_receiver", q>>
      PROVE  Visits(p)
  <2>1. PlacesOf(p) = Each("xfdm_sync_synchronizers", Antennas, q)
    BY <1>1 DEF PlacesOf, LowerPlaces
  <2>2. AskedPlace(p) = <<"xfdm_sync_synchronizers", 0, q>>
    BY <1>1, AskedOfSynchronizer
  <2>3. OwnPlaces(p) = {"xfdm_sync_synchronizers"} \X (0 .. Antennas - 1) \X {q}
    BY <1>1, OwnPlacesFacts
  <2>4. QED
    BY <2>1, <2>2, <2>3, ControlAssumption, VisitsEach
<1>2. ASSUME NEW q \in Demodulator, p = <<"lower_phy_receiver", q>>
      PROVE  Visits(p)
  <2>1. q \notin Synchronizer
    BY DEF Demodulator, Synchronizer
  <2>2. PlacesOf(p) = Each("gfdm_receivers", Antennas, q) /\ AskedPlace(p) = <<"gfdm_receivers", 0, q>>
    BY <1>2, <2>1 DEF PlacesOf, LowerPlaces, AskedPlace, Demodulator, BurstShaper
  <2>3. OwnPlaces(p) = {"gfdm_receivers"} \X (0 .. Antennas - 1) \X {q}
    BY <1>2, OwnPlacesFacts
  <2>4. QED
    BY <2>2, <2>3, ControlAssumption, VisitsEach
<1>3. ASSUME NEW q \in Synchronizer, p = <<"phy_layer", q>>
      PROVE  Visits(p)
  <2>1. q \notin Usrp /\ q \notin BurstShaper
    BY DEF Synchronizer, Usrp, BurstShaper
  <2>2. PlacesOf(p) = << <<"synchronizer", 0, q>> >>
    BY <1>3, <2>1 DEF PlacesOf, ReceiverPlaces
  <2>3. AskedPlace(p) = <<"synchronizer", 0, q>>
    BY <1>3, AskedOfSynchronizer
  <2>4. OwnPlaces(p) = {"synchronizer"} \X {0} \X {q}
    BY <1>3, OwnPlacesFacts
  <2>5. OwnPlaces(p) = {<<"synchronizer", 0, q>>}
    BY <2>4
  <2>6. QED
    BY <2>2, <2>3, <2>5, VisitsOne
<1>4. ASSUME NEW q \in Demodulator, p = <<"phy_layer", q>>
      PROVE  Visits(p)
  <2>1. q \notin Synchronizer /\ q \notin Usrp /\ q \notin BurstShaper
    BY DEF Demodulator, Synchronizer, Usrp, BurstShaper
  <2>2. PlacesOf(p) = << <<"demodulator", 0, q>> >>
    BY <1>4, <2>1 DEF PlacesOf, ReceiverPlaces
  <2>3. AskedPlace(p) = <<"demodulator", 0, q>>
    BY <1>4, <2>1 DEF AskedPlace, Demodulator, BurstShaper
  <2>4. OwnPlaces(p) = {"demodulator"} \X {0} \X {q}
    BY <1>4, OwnPlacesFacts
  <2>5. OwnPlaces(p) = {<<"demodulator", 0, q>>}
    BY <2>4
  <2>6. QED
    BY <2>2, <2>3, <2>5, VisitsOne
<1>5. ASSUME NEW q \in {"cycle_interval", "timing_advance"}, p = <<"phy_layer", q>>
      PROVE  Visits(p)
  <2>1. PlacesOf(p) = << <<"gfdm_short_burst_shaper", 0, q>> >>
    BY <1>5 DEF PlacesOf, TransmitterPlaces, Usrp, BurstShaper
  <2>2. AskedPlace(p) = <<"gfdm_short_burst_shaper", 0, q>>
    BY <1>5 DEF AskedPlace, Synchronizer, Demodulator, BurstShaper
  <2>3. OwnPlaces(p) = {"gfdm_short_burst_shaper"} \X {0} \X {q}
    BY <1>5, OwnPlacesFacts
  <2>4. OwnPlaces(p) = {<<"gfdm_short_burst_shaper", 0, q>>}
    BY <2>3
  <2>5. QED
    BY <2>1, <2>2, <2>4, VisitsOne
<1>6. ASSUME p = <<"phy_layer", "tx_digital_gain">>
      PROVE  Visits(p)
  <2>1. PlacesOf(p) = << <<"gfdm_short_burst_shaper", 0, "scale">> >>
    BY <1>6 DEF PlacesOf, TransmitterPlaces, Usrp, BurstShaper
  <2>2. AskedPlace(p) = <<"gfdm_short_burst_shaper", 0, "scale">>
    BY <1>6 DEF AskedPlace, Synchronizer, Demodulator, BurstShaper
  <2>3. OwnPlaces(p) = {"gfdm_short_burst_shaper"} \X {0} \X {"scale"}
    BY <1>6, OwnPlacesFacts
  <2>4. OwnPlaces(p) = {<<"gfdm_short_burst_shaper", 0, "scale">>}
    BY <2>3
  <2>5. QED
    BY <2>1, <2>2, <2>4, VisitsOne
<1>7. ASSUME p = <<"phy_layer", "tx_gain">>
      PROVE  Visits(p)
  <2>1. PlacesOf(p) = Each("uhd_usrp_sink", TxChannels, "gain")
    BY <1>7, UsrpVisits
  <2>2. AskedPlace(p) = <<"uhd_usrp_sink", 0, "gain">>
    BY <1>7 DEF AskedPlace, Synchronizer, Demodulator, BurstShaper
  <2>3. OwnPlaces(p) = {"uhd_usrp_sink"} \X (0 .. TxChannels - 1) \X {"gain"}
    BY <1>7, OwnPlacesFacts
  <2>4. QED
    BY <2>1, <2>2, <2>3, ControlAssumption, VisitsEach
<1>8. ASSUME p = <<"phy_layer", "rx_gain">>
      PROVE  Visits(p)
  <2>1. PlacesOf(p) = Each("uhd_usrp_source", RxChannels, "gain")
    BY <1>8, UsrpVisits
  <2>2. AskedPlace(p) = <<"uhd_usrp_source", 0, "gain">>
    BY <1>8 DEF AskedPlace, Synchronizer, Demodulator, BurstShaper
  <2>3. OwnPlaces(p) = {"uhd_usrp_source"} \X (0 .. RxChannels - 1) \X {"gain"}
    BY <1>8, OwnPlacesFacts
  <2>4. QED
    BY <2>1, <2>2, <2>3, ControlAssumption, VisitsEach
<1>9. \/ \E q \in Synchronizer \cup Demodulator :
           p = <<"lower_phy_receiver", q>> \/ p = <<"phy_layer", q>>
      \/ \E q \in BurstShaper \cup Usrp : p = <<"phy_layer", q>>
  BY DEF Parameters
<1>10. \A q \in BurstShaper \cup Usrp :
         q \in {"cycle_interval", "timing_advance", "tx_digital_gain", "carrier_freq", "tx_gain", "rx_gain"}
  BY DEF BurstShaper, Usrp
<1>11. QED
  BY <1>1, <1>2, <1>3, <1>4, <1>5, <1>6, <1>7, <1>8, <1>9, <1>10, VisitsCarrier

\* During a call: what is left to visit belongs to the parameter, its places have the value of
\* this call or of the one before, and the place the getter asks was set first.
CallInv ==
    LET own == setting.parameter
    IN  /\ setting = [parameter |-> own, left |-> setting.left, old |-> setting.old]
        /\ own \in Parameters
        /\ setting.left \in Seq(Places) /\ setting.left # <<>>
        /\ Range(setting.left) \subseteq OwnPlaces(own)
        /\ \A place \in OwnPlaces(own) : values[place] \in {setting.old, settings[own]}
        /\ \/ values[AskedPlace(own)] = settings[own]
           \/ AskedPlace(own) = Head(setting.left) /\ \A place \in OwnPlaces(own) : values[place] = setting.old

\* A place has the value of the last call of its own setter unless that call has yet to visit it.
ControlInv ==
    /\ DOMAIN values = Places /\ DOMAIN settings = Parameters
    /\ setting # NoSetting => CallInv
    /\ \A p \in Parameters : \A place \in OwnPlaces(p) :
         \/ setting # NoSetting /\ setting.parameter = p /\ place \in Range(setting.left)
         \/ values[place] = settings[p]

LEMMA ControlInvInit ==
    ControlInit => ControlInv
<1> SUFFICES ASSUME ControlInit
             PROVE  ControlInv
  OBVIOUS
<1>1. DOMAIN values = Places /\ DOMAIN settings = Parameters /\ setting = NoSetting
  BY DEF ControlInit
<1>2. ASSUME NEW p \in Parameters, NEW place \in OwnPlaces(p)
      PROVE  values[place] = settings[p]
  BY DEF ControlInit, OwnPlaces
<1>3. QED
  BY <1>1, <1>2 DEF ControlInv

LEMMA CallIsSetting ==
    ASSUME NEW own, NEW left, NEW old
    PROVE  /\ [parameter |-> own, left |-> left, old |-> old] # NoSetting
           /\ [parameter |-> own, left |-> left, old |-> old].parameter = own
           /\ [parameter |-> own, left |-> left, old |-> old].left = left
           /\ [parameter |-> own, left |-> left, old |-> old].old = old
<1>1. DOMAIN [parameter |-> own, left |-> left, old |-> old] = {"parameter", "left", "old"}
      /\ DOMAIN NoSetting = {}
  BY DEF NoSetting
<1>2. QED
  BY <1>1

LEMMA TailOfCall ==
    ASSUME NEW own, NEW left, NEW old, NEW call, call = [parameter |-> own, left |-> left, old |-> old]
    PROVE  [call EXCEPT !.left = Tail(@)] = [parameter |-> own, left |-> Tail(left), old |-> old]
<1>1. \A x : [call EXCEPT !.left = x] = [parameter |-> own, left |-> x, old |-> old]
  OBVIOUS
<1>2. [call EXCEPT !.left = Tail(@)] = [call EXCEPT !.left = Tail(call.left)] /\ call.left = left
  BY Zenon
<1>3. QED
  BY <1>1, <1>2

LEMMA CallSetterKeeps ==
    ControlInv /\ CallSetter => ControlInv'
<1> SUFFICES ASSUME ControlInv, CallSetter
             PROVE  ControlInv'
  OBVIOUS
<1>1. PICK own \in Parameters :
        /\ setting' = [parameter |-> own, left |-> PlacesOf(own), old |-> settings[own]]
        /\ settings' = [settings EXCEPT ![own] = Calls + 1]
        /\ setting = NoSetting /\ values' = values
  BY DEF CallSetter
<1>2. setting' # NoSetting /\ setting'.parameter = own /\ setting'.left = PlacesOf(own) /\ setting'.old = settings[own]
  BY <1>1, CallIsSetting
<1>3. (DOMAIN values = Places /\ DOMAIN settings = Parameters)'
  BY <1>1 DEF ControlInv
<1>4. Visits(own)
  BY PlacesFacts
<1>5. \A p \in Parameters : \A place \in OwnPlaces(p) : values[place] = settings[p]
  BY <1>1 DEF ControlInv
<1>6. CallInv'
  <2>1. \A place \in OwnPlaces(own) : values'[place] = setting'.old
    BY <1>1, <1>2, <1>5
  <2>2. PlacesOf(own) \in Seq(Places) /\ PlacesOf(own) # <<>> /\ Range(PlacesOf(own)) \subseteq OwnPlaces(own)
        /\ AskedPlace(own) = Head(PlacesOf(own))
    BY <1>4 DEF Visits
  <2>3. setting' = [parameter |-> setting'.parameter, left |-> setting'.left, old |-> setting'.old]
    BY <1>1, <1>2
  <2>4. QED
    BY <1>2, <2>1, <2>2, <2>3 DEF CallInv
<1>7. ASSUME NEW p \in Parameters, NEW place \in OwnPlaces(p)
      PROVE  \/ setting'.parameter = p /\ place \in Range(setting'.left)
             \/ values'[place] = settings'[p]
  <2>1. CASE p = own
    BY <2>1, <1>2, <1>4 DEF Visits
  <2>2. CASE p # own
    <3>1. settings'[p] = settings[p]
      BY <2>2, <1>1 DEF ControlInv
    <3>2. values[place] = settings[p]
      BY <1>5
    <3>3. QED
      BY <3>1, <3>2, <1>1
  <2>3. QED
    BY <2>1, <2>2
<1>8. QED
  BY <1>2, <1>3, <1>6, <1>7 DEF ControlInv

LEMMA SetPlaceKeeps ==
    ControlInv /\ SetPlace => ControlInv'
<1> SUFFICES ASSUME ControlInv, SetPlace
             PROVE  ControlInv'
  OBVIOUS
<1> DEFINE left == setting.left
           own == setting.parameter
           old == setting.old
           first == Head(left)
<1>1. /\ setting # NoSetting
      /\ values' = [values EXCEPT ![first] = settings[own]]
      /\ setting' = IF Len(left) = 1 THEN NoSetting ELSE [setting EXCEPT !.left = Tail(@)]
      /\ settings' = settings
  BY DEF SetPlace
<1>2. /\ DOMAIN values = Places /\ DOMAIN settings = Parameters
      /\ setting = [parameter |-> own, left |-> left, old |-> old]
      /\ own \in Parameters /\ left \in Seq(Places) /\ left # <<>>
      /\ Range(left) \subseteq OwnPlaces(own)
      /\ \A place \in OwnPlaces(own) : values[place] \in {old, settings[own]}
      /\ \/ values[AskedPlace(own)] = settings[own]
         \/ AskedPlace(own) = first /\ \A place \in OwnPlaces(own) : values[place] = old
  BY <1>1 DEF ControlInv, CallInv
<1>3. first \in Range(left) /\ first \in Places /\ first \in OwnPlaces(own)
  BY <1>2 DEF Range
<1>4. ParameterOf(first) = own
  BY <1>3 DEF OwnPlaces
<1>5. \/ Len(left) = 1 /\ setting' = NoSetting /\ Range(left) = {first}
      \/ /\ setting' = [parameter |-> own, left |-> Tail(left), old |-> old]
         /\ Tail(left) \in Seq(Places) /\ Tail(left) # <<>>
         /\ Range(left) = {first} \cup Range(Tail(left))
  <2>1. CASE Len(left) = 1
    BY <2>1, <1>1, <1>2, HeadAndTail
  <2>2. CASE Len(left) # 1
    <3>1. setting' = [parameter |-> own, left |-> Tail(left), old |-> old]
      <4>1. [setting EXCEPT !.left = Tail(@)] = [parameter |-> own, left |-> Tail(left), old |-> old]
        <5>1. setting = [parameter |-> own, left |-> left, old |-> old]
          BY <1>2
        <5> HIDE DEF own, left, old
        <5>2. QED
          BY <5>1, TailOfCall
      <4>2. QED
        BY <4>1, <1>1, <2>2
    <3>2. Tail(left) \in Seq(Places) /\ Tail(left) # <<>> /\ Range(left) = {first} \cup Range(Tail(left))
      BY <2>2, <1>2, HeadAndTail
    <3>3. QED
      BY <3>1, <3>2
  <2>3. QED
    BY <2>1, <2>2
<1>6. (DOMAIN values = Places /\ DOMAIN settings = Parameters)'
  BY <1>1, <1>2
<1>7. /\ \A place \in OwnPlaces(own) : values'[place] \in {old, settings'[own]}
      /\ values'[AskedPlace(own)] = settings'[own]
  <2>1. AskedPlace(own) \in OwnPlaces(own)
    <3>1. Visits(own)
      BY <1>2, PlacesFacts
    <3>2. QED
      BY <3>1 DEF Visits, Range
  <2>2. \A place \in OwnPlaces(own) : place \in Places
    BY DEF OwnPlaces
  <2> HIDE DEF own, old, first, left
  <2>3. \A place \in Places : values'[place] = IF place = first THEN settings[own] ELSE values[place]
    BY <1>1, <1>2
  <2>4. QED
    BY <1>1, <1>2, <2>1, <2>2, <2>3
<1> HIDE DEF left, own, old, first
<1>8. setting' # NoSetting => CallInv'
  <2> SUFFICES ASSUME setting' # NoSetting
               PROVE  CallInv'
    OBVIOUS
  <2>1. /\ setting' = [parameter |-> own, left |-> Tail(left), old |-> old]
        /\ Tail(left) \in Seq(Places) /\ Tail(left) # <<>> /\ Range(Tail(left)) \subseteq OwnPlaces(own)
    BY <1>5, <1>2
  <2>2. setting'.parameter = own /\ setting'.left = Tail(left) /\ setting'.old = old
    BY <2>1, CallIsSetting
  <2>3. QED
    BY <2>1, <2>2, <1>2, <1>7 DEF CallInv
<1>9. ASSUME NEW p \in Parameters, NEW place \in OwnPlaces(p)
      PROVE  \/ setting' # NoSetting /\ setting'.parameter = p /\ place \in Range(setting'.left)
             \/ values'[place] = settings'[p]
  <2>1. ParameterOf(place) = p /\ place \in Places
    BY DEF OwnPlaces
  <2>2. CASE place = first
    BY <2>2, <2>1, <1>4, <1>1, <1>2
  <2>3. CASE place # first
    <3>1. values'[place] = values[place]
      BY <2>3, <1>1
    <3>2. (own = p /\ place \in Range(left)) \/ values[place] = settings[p]
      BY DEF ControlInv, own, left
    <3>3. CASE values[place] = settings[p]
      BY <3>1, <3>3, <1>1
    <3>4. CASE own = p /\ place \in Range(left)
      <4>1. /\ setting' = [parameter |-> own, left |-> Tail(left), old |-> old]
            /\ place \in Range(Tail(left))
        BY <3>4, <2>3, <1>5
      <4>2. setting'.parameter = p /\ setting'.left = Tail(left) /\ setting' # NoSetting
        BY <4>1, <3>4, CallIsSetting
      <4>3. QED
        BY <4>1, <4>2
    <3>5. QED
      BY <3>2, <3>3, <3>4
  <2>4. QED
    BY <2>2, <2>3
<1>10. QED
  BY <1>6, <1>8, <1>9 DEF ControlInv

LEMMA ControlInvGives ==
    ControlInv => GetterSpeaksForAll
<1> SUFFICES ASSUME ControlInv, NEW p \in Parameters
             PROVE  IF setting # NoSetting /\ setting.parameter = p
                    THEN /\ \A place \in OwnPlaces(p) : values[place] \in {setting.old, settings[p]}
                         /\ Got(p) = setting.old => \A place \in OwnPlaces(p) : values[place] = setting.old
                    ELSE /\ \A place \in OwnPlaces(p) : values[place] = settings[p]
                         /\ Got(p) = settings[p]
  BY Zenon DEF GetterSpeaksForAll
<1>1. AskedPlace(p) \in OwnPlaces(p)
  <2>1. Visits(p)
    BY PlacesFacts
  <2>2. QED
    BY <2>1 DEF Visits, Range
<1>2. CASE setting # NoSetting /\ setting.parameter = p
  <2>1. /\ \A place \in OwnPlaces(p) : values[place] \in {setting.old, settings[p]}
        /\ \/ values[AskedPlace(p)] = settings[p]
           \/ \A place \in OwnPlaces(p) : values[place] = setting.old
    BY <1>2 DEF ControlInv, CallInv
  <2>2. Got(p) = setting.old => \A place \in OwnPlaces(p) : values[place] = setting.old
    BY <2>1 DEF Got
  <2>3. QED
    BY <1>2, <2>1, <2>2
<1>3. CASE ~(setting # NoSetting /\ setting.parameter = p)
  <2>1. \A place \in OwnPlaces(p) : values[place] = settings[p]
    BY <1>3 DEF ControlInv
  <2>2. Got(p) = settings[p]
    BY <2>1, <1>1 DEF Got
  <2>3. QED
    BY <1>3, <2>1, <2>2
<1>4. QED
  BY <1>2, <1>3

\* For every number of channels, antennas and calls: a setter visits every block, antenna and
\* channel that stands for its parameter and no other, so that all of them have the value of
\* the last call and the getter returns it; during a call the place that the getter asks is
\* set first (phy_layer.py:538-617, lower_phy_receiver.py:203-243).
THEOREM GettersAlwaysSpeakForAll ==
    ControlSpec => []GetterSpeaksForAll
<1>1. ControlInv /\ [ControlNext]_controlVars => ControlInv'
  <2> SUFFICES ASSUME ControlInv, [ControlNext]_controlVars
               PROVE  ControlInv'
    OBVIOUS
  <2>1. CASE CallSetter
    BY <2>1, CallSetterKeeps
  <2>2. CASE SetPlace
    BY <2>2, SetPlaceKeeps
  <2>3. CASE UNCHANGED controlVars
    BY <2>3 DEF controlVars, ControlInv, CallInv
  <2>4. QED
    BY <2>1, <2>2, <2>3 DEF ControlNext
<1>2. QED
  BY ControlInvInit, <1>1, ControlInvGives, PTL DEF ControlSpec
-----------------------------------------------------------------------------

Members    == [full : Nat, frac : Int, tag : Nat, next : Nat, counter : Nat]
SlotInfos  == [full : Nat, frac : Int, offset : Nat, counter : Nat]
References == [offset : Nat, time : Nat, call : Int]
Slots      == [info : SlotInfos, base : References]

TimeTagTyping ==
    /\ pc \in {"scheduler", "tags", "slots"}
    /\ nitems \in Nat /\ total_items \in Nat
    /\ slots \in Members /\ reference \in References
    /\ published \in Seq(Slots)

\* Where the stream and its slots are.
PlaceInv ==
    /\ nitems <= slots.next
    /\ reference.offset <= slots.tag /\ slots.tag <= slots.next
    /\ slots.next - slots.tag <= TagInterval
    /\ reference = NoReference \/ reference.offset < total_items
    /\ pc = "scheduler" => total_items = nitems
    /\ nitems <= total_items

\* A call has seen a tag and has not yet published the slot on it.
TagPending ==
    /\ pc # "scheduler" /\ reference # NoReference /\ reference.call = nitems
    /\ slots.next = reference.offset /\ nitems <= reference.offset

\* The last slot published against the next: either both have one base and are one interval
\* apart, or the next one is the sample with a new base.
LastSlot(p) ==
    /\ p.base.offset <= p.info.offset
    /\ \/ p.base = reference /\ p.info.offset = slots.tag /\ slots.next = slots.tag + TagInterval
       \/ /\ p.base # reference /\ TagPending
          /\ p.info.offset < nitems /\ nitems <= p.info.offset + TagInterval

\* As long as there is no slot.
FirstSlot ==
    \/ reference = NoReference /\ slots.next = TagInterval
    \/ TagPending /\ nitems <= TagInterval

OrderInv ==
    /\ \A i \in 2 .. Len(published) : InOrder(published[i - 1], published[i])
    /\ \A i \in 1 .. Len(published) :
         published[i].info.offset < IF pc = "slots" THEN total_items ELSE nitems
    /\ published # <<>> => LastSlot(published[Len(published)])

FirstInv ==
    /\ slots.counter = Len(published)
    /\ \A i \in 1 .. Len(published) : published[i].info.counter = i - 1
    /\ published = <<>> => FirstSlot
    /\ published # <<>> => First(published[1])

SlotsInv == TimeTagTyping /\ PlaceInv /\ OrderInv /\ FirstInv

\* The members tell the time of the last slot or tag by the base in force.
TimeFollows(full, frac, offset, base) ==
    /\ full * SampRate + frac = base.time + (offset - base.offset)
    /\ frac \in 0 .. SampRate - 1

TimesInv ==
    /\ TimeFollows(slots.full, slots.frac, slots.tag, reference)
    /\ \A i \in 1 .. Len(published) :
         TimeFollows(published[i].info.full, published[i].info.frac,
                     published[i].info.offset, published[i].base)

LEMMA TimeTagConstants ==
    /\ SampRate \in Nat /\ SampRate > 0 /\ TagInterval \in Nat /\ TagInterval > 0
    /\ ChunkSizes \subseteq Nat /\ \A n \in ChunkSizes : n > 0
    /\ \A time \in RxTimes : time[1] \in Nat /\ time[2] \in Nat /\ time[2] < SampRate
BY TimeTagAssumption

\* What is read of a sequence of slots when one is appended (periodic_time_tag_cc_impl.cc:122).
LEMMA AppendSlot ==
    ASSUME NEW s \in Seq(Slots), NEW p \in Slots
    PROVE  /\ Append(s, p) \in Seq(Slots) /\ Append(s, p) # <<>>
           /\ Len(s) \in Nat /\ Len(Append(s, p)) = Len(s) + 1
           /\ \A i \in 1 .. Len(s) : Append(s, p)[i] = s[i]
           /\ Append(s, p)[Len(s) + 1] = p
OBVIOUS

LEMMA SlotsInvInit == TimeTagInit => SlotsInv
<1> SUFFICES ASSUME TimeTagInit PROVE SlotsInv
  OBVIOUS
<1>1. /\ pc = "scheduler" /\ nitems = 0 /\ total_items = 0 /\ published = <<>>
      /\ slots = [full |-> 0, frac |-> 0, tag |-> 0, next |-> TagInterval, counter |-> 0]
      /\ reference = NoReference /\ NoReference = [offset |-> 0, time |-> 0, call |-> -1]
  BY DEF TimeTagInit, NoReference
<1>2. TimeTagTyping
  BY <1>1, TimeTagConstants DEF TimeTagTyping, Members, References
<1>3. PlaceInv
  BY <1>1, TimeTagConstants DEF PlaceInv
<1>4. Len(published) = 0
  BY <1>1
<1>5. OrderInv
  BY <1>1, <1>4 DEF OrderInv
<1>6. FirstInv
  BY <1>1, <1>4 DEF FirstInv, FirstSlot
<1>7. QED
  BY <1>2, <1>3, <1>5, <1>6 DEF SlotsInv

\* A call begins with more samples (periodic_time_tag_cc_impl.cc:75).
LEMMA BeginWorkKeeps == SlotsInv /\ BeginWork => SlotsInv'
<1> SUFFICES ASSUME SlotsInv, BeginWork PROVE SlotsInv'
  OBVIOUS
<1>1. PICK n \in ChunkSizes : total_items' = nitems + n
  BY DEF BeginWork
<1>2. /\ pc = "scheduler" /\ pc' = "tags"
      /\ UNCHANGED <<nitems, slots, published, reference>>
  BY DEF BeginWork
<1>3. nitems \in Nat /\ n \in Nat /\ n > 0 /\ total_items' \in Nat /\ total_items' > nitems /\ total_items = nitems
  BY <1>1, <1>2, TimeTagConstants DEF SlotsInv, TimeTagTyping, PlaceInv
<1>4. TimeTagTyping'
  BY <1>2, <1>3 DEF SlotsInv, TimeTagTyping
<1>5. PlaceInv'
  <2>1. reference.offset \in Nat
    BY DEF SlotsInv, TimeTagTyping, References
  <2>2. QED
    BY <1>2, <1>3, <2>1 DEF SlotsInv, PlaceInv
<1>6. OrderInv'
  BY <1>2 DEF SlotsInv, OrderInv, LastSlot, InOrder, TagPending
<1>7. FirstInv'
  BY <1>2 DEF SlotsInv, FirstInv, FirstSlot, First, TagPending
<1>8. QED
  BY <1>4, <1>5, <1>6, <1>7 DEF SlotsInv

\* A tag moves the base and the next slot to its sample (periodic_time_tag_cc_impl.cc:93-97).
LEMMA SeeTimeTagKeeps == SlotsInv /\ SeeTimeTag => SlotsInv'
<1> SUFFICES ASSUME SlotsInv, SeeTimeTag PROVE SlotsInv'
  OBVIOUS
<1>1. PICK offset \in nitems .. total_items - 1, time \in RxTimes :
         /\ offset >= reference.offset
         /\ slots' = Rebase(slots, offset, time)
         /\ reference' = [offset |-> offset, time |-> time[1] * SampRate + time[2], call |-> nitems]
  BY DEF SeeTimeTag
<1>2. pc = "tags" /\ UNCHANGED <<pc, nitems, total_items, published>>
  BY DEF SeeTimeTag
<1>3. /\ nitems \in Nat /\ total_items \in Nat /\ slots \in Members /\ reference \in References
      /\ published \in Seq(Slots)
  BY DEF SlotsInv, TimeTagTyping
<1>4. offset \in Nat /\ nitems <= offset /\ offset < total_items
  BY <1>3
<1>5. time[1] * SampRate + time[2] \in Nat
  BY TimeTagConstants
<1>6. slots' = [full |-> time[1], frac |-> time[2], tag |-> offset, next |-> offset, counter |-> slots.counter]
  BY <1>1, <1>3 DEF Rebase, Members
<1>7. /\ slots'.tag = offset /\ slots'.next = offset /\ slots'.counter = slots.counter
      /\ reference'.offset = offset /\ reference'.call = nitems
  BY <1>1, <1>6
<1>8. TimeTagTyping'
  <2>1. slots' \in Members
    BY <1>3, <1>4, <1>6, TimeTagConstants DEF Members
  <2>2. reference' \in References
    BY <1>1, <1>3, <1>4, <1>5 DEF References
  <2>3. QED
    BY <1>2, <1>3, <2>1, <2>2 DEF TimeTagTyping
<1>9. PlaceInv'
  BY <1>2, <1>3, <1>4, <1>7, TimeTagConstants DEF PlaceInv, SlotsInv
<1>10. TagPending'
  <2>1. reference' # NoReference
    BY <1>3, <1>7 DEF NoReference
  <2>2. QED
    BY <2>1, <1>2, <1>4, <1>7 DEF TagPending, NoReference
<1>11. OrderInv'
  <2>1. ASSUME published # <<>>
        PROVE  LastSlot(published[Len(published)])'
    <3> DEFINE p == published[Len(published)]
    <3>1. Len(published) \in 1 .. Len(published) /\ p \in Slots
      BY <1>3, <2>1
    <3>2. p.info.offset < nitems
      BY <1>2, <3>1 DEF SlotsInv, OrderInv
    <3>3. p.base.offset <= p.info.offset
      BY <2>1 DEF SlotsInv, OrderInv, LastSlot
    <3>4. nitems <= p.info.offset + TagInterval
      <4>1. \/ p.info.offset = slots.tag /\ slots.next = slots.tag + TagInterval
            \/ nitems <= p.info.offset + TagInterval
        BY <2>1 DEF SlotsInv, OrderInv, LastSlot
      <4>2. nitems <= slots.next
        BY DEF SlotsInv, PlaceInv
      <4>3. QED
        BY <4>1, <4>2
    <3>5. p.base # reference'
      <4>1. p.base.offset \in Nat /\ p.info.offset \in Nat
        BY <3>1 DEF Slots, SlotInfos, References
      <4>2. p.base.offset < offset
        BY <4>1, <3>2, <3>3, <1>3, <1>4
      <4>3. QED
        BY <4>1, <4>2, <1>4, <1>7
    <3>6. published' = published
      BY <1>2
    <3> HIDE DEF p
    <3>7. /\ p.base.offset <= p.info.offset /\ p.base # reference'
          /\ p.info.offset < nitems' /\ nitems' <= p.info.offset + TagInterval
      BY <3>2, <3>3, <3>4, <3>5, <1>2
    <3>8. QED
      BY <3>6, <3>7, <1>10 DEF LastSlot, p
  <2>2. QED
    BY <1>2, <2>1 DEF SlotsInv, OrderInv, InOrder
<1>12. FirstInv'
  <2>1. ASSUME published = <<>>
        PROVE  nitems <= TagInterval
    <3>1. FirstSlot /\ nitems <= slots.next
      BY <2>1 DEF SlotsInv, FirstInv, PlaceInv
    <3>2. QED
      BY <3>1 DEF FirstSlot
  <2>2. published = <<>> => FirstSlot'
    BY <2>1, <1>2, <1>10 DEF FirstSlot
  <2>3. QED
    BY <2>2, <1>2, <1>7 DEF SlotsInv, FirstInv, First
<1>13. QED
  BY <1>8, <1>9, <1>11, <1>12 DEF SlotsInv

LEMMA EndOfTagsKeeps == SlotsInv /\ EndOfTags => SlotsInv'
<1> SUFFICES ASSUME SlotsInv, EndOfTags PROVE SlotsInv'
  OBVIOUS
<1>1. /\ pc = "tags" /\ pc' = "slots"
      /\ UNCHANGED <<nitems, total_items, slots, published, reference>>
  BY DEF EndOfTags
<1>2. TimeTagTyping' /\ PlaceInv'
  BY <1>1 DEF SlotsInv, TimeTagTyping, PlaceInv
<1>3. \A i \in 1 .. Len(published) : published[i].info.offset < total_items
  <2>1. ASSUME NEW i \in 1 .. Len(published)
        PROVE  published[i].info.offset < total_items
    <3>1. published[i] \in Slots
      BY DEF SlotsInv, TimeTagTyping
    <3>2. published[i].info.offset \in Nat
      BY <3>1 DEF Slots, SlotInfos
    <3>3. published[i].info.offset < nitems /\ nitems <= total_items
      BY <1>1 DEF SlotsInv, OrderInv, PlaceInv
    <3>4. QED
      BY <3>2, <3>3 DEF SlotsInv, TimeTagTyping
  <2>2. QED
    BY <2>1
<1>4. OrderInv'
  BY <1>1, <1>3 DEF SlotsInv, OrderInv, LastSlot, InOrder, TagPending
<1>5. FirstInv'
  BY <1>1 DEF SlotsInv, FirstInv, FirstSlot, First, TagPending
<1>6. QED
  BY <1>2, <1>4, <1>5 DEF SlotsInv

\* A turn of the loop carries at most one second over (periodic_time_tag_cc_impl.cc:106-124).
LEMMA EmitFacts ==
    ASSUME NEW st \in Members, st.tag <= st.next
    PROVE  \E carry \in {0, 1} :
             /\ Emit(st) = [full |-> st.full + carry,
                            frac |-> (st.frac + (st.next - st.tag)) - carry * SampRate,
                            tag |-> st.next, next |-> st.next + TagInterval, counter |-> st.counter + 1]
             /\ carry = 1 <=> st.frac + (st.next - st.tag) >= SampRate
             /\ Emit(st) \in Members
             /\ Info(Emit(st)) = [full |-> st.full + carry,
                                  frac |-> (st.frac + (st.next - st.tag)) - carry * SampRate,
                                  offset |-> st.next, counter |-> st.counter]
             /\ Info(Emit(st)) \in SlotInfos
<1> DEFINE sum == st.frac + (st.next - st.tag)
           carry == IF sum >= SampRate THEN 1 ELSE 0
           frac == sum - carry * SampRate
<1>1. st.full \in Nat /\ st.frac \in Int /\ st.tag \in Nat /\ st.next \in Nat /\ st.counter \in Nat
  BY DEF Members
<1>2. sum \in Int /\ carry \in {0, 1} /\ (carry = 1 <=> sum >= SampRate) /\ frac \in Int /\ st.full + carry \in Nat
  BY <1>1, TimeTagConstants
<1> HIDE DEF sum, carry, frac
<1>3. Emit(st) = [full |-> st.full + carry, frac |-> frac, tag |-> st.next,
                  next |-> st.next + TagInterval, counter |-> st.counter + 1]
  <2>1. Emit(st) = [st EXCEPT !.full = st.full + carry, !.frac = frac, !.tag = st.next,
                             !.next = st.next + TagInterval, !.counter = st.counter + 1]
    BY Zenon DEF Emit, sum, carry, frac
  <2>2. QED
    BY <2>1 DEF Members
<1>4. Emit(st) \in Members
  BY <1>1, <1>2, <1>3, TimeTagConstants DEF Members
<1>5. Info(Emit(st)) = [full |-> st.full + carry, frac |-> frac, offset |-> st.next, counter |-> st.counter]
  <2>1. (st.counter + 1) - 1 = st.counter
    BY <1>1
  <2>2. QED
    BY <1>3, <2>1 DEF Info
<1>6. Info(Emit(st)) \in SlotInfos
  BY <1>1, <1>2, <1>5 DEF SlotInfos
<1>7. frac = (st.frac + (st.next - st.tag)) - carry * SampRate /\ sum = st.frac + (st.next - st.tag)
  BY Zenon DEF sum, frac
<1>8. /\ Emit(st) = [full |-> st.full + carry,
                     frac |-> (st.frac + (st.next - st.tag)) - carry * SampRate,
                     tag |-> st.next, next |-> st.next + TagInterval, counter |-> st.counter + 1]
      /\ carry = 1 <=> st.frac + (st.next - st.tag) >= SampRate
      /\ Info(Emit(st)) = [full |-> st.full + carry,
                           frac |-> (st.frac + (st.next - st.tag)) - carry * SampRate,
                           offset |-> st.next, counter |-> st.counter]
  BY <1>2, <1>3, <1>5, <1>7, Zenon
<1>9. QED
  BY <1>2, <1>4, <1>6, <1>8, Zenon

LEMMA EmitSlotKeeps == SlotsInv /\ EmitSlot => SlotsInv'
<1> SUFFICES ASSUME SlotsInv, EmitSlot PROVE SlotsInv'
  OBVIOUS
<1> DEFINE new == [info |-> Info(Emit(slots)), base |-> reference]
<1>1. /\ pc = "slots" /\ total_items > slots.next
      /\ slots' = Emit(slots) /\ published' = Append(published, new)
      /\ UNCHANGED <<pc, nitems, total_items, reference>>
  BY DEF EmitSlot, Due
<1>2. /\ nitems \in Nat /\ total_items \in Nat /\ slots \in Members /\ reference \in References
      /\ published \in Seq(Slots)
  BY DEF SlotsInv, TimeTagTyping
<1>3. /\ slots.tag \in Nat /\ slots.next \in Nat /\ slots.counter \in Nat /\ reference.offset \in Nat
      /\ nitems <= slots.next /\ reference.offset <= slots.tag /\ slots.tag <= slots.next
  BY <1>2 DEF Members, References, SlotsInv, PlaceInv
<1>4. /\ slots' \in Members /\ slots'.tag = slots.next /\ slots'.next = slots.next + TagInterval
      /\ slots'.counter = slots.counter + 1
      /\ new \in Slots /\ new.info.offset = slots.next /\ new.info.counter = slots.counter
      /\ new.base = reference
  BY <1>1, <1>2, <1>3, EmitFacts DEF Slots
<1> HIDE DEF new
<1>5. /\ published' \in Seq(Slots) /\ published' # <<>>
      /\ Len(published) \in Nat /\ Len(published') = Len(published) + 1
      /\ \A i \in 1 .. Len(published) : published'[i] = published[i]
      /\ published'[Len(published) + 1] = new
  BY <1>1, <1>2, <1>4, AppendSlot
<1>6. TimeTagTyping'
  BY <1>1, <1>2, <1>4, <1>5 DEF TimeTagTyping
<1>7. PlaceInv'
  BY <1>1, <1>2, <1>3, <1>4, TimeTagConstants, SMTT(30) DEF SlotsInv, PlaceInv
<1>8. OrderInv'
  <2>1. ASSUME NEW i \in 2 .. Len(published')
        PROVE  InOrder(published'[i - 1], published'[i])
    <3>1. CASE i \in 2 .. Len(published)
      <4>1. i - 1 \in 1 .. Len(published) /\ i \in 1 .. Len(published)
        BY <3>1, <1>5
      <4>2. QED
        BY <3>1, <4>1, <1>5 DEF SlotsInv, OrderInv
    <3>2. CASE i = Len(published) + 1
      <4> DEFINE last == published[Len(published)]
      <4>1. Len(published) \in 1 .. Len(published) /\ i - 1 = Len(published)
        BY <3>2, <2>1, <1>5
      <4>2. published'[i - 1] = last /\ published'[i] = new
        BY <3>2, <4>1, <1>5
      <4>3. published # <<>>
        BY <4>1
      <4>4. LastSlot(last)
        BY <4>3 DEF SlotsInv, OrderInv
      <4> HIDE DEF last
      <4>5. InOrder(last, new)
        BY <4>4, <1>4 DEF LastSlot, InOrder, TagPending
      <4>6. QED
        BY <4>2, <4>5
    <3>3. QED
      BY <2>1, <3>1, <3>2, <1>5
  <2>2. ASSUME NEW i \in 1 .. Len(published')
        PROVE  published'[i].info.offset < total_items'
    <3>1. CASE i \in 1 .. Len(published)
      BY <3>1, <1>1, <1>5 DEF SlotsInv, OrderInv
    <3>2. CASE i = Len(published) + 1
      BY <3>2, <1>1, <1>3, <1>4, <1>5
    <3>3. QED
      BY <2>2, <3>1, <3>2, <1>5
  <2>3. LastSlot(published[Len(published)])'
    <3>1. /\ new.base.offset <= new.info.offset
          /\ new.base = reference' /\ new.info.offset = slots'.tag
          /\ slots'.next = slots'.tag + TagInterval
      BY <1>1, <1>3, <1>4
    <3>2. published'[Len(published')] = new
      BY <1>5
    <3>3. QED
      BY <3>1, <3>2 DEF LastSlot
  <2>4. QED
    BY <2>1, <2>2, <2>3, <1>1 DEF OrderInv, InOrder
<1>9. FirstInv'
  <2>1. slots.counter = Len(published)
    BY DEF SlotsInv, FirstInv
  <2>2. slots'.counter = Len(published')
    BY <2>1, <1>4, <1>5
  <2>3. ASSUME NEW i \in 1 .. Len(published')
        PROVE  published'[i].info.counter = i - 1
    <3>1. CASE i \in 1 .. Len(published)
      BY <3>1, <1>5 DEF SlotsInv, FirstInv
    <3>2. CASE i = Len(published) + 1
      BY <3>2, <2>1, <1>4, <1>5
    <3>3. QED
      BY <2>3, <3>1, <3>2, <1>5
  <2>4. First(published'[1])
    <3>1. CASE published = <<>>
      <4>1. published'[1] = new
        BY <3>1, <1>5
      <4>2. FirstSlot
        BY <3>1 DEF SlotsInv, FirstInv
      <4>3. First(new)
        BY <4>2, <1>4 DEF FirstSlot, TagPending, First
      <4>4. QED
        BY <4>1, <4>3
    <3>2. CASE published # <<>>
      <4>1. First(published[1])
        BY <3>2 DEF SlotsInv, FirstInv
      <4>2. 1 \in 1 .. Len(published)
        BY <3>2, <1>2
      <4>3. published'[1] = published[1]
        BY <4>2, <1>5
      <4>4. QED
        BY <4>1, <4>3
    <3>3. QED
      BY <3>1, <3>2
  <2>5. QED
    BY <2>2, <2>3, <2>4, <1>5 DEF FirstInv, First
<1>10. QED
  BY <1>6, <1>7, <1>8, <1>9 DEF SlotsInv

LEMMA ReturnWorkKeeps == SlotsInv /\ ReturnWork => SlotsInv'
<1> SUFFICES ASSUME SlotsInv, ReturnWork PROVE SlotsInv'
  OBVIOUS
<1>1. /\ pc = "slots" /\ pc' = "scheduler" /\ nitems' = total_items /\ ~(total_items > slots.next)
      /\ UNCHANGED <<total_items, slots, published, reference>>
  BY DEF ReturnWork, Due
<1>2. /\ nitems \in Nat /\ total_items \in Nat /\ slots \in Members /\ reference \in References
      /\ slots.next \in Nat /\ reference.offset \in Nat /\ total_items <= slots.next
  BY <1>1 DEF SlotsInv, TimeTagTyping, Members, References
<1>3. TimeTagTyping'
  BY <1>1, <1>2 DEF SlotsInv, TimeTagTyping
<1>4. PlaceInv'
  BY <1>1, <1>2 DEF SlotsInv, PlaceInv
<1>5. ~TagPending
  <2>1. SUFFICES ASSUME TagPending PROVE FALSE
    OBVIOUS
  <2>2. reference.offset < total_items
    BY <2>1 DEF TagPending, SlotsInv, PlaceInv
  <2>3. QED
    BY <2>1, <2>2, <1>2 DEF TagPending
<1>6. OrderInv'
  <2>1. ASSUME published # <<>>
        PROVE  LastSlot(published[Len(published)])'
    <3> DEFINE p == published[Len(published)]
    <3>1. LastSlot(p)
      BY <2>1 DEF SlotsInv, OrderInv
    <3>2. Len(published) \in 1 .. Len(published) /\ p \in Slots
      BY <2>1 DEF SlotsInv, TimeTagTyping
    <3>3. p.info.offset \in Nat
      BY <3>2 DEF Slots, SlotInfos
    <3>4. p.base = reference /\ p.info.offset = slots.tag /\ slots.next = slots.tag + TagInterval
      BY <3>1, <1>5 DEF LastSlot
    <3>5. p.base.offset <= p.info.offset
      BY <3>1 DEF LastSlot
    <3>6. QED
      BY <3>4, <3>5, <1>1 DEF LastSlot
  <2>2. QED
    BY <1>1, <2>1 DEF SlotsInv, OrderInv, InOrder
<1>7. FirstInv'
  BY <1>1, <1>5 DEF SlotsInv, FirstInv, FirstSlot, First
<1>8. QED
  BY <1>3, <1>4, <1>6, <1>7 DEF SlotsInv

LEMMA SlotsInvStep == SlotsInv /\ [TimeTagNext]_timeVars => SlotsInv'
<1> SUFFICES ASSUME SlotsInv, [TimeTagNext]_timeVars PROVE SlotsInv'
  OBVIOUS
<1>1. CASE BeginWork
  BY <1>1, BeginWorkKeeps
<1>2. CASE WrongRate
  BY <1>2 DEF WrongRate, SlotsInv, TimeTagTyping, PlaceInv, OrderInv, LastSlot, InOrder,
            FirstInv, FirstSlot, First, TagPending
<1>3. CASE SeeTimeTag
  BY <1>3, SeeTimeTagKeeps
<1>4. CASE EndOfTags
  BY <1>4, EndOfTagsKeeps
<1>5. CASE EmitSlot
  BY <1>5, EmitSlotKeeps
<1>6. CASE ReturnWork
  BY <1>6, ReturnWorkKeeps
<1>7. CASE UNCHANGED timeVars
  BY <1>7 DEF timeVars, SlotsInv, TimeTagTyping, PlaceInv, OrderInv, LastSlot, InOrder,
            FirstInv, FirstSlot, First, TagPending
<1>8. QED
  BY <1>1, <1>2, <1>3, <1>4, <1>5, <1>6, <1>7 DEF TimeTagNext

LEMMA SlotsInvGives == SlotsInv => SlotsComplete
<1> SUFFICES ASSUME SlotsInv PROVE SlotsComplete
  OBVIOUS
<1>1. /\ \A i \in 2 .. Len(published) : InOrder(published[i - 1], published[i])
      /\ \A i \in 1 .. Len(published) : published[i].info.counter = i - 1
      /\ published # <<>> => First(published[1])
      /\ DOMAIN published = 1 .. Len(published)
  BY DEF SlotsInv, OrderInv, FirstInv, TimeTagTyping
<1>2. ASSUME pc = "scheduler"
      PROVE  /\ \A i \in DOMAIN published : published[i].info.offset < nitems
             /\ published = <<>> => reference = NoReference /\ nitems <= TagInterval
             /\ published # <<>> =>
                  /\ published[Len(published)].base = reference
                  /\ nitems <= published[Len(published)].info.offset + TagInterval
  <2>1. slots.next \in Nat /\ nitems \in Nat /\ nitems <= slots.next /\ ~TagPending
    BY <1>2 DEF SlotsInv, TimeTagTyping, PlaceInv, Members, TagPending
  <2>2. \A i \in DOMAIN published : published[i].info.offset < nitems
    BY <1>1, <1>2 DEF SlotsInv, OrderInv
  <2>3. published = <<>> => reference = NoReference /\ nitems <= TagInterval
    BY <2>1 DEF SlotsInv, FirstInv, FirstSlot
  <2>4. published # <<>> =>
          /\ published[Len(published)].base = reference
          /\ nitems <= published[Len(published)].info.offset + TagInterval
    BY <2>1 DEF SlotsInv, OrderInv, LastSlot
  <2>5. QED
    BY <2>2, <2>3, <2>4
<1>3. QED
  BY <1>1, <1>2 DEF SlotsComplete

\* However the scheduler cuts the stream, for all intervals and tags: slots are left out only
\* in a call that sees an rx_time tag, those due in it before its last tag and on its other
\* tags; all others are published once, in order, and numbered without gaps
\* (periodic_time_tag_cc_impl.cc:91-125).
THEOREM SlotsAlwaysComplete == TimeTagSpec => []SlotsComplete
BY SlotsInvInit, SlotsInvStep, SlotsInvGives, PTL DEF TimeTagSpec
-----------------------------------------------------------------------------
\* The time of the next slot by the base in force, if an interval is at most a second.
LEMMA EmitTime ==
    ASSUME TagInterval <= SampRate,
           NEW st \in Members, NEW base \in References,
           st.tag <= st.next, st.next - st.tag <= TagInterval,
           TimeFollows(st.full, st.frac, st.tag, base)
    PROVE  /\ TimeFollows(Emit(st).full, Emit(st).frac, Emit(st).tag, base)
           /\ TimeFollows(Info(Emit(st)).full, Info(Emit(st)).frac, Info(Emit(st)).offset, base)
<1>1. PICK carry \in {0, 1} :
        /\ Emit(st) = [full |-> st.full + carry,
                       frac |-> (st.frac + (st.next - st.tag)) - carry * SampRate,
                       tag |-> st.next, next |-> st.next + TagInterval, counter |-> st.counter + 1]
        /\ carry = 1 <=> st.frac + (st.next - st.tag) >= SampRate
        /\ Info(Emit(st)) = [full |-> st.full + carry,
                             frac |-> (st.frac + (st.next - st.tag)) - carry * SampRate,
                             offset |-> st.next, counter |-> st.counter]
  BY EmitFacts
<1> DEFINE full == st.full + carry
           frac == (st.frac + (st.next - st.tag)) - carry * SampRate
<1>2. /\ st.full \in Nat /\ st.frac \in Int /\ st.tag \in Nat /\ st.next \in Nat
      /\ base.offset \in Nat /\ base.time \in Nat
  BY DEF Members, References
<1>3. st.full * SampRate \in Int /\ st.frac \in 0 .. SampRate - 1
  BY <1>2, TimeTagConstants DEF TimeFollows
<1>4. st.full * SampRate + st.frac = base.time + (st.tag - base.offset)
  BY DEF TimeFollows
<1>5. /\ st.full * SampRate \in Int /\ SampRate \in Int /\ st.frac \in Int /\ st.tag \in Int
      /\ st.next \in Int /\ base.time \in Int /\ base.offset \in Int
  BY <1>2, <1>3, TimeTagConstants
<1> DEFINE product == st.full * SampRate
<1>6. CASE carry = 0
  <2>1. full = st.full /\ frac = st.frac + (st.next - st.tag)
    BY <1>6, <1>2, TimeTagConstants
  <2>2. frac \in 0 .. SampRate - 1
    BY <2>1, <1>1, <1>2, <1>3, <1>6, TimeTagConstants
  <2>3. st.full * SampRate + (st.frac + (st.next - st.tag)) = base.time + (st.next - base.offset)
    <3>1. product \in Int /\ product + st.frac = base.time + (st.tag - base.offset)
      BY <1>4, <1>5
    <3> HIDE DEF product
    <3>2. product + (st.frac + (st.next - st.tag)) = base.time + (st.next - base.offset)
      BY <3>1, <1>5
    <3>3. QED
      BY <3>2, Zenon DEF product
  <2> HIDE DEF full, frac
  <2>4. full * SampRate + frac = base.time + (st.next - base.offset)
    BY <2>1, <2>3, Zenon
  <2>5. TimeFollows(full, frac, st.next, base)
    BY <2>2, <2>4 DEF TimeFollows
  <2>6. QED
    BY <2>5, <1>1 DEF full, frac
<1>7. CASE carry = 1
  <2>1. /\ frac = (st.frac + (st.next - st.tag)) - SampRate
        /\ full * SampRate = st.full * SampRate + SampRate
    BY <1>7, <1>2, TimeTagConstants
  <2>2. frac \in 0 .. SampRate - 1
    BY <2>1, <1>1, <1>2, <1>3, <1>7, TimeTagConstants
  <2>3. (st.full * SampRate + SampRate) + ((st.frac + (st.next - st.tag)) - SampRate)
          = base.time + (st.next - base.offset)
    <3>1. product \in Int /\ product + st.frac = base.time + (st.tag - base.offset)
      BY <1>4, <1>5
    <3> HIDE DEF product
    <3>2. (product + SampRate) + ((st.frac + (st.next - st.tag)) - SampRate)
            = base.time + (st.next - base.offset)
      BY <3>1, <1>5
    <3>3. QED
      BY <3>2, Zenon DEF product
  <2> HIDE DEF full, frac
  <2>4. full * SampRate + frac = base.time + (st.next - base.offset)
    BY <2>1, <2>3, Zenon
  <2>5. TimeFollows(full, frac, st.next, base)
    BY <2>2, <2>4 DEF TimeFollows
  <2>6. QED
    BY <2>5, <1>1 DEF full, frac
<1>8. QED
  BY <1>6, <1>7

LEMMA TimesInvStep ==
    ASSUME TagInterval <= SampRate
    PROVE  SlotsInv /\ TimesInv /\ [TimeTagNext]_timeVars => TimesInv'
<1> SUFFICES ASSUME SlotsInv, TimesInv, [TimeTagNext]_timeVars PROVE TimesInv'
  OBVIOUS
<1>1. CASE UNCHANGED <<slots, published, reference>>
  BY <1>1 DEF TimesInv
<1>2. CASE SeeTimeTag
  <2>1. PICK offset \in nitems .. total_items - 1, time \in RxTimes :
           /\ slots' = Rebase(slots, offset, time)
           /\ reference' = [offset |-> offset, time |-> time[1] * SampRate + time[2], call |-> nitems]
           /\ published' = published
    BY <1>2 DEF SeeTimeTag
  <2>2. slots'.full = time[1] /\ slots'.frac = time[2] /\ slots'.tag = offset
    BY <2>1 DEF Rebase, SlotsInv, TimeTagTyping, Members
  <2>3. reference'.offset = offset /\ reference'.time = time[1] * SampRate + time[2]
    BY <2>1
  <2>4. time[1] * SampRate + time[2] \in Int /\ offset \in Int /\ time[2] \in 0 .. SampRate - 1
    <3>1. nitems \in Nat /\ total_items \in Nat
      BY DEF SlotsInv, TimeTagTyping
    <3>2. offset \in Int
      BY <3>1
    <3>3. time[1] \in Nat /\ time[2] \in Nat /\ time[2] < SampRate /\ SampRate \in Nat
      BY TimeTagConstants
    <3>4. time[1] * SampRate + time[2] \in Int
      BY <3>3
    <3>5. time[2] \in 0 .. SampRate - 1
      BY <3>3
    <3>6. QED
      BY <3>2, <3>4, <3>5
  <2>5. \A t, o \in Int : t = t + (o - o)
    OBVIOUS
  <2>6. time[1] * SampRate + time[2] = (time[1] * SampRate + time[2]) + (offset - offset)
    BY <2>4, <2>5, Zenon
  <2>7. TimeFollows(slots'.full, slots'.frac, slots'.tag, reference')
    BY <2>2, <2>3, <2>4, <2>6, Zenon DEF TimeFollows
  <2>8. QED
    BY <2>1, <2>7 DEF TimesInv
<1>3. CASE EmitSlot
  <2> DEFINE new == [info |-> Info(Emit(slots)), base |-> reference]
  <2>1. slots' = Emit(slots) /\ published' = Append(published, new) /\ reference' = reference
    BY <1>3 DEF EmitSlot
  <2>2. /\ slots \in Members /\ reference \in References /\ published \in Seq(Slots)
        /\ slots.tag <= slots.next /\ slots.next - slots.tag <= TagInterval
    BY DEF SlotsInv, TimeTagTyping, PlaceInv
  <2>3. TimeFollows(slots.full, slots.frac, slots.tag, reference)
    BY DEF TimesInv
  <2>4. /\ TimeFollows(slots'.full, slots'.frac, slots'.tag, reference)
        /\ TimeFollows(new.info.full, new.info.frac, new.info.offset, new.base)
    BY <2>1, <2>2, <2>3, EmitTime
  <2>5. new \in Slots
    BY <2>2, EmitFacts DEF Slots
  <2> HIDE DEF new
  <2>6. /\ Len(published) \in Nat /\ Len(published') = Len(published) + 1
        /\ \A i \in 1 .. Len(published) : published'[i] = published[i]
        /\ published'[Len(published) + 1] = new
    BY <2>1, <2>2, <2>5, AppendSlot
  <2>7. ASSUME NEW i \in 1 .. Len(published')
        PROVE  TimeFollows(published'[i].info.full, published'[i].info.frac,
                           published'[i].info.offset, published'[i].base)
    <3>1. CASE i \in 1 .. Len(published)
      BY <3>1, <2>6 DEF TimesInv
    <3>2. CASE i = Len(published) + 1
      BY <3>2, <2>4, <2>6
    <3>3. QED
      BY <2>7, <3>1, <3>2, <2>6
  <2>8. QED
    BY <2>1, <2>4, <2>7 DEF TimesInv
<1>4. QED
  BY <1>1, <1>2, <1>3 DEF TimeTagNext, BeginWork, WrongRate, EndOfTags, ReturnWork, timeVars

\* For slots of at most a second, the time published for each is that of the rx_time tag in
\* force plus the samples since (periodic_time_tag_cc_impl.cc:106-115).
THEOREM SlotTimesAlwaysFollowReference ==
    ASSUME TagInterval <= SampRate
    PROVE  TimeTagSpec => []SlotTimesFollowReference
<1>1. TimeTagInit => TimesInv
  <2> SUFFICES ASSUME TimeTagInit PROVE TimesInv
    OBVIOUS
  <2>1. Len(published) = 0
    BY DEF TimeTagInit
  <2>2. slots.full = 0 /\ slots.frac = 0 /\ slots.tag = 0 /\ reference.offset = 0 /\ reference.time = 0
    BY DEF TimeTagInit, NoReference
  <2>3. 0 * SampRate = 0
    BY TimeTagConstants
  <2>4. TimeFollows(slots.full, slots.frac, slots.tag, reference)
    BY <2>2, <2>3, TimeTagConstants DEF TimeFollows
  <2>5. QED
    BY <2>1, <2>4 DEF TimesInv
<1>2. SlotsInv /\ TimesInv /\ [TimeTagNext]_timeVars => SlotsInv' /\ TimesInv'
  BY SlotsInvStep, TimesInvStep
<1>3. SlotsInv /\ TimesInv => SlotTimesFollowReference
  <2> SUFFICES ASSUME SlotsInv, TimesInv PROVE SlotTimesFollowReference
    OBVIOUS
  <2>1. DOMAIN published = 1 .. Len(published)
    BY DEF SlotsInv, TimeTagTyping
  <2>2. QED
    BY <2>1 DEF TimesInv, TimeFollows, SlotTimesFollowReference
<1>4. QED
  BY SlotsInvInit, <1>1, <1>2, <1>3, PTL DEF TimeTagSpec
-----------------------------------------------------------------------------
LEMMA SmallestExists ==
    ASSUME NEW S, S \subseteq Nat, S # {}
    PROVE  \E x \in S : \A y \in S : x <= y
<1> DEFINE Less == OpToRel(<, Nat)
<1>1. IsWellFoundedOn(Less, Nat)
  BY NatLessThanWellFounded
<1>2. PICK x \in S : \A y \in S : <<y, x>> \notin Less
  <2> HIDE DEF Less
  <2> QED
    BY <1>1, WFMin
<1>3. ASSUME NEW y \in S PROVE x <= y
  <2>1. x \in Nat /\ y \in Nat /\ <<y, x>> \notin Less
    BY <1>2
  <2>2. ~(y < x)
    BY <2>1 DEF OpToRel
  <2>3. \A m, n \in Nat : ~(n < m) => m <= n
    OBVIOUS
  <2> QED
    BY <2>1, <2>2, <2>3
<1> QED
  BY <1>3

LEMMA ConcatOf ==
    ASSUME NEW S, NEW s \in Seq(S), NEW t \in Seq(S)
    PROVE  s \o t \in Seq(S) /\ Len(s \o t) = Len(s) + Len(t)
OBVIOUS

LEMMA ConcatFirst ==
    ASSUME NEW S, NEW s \in Seq(S), NEW t \in Seq(S), NEW i \in 1 .. Len(s)
    PROVE  (s \o t)[i] = s[i]
OBVIOUS

LEMMA ConcatThen ==
    ASSUME NEW S, NEW s \in Seq(S), NEW t \in Seq(S), NEW i \in 1 .. Len(t)
    PROVE  (s \o t)[Len(s) + i] = t[i]
OBVIOUS
-----------------------------------------------------------------------------
\* Calls and what they connect.  The calls of a list, each once, ...
Holds(calls, made) ==
    /\ calls \in Seq(made)
    /\ \A c \in made : \E i \in 1 .. Len(calls) : calls[i] = c

\* ... with different destinations ...
Apart(calls) == \A i, j \in 1 .. Len(calls) : i # j => calls[i].to # calls[j].to

Wires(calls, made) == Holds(calls, made) /\ Apart(calls)

\* ... also from those of another list.
Elsewhere(made, other) == \A c \in made, d \in other : c.to # d.to

LEMMA HoldsConcat ==
    ASSUME NEW s, NEW t, NEW A, NEW B, Holds(s, A), Holds(t, B)
    PROVE  Holds(s \o t, A \cup B)
<1>1. s \in Seq(A \cup B) /\ t \in Seq(A \cup B)
  <2>1. \A X, Y : \A u \in Seq(X) : u \in Seq(X \cup Y) /\ u \in Seq(Y \cup X)
    OBVIOUS
  <2> QED
    BY <2>1 DEF Holds
<1> DEFINE U == A \cup B
<1>2. s \in Seq(U) /\ t \in Seq(U)
  BY <1>1
<1>3. \A c \in U : (\E i \in 1 .. Len(s) : s[i] = c) \/ (\E i \in 1 .. Len(t) : t[i] = c)
  BY DEF Holds
<1> HIDE DEF U
<1>4. s \o t \in Seq(U) /\ Len(s \o t) = Len(s) + Len(t) /\ Len(s) \in Nat /\ Len(t) \in Nat
  BY <1>2, ConcatOf
<1>5. \A i \in 1 .. Len(s) : (s \o t)[i] = s[i]
  BY <1>2, ConcatFirst
<1>6. \A i \in 1 .. Len(t) : (s \o t)[Len(s) + i] = t[i]
  BY <1>2, ConcatThen
<1>7. ASSUME NEW c \in U PROVE \E i \in 1 .. Len(s \o t) : (s \o t)[i] = c
  <2>1. CASE \E i \in 1 .. Len(s) : s[i] = c
    <3>1. PICK i \in 1 .. Len(s) : s[i] = c
      BY <2>1
    <3>2. i \in 1 .. Len(s \o t) /\ (s \o t)[i] = c
      BY <1>4, <1>5, <3>1
    <3> QED
      BY <3>2
  <2>2. CASE \E i \in 1 .. Len(t) : t[i] = c
    <3>1. PICK i \in 1 .. Len(t) : t[i] = c
      BY <2>2
    <3>2. Len(s) + i \in 1 .. Len(s \o t) /\ (s \o t)[Len(s) + i] = c
      BY <1>4, <1>6, <3>1
    <3> QED
      BY <3>2
  <2> QED
    BY <1>3, <2>1, <2>2
<1>8. Holds(s \o t, U)
  BY <1>4, <1>7 DEF Holds
<1> QED
  BY <1>8 DEF U

LEMMA WiresConcat ==
    ASSUME NEW s, NEW t, NEW A, NEW B, Wires(s, A), Wires(t, B), Elsewhere(A, B)
    PROVE  Wires(s \o t, A \cup B)
<1>1. Holds(s \o t, A \cup B)
  BY HoldsConcat DEF Wires
<1> DEFINE U == A \cup B
<1>2. s \in Seq(U) /\ t \in Seq(U)
  <2>1. \A X, Y : \A u \in Seq(X) : u \in Seq(X \cup Y) /\ u \in Seq(Y \cup X)
    OBVIOUS
  <2> QED
    BY <2>1 DEF Wires, Holds
<1> HIDE DEF U
<1>3. s \o t \in Seq(U) /\ Len(s \o t) = Len(s) + Len(t) /\ Len(s) \in Nat /\ Len(t) \in Nat
  BY <1>2, ConcatOf
<1>4. \A i \in 1 .. Len(s) : (s \o t)[i] = s[i] /\ s[i] \in A
  <2>1. \A i \in 1 .. Len(s) : s[i] \in A
    BY DEF Wires, Holds
  <2> QED
    BY <1>2, <2>1, ConcatFirst
<1>5. \A i \in 1 .. Len(t) : (s \o t)[Len(s) + i] = t[i] /\ t[i] \in B
  <2>1. \A i \in 1 .. Len(t) : t[i] \in B
    BY DEF Wires, Holds
  <2> QED
    BY <1>2, <2>1, ConcatThen
<1>6. ASSUME NEW i \in 1 .. Len(s \o t), NEW j \in 1 .. Len(s \o t), i < j
      PROVE  (s \o t)[i].to # (s \o t)[j].to
  <2>1. CASE j <= Len(s)
    <3>1. i \in 1 .. Len(s) /\ j \in 1 .. Len(s) /\ i # j
      BY <1>3, <1>6, <2>1
    <3> QED
      BY <1>4, <3>1 DEF Wires, Apart
  <2>2. CASE i <= Len(s) /\ j > Len(s)
    <3>1. i \in 1 .. Len(s) /\ j - Len(s) \in 1 .. Len(t) /\ Len(s) + (j - Len(s)) = j
      BY <1>3, <1>6, <2>2
    <3>2. (s \o t)[i] \in A /\ (s \o t)[j] \in B
      BY <1>4, <1>5, <3>1
    <3> QED
      BY <3>2 DEF Elsewhere
  <2>3. CASE i > Len(s)
    <3>1. /\ i - Len(s) \in 1 .. Len(t) /\ Len(s) + (i - Len(s)) = i
          /\ j - Len(s) \in 1 .. Len(t) /\ Len(s) + (j - Len(s)) = j
          /\ i - Len(s) # j - Len(s)
      BY <1>3, <1>6, <2>3
    <3>2. (s \o t)[i] = t[i - Len(s)] /\ (s \o t)[j] = t[j - Len(s)]
      BY <1>5, <3>1
    <3> QED
      BY <3>1, <3>2 DEF Wires, Apart
  <2>4. i \in Nat /\ j \in Nat
    BY <1>3
  <2> QED
    BY <1>3, <2>1, <2>2, <2>3, <2>4
<1>7. Apart(s \o t)
  <2>1. \A i, j \in 1 .. Len(s \o t) : i # j => i < j \/ j < i
    BY <1>3
  <2> QED
    BY <1>6, <2>1 DEF Apart
<1> QED
  BY <1>1, <1>7 DEF Wires

LEMMA WiresNone == Wires(<<>>, {})
BY DEF Wires, Holds, Apart

LEMMA WiresOne == \A c : Wires(<<c>>, {c})
BY DEF Wires, Holds, Apart

LEMMA WiresTwo ==
    ASSUME NEW c, NEW d, c.to # d.to
    PROVE  Wires(<<c, d>>, {c, d})
BY DEF Wires, Holds, Apart

LEMMA WiresThree ==
    ASSUME NEW c, NEW d, NEW e, c.to # d.to, c.to # e.to, d.to # e.to
    PROVE  Wires(<<c, d, e>>, {c, d, e})
BY DEF Wires, Holds, Apart

LEMMA WiresFour ==
    ASSUME NEW c, NEW d, NEW e, NEW f, c.to # d.to, c.to # e.to, c.to # f.to,
           d.to # e.to, d.to # f.to, e.to # f.to
    PROVE  Wires(<<c, d, e, f>>, {c, d, e, f})
BY DEF Wires, Holds, Apart
-----------------------------------------------------------------------------
\* The calls of PerPort up to each turn.
Upto(n, calls, f) ==
    f = [k \in 0 .. n |-> IF k = 0 THEN <<>> ELSE f[k - 1] \o calls[k - 1]]

LEMMA UptoExists ==
    ASSUME NEW calls, NEW n \in Nat
    PROVE  \E f : Upto(n, calls, f)
<1> DEFINE bad == { k \in 0 .. n : ~\E f : Upto(k, calls, f) }
<1>1. bad \subseteq Nat
  OBVIOUS
<1>2. SUFFICES ASSUME bad # {} PROVE FALSE
  <2>1. n \in 0 .. n
    OBVIOUS
  <2> QED
    BY <2>1
<1>3. PICK k \in bad : \A j \in bad : k <= j
  <2> HIDE DEF bad
  <2> QED
    BY <1>1, <1>2, SmallestExists
<1>4. k \in 0 .. n /\ ~\E f : Upto(k, calls, f)
  OBVIOUS
<1>5. CASE k = 0
  <2> DEFINE g == [i \in 0 .. 0 |-> <<>>]
  <2>1. g = [i \in 0 .. k |-> IF i = 0 THEN <<>> ELSE g[i - 1] \o calls[i - 1]]
    BY <1>5
  <2> QED
    BY <2>1, <1>4 DEF Upto
<1>6. CASE k # 0
  <2>1. k - 1 \in 0 .. n /\ k - 1 \notin bad
    BY <1>3, <1>4, <1>6
  <2>2. PICK f : Upto(k - 1, calls, f)
    BY <2>1
  <2> DEFINE g == [i \in 0 .. k |-> IF i = k THEN f[k - 1] \o calls[k - 1] ELSE f[i]]
  <2>3. ASSUME NEW i \in 0 .. k
        PROVE  g[i] = IF i = 0 THEN <<>> ELSE g[i - 1] \o calls[i - 1]
    <3>1. CASE i = k
      <4>1. k - 1 \in 0 .. k /\ k - 1 # k /\ k \in 0 .. k
        BY <1>4, <1>6
      <4>2. g[k - 1] = f[k - 1] /\ g[k] = f[k - 1] \o calls[k - 1]
        BY <4>1
      <4> HIDE DEF g
      <4> QED
        BY <1>6, <3>1, <4>2
    <3>2. CASE i # k
      <4>1. i \in 0 .. k - 1 /\ g[i] = f[i] /\ (i # 0 => g[i - 1] = f[i - 1])
        BY <1>4, <3>2
      <4>2. f[i] = IF i = 0 THEN <<>> ELSE f[i - 1] \o calls[i - 1]
        BY <2>2, <4>1 DEF Upto
      <4> QED
        BY <4>1, <4>2
    <3> QED
      BY <3>1, <3>2
  <2>4. g = [i \in 0 .. k |-> IF i = 0 THEN <<>> ELSE g[i - 1] \o calls[i - 1]]
    <3>1. g = [i \in 0 .. k |-> g[i]]
      OBVIOUS
    <3> HIDE DEF g
    <3> QED
      BY <2>3, <3>1
  <2> QED
    BY <2>4, <1>4 DEF Upto
<1> QED
  BY <1>5, <1>6

LEMMA PerPortIsLast ==
    ASSUME NEW calls, NEW n \in Nat
    PROVE  \E f : Upto(n, calls, f) /\ PerPort(n, calls) = f[n]
<1> DEFINE h == CHOOSE f : Upto(n, calls, f)
<1>1. Upto(n, calls, h)
  BY UptoExists
<1>2. PerPort(n, calls) = h[n]
  BY DEF PerPort, Upto
<1> QED
  BY <1>1, <1>2

\* The turns of a loop over ports together, if each turn and any two connect to different
\* places.
LEMMA WiresPerPort ==
    ASSUME NEW calls, NEW n \in Nat, NEW made,
           \A p \in 0 .. n - 1 : Wires(calls[p], made[p]),
           \A p, q \in 0 .. n - 1 : p < q => Elsewhere(made[p], made[q])
    PROVE  Wires(PerPort(n, calls), UNION { made[p] : p \in 0 .. n - 1 })
<1>1. PICK f : Upto(n, calls, f) /\ PerPort(n, calls) = f[n]
  BY PerPortIsLast
<1> DEFINE Made(k) == UNION { made[p] : p \in 0 .. k - 1 }
           Done(k) == Wires(f[k], Made(k))
<1>2. Done(0)
  <2>1. f[0] = <<>>
    BY <1>1 DEF Upto
  <2>2. Made(0) = {}
    OBVIOUS
  <2> QED
    BY <2>1, <2>2, WiresNone
<1>3. ASSUME NEW k \in 0 .. n - 1, Done(k) PROVE Done(k + 1)
  <2>1. f[k + 1] = f[k] \o calls[k]
    <3>1. k + 1 \in 0 .. n /\ k + 1 # 0 /\ (k + 1) - 1 = k
      OBVIOUS
    <3> QED
      BY <1>1, <3>1 DEF Upto
  <2>2. Made(k + 1) = Made(k) \cup made[k]
    <3>1. 0 .. (k + 1) - 1 = (0 .. k - 1) \cup {k}
      OBVIOUS
    <3> QED
      BY <3>1
  <2>3. Elsewhere(Made(k), made[k])
    <3>1. \A p \in 0 .. k - 1 : p \in 0 .. n - 1 /\ p < k
      OBVIOUS
    <3>2. \A p \in 0 .. k - 1 : Elsewhere(made[p], made[k])
      BY <3>1
    <3> QED
      BY <3>2 DEF Elsewhere
  <2>4. Wires(calls[k], made[k])
    OBVIOUS
  <2>5. Wires(f[k] \o calls[k], Made(k) \cup made[k])
    <3> HIDE DEF Made
    <3> QED
      BY <1>3, <2>3, <2>4, WiresConcat
  <2> QED
    BY <2>1, <2>2, <2>5
<1> DEFINE bad == { k \in 0 .. n : ~Done(k) }
<1>4. ASSUME ~Done(n) PROVE FALSE
  <2> HIDE DEF Done
  <2>1. bad \subseteq Nat /\ n \in bad
    BY <1>4
  <2>2. PICK k \in bad : \A j \in bad : k <= j
    <3> HIDE DEF bad
    <3> QED
      BY <2>1, SmallestExists
  <2>3. k \in 0 .. n /\ ~Done(k) /\ k # 0
    BY <1>2, <2>2
  <2>4. k - 1 \in 0 .. n - 1 /\ k - 1 \in 0 .. n /\ (k - 1) + 1 = k /\ ~(k <= k - 1)
    BY <2>3
  <2>5. k - 1 \notin bad
    <3> HIDE DEF bad
    <3> QED
      BY <2>2, <2>4
  <2>6. Done(k - 1)
    BY <2>4, <2>5
  <2> QED
    BY <1>3, <2>3, <2>4, <2>6
<1> QED
  BY <1>1, <1>4
-----------------------------------------------------------------------------
\* A block after each call of its constructor.
Empty(inputs, outputs) == [inputs |-> inputs, outputs |-> outputs, made |-> {}, raised |-> FALSE]

After(inputs, outputs, calls, n, f) ==
    f = [i \in 0 .. n |-> IF i = 0 THEN Empty(inputs, outputs) ELSE Connect(f[i - 1], calls[i])]

LEMMA AfterExists ==
    ASSUME NEW inputs, NEW outputs, NEW calls, NEW n \in Nat
    PROVE  \E f : After(inputs, outputs, calls, n, f)
<1> DEFINE bad == { k \in 0 .. n : ~\E f : After(inputs, outputs, calls, k, f) }
<1>1. bad \subseteq Nat
  OBVIOUS
<1>2. SUFFICES ASSUME bad # {} PROVE FALSE
  <2>1. n \in 0 .. n
    OBVIOUS
  <2> QED
    BY <2>1
<1>3. PICK k \in bad : \A j \in bad : k <= j
  <2> HIDE DEF bad
  <2> QED
    BY <1>1, <1>2, SmallestExists
<1>4. k \in 0 .. n /\ ~\E f : After(inputs, outputs, calls, k, f)
  OBVIOUS
<1>5. CASE k = 0
  <2> DEFINE g == [i \in 0 .. 0 |-> Empty(inputs, outputs)]
  <2>1. g = [i \in 0 .. k |-> IF i = 0 THEN Empty(inputs, outputs) ELSE Connect(g[i - 1], calls[i])]
    BY <1>5
  <2> QED
    BY <2>1, <1>4 DEF After
<1>6. CASE k # 0
  <2>1. k - 1 \in 0 .. n /\ k - 1 \notin bad
    BY <1>3, <1>4, <1>6
  <2>2. PICK f : After(inputs, outputs, calls, k - 1, f)
    BY <2>1
  <2> DEFINE g == [i \in 0 .. k |-> IF i = k THEN Connect(f[k - 1], calls[k]) ELSE f[i]]
  <2>3. ASSUME NEW i \in 0 .. k
        PROVE  g[i] = IF i = 0 THEN Empty(inputs, outputs) ELSE Connect(g[i - 1], calls[i])
    <3>1. CASE i = k
      <4>1. k - 1 \in 0 .. k /\ k - 1 # k /\ k \in 0 .. k
        BY <1>4, <1>6
      <4>2. g[k - 1] = f[k - 1] /\ g[k] = Connect(f[k - 1], calls[k])
        BY <4>1
      <4> HIDE DEF g
      <4> QED
        BY <1>6, <3>1, <4>2
    <3>2. CASE i # k
      <4>1. i \in 0 .. k - 1 /\ g[i] = f[i] /\ (i # 0 => g[i - 1] = f[i - 1])
        BY <1>4, <3>2
      <4>2. f[i] = IF i = 0 THEN Empty(inputs, outputs) ELSE Connect(f[i - 1], calls[i])
        BY <2>2, <4>1 DEF After
      <4> QED
        BY <4>1, <4>2
    <3> QED
      BY <3>1, <3>2
  <2>4. g = [i \in 0 .. k |-> IF i = 0 THEN Empty(inputs, outputs) ELSE Connect(g[i - 1], calls[i])]
    <3>1. g = [i \in 0 .. k |-> g[i]]
      OBVIOUS
    <3> HIDE DEF g
    <3> QED
      BY <2>3, <3>1
  <2> QED
    BY <2>4, <1>4 DEF After
<1> QED
  BY <1>5, <1>6

LEMMA ConstructedIsLast ==
    ASSUME NEW inputs, NEW outputs, NEW calls, Len(calls) \in Nat
    PROVE  \E f : /\ After(inputs, outputs, calls, Len(calls), f)
                  /\ Constructed(inputs, outputs, calls) = f[Len(calls)]
<1> DEFINE h == CHOOSE f : After(inputs, outputs, calls, Len(calls), f)
<1>1. After(inputs, outputs, calls, Len(calls), h)
  BY AfterExists
<1>2. Constructed(inputs, outputs, calls) = h[Len(calls)]
  BY DEF Constructed, After, Empty
<1> QED
  BY <1>1, <1>2

\* The ports of the block itself that a call names exist.
Fits(inputs, outputs, call) ==
    /\ call.to[1] = Self => call.to[3] \in 0 .. outputs - 1
    /\ call.from[1] = Self => call.from[3] \in 0 .. inputs - 1

\* No call up to the n-th raises.
Sound(inputs, outputs, calls, n) ==
    \A i \in 1 .. n : /\ Fits(inputs, outputs, calls[i])
                      /\ \A j \in 1 .. n : j < i => calls[j].to # calls[i].to

\* A block is a record of what was made before a call raised.
IsAfter(block, inputs, outputs, calls, n) ==
    /\ block \in [inputs : {inputs}, outputs : {outputs},
                  made : SUBSET { calls[i] : i \in 1 .. n }, raised : BOOLEAN]
    /\ ~block.raised <=> Sound(inputs, outputs, calls, n)
    /\ ~block.raised => block.made = { calls[i] : i \in 1 .. n }

LEMMA ConnectAfter ==
    ASSUME NEW block, NEW inputs, NEW outputs, NEW calls, NEW n \in Nat,
           IsAfter(block, inputs, outputs, calls, n)
    PROVE  IsAfter(Connect(block, calls[n + 1]), inputs, outputs, calls, n + 1)
<1> DEFINE call == calls[n + 1]
           next == Connect(block, call)
<1>1. 1 .. n + 1 = (1 .. n) \cup {n + 1} /\ n + 1 \notin 1 .. n
  OBVIOUS
<1>2. block.inputs = inputs /\ block.outputs = outputs
  BY DEF IsAfter
<1>3. Sound(inputs, outputs, calls, n + 1) <=>
        /\ Sound(inputs, outputs, calls, n)
        /\ Fits(inputs, outputs, call)
        /\ \A j \in 1 .. n : calls[j].to # call.to
  <2>1. \A i, j \in 1 .. n : (j < n + 1) /\ ~(n + 1 < j) /\ (j < i => j \in 1 .. n + 1)
    OBVIOUS
  <2>2. ~(n + 1 < n + 1)
    OBVIOUS
  <2> QED
    BY <1>1, <2>1, <2>2 DEF Sound
<1>6. block.raised \in BOOLEAN
  BY DEF IsAfter
<1> DEFINE A == { calls[i] : i \in 1 .. n }
           B == { calls[i] : i \in 1 .. n + 1 }
           Blocks(all) == [inputs : {inputs}, outputs : {outputs}, made : SUBSET all, raised : BOOLEAN]
<1>4. B = A \cup {call}
  BY <1>1
<1>5. block \in Blocks(A)
  BY DEF IsAfter
<1> HIDE DEF A, B, call
<1>7. ASSUME block.raised PROVE IsAfter(next, inputs, outputs, calls, n + 1)
  <2>1. next = [block EXCEPT !.raised = TRUE]
    BY <1>7 DEF Connect
  <2>2. next \in Blocks(B) /\ next.raised
    BY <1>4, <1>5, <2>1
  <2>3. ~Sound(inputs, outputs, calls, n + 1)
    BY <1>3, <1>7 DEF IsAfter
  <2> HIDE DEF next
  <2> QED
    BY <2>2, <2>3 DEF IsAfter, B
<1>8. ASSUME ~block.raised PROVE IsAfter(next, inputs, outputs, calls, n + 1)
  <2>1. block.made = A /\ Sound(inputs, outputs, calls, n)
    BY <1>8 DEF IsAfter, A
  <2>2. (\E made \in block.made : made.to = call.to) <=> \E j \in 1 .. n : calls[j].to = call.to
    BY <2>1 DEF A
  <2>3. CASE Fits(inputs, outputs, call) /\ \A j \in 1 .. n : calls[j].to # call.to
    <3>1. next = [block EXCEPT !.made = block.made \cup {call}]
      BY <1>2, <1>8, <2>2, <2>3 DEF Connect, Fits
    <3>2. next \in Blocks(B) /\ ~next.raised /\ next.made = B
      BY <1>4, <1>5, <1>8, <2>1, <3>1
    <3>3. Sound(inputs, outputs, calls, n + 1)
      BY <1>3, <2>1, <2>3
    <3> HIDE DEF next
    <3> QED
      BY <3>2, <3>3 DEF IsAfter, B
  <2>4. CASE ~(Fits(inputs, outputs, call) /\ \A j \in 1 .. n : calls[j].to # call.to)
    <3>1. next = [block EXCEPT !.raised = TRUE]
      BY <1>2, <1>8, <2>2, <2>4 DEF Connect, Fits
    <3>2. next \in Blocks(B) /\ next.raised
      BY <1>4, <1>5, <3>1
    <3>3. ~Sound(inputs, outputs, calls, n + 1)
      BY <1>3, <2>4
    <3> HIDE DEF next
    <3> QED
      BY <3>2, <3>3 DEF IsAfter, B
  <2> QED
    BY <2>3, <2>4
<1> QED
  BY <1>7, <1>8 DEF next, call

LEMMA ConstructedFacts ==
    ASSUME NEW inputs, NEW outputs, NEW calls, Len(calls) \in Nat
    PROVE  IsAfter(Constructed(inputs, outputs, calls), inputs, outputs, calls, Len(calls))
<1>1. PICK f : /\ After(inputs, outputs, calls, Len(calls), f)
               /\ Constructed(inputs, outputs, calls) = f[Len(calls)]
  BY ConstructedIsLast
<1> DEFINE n == Len(calls)
           Done(k) == IsAfter(f[k], inputs, outputs, calls, k)
<1>2. Done(0)
  <2>1. f[0] = Empty(inputs, outputs)
    BY <1>1 DEF After
  <2>2. Sound(inputs, outputs, calls, 0) /\ { calls[i] : i \in 1 .. 0 } = {}
    BY DEF Sound
  <2> QED
    BY <2>1, <2>2 DEF IsAfter, Empty
<1>3. ASSUME NEW k \in 0 .. n - 1, Done(k) PROVE Done(k + 1)
  <2>1. f[k + 1] = Connect(f[k], calls[k + 1])
    <3>1. k + 1 \in 0 .. n /\ k + 1 # 0 /\ (k + 1) - 1 = k
      OBVIOUS
    <3> QED
      BY <1>1, <3>1 DEF After
  <2>2. k \in Nat
    OBVIOUS
  <2> QED
    BY <1>3, <2>1, <2>2, ConnectAfter
<1> DEFINE bad == { k \in 0 .. n : ~Done(k) }
<1>4. ASSUME ~Done(n) PROVE FALSE
  <2> HIDE DEF Done
  <2>1. bad \subseteq Nat /\ n \in bad
    BY <1>4
  <2>2. PICK k \in bad : \A j \in bad : k <= j
    <3> HIDE DEF bad
    <3> QED
      BY <2>1, SmallestExists
  <2>3. k \in 0 .. n /\ ~Done(k) /\ k # 0
    BY <1>2, <2>2
  <2>4. k - 1 \in 0 .. n - 1 /\ k - 1 \in 0 .. n /\ (k - 1) + 1 = k /\ ~(k <= k - 1)
    BY <2>3
  <2>5. k - 1 \notin bad
    <3> HIDE DEF bad
    <3> QED
      BY <2>2, <2>4
  <2>6. Done(k - 1)
    BY <2>4, <2>5
  <2> QED
    BY <1>3, <2>3, <2>4, <2>6
<1> QED
  BY <1>1, <1>4

\* A constructor whose calls have different destinations and fit makes all of them.
LEMMA AllMade ==
    ASSUME NEW inputs, NEW outputs, NEW calls, NEW made, Wires(calls, made),
           \A c \in made : Fits(inputs, outputs, c)
    PROVE  Constructed(inputs, outputs, calls)
             = [inputs |-> inputs, outputs |-> outputs, made |-> made, raised |-> FALSE]
<1> DEFINE n == Len(calls)
           block == Constructed(inputs, outputs, calls)
<1>1. n \in Nat /\ (\A i \in 1 .. n : calls[i] \in made) /\ (\A c \in made : \E i \in 1 .. n : calls[i] = c)
  BY DEF Wires, Holds
<1>2. IsAfter(block, inputs, outputs, calls, n)
  BY <1>1, ConstructedFacts
<1>3. Sound(inputs, outputs, calls, n)
  <2>1. \A i, j \in 1 .. n : j < i => j # i
    BY <1>1
  <2> QED
    BY <1>1, <2>1 DEF Sound, Wires, Apart
<1>4. { calls[i] : i \in 1 .. n } = made
  BY <1>1
<1> HIDE DEF n, block
<1>5. block.raised = FALSE /\ block.made = made
  BY <1>2, <1>3, <1>4 DEF IsAfter
<1>6. block \in [inputs : {inputs}, outputs : {outputs}, made : SUBSET made, raised : BOOLEAN]
  BY <1>2, <1>4 DEF IsAfter
<1> QED
  BY <1>5, <1>6 DEF block

\* What another makes is among its calls, and it raises at a call that does not fit, and at
\* one to a destination in use.
AllFit(inputs, outputs, made) == \A c \in made : Fits(inputs, outputs, c)

IsPartlyMade(block, inputs, outputs, calls, made) ==
    /\ block.outputs = outputs /\ block.made \subseteq made
    /\ ~AllFit(inputs, outputs, made) => block.raised = TRUE
    /\ ~Apart(calls) => block.raised = TRUE

LEMMA NotAllMade ==
    ASSUME NEW inputs, NEW outputs, NEW calls, NEW made, Holds(calls, made)
    PROVE  IsPartlyMade(Constructed(inputs, outputs, calls), inputs, outputs, calls, made)
<1> DEFINE n == Len(calls)
           block == Constructed(inputs, outputs, calls)
<1>1. n \in Nat /\ (\A i \in 1 .. n : calls[i] \in made) /\ (\A c \in made : \E i \in 1 .. n : calls[i] = c)
  BY DEF Holds
<1>2. IsAfter(block, inputs, outputs, calls, n)
  BY <1>1, ConstructedFacts
<1>3. { calls[i] : i \in 1 .. n } = made
  BY <1>1
<1>4. ~AllFit(inputs, outputs, made) => ~Sound(inputs, outputs, calls, n)
  BY <1>1 DEF Sound, AllFit
<1>5. ~Apart(calls) => ~Sound(inputs, outputs, calls, n)
  <2>1. \A i, j \in 1 .. n : i # j => i < j \/ j < i
    BY <1>1
  <2> QED
    BY <2>1 DEF Sound, Apart
<1> HIDE DEF n, block
<1>6. block.outputs = outputs /\ block.made \subseteq made
  BY <1>2, <1>3 DEF IsAfter
<1>7. ~Sound(inputs, outputs, calls, n) => block.raised = TRUE
  BY <1>2 DEF IsAfter
<1> QED
  BY <1>4, <1>5, <1>6, <1>7 DEF block, IsPartlyMade

LEMMA NotApart ==
    ASSUME NEW s, NEW t, NEW A, NEW B, Holds(s, A), Holds(t, B),
           NEW c \in A, NEW d \in B, c.to = d.to
    PROVE  ~Apart(s \o t)
<1> DEFINE U == A \cup B
<1>1. s \in Seq(U) /\ t \in Seq(U)
  <2>1. \A X, Y : \A u \in Seq(X) : u \in Seq(X \cup Y) /\ u \in Seq(Y \cup X)
    OBVIOUS
  <2> QED
    BY <2>1 DEF Holds
<1> HIDE DEF U
<1>2. s \o t \in Seq(U) /\ Len(s \o t) = Len(s) + Len(t) /\ Len(s) \in Nat /\ Len(t) \in Nat
  BY <1>1, ConcatOf
<1>3. PICK i \in 1 .. Len(s) : s[i] = c
  BY DEF Holds
<1>4. PICK j \in 1 .. Len(t) : t[j] = d
  BY DEF Holds
<1>5. (s \o t)[i] = c /\ (s \o t)[Len(s) + j] = d
  BY <1>1, <1>3, <1>4, ConcatFirst, ConcatThen
<1>6. i \in 1 .. Len(s \o t) /\ Len(s) + j \in 1 .. Len(s \o t) /\ i # Len(s) + j
  BY <1>2
<1> QED
  BY <1>5, <1>6 DEF Apart
-----------------------------------------------------------------------------
\* Ports and connections are known by their parts.
LEMMA PortFacts ==
    /\ \A name, x : Of(name, x) = Nth(name, 0, x)
    /\ \A name, a, x : Nth(name, a, x)[1] = name /\ Nth(name, a, x)[2] = a /\ Nth(name, a, x)[3] = x
    /\ \A from, to : Connection(from, to).from = from /\ Connection(from, to).to = to
BY DEF Of, Nth, Connection

LEMMA ChainThree ==
    ASSUME NEW a, NEW b, NEW c, b # c
    PROVE  Wires(Chain(<<a, b, c>>), {Connection(a, b), Connection(b, c)})
<1>1. Chain(<<a, b, c>>) = <<Connection(a, b), Connection(b, c)>>
  BY DEF Chain
<1>2. Connection(a, b).to # Connection(b, c).to
  BY PortFacts
<1> QED
  BY <1>1, <1>2, WiresTwo

LEMMA ChainFour ==
    ASSUME NEW a, NEW b, NEW c, NEW d, b # c, b # d, c # d
    PROVE  Wires(Chain(<<a, b, c, d>>), {Connection(a, b), Connection(b, c), Connection(c, d)})
<1>1. Chain(<<a, b, c, d>>) = <<Connection(a, b), Connection(b, c), Connection(c, d)>>
  BY DEF Chain
<1>2. /\ Connection(a, b).to # Connection(b, c).to
      /\ Connection(a, b).to # Connection(c, d).to
      /\ Connection(b, c).to # Connection(c, d).to
  BY PortFacts
<1> QED
  BY <1>1, <1>2, WiresThree

LEMMA ChainFive ==
    ASSUME NEW a, NEW b, NEW c, NEW d, NEW e, b # c, b # d, b # e, c # d, c # e, d # e
    PROVE  Wires(Chain(<<a, b, c, d, e>>),
                 {Connection(a, b), Connection(b, c), Connection(c, d), Connection(d, e)})
<1>1. Chain(<<a, b, c, d, e>>) = <<Connection(a, b), Connection(b, c), Connection(c, d), Connection(d, e)>>
  BY DEF Chain
<1>2. /\ Connection(a, b).to # Connection(b, c).to /\ Connection(a, b).to # Connection(c, d).to
      /\ Connection(a, b).to # Connection(d, e).to /\ Connection(b, c).to # Connection(c, d).to
      /\ Connection(b, c).to # Connection(d, e).to /\ Connection(c, d).to # Connection(d, e).to
  BY PortFacts
<1> QED
  BY <1>1, <1>2, WiresFour

\* A block that was made of all its calls: what is behind its outputs.
IsWired(block, outputs, made) ==
    /\ block.raised = FALSE /\ block.outputs = outputs /\ block.made = made
    /\ \A c \in made : \A output :
         c.to = Of(Self, output) => IsFed(block, output) /\ Behind(block, output) = c.from

LEMMA WiredBlock ==
    ASSUME NEW inputs, NEW outputs, NEW calls, NEW made, Wires(calls, made),
           AllFit(inputs, outputs, made)
    PROVE  IsWired(Constructed(inputs, outputs, calls), outputs, made)
<1> DEFINE block == Constructed(inputs, outputs, calls)
<1>1. block = [inputs |-> inputs, outputs |-> outputs, made |-> made, raised |-> FALSE]
  BY AllMade DEF AllFit
<1>2. block.raised = FALSE /\ block.outputs = outputs /\ block.made = made
  BY <1>1
<1>3. ASSUME NEW c \in made, NEW d \in made, c.to = d.to PROVE c = d
  <2>1. PICK i \in 1 .. Len(calls) : calls[i] = c
    BY DEF Wires, Holds
  <2>2. PICK j \in 1 .. Len(calls) : calls[j] = d
    BY DEF Wires, Holds
  <2> QED
    BY <1>3, <2>1, <2>2 DEF Wires, Apart
<1> HIDE DEF block
<1>4. ASSUME NEW c \in made, NEW output, c.to = Of(Self, output)
      PROVE  IsFed(block, output) /\ Behind(block, output) = c.from
  <2>1. IsFed(block, output)
    BY <1>2, <1>4 DEF IsFed
  <2> DEFINE d == CHOOSE m \in block.made : m.to = Of(Self, output)
  <2>2. d \in made /\ d.to = Of(Self, output)
    BY <1>2, <1>4
  <2>3. d = c
    <3> HIDE DEF d
    <3> QED
      BY <1>3, <1>4, <2>2
  <2> QED
    BY <2>1, <2>3 DEF Behind
<1>5. IsWired(block, outputs, made)
  BY <1>2, <1>4 DEF IsWired
<1> QED
  BY <1>5 DEF block

\* The k-th group of n numbers.
LEMMA Groups ==
    ASSUME NEW n \in Nat \ {0}, NEW p \in 0 .. n - 1
    PROVE  /\ p \div n = 0 /\ p % n = p
           /\ (n + p) \div n = 1 /\ (n + p) % n = p
           /\ (2 * n + p) \div n = 2 /\ (2 * n + p) % n = p
           /\ (3 * n + p) \div n = 3 /\ (3 * n + p) % n = p
           /\ (4 * n + p) \div n = 4 /\ (4 * n + p) % n = p
<1>1. ASSUME NEW x \in Nat, NEW k \in 0 .. 4, x = n * k + p PROVE x \div n = k /\ x % n = p
  <2> DEFINE q == x \div n
             r == x % n
  <2>1. q \in Int /\ r \in 0 .. n - 1 /\ x = n * q + r
    BY SMT
  <2>2. n * (k - q) = r - p
    BY <1>1, <2>1, SMT
  <2> HIDE DEF q, r
  <2>3. k - q < 1
    <3>1. SUFFICES ASSUME k - q >= 1 PROVE FALSE
      BY <2>1
    <3>2. n * (k - q) >= n
      BY <2>1, <3>1, SMT
    <3> QED
      BY <2>1, <2>2, <3>2
  <2>4. k - q > -1
    <3>1. SUFFICES ASSUME k - q <= -1 PROVE FALSE
      BY <2>1
    <3>2. n * (k - q) <= -n
      BY <2>1, <3>1, SMT
    <3> QED
      BY <2>1, <2>2, <3>2
  <2>5. q = k
    BY <2>1, <2>3, <2>4
  <2>6. r = p
    BY <2>1, <2>2, <2>5
  <2> QED
    BY <2>5, <2>6 DEF q, r
<1>2. p \div n = 0 /\ p % n = p
  <2>1. p \in Nat /\ p = n * 0 + p
    OBVIOUS
  <2> QED
    BY <1>1, <2>1
<1>3. (n + p) \div n = 1 /\ (n + p) % n = p
  <2>1. n + p \in Nat /\ n + p = n * 1 + p
    OBVIOUS
  <2> QED
    BY <1>1, <2>1
<1>4. (2 * n + p) \div n = 2 /\ (2 * n + p) % n = p
  <2>1. 2 * n + p \in Nat /\ 2 * n + p = n * 2 + p
    OBVIOUS
  <2> QED
    BY <1>1, <2>1
<1>5. (3 * n + p) \div n = 3 /\ (3 * n + p) % n = p
  <2>1. 3 * n + p \in Nat /\ 3 * n + p = n * 3 + p
    OBVIOUS
  <2> QED
    BY <1>1, <2>1
<1>6. (4 * n + p) \div n = 4 /\ (4 * n + p) % n = p
  <2>1. 4 * n + p \in Nat /\ 4 * n + p = n * 4 + p
    OBVIOUS
  <2> QED
    BY <1>1, <2>1
<1> QED
  BY <1>2, <1>3, <1>4, <1>5, <1>6

-----------------------------------------------------------------------------
LEMMA TransmitterBlockFacts ==
    ASSUME NEW n \in Nat \ {0}
    PROVE  /\ PhyTransmitter(n).raised = FALSE /\ PhyTransmitter(n).outputs = n
           /\ \A p \in 0 .. n - 1 :
                /\ IsFed(PhyTransmitter(n), p)
                /\ Behind(PhyTransmitter(n), p) = Of("gfdm_short_burst_shaper", p)
<1> DEFINE P1 == Of("blocks_pdu_to_tagged_stream", 0)
           P2 == Of("fec_generic_encoder", 0)
           P3 == Of("symbolmapping_interleaver", 0)
           P4 == Of("symbolmapping_symbol_mapper_bc", 0)
           P5 == Of("gfdm_transmitter_cc", 0)
           A == {Connection(P1, P2), Connection(P2, P3), Connection(P3, P4), Connection(P4, P5)}
           Shaped(p) == Connection(Of("gfdm_transmitter_cc", p), Of("gfdm_short_burst_shaper", p))
           Sent(p) == Connection(Of("gfdm_short_burst_shaper", p), Of(Self, p))
           turns == [p \in 0 .. n - 1 |-> <<Shaped(p), Sent(p)>>]
           each == [p \in 0 .. n - 1 |-> {Shaped(p), Sent(p)}]
           B == UNION { each[p] : p \in 0 .. n - 1 }
<1>1. Wires(Chain(<<P1, P2, P3, P4, P5>>), A)
  <2>1. P2 # P3 /\ P2 # P4 /\ P2 # P5 /\ P3 # P4 /\ P3 # P5 /\ P4 # P5
    BY PortFacts
  <2> HIDE DEF P1, P2, P3, P4, P5
  <2> QED
    BY <2>1, ChainFive
<1>2. Wires(PerPort(n, turns), B)
  <2>1. ASSUME NEW p \in 0 .. n - 1 PROVE Wires(turns[p], each[p])
    <3>1. Shaped(p).to # Sent(p).to
      BY PortFacts DEF Self
    <3>2. turns[p] = <<Shaped(p), Sent(p)>> /\ each[p] = {Shaped(p), Sent(p)}
      OBVIOUS
    <3> HIDE DEF Shaped, Sent, turns, each
    <3> QED
      BY <3>1, <3>2, WiresTwo
  <2>2. ASSUME NEW p \in 0 .. n - 1, NEW q \in 0 .. n - 1, p < q PROVE Elsewhere(each[p], each[q])
    BY <2>2, PortFacts DEF Elsewhere, Self
  <2> HIDE DEF turns, each
  <2> QED
    BY <2>1, <2>2, WiresPerPort
<1>3. Elsewhere(A, B)
  BY PortFacts DEF Elsewhere, Self
<1>4. Wires(TransmitterCalls(n), A \cup B)
  <2> HIDE DEF A, B
  <2> QED
    BY <1>1, <1>2, <1>3, WiresConcat DEF TransmitterCalls
<1>5. \A c \in A \cup B : Fits(0, n, c)
  BY PortFacts DEF Fits, Self
<1>6. \A p \in 0 .. n - 1 : Sent(p) \in A \cup B /\ Sent(p).to = Of(Self, p)
                             /\ Sent(p).from = Of("gfdm_short_burst_shaper", p)
  BY PortFacts
<1> DEFINE block == PhyTransmitter(n)
           made == A \cup B
<1>7. IsWired(block, n, made)
  <2>1. AllFit(0, n, made)
    BY <1>5 DEF AllFit
  <2> HIDE DEF made
  <2> QED
    BY <1>4, <2>1, WiredBlock DEF PhyTransmitter, made
<1> HIDE DEF A, B, Sent, made, block
<1>9. /\ block.raised = FALSE /\ block.outputs = n
      /\ \A p \in 0 .. n - 1 :
           IsFed(block, p) /\ Behind(block, p) = Of("gfdm_short_burst_shaper", p)
  BY <1>6, <1>7 DEF made, IsWired
<1> QED
  BY <1>9 DEF block
-----------------------------------------------------------------------------
LEMMA ReceiverBlockFacts ==
    ASSUME NEW n \in Nat \ {0}
    PROVE  /\ PhyReceiver(n).raised = FALSE /\ PhyReceiver(n).outputs = 5 * n
           /\ \A p \in 0 .. n - 1 :
                /\ IsFed(PhyReceiver(n), p)
                /\ Behind(PhyReceiver(n), p) = Of("synchronizer", p)
                /\ IsFed(PhyReceiver(n), n + p)
                /\ Behind(PhyReceiver(n), n + p) = Of("synchronizer", n + p)
                /\ IsFed(PhyReceiver(n), 2 * n + p)
                /\ Behind(PhyReceiver(n), 2 * n + p) = Of("demodulator", 2 * n + p)
                /\ IsFed(PhyReceiver(n), 3 * n + p)
                /\ Behind(PhyReceiver(n), 3 * n + p) = Of("demodulator", n + p)
                /\ IsFed(PhyReceiver(n), 4 * n + p)
                /\ Behind(PhyReceiver(n), 4 * n + p) = Of("demodulator", p)
           /\ AntennasApart(PhyReceiver(n), n)
<1> DEFINE In(p) == Connection(Of(Self, p), Of("synchronizer", p))
           Synced(p) == Connection(Of("synchronizer", p), Of(Self, p))
           Corr(p) == Connection(Of("synchronizer", n + p), Of(Self, n + p))
           syncTurns == [p \in 0 .. n - 1 |-> <<In(p), Synced(p), Corr(p)>>]
           syncEach == [p \in 0 .. n - 1 |-> {In(p), Synced(p), Corr(p)}]
           A == UNION { syncEach[p] : p \in 0 .. n - 1 }
           Demod(p) == Connection(Of("synchronizer", p), Of("demodulator", p))
           Burst(p) == Connection(Of("demodulator", 2 * n + p), Of(Self, 2 * n + p))
           Estimate(p) == Connection(Of("demodulator", n + p), Of(Self, 3 * n + p))
           Symbol(p) == Connection(Of("demodulator", p), Of(Self, 4 * n + p))
           demodTurns == [p \in 0 .. n - 1 |-> <<Demod(p), Burst(p), Estimate(p), Symbol(p)>>]
           demodEach == [p \in 0 .. n - 1 |-> {Demod(p), Burst(p), Estimate(p), Symbol(p)}]
           B == UNION { demodEach[p] : p \in 0 .. n - 1 }
           Upper(p) == Connection(Of("demodulator", p), Of("upper_phy", p))
           upperTurns == [p \in 0 .. n - 1 |-> <<Upper(p)>>]
           upperEach == [p \in 0 .. n - 1 |-> {Upper(p)}]
           C == UNION { upperEach[p] : p \in 0 .. n - 1 }
<1>1. Wires(PerPort(n, syncTurns), A)
  <2>1. ASSUME NEW p \in 0 .. n - 1 PROVE Wires(syncTurns[p], syncEach[p])
    <3>1. In(p).to # Synced(p).to /\ In(p).to # Corr(p).to /\ Synced(p).to # Corr(p).to
      BY PortFacts DEF Self
    <3>2. syncTurns[p] = <<In(p), Synced(p), Corr(p)>> /\ syncEach[p] = {In(p), Synced(p), Corr(p)}
      OBVIOUS
    <3> HIDE DEF In, Synced, Corr, syncTurns, syncEach
    <3> QED
      BY <3>1, <3>2, WiresThree
  <2>2. ASSUME NEW p \in 0 .. n - 1, NEW q \in 0 .. n - 1, p < q
        PROVE  Elsewhere(syncEach[p], syncEach[q])
    BY <2>2, PortFacts DEF Elsewhere, Self
  <2> HIDE DEF syncTurns, syncEach
  <2> QED
    BY <2>1, <2>2, WiresPerPort
<1>2. Wires(PerPort(n, demodTurns), B)
  <2>1. ASSUME NEW p \in 0 .. n - 1 PROVE Wires(demodTurns[p], demodEach[p])
    <3>1. /\ Demod(p).to # Burst(p).to /\ Demod(p).to # Estimate(p).to /\ Demod(p).to # Symbol(p).to
          /\ Burst(p).to # Estimate(p).to /\ Burst(p).to # Symbol(p).to /\ Estimate(p).to # Symbol(p).to
      BY PortFacts DEF Self
    <3>2. /\ demodTurns[p] = <<Demod(p), Burst(p), Estimate(p), Symbol(p)>>
          /\ demodEach[p] = {Demod(p), Burst(p), Estimate(p), Symbol(p)}
      OBVIOUS
    <3> HIDE DEF Demod, Burst, Estimate, Symbol, demodTurns, demodEach
    <3> QED
      BY <3>1, <3>2, WiresFour
  <2>2. ASSUME NEW p \in 0 .. n - 1, NEW q \in 0 .. n - 1, p < q
        PROVE  Elsewhere(demodEach[p], demodEach[q])
    BY <2>2, PortFacts DEF Elsewhere, Self
  <2> HIDE DEF demodTurns, demodEach
  <2> QED
    BY <2>1, <2>2, WiresPerPort
<1>3. Wires(PerPort(n, upperTurns), C)
  <2>1. ASSUME NEW p \in 0 .. n - 1 PROVE Wires(upperTurns[p], upperEach[p])
    BY WiresOne
  <2>2. ASSUME NEW p \in 0 .. n - 1, NEW q \in 0 .. n - 1, p < q
        PROVE  Elsewhere(upperEach[p], upperEach[q])
    BY <2>2, PortFacts DEF Elsewhere, Self
  <2> HIDE DEF upperTurns, upperEach
  <2> QED
    BY <2>1, <2>2, WiresPerPort
<1> DEFINE made == (A \cup B) \cup C
<1>4. Wires(ReceiverCalls(n), made)
  <2>1. Elsewhere(A, B)
    BY PortFacts DEF Elsewhere, Self
  <2>2. Elsewhere(A \cup B, C)
    BY PortFacts DEF Elsewhere, Self
  <2> HIDE DEF A, B, C
  <2>3. Wires(PerPort(n, syncTurns) \o PerPort(n, demodTurns), A \cup B)
    <3> HIDE DEF syncTurns, demodTurns
    <3> QED
      BY <1>1, <1>2, <2>1, WiresConcat
  <2>4. Wires((PerPort(n, syncTurns) \o PerPort(n, demodTurns)) \o PerPort(n, upperTurns), made)
    <3> HIDE DEF syncTurns, demodTurns, upperTurns
    <3> QED
      BY <1>3, <2>2, <2>3, WiresConcat
  <2> QED
    BY <2>4 DEF ReceiverCalls
<1>5. AllFit(n, 5 * n, made)
  BY PortFacts DEF AllFit, Fits, Self
<1>6. \A p \in 0 .. n - 1 :
        /\ Synced(p) \in made /\ Synced(p).to = Of(Self, p) /\ Synced(p).from = Of("synchronizer", p)
        /\ Corr(p) \in made /\ Corr(p).to = Of(Self, n + p) /\ Corr(p).from = Of("synchronizer", n + p)
        /\ Burst(p) \in made /\ Burst(p).to = Of(Self, 2 * n + p)
        /\ Burst(p).from = Of("demodulator", 2 * n + p)
        /\ Estimate(p) \in made /\ Estimate(p).to = Of(Self, 3 * n + p)
        /\ Estimate(p).from = Of("demodulator", n + p)
        /\ Symbol(p) \in made /\ Symbol(p).to = Of(Self, 4 * n + p)
        /\ Symbol(p).from = Of("demodulator", p)
  BY PortFacts
<1> DEFINE block == PhyReceiver(n)
<1>7. IsWired(block, 5 * n, made)
  <2> HIDE DEF made
  <2> QED
    BY <1>4, <1>5, WiredBlock DEF PhyReceiver
<1>8. AntennasApart(block, n)
  <2>1. \A c \in made :
          c.to[1] \in PerAntenna \cup {"synchronizer", "demodulator", "upper_phy",
                                       "xfdm_sync_sync_tag_align_cc", "tacmac_phy_receiver"}
            => AntennaOf(c.from, n) = AntennaOf(c.to, n)
    BY PortFacts DEF PerAntenna, AntennaOf, Self
  <2> HIDE DEF made, block
  <2> QED
    BY <1>7, <2>1 DEF AntennasApart, IsWired
<1> HIDE DEF made, block, Synced, Corr, Burst, Estimate, Symbol
<1>9. /\ block.raised = FALSE /\ block.outputs = 5 * n
      /\ \A p \in 0 .. n - 1 :
           /\ IsFed(block, p) /\ Behind(block, p) = Of("synchronizer", p)
           /\ IsFed(block, n + p) /\ Behind(block, n + p) = Of("synchronizer", n + p)
           /\ IsFed(block, 2 * n + p) /\ Behind(block, 2 * n + p) = Of("demodulator", 2 * n + p)
           /\ IsFed(block, 3 * n + p) /\ Behind(block, 3 * n + p) = Of("demodulator", n + p)
           /\ IsFed(block, 4 * n + p) /\ Behind(block, 4 * n + p) = Of("demodulator", p)
  BY <1>6, <1>7 DEF IsWired
<1> QED
  BY <1>8, <1>9 DEF block

LEMMA UpperReceiverFacts ==
    ASSUME NEW n \in Nat \ {0}
    PROVE  /\ UpperPhyReceiver(n).raised = FALSE /\ UpperPhyReceiver(n).outputs = 1 + n
           /\ IsFed(UpperPhyReceiver(n), 0)
           /\ Behind(UpperPhyReceiver(n), 0) = Of("fec_generic_decoder", 0)
           /\ \A p \in 0 .. n - 1 :
                /\ IsFed(UpperPhyReceiver(n), 1 + p)
                /\ Behind(UpperPhyReceiver(n), 1 + p) = Nth("symbol_demapper", p, 0)
           /\ AntennasApart(UpperPhyReceiver(n), n)
<1> DEFINE In(p) == Connection(Of(Self, p), Nth("symbol_demapper", p, 0))
           Llr(p) == Connection(Nth("symbol_demapper", p, 0), Of(Self, 1 + p))
           turns == [p \in 0 .. n - 1 |-> <<In(p), Llr(p)>>]
           each == [p \in 0 .. n - 1 |-> {In(p), Llr(p)}]
           A == UNION { each[p] : p \in 0 .. n - 1 }
           One == Connection(Nth("symbol_demapper", 0, 0), Of("symbolmapping_interleaver", 0))
           Add(p) == Connection(Nth("symbol_demapper", p, 0), Of("blocks_add_xx", p))
           addTurns == [p \in 0 .. n - 1 |-> <<Add(p)>>]
           addEach == [p \in 0 .. n - 1 |-> {Add(p)}]
           Sum == Connection(Of("blocks_add_xx", 0), Of("symbolmapping_interleaver", 0))
           combine == IF n < 2 THEN <<One>> ELSE PerPort(n, addTurns) \o <<Sum>>
           B1 == UNION { addEach[p] : p \in 0 .. n - 1 }
           B == IF n < 2 THEN {One} ELSE B1 \cup {Sum}
           P1 == Of("symbolmapping_interleaver", 0)
           P2 == Of("fec_generic_decoder", 0)
           P3 == Of("blocks_stream_to_tagged_stream", 0)
           P4 == Of("blocks_tagged_stream_to_pdu", 0)
           chain == Chain(<<P1, P2, P3, P4>>)
           C == {Connection(P1, P2), Connection(P2, P3), Connection(P3, P4)}
           Data == Connection(Of("fec_generic_decoder", 0), Of(Self, 0))
<1>1. Wires(PerPort(n, turns), A)
  <2>1. ASSUME NEW p \in 0 .. n - 1 PROVE Wires(turns[p], each[p])
    <3>1. In(p).to # Llr(p).to
      BY PortFacts DEF Self
    <3>2. turns[p] = <<In(p), Llr(p)>> /\ each[p] = {In(p), Llr(p)}
      OBVIOUS
    <3> HIDE DEF In, Llr, turns, each
    <3> QED
      BY <3>1, <3>2, WiresTwo
  <2>2. ASSUME NEW p \in 0 .. n - 1, NEW q \in 0 .. n - 1, p < q PROVE Elsewhere(each[p], each[q])
    BY <2>2, PortFacts DEF Elsewhere, Self
  <2> HIDE DEF turns, each
  <2> QED
    BY <2>1, <2>2, WiresPerPort
<1>2. Wires(PerPort(n, addTurns), B1)
  <2>1. ASSUME NEW p \in 0 .. n - 1 PROVE Wires(addTurns[p], addEach[p])
    BY WiresOne
  <2>2. ASSUME NEW p \in 0 .. n - 1, NEW q \in 0 .. n - 1, p < q
        PROVE  Elsewhere(addEach[p], addEach[q])
    BY <2>2, PortFacts DEF Elsewhere, Self
  <2> HIDE DEF addTurns, addEach
  <2> QED
    BY <2>1, <2>2, WiresPerPort
<1>3. Wires(combine, B)
  <2>1. Wires(<<One>>, {One}) /\ Wires(<<Sum>>, {Sum})
    BY WiresOne
  <2>2. Elsewhere(B1, {Sum})
    BY PortFacts DEF Elsewhere, Self
  <2>3. Wires(PerPort(n, addTurns) \o <<Sum>>, B1 \cup {Sum})
    <3> HIDE DEF addTurns, B1, Sum
    <3> QED
      BY <1>2, <2>1, <2>2, WiresConcat
  <2> HIDE DEF addTurns, B1, Sum, One
  <2> QED
    BY <2>1, <2>3
<1>4. Wires(chain, C)
  <2>1. P2 # P3 /\ P2 # P4 /\ P3 # P4
    BY PortFacts
  <2> HIDE DEF P1, P2, P3, P4
  <2> QED
    BY <2>1, ChainFour
<1>5. Wires(<<Data>>, {Data})
  BY WiresOne
<1> DEFINE made == ((A \cup B) \cup C) \cup {Data}
           calls == ((PerPort(n, turns) \o combine) \o chain) \o <<Data>>
<1>6. Wires(calls, made)
  <2>1. Elsewhere(A, B)
    BY PortFacts DEF Elsewhere, Self
  <2>2. Elsewhere(A \cup B, C)
    BY PortFacts DEF Elsewhere, Self
  <2>3. Elsewhere((A \cup B) \cup C, {Data})
    BY PortFacts DEF Elsewhere, Self
  <2> HIDE DEF A, B, C, Data, turns, combine, chain
  <2>4. Wires(PerPort(n, turns) \o combine, A \cup B)
    BY <1>1, <1>3, <2>1, WiresConcat
  <2>5. Wires((PerPort(n, turns) \o combine) \o chain, (A \cup B) \cup C)
    BY <1>4, <2>2, <2>4, WiresConcat
  <2> QED
    BY <1>5, <2>3, <2>5, WiresConcat
<1>7. UpperReceiverCalls(n) = calls
  BY DEF UpperReceiverCalls
<1>8. AllFit(n, 1 + n, made)
  BY PortFacts DEF AllFit, Fits, Self
<1>9. /\ Data \in made /\ Data.to = Of(Self, 0) /\ Data.from = Of("fec_generic_decoder", 0)
      /\ \A p \in 0 .. n - 1 : /\ Llr(p) \in made /\ Llr(p).to = Of(Self, 1 + p)
                               /\ Llr(p).from = Nth("symbol_demapper", p, 0)
  BY PortFacts
<1> DEFINE block == UpperPhyReceiver(n)
<1>10. IsWired(block, 1 + n, made)
  <2> HIDE DEF made, calls
  <2> QED
    BY <1>6, <1>7, <1>8, WiredBlock DEF UpperPhyReceiver
<1>11. AntennasApart(block, n)
  <2>1. \A c \in made :
          c.to[1] \in PerAntenna \cup {"synchronizer", "demodulator", "upper_phy",
                                       "xfdm_sync_sync_tag_align_cc", "tacmac_phy_receiver"}
            => AntennaOf(c.from, n) = AntennaOf(c.to, n)
    <3>1. \A p \in 0 .. n - 1 : p % n = p
      BY Groups
    <3> QED
      BY <3>1, PortFacts DEF PerAntenna, AntennaOf, Self
  <2> HIDE DEF made, block
  <2> QED
    BY <1>10, <2>1 DEF AntennasApart, IsWired
<1> HIDE DEF made, block, Llr, Data
<1>12. /\ block.raised = FALSE /\ block.outputs = 1 + n
       /\ IsFed(block, 0) /\ Behind(block, 0) = Of("fec_generic_decoder", 0)
       /\ \A p \in 0 .. n - 1 :
            IsFed(block, 1 + p) /\ Behind(block, 1 + p) = Nth("symbol_demapper", p, 0)
  BY <1>9, <1>10 DEF IsWired
<1> QED
  BY <1>11, <1>12 DEF block

LEMMA UpperTransmitterFacts ==
    /\ UpperPhyTransmitter.raised = FALSE /\ UpperPhyTransmitter.outputs = 1
    /\ IsFed(UpperPhyTransmitter, 0)
    /\ Behind(UpperPhyTransmitter, 0) = Of("symbol_mapper", 0)
<1> DEFINE P1 == Of("pdu_to_tagged_stream", 0)
           P2 == Of("fec_generic_encoder", 0)
           P3 == Of("interleaver", 0)
           P4 == Of("symbol_mapper", 0)
           P5 == Of(Self, 0)
           made == {Connection(P1, P2), Connection(P2, P3), Connection(P3, P4), Connection(P4, P5)}
<1>1. Wires(Chain(<<P1, P2, P3, P4, P5>>), made)
  <2>1. P2 # P3 /\ P2 # P4 /\ P2 # P5 /\ P3 # P4 /\ P3 # P5 /\ P4 # P5
    BY PortFacts DEF Self
  <2> HIDE DEF P1, P2, P3, P4, P5
  <2> QED
    BY <2>1, ChainFive
<1>2. AllFit(0, 1, made)
  BY PortFacts DEF AllFit, Fits, Self
<1> DEFINE Out == Connection(P4, P5)
<1>3. Out \in made /\ Out.to = Of(Self, 0) /\ Out.from = Of("symbol_mapper", 0)
  BY PortFacts
<1> DEFINE block == UpperPhyTransmitter
<1>4. IsWired(block, 1, made)
  <2> HIDE DEF made
  <2> QED
    BY <1>1, <1>2, WiredBlock DEF UpperPhyTransmitter
<1> HIDE DEF made, block, Out
<1>5. /\ block.raised = FALSE /\ block.outputs = 1
      /\ IsFed(block, 0) /\ Behind(block, 0) = Of("symbol_mapper", 0)
  BY <1>3, <1>4 DEF IsWired
<1> QED
  BY <1>5 DEF block

LEMMA LowerReceiverFacts ==
    ASSUME NEW n \in Nat \ {0}
    PROVE  /\ LowerPhyReceiver(n).raised = FALSE /\ LowerPhyReceiver(n).outputs = 1 + 5 * n
           /\ IsFed(LowerPhyReceiver(n), 0)
           /\ Behind(LowerPhyReceiver(n), 0)
                = IF n < 2 THEN Nth("symbol_demapper", 0, 0) ELSE Of("blocks_add_xx", 0)
           /\ \A p \in 0 .. n - 1 :
                /\ IsFed(LowerPhyReceiver(n), 1 + p)
                /\ Behind(LowerPhyReceiver(n), 1 + p) = Nth("symbol_demapper", p, 0)
                /\ IsFed(LowerPhyReceiver(n), 1 + n + p)
                /\ Behind(LowerPhyReceiver(n), 1 + n + p) = Nth("xfdm_sync_synchronizer", p, 1)
                /\ IsFed(LowerPhyReceiver(n), 1 + 2 * n + p)
                /\ Behind(LowerPhyReceiver(n), 1 + 2 * n + p)
                     = IF n < 2 THEN Nth("xfdm_sync_synchronizer", p, 0)
                       ELSE Of("xfdm_sync_sync_tag_align_cc", p)
                /\ IsFed(LowerPhyReceiver(n), 1 + 3 * n + p)
                /\ Behind(LowerPhyReceiver(n), 1 + 3 * n + p) = Nth("gfdm_receiver", p, 1)
                /\ IsFed(LowerPhyReceiver(n), 1 + 4 * n + p)
                /\ Behind(LowerPhyReceiver(n), 1 + 4 * n + p) = Nth("gfdm_receiver", p, 0)
           /\ AntennasApart(LowerPhyReceiver(n), n)
<1> DEFINE Sync(antenna, port) == Nth("xfdm_sync_synchronizer", antenna, port)
           Gfdm(antenna, port) == Nth("gfdm_receiver", antenna, port)
           Demap(antenna, port) == Nth("symbol_demapper", antenna, port)
           Align(port) == Of("xfdm_sync_sync_tag_align_cc", port)
           In(p) == Connection(Of(Self, p), Sync(p, 0))
           Corr(p) == Connection(Sync(p, 1), Of(Self, 1 + n + p))
           syncTurns == [p \in 0 .. n - 1 |-> <<In(p), Corr(p)>>]
           syncEach == [p \in 0 .. n - 1 |-> {In(p), Corr(p)}]
           A == UNION { syncEach[p] : p \in 0 .. n - 1 }
           Symbol(p) == Connection(Gfdm(p, 0), Of(Self, 1 + 4 * n + p))
           Estimate(p) == Connection(Gfdm(p, 1), Of(Self, 1 + 3 * n + p))
           gfdmTurns == [p \in 0 .. n - 1 |-> <<Symbol(p), Estimate(p)>>]
           gfdmEach == [p \in 0 .. n - 1 |-> {Symbol(p), Estimate(p)}]
           B == UNION { gfdmEach[p] : p \in 0 .. n - 1 }
           Alone(p) == Connection(Sync(p, 0), Of(Self, 1 + 2 * n + p))
           Direct(p) == Connection(Sync(p, 0), Gfdm(p, 0))
           ToAlign(p) == Connection(Sync(p, 0), Align(p))
           Aligned(p) == Connection(Align(p), Of(Self, 1 + 2 * n + p))
           AfterAlign(p) == Connection(Align(p), Gfdm(p, 0))
           alignTurns == [p \in 0 .. n - 1 |->
               IF n < 2 THEN <<Alone(p), Direct(p)>>
               ELSE Chain(<<Sync(p, 0), Align(p), Of(Self, 1 + 2 * n + p)>>) \o <<AfterAlign(p)>>]
           alignEach == [p \in 0 .. n - 1 |->
               IF n < 2 THEN {Alone(p), Direct(p)} ELSE {ToAlign(p), Aligned(p)} \cup {AfterAlign(p)}]
           C == UNION { alignEach[p] : p \in 0 .. n - 1 }
           ToDemap(p) == Connection(Gfdm(p, 0), Demap(p, 0))
           Llr(p) == Connection(Demap(p, 0), Of(Self, 1 + p))
           demapTurns == [p \in 0 .. n - 1 |-> <<ToDemap(p), Llr(p)>>]
           demapEach == [p \in 0 .. n - 1 |-> {ToDemap(p), Llr(p)}]
           D == UNION { demapEach[p] : p \in 0 .. n - 1 }
           One == Connection(Demap(0, 0), Of(Self, 0))
           Add(p) == Connection(Demap(p, 0), Of("blocks_add_xx", p))
           addTurns == [p \in 0 .. n - 1 |-> <<Add(p)>>]
           addEach == [p \in 0 .. n - 1 |-> {Add(p)}]
           E1 == UNION { addEach[p] : p \in 0 .. n - 1 }
           Sum == Connection(Of("blocks_add_xx", 0), Of(Self, 0))
           combine == IF n < 2 THEN <<One>> ELSE PerPort(n, addTurns) \o <<Sum>>
           E == IF n < 2 THEN {One} ELSE E1 \cup {Sum}
<1>1. Wires(PerPort(n, syncTurns), A)
  <2>1. ASSUME NEW p \in 0 .. n - 1 PROVE Wires(syncTurns[p], syncEach[p])
    <3>1. In(p).to # Corr(p).to
      BY PortFacts DEF Self
    <3>2. syncTurns[p] = <<In(p), Corr(p)>> /\ syncEach[p] = {In(p), Corr(p)}
      OBVIOUS
    <3> HIDE DEF In, Corr, syncTurns, syncEach
    <3> QED
      BY <3>1, <3>2, WiresTwo
  <2>2. ASSUME NEW p \in 0 .. n - 1, NEW q \in 0 .. n - 1, p < q
        PROVE  Elsewhere(syncEach[p], syncEach[q])
    BY <2>2, PortFacts DEF Elsewhere, Self
  <2> HIDE DEF syncTurns, syncEach
  <2> QED
    BY <2>1, <2>2, WiresPerPort
<1>2. Wires(PerPort(n, gfdmTurns), B)
  <2>1. ASSUME NEW p \in 0 .. n - 1 PROVE Wires(gfdmTurns[p], gfdmEach[p])
    <3>1. Symbol(p).to # Estimate(p).to
      BY PortFacts DEF Self
    <3>2. gfdmTurns[p] = <<Symbol(p), Estimate(p)>> /\ gfdmEach[p] = {Symbol(p), Estimate(p)}
      OBVIOUS
    <3> HIDE DEF Symbol, Estimate, gfdmTurns, gfdmEach
    <3> QED
      BY <3>1, <3>2, WiresTwo
  <2>2. ASSUME NEW p \in 0 .. n - 1, NEW q \in 0 .. n - 1, p < q
        PROVE  Elsewhere(gfdmEach[p], gfdmEach[q])
    BY <2>2, PortFacts DEF Elsewhere, Self
  <2> HIDE DEF gfdmTurns, gfdmEach
  <2> QED
    BY <2>1, <2>2, WiresPerPort
<1>3. Wires(PerPort(n, alignTurns), C)
  <2>1. ASSUME NEW p \in 0 .. n - 1 PROVE Wires(alignTurns[p], alignEach[p])
    <3>1. CASE n < 2
      <4>1. Alone(p).to # Direct(p).to
        BY PortFacts DEF Self
      <4>2. alignTurns[p] = <<Alone(p), Direct(p)>> /\ alignEach[p] = {Alone(p), Direct(p)}
        BY <3>1
      <4> HIDE DEF Alone, Direct, alignTurns, alignEach
      <4> QED
        BY <4>1, <4>2, WiresTwo
    <3>2. CASE ~(n < 2)
      <4> DEFINE port == Of(Self, 1 + 2 * n + p)
                 chain == Chain(<<Sync(p, 0), Align(p), port>>)
                 two == {ToAlign(p), Aligned(p)}
      <4>1. alignTurns[p] = chain \o <<AfterAlign(p)>> /\ alignEach[p] = two \cup {AfterAlign(p)}
        BY <3>2
      <4>2. Wires(chain, two)
        <5>1. Align(p) # port
          BY PortFacts DEF Self
        <5> DEFINE a == Sync(p, 0)
                   b == Align(p)
        <5>2. ToAlign(p) = Connection(a, b) /\ Aligned(p) = Connection(b, port)
          OBVIOUS
        <5> HIDE DEF a, b, port
        <5>3. Wires(Chain(<<a, b, port>>), {Connection(a, b), Connection(b, port)})
          BY <5>1, ChainThree DEF b
        <5> QED
          BY <5>2, <5>3 DEF a, b
      <4>3. Wires(<<AfterAlign(p)>>, {AfterAlign(p)})
        BY WiresOne
      <4>4. Elsewhere(two, {AfterAlign(p)})
        BY PortFacts DEF Elsewhere, Self
      <4> HIDE DEF chain, two, AfterAlign, alignTurns, alignEach
      <4> QED
        BY <4>1, <4>2, <4>3, <4>4, WiresConcat
    <3> QED
      BY <3>1, <3>2
  <2>2. ASSUME NEW p \in 0 .. n - 1, NEW q \in 0 .. n - 1, p < q
        PROVE  Elsewhere(alignEach[p], alignEach[q])
    BY <2>2, PortFacts DEF Elsewhere, Self
  <2> HIDE DEF alignTurns, alignEach
  <2> QED
    BY <2>1, <2>2, WiresPerPort
<1>4. Wires(PerPort(n, demapTurns), D)
  <2>1. ASSUME NEW p \in 0 .. n - 1 PROVE Wires(demapTurns[p], demapEach[p])
    <3>1. ToDemap(p).to # Llr(p).to
      BY PortFacts DEF Self
    <3>2. demapTurns[p] = <<ToDemap(p), Llr(p)>> /\ demapEach[p] = {ToDemap(p), Llr(p)}
      OBVIOUS
    <3> HIDE DEF ToDemap, Llr, demapTurns, demapEach
    <3> QED
      BY <3>1, <3>2, WiresTwo
  <2>2. ASSUME NEW p \in 0 .. n - 1, NEW q \in 0 .. n - 1, p < q
        PROVE  Elsewhere(demapEach[p], demapEach[q])
    BY <2>2, PortFacts DEF Elsewhere, Self
  <2> HIDE DEF demapTurns, demapEach
  <2> QED
    BY <2>1, <2>2, WiresPerPort
<1>5. Wires(combine, E)
  <2>1. Wires(PerPort(n, addTurns), E1)
    <3>1. ASSUME NEW p \in 0 .. n - 1 PROVE Wires(addTurns[p], addEach[p])
      BY WiresOne
    <3>2. ASSUME NEW p \in 0 .. n - 1, NEW q \in 0 .. n - 1, p < q
          PROVE  Elsewhere(addEach[p], addEach[q])
      BY <3>2, PortFacts DEF Elsewhere, Self
    <3> HIDE DEF addTurns, addEach
    <3> QED
      BY <3>1, <3>2, WiresPerPort
  <2>2. Wires(<<One>>, {One}) /\ Wires(<<Sum>>, {Sum})
    BY WiresOne
  <2>3. Elsewhere(E1, {Sum})
    BY PortFacts DEF Elsewhere, Self
  <2>4. Wires(PerPort(n, addTurns) \o <<Sum>>, E1 \cup {Sum})
    <3> HIDE DEF addTurns, E1, Sum
    <3> QED
      BY <2>1, <2>2, <2>3, WiresConcat
  <2> HIDE DEF addTurns, E1, Sum, One
  <2> QED
    BY <2>2, <2>4
<1> DEFINE made == (((A \cup B) \cup C) \cup D) \cup E
           calls == (((PerPort(n, syncTurns) \o PerPort(n, gfdmTurns)) \o PerPort(n, alignTurns))
                        \o PerPort(n, demapTurns)) \o combine
<1>6. Wires(calls, made)
  <2>1. Elsewhere(A, B)
    BY PortFacts DEF Elsewhere, Self
  <2>2. Elsewhere(A, C) /\ Elsewhere(B, C)
    <3>1. Elsewhere(A, C)
      BY PortFacts DEF Elsewhere, Self
    <3>2. Elsewhere(B, C)
      BY PortFacts DEF Elsewhere, Self
    <3> QED
      BY <3>1, <3>2
  <2>3. Elsewhere(A, D) /\ Elsewhere(B, D) /\ Elsewhere(C, D)
    <3>1. Elsewhere(A, D)
      BY PortFacts DEF Elsewhere, Self
    <3>2. Elsewhere(B, D)
      BY PortFacts DEF Elsewhere, Self
    <3>3. Elsewhere(C, D)
      BY PortFacts DEF Elsewhere, Self
    <3> QED
      BY <3>1, <3>2, <3>3
  <2>4. Elsewhere(A, E) /\ Elsewhere(B, E) /\ Elsewhere(C, E) /\ Elsewhere(D, E)
    <3>1. Elsewhere(A, E)
      BY PortFacts DEF Elsewhere, Self
    <3>2. Elsewhere(B, E)
      BY PortFacts DEF Elsewhere, Self
    <3>3. Elsewhere(C, E)
      BY PortFacts DEF Elsewhere, Self
    <3>4. Elsewhere(D, E)
      BY PortFacts DEF Elsewhere, Self
    <3> QED
      BY <3>1, <3>2, <3>3, <3>4
  <2> HIDE DEF A, B, C, D, E, syncTurns, gfdmTurns, alignTurns, demapTurns, combine
  <2>5. Elsewhere(A \cup B, C) /\ Elsewhere((A \cup B) \cup C, D)
        /\ Elsewhere(((A \cup B) \cup C) \cup D, E)
    BY <2>2, <2>3, <2>4 DEF Elsewhere
  <2>6. Wires(PerPort(n, syncTurns) \o PerPort(n, gfdmTurns), A \cup B)
    BY <1>1, <1>2, <2>1, WiresConcat
  <2>7. Wires((PerPort(n, syncTurns) \o PerPort(n, gfdmTurns)) \o PerPort(n, alignTurns), (A \cup B) \cup C)
    BY <1>3, <2>5, <2>6, WiresConcat
  <2>8. Wires(((PerPort(n, syncTurns) \o PerPort(n, gfdmTurns)) \o PerPort(n, alignTurns))
                 \o PerPort(n, demapTurns), ((A \cup B) \cup C) \cup D)
    BY <1>4, <2>5, <2>7, WiresConcat
  <2> QED
    BY <1>5, <2>5, <2>8, WiresConcat
<1>7. LowerReceiverCalls(n) = calls
  BY DEF LowerReceiverCalls
<1>8. AllFit(n, 1 + 5 * n, made)
  <2>1. AllFit(n, 1 + 5 * n, A)
    BY PortFacts DEF AllFit, Fits, Self
  <2>2. AllFit(n, 1 + 5 * n, B)
    BY PortFacts DEF AllFit, Fits, Self
  <2>3. AllFit(n, 1 + 5 * n, C)
    BY PortFacts DEF AllFit, Fits, Self
  <2>4. AllFit(n, 1 + 5 * n, D)
    BY PortFacts DEF AllFit, Fits, Self
  <2>5. AllFit(n, 1 + 5 * n, E)
    BY PortFacts DEF AllFit, Fits, Self
  <2> HIDE DEF A, B, C, D, E
  <2> QED
    BY <2>1, <2>2, <2>3, <2>4, <2>5 DEF AllFit
<1> DEFINE Combined == IF n < 2 THEN One ELSE Sum
           Middle(p) == IF n < 2 THEN Alone(p) ELSE Aligned(p)
<1>9. /\ Combined \in made /\ Combined.to = Of(Self, 0)
      /\ Combined.from = IF n < 2 THEN Nth("symbol_demapper", 0, 0) ELSE Of("blocks_add_xx", 0)
  BY PortFacts
<1>10. ASSUME NEW p \in 0 .. n - 1
       PROVE  /\ Llr(p) \in made /\ Llr(p).to = Of(Self, 1 + p)
              /\ Llr(p).from = Nth("symbol_demapper", p, 0)
              /\ Corr(p) \in made /\ Corr(p).to = Of(Self, 1 + n + p)
              /\ Corr(p).from = Nth("xfdm_sync_synchronizer", p, 1)
              /\ Middle(p) \in made /\ Middle(p).to = Of(Self, 1 + 2 * n + p)
              /\ Middle(p).from = IF n < 2 THEN Nth("xfdm_sync_synchronizer", p, 0)
                                  ELSE Of("xfdm_sync_sync_tag_align_cc", p)
              /\ Estimate(p) \in made /\ Estimate(p).to = Of(Self, 1 + 3 * n + p)
              /\ Estimate(p).from = Nth("gfdm_receiver", p, 1)
              /\ Symbol(p) \in made /\ Symbol(p).to = Of(Self, 1 + 4 * n + p)
              /\ Symbol(p).from = Nth("gfdm_receiver", p, 0)
  BY PortFacts
<1> DEFINE block == LowerPhyReceiver(n)
<1>11. IsWired(block, 1 + 5 * n, made)
  <2> HIDE DEF made, calls
  <2> QED
    BY <1>6, <1>7, <1>8, WiredBlock DEF LowerPhyReceiver
<1>12. AntennasApart(block, n)
  <2>1. \A c \in made :
          c.to[1] \in PerAntenna \cup {"synchronizer", "demodulator", "upper_phy",
                                       "xfdm_sync_sync_tag_align_cc", "tacmac_phy_receiver"}
            => AntennaOf(c.from, n) = AntennaOf(c.to, n)
    <3>1. \A p \in 0 .. n - 1 : p % n = p
      BY Groups
    <3> QED
      BY <3>1, PortFacts DEF PerAntenna, AntennaOf, Self
  <2> HIDE DEF made, block
  <2> QED
    BY <1>11, <2>1 DEF AntennasApart, IsWired
<1> HIDE DEF made, block, Combined, Middle, Llr, Corr, Estimate, Symbol
<1>13. /\ block.raised = FALSE /\ block.outputs = 1 + 5 * n
       /\ IsFed(block, 0)
       /\ Behind(block, 0) = IF n < 2 THEN Nth("symbol_demapper", 0, 0) ELSE Of("blocks_add_xx", 0)
  BY <1>9, <1>11 DEF IsWired
<1>14. ASSUME NEW p \in 0 .. n - 1
       PROVE  /\ IsFed(block, 1 + p) /\ Behind(block, 1 + p) = Nth("symbol_demapper", p, 0)
              /\ IsFed(block, 1 + n + p)
              /\ Behind(block, 1 + n + p) = Nth("xfdm_sync_synchronizer", p, 1)
              /\ IsFed(block, 1 + 2 * n + p)
              /\ Behind(block, 1 + 2 * n + p)
                   = IF n < 2 THEN Nth("xfdm_sync_synchronizer", p, 0)
                     ELSE Of("xfdm_sync_sync_tag_align_cc", p)
              /\ IsFed(block, 1 + 3 * n + p)
              /\ Behind(block, 1 + 3 * n + p) = Nth("gfdm_receiver", p, 1)
              /\ IsFed(block, 1 + 4 * n + p)
              /\ Behind(block, 1 + 4 * n + p) = Nth("gfdm_receiver", p, 0)
  BY <1>10, <1>11 DEF IsWired
<1> QED
  BY <1>12, <1>13, <1>14 DEF block

\* The connections from the transmitter and the receiver to the layer's outputs.
LayerConnects(layer, n) ==
    \A i \in 0 .. n - 1 :
       /\ IsFed(layer, i) /\ Behind(layer, i) = Of("tacmac_phy_transmitter", i)
       /\ IsFed(layer, n + i) /\ Behind(layer, n + i) = Of("tacmac_phy_receiver", n + i)
       /\ IsFed(layer, 2 * n + i) /\ Behind(layer, 2 * n + i) = Of("tacmac_phy_receiver", i)
       /\ IsFed(layer, 3 * n + i)
       /\ Behind(layer, 3 * n + i) = Of("tacmac_phy_receiver", 3 * n + i)
       /\ IsFed(layer, 4 * n + i)
       /\ Behind(layer, 4 * n + i) = Of("tacmac_phy_receiver", 4 * n + i)

\* A layer with as many transmit as receive channels is made as labelled; any other raises.
LEMMA LayerFacts ==
    ASSUME NEW tx \in Nat \ {0}, NEW rx \in Nat \ {0}
    PROVE  /\ PhyLayerBlock(tx, rx).raised = (tx # rx)
           /\ PhyLayerBlock(tx, rx).outputs = tx + 4 * rx
           /\ AntennasApart(PhyLayerBlock(tx, rx), rx)
           /\ tx = rx => LayerConnects(PhyLayerBlock(tx, rx), rx)
<1> DEFINE Sink(i) == Connection(Of("tacmac_phy_transmitter", i), Of("uhd_usrp_sink", i))
           Shown(i) == Connection(Of("tacmac_phy_transmitter", i), Of(Self, i))
           txTurns == [i \in 0 .. tx - 1 |-> <<Sink(i), Shown(i)>>]
           txEach == [i \in 0 .. tx - 1 |-> {Sink(i), Shown(i)}]
           A == UNION { txEach[p] : p \in 0 .. tx - 1 }
           Tags == Connection(Of("tacmac_phy_transmitter", 0), Of("tacmac_tags_to_msg_dict", 0))
           Time == Connection(Of("uhd_usrp_source", 0), Of("tacmac_periodic_time_tag_cc", 0))
           B == {Tags, Time}
           Source(i) == Connection(Of("uhd_usrp_source", i), Of("tacmac_phy_receiver", i))
           rxTurns == [i \in 0 .. rx - 1 |-> <<Source(i)>>]
           rxEach == [i \in 0 .. rx - 1 |-> {Source(i)}]
           C == UNION { rxEach[p] : p \in 0 .. rx - 1 }
           Corr(i) == Connection(Of("tacmac_phy_receiver", rx + i), Of(Self, rx + i))
           Synced(i) == Connection(Of("tacmac_phy_receiver", i), Of(Self, 2 * rx + i))
           Estimate(i) == Connection(Of("tacmac_phy_receiver", 3 * rx + i), Of(Self, 3 * rx + i))
           Symbol(i) == Connection(Of("tacmac_phy_receiver", 4 * rx + i), Of(Self, 4 * rx + i))
           outTurns == [i \in 0 .. rx - 1 |-> <<Corr(i), Synced(i), Estimate(i), Symbol(i)>>]
           outEach == [i \in 0 .. rx - 1 |-> {Corr(i), Synced(i), Estimate(i), Symbol(i)}]
           D == UNION { outEach[p] : p \in 0 .. rx - 1 }
<1>1. Wires(PerPort(tx, txTurns), A)
  <2>1. ASSUME NEW p \in 0 .. tx - 1 PROVE Wires(txTurns[p], txEach[p])
    <3>1. Sink(p).to # Shown(p).to
      BY PortFacts DEF Self
    <3>2. txTurns[p] = <<Sink(p), Shown(p)>> /\ txEach[p] = {Sink(p), Shown(p)}
      OBVIOUS
    <3> HIDE DEF Sink, Shown, txTurns, txEach
    <3> QED
      BY <3>1, <3>2, WiresTwo
  <2>2. ASSUME NEW p \in 0 .. tx - 1, NEW q \in 0 .. tx - 1, p < q
        PROVE  Elsewhere(txEach[p], txEach[q])
    BY <2>2, PortFacts DEF Elsewhere, Self
  <2> HIDE DEF txTurns, txEach
  <2> QED
    BY <2>1, <2>2, WiresPerPort
<1>2. Wires(<<Tags, Time>>, B)
  <2>1. Tags.to # Time.to
    BY PortFacts
  <2> HIDE DEF Tags, Time
  <2> QED
    BY <2>1, WiresTwo
<1>3. Wires(PerPort(rx, rxTurns), C)
  <2>1. ASSUME NEW p \in 0 .. rx - 1 PROVE Wires(rxTurns[p], rxEach[p])
    BY WiresOne
  <2>2. ASSUME NEW p \in 0 .. rx - 1, NEW q \in 0 .. rx - 1, p < q
        PROVE  Elsewhere(rxEach[p], rxEach[q])
    BY <2>2, PortFacts DEF Elsewhere, Self
  <2> HIDE DEF rxTurns, rxEach
  <2> QED
    BY <2>1, <2>2, WiresPerPort
<1>4. Wires(PerPort(rx, outTurns), D)
  <2>1. ASSUME NEW p \in 0 .. rx - 1 PROVE Wires(outTurns[p], outEach[p])
    <3>1. /\ Corr(p).to # Synced(p).to /\ Corr(p).to # Estimate(p).to /\ Corr(p).to # Symbol(p).to
          /\ Synced(p).to # Estimate(p).to /\ Synced(p).to # Symbol(p).to
          /\ Estimate(p).to # Symbol(p).to
      BY PortFacts DEF Self
    <3>2. /\ outTurns[p] = <<Corr(p), Synced(p), Estimate(p), Symbol(p)>>
          /\ outEach[p] = {Corr(p), Synced(p), Estimate(p), Symbol(p)}
      OBVIOUS
    <3> HIDE DEF Corr, Synced, Estimate, Symbol, outTurns, outEach
    <3> QED
      BY <3>1, <3>2, WiresFour
  <2>2. ASSUME NEW p \in 0 .. rx - 1, NEW q \in 0 .. rx - 1, p < q
        PROVE  Elsewhere(outEach[p], outEach[q])
    BY <2>2, PortFacts DEF Elsewhere, Self
  <2> HIDE DEF outTurns, outEach
  <2> QED
    BY <2>1, <2>2, WiresPerPort
<1> DEFINE first == (PerPort(tx, txTurns) \o <<Tags, Time>>) \o PerPort(rx, rxTurns)
           calls == first \o PerPort(rx, outTurns)
           inside == (A \cup B) \cup C
           made == inside \cup D
           outputs == tx + 4 * rx
           layer == PhyLayerBlock(tx, rx)
<1>5. Wires(first, inside)
  <2>1. Elsewhere(A, B)
    BY PortFacts DEF Elsewhere, Self
  <2>2. Elsewhere(A \cup B, C)
    BY PortFacts DEF Elsewhere, Self
  <2> HIDE DEF A, B, C, txTurns, rxTurns, Tags, Time
  <2>3. Wires(PerPort(tx, txTurns) \o <<Tags, Time>>, A \cup B)
    BY <1>1, <1>2, <2>1, WiresConcat
  <2> QED
    BY <1>3, <2>2, <2>3, WiresConcat
<1>6. layer = Constructed(0, outputs, calls)
  BY DEF PhyLayerBlock, LayerCalls
<1>7. Holds(first, inside) /\ Holds(PerPort(rx, outTurns), D) /\ Holds(calls, made)
  <2>1. Holds(first, inside) /\ Holds(PerPort(rx, outTurns), D)
    BY <1>4, <1>5 DEF Wires
  <2> HIDE DEF first, inside, D, outTurns
  <2> QED
    BY <2>1, HoldsConcat
<1>8. /\ layer.outputs = outputs /\ layer.made \subseteq made
      /\ ~AllFit(0, outputs, made) => layer.raised = TRUE
      /\ ~Apart(calls) => layer.raised = TRUE
  <2> HIDE DEF calls, made, outputs, layer
  <2>1. IsPartlyMade(layer, 0, outputs, calls, made)
    BY <1>6, <1>7, NotAllMade
  <2> QED
    BY <2>1 DEF IsPartlyMade
<1>9. AntennasApart(layer, rx)
  <2>1. \A c \in made :
          c.to[1] \in PerAntenna \cup {"synchronizer", "demodulator", "upper_phy",
                                       "xfdm_sync_sync_tag_align_cc", "tacmac_phy_receiver"}
            => AntennaOf(c.from, rx) = AntennaOf(c.to, rx)
    BY PortFacts DEF PerAntenna, AntennaOf, Self
  <2> HIDE DEF made, layer
  <2> QED
    BY <1>8, <2>1 DEF AntennasApart
<1>10. CASE tx < rx
  <2>1. Symbol(rx - 1) \in made /\ ~Fits(0, outputs, Symbol(rx - 1))
    <3>1. rx - 1 \in 0 .. rx - 1 /\ 4 * rx + (rx - 1) \notin 0 .. outputs - 1
      BY <1>10
    <3>2. Symbol(rx - 1) \in D
      BY <3>1
    <3>3. Symbol(rx - 1).to[1] = Self /\ Symbol(rx - 1).to[3] = 4 * rx + (rx - 1)
      BY PortFacts
    <3> HIDE DEF D, Symbol, outputs
    <3> QED
      BY <3>1, <3>2, <3>3 DEF Fits
  <2>2. layer.raised = TRUE
    <3> HIDE DEF made, outputs, layer, Symbol
    <3> QED
      BY <1>8, <2>1 DEF AllFit
  <2> HIDE DEF layer
  <2>3. layer.raised = (tx # rx) /\ tx # rx
    <3>1. tx # rx
      BY <1>10
    <3> QED
      BY <2>2, <3>1, Zenon
  <2> QED
    BY <1>8, <1>9, <2>3 DEF layer
<1>11. CASE rx < tx
  <2>1. Shown(rx) \in inside /\ Corr(0) \in D
    <3>1. rx \in 0 .. tx - 1 /\ 0 \in 0 .. rx - 1
      BY <1>11
    <3> QED
      BY <3>1
  <2>2. Shown(rx).to = Corr(0).to
    BY PortFacts
  <2>3. ~Apart(calls)
    <3> HIDE DEF first, inside, D, outTurns, Shown, Corr
    <3> QED
      BY <1>7, <2>1, <2>2, NotApart
  <2>4. layer.raised = TRUE
    <3> HIDE DEF calls, layer, made, outputs
    <3> QED
      BY <1>8, <2>3
  <2> HIDE DEF layer
  <2>5. layer.raised = (tx # rx) /\ tx # rx
    <3>1. tx # rx
      BY <1>11
    <3> QED
      BY <2>4, <3>1, Zenon
  <2> QED
    BY <1>8, <1>9, <2>5 DEF layer
<1>12. CASE tx = rx
  <2>1. Wires(calls, made)
    <3>1. Elsewhere(A, D)
      BY <1>12, PortFacts DEF Elsewhere, Self
    <3>2. Elsewhere(B, D)
      BY PortFacts DEF Elsewhere, Self
    <3>3. Elsewhere(C, D)
      BY PortFacts DEF Elsewhere, Self
    <3> HIDE DEF A, B, C, D, first, outTurns
    <3>4. Elsewhere(inside, D)
      BY <3>1, <3>2, <3>3 DEF Elsewhere
    <3> HIDE DEF inside
    <3> QED
      BY <1>4, <1>5, <3>4, WiresConcat
  <2>2. AllFit(0, outputs, made)
    <3>1. AllFit(0, outputs, A)
      BY <1>12, PortFacts DEF AllFit, Fits, Self
    <3>2. AllFit(0, outputs, B)
      BY PortFacts DEF AllFit, Fits, Self
    <3>3. AllFit(0, outputs, C)
      BY PortFacts DEF AllFit, Fits, Self
    <3>4. AllFit(0, outputs, D)
      BY <1>12, PortFacts DEF AllFit, Fits, Self
    <3> HIDE DEF A, B, C, D
    <3> QED
      BY <3>1, <3>2, <3>3, <3>4 DEF AllFit
  <2>3. IsWired(layer, outputs, made)
    <3> HIDE DEF made, calls, outputs, layer
    <3> QED
      BY <1>6, <2>1, <2>2, WiredBlock
  <2>4. ASSUME NEW i \in 0 .. rx - 1
        PROVE  /\ Shown(i) \in made /\ Shown(i).to = Of(Self, i)
               /\ Shown(i).from = Of("tacmac_phy_transmitter", i)
               /\ Corr(i) \in made /\ Corr(i).to = Of(Self, rx + i)
               /\ Corr(i).from = Of("tacmac_phy_receiver", rx + i)
               /\ Synced(i) \in made /\ Synced(i).to = Of(Self, 2 * rx + i)
               /\ Synced(i).from = Of("tacmac_phy_receiver", i)
               /\ Estimate(i) \in made /\ Estimate(i).to = Of(Self, 3 * rx + i)
               /\ Estimate(i).from = Of("tacmac_phy_receiver", 3 * rx + i)
               /\ Symbol(i) \in made /\ Symbol(i).to = Of(Self, 4 * rx + i)
               /\ Symbol(i).from = Of("tacmac_phy_receiver", 4 * rx + i)
    BY <1>12, PortFacts
  <2> HIDE DEF made, layer, Shown, Corr, Synced, Estimate, Symbol
  <2>5. ASSUME NEW i \in 0 .. rx - 1
        PROVE  /\ IsFed(layer, i) /\ Behind(layer, i) = Of("tacmac_phy_transmitter", i)
               /\ IsFed(layer, rx + i)
               /\ Behind(layer, rx + i) = Of("tacmac_phy_receiver", rx + i)
               /\ IsFed(layer, 2 * rx + i)
               /\ Behind(layer, 2 * rx + i) = Of("tacmac_phy_receiver", i)
               /\ IsFed(layer, 3 * rx + i)
               /\ Behind(layer, 3 * rx + i) = Of("tacmac_phy_receiver", 3 * rx + i)
               /\ IsFed(layer, 4 * rx + i)
               /\ Behind(layer, 4 * rx + i) = Of("tacmac_phy_receiver", 4 * rx + i)
    BY <2>3, <2>4 DEF IsWired
  <2>6. layer.raised = (tx # rx)
    BY <1>12, <2>3 DEF IsWired
  <2>7. LayerConnects(layer, rx)
    BY <2>5 DEF LayerConnects
  <2> QED
    BY <1>8, <1>9, <2>6, <2>7 DEF layer
<1> HIDE DEF layer
<1> QED
  BY <1>10, <1>11, <1>12
-----------------------------------------------------------------------------
\* The group of a number and its place in the group.
Group(x, n) == x \div n
Place(x, n) == x % n

LEMMA GroupAndPlace ==
    ASSUME NEW n \in Nat \ {0}, NEW p \in 0 .. n - 1
    PROVE  /\ Group(p, n) = 0 /\ Place(p, n) = p
           /\ Group(n + p, n) = 1 /\ Place(n + p, n) = p
           /\ Group(2 * n + p, n) = 2 /\ Place(2 * n + p, n) = p
           /\ Group(3 * n + p, n) = 3 /\ Place(3 * n + p, n) = p
           /\ Group(4 * n + p, n) = 4 /\ Place(4 * n + p, n) = p
BY Groups DEF Group, Place

\* The streams at the ports that outputs come from.
LEMMA StreamFacts ==
    ASSUME NEW n \in Nat \ {0}, NEW p \in 0 .. n - 1
    PROVE  /\ StreamAt(Of("gfdm_short_burst_shaper", p), n) = <<"tx", p>>
           /\ StreamAt(Of("synchronizer", p), n) = <<"synced", p>>
           /\ StreamAt(Of("synchronizer", n + p), n) = <<"corr", p>>
           /\ StreamAt(Of("demodulator", p), n) = <<"symbol", p>>
           /\ StreamAt(Of("demodulator", n + p), n) = <<"estimate", p>>
           /\ StreamAt(Of("demodulator", 2 * n + p), n) = <<"burst", p>>
           /\ StreamAt(Nth("xfdm_sync_synchronizer", p, 0), n) = <<"synced", p>>
           /\ StreamAt(Nth("xfdm_sync_synchronizer", p, 1), n) = <<"corr", p>>
           /\ StreamAt(Of("xfdm_sync_sync_tag_align_cc", p), n) = <<"synced", p>>
           /\ StreamAt(Nth("gfdm_receiver", p, 0), n) = <<"symbol", p>>
           /\ StreamAt(Nth("gfdm_receiver", p, 1), n) = <<"estimate", p>>
           /\ StreamAt(Nth("symbol_demapper", p, 0), n) = <<"LLR", p>>
           /\ StreamAt(Of("blocks_add_xx", 0), n) = <<"sum", 0>>
           /\ StreamAt(Of("fec_generic_decoder", 0), n) = <<"data", 0>>
           /\ StreamAt(Of("symbol_mapper", 0), n) = <<"symbol", 0>>
<1>1. StreamAt(Of("gfdm_short_burst_shaper", p), n) = <<"tx", p>>
  BY PortFacts DEF StreamAt
<1>2. /\ StreamAt(Of("synchronizer", p), n) = <<"synced", p>>
      /\ StreamAt(Of("synchronizer", n + p), n) = <<"corr", p>>
  <2>1. \A x : StreamAt(Of("synchronizer", x), n) = <<IF x < n THEN "synced" ELSE "corr", Place(x, n)>>
    BY PortFacts DEF StreamAt, Place
  <2>2. p < n /\ ~(n + p < n)
    OBVIOUS
  <2> QED
    BY <2>1, <2>2, GroupAndPlace
<1> DEFINE kinds == <<"symbol", "estimate", "burst">>
<1>9. kinds[1] = "symbol" /\ kinds[2] = "estimate" /\ kinds[3] = "burst"
  OBVIOUS
<1>10. \A x : StreamAt(Of("demodulator", x), n) = <<kinds[Group(x, n) + 1], Place(x, n)>>
  BY PortFacts DEF StreamAt, Group, Place
<1>11. /\ Group(p, n) = 0 /\ Place(p, n) = p
       /\ Group(n + p, n) = 1 /\ Place(n + p, n) = p
       /\ Group(2 * n + p, n) = 2 /\ Place(2 * n + p, n) = p
  BY GroupAndPlace
<1> HIDE DEF kinds
<1>3. StreamAt(Of("demodulator", p), n) = <<"symbol", p>>
  BY <1>9, <1>10, <1>11
<1>4. StreamAt(Of("demodulator", n + p), n) = <<"estimate", p>>
  BY <1>9, <1>10, <1>11
<1>5. StreamAt(Of("demodulator", 2 * n + p), n) = <<"burst", p>>
  BY <1>9, <1>10, <1>11
<1>6. /\ StreamAt(Nth("xfdm_sync_synchronizer", p, 0), n) = <<"synced", p>>
      /\ StreamAt(Nth("xfdm_sync_synchronizer", p, 1), n) = <<"corr", p>>
      /\ StreamAt(Of("xfdm_sync_sync_tag_align_cc", p), n) = <<"synced", p>>
  BY PortFacts DEF StreamAt
<1>7. /\ StreamAt(Nth("gfdm_receiver", p, 0), n) = <<"symbol", p>>
      /\ StreamAt(Nth("gfdm_receiver", p, 1), n) = <<"estimate", p>>
      /\ StreamAt(Nth("symbol_demapper", p, 0), n) = <<"LLR", p>>
  BY PortFacts DEF StreamAt
<1>8. /\ StreamAt(Of("blocks_add_xx", 0), n) = <<"sum", 0>>
      /\ StreamAt(Of("fec_generic_decoder", 0), n) = <<"data", 0>>
      /\ StreamAt(Of("symbol_mapper", 0), n) = <<"symbol", 0>>
  BY PortFacts DEF StreamAt
<1> QED
  BY <1>1, <1>2, <1>3, <1>4, <1>5, <1>6, <1>7, <1>8

IsSequence(s) == \E S : s \in Seq(S)

\* Labels for up to five names: n of each.
AreLabels(labels, names, n, m) ==
    /\ Len(labels) = m * n /\ IsSequence(labels)
    /\ \A p \in 0 .. n - 1 :
         /\ labels[p + 1] = <<names[1], p>>
         /\ m >= 2 => labels[(n + p) + 1] = <<names[2], p>>
         /\ m >= 3 => labels[(2 * n + p) + 1] = <<names[3], p>>
         /\ m >= 4 => labels[(3 * n + p) + 1] = <<names[4], p>>
         /\ m >= 5 => labels[(4 * n + p) + 1] = <<names[5], p>>

LEMMA LabelsAre ==
    ASSUME NEW n \in Nat \ {0}, NEW names, NEW m \in 1 .. 5, Len(names) = m
    PROVE  AreLabels(Labels(names, n), names, n, m)
<1> DEFINE labels == Labels(names, n)
           all == m * n
<1>1. /\ all \in Nat /\ all >= n /\ (m >= 2 => all >= 2 * n) /\ (m >= 3 => all >= 3 * n)
      /\ (m >= 4 => all >= 4 * n) /\ (m >= 5 => all >= 5 * n)
  <2>1. m = 1 \/ m = 2 \/ m = 3 \/ m = 4 \/ m = 5
    OBVIOUS
  <2> QED
    BY <2>1
<1>2. labels = [i \in 1 .. all |-> <<names[(i - 1) \div n + 1], (i - 1) % n>>]
  BY DEF Labels
<1> HIDE DEF labels, all
<1>3. \A x \in 0 .. all - 1 : labels[x + 1] = <<names[Group(x, n) + 1], Place(x, n)>>
  <2> SUFFICES ASSUME NEW x \in 0 .. all - 1
               PROVE  labels[x + 1] = <<names[Group(x, n) + 1], Place(x, n)>>
    OBVIOUS
  <2>1. x + 1 \in 1 .. all /\ (x + 1) - 1 = x
    BY <1>1
  <2> QED
    BY <1>2, <2>1 DEF Group, Place
<1>4. ASSUME NEW p \in 0 .. n - 1
      PROVE  /\ labels[p + 1] = <<names[1], p>>
             /\ m >= 2 => labels[(n + p) + 1] = <<names[2], p>>
             /\ m >= 3 => labels[(2 * n + p) + 1] = <<names[3], p>>
             /\ m >= 4 => labels[(3 * n + p) + 1] = <<names[4], p>>
             /\ m >= 5 => labels[(4 * n + p) + 1] = <<names[5], p>>
  <2>1. /\ p \in 0 .. all - 1 /\ (m >= 2 => n + p \in 0 .. all - 1)
        /\ (m >= 3 => 2 * n + p \in 0 .. all - 1) /\ (m >= 4 => 3 * n + p \in 0 .. all - 1)
        /\ (m >= 5 => 4 * n + p \in 0 .. all - 1)
    BY <1>1
  <2>2. /\ Group(p, n) = 0 /\ Place(p, n) = p
        /\ Group(n + p, n) = 1 /\ Place(n + p, n) = p
        /\ Group(2 * n + p, n) = 2 /\ Place(2 * n + p, n) = p
        /\ Group(3 * n + p, n) = 3 /\ Place(3 * n + p, n) = p
        /\ Group(4 * n + p, n) = 4 /\ Place(4 * n + p, n) = p
    BY GroupAndPlace
  <2>3. labels[p + 1] = <<names[1], p>>
    <3>1. labels[p + 1] = <<names[Group(p, n) + 1], Place(p, n)>>
      BY <1>3, <2>1
    <3> QED
      BY <2>2, <3>1
  <2>4. m >= 2 => labels[(n + p) + 1] = <<names[2], p>>
    <3> DEFINE x == n + p
    <3>1. m >= 2 => x \in 0 .. all - 1
      BY <2>1
    <3>2. Group(x, n) = 1 /\ Place(x, n) = p
      BY <2>2
    <3> HIDE DEF x
    <3>3. m >= 2 => labels[x + 1] = <<names[2], p>>
      BY <1>3, <3>1, <3>2
    <3> QED
      BY <3>3 DEF x
  <2>5. m >= 3 => labels[(2 * n + p) + 1] = <<names[3], p>>
    <3> DEFINE x == 2 * n + p
    <3>1. m >= 3 => x \in 0 .. all - 1
      BY <2>1
    <3>2. Group(x, n) = 2 /\ Place(x, n) = p
      BY <2>2
    <3> HIDE DEF x
    <3>3. m >= 3 => labels[x + 1] = <<names[3], p>>
      BY <1>3, <3>1, <3>2
    <3> QED
      BY <3>3 DEF x
  <2>6. m >= 4 => labels[(3 * n + p) + 1] = <<names[4], p>>
    <3> DEFINE x == 3 * n + p
    <3>1. m >= 4 => x \in 0 .. all - 1
      BY <2>1
    <3>2. Group(x, n) = 3 /\ Place(x, n) = p
      BY <2>2
    <3> HIDE DEF x
    <3>3. m >= 4 => labels[x + 1] = <<names[4], p>>
      BY <1>3, <3>1, <3>2
    <3> QED
      BY <3>3 DEF x
  <2>7. m >= 5 => labels[(4 * n + p) + 1] = <<names[5], p>>
    <3> DEFINE x == 4 * n + p
    <3>1. m >= 5 => x \in 0 .. all - 1
      BY <2>1
    <3>2. Group(x, n) = 4 /\ Place(x, n) = p
      BY <2>2
    <3> HIDE DEF x
    <3>3. m >= 5 => labels[x + 1] = <<names[5], p>>
      BY <1>3, <3>1, <3>2
    <3> QED
      BY <3>3 DEF x
  <2> QED
    BY <2>3, <2>4, <2>5, <2>6, <2>7
<1>5. Len(labels) = all /\ labels \in Seq({labels[i] : i \in 1 .. all})
  <2>1. DOMAIN labels = 1 .. all /\ labels = [i \in 1 .. all |-> labels[i]]
    BY <1>2
  <2> QED
    BY <1>1, <2>1
<1>6. IsSequence(labels)
  BY <1>5 DEF IsSequence
<1>7. AreLabels(labels, names, n, m)
  <2>1. Len(labels) = m * n
    BY <1>5 DEF all
  <2> QED
    BY <1>4, <1>6, <2>1 DEF AreLabels
<1> QED
  BY <1>7 DEF labels

\* Four or five labels at a place.
LEMMA LabelsGive ==
    ASSUME NEW n \in Nat \ {0}, NEW labels, NEW names, NEW m \in 4 .. 5,
           AreLabels(labels, names, n, m), NEW p \in 0 .. n - 1
    PROVE  /\ labels[p + 1] = <<names[1], p>>
           /\ labels[(n + p) + 1] = <<names[2], p>>
           /\ labels[(2 * n + p) + 1] = <<names[3], p>>
           /\ labels[(3 * n + p) + 1] = <<names[4], p>>
           /\ m = 5 => labels[(4 * n + p) + 1] = <<names[5], p>>
<1>1. m >= 2 /\ m >= 3 /\ m >= 4 /\ (m = 5 => m >= 5)
  OBVIOUS
<1>2. /\ labels[p + 1] = <<names[1], p>>
      /\ m >= 2 => labels[(n + p) + 1] = <<names[2], p>>
      /\ m >= 3 => labels[(2 * n + p) + 1] = <<names[3], p>>
      /\ m >= 4 => labels[(3 * n + p) + 1] = <<names[4], p>>
      /\ m >= 5 => labels[(4 * n + p) + 1] = <<names[5], p>>
  BY Zenon DEF AreLabels
<1> QED
  BY <1>1, <1>2

\* Labels for one name.
AreFor(labels, name, n) ==
    /\ Len(labels) = n /\ IsSequence(labels)
    /\ \A p \in 0 .. n - 1 : labels[p + 1] = <<name, p>>

LEMMA LabelsForOne ==
    ASSUME NEW n \in Nat \ {0}, NEW name
    PROVE  AreFor(Labels(<<name>>, n), name, n)
<1> DEFINE names == <<name>>
           labels == Labels(names, n)
<1>1. Len(names) = 1 /\ names[1] = name /\ 1 \in 1 .. 5 /\ 1 * n = n
  OBVIOUS
<1> HIDE DEF names
<1>2. AreLabels(labels, names, n, 1)
  BY <1>1, LabelsAre
<1> HIDE DEF labels
<1>3. AreFor(labels, name, n)
  BY <1>1, <1>2 DEF AreLabels, AreFor
<1> QED
  BY <1>3 DEF labels, names

IsBehind(whole, first, labels) ==
    /\ Len(whole) = Len(first) + Len(labels)
    /\ \A i \in 1 .. Len(first) : whole[i] = first[i]
    /\ \A i \in 1 .. Len(labels) : whole[Len(first) + i] = labels[i]

LEMMA LabelsBehind ==
    ASSUME NEW first, NEW labels, IsSequence(first), IsSequence(labels)
    PROVE  IsBehind(first \o labels, first, labels)
<1>1. PICK S : first \in Seq(S)
  BY DEF IsSequence
<1>2. PICK T : labels \in Seq(T)
  BY DEF IsSequence
<1> DEFINE U == S \cup T
<1>3. first \in Seq(U) /\ labels \in Seq(U)
  <2>1. \A X, Y : \A u \in Seq(X) : u \in Seq(X \cup Y) /\ u \in Seq(Y \cup X)
    OBVIOUS
  <2> QED
    BY <1>1, <1>2, <2>1
<1> HIDE DEF U
<1>4. Len(first \o labels) = Len(first) + Len(labels)
  BY <1>3, ConcatOf
<1>5. \A i \in 1 .. Len(first) : (first \o labels)[i] = first[i]
  BY <1>3, ConcatFirst
<1>6. \A i \in 1 .. Len(labels) : (first \o labels)[Len(first) + i] = labels[i]
  BY <1>3, ConcatThen
<1> DEFINE whole == first \o labels
<1>7. IsBehind(whole, first, labels)
  <2> HIDE DEF whole
  <2> SUFFICES /\ Len(whole) = Len(first) + Len(labels)
               /\ \A i \in 1 .. Len(first) : whole[i] = first[i]
               /\ \A i \in 1 .. Len(labels) : whole[Len(first) + i] = labels[i]
    BY DEF IsBehind
  <2> QED
    BY <1>4, <1>5, <1>6 DEF whole
<1> QED
  BY <1>7
-----------------------------------------------------------------------------
\* A number below five times n is in one of five groups.
LEMMA FiveGroups ==
    ASSUME NEW n \in Nat \ {0}, NEW x \in 0 .. 5 * n - 1
    PROVE  \E p \in 0 .. n - 1 :
             x = p \/ x = n + p \/ x = 2 * n + p \/ x = 3 * n + p \/ x = 4 * n + p
<1>1. CASE x < n
  <2>1. x \in 0 .. n - 1
    BY <1>1
  <2> QED
    BY <2>1
<1>2. CASE n <= x /\ x < 2 * n
  <2>1. x - n \in 0 .. n - 1 /\ x = n + (x - n)
    BY <1>2
  <2> QED
    BY <2>1
<1>3. CASE 2 * n <= x /\ x < 3 * n
  <2>1. x - 2 * n \in 0 .. n - 1 /\ x = 2 * n + (x - 2 * n)
    BY <1>3
  <2> QED
    BY <2>1
<1>4. CASE 3 * n <= x /\ x < 4 * n
  <2>1. x - 3 * n \in 0 .. n - 1 /\ x = 3 * n + (x - 3 * n)
    BY <1>4
  <2> QED
    BY <2>1
<1>5. CASE 4 * n <= x
  <2>1. x - 4 * n \in 0 .. n - 1 /\ x = 4 * n + (x - 4 * n)
    BY <1>5
  <2> QED
    BY <2>1
<1> QED
  BY <1>1, <1>2, <1>3, <1>4, <1>5

LEMMA TransmitterLabelled ==
    ASSUME NEW n \in Nat \ {0}
    PROVE  Labelled(PhyTransmitter(n), n, Labels(<<"tx">>, n))
<1> DEFINE block == PhyTransmitter(n)
           labels == Labels(<<"tx">>, n)
<1>1. /\ block.raised = FALSE /\ block.outputs = n
      /\ \A p \in 0 .. n - 1 :
           IsFed(block, p) /\ Behind(block, p) = Of("gfdm_short_burst_shaper", p)
  BY TransmitterBlockFacts
<1>2. Len(labels) = n /\ \A p \in 0 .. n - 1 : labels[p + 1] = <<"tx", p>>
  <2>1. AreFor(labels, "tx", n)
    BY LabelsForOne
  <2> HIDE DEF labels
  <2> QED
    BY <2>1 DEF AreFor
<1>3. \A p \in 0 .. n - 1 : StreamAt(Of("gfdm_short_burst_shaper", p), n) = <<"tx", p>>
  BY StreamFacts
<1> HIDE DEF block, labels
<1>4. Labelled(block, n, labels)
  BY <1>1, <1>2, <1>3 DEF Labelled
<1> QED
  BY <1>4 DEF block, labels

ReceiverNames == <<"synced", "corr", "burst", "estimate", "symbol">>

LEMMA ReceiverLabelled ==
    ASSUME NEW n \in Nat \ {0}
    PROVE  Labelled(PhyReceiver(n), n, Labels(ReceiverNames, n))
<1> DEFINE block == PhyReceiver(n)
           labels == Labels(ReceiverNames, n)
<1>5. /\ Len(ReceiverNames) = 5 /\ 5 \in 1 .. 5
      /\ ReceiverNames[1] = "synced" /\ ReceiverNames[2] = "corr" /\ ReceiverNames[3] = "burst"
      /\ ReceiverNames[4] = "estimate" /\ ReceiverNames[5] = "symbol"
  BY DEF ReceiverNames
<1>6. AreLabels(labels, ReceiverNames, n, 5)
  BY <1>5, LabelsAre
<1>1. Len(labels) = 5 * n
  <2> HIDE DEF labels
  <2> QED
    BY <1>6 DEF AreLabels
<1>2. block.raised = FALSE /\ block.outputs = 5 * n
  BY ReceiverBlockFacts
<1>3. ASSUME NEW x \in 0 .. 5 * n - 1
      PROVE  IsFed(block, x) /\ StreamAt(Behind(block, x), n) = labels[x + 1]
  <2>1. PICK p \in 0 .. n - 1 :
          x = p \/ x = n + p \/ x = 2 * n + p \/ x = 3 * n + p \/ x = 4 * n + p
    BY FiveGroups
  <2>2. /\ IsFed(block, p) /\ Behind(block, p) = Of("synchronizer", p)
        /\ IsFed(block, n + p) /\ Behind(block, n + p) = Of("synchronizer", n + p)
        /\ IsFed(block, 2 * n + p) /\ Behind(block, 2 * n + p) = Of("demodulator", 2 * n + p)
        /\ IsFed(block, 3 * n + p) /\ Behind(block, 3 * n + p) = Of("demodulator", n + p)
        /\ IsFed(block, 4 * n + p) /\ Behind(block, 4 * n + p) = Of("demodulator", p)
    BY ReceiverBlockFacts
  <2>3. /\ labels[p + 1] = <<"synced", p>> /\ labels[(n + p) + 1] = <<"corr", p>>
        /\ labels[(2 * n + p) + 1] = <<"burst", p>> /\ labels[(3 * n + p) + 1] = <<"estimate", p>>
        /\ labels[(4 * n + p) + 1] = <<"symbol", p>>
    <3> HIDE DEF labels
    <3>1. /\ labels[p + 1] = <<ReceiverNames[1], p>>
          /\ labels[(n + p) + 1] = <<ReceiverNames[2], p>>
          /\ labels[(2 * n + p) + 1] = <<ReceiverNames[3], p>>
          /\ labels[(3 * n + p) + 1] = <<ReceiverNames[4], p>>
          /\ labels[(4 * n + p) + 1] = <<ReceiverNames[5], p>>
      <4>1. 5 \in 4 .. 5
        OBVIOUS
      <4> QED
        BY <1>6, <4>1, LabelsGive
    <3> QED
      BY <1>5, <3>1
  <2>4. /\ StreamAt(Of("synchronizer", p), n) = <<"synced", p>>
        /\ StreamAt(Of("synchronizer", n + p), n) = <<"corr", p>>
        /\ StreamAt(Of("demodulator", p), n) = <<"symbol", p>>
        /\ StreamAt(Of("demodulator", n + p), n) = <<"estimate", p>>
        /\ StreamAt(Of("demodulator", 2 * n + p), n) = <<"burst", p>>
    BY StreamFacts
  <2> HIDE DEF block, labels
  <2> QED
    BY <2>1, <2>2, <2>3, <2>4
<1> HIDE DEF block, labels
<1>4. Labelled(block, n, labels)
  BY <1>1, <1>2, <1>3 DEF Labelled
<1> QED
  BY <1>4 DEF block, labels

LEMMA UpperReceiverLabelled ==
    ASSUME NEW n \in Nat \ {0}
    PROVE  Labelled(UpperPhyReceiver(n), n, << <<"data", 0>> >> \o Labels(<<"LLR">>, n))
<1> DEFINE block == UpperPhyReceiver(n)
           first == << <<"data", 0>> >>
           rest == Labels(<<"LLR">>, n)
           labels == first \o rest
<1>1. Len(first) = 1 /\ first[1] = <<"data", 0>> /\ IsSequence(first)
  <2>1. \A x : <<x>> \in Seq({x})
    OBVIOUS
  <2> QED
    BY <2>1 DEF IsSequence
<1>2. /\ Len(rest) = n /\ (\A p \in 0 .. n - 1 : rest[p + 1] = <<"LLR", p>>)
      /\ IsSequence(rest)
  <2>1. AreFor(rest, "LLR", n)
    BY LabelsForOne
  <2> HIDE DEF rest
  <2> QED
    BY <2>1 DEF AreFor
<1>3. /\ Len(labels) = Len(first) + Len(rest)
      /\ \A i \in 1 .. Len(first) : labels[i] = first[i]
      /\ \A i \in 1 .. Len(rest) : labels[Len(first) + i] = rest[i]
  <2>1. IsBehind(labels, first, rest)
    <3> HIDE DEF first, rest
    <3> QED
      BY <1>1, <1>2, LabelsBehind
  <2> HIDE DEF labels, first, rest
  <2> QED
    BY <2>1 DEF IsBehind
<1>4. /\ block.raised = FALSE /\ block.outputs = 1 + n
      /\ IsFed(block, 0) /\ Behind(block, 0) = Of("fec_generic_decoder", 0)
      /\ \A p \in 0 .. n - 1 :
           IsFed(block, 1 + p) /\ Behind(block, 1 + p) = Nth("symbol_demapper", p, 0)
  BY UpperReceiverFacts
<1>5. 0 \in 0 .. n - 1
  OBVIOUS
<1>6. StreamAt(Of("fec_generic_decoder", 0), n) = <<"data", 0>>
  BY <1>5, StreamFacts
<1>7. \A p \in 0 .. n - 1 : StreamAt(Nth("symbol_demapper", p, 0), n) = <<"LLR", p>>
  BY StreamFacts
<1> HIDE DEF block, first, rest, labels
<1>8. ASSUME NEW x \in 0 .. (1 + n) - 1
      PROVE  IsFed(block, x) /\ StreamAt(Behind(block, x), n) = labels[x + 1]
  <2>1. CASE x = 0
    <3>1. labels[x + 1] = <<"data", 0>>
      BY <1>1, <1>3, <2>1
    <3> QED
      BY <1>4, <1>6, <2>1, <3>1
  <2>2. CASE x # 0
    <3> DEFINE p == x - 1
    <3>1. p \in 0 .. n - 1 /\ 1 + p = x /\ p + 1 \in 1 .. n /\ 1 + (p + 1) = x + 1
      BY <2>2
    <3> HIDE DEF p
    <3>2. labels[1 + (p + 1)] = rest[p + 1] /\ rest[p + 1] = <<"LLR", p>>
      BY <1>1, <1>2, <1>3, <3>1
    <3> QED
      BY <1>4, <1>7, <3>1, <3>2
  <2> QED
    BY <2>1, <2>2
<1>9. Labelled(block, n, labels)
  <2>1. block.outputs = Len(labels)
    BY <1>1, <1>2, <1>3, <1>4
  <2> QED
    BY <1>4, <1>8, <2>1 DEF Labelled
<1> QED
  BY <1>9 DEF block, first, rest, labels

LEMMA UpperTransmitterLabelled ==
    Labelled(UpperPhyTransmitter, 1, << <<"symbol", 0>> >>)
<1> DEFINE block == UpperPhyTransmitter
           labels == << <<"symbol", 0>> >>
<1>1. Len(labels) = 1 /\ labels[1] = <<"symbol", 0>>
  OBVIOUS
<1>2. /\ block.raised = FALSE /\ block.outputs = 1
      /\ IsFed(block, 0) /\ Behind(block, 0) = Of("symbol_mapper", 0)
  BY UpperTransmitterFacts
<1>3. StreamAt(Of("symbol_mapper", 0), 1) = <<"symbol", 0>>
  <2>1. 1 \in Nat \ {0} /\ 0 \in 0 .. 1 - 1
    OBVIOUS
  <2> QED
    BY <2>1, StreamFacts
<1> HIDE DEF block, labels
<1>4. Labelled(block, 1, labels)
  BY <1>1, <1>2, <1>3 DEF Labelled
<1> QED
  BY <1>4 DEF block, labels

LowerNames == <<"LLR", "corr", "synced", "estimate", "symbol">>

LowerLabels(n) == << IF n < 2 THEN <<"LLR", 0>> ELSE <<"sum", 0>> >> \o Labels(LowerNames, n)

LEMMA LowerReceiverLabelled ==
    ASSUME NEW n \in Nat \ {0}
    PROVE  Labelled(LowerPhyReceiver(n), n, LowerLabels(n))
<1> DEFINE block == LowerPhyReceiver(n)
           combined == IF n < 2 THEN <<"LLR", 0>> ELSE <<"sum", 0>>
           first == <<combined>>
           rest == Labels(LowerNames, n)
           labels == first \o rest
<1>1. Len(first) = 1 /\ first[1] = combined /\ IsSequence(first)
  <2>1. \A x : <<x>> \in Seq({x}) /\ Len(<<x>>) = 1 /\ (<<x>>)[1] = x
    OBVIOUS
  <2> HIDE DEF combined
  <2> QED
    BY <2>1 DEF IsSequence
<1>9. /\ Len(LowerNames) = 5 /\ 5 \in 1 .. 5
      /\ LowerNames[1] = "LLR" /\ LowerNames[2] = "corr" /\ LowerNames[3] = "synced"
      /\ LowerNames[4] = "estimate" /\ LowerNames[5] = "symbol"
  BY DEF LowerNames
<1>10. AreLabels(rest, LowerNames, n, 5)
  BY <1>9, LabelsAre
<1>2. Len(rest) = 5 * n /\ IsSequence(rest)
  <2> HIDE DEF rest
  <2> QED
    BY <1>10 DEF AreLabels
<1>3. /\ Len(labels) = Len(first) + Len(rest)
      /\ \A i \in 1 .. Len(first) : labels[i] = first[i]
      /\ \A i \in 1 .. Len(rest) : labels[Len(first) + i] = rest[i]
  <2>1. IsBehind(labels, first, rest)
    <3> HIDE DEF first, rest
    <3> QED
      BY <1>1, <1>2, LabelsBehind
  <2> HIDE DEF labels, first, rest
  <2> QED
    BY <2>1 DEF IsBehind
<1>4. /\ block.raised = FALSE /\ block.outputs = 1 + 5 * n
      /\ IsFed(block, 0)
      /\ Behind(block, 0) = IF n < 2 THEN Nth("symbol_demapper", 0, 0) ELSE Of("blocks_add_xx", 0)
  BY LowerReceiverFacts
<1>5. StreamAt(Behind(block, 0), n) = combined
  <2>1. 0 \in 0 .. n - 1
    OBVIOUS
  <2>2. /\ StreamAt(Nth("symbol_demapper", 0, 0), n) = <<"LLR", 0>>
        /\ StreamAt(Of("blocks_add_xx", 0), n) = <<"sum", 0>>
    BY <2>1, StreamFacts
  <2> HIDE DEF block
  <2> QED
    BY <1>4, <2>2
<1>6. ASSUME NEW y \in 0 .. 5 * n - 1
      PROVE  IsFed(block, 1 + y) /\ StreamAt(Behind(block, 1 + y), n) = rest[y + 1]
  <2>1. PICK p \in 0 .. n - 1 :
          y = p \/ y = n + p \/ y = 2 * n + p \/ y = 3 * n + p \/ y = 4 * n + p
    BY FiveGroups
  <2>2. /\ IsFed(block, 1 + p) /\ Behind(block, 1 + p) = Nth("symbol_demapper", p, 0)
        /\ IsFed(block, 1 + n + p) /\ Behind(block, 1 + n + p) = Nth("xfdm_sync_synchronizer", p, 1)
        /\ IsFed(block, 1 + 2 * n + p)
        /\ Behind(block, 1 + 2 * n + p) = IF n < 2 THEN Nth("xfdm_sync_synchronizer", p, 0)
                                          ELSE Of("xfdm_sync_sync_tag_align_cc", p)
        /\ IsFed(block, 1 + 3 * n + p) /\ Behind(block, 1 + 3 * n + p) = Nth("gfdm_receiver", p, 1)
        /\ IsFed(block, 1 + 4 * n + p) /\ Behind(block, 1 + 4 * n + p) = Nth("gfdm_receiver", p, 0)
    BY LowerReceiverFacts
  <2>3. /\ 1 + (n + p) = 1 + n + p /\ 1 + (2 * n + p) = 1 + 2 * n + p
        /\ 1 + (3 * n + p) = 1 + 3 * n + p /\ 1 + (4 * n + p) = 1 + 4 * n + p
    OBVIOUS
  <2>4. /\ rest[p + 1] = <<"LLR", p>> /\ rest[(n + p) + 1] = <<"corr", p>>
        /\ rest[(2 * n + p) + 1] = <<"synced", p>> /\ rest[(3 * n + p) + 1] = <<"estimate", p>>
        /\ rest[(4 * n + p) + 1] = <<"symbol", p>>
    <3> HIDE DEF rest
    <3>1. /\ rest[p + 1] = <<LowerNames[1], p>>
          /\ rest[(n + p) + 1] = <<LowerNames[2], p>>
          /\ rest[(2 * n + p) + 1] = <<LowerNames[3], p>>
          /\ rest[(3 * n + p) + 1] = <<LowerNames[4], p>>
          /\ rest[(4 * n + p) + 1] = <<LowerNames[5], p>>
      <4>1. 5 \in 4 .. 5
        OBVIOUS
      <4> QED
        BY <1>10, <4>1, LabelsGive
    <3> QED
      BY <1>9, <3>1
  <2>5. /\ StreamAt(Nth("symbol_demapper", p, 0), n) = <<"LLR", p>>
        /\ StreamAt(Nth("xfdm_sync_synchronizer", p, 1), n) = <<"corr", p>>
        /\ StreamAt(Nth("xfdm_sync_synchronizer", p, 0), n) = <<"synced", p>>
        /\ StreamAt(Of("xfdm_sync_sync_tag_align_cc", p), n) = <<"synced", p>>
        /\ StreamAt(Nth("gfdm_receiver", p, 1), n) = <<"estimate", p>>
        /\ StreamAt(Nth("gfdm_receiver", p, 0), n) = <<"symbol", p>>
    BY StreamFacts
  <2> HIDE DEF block, rest
  <2>6. StreamAt(Behind(block, 1 + 2 * n + p), n) = <<"synced", p>>
    BY <2>2, <2>5
  <2> QED
    BY <2>1, <2>2, <2>3, <2>4, <2>5, <2>6
<1> HIDE DEF block, combined, first, rest, labels
<1>7. ASSUME NEW x \in 0 .. (1 + 5 * n) - 1
      PROVE  IsFed(block, x) /\ StreamAt(Behind(block, x), n) = labels[x + 1]
  <2>1. CASE x = 0
    <3>1. labels[x + 1] = combined
      BY <1>1, <1>3, <2>1
    <3> QED
      BY <1>4, <1>5, <2>1, <3>1
  <2>2. CASE x # 0
    <3> DEFINE y == x - 1
    <3>1. y \in 0 .. 5 * n - 1 /\ 1 + y = x /\ y + 1 \in 1 .. 5 * n /\ 1 + (y + 1) = x + 1
      BY <2>2
    <3> HIDE DEF y
    <3>2. labels[1 + (y + 1)] = rest[y + 1]
      BY <1>1, <1>2, <1>3, <3>1
    <3> QED
      BY <1>6, <3>1, <3>2
  <2> QED
    BY <2>1, <2>2
<1>8. Labelled(block, n, labels)
  <2>1. block.outputs = Len(labels)
    BY <1>1, <1>2, <1>3, <1>4
  <2> QED
    BY <1>4, <1>7, <2>1 DEF Labelled
<1> QED
  BY <1>8 DEF block, combined, first, rest, labels, LowerLabels
-----------------------------------------------------------------------------
LayerNames == <<"corr", "synced", "estimate", "symbol">>

LayerLabels(n) == Labels(<<"tx">>, n) \o Labels(LayerNames, n)

\* What a transmitter and a receiver with n antennas put out, followed from a port of
\* the PHY layer that connects them.
Followed(transmitter, receiver, port, n) ==
    IF port[1] = "tacmac_phy_transmitter"
    THEN StreamAt(Behind(transmitter, port[3]), n)
    ELSE StreamAt(Behind(receiver, port[3]), n)

\* A PHY layer with n channels of each kind carries the streams of its labels.
LEMMA LayerLabelled ==
    ASSUME NEW n \in Nat \ {0}
    PROVE  /\ Len(LayerLabels(n)) = n + 4 * n
           /\ \A x \in 0 .. n + 4 * n - 1 :
                /\ IsFed(PhyLayerBlock(n, n), x)
                /\ Followed(PhyTransmitter(n), PhyReceiver(n), Behind(PhyLayerBlock(n, n), x), n)
                     = LayerLabels(n)[x + 1]
<1> DEFINE layer == PhyLayerBlock(n, n)
           transmitter == PhyTransmitter(n)
           receiver == PhyReceiver(n)
           first == Labels(<<"tx">>, n)
           rest == Labels(LayerNames, n)
           labels == first \o rest
<1>1. AreFor(first, "tx", n)
  BY LabelsForOne
<1>2. /\ Len(LayerNames) = 4 /\ 4 \in 1 .. 5
      /\ LayerNames[1] = "corr" /\ LayerNames[2] = "synced"
      /\ LayerNames[3] = "estimate" /\ LayerNames[4] = "symbol"
  BY DEF LayerNames
<1>3. AreLabels(rest, LayerNames, n, 4)
  BY <1>2, LabelsAre
<1>4. IsBehind(labels, first, rest)
  <2>1. IsSequence(first) /\ IsSequence(rest)
    <3> HIDE DEF first, rest
    <3> QED
      BY <1>1, <1>3 DEF AreFor, AreLabels
  <2> HIDE DEF first, rest
  <2> QED
    BY <2>1, LabelsBehind
<1>5. LayerConnects(layer, n)
  BY LayerFacts
<1>6. ASSUME NEW p \in 0 .. n - 1
      PROVE  /\ StreamAt(Behind(transmitter, p), n) = <<"tx", p>>
             /\ StreamAt(Behind(receiver, n + p), n) = <<"corr", p>>
             /\ StreamAt(Behind(receiver, p), n) = <<"synced", p>>
             /\ StreamAt(Behind(receiver, 3 * n + p), n) = <<"estimate", p>>
             /\ StreamAt(Behind(receiver, 4 * n + p), n) = <<"symbol", p>>
  <2>1. Behind(transmitter, p) = Of("gfdm_short_burst_shaper", p)
    BY TransmitterBlockFacts
  <2>2. /\ Behind(receiver, p) = Of("synchronizer", p)
        /\ Behind(receiver, n + p) = Of("synchronizer", n + p)
        /\ Behind(receiver, 3 * n + p) = Of("demodulator", n + p)
        /\ Behind(receiver, 4 * n + p) = Of("demodulator", p)
    BY ReceiverBlockFacts
  <2>3. /\ StreamAt(Of("gfdm_short_burst_shaper", p), n) = <<"tx", p>>
        /\ StreamAt(Of("synchronizer", p), n) = <<"synced", p>>
        /\ StreamAt(Of("synchronizer", n + p), n) = <<"corr", p>>
        /\ StreamAt(Of("demodulator", p), n) = <<"symbol", p>>
        /\ StreamAt(Of("demodulator", n + p), n) = <<"estimate", p>>
    BY StreamFacts
  <2> HIDE DEF transmitter, receiver
  <2> QED
    BY <2>1, <2>2, <2>3
<1> DEFINE Seen(x) == Followed(transmitter, receiver, Behind(layer, x), n)
<1>7. ASSUME NEW p \in 0 .. n - 1
      PROVE  /\ Seen(p) = <<"tx", p>> /\ Seen(n + p) = <<"corr", p>>
             /\ Seen(2 * n + p) = <<"synced", p>> /\ Seen(3 * n + p) = <<"estimate", p>>
             /\ Seen(4 * n + p) = <<"symbol", p>>
  <2>1. \A y : Followed(transmitter, receiver, Of("tacmac_phy_transmitter", y), n)
                 = StreamAt(Behind(transmitter, y), n)
    BY PortFacts DEF Followed
  <2>2. \A y : Followed(transmitter, receiver, Of("tacmac_phy_receiver", y), n)
                 = StreamAt(Behind(receiver, y), n)
    BY PortFacts DEF Followed
  <2> HIDE DEF transmitter, receiver, layer
  <2> QED
    BY <1>5, <1>6, <2>1, <2>2 DEF LayerConnects
<1> HIDE DEF Seen
<1>8. ASSUME NEW p \in 0 .. n - 1
      PROVE  /\ labels[p + 1] = <<"tx", p>> /\ labels[(n + p) + 1] = <<"corr", p>>
             /\ labels[(2 * n + p) + 1] = <<"synced", p>>
             /\ labels[(3 * n + p) + 1] = <<"estimate", p>>
             /\ labels[(4 * n + p) + 1] = <<"symbol", p>>
  <2> HIDE DEF first, rest, labels
  <2>1. /\ Len(first) = n /\ first[p + 1] = <<"tx", p>>
    BY <1>1 DEF AreFor
  <2>2. /\ Len(rest) = 4 * n
        /\ rest[p + 1] = <<"corr", p>> /\ rest[(n + p) + 1] = <<"synced", p>>
        /\ rest[(2 * n + p) + 1] = <<"estimate", p>> /\ rest[(3 * n + p) + 1] = <<"symbol", p>>
    <3>1. Len(rest) = 4 * n
      BY <1>3 DEF AreLabels
    <3>2. /\ rest[p + 1] = <<LayerNames[1], p>>
          /\ rest[(n + p) + 1] = <<LayerNames[2], p>>
          /\ rest[(2 * n + p) + 1] = <<LayerNames[3], p>>
          /\ rest[(3 * n + p) + 1] = <<LayerNames[4], p>>
      <4>1. 4 \in 4 .. 5
        OBVIOUS
      <4> QED
        BY <1>3, <4>1, LabelsGive
    <3> QED
      BY <1>2, <3>1, <3>2
  <2>3. labels[p + 1] = first[p + 1]
    BY <1>4, <2>1 DEF IsBehind
  <2>4. \A i \in 1 .. 4 * n : labels[n + i] = rest[i]
    BY <1>4, <2>1, <2>2 DEF IsBehind
  <2>5. /\ p + 1 \in 1 .. 4 * n /\ n + (p + 1) = (n + p) + 1
        /\ (n + p) + 1 \in 1 .. 4 * n /\ n + ((n + p) + 1) = (2 * n + p) + 1
        /\ (2 * n + p) + 1 \in 1 .. 4 * n /\ n + ((2 * n + p) + 1) = (3 * n + p) + 1
        /\ (3 * n + p) + 1 \in 1 .. 4 * n /\ n + ((3 * n + p) + 1) = (4 * n + p) + 1
    OBVIOUS
  <2> QED
    BY <2>1, <2>2, <2>3, <2>4, <2>5
<1>9. Len(labels) = n + 4 * n
  <2> HIDE DEF first, rest, labels
  <2> QED
    BY <1>1, <1>3, <1>4 DEF AreFor, AreLabels, IsBehind
<1>10. ASSUME NEW x \in 0 .. n + 4 * n - 1
       PROVE  IsFed(layer, x) /\ Seen(x) = labels[x + 1]
  <2>1. PICK p \in 0 .. n - 1 :
          x = p \/ x = n + p \/ x = 2 * n + p \/ x = 3 * n + p \/ x = 4 * n + p
    <3>1. x \in 0 .. 5 * n - 1
      OBVIOUS
    <3> QED
      BY <3>1, FiveGroups
  <2> HIDE DEF layer, labels
  <2>2. /\ IsFed(layer, p) /\ IsFed(layer, n + p) /\ IsFed(layer, 2 * n + p)
        /\ IsFed(layer, 3 * n + p) /\ IsFed(layer, 4 * n + p)
    BY <1>5 DEF LayerConnects
  <2>3. /\ Seen(p) = labels[p + 1] /\ Seen(n + p) = labels[(n + p) + 1]
        /\ Seen(2 * n + p) = labels[(2 * n + p) + 1]
        /\ Seen(3 * n + p) = labels[(3 * n + p) + 1]
        /\ Seen(4 * n + p) = labels[(4 * n + p) + 1]
    BY <1>7, <1>8
  <2> QED
    BY <2>1, <2>2, <2>3
<1> QED
  BY <1>9, <1>10 DEF Seen, LayerLabels

\* No antenna's stream is led into another's chain, in any block.
LEMMA AllAntennasApart ==
    ASSUME NEW tx \in Nat \ {0}, NEW rx \in Nat \ {0}
    PROVE  /\ AntennasApart(PhyReceiver(rx), rx) /\ AntennasApart(LowerPhyReceiver(rx), rx)
           /\ AntennasApart(UpperPhyReceiver(rx), rx) /\ AntennasApart(PhyLayerBlock(tx, rx), rx)
<1>1. AntennasApart(PhyReceiver(rx), rx)
  BY ReceiverBlockFacts
<1>2. AntennasApart(LowerPhyReceiver(rx), rx)
  BY LowerReceiverFacts
<1>3. AntennasApart(UpperPhyReceiver(rx), rx)
  BY UpperReceiverFacts
<1>4. AntennasApart(PhyLayerBlock(tx, rx), rx)
  BY LayerFacts
<1> QED
  BY <1>1, <1>2, <1>3, <1>4
-----------------------------------------------------------------------------
AllBlocks(tx, rx) ==
    [tx |-> tx, rx |-> rx, layer |-> PhyLayerBlock(tx, rx),
     transmitter |-> PhyTransmitter(tx), receiver |-> PhyReceiver(rx),
     upper_receiver |-> UpperPhyReceiver(rx), lower_receiver |-> LowerPhyReceiver(rx),
     upper_transmitter |-> UpperPhyTransmitter]

\* Either nothing is constructed yet or all blocks are, for some numbers of channels.
BlocksInv == built = <<>> \/ \E tx, rx \in 1 .. MaxChannels : built = AllBlocks(tx, rx)

LEMMA BlocksAlways == BlocksSpec => []BlocksInv
<1>1. BlocksInit => BlocksInv
  BY DEF BlocksInit, BlocksInv
<1>2. BlocksInv /\ [Construct]_built => BlocksInv'
  BY DEF BlocksInv, Construct, AllBlocks
<1> QED
  BY <1>1, <1>2, PTL DEF BlocksSpec

LEMMA BlocksParts ==
    ASSUME NEW tx, NEW rx, built = AllBlocks(tx, rx)
    PROVE  /\ built.tx = tx /\ built.rx = rx /\ built.layer = PhyLayerBlock(tx, rx)
           /\ built.transmitter = PhyTransmitter(tx) /\ built.receiver = PhyReceiver(rx)
           /\ built.upper_receiver = UpperPhyReceiver(rx)
           /\ built.lower_receiver = LowerPhyReceiver(rx)
           /\ built.upper_transmitter = UpperPhyTransmitter
BY DEF AllBlocks

\* For all numbers of channels, every output of the receivers carries the stream and the
\* antenna that its label in the description says, the three outputs without a fitting label
\* carry bursts, combined LLRs and symbols, and no antenna's stream is led into another's
\* chain (the calls of connect of phy_transmitter.py, phy_receiver.py, upper_phy_*.py and
\* lower_phy_receiver.py).
THEOREM StreamsAlwaysAsLabelled == BlocksSpec => []StreamsAsLabelled
<1>1. ASSUME BlocksInv PROVE StreamsAsLabelled
  <2>1. CASE built = <<>>
    BY <2>1 DEF StreamsAsLabelled
  <2>2. CASE built # <<>>
    <3>1. PICK tx, rx \in 1 .. MaxChannels : built = AllBlocks(tx, rx)
      BY <1>1, <2>2 DEF BlocksInv
    <3>2. tx \in Nat \ {0} /\ rx \in Nat \ {0}
      BY ChannelsAssumption
    <3>3. Labelled(PhyTransmitter(tx), tx, Labels(<<"tx">>, tx))
      BY <3>2, TransmitterLabelled
    <3>4. Labelled(PhyReceiver(rx), rx,
                   Labels(<<"synced", "corr", "burst", "estimate", "symbol">>, rx))
      BY <3>2, ReceiverLabelled DEF ReceiverNames
    <3>5. Labelled(UpperPhyReceiver(rx), rx, << <<"data", 0>> >> \o Labels(<<"LLR">>, rx))
      BY <3>2, UpperReceiverLabelled
    <3>6. Labelled(LowerPhyReceiver(rx), rx,
                   << IF rx < 2 THEN <<"LLR", 0>> ELSE <<"sum", 0>> >>
                   \o Labels(<<"LLR", "corr", "synced", "estimate", "symbol">>, rx))
      BY <3>2, LowerReceiverLabelled DEF LowerLabels, LowerNames
    <3>7. Labelled(UpperPhyTransmitter, 1, << <<"symbol", 0>> >>)
      BY UpperTransmitterLabelled
    <3>8. /\ AntennasApart(PhyReceiver(rx), rx) /\ AntennasApart(LowerPhyReceiver(rx), rx)
          /\ AntennasApart(UpperPhyReceiver(rx), rx) /\ AntennasApart(PhyLayerBlock(tx, rx), rx)
      BY <3>2, AllAntennasApart
    <3>9. /\ built.tx = tx /\ built.rx = rx /\ built.layer = PhyLayerBlock(tx, rx)
          /\ built.transmitter = PhyTransmitter(tx) /\ built.receiver = PhyReceiver(rx)
          /\ built.upper_receiver = UpperPhyReceiver(rx)
          /\ built.lower_receiver = LowerPhyReceiver(rx)
          /\ built.upper_transmitter = UpperPhyTransmitter
      BY <3>1, BlocksParts
    <3> QED
      BY <3>3, <3>4, <3>5, <3>6, <3>7, <3>8, <3>9 DEF StreamsAsLabelled
  <2> QED
    BY <2>1, <2>2
<1> QED
  BY <1>1, BlocksAlways, PTL

\* For all numbers of channels, a PHY layer with as many transmit as receive channels is
\* built with the streams of its description, and the constructor raises for any others.
THEOREM LayerAlwaysBuiltOrRaised == BlocksSpec => []LayerBuiltOrRaised
<1>1. ASSUME BlocksInv, built # <<>> PROVE LayerBuiltOrRaised
  <2>1. PICK tx, rx \in 1 .. MaxChannels : built = AllBlocks(tx, rx)
    BY <1>1 DEF BlocksInv
  <2>2. tx \in Nat \ {0} /\ rx \in Nat \ {0}
    BY ChannelsAssumption
  <2>3. /\ built.tx = tx /\ built.rx = rx /\ built.layer = PhyLayerBlock(tx, rx)
        /\ built.transmitter = PhyTransmitter(tx) /\ built.receiver = PhyReceiver(rx)
    BY <2>1, BlocksParts
  <2> DEFINE layer == PhyLayerBlock(tx, rx)
  <2>4. layer.raised = (tx # rx) /\ layer.outputs = tx + 4 * rx
    BY <2>2, LayerFacts
  <2> DEFINE labels == LayerLabels(rx)
  <2>5. ASSUME tx = rx
        PROVE  /\ layer.outputs = Len(labels)
               /\ \A output \in 0 .. layer.outputs - 1 :
                    /\ IsFed(layer, output)
                    /\ Followed(PhyTransmitter(rx), PhyReceiver(rx), Behind(layer, output), rx)
                         = labels[output + 1]
    <3>1. /\ Len(LayerLabels(rx)) = rx + 4 * rx
          /\ \A x \in 0 .. rx + 4 * rx - 1 :
               /\ IsFed(PhyLayerBlock(rx, rx), x)
               /\ Followed(PhyTransmitter(rx), PhyReceiver(rx), Behind(PhyLayerBlock(rx, rx), x), rx)
                    = LayerLabels(rx)[x + 1]
      BY <2>2, LayerLabelled
    <3> QED
      BY <2>4, <2>5, <3>1
  <2>6. \A output : tx = rx =>
          LayerStreamAt(output)
            = Followed(PhyTransmitter(rx), PhyReceiver(rx), Behind(layer, output), rx)
    BY <2>3 DEF LayerStreamAt, Followed
  <2>7. labels = Labels(<<"tx">>, rx) \o Labels(<<"corr", "synced", "estimate", "symbol">>, rx)
    BY DEF LayerLabels, LayerNames
  <2>8. built.layer.raised = (built.tx # built.rx)
    BY <2>3, <2>4
  <2> HIDE DEF layer, labels
  <2>9. ASSUME ~built.layer.raised
        PROVE  LET names == Labels(<<"tx">>, built.tx)
                            \o Labels(<<"corr", "synced", "estimate", "symbol">>, built.rx)
               IN  /\ built.layer.outputs = Len(names)
                   /\ \A output \in 0 .. built.layer.outputs - 1 :
                        IsFed(built.layer, output) /\ LayerStreamAt(output) = names[output + 1]
    <3>1. tx = rx /\ built.layer = layer
      BY <2>3, <2>4, <2>9 DEF layer
    <3>2. labels = Labels(<<"tx">>, built.tx)
                   \o Labels(<<"corr", "synced", "estimate", "symbol">>, built.rx)
      BY <2>3, <2>7, <3>1
    <3> QED
      BY <2>5, <2>6, <3>1, <3>2
  <2> QED
    BY <2>8, <2>9 DEF LayerBuiltOrRaised
<1>2. BlocksInv => LayerBuiltOrRaised
  BY <1>1 DEF LayerBuiltOrRaised
<1> QED
  BY <1>2, BlocksAlways, PTL
=============================================================================
