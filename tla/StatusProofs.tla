----------------------------- MODULE StatusProofs -----------------------------
(***************************************************************************)
(* The blocks that read tags and the way of status to the database.  What  *)
(* makes a stream of tag values stays in its output buffer and loses no    *)
(* value where a sample has at most one; what makes dictionaries publishes *)
(* the marks of the samples in their order, and no mark is lost on the way *)
(* through the collector's and the connector's queue and the buffer.       *)
(*                                                                         *)
(* Loops and flattened sequences are recursive functions; what they yield  *)
(* is proved by looking at the first place where it would be wrong.        *)
(***************************************************************************)
EXTENDS TagToStreamValue, StatusPipeline, SequenceTheorems, WellFoundedInduction, TLAPS

\* There is a least number with a property, if there is one at all.
LEMMA SmallestExists ==
    ASSUME NEW S, S \subseteq Nat, S # {}
    PROVE  \E x \in S : \A y \in S : x <= y
<1> DEFINE Less == OpToRel(<, Nat)
<1>1. IsWellFoundedOn(Less, Nat)
  BY NatLessThanWellFounded
<1>2. PICK x \in S : \A y \in S : <<y, x>> \notin Less
  <2> HIDE DEF Less
  <2> QED
    BY <1>1, WFMin
<1>3. ASSUME NEW y \in S PROVE x <= y
  <2>1. x \in Nat /\ y \in Nat /\ <<y, x>> \notin Less
    BY <1>2
  <2>2. ~(y < x)
    BY <2>1 DEF OpToRel
  <2>3. \A m, n \in Nat : ~(n < m) => m <= n
    OBVIOUS
  <2> QED
    BY <2>1, <2>2, <2>3
<1> QED
  BY <1>3

LEMMA ConcatOf ==
    ASSUME NEW S, NEW s \in Seq(S), NEW t \in Seq(S)
    PROVE  s \o t \in Seq(S) /\ Len(s \o t) = Len(s) + Len(t)
OBVIOUS

LEMMA ConcatFirst ==
    ASSUME NEW S, NEW s \in Seq(S), NEW t \in Seq(S), NEW i \in 1 .. Len(s)
    PROVE  (s \o t)[i] = s[i]
OBVIOUS

LEMMA ConcatThen ==
    ASSUME NEW S, NEW s \in Seq(S), NEW t \in Seq(S), NEW i \in 1 .. Len(t)
    PROVE  (s \o t)[Len(s) + i] = t[i]
OBVIOUS
-----------------------------------------------------------------------------
\* f has the flattened sequence up to each place up to n.
Flats(seqs, n, f) ==
    f = [i \in 1 .. n |-> IF i = 1 THEN seqs[i] ELSE f[i - 1] \o seqs[i]]

\* They exist, although they are defined by themselves.
LEMMA FlatsExist ==
    ASSUME NEW seqs, NEW n \in Nat, n # 0
    PROVE  \E f : Flats(seqs, n, f)
<1> DEFINE bad == { k \in 1 .. n : ~\E f : Flats(seqs, k, f) }
<1>1. bad \subseteq Nat
  OBVIOUS
<1>2. SUFFICES ASSUME bad # {} PROVE FALSE
  <2>1. n \in 1 .. n
    OBVIOUS
  <2> QED
    BY <2>1
<1>3. PICK k \in bad : \A j \in bad : k <= j
  <2> HIDE DEF bad
  <2> QED
    BY <1>1, <1>2, SmallestExists
<1>4. k \in 1 .. n /\ ~\E f : Flats(seqs, k, f)
  OBVIOUS
<1>5. CASE k = 1
  <2> DEFINE g == [i \in 1 .. 1 |-> seqs[1]]
  <2>1. g = [i \in 1 .. k |-> IF i = 1 THEN seqs[i] ELSE g[i - 1] \o seqs[i]]
    BY <1>5
  <2> QED
    BY <2>1, <1>4 DEF Flats
<1>6. CASE k # 1
  <2>1. k - 1 \in 1 .. n /\ k - 1 \notin bad
    BY <1>3, <1>4, <1>6
  <2>2. PICK f : Flats(seqs, k - 1, f)
    BY <2>1
  <2> DEFINE g == [i \in 1 .. k |-> IF i = k THEN f[k - 1] \o seqs[k] ELSE f[i]]
  <2>3. ASSUME NEW i \in 1 .. k
        PROVE  g[i] = IF i = 1 THEN seqs[i] ELSE g[i - 1] \o seqs[i]
    <3>1. CASE i = k
      <4>1. k - 1 \in 1 .. k /\ k - 1 # k /\ k \in 1 .. k
        BY <1>4, <1>6
      <4>2. g[k - 1] = f[k - 1] /\ g[k] = f[k - 1] \o seqs[k]
        BY <4>1
      <4> HIDE DEF g
      <4> QED
        BY <1>6, <3>1, <4>2
    <3>2. CASE i # k
      <4>1. i \in 1 .. k - 1 /\ g[i] = f[i] /\ (i # 1 => g[i - 1] = f[i - 1])
        BY <1>4, <3>2
      <4>2. f[i] = IF i = 1 THEN seqs[i] ELSE f[i - 1] \o seqs[i]
        BY <2>2, <4>1 DEF Flats
      <4> QED
        BY <4>1, <4>2
    <3> QED
      BY <3>1, <3>2
  <2>4. g = [i \in 1 .. k |-> IF i = 1 THEN seqs[i] ELSE g[i - 1] \o seqs[i]]
    <3>1. g = [i \in 1 .. k |-> g[i]]
      OBVIOUS
    <3> HIDE DEF g
    <3> QED
      BY <2>3, <3>1
  <2> QED
    BY <2>4, <1>4 DEF Flats
<1> QED
  BY <1>5, <1>6

LEMMA FlattenIsLast ==
    ASSUME NEW seqs, Len(seqs) \in Nat, Len(seqs) # 0
    PROVE  \E f : Flats(seqs, Len(seqs), f) /\ FlattenSeq(seqs) = f[Len(seqs)]
<1>1. \E f : Flats(seqs, Len(seqs), f)
  BY FlatsExist
<1> DEFINE h == CHOOSE f : Flats(seqs, Len(seqs), f)
<1>2. Flats(seqs, Len(seqs), h)
  BY <1>1
<1>3. FlattenSeq(seqs) = h[Len(seqs)]
  BY DEF FlattenSeq, Flats
<1> QED
  BY <1>2, <1>3

\* A flattened sequence has the elements of its parts, and no more parts of one element at
\* most than there are parts.
LEMMA FlattenFacts ==
    ASSUME NEW S, NEW seqs \in Seq(Seq(S))
    PROVE  /\ FlattenSeq(seqs) \in Seq(S)
           /\ (\A i \in DOMAIN seqs : Len(seqs[i]) <= 1) => Len(FlattenSeq(seqs)) <= Len(seqs)
<1> DEFINE n == Len(seqs)
           small == \A i \in DOMAIN seqs : Len(seqs[i]) <= 1
<1>1. n \in Nat /\ DOMAIN seqs = 1 .. n /\ \A i \in 1 .. n : seqs[i] \in Seq(S)
  OBVIOUS
<1>2. CASE n = 0
  <2>1. seqs = <<>> /\ FlattenSeq(seqs) = seqs
    BY <1>2 DEF FlattenSeq
  <2>2. seqs \in Seq(S) /\ Len(seqs) <= Len(seqs)
    BY <1>2, <2>1
  <2> QED
    BY <2>1, <2>2, Zenon
<1>3. CASE n # 0
  <2>1. PICK f : Flats(seqs, n, f) /\ FlattenSeq(seqs) = f[n]
    BY <1>1, <1>3, FlattenIsLast
  <2> DEFINE Good(k) == f[k] \in Seq(S) /\ (small => Len(f[k]) <= k)
             bad == { k \in 1 .. n : ~Good(k) }
  <2>2. bad = {}
    <3>1. bad \subseteq Nat
      OBVIOUS
    <3>2. SUFFICES ASSUME bad # {} PROVE FALSE
      OBVIOUS
    <3>3. PICK k \in bad : \A j \in bad : k <= j
      <4> HIDE DEF bad
      <4> QED
        BY <3>1, <3>2, SmallestExists
    <3>4. k \in 1 .. n /\ k \in Nat /\ ~Good(k)
      OBVIOUS
    <3>5. f[k] = IF k = 1 THEN seqs[k] ELSE f[k - 1] \o seqs[k]
      BY <2>1, <3>4 DEF Flats
    <3>6. /\ seqs[k] \in Seq(S) /\ Len(seqs[k]) \in Nat
          /\ small => Len(seqs[k]) <= 1
      <4>1. k \in DOMAIN seqs /\ seqs[k] \in Seq(S)
        BY <1>1, <3>4
      <4>2. small => Len(seqs[k]) <= 1
        BY <4>1
      <4> HIDE DEF small
      <4> QED
        BY <4>1, <4>2
    <3>7. CASE k = 1
      <4>1. f[k] = seqs[k]
        BY <3>5, <3>7
      <4> HIDE DEF small
      <4> QED
        BY <3>4, <3>6, <3>7, <4>1
    <3>8. CASE k # 1
      <4>1. k - 1 \in 1 .. n /\ k - 1 \notin bad
        BY <3>3, <3>4, <3>8
      <4>2. f[k - 1] \in Seq(S) /\ (small => Len(f[k - 1]) <= k - 1)
        BY <4>1
      <4>3. f[k] \in Seq(S) /\ Len(f[k]) = Len(f[k - 1]) + Len(seqs[k]) /\ Len(f[k - 1]) \in Nat
        BY <3>5, <3>6, <3>8, <4>2, ConcatOf
      <4> HIDE DEF small
      <4>4. ASSUME small PROVE Len(f[k]) <= k
        <5>1. /\ k \in Nat /\ Len(f[k - 1]) \in Nat /\ Len(seqs[k]) \in Nat
              /\ Len(f[k]) = Len(f[k - 1]) + Len(seqs[k])
              /\ Len(f[k - 1]) <= k - 1 /\ Len(seqs[k]) <= 1
          BY <3>4, <3>6, <4>2, <4>3, <4>4
        <5>2. \A a, b, m \in Nat : a <= m - 1 /\ b <= 1 => a + b <= m
          OBVIOUS
        <5> QED
          BY <5>1, <5>2, Zenon
      <4>5. small => Len(f[k]) <= k
        BY <4>4
      <4> QED
        BY <3>4, <4>3, <4>5, Zenon
    <3> QED
      BY <3>7, <3>8
  <2>3. Good(n)
    BY <1>1, <1>3, <2>2
  <2> QED
    BY <2>1, <2>3
<1> QED
  BY <1>2, <1>3

\* If each part has one element, the flattened sequence has them in their order.
LEMMA FlattenSingles ==
    \A S : \A seqs \in Seq(Seq(S)) :
        (\A i \in DOMAIN seqs : Len(seqs[i]) = 1)
            => FlattenSeq(seqs) = [i \in 1 .. Len(seqs) |-> seqs[i][1]]
<1>1. ASSUME NEW S, NEW seqs \in Seq(Seq(S)), \A i \in DOMAIN seqs : Len(seqs[i]) = 1
      PROVE  FlattenSeq(seqs) = [i \in 1 .. Len(seqs) |-> seqs[i][1]]
  <2> DEFINE n == Len(seqs)
  <2>1. /\ n \in Nat /\ DOMAIN seqs = 1 .. n
        /\ \A i \in 1 .. n : seqs[i] \in Seq(S) /\ Len(seqs[i]) = 1
    BY <1>1
  <2>2. CASE n = 0
    <3>1. seqs = <<>> /\ FlattenSeq(seqs) = seqs
      BY <2>2 DEF FlattenSeq
    <3>2. [i \in 1 .. n |-> seqs[i][1]] = <<>>
      BY <2>2
    <3> QED
      BY <3>1, <3>2
  <2>3. CASE n # 0
    <3>1. PICK f : Flats(seqs, n, f) /\ FlattenSeq(seqs) = f[n]
      BY <2>1, <2>3, FlattenIsLast
    <3> DEFINE Good(k) == f[k] \in Seq(S) /\ Len(f[k]) = k /\ \A i \in 1 .. k : f[k][i] = seqs[i][1]
               bad == { k \in 1 .. n : ~Good(k) }
    <3>2. bad = {}
      <4>1. bad \subseteq Nat
        OBVIOUS
      <4>2. SUFFICES ASSUME bad # {} PROVE FALSE
        OBVIOUS
      <4>3. PICK k \in bad : \A j \in bad : k <= j
        <5> HIDE DEF bad
        <5> QED
          BY <4>1, <4>2, SmallestExists
      <4>4. k \in 1 .. n /\ k \in Nat /\ ~Good(k)
        OBVIOUS
      <4>5. f[k] = IF k = 1 THEN seqs[k] ELSE f[k - 1] \o seqs[k]
        BY <3>1, <4>4 DEF Flats
      <4>6. seqs[k] \in Seq(S) /\ Len(seqs[k]) = 1
        BY <2>1, <4>4
      <4>7. CASE k = 1
        BY <4>4, <4>5, <4>6, <4>7
      <4>8. CASE k # 1
        <5>1. k - 1 \in 1 .. n /\ k - 1 \notin bad
          BY <4>3, <4>4, <4>8
        <5>2. Good(k - 1)
          BY <5>1
        <5>3. /\ f[k] = f[k - 1] \o seqs[k] /\ f[k - 1] \in Seq(S) /\ Len(f[k - 1]) = k - 1
              /\ \A i \in 1 .. k - 1 : f[k - 1][i] = seqs[i][1]
          BY <4>5, <4>8, <5>2
        <5>4. /\ f[k] \in Seq(S) /\ Len(f[k]) = k
              /\ \A i \in 1 .. k - 1 : f[k][i] = f[k - 1][i]
              /\ f[k][k] = seqs[k][1]
          <6> DEFINE front == f[k - 1]
                     last == seqs[k]
                     all == f[k]
          <6>1. /\ all = front \o last /\ front \in Seq(S) /\ last \in Seq(S)
                /\ Len(front) = k - 1 /\ Len(last) = 1 /\ k \in Nat
            BY <4>4, <4>6, <5>3
          <6> HIDE DEF front, last, all, bad, Good
          <6>2. front \o last \in Seq(S) /\ Len(front \o last) = Len(front) + Len(last)
            BY <6>1, ConcatOf
          <6>3. \A i \in 1 .. k - 1 : (front \o last)[i] = front[i]
            BY <6>1, ConcatFirst
          <6>4. Len(front) + 1 = k /\ 1 \in 1 .. Len(last) /\ Len(front) + Len(last) = k
            BY <6>1
          <6>5. \A i \in 1 .. Len(last) : (front \o last)[Len(front) + i] = last[i]
            BY <6>1, ConcatThen
          <6>6. (front \o last)[Len(front) + 1] = last[1]
            BY <6>4, <6>5
          <6> QED
            BY <6>1, <6>2, <6>3, <6>4, <6>6 DEF front, last, all
        <5>5. ASSUME NEW i \in 1 .. k PROVE f[k][i] = seqs[i][1]
          <6>1. CASE i = k
            BY <5>4, <6>1
          <6>2. CASE i # k
            <7>1. i \in 1 .. k - 1
              BY <4>4, <6>2
            <7> QED
              BY <5>3, <5>4, <7>1
          <6> QED
            BY <6>1, <6>2
        <5> QED
          BY <4>4, <5>4, <5>5
      <4> QED
        BY <4>7, <4>8
    <3>3. Good(n)
      BY <2>1, <2>3, <3>2
    <3>4. f[n] = [i \in 1 .. n |-> f[n][i]]
      <4>1. f[n] \in Seq(S) /\ Len(f[n]) = n
        BY <3>3
      <4> HIDE DEF n
      <4> QED
        BY <4>1
    <3>5. \A i \in 1 .. n : f[n][i] = seqs[i][1]
      BY <3>3
    <3> HIDE DEF n
    <3>6. [i \in 1 .. n |-> f[n][i]] = [i \in 1 .. n |-> seqs[i][1]]
      BY <3>5
    <3> QED
      BY <3>1, <3>4, <3>6 DEF n
  <2> QED
    BY <2>2, <2>3
<1> QED
  BY <1>1
-----------------------------------------------------------------------------
\* f has the call after each turn of the loop over the tags up to turn n.
Turns(read, room, n, f) ==
    f = [i \in 0 .. n |->
            IF i = 0 THEN Begin(read, room) ELSE TurnTag(f[i - 1], FlattenSeq(read)[i])]

LEMMA TurnsExist ==
    ASSUME NEW read, NEW room, NEW n \in Nat
    PROVE  \E f : Turns(read, room, n, f)
<1> DEFINE bad == { k \in 0 .. n : ~\E f : Turns(read, room, k, f) }
<1>1. bad \subseteq Nat
  OBVIOUS
<1>2. SUFFICES ASSUME bad # {} PROVE FALSE
  <2>1. n \in 0 .. n
    OBVIOUS
  <2> QED
    BY <2>1
<1>3. PICK k \in bad : \A j \in bad : k <= j
  <2> HIDE DEF bad
  <2> QED
    BY <1>1, <1>2, SmallestExists
<1>4. k \in 0 .. n /\ ~\E f : Turns(read, room, k, f)
  OBVIOUS
<1>5. CASE k = 0
  <2> DEFINE g == [i \in 0 .. 0 |-> Begin(read, room)]
  <2>1. g = [i \in 0 .. k |->
                IF i = 0 THEN Begin(read, room) ELSE TurnTag(g[i - 1], FlattenSeq(read)[i])]
    BY <1>5
  <2> QED
    BY <2>1, <1>4 DEF Turns
<1>6. CASE k # 0
  <2>1. k - 1 \in 0 .. n /\ k - 1 \notin bad
    BY <1>3, <1>4, <1>6
  <2>2. PICK f : Turns(read, room, k - 1, f)
    BY <2>1
  <2> DEFINE g == [i \in 0 .. k |->
                     IF i = k THEN TurnTag(f[k - 1], FlattenSeq(read)[k]) ELSE f[i]]
  <2>3. ASSUME NEW i \in 0 .. k
        PROVE  g[i] = IF i = 0 THEN Begin(read, room) ELSE TurnTag(g[i - 1], FlattenSeq(read)[i])
    <3>1. CASE i = k
      <4>1. k - 1 \in 0 .. k /\ k - 1 # k /\ k \in 0 .. k
        BY <1>4, <1>6
      <4>2. g[k - 1] = f[k - 1] /\ g[k] = TurnTag(f[k - 1], FlattenSeq(read)[k])
        BY <4>1
      <4> HIDE DEF g
      <4> QED
        BY <1>6, <3>1, <4>2
    <3>2. CASE i # k
      <4>1. i \in 0 .. k - 1 /\ g[i] = f[i] /\ (i # 0 => g[i - 1] = f[i - 1])
        BY <1>4, <3>2
      <4>2. f[i] = IF i = 0 THEN Begin(read, room) ELSE TurnTag(f[i - 1], FlattenSeq(read)[i])
        BY <2>2, <4>1 DEF Turns
      <4> HIDE DEF g
      <4> QED
        BY <4>1, <4>2
    <3> QED
      BY <3>1, <3>2
  <2>4. g = [i \in 0 .. k |->
                IF i = 0 THEN Begin(read, room) ELSE TurnTag(g[i - 1], FlattenSeq(read)[i])]
    <3>1. g = [i \in 0 .. k |-> g[i]]
      OBVIOUS
    <3> HIDE DEF g
    <3> QED
      BY <2>3, <3>1
  <2> QED
    BY <2>4, <1>4 DEF Turns
<1> QED
  BY <1>5, <1>6

\* What a call is after its loop: some samples were read, no more than there was room for.
LoopOver(c, read, room, f) ==
    /\ read \in Seq(Seq(Tags)) /\ room \in Nat \ {0} /\ Len(read) <= room
    /\ FlattenSeq(read) \in Seq(Tags)
    /\ Turns(read, room, Len(FlattenSeq(read)), f)
    /\ c = f[Len(FlattenSeq(read))]

LEMMA WorkIsLoop ==
    ASSUME NEW samples \in Seq(Seq(Tags)), NEW room \in Nat \ {0}
    PROVE  \E read, f : LoopOver(Work(samples, room), read, room, f)
<1> DEFINE read == Consumed(samples, room)
           n == Len(FlattenSeq(read))
           h == CHOOSE f : Turns(read, room, n, f)
<1>1. read \in Seq(Seq(Tags)) /\ Len(read) <= room
  BY DEF Consumed
<1> HIDE DEF read
<1>2. FlattenSeq(read) \in Seq(Tags) /\ n \in Nat
  BY <1>1, FlattenFacts
<1>3. Turns(read, room, n, h)
  BY <1>2, TurnsExist
<1>4. Work(samples, room) = h[n]
  BY DEF Work, Turns, read
<1> QED
  BY <1>1, <1>2, <1>3, <1>4 DEF LoopOver

\* A call in its loop that has room left unless it is full.
Output(room) == [1 .. room -> Values \cup {Stale}]

InLoop(c, read, room) ==
    /\ c \in [read : {read}, room : {room}, produced : 0 .. room, full : BOOLEAN, out : Output(room)]
    /\ ~c.full => c.produced < room

\* What is written within the room stays there.
LEMMA WriteFacts ==
    ASSUME NEW room \in Nat, NEW out \in Output(room), NEW values \in Seq(Values), NEW at \in Nat,
           at + Len(values) <= room
    PROVE  /\ Write(out, at, values) \in Output(room)
           /\ \A i \in 1 .. Len(values) : Write(out, at, values)[at + i] = values[i]
           /\ \A i \in 1 .. at : Write(out, at, values)[i] = out[i]
<1> DEFINE n == Len(values)
<1>1. n \in Nat /\ Len(out) = room /\ \A i \in 1 .. n : values[i] \in Values
  BY DEF Output
<1>2. Write(out, at, values) =
        [i \in 1 .. room |-> IF i \in at + 1 .. at + n THEN values[i - at] ELSE out[i]]
  BY <1>1 DEF Write
<1>3. ASSUME NEW i \in 1 .. room, i \in at + 1 .. at + n PROVE values[i - at] \in Values
  <2>1. i - at \in 1 .. n
    BY <1>1, <1>3
  <2> QED
    BY <1>1, <2>1
<1>4. Write(out, at, values) \in Output(room)
  BY <1>2, <1>3 DEF Output
<1>5. ASSUME NEW i \in 1 .. n PROVE Write(out, at, values)[at + i] = values[i]
  <2>1. at + i \in 1 .. room /\ at + i \in at + 1 .. at + n /\ (at + i) - at = i
    BY <1>1
  <2> QED
    BY <1>2, <2>1
<1>6. ASSUME NEW i \in 1 .. at PROVE Write(out, at, values)[i] = out[i]
  <2>1. i \in 1 .. room /\ i \notin at + 1 .. at + n
    BY <1>1
  <2> QED
    BY <1>2, <2>1
<1> QED
  BY <1>4, <1>5, <1>6

LEMMA TurnKeeps ==
    ASSUME NEW read, NEW room \in Nat \ {0}, NEW c, InLoop(c, read, room), NEW tag \in Tags
    PROVE  InLoop(TurnTag(c, tag), read, room)
<1> DEFINE produced == c.produced + Len(tag.of)
           at == IF tag.vector THEN 0 ELSE c.produced
           out == Write(c.out, at, tag.of)
<1>1. /\ c.read = read /\ c.room = room /\ c.produced \in 0 .. room /\ c.full \in BOOLEAN
      /\ c.out \in Output(room) /\ (~c.full => c.produced < room)
      /\ c = [read |-> read, room |-> room, produced |-> c.produced, full |-> c.full, out |-> c.out]
  BY DEF InLoop
<1>2. /\ tag.vector \in BOOLEAN /\ tag.type \in BOOLEAN /\ tag.of \in Seq(Values)
      /\ ~tag.vector => Len(tag.of) = 1
      /\ Len(tag.of) \in Nat
  BY DEF Tags
<1>3. produced \in Nat /\ at \in Nat
  BY <1>1, <1>2
<1>4. CASE c.full \/ ~tag.type
  <2>1. TurnTag(c, tag) = c
    BY <1>4 DEF TurnTag
  <2> QED
    BY <1>4, <2>1
<1>5. CASE ~(c.full \/ ~tag.type) /\ tag.vector /\ produced > room
  <2>1. TurnTag(c, tag) = [c EXCEPT !.full = TRUE]
    BY <1>1, <1>5 DEF TurnTag
  <2> QED
    BY <1>1, <2>1 DEF InLoop
<1>6. CASE ~(c.full \/ ~tag.type) /\ ~(tag.vector /\ produced > room)
  <2>1. TurnTag(c, tag) = [c EXCEPT !.out = out, !.produced = produced, !.full = produced >= room]
    BY <1>1, <1>6 DEF TurnTag
  <2>2. produced <= room /\ at + Len(tag.of) <= room
    <3>1. CASE tag.vector
      <4>1. ~(produced > room)
        BY <1>6, <3>1
      <4>2. at = 0 /\ Len(tag.of) <= produced
        BY <1>1, <1>2, <3>1
      <4> HIDE DEF produced, at
      <4> QED
        BY <1>2, <1>3, <4>1, <4>2
    <3>2. CASE ~tag.vector
      <4>1. c.produced < room /\ Len(tag.of) = 1 /\ at = c.produced
        BY <1>1, <1>2, <1>6, <3>2
      <4> QED
        BY <1>1, <4>1
    <3> QED
      BY <3>1, <3>2
  <2>3. out \in Output(room)
    <3> HIDE DEF at
    <3> QED
      BY <1>1, <1>2, <1>3, <2>2, WriteFacts
  <2> DEFINE full == produced >= room
             next == [read |-> read, room |-> room, produced |-> produced, full |-> full, out |-> out]
  <2>4. TurnTag(c, tag) = next
    <3> HIDE DEF out, produced
    <3> QED
      BY <1>1, <2>1
  <2>5. produced \in 0 .. room /\ full \in BOOLEAN /\ (~full => produced < room)
    BY <1>3, <2>2
  <2> HIDE DEF out, produced, full
  <2>6. InLoop(next, read, room)
    BY <2>3, <2>5 DEF InLoop
  <2> QED
    BY <2>4, <2>6
<1> QED
  BY <1>4, <1>5, <1>6

\* The loop keeps to the room.
LEMMA LoopFacts ==
    ASSUME NEW c, NEW read, NEW room, NEW f, LoopOver(c, read, room, f)
    PROVE  \A i \in 0 .. Len(FlattenSeq(read)) : InLoop(f[i], read, room)
<1> DEFINE tags == FlattenSeq(read)
           n == Len(tags)
           bad == { k \in 0 .. n : ~InLoop(f[k], read, room) }
<1>1. tags \in Seq(Tags) /\ n \in Nat /\ room \in Nat \ {0} /\ Turns(read, room, n, f)
  BY DEF LoopOver
<1>2. bad \subseteq Nat
  OBVIOUS
<1>3. SUFFICES ASSUME bad # {} PROVE FALSE
  OBVIOUS
<1>4. PICK k \in bad : \A j \in bad : k <= j
  <2> HIDE DEF bad
  <2> QED
    BY <1>2, <1>3, SmallestExists
<1>5. k \in 0 .. n /\ k \in Nat /\ ~InLoop(f[k], read, room)
  BY <1>1
<1>6. f[k] = IF k = 0 THEN Begin(read, room) ELSE TurnTag(f[k - 1], tags[k])
  BY <1>1, <1>5 DEF Turns
<1>7. CASE k = 0
  <2>1. InLoop(Begin(read, room), read, room)
    BY <1>1 DEF InLoop, Begin, Output
  <2> QED
    BY <1>5, <1>6, <1>7, <2>1
<1>8. CASE k # 0
  <2>1. k - 1 \in 0 .. n /\ k - 1 \notin bad /\ k \in 1 .. n
    BY <1>1, <1>4, <1>5, <1>8
  <2>2. InLoop(f[k - 1], read, room)
    BY <2>1
  <2>3. tags[k] \in Tags
    BY <1>1, <2>1
  <2>4. InLoop(TurnTag(f[k - 1], tags[k]), read, room)
    <3> HIDE DEF tags
    <3> QED
      BY <1>1, <2>2, <2>3, TurnKeeps
  <2> QED
    BY <1>5, <1>6, <1>8, <2>4
<1> QED
  BY <1>7, <1>8

\* Every call has gone through its loop, the first one over nothing.
LoopDone == \E read, room, f : LoopOver(call, read, room, f)

LEMMA LoopAlwaysDone == StreamValueSpec => []LoopDone
<1>1. StreamValueInit => LoopDone
  <2> SUFFICES ASSUME StreamValueInit PROVE LoopDone
    OBVIOUS
  <2> DEFINE room == MaxOutput
             h == CHOOSE f : Turns(<<>>, room, 0, f)
  <2>1. FlattenSeq(<<>>) = <<>> /\ Len(<<>>) = 0 /\ <<>> \in Seq(Seq(Tags)) /\ <<>> \in Seq(Tags)
    BY DEF FlattenSeq
  <2>2. room \in Nat \ {0}
    BY StreamValueAssumption
  <2>3. Turns(<<>>, room, 0, h)
    BY TurnsExist
  <2>4. call = h[0]
    BY <2>3 DEF Turns, StreamValueInit
  <2> HIDE DEF room, h
  <2>5. LoopOver(call, <<>>, room, h)
    <3>1. Len(<<>>) <= room
      BY <2>1, <2>2
    <3> QED
      BY <2>1, <2>2, <2>3, <2>4, <3>1 DEF LoopOver
  <2> QED
    BY <2>5 DEF LoopDone
<1>2. LoopDone /\ [CallWork]_call => LoopDone'
  <2>1. ASSUME LoopDone, UNCHANGED call PROVE LoopDone'
    BY <2>1 DEF LoopDone
  <2>2. ASSUME CallWork PROVE LoopDone'
    <3>1. PICK n \in 1 .. MaxInput : \E samples \in [1 .. n -> Samples], room \in 1 .. MaxOutput :
            call' = Work(samples, room)
      BY <2>2 DEF CallWork
    <3>2. PICK samples \in [1 .. n -> Samples], room \in 1 .. MaxOutput : call' = Work(samples, room)
      BY <3>1
    <3>3. Samples \subseteq Seq(Tags) /\ MaxOutput \in Nat /\ MaxInput \in Nat
      BY StreamValueAssumption
    <3>4. samples \in Seq(Seq(Tags)) /\ room \in Nat \ {0}
      BY <3>3
    <3>5. PICK read, f : LoopOver(Work(samples, room), read, room, f)
      BY <3>4, WorkIsLoop
    <3> QED
      BY <3>2, <3>5 DEF LoopDone
  <2> QED
    BY <2>1, <2>2
<1> QED
  BY <1>1, <1>2, PTL DEF StreamValueSpec

\* A call never writes behind its output buffer nor returns more than its room, whatever
\* numbers and vectors come and wherever the scheduler cuts (cc:142, 152, 160, 172).
THEOREM AlwaysWithinOutput == StreamValueSpec => []WithinOutput
<1>1. LoopDone => WithinOutput
  <2> SUFFICES ASSUME NEW read, NEW room, NEW f, LoopOver(call, read, room, f)
               PROVE  WithinOutput
    BY DEF LoopDone
  <2>1. Len(FlattenSeq(read)) \in 0 .. Len(FlattenSeq(read)) /\ room \in Nat
    BY DEF LoopOver
  <2>2. InLoop(call, read, room)
    BY <2>1, LoopFacts DEF LoopOver
  <2> QED
    BY <2>1, <2>2 DEF InLoop, WithinOutput, Output
<1> QED
  BY <1>1, LoopAlwaysDone, PTL

\* With numbers only, and no more than there is room for, every turn writes its number
\* behind those before.
LEMMA NumbersInOrder ==
    \A c, read, room, f :
        /\ LoopOver(c, read, room, f) /\ Len(FlattenSeq(read)) <= room
        /\ \A i \in 1 .. Len(FlattenSeq(read)) : ~FlattenSeq(read)[i].vector
        => \A i \in 0 .. Len(FlattenSeq(read)) :
             /\ f[i].produced = i
             /\ \A j \in 1 .. i : f[i].out[j] = FlattenSeq(read)[j].of[1]
<1>1. ASSUME NEW c, NEW read, NEW room, NEW f, LoopOver(c, read, room, f),
             Len(FlattenSeq(read)) <= room,
             \A i \in 1 .. Len(FlattenSeq(read)) : ~FlattenSeq(read)[i].vector
      PROVE  \A i \in 0 .. Len(FlattenSeq(read)) :
                /\ f[i].produced = i
                /\ \A j \in 1 .. i : f[i].out[j] = FlattenSeq(read)[j].of[1]
  <2> DEFINE tags == FlattenSeq(read)
             n == Len(tags)
             Good(k) == /\ f[k].produced = k /\ (f[k].full => k = room)
                        /\ \A j \in 1 .. k : f[k].out[j] = tags[j].of[1]
             bad == { k \in 0 .. n : ~Good(k) }
  <2>1. tags \in Seq(Tags) /\ n \in Nat /\ room \in Nat \ {0} /\ Turns(read, room, n, f) /\ n <= room
    BY <1>1 DEF LoopOver
  <2>2. bad \subseteq Nat
    OBVIOUS
  <2>3. SUFFICES ASSUME bad # {} PROVE FALSE
    OBVIOUS
  <2>4. PICK k \in bad : \A j \in bad : k <= j
    <3> HIDE DEF bad
    <3> QED
      BY <2>2, <2>3, SmallestExists
  <2>5. k \in 0 .. n /\ k \in Nat /\ ~Good(k)
    BY <2>1
  <2>6. f[k] = IF k = 0 THEN Begin(read, room) ELSE TurnTag(f[k - 1], tags[k])
    BY <2>1, <2>5 DEF Turns
  <2>7. CASE k = 0
    BY <2>5, <2>6, <2>7 DEF Begin
  <2>8. CASE k # 0
    <3> DEFINE last == f[k - 1]
               tag == tags[k]
    <3>1. k - 1 \in 0 .. n /\ k - 1 \notin bad /\ k \in 1 .. n
      BY <2>1, <2>4, <2>5, <2>8
    <3>2. /\ last.produced = k - 1 /\ (last.full => k - 1 = room)
          /\ \A j \in 1 .. k - 1 : last.out[j] = tags[j].of[1]
      BY <3>1
    <3>3. InLoop(last, read, room)
      BY <1>1, <3>1, LoopFacts
    <3>4. tag \in Tags /\ ~tag.vector
      BY <1>1, <2>1, <3>1
    <3>5. tag.type /\ Len(tag.of) = 1 /\ tag.of \in Seq(Values)
      BY <3>4 DEF Tags
    <3>6. /\ last.full \in BOOLEAN /\ last.out \in Output(room) /\ last.room = room
          /\ last = [read |-> last.read, room |-> last.room, produced |-> last.produced,
                     full |-> last.full, out |-> last.out]
      BY <3>3 DEF InLoop
    <3>7. ~last.full /\ (k - 1) + 1 = k /\ k <= room /\ k - 1 \in Nat
      BY <2>1, <2>5, <3>1, <3>2
    <3> DEFINE next == TurnTag(last, tag)
               out == Write(last.out, k - 1, tag.of)
    <3>8. f[k] = next
      BY <2>6, <2>8
    <3> HIDE DEF last, tag, tags, n, bad, Good
    <3>9. next = [last EXCEPT !.out = out, !.produced = k, !.full = k >= room]
      <4>1. last.produced + Len(tag.of) = k
        BY <3>2, <3>5, <3>7
      <4>2. ~(last.full \/ ~tag.type) /\ (IF tag.vector THEN 0 ELSE last.produced) = k - 1
        BY <3>2, <3>4, <3>5, <3>7
      <4> QED
        <5> DEFINE at == IF tag.vector THEN 0 ELSE last.produced
                   more == last.produced + Len(tag.of)
        <5>1. next = [last EXCEPT !.out = Write(last.out, at, tag.of), !.produced = more,
                                  !.full = more >= last.room]
          BY <3>4, <4>2 DEF TurnTag
        <5>2. at = k - 1 /\ more = k /\ last.room = room
          BY <3>6, <4>1, <4>2
        <5> HIDE DEF at, more, next
        <5> QED
          BY <5>1, <5>2
    <3>10. /\ \A i \in 1 .. 1 : out[(k - 1) + i] = tag.of[i]
           /\ \A i \in 1 .. k - 1 : out[i] = last.out[i]
      <4>1. (k - 1) + Len(tag.of) <= room /\ room \in Nat
        BY <2>1, <3>5, <3>7
      <4>2. /\ \A i \in 1 .. Len(tag.of) : out[(k - 1) + i] = tag.of[i]
            /\ \A i \in 1 .. k - 1 : out[i] = last.out[i]
        <5> DEFINE before == last.out
                   values == tag.of
                   at == k - 1
        <5>1. /\ room \in Nat /\ before \in Output(room) /\ values \in Seq(Values) /\ at \in Nat
              /\ at + Len(values) <= room /\ out = Write(before, at, values)
          BY <3>5, <3>6, <3>7, <4>1
        <5> HIDE DEF before, values, at, out
        <5>2. \A i \in 1 .. Len(values) : Write(before, at, values)[at + i] = values[i]
          BY <5>1, WriteFacts
        <5>3. \A i \in 1 .. at : Write(before, at, values)[i] = before[i]
          BY <5>1, WriteFacts
        <5>4. /\ \A i \in 1 .. Len(values) : out[at + i] = values[i]
              /\ \A i \in 1 .. at : out[i] = before[i]
          BY <5>1, <5>2, <5>3
        <5> QED
          BY <5>4 DEF before, values, at
      <4> QED
        BY <3>5, <4>2
    <3> HIDE DEF out
    <3>11. next.produced = k /\ next.out = out /\ (next.full => k = room)
      <4>1. (k >= room) => k = room
        BY <2>1, <2>5, <3>7
      <4>2. next = [read |-> last.read, room |-> last.room, produced |-> k, full |-> k >= room, out |-> out]
        BY <3>6, <3>9
      <4> HIDE DEF next
      <4> QED
        BY <4>1, <4>2
    <3> HIDE DEF next
    <3>12. \A j \in 1 .. k : next.out[j] = tags[j].of[1]
      <4>1. ASSUME NEW j \in 1 .. k PROVE out[j] = tags[j].of[1]
        <5>1. CASE j = k
          <6>1. out[(k - 1) + 1] = tag.of[1]
            BY <3>10
          <6> QED
            BY <3>7, <5>1, <6>1 DEF tag
        <5>2. CASE j # k
          <6>1. j \in 1 .. k - 1
            BY <2>5, <5>2
          <6> QED
            BY <3>2, <3>10, <6>1
        <5> QED
          BY <5>1, <5>2
      <4> QED
        BY <3>11, <4>1
    <3> QED
      BY <2>5, <3>8, <3>11, <3>12 DEF Good
  <2> QED
    BY <2>7, <2>8
<1> QED
  BY <1>1

\* With at most one number per sample, no value is lost or moved: numbers are as many as
\* samples at most, and no more samples are read than there is room for.
LEMMA NumbersComplete ==
    \A read, room, f :
        /\ LoopOver(call, read, room, f)
        /\ \A i \in DOMAIN read : Len(read[i]) <= 1 /\ \A t \in Range(read[i]) : ~t.vector
        => SubSeq(call.out, 1, call.produced) = Wanted
<1>1. ASSUME NEW read, NEW room, NEW f, LoopOver(call, read, room, f),
             \A i \in DOMAIN read : Len(read[i]) <= 1 /\ \A t \in Range(read[i]) : ~t.vector
      PROVE  SubSeq(call.out, 1, call.produced) = Wanted
  <2> DEFINE Numbers == { t \in Tags : ~t.vector }
             tags == FlattenSeq(read)
             n == Len(tags)
             seqs == [i \in DOMAIN tags |-> tags[i].of]
  <2>1. read \in Seq(Seq(Numbers))
    <3>1. read \in Seq(Seq(Tags))
      BY <1>1 DEF LoopOver
    <3>2. ASSUME NEW i \in DOMAIN read PROVE read[i] \in Seq(Numbers)
      <4>1. read[i] \in Seq(Tags) /\ \A j \in DOMAIN read[i] : read[i][j] \in Range(read[i])
        BY <3>1 DEF Range
      <4>2. \A j \in DOMAIN read[i] : read[i][j] \in Numbers
        BY <1>1, <4>1
      <4> QED
        BY <4>1, <4>2
    <3> QED
      BY <3>1, <3>2
  <2>2. tags \in Seq(Numbers) /\ n \in Nat /\ n <= Len(read)
    <3>1. \A i \in DOMAIN read : Len(read[i]) <= 1
      BY <1>1
    <3> HIDE DEF Numbers
    <3>2. tags \in Seq(Numbers)
      BY <2>1, FlattenFacts
    <3>3. n <= Len(read)
      BY <2>1, <3>1, FlattenFacts
    <3> QED
      BY <3>2, <3>3
  <2>3. room \in Nat /\ n <= room /\ Len(read) \in Nat
    BY <1>1, <2>1, <2>2 DEF LoopOver
  <2>4. \A i \in 1 .. n : tags[i] \in Tags /\ ~tags[i].vector
    BY <2>2
  <2>5. call.produced = n /\ \A j \in 1 .. n : call.out[j] = tags[j].of[1]
    <3>1. \A i \in 0 .. n :
            /\ f[i].produced = i
            /\ \A j \in 1 .. i : f[i].out[j] = tags[j].of[1]
      <4>1. /\ LoopOver(call, read, room, f) /\ n <= room
            /\ \A i \in 1 .. n : ~tags[i].vector
        BY <1>1, <2>3, <2>4
      <4>2. /\ LoopOver(call, read, room, f) /\ Len(FlattenSeq(read)) <= room
            /\ \A i \in 1 .. Len(FlattenSeq(read)) : ~FlattenSeq(read)[i].vector
            => \A i \in 0 .. Len(FlattenSeq(read)) :
                 /\ f[i].produced = i
                 /\ \A j \in 1 .. i : f[i].out[j] = FlattenSeq(read)[j].of[1]
        BY NumbersInOrder
      <4> QED
        BY <4>1, <4>2
    <3>2. n \in 0 .. n /\ call = f[n]
      BY <1>1, <2>2 DEF LoopOver
    <3> QED
      BY <3>1, <3>2
  <2>6. InLoop(call, read, room)
    <3>1. n \in 0 .. n /\ call = f[n]
      BY <1>1, <2>2 DEF LoopOver
    <3> QED
      BY <1>1, <3>1, LoopFacts
  <2>7. Wanted = FlattenSeq(seqs)
    BY <2>6 DEF InLoop, Wanted
  <2>8. seqs \in Seq(Seq(Values)) /\ Len(seqs) = n /\ \A i \in DOMAIN seqs : Len(seqs[i]) = 1
    <3>1. \A i \in 1 .. n : tags[i].of \in Seq(Values) /\ Len(tags[i].of) = 1
      BY <2>4 DEF Tags
    <3>2. DOMAIN tags = 1 .. n
      BY <2>2
    <3> QED
      BY <2>2, <3>1, <3>2
  <2> HIDE DEF tags
  <2>9. Wanted = [i \in 1 .. n |-> seqs[i][1]]
    <3>1. FlattenSeq(seqs) = [i \in 1 .. Len(seqs) |-> seqs[i][1]]
      <4> HIDE DEF seqs
      <4> QED
        BY <2>8, FlattenSingles
    <3> QED
      BY <2>7, <2>8, <3>1
  <2>10. Wanted = [i \in 1 .. n |-> tags[i].of[1]]
    <3>1. \A i \in 1 .. n : seqs[i][1] = tags[i].of[1]
      BY <2>2
    <3> HIDE DEF seqs
    <3> QED
      BY <2>9, <3>1
  <2>11. SubSeq(call.out, 1, n) = [i \in 1 .. n |-> call.out[i]]
    <3> DEFINE out == call.out
    <3>1. out \in Seq(Values \cup {Stale}) /\ Len(out) = room
      BY <2>3, <2>6 DEF InLoop, Output
    <3> HIDE DEF out, n
    <3>2. SubSeq(out, 1, n) = [i \in 1 .. n |-> out[i]]
      BY <2>2, <2>3, <3>1
    <3> QED
      BY <3>2 DEF out
  <2> HIDE DEF n
  <2> QED
    BY <2>5, <2>10, <2>11
<1> QED
  BY <1>1

LEMMA FlattenOne ==
    ASSUME NEW seqs, Len(seqs) = 1
    PROVE  FlattenSeq(seqs) = seqs[1]
<1>1. PICK f : Flats(seqs, Len(seqs), f) /\ FlattenSeq(seqs) = f[Len(seqs)]
  <2>1. Len(seqs) \in Nat /\ Len(seqs) # 0
    OBVIOUS
  <2> QED
    BY <2>1, FlattenIsLast
<1>2. f[1] = seqs[1]
  BY <1>1 DEF Flats
<1> QED
  BY <1>1, <1>2

\* A single number or vector that fits is returned whole: it is written to the start in
\* either case.
LEMMA SingleComplete ==
    \A read, room, f :
        /\ LoopOver(call, read, room, f)
        /\ Len(FlattenSeq(read)) = 1 /\ FlattenSeq(read)[1].type /\ Len(Wanted) <= room
        => SubSeq(call.out, 1, call.produced) = Wanted
<1>1. ASSUME NEW read, NEW room, NEW f, LoopOver(call, read, room, f),
             Len(FlattenSeq(read)) = 1, FlattenSeq(read)[1].type, Len(Wanted) <= room
      PROVE  SubSeq(call.out, 1, call.produced) = Wanted
  <2> DEFINE tags == FlattenSeq(read)
             tag == tags[1]
             n == Len(tag.of)
             seqs == [i \in DOMAIN tags |-> tags[i].of]
             begin == Begin(read, room)
             out == Write(begin.out, 0, tag.of)
  <2>1. /\ tags \in Seq(Tags) /\ Len(tags) = 1 /\ tag.type /\ tag \in Tags
        /\ room \in Nat \ {0} /\ Turns(read, room, 1, f) /\ call = f[1]
    <3>1. /\ tags \in Seq(Tags) /\ Len(tags) = 1 /\ tag.type
          /\ room \in Nat \ {0} /\ Turns(read, room, Len(tags), f) /\ call = f[Len(tags)]
      BY <1>1 DEF LoopOver
    <3> HIDE DEF tags
    <3> QED
      BY <3>1
  <2>2. tag.of \in Seq(Values) /\ n \in Nat
    BY <2>1 DEF Tags
  <2>3. call = TurnTag(begin, tag)
    BY <2>1 DEF Turns
  <2>4. InLoop(call, read, room)
    <3>1. 1 \in 0 .. Len(FlattenSeq(read))
      BY <2>1
    <3> QED
      BY <1>1, <2>1, <3>1, LoopFacts
  <2>5. Wanted = tag.of
    <3>1. Wanted = FlattenSeq(seqs)
      BY <2>4 DEF InLoop, Wanted
    <3>2. Len(seqs) = 1 /\ seqs[1] = tag.of
      BY <2>1
    <3> HIDE DEF seqs
    <3> QED
      BY <3>1, <3>2, FlattenOne
  <2>6. n <= room
    BY <1>1, <2>5
  <2>7. /\ begin.room = room /\ begin.produced = 0 /\ ~begin.full /\ begin.out \in Output(room)
        /\ begin = [read |-> read, room |-> room, produced |-> 0, full |-> FALSE, out |-> begin.out]
    BY DEF Begin, Output
  <2> HIDE DEF begin, tag
  <2>8. call.out = out /\ call.produced = n
    <3> DEFINE at == IF tag.vector THEN 0 ELSE begin.produced
               more == begin.produced + Len(tag.of)
    <3>1. ~(begin.full \/ ~tag.type) /\ at = 0 /\ more = n /\ ~(more > begin.room)
      BY <2>1, <2>2, <2>6, <2>7
    <3>2. call = [begin EXCEPT !.out = Write(begin.out, at, tag.of), !.produced = more,
                               !.full = more >= begin.room]
      BY <2>3, <3>1 DEF TurnTag
    <3> HIDE DEF at, more
    <3>3. call = [begin EXCEPT !.out = out, !.produced = n, !.full = n >= begin.room]
      BY <3>1, <3>2
    <3> HIDE DEF out, n
    <3> QED
      BY <2>7, <3>3
  <2>9. out \in Output(room) /\ \A i \in 1 .. n : out[i] = tag.of[i]
    <3> DEFINE before == begin.out
               values == tag.of
    <3>1. /\ room \in Nat /\ before \in Output(room) /\ values \in Seq(Values) /\ 0 \in Nat
          /\ 0 + Len(values) <= room
      BY <2>1, <2>2, <2>6, <2>7
    <3> HIDE DEF before, values
    <3>2. Write(before, 0, values) \in Output(room)
      BY <3>1, WriteFacts
    <3>3. \A i \in 1 .. Len(values) : Write(before, 0, values)[0 + i] = values[i]
      BY <3>1, WriteFacts
    <3>4. \A i \in 1 .. Len(values) : 0 + i = i
      OBVIOUS
    <3>5. \A i \in 1 .. Len(values) : Write(before, 0, values)[i] = values[i]
      BY <3>3, <3>4
    <3> QED
      BY <3>2, <3>5 DEF before, values
  <2> HIDE DEF out
  <2>10. SubSeq(out, 1, n) = tag.of
    <3>1. out \in Seq(Values \cup {Stale}) /\ Len(out) = room
      BY <2>1, <2>9 DEF Output
    <3> HIDE DEF n
    <3>2. SubSeq(out, 1, n) = [i \in 1 .. n |-> out[i]]
      BY <2>1, <2>2, <2>6, <3>1
    <3>3. tag.of = [i \in 1 .. n |-> tag.of[i]]
      BY <2>2 DEF n
    <3> QED
      BY <2>9, <3>2, <3>3
  <2> QED
    BY <2>5, <2>8, <2>10
<1> QED
  BY <1>1

\* With at most one number per sample, no value is lost or moved however the scheduler cuts
\* the stream and however little room there is, although the loop may end early and all
\* input is consumed; a single vector that fits is returned whole (cc:126-182).
THEOREM ValuesAlwaysComplete == StreamValueSpec => []ValuesComplete
<1>1. LoopDone => ValuesComplete
  <2> SUFFICES ASSUME NEW read, NEW room, NEW f, LoopOver(call, read, room, f)
               PROVE  ValuesComplete
    BY DEF LoopDone
  <2>1. call.read = read /\ call.room = room
    <3>1. Len(FlattenSeq(read)) \in 0 .. Len(FlattenSeq(read)) /\ call = f[Len(FlattenSeq(read))]
      BY DEF LoopOver
    <3> QED
      BY <3>1, LoopFacts DEF InLoop
  <2>2. ASSUME \A i \in DOMAIN read : Len(read[i]) <= 1 /\ \A t \in Range(read[i]) : ~t.vector
        PROVE  SubSeq(call.out, 1, call.produced) = Wanted
    BY <2>2, NumbersComplete
  <2>3. ASSUME Len(FlattenSeq(read)) = 1, Head(FlattenSeq(read)).type, Len(Wanted) <= room
        PROVE  SubSeq(call.out, 1, call.produced) = Wanted
    <3>1. FlattenSeq(read)[1].type
      BY <2>3 DEF LoopOver
    <3> QED
      BY <2>3, <3>1, SingleComplete
  <2> QED
    BY <2>1, <2>2, <2>3 DEF ValuesComplete
<1> QED
  BY <1>1, LoopAlwaysDone, PTL
-----------------------------------------------------------------------------
\* Flattening a sequence that grows at its end.
LEMMA FlattenAdd ==
    \A S : \A seqs \in Seq(Seq(S)), x \in Seq(S) :
        FlattenSeq(Append(seqs, x)) = FlattenSeq(seqs) \o x
<1>1. ASSUME NEW S, NEW seqs \in Seq(Seq(S)), NEW x \in Seq(S)
      PROVE  FlattenSeq(Append(seqs, x)) = FlattenSeq(seqs) \o x
  <2> DEFINE more == Append(seqs, x)
             n == Len(seqs)
  <2>1. /\ n \in Nat /\ more \in Seq(Seq(S)) /\ Len(more) = n + 1 /\ more[n + 1] = x
        /\ \A i \in 1 .. n : more[i] = seqs[i]
    OBVIOUS
  <2> HIDE DEF more
  <2>2. PICK f : Flats(more, n + 1, f) /\ FlattenSeq(more) = f[n + 1]
    <3>1. Len(more) \in Nat /\ Len(more) # 0
      BY <2>1
    <3> QED
      BY <2>1, <3>1, FlattenIsLast
  <2>3. CASE n = 0
    <3>1. seqs = <<>> /\ FlattenSeq(seqs) = <<>>
      BY <2>3 DEF FlattenSeq
    <3>2. f[n + 1] = x
      BY <2>1, <2>2, <2>3 DEF Flats
    <3> QED
      BY <2>2, <3>1, <3>2 DEF more
  <2>4. CASE n # 0
    <3>1. PICK g : Flats(seqs, n, g) /\ FlattenSeq(seqs) = g[n]
      BY <2>1, <2>4, FlattenIsLast
    <3> DEFINE bad == { k \in 1 .. n : f[k] # g[k] }
    <3>2. bad = {}
      <4>1. bad \subseteq Nat
        OBVIOUS
      <4>2. SUFFICES ASSUME bad # {} PROVE FALSE
        OBVIOUS
      <4>3. PICK k \in bad : \A j \in bad : k <= j
        <5> HIDE DEF bad
        <5> QED
          BY <4>1, <4>2, SmallestExists
      <4>4. k \in 1 .. n /\ k \in 1 .. n + 1 /\ f[k] # g[k] /\ more[k] = seqs[k]
        BY <2>1
      <4>5. f[k] = IF k = 1 THEN more[k] ELSE f[k - 1] \o more[k]
        BY <2>2, <4>4 DEF Flats
      <4>6. g[k] = IF k = 1 THEN seqs[k] ELSE g[k - 1] \o seqs[k]
        BY <3>1, <4>4 DEF Flats
      <4>7. k # 1 => k - 1 \in 1 .. n /\ k - 1 \notin bad
        BY <2>1, <4>3, <4>4
      <4>8. k # 1 => f[k - 1] = g[k - 1]
        BY <4>7
      <4> HIDE DEF bad
      <4> QED
        BY <4>4, <4>5, <4>6, <4>8
    <3>3. f[n] = g[n]
      <4>1. n \in 1 .. n
        BY <2>1, <2>4
      <4> HIDE DEF n
      <4> QED
        BY <3>2, <4>1
    <3>4. f[n + 1] = f[n] \o more[n + 1]
      <4>1. n + 1 \in 1 .. n + 1 /\ n + 1 # 1 /\ (n + 1) - 1 = n
        BY <2>1, <2>4
      <4>2. f[n + 1] = IF n + 1 = 1 THEN more[n + 1] ELSE f[(n + 1) - 1] \o more[n + 1]
        BY <2>2, <4>1 DEF Flats
      <4> HIDE DEF n
      <4> QED
        BY <4>1, <4>2
    <3> QED
      BY <2>1, <2>2, <3>1, <3>3, <3>4 DEF more
  <2> QED
    BY <2>3, <2>4
<1> QED
  BY <1>1

LEMMA ConcatAppend ==
    ASSUME NEW S, NEW s \in Seq(S), NEW t \in Seq(S), NEW x \in S
    PROVE  s \o Append(t, x) = Append(s \o t, x)
<1> DEFINE left == s \o Append(t, x)
           right == Append(s \o t, x)
<1>1. left \in Seq(S) /\ right \in Seq(S) /\ Len(left) = Len(right)
  OBVIOUS
<1>2. \A i \in 1 .. Len(left) : left[i] = right[i]
  OBVIOUS
<1> HIDE DEF left, right
<1>3. left = right
  BY <1>1, <1>2, SeqEqual
<1> QED
  BY <1>3 DEF left, right

\* Flattening one sequence behind another.
LEMMA FlattenConcat ==
    \A S : \A s, t \in Seq(Seq(S)) : FlattenSeq(s \o t) = FlattenSeq(s) \o FlattenSeq(t)
<1>1. ASSUME NEW S, NEW s \in Seq(Seq(S)), NEW t \in Seq(Seq(S))
      PROVE  FlattenSeq(s \o t) = FlattenSeq(s) \o FlattenSeq(t)
  <2> DEFINE n == Len(t)
             Upto(k) == SubSeq(t, 1, k)
             Good(k) == FlattenSeq(s \o Upto(k)) = FlattenSeq(s) \o FlattenSeq(Upto(k))
             bad == { k \in 0 .. n : ~Good(k) }
  <2>1. n \in Nat /\ Upto(n) = t /\ Upto(0) = <<>> /\ FlattenSeq(s) \in Seq(S)
    BY FlattenFacts
  <2>2. bad = {}
    <3>1. bad \subseteq Nat
      OBVIOUS
    <3>2. SUFFICES ASSUME bad # {} PROVE FALSE
      OBVIOUS
    <3>3. PICK k \in bad : \A j \in bad : k <= j
      <4> HIDE DEF bad
      <4> QED
        BY <3>1, <3>2, SmallestExists
    <3>4. k \in 0 .. n /\ ~Good(k)
      OBVIOUS
    <3>5. CASE k = 0
      <4>1. FlattenSeq(<<>>) = <<>>
        BY DEF FlattenSeq
      <4>2. s \o <<>> = s /\ FlattenSeq(s) \o <<>> = FlattenSeq(s)
        BY <2>1, ConcatEmptySeq
      <4>3. Good(k)
        BY <2>1, <3>5, <4>1, <4>2
      <4> QED
        BY <3>4, <4>3
    <3>6. CASE k # 0
      <4> DEFINE front == Upto(k - 1)
                 x == t[k]
                 head == FlattenSeq(s)
                 mid == FlattenSeq(front)
      <4>1. k - 1 \in 0 .. n /\ k - 1 \notin bad /\ k \in 1 .. n
        <5>1. k - 1 \in 0 .. n /\ k \in 1 .. n /\ ~(k <= k - 1)
          BY <2>1, <3>4, <3>6
        <5> HIDE DEF bad
        <5> QED
          BY <3>3, <5>1
      <4>2. FlattenSeq(s \o front) = head \o mid
        BY <4>1
      <4>3. front \in Seq(Seq(S)) /\ x \in Seq(S) /\ Upto(k) = Append(front, x)
        BY <4>1
      <4>4. head \in Seq(S) /\ mid \in Seq(S)
        <5> HIDE DEF front
        <5> QED
          BY <4>3, FlattenFacts
      <4>5. s \o Upto(k) = Append(s \o front, x) /\ s \o front \in Seq(Seq(S))
        <5> DEFINE W == Seq(S)
        <5>1. s \in Seq(W) /\ front \in Seq(W) /\ x \in W
          BY <4>3
        <5> HIDE DEF front, x, Upto, W
        <5>2. s \o front \in Seq(W)
          BY <5>1, ConcatOf
        <5>3. \A u, v \in Seq(W) : \A y \in W : u \o Append(v, y) = Append(u \o v, y)
          BY ConcatAppend
        <5>4. s \o Append(front, x) = Append(s \o front, x)
          BY <5>1, <5>3, ZenonT(30)
        <5> QED
          BY <4>3, <5>2, <5>4 DEF W
      <4>6. s \o front \in Seq(Seq(S)) /\ front \in Seq(Seq(S)) /\ x \in Seq(S)
        BY <4>3, <4>5
      <4>7. mid = FlattenSeq(front)
        OBVIOUS
      <4> HIDE DEF front, x, head, mid, Upto, Good, bad, n
      <4>8. FlattenSeq(Append(s \o front, x)) = FlattenSeq(s \o front) \o x
        BY <4>6, FlattenAdd
      <4>9. FlattenSeq(Append(front, x)) = mid \o x
        BY <4>6, <4>7, FlattenAdd
      <4>10. (head \o mid) \o x = head \o (mid \o x)
        BY <4>4, <4>6, ConcatAssociative
      <4>11. FlattenSeq(s \o Upto(k)) = head \o FlattenSeq(Upto(k))
        BY <4>2, <4>3, <4>5, <4>8, <4>9, <4>10
      <4> QED
        BY <3>4, <4>11 DEF Good, head
    <3> QED
      BY <3>5, <3>6
  <2>3. Good(n)
    <3> HIDE DEF Good
    <3> QED
      BY <2>1, <2>2
  <2> QED
    BY <2>1, <2>3
<1> QED
  BY <1>1
-----------------------------------------------------------------------------
\* Each item that is in a set, alone.
Alone(items, set) == [i \in DOMAIN items |-> IF items[i] \in set THEN <<items[i]>> ELSE <<>>]

LEMMA AloneFacts ==
    ASSUME NEW X, NEW set, NEW items \in Seq(X)
    PROVE  /\ Alone(items, set) \in Seq(Seq(X \cap set))
           /\ Len(Alone(items, set)) = Len(items)
           /\ Only(items, set) = FlattenSeq(Alone(items, set))
<1> DEFINE n == Len(items)
           One(i) == IF items[i] \in set THEN <<items[i]>> ELSE <<>>
<1>1. n \in Nat /\ DOMAIN items = 1 .. n /\ \A i \in 1 .. n : items[i] \in X
  OBVIOUS
<1>2. ASSUME NEW i \in 1 .. n PROVE One(i) \in Seq(X \cap set)
  <2>1. CASE items[i] \in set
    <3>1. items[i] \in X \cap set
      BY <1>1, <2>1
    <3> HIDE DEF n
    <3>2. \A Y : \A y \in Y : <<y>> \in Seq(Y)
      OBVIOUS
    <3>3. One(i) = <<items[i]>>
      BY <2>1
    <3> QED
      BY <3>1, <3>2, <3>3
  <2>2. CASE items[i] \notin set
    <3>1. One(i) = <<>>
      BY <2>2
    <3> QED
      BY <3>1, EmptySeq
  <2> QED
    BY <2>1, <2>2
<1>3. Alone(items, set) = [i \in 1 .. n |-> One(i)]
  <2>1. DOMAIN items = 1 .. n
    BY <1>1
  <2> HIDE DEF n
  <2> QED
    BY <2>1, Zenon DEF Alone
<1>4. Only(items, set) = FlattenSeq(Alone(items, set))
  BY DEF Only, Alone
<1>5. [i \in 1 .. n |-> One(i)] \in Seq(Seq(X \cap set)) /\ Len([i \in 1 .. n |-> One(i)]) = n
  <2> HIDE DEF One, n
  <2>1. [i \in 1 .. n |-> One(i)] \in [1 .. n -> Seq(X \cap set)]
    BY <1>2
  <2> QED
    BY <1>1, <2>1
<1> QED
  BY <1>3, <1>4, <1>5

\* What is selected is in the set and among the items ...
LEMMA OnlyType ==
    \A X, set : \A items \in Seq(X) : Only(items, set) \in Seq(X \cap set)
<1>1. ASSUME NEW X, NEW set, NEW items \in Seq(X)
      PROVE  Only(items, set) \in Seq(X \cap set)
  <2>1. Alone(items, set) \in Seq(Seq(X \cap set))
    BY AloneFacts
  <2>2. FlattenSeq(Alone(items, set)) \in Seq(X \cap set)
    BY <2>1, FlattenFacts
  <2> QED
    BY <2>2, AloneFacts
<1> QED
  BY <1>1

\* ... in their order, so that selecting distributes over parts of a sequence.
LEMMA OnlyConcat ==
    \A X, set : \A s, t \in Seq(X) : Only(s \o t, set) = Only(s, set) \o Only(t, set)
<1>1. ASSUME NEW X, NEW set, NEW s \in Seq(X), NEW t \in Seq(X)
      PROVE  Only(s \o t, set) = Only(s, set) \o Only(t, set)
  <2> DEFINE T == Seq(X \cap set)
  <2>1. s \o t \in Seq(X) /\ Len(s \o t) = Len(s) + Len(t)
    BY ConcatProperties
  <2>2. /\ Alone(s, set) \in Seq(T) /\ Alone(t, set) \in Seq(T) /\ Alone(s \o t, set) \in Seq(T)
        /\ Len(Alone(s, set)) = Len(s) /\ Len(Alone(t, set)) = Len(t)
        /\ Len(Alone(s \o t, set)) = Len(s) + Len(t)
    <3> HIDE DEF T
    <3>1. \A u \in Seq(X) : Alone(u, set) \in Seq(T) /\ Len(Alone(u, set)) = Len(u)
      BY AloneFacts DEF T
    <3> QED
      BY <2>1, <3>1
  <2>3. Alone(s \o t, set) = Alone(s, set) \o Alone(t, set)
    <3> DEFINE left == Alone(s \o t, set)
               right == Alone(s, set) \o Alone(t, set)
               m == Len(s)
               n == Len(t)
    <3>1. right \in Seq(T) /\ Len(right) = m + n /\ left \in Seq(T) /\ Len(left) = m + n
      BY <2>2, ConcatProperties
    <3>2. m \in Nat /\ n \in Nat /\ DOMAIN s = 1 .. m /\ DOMAIN t = 1 .. n /\ DOMAIN (s \o t) = 1 .. m + n
      BY <2>1
    <3>3. ASSUME NEW i \in 1 .. m + n PROVE left[i] = right[i]
      <4>1. left[i] = IF (s \o t)[i] \in set THEN <<(s \o t)[i]>> ELSE <<>>
        BY <3>2 DEF Alone
      <4>2. CASE i <= m
        <5>1. i \in 1 .. m /\ (s \o t)[i] = s[i]
          BY <3>2, <4>2, ConcatFirst
        <5>2. right[i] = Alone(s, set)[i]
          BY <2>2, <3>2, <5>1, ConcatFirst
        <5>3. Alone(s, set)[i] = IF s[i] \in set THEN <<s[i]>> ELSE <<>>
          BY <3>2, <5>1 DEF Alone
        <5> QED
          BY <4>1, <5>1, <5>2, <5>3
      <4>3. CASE ~(i <= m)
        <5>1. PICK j \in 1 .. n : i = m + j
          <6>1. i - m \in 1 .. n /\ i = m + (i - m)
            BY <3>2, <4>3
          <6> QED
            BY <6>1
        <5>2. (s \o t)[i] = t[j]
          BY <5>1, ConcatThen
        <5>3. right[i] = Alone(t, set)[j]
          <6>1. \A k \in 1 .. Len(Alone(t, set)) :
                  right[Len(Alone(s, set)) + k] = Alone(t, set)[k]
            <7> HIDE DEF T, n, m
            <7> QED
              BY <2>2, ConcatThen
          <6> QED
            BY <2>2, <5>1, <6>1
        <5>4. Alone(t, set)[j] = IF t[j] \in set THEN <<t[j]>> ELSE <<>>
          BY <3>2, <5>1 DEF Alone
        <5> QED
          BY <4>1, <5>2, <5>3, <5>4
      <4> QED
        BY <4>2, <4>3
    <3>4. Len(left) = Len(right) /\ \A i \in 1 .. Len(left) : left[i] = right[i]
      BY <3>1, <3>3
    <3> HIDE DEF left, right, T
    <3>5. left = right
      BY <3>1, <3>4, SeqEqual
    <3> QED
      BY <3>5 DEF left, right
  <2>4. FlattenSeq(Alone(s, set) \o Alone(t, set)) = FlattenSeq(Alone(s, set)) \o FlattenSeq(Alone(t, set))
    <3> HIDE DEF T
    <3> QED
      BY <2>2, FlattenConcat DEF T
  <2>5. /\ Only(s, set) = FlattenSeq(Alone(s, set)) /\ Only(t, set) = FlattenSeq(Alone(t, set))
        /\ Only(s \o t, set) = FlattenSeq(Alone(s \o t, set))
    BY <2>1, AloneFacts
  <2> QED
    BY <2>3, <2>4, <2>5
<1> QED
  BY <1>1

LEMMA OnlyOfNone == \A set : Only(<<>>, set) = <<>>
<1>1. ASSUME NEW set PROVE Only(<<>>, set) = <<>>
  <2>1. <<>> \in Seq({})
    OBVIOUS
  <2>2. Only(<<>>, set) \in Seq({} \cap set)
    BY <2>1, OnlyType
  <2>3. \A s \in Seq({}) : s = <<>>
    OBVIOUS
  <2>4. {} \cap set = {}
    OBVIOUS
  <2> QED
    BY <2>2, <2>3, <2>4
<1> QED
  BY <1>1

\* Nothing is selected that is not there.
LEMMA OnlyNothing ==
    \A X, set : X \cap set = {} => \A items \in Seq(X) : Only(items, set) = <<>>
<1>1. ASSUME NEW X, NEW set, X \cap set = {}, NEW items \in Seq(X)
      PROVE  Only(items, set) = <<>>
  <2>1. Only(items, set) \in Seq({})
    BY <1>1, OnlyType
  <2>2. \A s \in Seq({}) : s = <<>>
    OBVIOUS
  <2> QED
    BY <2>1, <2>2
<1> QED
  BY <1>1

LEMMA OnlyOfOne ==
    \A x, set : Only(<<x>>, set) = IF x \in set THEN <<x>> ELSE <<>>
<1>1. ASSUME NEW x, NEW set PROVE Only(<<x>>, set) = IF x \in set THEN <<x>> ELSE <<>>
  <2> DEFINE one == IF x \in set THEN <<x>> ELSE <<>>
             X == {x}
  <2>1. <<>> \in Seq(Seq(X)) /\ one \in Seq(X) /\ Append(<<>>, one) = <<one>>
    <3>1. one \in Seq(X)
      <4>1. <<x>> \in Seq(X) /\ <<>> \in Seq(X)
        BY EmptySeq
      <4>2. one = <<x>> \/ one = <<>>
        OBVIOUS
      <4> HIDE DEF one, X
      <4> QED
        BY <4>1, <4>2
    <3> HIDE DEF one, X
    <3>2. Append(<<>>, one) = <<one>>
      BY <3>1
    <3> QED
      BY <3>1, <3>2, EmptySeq
  <2>2. Alone(<<x>>, set) = <<one>>
    <3>1. DOMAIN <<x>> = 1 .. 1 /\ <<x>>[1] = x
      OBVIOUS
    <3> QED
      BY <3>1 DEF Alone
  <2>3. FlattenSeq(<<>>) = <<>>
    BY DEF FlattenSeq
  <2> HIDE DEF one, X
  <2>4. FlattenSeq(Append(<<>>, one)) = FlattenSeq(<<>>) \o one
    BY <2>1, FlattenAdd
  <2>5. <<>> \o one = one
    BY <2>1, ConcatEmptySeq
  <2>6. Only(<<x>>, set) = FlattenSeq(Alone(<<x>>, set))
    BY DEF Only, Alone
  <2> QED
    BY <2>1, <2>2, <2>3, <2>4, <2>5, <2>6 DEF one
<1> QED
  BY <1>1

\* Sets that do not tell the items apart select the same.
LEMMA OnlySame ==
    \A items, set, other :
        (\A i \in DOMAIN items : items[i] \in set <=> items[i] \in other)
            => Only(items, set) = Only(items, other)
<1>1. ASSUME NEW items, NEW set, NEW other, \A i \in DOMAIN items : items[i] \in set <=> items[i] \in other
      PROVE  Only(items, set) = Only(items, other)
  <2>1. Alone(items, set) = Alone(items, other)
    BY <1>1 DEF Alone
  <2> QED
    BY <2>1 DEF Only, Alone
<1> QED
  BY <1>1
-----------------------------------------------------------------------------
\* Sequences of whatever they are sequences of.
IsSequence(s) == s \in Seq(Range(s))

LEMMA SequenceIs ==
    \A X : \A s \in Seq(X) : IsSequence(s) /\ Range(s) \subseteq X
<1>1. ASSUME NEW X, NEW s \in Seq(X) PROVE IsSequence(s) /\ Range(s) \subseteq X
  <2>1. Len(s) \in Nat /\ s \in [1 .. Len(s) -> X] /\ DOMAIN s = 1 .. Len(s)
    BY LenProperties
  <2>2. s \in [1 .. Len(s) -> Range(s)]
    BY <2>1 DEF Range
  <2>3. s \in Seq(Range(s))
    BY <2>1, <2>2, SeqDef
  <2>4. Range(s) \subseteq X
    BY <2>1 DEF Range
  <2> QED
    BY <2>3, <2>4 DEF IsSequence
<1> QED
  BY <1>1

LEMMA SequenceFacts ==
    ASSUME NEW s, IsSequence(s)
    PROVE  /\ Len(s) \in Nat /\ DOMAIN s = 1 .. Len(s)
           /\ \A i \in 1 .. Len(s) : s[i] \in Range(s)
<1>1. s \in Seq(Range(s))
  BY DEF IsSequence
<1>2. Len(s) \in Nat /\ DOMAIN s = 1 .. Len(s)
  BY <1>1, LenProperties
<1> QED
  BY <1>2 DEF Range

LEMMA RangeConcat ==
    \A s, t : IsSequence(s) /\ IsSequence(t)
        => IsSequence(s \o t) /\ Len(s \o t) = Len(s) + Len(t) /\ Range(s \o t) = Range(s) \cup Range(t)
<1>1. ASSUME NEW s, NEW t, IsSequence(s), IsSequence(t)
      PROVE  IsSequence(s \o t) /\ Len(s \o t) = Len(s) + Len(t) /\ Range(s \o t) = Range(s) \cup Range(t)
  <2> DEFINE X == Range(s) \cup Range(t)
             all == s \o t
  <2>1. s \in Seq(X) /\ t \in Seq(X)
    <3>1. s \in Seq(Range(s)) /\ t \in Seq(Range(t)) /\ Range(s) \subseteq X /\ Range(t) \subseteq X
      BY <1>1 DEF IsSequence
    <3> HIDE DEF X
    <3> QED
      BY <3>1, SeqMonotonic
  <2>2. all \in Seq(X) /\ Len(all) = Len(s) + Len(t)
    <3> HIDE DEF X
    <3> QED
      BY <2>1, ConcatProperties
  <2>3. IsSequence(all) /\ Range(all) \subseteq X
    <3> HIDE DEF X, all
    <3> QED
      BY <2>2, SequenceIs
  <2>4. /\ Len(s) \in Nat /\ Len(t) \in Nat /\ DOMAIN s = 1 .. Len(s) /\ DOMAIN t = 1 .. Len(t)
        /\ DOMAIN all = 1 .. Len(all)
    BY <1>1, <2>3, SequenceFacts
  <2>5. ASSUME NEW x \in X PROVE x \in Range(all)
    <3>1. CASE x \in Range(s)
      <4>1. PICK i \in 1 .. Len(s) : s[i] = x
        BY <2>4, <3>1 DEF Range
      <4>2. all[i] = x
        <5> HIDE DEF X
        <5> QED
          BY <2>1, <4>1, ConcatFirst
      <4>3. i \in DOMAIN all
        BY <2>2, <2>4
      <4> HIDE DEF all
      <4> QED
        BY <4>2, <4>3 DEF Range
    <3>2. CASE x \in Range(t)
      <4>1. PICK i \in 1 .. Len(t) : t[i] = x
        BY <2>4, <3>2 DEF Range
      <4>2. all[Len(s) + i] = x
        <5> HIDE DEF X
        <5> QED
          BY <2>1, <4>1, ConcatThen
      <4>3. Len(s) + i \in DOMAIN all
        BY <2>2, <2>4
      <4> HIDE DEF all
      <4> QED
        BY <4>2, <4>3 DEF Range
    <3> QED
      BY <3>1, <3>2
  <2> HIDE DEF all, X
  <2> QED
    BY <2>2, <2>3, <2>5 DEF all, X
<1> QED
  BY <1>1

LEMMA RangeOne == \A x : IsSequence(<<x>>) /\ Len(<<x>>) = 1 /\ Range(<<x>>) = {x}
<1>1. ASSUME NEW x PROVE IsSequence(<<x>>) /\ Len(<<x>>) = 1 /\ Range(<<x>>) = {x}
  <2>1. DOMAIN <<x>> = 1 .. 1 /\ <<x>>[1] = x /\ Len(<<x>>) = 1
    OBVIOUS
  <2>2. Range(<<x>>) = {x}
    BY <2>1 DEF Range
  <2>3. \A X : \A y \in X : <<y>> \in Seq(X)
    OBVIOUS
  <2>4. <<x>> \in Seq({x})
    BY <2>3
  <2> QED
    BY <2>1, <2>2, <2>4 DEF IsSequence
<1> QED
  BY <1>1

LEMMA AddedAtEnd == \A s, x : IsSequence(s) => Append(s, x) = s \o <<x>>
<1>1. ASSUME NEW s, NEW x, IsSequence(s) PROVE Append(s, x) = s \o <<x>>
  <2> DEFINE X == Range(s) \cup {x}
  <2>1. s \in Seq(X) /\ x \in X
    <3>1. s \in Seq(Range(s)) /\ Range(s) \subseteq X
      BY <1>1 DEF IsSequence
    <3> QED
      BY <3>1, SeqMonotonic
  <2> HIDE DEF X
  <2>2. \A Y : \A u \in Seq(Y), y \in Y : Append(u, y) = u \o <<y>>
    OBVIOUS
  <2> QED
    BY <2>1, <2>2
<1> QED
  BY <1>1

LEMMA RangeAppend ==
    \A s, x : IsSequence(s)
        => IsSequence(Append(s, x)) /\ Len(Append(s, x)) = Len(s) + 1 /\ Range(Append(s, x)) = Range(s) \cup {x}
<1>1. ASSUME NEW s, NEW x, IsSequence(s)
      PROVE  IsSequence(Append(s, x)) /\ Len(Append(s, x)) = Len(s) + 1 /\ Range(Append(s, x)) = Range(s) \cup {x}
  <2>1. IsSequence(<<x>>) /\ Len(<<x>>) = 1 /\ Range(<<x>>) = {x}
    BY RangeOne
  <2>2. /\ IsSequence(s \o <<x>>) /\ Len(s \o <<x>>) = Len(s) + Len(<<x>>)
        /\ Range(s \o <<x>>) = Range(s) \cup Range(<<x>>)
    BY <1>1, <2>1, RangeConcat
  <2>3. Append(s, x) = s \o <<x>>
    BY <1>1, AddedAtEnd
  <2> QED
    BY <2>1, <2>2, <2>3
<1> QED
  BY <1>1

LEMMA HeadThenTail ==
    \A s : IsSequence(s) /\ s # <<>>
        => /\ Head(s) \in Range(s) /\ IsSequence(Tail(s)) /\ Len(s) = Len(Tail(s)) + 1
           /\ s = <<Head(s)>> \o Tail(s)
<1>1. ASSUME NEW s, IsSequence(s), s # <<>>
      PROVE  /\ Head(s) \in Range(s) /\ IsSequence(Tail(s)) /\ Len(s) = Len(Tail(s)) + 1
             /\ s = <<Head(s)>> \o Tail(s)
  <2> DEFINE X == Range(s)
  <2>1. s \in Seq(X)
    BY <1>1 DEF IsSequence
  <2> HIDE DEF X
  <2>2. \A Y : \A u \in Seq(Y) : u # <<>> =>
            Head(u) \in Y /\ Tail(u) \in Seq(Y) /\ Len(u) = Len(Tail(u)) + 1 /\ u = <<Head(u)>> \o Tail(u)
    OBVIOUS
  <2>3. Head(s) \in X /\ Tail(s) \in Seq(X) /\ Len(s) = Len(Tail(s)) + 1 /\ s = <<Head(s)>> \o Tail(s)
    BY <1>1, <2>1, <2>2
  <2>4. IsSequence(Tail(s))
    BY <2>3, SequenceIs
  <2> QED
    BY <2>3, <2>4 DEF X
<1> QED
  BY <1>1

\* A sequence cut at any place.
LEMMA CutSequence ==
    \A s, n : IsSequence(s) /\ n \in 0 .. Len(s)
        => /\ IsSequence(SubSeq(s, 1, n)) /\ Len(SubSeq(s, 1, n)) = n
           /\ IsSequence(SubSeq(s, n + 1, Len(s))) /\ Len(SubSeq(s, n + 1, Len(s))) = Len(s) - n
           /\ s = SubSeq(s, 1, n) \o SubSeq(s, n + 1, Len(s))
<1>1. ASSUME NEW s, NEW n, IsSequence(s), n \in 0 .. Len(s)
      PROVE  /\ IsSequence(SubSeq(s, 1, n)) /\ Len(SubSeq(s, 1, n)) = n
             /\ IsSequence(SubSeq(s, n + 1, Len(s))) /\ Len(SubSeq(s, n + 1, Len(s))) = Len(s) - n
             /\ s = SubSeq(s, 1, n) \o SubSeq(s, n + 1, Len(s))
  <2> DEFINE X == Range(s)
             front == SubSeq(s, 1, n)
             rest == SubSeq(s, n + 1, Len(s))
  <2>1. s \in Seq(X)
    BY <1>1 DEF IsSequence
  <2> HIDE DEF X
  <2>2. Len(s) \in Nat /\ n \in 0 .. Len(s)
    BY <1>1, <2>1
  <2>3. front \in Seq(X) /\ Len(front) = n /\ rest \in Seq(X) /\ Len(rest) = Len(s) - n
    BY <2>1, <2>2
  <2>4. s = front \o rest
    <3>1. 1 \in 1 .. Len(s) + 1 /\ n \in 1 - 1 .. Len(s) /\ Len(s) \in n .. Len(s)
      BY <2>2
    <3>2. SubSeq(s, 1, n) \o SubSeq(s, n + 1, Len(s)) = SubSeq(s, 1, Len(s))
      BY <2>1, <3>1, ConcatAdjacentSubSeq
    <3>3. SubSeq(s, 1, Len(s)) = s
      BY <2>1, SubSeqFull
    <3> QED
      BY <3>2, <3>3
  <2> HIDE DEF front, rest
  <2>5. IsSequence(front) /\ IsSequence(rest)
    BY <2>3, SequenceIs
  <2> QED
    BY <2>3, <2>4, <2>5 DEF front, rest
<1> QED
  BY <1>1
-----------------------------------------------------------------------------
\* A flattened sequence has all elements of its parts.
LEMMA FlattenHasAll ==
    \A S : \A seqs \in Seq(Seq(S)) : \A i \in DOMAIN seqs : Range(seqs[i]) \subseteq Range(FlattenSeq(seqs))
<1>1. ASSUME NEW S, NEW seqs \in Seq(Seq(S)), NEW i \in DOMAIN seqs
      PROVE  Range(seqs[i]) \subseteq Range(FlattenSeq(seqs))
  <2> DEFINE before == SubSeq(seqs, 1, i - 1)
             upto == SubSeq(seqs, 1, i)
             rest == SubSeq(seqs, i + 1, Len(seqs))
             x == seqs[i]
  <2>1. Len(seqs) \in Nat /\ i \in 1 .. Len(seqs) /\ x \in Seq(S)
    OBVIOUS
  <2>2. before \in Seq(Seq(S)) /\ upto \in Seq(Seq(S)) /\ rest \in Seq(Seq(S)) /\ upto = Append(before, x)
    <3>1. \A Y : \A u \in Seq(Y) : \A k \in 1 .. Len(u) :
             /\ SubSeq(u, 1, k - 1) \in Seq(Y) /\ SubSeq(u, 1, k) \in Seq(Y)
             /\ SubSeq(u, k + 1, Len(u)) \in Seq(Y)
      OBVIOUS
    <3>2. \A Y : \A u \in Seq(Y) : \A k \in 1 .. Len(u) : SubSeq(u, 1, k) = Append(SubSeq(u, 1, k - 1), u[k])
      OBVIOUS
    <3> QED
      BY <2>1, <3>1, <3>2
  <2>3. seqs = upto \o rest
    <3>1. IsSequence(seqs) /\ i \in 0 .. Len(seqs)
      BY <2>1, SequenceIs
    <3> QED
      BY <3>1, CutSequence
  <2> HIDE DEF before, upto, rest, x
  <2>4. FlattenSeq(seqs) = FlattenSeq(upto) \o FlattenSeq(rest)
    BY <2>2, <2>3, FlattenConcat
  <2>5. FlattenSeq(upto) = FlattenSeq(before) \o x
    BY <2>1, <2>2, FlattenAdd
  <2>6. FlattenSeq(before) \in Seq(S) /\ FlattenSeq(upto) \in Seq(S) /\ FlattenSeq(rest) \in Seq(S)
    BY <2>2, FlattenFacts
  <2>7. IsSequence(FlattenSeq(before)) /\ IsSequence(FlattenSeq(upto)) /\ IsSequence(FlattenSeq(rest))
        /\ IsSequence(x)
    BY <2>1, <2>6, SequenceIs
  <2>8. Range(FlattenSeq(upto)) = Range(FlattenSeq(before)) \cup Range(x)
    BY <2>5, <2>7, RangeConcat
  <2>9. Range(FlattenSeq(seqs)) = Range(FlattenSeq(upto)) \cup Range(FlattenSeq(rest))
    BY <2>4, <2>7, RangeConcat
  <2> QED
    BY <2>8, <2>9 DEF x
<1> QED
  BY <1>1

\* Samples are sequences of tags.
IsSamples(samples) == IsSequence(samples) /\ \A i \in DOMAIN samples : IsSequence(samples[i])

Tagged(i, tag) == [offset |-> i, key |-> tag.key, value |-> tag.value]

AllTagged(samples) == UNION { { Tagged(i, samples[i][j]) : j \in DOMAIN samples[i] } : i \in DOMAIN samples }

LEMMA TagsInRangeFacts ==
    \A samples : IsSamples(samples)
        => IsSequence(TagsInRange(samples)) /\ Range(TagsInRange(samples)) = AllTagged(samples)
<1>1. ASSUME NEW samples, IsSamples(samples)
      PROVE  IsSequence(TagsInRange(samples)) /\ Range(TagsInRange(samples)) = AllTagged(samples)
  <2> DEFINE all == AllTagged(samples)
             Part(i) == [j \in DOMAIN samples[i] |-> Tagged(i, samples[i][j])]
             parts == [i \in DOMAIN samples |-> Part(i)]
  <2>1. /\ Len(samples) \in Nat /\ DOMAIN samples = 1 .. Len(samples)
        /\ \A i \in DOMAIN samples : Len(samples[i]) \in Nat /\ DOMAIN samples[i] = 1 .. Len(samples[i])
    BY <1>1, SequenceFacts DEF IsSamples
  <2>2. TagsInRange(samples) = FlattenSeq(parts)
    BY DEF TagsInRange, Tagged
  <2>3. ASSUME NEW i \in DOMAIN samples PROVE Part(i) \in Seq(all)
    <3>1. \A j \in 1 .. Len(samples[i]) : Tagged(i, samples[i][j]) \in all
      BY <2>1 DEF AllTagged
    <3>2. Part(i) = [j \in 1 .. Len(samples[i]) |-> Tagged(i, samples[i][j])]
      BY <2>1
    <3> HIDE DEF all
    <3>3. [j \in 1 .. Len(samples[i]) |-> Tagged(i, samples[i][j])] \in [1 .. Len(samples[i]) -> all]
      BY <3>1
    <3>4. [j \in 1 .. Len(samples[i]) |-> Tagged(i, samples[i][j])] \in Seq(all)
      BY <2>1, <3>3, SeqDef
    <3> QED
      BY <3>2, <3>4
  <2>4. parts \in Seq(Seq(all))
    <3> HIDE DEF all, Part
    <3>1. parts \in [1 .. Len(samples) -> Seq(all)]
      BY <2>1, <2>3
    <3> QED
      BY <2>1, <3>1, SeqDef
  <2>5. FlattenSeq(parts) \in Seq(all)
    <3> HIDE DEF all, parts
    <3> QED
      BY <2>4, FlattenFacts
  <2>6. IsSequence(FlattenSeq(parts)) /\ Range(FlattenSeq(parts)) \subseteq all
    <3> HIDE DEF all, parts
    <3> QED
      BY <2>5, SequenceIs
  <2>7. ASSUME NEW t \in all PROVE t \in Range(FlattenSeq(parts))
    <3>1. PICK i \in DOMAIN samples : \E j \in DOMAIN samples[i] : t = Tagged(i, samples[i][j])
      BY DEF AllTagged
    <3>2. PICK j \in DOMAIN samples[i] : t = Tagged(i, samples[i][j])
      BY <3>1
    <3>3. parts[i] = Part(i) /\ i \in DOMAIN parts
      OBVIOUS
    <3>4. t \in Range(Part(i))
      BY <3>2 DEF Range
    <3> HIDE DEF all, parts, Part
    <3>5. Range(parts[i]) \subseteq Range(FlattenSeq(parts))
      BY <2>4, <3>3, FlattenHasAll
    <3> QED
      BY <3>3, <3>4, <3>5
  <2> HIDE DEF all, parts
  <2> QED
    BY <2>2, <2>6, <2>7 DEF all
<1> QED
  BY <1>1

\* All tags of the samples, and nothing else, in the order of their samples.
TagsOf(s, samples) ==
    /\ IsSequence(s) /\ Range(s) = AllTagged(samples)
    /\ \A a, b \in DOMAIN s : a <= b => s[a].offset <= s[b].offset

LEMMA SortedFacts ==
    \A samples : IsSamples(samples) => \A s \in Sorted(TagsInRange(samples)) : TagsOf(s, samples)
<1>1. ASSUME NEW samples, IsSamples(samples), NEW s \in Sorted(TagsInRange(samples))
      PROVE  TagsOf(s, samples)
  <2> DEFINE tags == TagsInRange(samples)
             n == Len(tags)
             all == AllTagged(samples)
  <2>1. IsSequence(tags) /\ Range(tags) = all
    BY <1>1, TagsInRangeFacts
  <2>2. n \in Nat /\ DOMAIN tags = 1 .. n /\ \A i \in 1 .. n : tags[i] \in all
    <3> HIDE DEF tags
    <3> QED
      BY <2>1, SequenceFacts
  <2>3. PICK p \in Surjection(DOMAIN tags, DOMAIN tags) :
          /\ s = [i \in DOMAIN tags |-> tags[p[i]]]
          /\ \A i \in 1 .. n - 1 : s[i].offset <= s[i + 1].offset
    BY DEF Sorted
  <2>4. p \in [1 .. n -> 1 .. n] /\ \A w \in 1 .. n : \E v \in 1 .. n : p[v] = w
    <3>1. p \in Surjection(1 .. n, 1 .. n)
      BY <2>2, <2>3
    <3> HIDE DEF tags, n
    <3> QED
      BY <3>1 DEF Surjection
  <2> HIDE DEF tags
  <2>5. s = [i \in 1 .. n |-> tags[p[i]]]
    BY <2>2, <2>3
  <2> HIDE DEF n, all
  <2>6. \A i \in 1 .. n : s[i] = tags[p[i]] /\ tags[p[i]] \in all
    BY <2>2, <2>4, <2>5
  <2>7. s \in [1 .. n -> all]
    BY <2>5, <2>6
  <2>8. s \in Seq(all) /\ DOMAIN s = 1 .. n
    BY <2>2, <2>7, SeqDef
  <2>9. IsSequence(s) /\ Range(s) \subseteq all
    BY <2>8, SequenceIs
  <2>10. ASSUME NEW t \in all PROVE t \in Range(s)
    <3>1. PICK w \in 1 .. n : tags[w] = t
      BY <2>1, <2>2 DEF Range
    <3>2. PICK v \in 1 .. n : p[v] = w
      BY <2>4
    <3> QED
      BY <2>6, <2>8, <3>1, <3>2 DEF Range
  <2>11. \A i \in 1 .. n : s[i].offset \in Nat
    <3>1. \A t \in all : t.offset \in Nat
      <4>1. Len(samples) \in Nat /\ DOMAIN samples = 1 .. Len(samples)
        BY <1>1, SequenceFacts DEF IsSamples
      <4> QED
        BY <4>1 DEF all, AllTagged, Tagged
    <3> QED
      BY <2>6, <3>1
  <2>12. ASSUME NEW a \in 1 .. n PROVE \A b \in 1 .. n : a <= b => s[a].offset <= s[b].offset
    <3> DEFINE bad == { b \in 1 .. n : a <= b /\ ~(s[a].offset <= s[b].offset) }
    <3>1. bad \subseteq Nat
      OBVIOUS
    <3>2. SUFFICES ASSUME bad # {} PROVE FALSE
      OBVIOUS
    <3>3. PICK b \in bad : \A c \in bad : b <= c
      <4> HIDE DEF bad
      <4> QED
        BY <3>1, <3>2, SmallestExists
    <3>4. b \in 1 .. n /\ a <= b /\ ~(s[a].offset <= s[b].offset)
      OBVIOUS
    <3>5. a # b
      BY <2>11, <3>4
    <3>6. b - 1 \in 1 .. n - 1 /\ a <= b - 1 /\ b - 1 \in 1 .. n /\ b - 1 \notin bad /\ (b - 1) + 1 = b
      BY <2>2, <3>3, <3>4, <3>5
    <3>7. s[b - 1].offset <= s[(b - 1) + 1].offset
      BY <2>3, <3>6
    <3>8. s[a].offset <= s[b - 1].offset
      BY <3>6
    <3>9. s[a].offset \in Nat /\ s[b - 1].offset \in Nat /\ s[b].offset \in Nat
      BY <2>11, <3>4, <3>6
    <3>10. \A x, y, z \in Nat : x <= y /\ y <= z => x <= z
      OBVIOUS
    <3> HIDE DEF bad
    <3> QED
      BY <3>4, <3>6, <3>7, <3>8, <3>9, <3>10
  <2> QED
    BY <2>8, <2>9, <2>10, <2>12 DEF TagsOf, all
<1> QED
  BY <1>1
-----------------------------------------------------------------------------
LEMMA OnlyAppend ==
    \A s, x, set : IsSequence(s) =>
        Only(Append(s, x), set) = IF x \in set THEN Append(Only(s, set), x) ELSE Only(s, set)
<1>1. ASSUME NEW s, NEW x, NEW set, IsSequence(s)
      PROVE  Only(Append(s, x), set) = IF x \in set THEN Append(Only(s, set), x) ELSE Only(s, set)
  <2> DEFINE X == Range(s) \cup {x}
             before == Only(s, set)
  <2>1. s \in Seq(X) /\ <<x>> \in Seq(X)
    <3>1. s \in Seq(Range(s)) /\ <<x>> \in Seq({x}) /\ Range(s) \subseteq X /\ {x} \subseteq X
      BY <1>1, RangeOne DEF IsSequence
    <3> HIDE DEF X
    <3> QED
      BY <3>1, SeqMonotonic
  <2> HIDE DEF X
  <2>2. Only(s \o <<x>>, set) = before \o Only(<<x>>, set)
    BY <2>1, OnlyConcat
  <2>3. Only(<<x>>, set) = IF x \in set THEN <<x>> ELSE <<>>
    BY OnlyOfOne
  <2>4. Append(s, x) = s \o <<x>>
    BY <1>1, AddedAtEnd
  <2>5. before \in Seq(X \cap set)
    BY <2>1, OnlyType
  <2>6. IsSequence(before)
    BY <2>5, SequenceIs
  <2> HIDE DEF before
  <2>7. Append(before, x) = before \o <<x>> /\ before \o <<>> = before
    BY <2>5, <2>6, AddedAtEnd, ConcatEmptySeq
  <2> QED
    BY <2>2, <2>3, <2>4, <2>7 DEF before
<1> QED
  BY <1>1

\* A dictionary has the keys of a sample's tags, each with the value of a tag of that key.
DictOf(d, sample) ==
    /\ \A i \in DOMAIN sample : sample[i].key \in DOMAIN d
    /\ \A key \in DOMAIN d : \E i \in DOMAIN sample : sample[i].key = key /\ d[key] = sample[i].value

AnyMark == Marks \cup {Plain}

LEMMA SampleFacts ==
    ASSUME NEW mark \in AnyMark, NEW sample \in SampleKinds(mark)
    PROVE  /\ IsSequence(sample) /\ MarkOfSample(sample) = mark
           /\ sample = <<>> => mark = Plain
           /\ \A d : DictOf(d, sample) /\ sample # <<>>
                => "mark" \in DOMAIN d /\ d.mark = mark /\ (mark \in Marks => HasTxTime(d))
<1>1. /\ sample \in Seq(Range(sample))
      /\ \A i \in DOMAIN sample : sample[i].key = "mark" => sample[i].value = mark
      /\ sample # <<>> => \E i \in DOMAIN sample : sample[i].key = "mark"
      /\ mark \in Marks => \E i \in DOMAIN sample : sample[i].key = "tx_time"
  BY SamplesAssumption DEF AnyMark
<1>2. IsSequence(sample)
  BY <1>1 DEF IsSequence
<1>3. DOMAIN sample = 1 .. Len(sample) /\ Len(sample) \in Nat /\ (Len(sample) = 0 => sample = <<>>)
  BY <1>1, LenProperties
<1>4. sample = <<>> => DOMAIN sample = {}
  OBVIOUS
<1>5. sample = <<>> => mark = Plain
  BY <1>1, <1>4 DEF AnyMark
<1>6. MarkOfSample(sample) = mark
  <2>1. CASE \E i \in DOMAIN sample : sample[i].key = "mark"
    <3> DEFINE at == CHOOSE i \in DOMAIN sample : sample[i].key = "mark"
    <3>1. at \in DOMAIN sample /\ sample[at].key = "mark"
      BY <2>1
    <3>2. MarkOfSample(sample) = sample[at].value
      BY <2>1 DEF MarkOfSample
    <3> HIDE DEF at
    <3> QED
      BY <1>1, <3>1, <3>2
  <2>2. CASE ~\E i \in DOMAIN sample : sample[i].key = "mark"
    <3>1. sample = <<>> /\ MarkOfSample(sample) = Plain
      BY <1>1, <2>2 DEF MarkOfSample
    <3> QED
      BY <1>5, <3>1
  <2> QED
    BY <2>1, <2>2
<1>7. ASSUME NEW d, DictOf(d, sample), sample # <<>>
      PROVE  "mark" \in DOMAIN d /\ d.mark = mark /\ (mark \in Marks => HasTxTime(d))
  <2>1. "mark" \in DOMAIN d
    BY <1>1, <1>7 DEF DictOf
  <2>2. PICK i \in DOMAIN sample : sample[i].key = "mark" /\ d["mark"] = sample[i].value
    BY <1>7, <2>1 DEF DictOf
  <2>3. d["mark"] = mark
    BY <1>1, <2>2
  <2>4. mark \in Marks => HasTxTime(d)
    BY <1>1, <1>7 DEF DictOf, HasTxTime
  <2> QED
    BY <2>1, <2>3, <2>4
<1> QED
  BY <1>2, <1>5, <1>6, <1>7

\* Samples that may come.
Known(samples) ==
    IsSequence(samples) /\ \A i \in DOMAIN samples : \E mark \in AnyMark : samples[i] \in SampleKinds(mark)

\* The marks of the first m samples, and those of dictionaries.
MarksUpto(samples, m) == Only([i \in 1 .. m |-> MarkOfSample(samples[i])], Marks)
MarksIn(dicts) == Only([i \in DOMAIN dicts |-> dicts[i].mark], Marks)

LEMMA KnownFacts ==
    ASSUME NEW samples, Known(samples)
    PROVE  /\ IsSamples(samples)
           /\ \A i \in DOMAIN samples :
                /\ MarkOfSample(samples[i]) \in AnyMark
                /\ samples[i] = <<>> => MarkOfSample(samples[i]) = Plain
                /\ \A d : DictOf(d, samples[i]) /\ samples[i] # <<>>
                     => d.mark = MarkOfSample(samples[i])
<1>1. ASSUME NEW i \in DOMAIN samples
      PROVE  /\ IsSequence(samples[i])
             /\ MarkOfSample(samples[i]) \in AnyMark
             /\ samples[i] = <<>> => MarkOfSample(samples[i]) = Plain
             /\ \A d : DictOf(d, samples[i]) /\ samples[i] # <<>> => d.mark = MarkOfSample(samples[i])
  <2>1. PICK mark \in AnyMark : samples[i] \in SampleKinds(mark)
    BY DEF Known
  <2> QED
    BY <2>1, SampleFacts
<1> QED
  BY <1>1 DEF Known, IsSamples

LEMMA MarksUptoNext ==
    ASSUME NEW samples, NEW m \in Nat
    PROVE  MarksUpto(samples, m + 1) =
             IF MarkOfSample(samples[m + 1]) \in Marks
             THEN Append(MarksUpto(samples, m), MarkOfSample(samples[m + 1])) ELSE MarksUpto(samples, m)
<1> DEFINE Mark(i) == MarkOfSample(samples[i])
           before == [i \in 1 .. m |-> Mark(i)]
           after == [i \in 1 .. m + 1 |-> Mark(i)]
           X == { Mark(i) : i \in 1 .. m + 1 }
           x == Mark(m + 1)
<1>1. before \in Seq(X) /\ x \in X /\ after \in Seq(X) /\ Len(before) = m /\ Len(after) = m + 1
  <2>1. \A i \in 1 .. m + 1 : Mark(i) \in X
    OBVIOUS
  <2> HIDE DEF X, Mark
  <2>2. \A i \in 1 .. m : Mark(i) \in X
    BY <2>1
  <2>3. m + 1 \in 1 .. m + 1 /\ m + 1 \in Nat
    OBVIOUS
  <2>4. before \in [1 .. m -> X] /\ after \in [1 .. m + 1 -> X]
    BY <2>1, <2>2
  <2> QED
    BY <2>1, <2>3, <2>4
<1>2. after = Append(before, x)
  <2>1. \A i \in 1 .. m : before[i] = Mark(i)
    OBVIOUS
  <2>2. \A i \in 1 .. m + 1 : after[i] = Mark(i)
    OBVIOUS
  <2>3. \A Y : \A u \in Seq(Y), y \in Y : Append(u, y) \in Seq(Y) /\ Len(Append(u, y)) = Len(u) + 1
          /\ (\A i \in 1 .. Len(u) : Append(u, y)[i] = u[i]) /\ Append(u, y)[Len(u) + 1] = y
    OBVIOUS
  <2> DEFINE more == Append(before, x)
  <2> HIDE DEF before, after, X
  <2>4. /\ more \in Seq(X) /\ Len(more) = m + 1
        /\ (\A i \in 1 .. m : more[i] = before[i]) /\ more[m + 1] = x
    BY <1>1, <2>3
  <2> HIDE DEF more
  <2>5. \A i \in 1 .. m + 1 : more[i] = after[i]
    <3>1. ASSUME NEW i \in 1 .. m + 1 PROVE more[i] = after[i]
      <4>1. CASE i = m + 1
        BY <2>2, <2>4, <4>1
      <4>2. CASE i # m + 1
        <5>1. i \in 1 .. m
          BY <4>2
        <5> QED
          BY <2>1, <2>2, <2>4, <5>1
      <4> QED
        BY <4>1, <4>2
    <3> QED
      BY <3>1
  <2>6. more = after
    BY <1>1, <2>4, <2>5, SeqEqual
  <2> QED
    BY <2>6 DEF more
<1>3. IsSequence(before)
  <2> HIDE DEF X, before
  <2> QED
    BY <1>1, SequenceIs
<1>4. Only(Append(before, x), Marks) = IF x \in Marks THEN Append(Only(before, Marks), x) ELSE Only(before, Marks)
  <2> HIDE DEF before, x
  <2> QED
    BY <1>3, OnlyAppend
<1> QED
  BY <1>2, <1>4 DEF MarksUpto

\* Samples without tags have no marks.
LEMMA MarksGap ==
    \A samples, from, to :
        /\ Known(samples) /\ from \in 0 .. Len(samples) /\ to \in from .. Len(samples)
        /\ \A i \in from + 1 .. to : samples[i] = <<>>
        => MarksUpto(samples, to) = MarksUpto(samples, from)
<1>1. ASSUME NEW samples, NEW from, NEW to, Known(samples), from \in 0 .. Len(samples),
             to \in from .. Len(samples), \A i \in from + 1 .. to : samples[i] = <<>>
      PROVE  MarksUpto(samples, to) = MarksUpto(samples, from)
  <2> DEFINE bad == { k \in from .. to : MarksUpto(samples, k) # MarksUpto(samples, from) }
  <2>1. Len(samples) \in Nat /\ DOMAIN samples = 1 .. Len(samples)
    BY <1>1, SequenceFacts DEF Known
  <2>2. from \in Nat /\ to \in Nat /\ from <= to /\ to <= Len(samples)
    BY <1>1, <2>1
  <2>3. bad = {}
    <3>1. bad \subseteq Nat
      BY <2>2
    <3>2. SUFFICES ASSUME bad # {} PROVE FALSE
      OBVIOUS
    <3>3. PICK k \in bad : \A j \in bad : k <= j
      <4> HIDE DEF bad
      <4> QED
        BY <3>1, <3>2, SmallestExists
    <3>4. k \in from .. to /\ MarksUpto(samples, k) # MarksUpto(samples, from)
      OBVIOUS
    <3>5. k # from /\ k \in Nat /\ k - 1 \in from .. to /\ k - 1 \notin bad /\ k - 1 \in Nat
      BY <2>2, <3>3, <3>4
    <3>6. MarksUpto(samples, k - 1) = MarksUpto(samples, from)
      BY <3>5
    <3>7. samples[k] = <<>> /\ k \in DOMAIN samples
      BY <1>1, <2>1, <2>2, <3>4, <3>5
    <3>8. MarkOfSample(samples[k]) = Plain
      BY <1>1, <3>7, KnownFacts
    <3>9. MarkOfSample(samples[k]) \notin Marks
      BY <3>8, ConnectorAssumption
    <3>10. (k - 1) + 1 = k
      BY <3>5
    <3>11. MarksUpto(samples, k) = MarksUpto(samples, k - 1)
      BY <3>5, <3>9, <3>10, MarksUptoNext
    <3> HIDE DEF bad
    <3> QED
      BY <3>4, <3>6, <3>11
  <2>4. to \in from .. to
    BY <2>2
  <2> QED
    BY <2>3, <2>4
<1> QED
  BY <1>1
-----------------------------------------------------------------------------
\* f has what the loop over sorted tags has after each turn up to turn n.
LoopStart(sorted) == [published |-> <<>>, current |-> EmptyDict, offset |-> Head(sorted).offset]

Groups(sorted, n, f) ==
    f = [i \in 0 .. n |-> IF i = 0 THEN LoopStart(sorted) ELSE Turn(f[i - 1], sorted[i])]

LEMMA GroupsExist ==
    ASSUME NEW sorted, NEW n \in Nat
    PROVE  \E f : Groups(sorted, n, f)
<1> DEFINE bad == { k \in 0 .. n : ~\E f : Groups(sorted, k, f) }
<1>1. bad \subseteq Nat
  OBVIOUS
<1>2. SUFFICES ASSUME bad # {} PROVE FALSE
  <2>1. n \in 0 .. n
    OBVIOUS
  <2> QED
    BY <2>1
<1>3. PICK k \in bad : \A j \in bad : k <= j
  <2> HIDE DEF bad
  <2> QED
    BY <1>1, <1>2, SmallestExists
<1>4. k \in 0 .. n /\ ~\E f : Groups(sorted, k, f)
  OBVIOUS
<1>5. CASE k = 0
  <2> DEFINE g == [i \in 0 .. 0 |-> LoopStart(sorted)]
  <2>1. g = [i \in 0 .. k |-> IF i = 0 THEN LoopStart(sorted) ELSE Turn(g[i - 1], sorted[i])]
    BY <1>5
  <2> QED
    BY <2>1, <1>4 DEF Groups
<1>6. CASE k # 0
  <2>1. k - 1 \in 0 .. n /\ k - 1 \notin bad
    BY <1>3, <1>4, <1>6
  <2>2. PICK f : Groups(sorted, k - 1, f)
    BY <2>1
  <2> DEFINE g == [i \in 0 .. k |-> IF i = k THEN Turn(f[k - 1], sorted[k]) ELSE f[i]]
  <2>3. ASSUME NEW i \in 0 .. k
        PROVE  g[i] = IF i = 0 THEN LoopStart(sorted) ELSE Turn(g[i - 1], sorted[i])
    <3>1. CASE i = k
      <4>1. k - 1 \in 0 .. k /\ k - 1 # k /\ k \in 0 .. k
        BY <1>4, <1>6
      <4>2. g[k - 1] = f[k - 1] /\ g[k] = Turn(f[k - 1], sorted[k])
        BY <4>1
      <4> HIDE DEF g
      <4> QED
        BY <1>6, <3>1, <4>2
    <3>2. CASE i # k
      <4>1. i \in 0 .. k - 1 /\ g[i] = f[i] /\ (i # 0 => g[i - 1] = f[i - 1])
        BY <1>4, <3>2
      <4>2. f[i] = IF i = 0 THEN LoopStart(sorted) ELSE Turn(f[i - 1], sorted[i])
        BY <2>2, <4>1 DEF Groups
      <4> HIDE DEF g
      <4> QED
        BY <4>1, <4>2
    <3> QED
      BY <3>1, <3>2
  <2>4. g = [i \in 0 .. k |-> IF i = 0 THEN LoopStart(sorted) ELSE Turn(g[i - 1], sorted[i])]
    <3>1. g = [i \in 0 .. k |-> g[i]]
      OBVIOUS
    <3> HIDE DEF g
    <3> QED
      BY <2>3, <3>1
  <2> QED
    BY <2>4, <1>4 DEF Groups
<1> QED
  BY <1>5, <1>6

LEMMA LoopIsLast ==
    ASSUME NEW sorted, Len(sorted) \in Nat
    PROVE  \E f : Groups(sorted, Len(sorted), f) /\ Loop(sorted) = f[Len(sorted)]
<1> DEFINE h == CHOOSE f : Groups(sorted, Len(sorted), f)
<1>1. Groups(sorted, Len(sorted), h)
  BY GroupsExist
<1>2. Loop(sorted) = h[Len(sorted)]
  BY DEF Loop, Groups, LoopStart
<1> QED
  BY <1>1, <1>2

\* A dictionary of the tags with an offset among the first k.
Collects(dict, s, k, offset) ==
    /\ \A j \in 1 .. k : s[j].offset = offset => s[j].key \in DOMAIN dict
    /\ \A key \in DOMAIN dict :
         \E j \in 1 .. k : s[j].offset = offset /\ s[j].key = key /\ dict[key] = s[j].value

LEMMA CollectsMore ==
    ASSUME NEW dict, NEW s, NEW k \in Nat, NEW offset, Collects(dict, s, k, offset),
           s[k + 1].offset = offset
    PROVE  Collects(DictAdd(dict, s[k + 1].key, s[k + 1].value), s, k + 1, offset)
<1> DEFINE more == DictAdd(dict, s[k + 1].key, s[k + 1].value)
<1>1. /\ DOMAIN more = DOMAIN dict \cup {s[k + 1].key} /\ more[s[k + 1].key] = s[k + 1].value
      /\ \A other \in DOMAIN dict : other # s[k + 1].key => more[other] = dict[other]
  <2> DEFINE added == s[k + 1].key
             with == s[k + 1].value
  <2> HIDE DEF added, with
  <2>1. /\ DOMAIN DictAdd(dict, added, with) = DOMAIN dict \cup {added}
        /\ DictAdd(dict, added, with)[added] = with
        /\ \A other \in DOMAIN dict : other # added => DictAdd(dict, added, with)[other] = dict[other]
    BY DEF DictAdd
  <2>2. more = DictAdd(dict, added, with)
    BY DEF added, with
  <2> HIDE DEF more
  <2> QED
    BY <2>1, <2>2 DEF added, with
<1>2. \A j \in 1 .. k + 1 : j \in 1 .. k \/ j = k + 1
  OBVIOUS
<1>3. k + 1 \in 1 .. k + 1 /\ \A j \in 1 .. k : j \in 1 .. k + 1
  OBVIOUS
<1> HIDE DEF more
<1>4. ASSUME NEW j \in 1 .. k + 1, s[j].offset = offset PROVE s[j].key \in DOMAIN more
  BY <1>1, <1>2, <1>4 DEF Collects
<1>5. ASSUME NEW key \in DOMAIN more
      PROVE  \E j \in 1 .. k + 1 : s[j].offset = offset /\ s[j].key = key /\ more[key] = s[j].value
  <2>1. CASE key = s[k + 1].key
    BY <1>1, <1>3, <2>1
  <2>2. CASE key # s[k + 1].key
    <3>1. key \in DOMAIN dict /\ more[key] = dict[key]
      BY <1>1, <2>2
    <3>2. PICK j \in 1 .. k : s[j].offset = offset /\ s[j].key = key /\ dict[key] = s[j].value
      BY <3>1 DEF Collects
    <3> QED
      BY <1>3, <3>1, <3>2
  <2> QED
    BY <2>1, <2>2
<1> QED
  BY <1>4, <1>5 DEF Collects, more

LEMMA CollectsFirst ==
    ASSUME NEW s, NEW k \in Nat, \A j \in 1 .. k : s[j].offset # s[k + 1].offset
    PROVE  Collects(DictAdd(EmptyDict, s[k + 1].key, s[k + 1].value), s, k + 1, s[k + 1].offset)
<1>1. Collects(EmptyDict, s, k, s[k + 1].offset)
  <2>1. DOMAIN EmptyDict = {}
    BY DEF EmptyDict
  <2> QED
    BY <2>1 DEF Collects
<1> QED
  BY <1>1, CollectsMore

\* Once all tags of a sample were met, their dictionary is that of the sample.
LEMMA CollectedAll ==
    ASSUME NEW samples, NEW s, TagsOf(s, samples), NEW k \in 1 .. Len(s), NEW dict,
           Collects(dict, s, k, s[k].offset),
           \A j \in 1 .. Len(s) : s[j].offset = s[k].offset => j <= k
    PROVE  /\ s[k].offset \in DOMAIN samples /\ samples[s[k].offset] # <<>>
           /\ DictOf(dict, samples[s[k].offset])
<1> DEFINE o == s[k].offset
           sample == samples[o]
<1>1. /\ Len(s) \in Nat /\ DOMAIN s = 1 .. Len(s) /\ Range(s) = AllTagged(samples)
      /\ \A j \in 1 .. Len(s) : s[j] \in AllTagged(samples)
  BY SequenceFacts DEF TagsOf
<1>2. ASSUME NEW j \in 1 .. Len(s), s[j].offset = o
      PROVE  o \in DOMAIN samples /\ \E i \in DOMAIN sample : s[j].key = sample[i].key /\ s[j].value = sample[i].value
  <2>1. PICK i \in DOMAIN samples : \E n \in DOMAIN samples[i] : s[j] = Tagged(i, samples[i][n])
    BY <1>1 DEF AllTagged
  <2>2. PICK n \in DOMAIN samples[i] : s[j] = Tagged(i, samples[i][n])
    BY <2>1
  <2>3. s[j].offset = i /\ s[j].key = samples[i][n].key /\ s[j].value = samples[i][n].value
    BY <2>2 DEF Tagged
  <2> QED
    BY <1>2, <2>3
<1>3. o \in DOMAIN samples /\ DOMAIN sample # {}
  BY <1>2
<1>4. sample # <<>>
  BY <1>3
<1>5. ASSUME NEW i \in DOMAIN sample PROVE sample[i].key \in DOMAIN dict
  <2>1. Tagged(o, sample[i]) \in AllTagged(samples)
    BY <1>3 DEF AllTagged
  <2>2. PICK j \in 1 .. Len(s) : s[j] = Tagged(o, sample[i])
    BY <1>1, <2>1 DEF Range
  <2>3. s[j].offset = o /\ s[j].key = sample[i].key
    BY <2>2 DEF Tagged
  <2>4. j \in 1 .. k
    BY <1>1, <2>3
  <2> QED
    BY <2>3, <2>4 DEF Collects
<1>6. ASSUME NEW key \in DOMAIN dict
      PROVE  \E i \in DOMAIN sample : sample[i].key = key /\ dict[key] = sample[i].value
  <2>1. PICK j \in 1 .. k : s[j].offset = o /\ s[j].key = key /\ dict[key] = s[j].value
    BY DEF Collects
  <2>2. j \in 1 .. Len(s)
    BY <1>1
  <2>3. PICK i \in DOMAIN sample : s[j].key = sample[i].key /\ s[j].value = sample[i].value
    BY <1>2, <2>1, <2>2
  <2> QED
    BY <2>1, <2>3
<1> QED
  BY <1>3, <1>4, <1>5, <1>6 DEF DictOf

\* Samples between those of two tags that follow each other have none.
LEMMA NoTagsBetween ==
    ASSUME NEW samples, IsSamples(samples), NEW s, TagsOf(s, samples), NEW i \in DOMAIN samples,
           \A j \in 1 .. Len(s) : s[j].offset # i
    PROVE  samples[i] = <<>>
<1>1. IsSequence(samples[i])
  BY DEF IsSamples
<1>2. Len(samples[i]) \in Nat /\ DOMAIN samples[i] = 1 .. Len(samples[i])
  BY <1>1, SequenceFacts
<1>3. ASSUME NEW n \in DOMAIN samples[i] PROVE FALSE
  <2>1. Tagged(i, samples[i][n]) \in AllTagged(samples)
    BY DEF AllTagged
  <2>2. PICK j \in DOMAIN s : s[j] = Tagged(i, samples[i][n])
    BY <2>1 DEF TagsOf, Range
  <2>3. s[j].offset = i /\ j \in 1 .. Len(s)
    BY <2>2, SequenceFacts DEF Tagged, TagsOf
  <2> QED
    BY <2>3
<1>4. Len(samples[i]) = 0
  <2>1. ASSUME Len(samples[i]) # 0 PROVE FALSE
    <3>1. 1 \in DOMAIN samples[i]
      BY <1>2, <2>1
    <3> QED
      BY <1>3, <3>1
  <2> QED
    BY <2>1
<1>5. \A Y : \A u \in Seq(Y) : Len(u) = 0 => u = <<>>
  OBVIOUS
<1> QED
  BY <1>1, <1>4, <1>5 DEF IsSequence

\* What the loop has after turn k: the samples before the one whose tag comes last are
\* published, and the tags of this one so far are in the current dictionary.
Reports(dicts, samples) ==
    \A d \in Range(dicts) : \E i \in DOMAIN samples : samples[i] # <<>> /\ DictOf(d, samples[i])

Grouped(c, s, k, samples) ==
    /\ c = [published |-> c.published, current |-> c.current, offset |-> s[k].offset]
    /\ IsSequence(c.published) /\ Reports(c.published, samples)
    /\ MarksIn(c.published) = MarksUpto(samples, s[k].offset - 1)
    /\ Collects(c.current, s, k, s[k].offset)

LEMMA MarksInAppend ==
    \A dicts, d : IsSequence(dicts) =>
        MarksIn(Append(dicts, d)) =
            IF d.mark \in Marks THEN Append(MarksIn(dicts), d.mark) ELSE MarksIn(dicts)
<1>1. ASSUME NEW dicts, NEW d, IsSequence(dicts)
      PROVE  MarksIn(Append(dicts, d)) =
                IF d.mark \in Marks THEN Append(MarksIn(dicts), d.mark) ELSE MarksIn(dicts)
  <2> DEFINE n == Len(dicts)
             more == Append(dicts, d)
             before == [i \in DOMAIN dicts |-> dicts[i].mark]
             after == [i \in DOMAIN more |-> more[i].mark]
             x == d.mark
             X == { dicts[i].mark : i \in 1 .. n } \cup {x}
             all == Append(before, x)
  <2>1. n \in Nat /\ DOMAIN dicts = 1 .. n
    BY <1>1, SequenceFacts
  <2>2. /\ DOMAIN more = 1 .. n + 1 /\ more[n + 1] = d
        /\ \A i \in 1 .. n : more[i] = dicts[i]
    <3>1. \A Y : \A u \in Seq(Y) : \A y :
             /\ DOMAIN Append(u, y) = 1 .. Len(u) + 1 /\ Append(u, y)[Len(u) + 1] = y
             /\ \A i \in 1 .. Len(u) : Append(u, y)[i] = u[i]
      OBVIOUS
    <3>2. dicts \in Seq(Range(dicts))
      BY <1>1 DEF IsSequence
    <3> QED
      BY <3>1, <3>2
  <2> HIDE DEF more
  <2>3. before \in Seq(X) /\ Len(before) = n /\ x \in X /\ \A i \in 1 .. n : before[i] = dicts[i].mark
    <3>1. \A i \in 1 .. n : dicts[i].mark \in X
      OBVIOUS
    <3>2. \A i \in 1 .. n : before[i] = dicts[i].mark
      BY <2>1
    <3>3. x \in X
      OBVIOUS
    <3> HIDE DEF X
    <3>4. before \in [1 .. n -> X]
      BY <2>1, <3>1
    <3> HIDE DEF before, n
    <3>5. before \in Seq(X) /\ Len(before) = n
      BY <2>1, <3>4
    <3> QED
      BY <3>2, <3>3, <3>5
  <2>4. after = all
    <3> HIDE DEF X, before, n
    <3>1. /\ all \in Seq(X) /\ Len(all) = n + 1 /\ all[n + 1] = x
          /\ \A i \in 1 .. n : all[i] = before[i]
      BY <2>1, <2>3
    <3>2. all = [i \in 1 .. n + 1 |-> all[i]]
      BY <2>1, <3>1
    <3> HIDE DEF all
    <3>3. ASSUME NEW i \in 1 .. n + 1 PROVE all[i] = more[i].mark
      <4>1. CASE i = n + 1
        BY <2>2, <3>1, <4>1
      <4>2. CASE i # n + 1
        <5>1. i \in 1 .. n
          BY <2>1, <4>2
        <5> QED
          BY <2>2, <2>3, <3>1, <5>1
      <4> QED
        BY <4>1, <4>2
    <3> QED
      BY <2>2, <3>2, <3>3
  <2>5. IsSequence(before)
    <3> HIDE DEF X, before
    <3> QED
      BY <2>3, SequenceIs
  <2>6. Only(all, Marks) = IF x \in Marks THEN Append(Only(before, Marks), x) ELSE Only(before, Marks)
    <3> HIDE DEF before, x
    <3> QED
      BY <2>5, OnlyAppend
  <2>7. MarksIn(dicts) = Only(before, Marks) /\ MarksIn(more) = Only(after, Marks)
    BY DEF MarksIn
  <2> HIDE DEF before, after, all
  <2> QED
    BY <2>4, <2>6, <2>7 DEF more
<1> QED
  BY <1>1

\* With the tags of sample o complete, what is published with its dictionary has the marks
\* of the samples up to o.
LEMMA PublishOne ==
    \A samples, dicts, d, o :
        /\ Known(samples) /\ IsSequence(dicts) /\ Reports(dicts, samples)
        /\ o \in DOMAIN samples /\ samples[o] # <<>> /\ DictOf(d, samples[o])
        /\ MarksIn(dicts) = MarksUpto(samples, o - 1)
        => /\ IsSequence(Append(dicts, d)) /\ Reports(Append(dicts, d), samples)
           /\ MarksIn(Append(dicts, d)) = MarksUpto(samples, o)
<1>1. ASSUME NEW samples, NEW dicts, NEW d, NEW o,
             Known(samples), IsSequence(dicts), Reports(dicts, samples),
             o \in DOMAIN samples, samples[o] # <<>>, DictOf(d, samples[o]),
             MarksIn(dicts) = MarksUpto(samples, o - 1)
      PROVE  /\ IsSequence(Append(dicts, d)) /\ Reports(Append(dicts, d), samples)
             /\ MarksIn(Append(dicts, d)) = MarksUpto(samples, o)
  <2>1. IsSequence(Append(dicts, d)) /\ Range(Append(dicts, d)) = Range(dicts) \cup {d}
    BY <1>1, RangeAppend
  <2>2. Reports(Append(dicts, d), samples)
    BY <1>1, <2>1 DEF Reports
  <2>3. d.mark = MarkOfSample(samples[o])
    BY <1>1, KnownFacts
  <2>4. o - 1 \in Nat /\ (o - 1) + 1 = o
    <3>1. DOMAIN samples = 1 .. Len(samples) /\ Len(samples) \in Nat
      BY <1>1, SequenceFacts DEF Known
    <3> QED
      BY <1>1, <3>1
  <2>5. MarksIn(Append(dicts, d)) =
          IF d.mark \in Marks THEN Append(MarksIn(dicts), d.mark) ELSE MarksIn(dicts)
    BY <1>1, MarksInAppend
  <2>6. MarksUpto(samples, (o - 1) + 1) =
          IF MarkOfSample(samples[(o - 1) + 1]) \in Marks
          THEN Append(MarksUpto(samples, o - 1), MarkOfSample(samples[(o - 1) + 1]))
          ELSE MarksUpto(samples, o - 1)
    BY <2>4, MarksUptoNext
  <2>7. MarksUpto(samples, o) =
          IF MarkOfSample(samples[o]) \in Marks
          THEN Append(MarksUpto(samples, o - 1), MarkOfSample(samples[o]))
          ELSE MarksUpto(samples, o - 1)
    BY <2>4, <2>6
  <2> QED
    BY <1>1, <2>1, <2>2, <2>3, <2>5, <2>7
<1> QED
  BY <1>1

LEMMA OffsetFacts ==
    ASSUME NEW samples, IsSamples(samples), NEW s, TagsOf(s, samples)
    PROVE  /\ Len(s) \in Nat /\ DOMAIN s = 1 .. Len(s)
           /\ Len(samples) \in Nat /\ DOMAIN samples = 1 .. Len(samples)
           /\ \A j \in 1 .. Len(s) : s[j].offset \in 1 .. Len(samples)
           /\ \A a, b \in 1 .. Len(s) : a <= b => s[a].offset <= s[b].offset
<1>1. /\ Len(s) \in Nat /\ DOMAIN s = 1 .. Len(s) /\ Len(samples) \in Nat
      /\ DOMAIN samples = 1 .. Len(samples) /\ \A j \in 1 .. Len(s) : s[j] \in AllTagged(samples)
  BY SequenceFacts DEF TagsOf, IsSamples
<1>2. \A t \in AllTagged(samples) : t.offset \in DOMAIN samples
  BY DEF AllTagged, Tagged
<1>3. \A a, b \in 1 .. Len(s) : a <= b => s[a].offset <= s[b].offset
  BY <1>1 DEF TagsOf
<1> QED
  BY <1>1, <1>2, <1>3

LEMMA MarksOfNone ==
    /\ MarksIn(<<>>) = <<>>
    /\ \A samples : MarksUpto(samples, 0) = <<>>
<1>1. [i \in DOMAIN <<>> |-> <<>>[i].mark] = <<>>
  OBVIOUS
<1>2. \A samples : [i \in 1 .. 0 |-> MarkOfSample(samples[i])] = <<>>
  OBVIOUS
<1>3. MarksIn(<<>>) = Only(<<>>, Marks)
  BY <1>1 DEF MarksIn
<1>4. \A samples : MarksUpto(samples, 0) = Only(<<>>, Marks)
  BY <1>2 DEF MarksUpto
<1> QED
  BY <1>3, <1>4, OnlyOfNone

LEMMA GroupedFirst ==
    ASSUME NEW samples, Known(samples), NEW s, TagsOf(s, samples), Len(s) # 0
    PROVE  Grouped(Turn(LoopStart(s), s[1]), s, 1, samples)
<1> DEFINE o == s[1].offset
           dict == DictAdd(EmptyDict, s[1].key, s[1].value)
           c == Turn(LoopStart(s), s[1])
<1>1. IsSamples(samples)
  BY KnownFacts
<1>2. /\ Len(s) \in Nat /\ DOMAIN s = 1 .. Len(s) /\ o \in 1 .. Len(samples) /\ Len(samples) \in Nat
      /\ DOMAIN samples = 1 .. Len(samples)
      /\ \A j \in 1 .. Len(s) : s[j].offset \in 1 .. Len(samples) /\ o <= s[j].offset
  <2>1. 1 \in 1 .. Len(s) /\ \A j \in 1 .. Len(s) : 1 <= j
    BY <1>1, OffsetFacts
  <2> QED
    BY <1>1, <2>1, OffsetFacts
<1>3. c = [published |-> <<>>, current |-> dict, offset |-> o]
  <2>1. Head(s) = s[1]
    BY <1>2
  <2>2. ~(o > o)
    BY <1>2
  <2> HIDE DEF o
  <2> QED
    BY <2>1, <2>2 DEF Turn, LoopStart, o
<1>4. Collects(dict, s, 1, o)
  <2>1. 0 \in Nat /\ 0 + 1 = 1 /\ \A j \in 1 .. 0 : s[j].offset # s[0 + 1].offset
    OBVIOUS
  <2>2. Collects(DictAdd(EmptyDict, s[0 + 1].key, s[0 + 1].value), s, 0 + 1, s[0 + 1].offset)
    BY <2>1, CollectsFirst
  <2> QED
    BY <2>1, <2>2
<1>5. \A i \in 0 + 1 .. o - 1 : samples[i] = <<>>
  <2>1. ASSUME NEW i \in 0 + 1 .. o - 1 PROVE samples[i] = <<>>
    <3>1. i \in DOMAIN samples /\ \A j \in 1 .. Len(s) : s[j].offset # i
      BY <1>2
    <3> QED
      BY <1>1, <3>1, NoTagsBetween
  <2> QED
    BY <2>1
<1>6. MarksUpto(samples, o - 1) = MarksUpto(samples, 0)
  <2>1. 0 \in 0 .. Len(samples) /\ o - 1 \in 0 .. Len(samples)
    BY <1>2
  <2> HIDE DEF o
  <2> QED
    BY <1>5, <2>1, MarksGap
<1>7. IsSequence(<<>>) /\ Range(<<>>) = {}
  <2>1. Range(<<>>) = {}
    BY DEF Range
  <2> QED
    BY <2>1, EmptySeq DEF IsSequence
<1>8. Reports(<<>>, samples)
  BY <1>7 DEF Reports
<1>9. MarksIn(<<>>) = MarksUpto(samples, o - 1)
  BY <1>6, MarksOfNone
<1> HIDE DEF dict, o
<1> QED
  BY <1>3, <1>4, <1>7, <1>8, <1>9 DEF Grouped, o

LEMMA GroupedNext ==
    ASSUME NEW samples, Known(samples), NEW s, TagsOf(s, samples), NEW k \in Nat, k # 0, k < Len(s),
           NEW c, Grouped(c, s, k, samples)
    PROVE  Grouped(Turn(c, s[k + 1]), s, k + 1, samples)
<1> DEFINE o == s[k].offset
           next == s[k + 1].offset
           key == s[k + 1].key
           value == s[k + 1].value
<1>1. IsSamples(samples)
  BY KnownFacts
<1>2. /\ Len(s) \in Nat /\ DOMAIN s = 1 .. Len(s) /\ Len(samples) \in Nat
      /\ DOMAIN samples = 1 .. Len(samples)
      /\ \A j \in 1 .. Len(s) : s[j].offset \in 1 .. Len(samples)
      /\ \A a, b \in 1 .. Len(s) : a <= b => s[a].offset <= s[b].offset
  BY <1>1, OffsetFacts
<1>3. k \in 1 .. Len(s) /\ k + 1 \in 1 .. Len(s)
  BY <1>2
<1>4. o \in 1 .. Len(samples) /\ next \in 1 .. Len(samples) /\ o <= next
  BY <1>2, <1>3
<1>5. /\ c = [published |-> c.published, current |-> c.current, offset |-> o]
      /\ IsSequence(c.published) /\ Reports(c.published, samples)
      /\ MarksIn(c.published) = MarksUpto(samples, o - 1) /\ Collects(c.current, s, k, o)
  BY DEF Grouped
<1>6. CASE next = o
  <2> DEFINE dict == DictAdd(c.current, key, value)
  <2>1. ~(next > c.offset)
    BY <1>4, <1>5, <1>6
  <2>2. Turn(c, s[k + 1]) = [published |-> c.published, current |-> dict, offset |-> next]
    <3>1. Turn(c, s[k + 1]) = [c EXCEPT !.current = dict]
      BY <2>1 DEF Turn
    <3> HIDE DEF dict, next, o
    <3> QED
      BY <1>5, <1>6, <3>1
  <2>3. Collects(dict, s, k + 1, next)
    BY <1>5, <1>6, CollectsMore
  <2> HIDE DEF dict, next, o
  <2> QED
    BY <1>5, <1>6, <2>2, <2>3 DEF Grouped, next
<1>7. CASE next # o
  <2> DEFINE dict == DictAdd(EmptyDict, key, value)
             dicts == Append(c.published, c.current)
  <2>1. next > o
    BY <1>4, <1>7
  <2>2. Turn(c, s[k + 1]) = [published |-> dicts, current |-> dict, offset |-> next]
    <3>1. c.offset = o
      BY <1>5
    <3> QED
      BY <2>1, <3>1 DEF Turn
  <2>3. \A j \in 1 .. Len(s) : s[j].offset = o => j <= k
    <3>1. ASSUME NEW j \in 1 .. Len(s), s[j].offset = o, ~(j <= k) PROVE FALSE
      <4>1. k + 1 <= j
        BY <1>2, <3>1
      <4>2. next <= o
        BY <1>2, <1>3, <3>1, <4>1
      <4> QED
        BY <1>4, <2>1, <4>2
    <3> QED
      BY <3>1
  <2>4. \A j \in 1 .. k : s[j].offset # next
    <3>1. ASSUME NEW j \in 1 .. k PROVE s[j].offset # next
      <4>1. j \in 1 .. Len(s) /\ j <= k
        BY <1>2, <1>3
      <4>2. s[j].offset <= o /\ s[j].offset \in Nat
        BY <1>2, <1>3, <4>1
      <4> QED
        BY <1>4, <2>1, <4>2
    <3> QED
      BY <3>1
  <2>5. Collects(dict, s, k + 1, next)
    BY <2>4, CollectsFirst
  <2>6. o \in DOMAIN samples /\ samples[o] # <<>> /\ DictOf(c.current, samples[o])
    BY <1>3, <1>5, <2>3, CollectedAll
  <2>7. IsSequence(dicts) /\ Reports(dicts, samples) /\ MarksIn(dicts) = MarksUpto(samples, o)
    <3> DEFINE published == c.published
               current == c.current
    <3>1. /\ IsSequence(published) /\ Reports(published, samples)
          /\ MarksIn(published) = MarksUpto(samples, o - 1) /\ DictOf(current, samples[o])
          /\ dicts = Append(published, current)
      BY <1>5, <2>6
    <3> HIDE DEF published, current, dicts, o
    <3>2. /\ IsSequence(Append(published, current)) /\ Reports(Append(published, current), samples)
          /\ MarksIn(Append(published, current)) = MarksUpto(samples, o)
      BY <2>6, <3>1, PublishOne
    <3> QED
      BY <3>1, <3>2
  <2>8. MarksUpto(samples, next - 1) = MarksUpto(samples, o)
    <3>1. o \in 0 .. Len(samples) /\ next - 1 \in o .. Len(samples)
      BY <1>2, <1>4, <2>1
    <3>2. ASSUME NEW i \in o + 1 .. next - 1 PROVE samples[i] = <<>>
      <4>1. i \in DOMAIN samples /\ o < i /\ i < next /\ i \in Nat /\ o \in Nat /\ next \in Nat
        BY <1>2, <1>4
      <4>2. ASSUME NEW j \in 1 .. Len(s) PROVE s[j].offset # i
        <5>1. CASE j <= k
          <6>1. s[j].offset <= o /\ s[j].offset \in Nat
            <7>1. j \in 1 .. Len(s) /\ k \in 1 .. Len(s) /\ j <= k
              BY <1>3, <5>1
            <7>2. s[j].offset <= s[k].offset
              BY <1>2, <7>1, Zenon
            <7>3. s[j].offset \in 1 .. Len(samples) /\ Len(samples) \in Nat
              BY <1>2, <7>1
            <7> QED
              BY <7>2, <7>3
          <6>2. \A a, b, d \in Nat : a <= b /\ b < d => a # d
            OBVIOUS
          <6> QED
            BY <4>1, <6>1, <6>2, Zenon
        <5>2. CASE ~(j <= k)
          <6>1. k + 1 <= j
            BY <1>2, <5>2
          <6>2. next <= s[j].offset /\ s[j].offset \in Nat
            BY <1>2, <1>3, <6>1
          <6> QED
            BY <1>4, <4>1, <6>2
        <5> QED
          BY <5>1, <5>2
      <4> QED
        BY <1>1, <4>1, <4>2, NoTagsBetween
    <3> HIDE DEF o, next
    <3> QED
      BY <3>1, <3>2, MarksGap
  <2> HIDE DEF dict, dicts, next, o
  <2> QED
    BY <2>2, <2>5, <2>7, <2>8 DEF Grouped, next
<1> QED
  BY <1>6, <1>7

\* What one call of work may publish: the dictionaries of the tagged samples, with the marks
\* of all samples in their order.
LEMMA ReadFacts ==
    \A samples : Known(samples) => \A dicts \in WorkMayPublish(samples) :
        /\ IsSequence(dicts) /\ Reports(dicts, samples)
        /\ MarksIn(dicts) = MarksOf(samples, MarkOfSample)
<1>1. ASSUME NEW samples, Known(samples), NEW dicts \in WorkMayPublish(samples)
      PROVE  /\ IsSequence(dicts) /\ Reports(dicts, samples)
             /\ MarksIn(dicts) = MarksOf(samples, MarkOfSample)
  <2> DEFINE m == Len(samples)
  <2>1. IsSamples(samples)
    BY <1>1, KnownFacts
  <2>2. PICK s \in Sorted(TagsInRange(samples)) : dicts = Published(s)
    BY DEF WorkMayPublish
  <2>3. TagsOf(s, samples)
    BY <2>1, SortedFacts
  <2>4. /\ Len(s) \in Nat /\ DOMAIN s = 1 .. Len(s) /\ m \in Nat /\ DOMAIN samples = 1 .. m
        /\ \A j \in 1 .. Len(s) : s[j].offset \in 1 .. m
        /\ \A a, b \in 1 .. Len(s) : a <= b => s[a].offset <= s[b].offset
    BY <2>1, <2>3, OffsetFacts
  <2>5. MarksOf(samples, MarkOfSample) = MarksUpto(samples, m)
    BY <2>4 DEF MarksOf, MarksUpto
  <2>6. CASE Len(s) = 0
    <3>1. s = <<>>
      <4>1. \A Y : \A u \in Seq(Y) : Len(u) = 0 => u = <<>>
        OBVIOUS
      <4> QED
        BY <2>3, <2>6, <4>1 DEF TagsOf, IsSequence
    <3>2. dicts = <<>>
      BY <2>2, <3>1 DEF Published
    <3>3. IsSequence(<<>>) /\ Reports(<<>>, samples)
      <4>1. Range(<<>>) = {}
        BY DEF Range
      <4> QED
        BY <4>1, EmptySeq DEF IsSequence, Reports
    <3>4. ASSUME NEW i \in 0 + 1 .. m PROVE samples[i] = <<>>
      <4>1. i \in DOMAIN samples /\ \A j \in 1 .. Len(s) : s[j].offset # i
        BY <2>4, <2>6
      <4> QED
        BY <2>1, <2>3, <4>1, NoTagsBetween
    <3>5. MarksUpto(samples, m) = MarksUpto(samples, 0)
      <4>1. 0 \in 0 .. m /\ m \in 0 .. m
        BY <2>4
      <4> QED
        BY <1>1, <3>4, <4>1, MarksGap
    <3> QED
      BY <2>5, <3>2, <3>3, <3>5, MarksOfNone
  <2>7. CASE Len(s) # 0
    <3> DEFINE n == Len(s)
    <3>1. PICK f : Groups(s, n, f) /\ Loop(s) = f[n]
      BY <2>4, LoopIsLast
    <3>2. \A k \in 1 .. n : Grouped(f[k], s, k, samples)
      <4> DEFINE wrong == { k \in 1 .. n : ~Grouped(f[k], s, k, samples) }
      <4>1. wrong \subseteq Nat
        OBVIOUS
      <4>2. SUFFICES ASSUME wrong # {} PROVE FALSE
        OBVIOUS
      <4>3. PICK k \in wrong : \A j \in wrong : k <= j
        <5> HIDE DEF wrong
        <5> QED
          BY <4>1, <4>2, SmallestExists
      <4>4. k \in 1 .. n /\ k \in Nat /\ ~Grouped(f[k], s, k, samples)
        OBVIOUS
      <4>5. f[k] = Turn(f[k - 1], s[k])
        <5>1. k \in 0 .. n /\ k # 0
          BY <4>4
        <5> QED
          BY <3>1, <5>1 DEF Groups
      <4>6. CASE k = 1
        <5>1. 0 \in 0 .. n
          BY <2>4
        <5>2. f[0] = LoopStart(s)
          BY <3>1, <5>1 DEF Groups
        <5>3. Grouped(Turn(LoopStart(s), s[1]), s, 1, samples)
          BY <1>1, <2>3, <2>7, GroupedFirst
        <5> QED
          BY <4>4, <4>5, <4>6, <5>2, <5>3
      <4>7. CASE k # 1
        <5> DEFINE j == k - 1
        <5>1. j \in 1 .. n /\ j \notin wrong /\ j \in Nat /\ j # 0 /\ j < n /\ j + 1 = k
          BY <2>4, <4>3, <4>4, <4>7
        <5>2. Grouped(f[j], s, j, samples)
          BY <5>1
        <5> HIDE DEF j, wrong
        <5>3. Grouped(Turn(f[j], s[j + 1]), s, j + 1, samples)
          BY <1>1, <2>3, <5>1, <5>2, GroupedNext
        <5> QED
          BY <4>4, <4>5, <5>1, <5>3 DEF j
      <4> QED
        BY <4>6, <4>7
    <3> DEFINE end == f[n]
               o == s[n].offset
    <3>3. n \in 1 .. n
      BY <2>4, <2>7
    <3>4. Grouped(end, s, n, samples)
      BY <3>2, <3>3
    <3>5. /\ IsSequence(end.published) /\ Reports(end.published, samples)
          /\ MarksIn(end.published) = MarksUpto(samples, o - 1) /\ Collects(end.current, s, n, o)
      BY <3>4 DEF Grouped
    <3>6. \A j \in 1 .. n : s[j].offset = o => j <= n
      BY <2>4
    <3>7. o \in DOMAIN samples /\ samples[o] # <<>> /\ DictOf(end.current, samples[o])
      <4> HIDE DEF end
      <4> QED
        BY <2>3, <3>3, <3>5, <3>6, CollectedAll
    <3>8. end.current # EmptyDict
      <4>1. s[n].key \in DOMAIN end.current
        BY <3>3, <3>5 DEF Collects
      <4>2. DOMAIN EmptyDict = {}
        BY DEF EmptyDict
      <4> QED
        BY <4>1, <4>2
    <3>9. s # <<>>
      BY <2>7
    <3>10. dicts = Append(end.published, end.current)
      BY <2>2, <3>1, <3>8, <3>9 DEF Published
    <3>11. IsSequence(dicts) /\ Reports(dicts, samples) /\ MarksIn(dicts) = MarksUpto(samples, o)
      <4> DEFINE published == end.published
                 current == end.current
      <4>1. /\ IsSequence(published) /\ Reports(published, samples)
            /\ MarksIn(published) = MarksUpto(samples, o - 1) /\ DictOf(current, samples[o])
            /\ dicts = Append(published, current)
        BY <3>5, <3>7, <3>10
      <4> HIDE DEF published, current, end, o
      <4>2. /\ IsSequence(Append(published, current)) /\ Reports(Append(published, current), samples)
            /\ MarksIn(Append(published, current)) = MarksUpto(samples, o)
        BY <1>1, <3>7, <4>1, PublishOne
      <4> QED
        BY <4>1, <4>2
    <3>12. MarksUpto(samples, m) = MarksUpto(samples, o)
      <4>1. o \in 0 .. m /\ m \in o .. m
        BY <2>4, <3>3
      <4>2. ASSUME NEW i \in o + 1 .. m PROVE samples[i] = <<>>
        <5>1. o \in Nat
          BY <2>4, <3>3
        <5>2. i \in DOMAIN samples /\ o < i
          BY <2>4, <5>1
        <5>3. ASSUME NEW j \in 1 .. n PROVE s[j].offset # i
          <6>1. j <= n /\ s[j].offset <= o /\ s[j].offset \in Nat
            BY <2>4, <3>3
          <6> QED
            BY <5>1, <5>2, <6>1
        <5> QED
          BY <2>1, <2>3, <5>2, <5>3, NoTagsBetween
      <4> HIDE DEF o
      <4> QED
        BY <1>1, <4>1, <4>2, MarksGap
    <3> QED
      BY <2>5, <3>11, <3>12
  <2> QED
    BY <2>6, <2>7
<1> QED
  BY <1>1
-----------------------------------------------------------------------------
\* What is marked comes from the blocks that gave it: the inductive invariant of the
\* pipeline.  Marks are fresh when they are given, ...
GivenOnce ==
    /\ given = [tx |-> given["tx"], rx |-> given["rx"]]
    /\ given["tx"] \in Seq(Marks) /\ given["rx"] \in Seq(Marks)
    /\ Len(given["tx"]) + Len(given["rx"]) <= Len(MarkOrder)
    /\ Range(given["tx"]) \cup Range(given["rx"])
         \subseteq { MarkOrder[i] : i \in 1 .. Len(given["tx"]) + Len(given["rx"]) }
    /\ Range(given["tx"]) \cap Range(given["rx"]) = {}

\* ... on the stream they are the transmitter's, ...
SampleKnown(sample) ==
    \E mark \in AnyMark : sample \in SampleKinds(mark) /\ (mark \in Marks => mark \in Range(given["tx"]))

\* ... at the collector they come in dictionaries with a transmit time or in PDUs, ...
MessageKnown(msg) ==
    /\ msg.fields.mark \in AnyMark
    /\ msg.fields.mark \in Marks =>
         \/ msg.shape = "pdu" /\ ~HasTxTime(msg.fields) /\ msg.fields.mark \in Range(given["rx"])
         \/ msg.shape = "dict" /\ HasTxTime(msg.fields) /\ msg.fields.mark \in Range(given["tx"])

FromItsSide(mark, direction) == direction \in {"tx", "rx"} /\ mark \in Range(given[direction])

\* ... behind it the key tells the side, ...
StatusKnown(status) ==
    /\ status.pair \in BOOLEAN
    /\ status.pair =>
         /\ status.fields.mark \in AnyMark
         /\ status.fields.mark \in Marks => FromItsSide(status.fields.mark, Direction(status.key))

\* ... and so does the direction in the database and in the buffer, with additional data
\* that never gets older.
Entered == stored \o Marked(buffer)

Reported(bodies) ==
    /\ \A b \in Range(bodies) : FromItsSide(b.mark, b.direction) /\ b.extra <= additional
    /\ \A i, j \in DOMAIN bodies : i <= j => bodies[i].extra <= bodies[j].extra

BodiesKnown ==
    buffer \in Seq(Bodies(AnyMark)) /\ stored \in Seq(Bodies(Marks)) /\ Reported(Entered)

QueuesKnown ==
    /\ IsSequence(stream) /\ \A sample \in Range(stream) : SampleKnown(sample)
    /\ IsSequence(statusIn) /\ \A msg \in Range(statusIn) : MessageKnown(msg)
    /\ IsSequence(statusOut) /\ \A status \in Range(statusOut) : StatusKnown(status)
    /\ Len(stream) <= MaxStream /\ Len(statusIn) <= MaxQueue /\ Len(statusOut) <= MaxStatus

ConnectorKnown ==
    /\ running \in BOOLEAN /\ available \in BOOLEAN /\ up \in BOOLEAN
    /\ additional \in 0 .. MaxUpdates
    /\ running => Len(buffer) < BufferSize
    /\ age \in 0 .. FlushAge + 1
    /\ buffer = <<>> => age = 0

PipelineInv == GivenOnce /\ QueuesKnown /\ BodiesKnown /\ ConnectorKnown

\* What a block knows stays true when more is given.
MoreGiven == \A direction \in {"tx", "rx"} : Range(given[direction]) \subseteq Range(given'[direction])

LEMMA KnowledgeStays ==
    ASSUME MoreGiven
    PROVE  /\ \A sample : SampleKnown(sample) => SampleKnown(sample)'
           /\ \A msg : MessageKnown(msg) => MessageKnown(msg)'
           /\ \A status : StatusKnown(status) => StatusKnown(status)'
           /\ \A mark, direction : FromItsSide(mark, direction) => FromItsSide(mark, direction)'
<1>1. Range(given["tx"]) \subseteq Range(given'["tx"]) /\ Range(given["rx"]) \subseteq Range(given'["rx"])
  BY DEF MoreGiven
<1>2. ASSUME NEW mark, NEW direction, FromItsSide(mark, direction)
      PROVE  FromItsSide(mark, direction)'
  BY <1>1, <1>2 DEF FromItsSide
<1>3. ASSUME NEW sample, SampleKnown(sample) PROVE SampleKnown(sample)'
  BY <1>1, <1>3 DEF SampleKnown
<1>4. ASSUME NEW msg, MessageKnown(msg) PROVE MessageKnown(msg)'
  BY <1>1, <1>4 DEF MessageKnown
<1>5. ASSUME NEW status, StatusKnown(status) PROVE StatusKnown(status)'
  BY <1>2, <1>5 DEF StatusKnown
<1> QED
  BY <1>2, <1>3, <1>4, <1>5

LEMMA SameGiven == given' = given => MoreGiven
BY DEF MoreGiven

\* A fresh mark is given once, to one side.
LEMMA NoteFacts ==
    ASSUME GivenOnce, NEW direction \in {"tx", "rx"}, NEW mark \in Fresh, Note(direction, mark)
    PROVE  /\ GivenOnce' /\ MoreGiven /\ mark \in AnyMark
           /\ mark \notin Marks => given' = given
           /\ mark \in Marks =>
                /\ mark \notin Range(given["tx"]) \cup Range(given["rx"])
                /\ given' = [given EXCEPT ![direction] = Append(given[direction], mark)]
                /\ mark \in Range(given'[direction])
<1> DEFINE tx == given["tx"]
           rx == given["rx"]
           n == Len(tx) + Len(rx)
           order == MarkOrder
<1>1. /\ given = [tx |-> tx, rx |-> rx] /\ tx \in Seq(Marks) /\ rx \in Seq(Marks) /\ n <= Len(order)
      /\ Range(tx) \cup Range(rx) \subseteq { order[i] : i \in 1 .. n }
      /\ Range(tx) \cap Range(rx) = {}
  BY DEF GivenOnce
<1>2. Len(tx) \in Nat /\ Len(rx) \in Nat /\ IsSequence(tx) /\ IsSequence(rx)
  BY <1>1, SequenceIs
<1>3. /\ order \in Seq(Marks) /\ Range(order) = Marks /\ DOMAIN order = 1 .. Len(order) /\ Len(order) \in Nat
      /\ \A a, b \in DOMAIN order : order[a] = order[b] => a = b
  BY PipelineAssumption DEF IsInjective
<1>4. Plain \notin Marks
  BY ConnectorAssumption
<1>5. CASE mark \notin Marks
  <2>1. mark = Plain
    <3>1. mark = Plain \/ \E i \in DOMAIN order : mark = order[i]
      BY DEF Fresh
    <3> QED
      BY <1>3, <1>5, <3>1 DEF Range
  <2>2. given' = given
    BY <2>1 DEF Note
  <2>3. GivenOnce'
    BY <2>2 DEF GivenOnce
  <2> QED
    BY <1>5, <2>1, <2>2, <2>3, SameGiven DEF AnyMark
<1>6. CASE mark \in Marks
  <2>1. n + 1 \in DOMAIN order /\ mark = order[n + 1]
    <3>1. mark # Plain
      BY <1>4, <1>6
    <3> QED
      BY <3>1 DEF Fresh
  <2>2. given' = [given EXCEPT ![direction] = Append(given[direction], mark)]
    BY <1>4, <1>6 DEF Note
  <2>3. mark \notin Range(tx) \cup Range(rx)
    <3>1. ASSUME mark \in Range(tx) \cup Range(rx) PROVE FALSE
      <4>1. PICK i \in 1 .. n : mark = order[i]
        BY <1>1, <3>1
      <4>2. i \in DOMAIN order /\ i # n + 1
        BY <1>1, <1>2, <1>3, <4>1
      <4> QED
        BY <1>3, <2>1, <4>1, <4>2
    <3> QED
      BY <3>1
  <2>4. /\ direction = "tx" => given' = [given EXCEPT !["tx"] = Append(tx, mark)]
        /\ direction = "rx" => given' = [given EXCEPT !["rx"] = Append(rx, mark)]
    BY <2>2
  <2> HIDE DEF tx, rx, order
  <2>5. n + 1 \in Nat /\ n + 1 <= Len(order)
    BY <1>2, <1>3, <2>1
  <2>8. { order[i] : i \in 1 .. n } \cup {mark} \subseteq { order[i] : i \in 1 .. n + 1 }
    <3>1. 1 .. n \subseteq 1 .. n + 1 /\ n + 1 \in 1 .. n + 1
      BY <1>2
    <3> HIDE DEF n
    <3> QED
      BY <2>1, <3>1
  <2>6. CASE direction = "tx"
    <3> DEFINE more == Append(tx, mark)
    <3>1. given' = [tx |-> more, rx |-> rx]
      BY <1>1, <2>4, <2>6
    <3>2. more \in Seq(Marks) /\ Len(more) = Len(tx) + 1 /\ Range(more) = Range(tx) \cup {mark}
      BY <1>1, <1>2, <1>6, RangeAppend
    <3> HIDE DEF more
    <3>3. given'["tx"] = more /\ given'["rx"] = rx
      BY <3>1
    <3>4. Len(more) + Len(rx) = n + 1
      BY <1>2, <3>2
    <3>5. Range(more) \cup Range(rx) \subseteq { order[i] : i \in 1 .. n + 1 }
      BY <1>1, <2>8, <3>2
    <3>6. Range(more) \cap Range(rx) = {}
      BY <1>1, <2>3, <3>2
    <3>7. GivenOnce'
      BY <1>1, <2>5, <3>1, <3>2, <3>3, <3>4, <3>5, <3>6 DEF GivenOnce, order
    <3>8. MoreGiven
      BY <3>2, <3>3 DEF MoreGiven, tx, rx
    <3> QED
      BY <1>6, <2>2, <2>3, <2>6, <3>2, <3>3, <3>7, <3>8 DEF AnyMark, tx, rx
  <2>7. CASE direction = "rx"
    <3> DEFINE more == Append(rx, mark)
    <3>1. given' = [tx |-> tx, rx |-> more]
      BY <1>1, <2>4, <2>7
    <3>2. more \in Seq(Marks) /\ Len(more) = Len(rx) + 1 /\ Range(more) = Range(rx) \cup {mark}
      BY <1>1, <1>2, <1>6, RangeAppend
    <3> HIDE DEF more
    <3>3. given'["tx"] = tx /\ given'["rx"] = more
      BY <3>1
    <3>4. Len(tx) + Len(more) = n + 1
      BY <1>2, <3>2
    <3>5. Range(tx) \cup Range(more) \subseteq { order[i] : i \in 1 .. n + 1 }
      BY <1>1, <2>8, <3>2
    <3>6. Range(tx) \cap Range(more) = {}
      BY <1>1, <2>3, <3>2
    <3>7. GivenOnce'
      BY <1>1, <2>5, <3>1, <3>2, <3>3, <3>4, <3>5, <3>6 DEF GivenOnce, order
    <3>8. MoreGiven
      BY <3>2, <3>3 DEF MoreGiven, tx, rx
    <3> QED
      BY <1>6, <2>2, <2>3, <2>7, <3>2, <3>3, <3>7, <3>8 DEF AnyMark, tx, rx
  <2> QED
    BY <2>6, <2>7
<1> QED
  BY <1>5, <1>6
-----------------------------------------------------------------------------
LEMMA MarkedFacts ==
    \A X : \A bodies \in Seq(Bodies(X)) : Marked(bodies) \in Seq(Bodies(Marks))
<1>1. ASSUME NEW X, NEW bodies \in Seq(Bodies(X)) PROVE Marked(bodies) \in Seq(Bodies(Marks))
  <2> DEFINE Y == Bodies(X) \cap Bodies(Marks)
  <2>1. Marked(bodies) \in Seq(Y)
    BY OnlyType DEF Marked
  <2>2. Y \subseteq Bodies(Marks)
    OBVIOUS
  <2> HIDE DEF Y
  <2> QED
    BY <2>1, <2>2, SeqMonotonic
<1> QED
  BY <1>1

LEMMA EnteredType == BodiesKnown => Entered \in Seq(Bodies(Marks))
<1>1. ASSUME BodiesKnown PROVE Entered \in Seq(Bodies(Marks))
  <2>1. stored \in Seq(Bodies(Marks)) /\ Marked(buffer) \in Seq(Bodies(Marks))
    BY <1>1, MarkedFacts DEF BodiesKnown
  <2> QED
    BY <2>1, ConcatProperties DEF Entered
<1> QED
  BY <1>1

\* What does not touch the buffer and the database keeps what is known about them.
LEMMA BodiesStay ==
    ASSUME BodiesKnown, MoreGiven, buffer' = buffer, stored' = stored,
           additional \in Int, additional' \in Int, additional <= additional'
    PROVE  BodiesKnown'
<1>1. Entered' = Entered
  BY DEF Entered
<1>2. ASSUME NEW b \in Range(Entered)
      PROVE  FromItsSide(b.mark, b.direction)' /\ b.extra <= additional'
  <2>1. FromItsSide(b.mark, b.direction) /\ b.extra <= additional
    BY DEF BodiesKnown, Reported
  <2>2. FromItsSide(b.mark, b.direction)'
    BY <2>1, KnowledgeStays
  <2>3. b \in Bodies(Marks)
    BY EnteredType, SequenceIs
  <2>4. b.extra \in Int
    BY <2>3, ConnectorAssumption DEF Bodies
  <2> QED
    BY <2>1, <2>2, <2>4
<1> QED
  BY <1>1, <1>2 DEF BodiesKnown, Reported

LEMMA ProduceKeeps == PipelineInv /\ Produce => PipelineInv'
<1>1. ASSUME PipelineInv, Produce PROVE PipelineInv'
  <2>1. PICK mark \in Fresh : \E sample \in SampleKinds(mark) : stream' = Append(stream, sample) /\ Note("tx", mark)
    BY <1>1 DEF Produce
  <2>2. PICK sample \in SampleKinds(mark) : stream' = Append(stream, sample) /\ Note("tx", mark)
    BY <2>1
  <2>3. /\ UNCHANGED <<running, available, additional, buffer, age, up, stored>>
        /\ UNCHANGED <<statusIn, statusOut>> /\ Len(stream) < MaxStream
    BY <1>1 DEF Produce, connectorVars
  <2>4. /\ GivenOnce' /\ MoreGiven /\ mark \in AnyMark
        /\ mark \in Marks => mark \in Range(given'["tx"])
    BY <1>1, <2>2, NoteFacts DEF PipelineInv
  <2>5. SampleKnown(sample)'
    BY <2>4 DEF SampleKnown
  <2>6. QueuesKnown'
    <3>1. IsSequence(stream') /\ Len(stream') = Len(stream) + 1 /\ Range(stream') = Range(stream) \cup {sample}
      BY <1>1, <2>2, RangeAppend DEF PipelineInv, QueuesKnown
    <3>2. Len(stream) \in Nat
      BY <1>1, SequenceFacts DEF PipelineInv, QueuesKnown
    <3>3. Len(stream') <= MaxStream
      BY <2>3, <3>1, <3>2, PipelineAssumption
    <3>4. \A s \in Range(stream') : SampleKnown(s)'
      BY <1>1, <2>4, <2>5, <3>1, KnowledgeStays DEF PipelineInv, QueuesKnown
    <3> QED
      BY <1>1, <2>3, <2>4, <3>1, <3>3, <3>4, KnowledgeStays DEF PipelineInv, QueuesKnown
  <2>7. ConnectorKnown'
    BY <1>1, <2>3 DEF PipelineInv, ConnectorKnown
  <2>8. BodiesKnown'
    <3>1. additional \in Int
      BY <1>1, ConnectorAssumption DEF PipelineInv, ConnectorKnown
    <3> QED
      BY <1>1, <2>3, <2>4, <3>1, BodiesStay DEF PipelineInv
  <2> QED
    BY <2>4, <2>6, <2>7, <2>8 DEF PipelineInv
<1> QED
  BY <1>1

\* Messages put at the end of the collector's queue.
LEMMA MessagesAdded ==
    ASSUME QueuesKnown, MoreGiven, NEW more, IsSequence(more), \A msg \in Range(more) : MessageKnown(msg)',
           Len(statusIn) + Len(more) <= MaxQueue,
           statusIn' = statusIn \o more, statusOut' = statusOut,
           IsSequence(stream'), Len(stream') <= MaxStream, \A sample \in Range(stream') : SampleKnown(sample)'
    PROVE  QueuesKnown'
<1>1. /\ IsSequence(statusIn') /\ Len(statusIn') = Len(statusIn) + Len(more)
      /\ Range(statusIn') = Range(statusIn) \cup Range(more)
  BY RangeConcat DEF QueuesKnown
<1>2. \A msg \in Range(statusIn') : MessageKnown(msg)'
  BY <1>1, KnowledgeStays DEF QueuesKnown
<1>3. \A status \in Range(statusOut') : StatusKnown(status)'
  BY KnowledgeStays DEF QueuesKnown
<1> QED
  BY <1>1, <1>2, <1>3 DEF QueuesKnown

LEMMA StreamStays ==
    ASSUME QueuesKnown, MoreGiven, stream' = stream
    PROVE  IsSequence(stream') /\ Len(stream') <= MaxStream /\ \A sample \in Range(stream') : SampleKnown(sample)'
BY KnowledgeStays DEF QueuesKnown

LEMMA ReportPduKeeps == PipelineInv /\ ReportPdu => PipelineInv'
<1>1. ASSUME PipelineInv, ReportPdu PROVE PipelineInv'
  <2> DEFINE Msg(mark) == [shape |-> "pdu", fields |-> [mark |-> mark]]
  <2>1. PICK mark \in Fresh : statusIn' = Append(statusIn, Msg(mark)) /\ Note("rx", mark)
    BY <1>1 DEF ReportPdu
  <2>2. /\ UNCHANGED <<running, available, additional, buffer, age, up, stored>>
        /\ UNCHANGED <<stream, statusOut>> /\ Len(statusIn) < MaxQueue
    BY <1>1 DEF ReportPdu, connectorVars
  <2>3. /\ GivenOnce' /\ MoreGiven /\ mark \in AnyMark
        /\ mark \in Marks => mark \in Range(given'["rx"])
    BY <1>1, <2>1, NoteFacts DEF PipelineInv
  <2>4. MessageKnown(Msg(mark))'
    BY <2>3 DEF MessageKnown, HasTxTime
  <2> DEFINE msg == Msg(mark)
  <2> HIDE DEF Msg
  <2>5. QueuesKnown'
    <3>1. IsSequence(<<msg>>) /\ Len(<<msg>>) = 1 /\ Range(<<msg>>) = {msg}
      BY RangeOne
    <3>2. statusIn' = statusIn \o <<msg>>
      BY <1>1, <2>1, AddedAtEnd DEF PipelineInv, QueuesKnown
    <3>3. Len(statusIn) \in Nat
      BY <1>1, SequenceFacts DEF PipelineInv, QueuesKnown
    <3>4. Len(statusIn) + Len(<<msg>>) <= MaxQueue
      BY <2>2, <3>1, <3>3, PipelineAssumption
    <3>5. \A m \in Range(<<msg>>) : MessageKnown(m)'
      BY <2>4, <3>1
    <3> HIDE DEF msg
    <3> QED
      BY <1>1, <2>2, <2>3, <3>1, <3>2, <3>4, <3>5, StreamStays, MessagesAdded DEF PipelineInv
  <2>6. ConnectorKnown'
    BY <1>1, <2>2 DEF PipelineInv, ConnectorKnown
  <2>7. BodiesKnown'
    <3>1. additional \in Int
      BY <1>1, ConnectorAssumption DEF PipelineInv, ConnectorKnown
    <3> QED
      BY <1>1, <2>2, <2>3, <3>1, BodiesStay DEF PipelineInv
  <2> QED
    BY <2>3, <2>5, <2>6, <2>7 DEF PipelineInv
<1> QED
  BY <1>1

\* Where nothing is given, only the queues may change.
LEMMA QueuesOnly ==
    ASSUME PipelineInv, QueuesKnown', UNCHANGED <<connectorVars, given>>
    PROVE  PipelineInv'
<1>1. UNCHANGED <<running, available, additional, buffer, age, up, stored, given>>
  BY DEF connectorVars
<1>2. MoreGiven
  BY <1>1, SameGiven
<1>3. GivenOnce' /\ ConnectorKnown'
  BY <1>1 DEF PipelineInv, GivenOnce, ConnectorKnown
<1>4. BodiesKnown'
  <2>1. additional \in Int
    BY ConnectorAssumption DEF PipelineInv, ConnectorKnown
  <2> QED
    BY <1>1, <1>2, <2>1, BodiesStay DEF PipelineInv
<1> QED
  BY <1>3, <1>4 DEF PipelineInv

LEMMA ReportOtherKeeps == PipelineInv /\ ReportOther => PipelineInv'
<1>1. ASSUME PipelineInv, ReportOther PROVE PipelineInv'
  <2>1. PICK shape \in OtherShapes : statusIn' = Append(statusIn, [shape |-> shape, fields |-> [mark |-> Plain]])
    BY <1>1 DEF ReportOther
  <2> DEFINE msg == [shape |-> shape, fields |-> [mark |-> Plain]]
  <2>2. UNCHANGED <<connectorVars, stream, statusOut, given>> /\ Len(statusIn) < MaxQueue
    BY <1>1 DEF ReportOther
  <2>3. MoreGiven
    BY <2>2, SameGiven
  <2>4. MessageKnown(msg)'
    BY ConnectorAssumption DEF MessageKnown, AnyMark
  <2>5. statusIn' = Append(statusIn, msg)
    BY <2>1
  <2> HIDE DEF msg
  <2>6. QueuesKnown'
    <3>1. IsSequence(<<msg>>) /\ Len(<<msg>>) = 1 /\ Range(<<msg>>) = {msg}
      BY RangeOne
    <3>2. statusIn' = statusIn \o <<msg>>
      BY <1>1, <2>5, AddedAtEnd DEF PipelineInv, QueuesKnown
    <3>3. Len(statusIn) \in Nat
      BY <1>1, SequenceFacts DEF PipelineInv, QueuesKnown
    <3>4. Len(statusIn) + Len(<<msg>>) <= MaxQueue
      BY <2>2, <3>1, <3>3, PipelineAssumption
    <3>5. \A m \in Range(<<msg>>) : MessageKnown(m)'
      BY <2>4, <3>1
    <3> QED
      BY <1>1, <2>2, <2>3, <3>1, <3>2, <3>4, <3>5, StreamStays, MessagesAdded DEF PipelineInv
  <2> QED
    BY <1>1, <2>2, <2>6, QueuesOnly
<1> QED
  BY <1>1
-----------------------------------------------------------------------------
LEMMA SequenceIf ==
    \A f, n : n \in Nat /\ f = [i \in 1 .. n |-> f[i]] => IsSequence(f) /\ Len(f) = n
<1>1. ASSUME NEW f, NEW n, n \in Nat, f = [i \in 1 .. n |-> f[i]]
      PROVE  IsSequence(f) /\ Len(f) = n
  <2>1. DOMAIN f = 1 .. n
    BY <1>1
  <2>2. f \in [1 .. n -> Range(f)]
    BY <1>1, <2>1 DEF Range
  <2>3. f \in Seq(Range(f))
    BY <1>1, <2>2, SeqDef
  <2>4. Len(f) = n
    BY <1>1, <2>1, <2>3, LenProperties
  <2> QED
    BY <2>3, <2>4 DEF IsSequence
<1> QED
  BY <1>1

\* The messages that the dictionaries of one call are.
Messages(dicts) == [i \in DOMAIN dicts |-> [shape |-> "dict", fields |-> dicts[i]]]

LEMMA MessagesFacts ==
    \A dicts : IsSequence(dicts)
        => /\ IsSequence(Messages(dicts)) /\ Len(Messages(dicts)) = Len(dicts)
           /\ \A msg \in Range(Messages(dicts)) :
                \E d \in Range(dicts) : msg = [shape |-> "dict", fields |-> d]
<1>1. ASSUME NEW dicts, IsSequence(dicts)
      PROVE  /\ IsSequence(Messages(dicts)) /\ Len(Messages(dicts)) = Len(dicts)
             /\ \A msg \in Range(Messages(dicts)) :
                  \E d \in Range(dicts) : msg = [shape |-> "dict", fields |-> d]
  <2>1. Len(dicts) \in Nat /\ DOMAIN dicts = 1 .. Len(dicts)
    BY <1>1, SequenceFacts
  <2>2. Messages(dicts) = [i \in 1 .. Len(dicts) |-> Messages(dicts)[i]]
    BY <2>1 DEF Messages
  <2>3. IsSequence(Messages(dicts)) /\ Len(Messages(dicts)) = Len(dicts)
    BY <2>1, <2>2, SequenceIf
  <2>4. \A msg \in Range(Messages(dicts)) : \E d \in Range(dicts) : msg = [shape |-> "dict", fields |-> d]
    BY DEF Messages, Range
  <2> QED
    BY <2>3, <2>4
<1> QED
  BY <1>1

\* What is read off the stream in one call.
LEMMA ReadPart ==
    ASSUME QueuesKnown, NEW n \in 1 .. Len(stream)
    PROVE  /\ IsSequence(SubSeq(stream, 1, n)) /\ IsSequence(SubSeq(stream, n + 1, Len(stream)))
           /\ stream = SubSeq(stream, 1, n) \o SubSeq(stream, n + 1, Len(stream))
           /\ \A sample \in Range(SubSeq(stream, 1, n)) : SampleKnown(sample)
           /\ \A sample \in Range(SubSeq(stream, n + 1, Len(stream))) : SampleKnown(sample)
           /\ Len(SubSeq(stream, n + 1, Len(stream))) <= MaxStream
           /\ Known(SubSeq(stream, 1, n))
<1> DEFINE front == SubSeq(stream, 1, n)
           rest == SubSeq(stream, n + 1, Len(stream))
<1>1. IsSequence(stream) /\ Len(stream) \in Nat /\ n \in 0 .. Len(stream) /\ Len(stream) <= MaxStream
  <2>1. IsSequence(stream) /\ Len(stream) <= MaxStream
    BY DEF QueuesKnown
  <2> QED
    BY <2>1, SequenceFacts
<1>2. IsSequence(front) /\ IsSequence(rest) /\ Len(rest) = Len(stream) - n /\ stream = front \o rest
  BY <1>1, CutSequence
<1> HIDE DEF front, rest
<1>3. Range(stream) = Range(front) \cup Range(rest)
  BY <1>2, RangeConcat
<1>4. \A sample \in Range(front) \cup Range(rest) : SampleKnown(sample)
  BY <1>3 DEF QueuesKnown
<1>5. Len(rest) <= MaxStream
  BY <1>1, <1>2, PipelineAssumption
<1>6. Known(front)
  <2>1. ASSUME NEW i \in DOMAIN front PROVE \E mark \in AnyMark : front[i] \in SampleKinds(mark)
    <3>1. front[i] \in Range(front)
      BY DEF Range
    <3> QED
      BY <1>4, <3>1 DEF SampleKnown
  <2> QED
    BY <1>2, <2>1 DEF Known
<1> QED
  BY <1>2, <1>4, <1>5, <1>6 DEF front, rest

LEMMA ReadTagsKeeps == PipelineInv /\ ReadTags => PipelineInv'
<1>1. ASSUME PipelineInv, ReadTags PROVE PipelineInv'
  <2>1. PICK n \in 1 .. Len(stream) : \E dicts \in WorkMayPublish(SubSeq(stream, 1, n)) :
           /\ Len(statusIn) + Len(dicts) <= MaxQueue
           /\ statusIn' = statusIn \o Messages(dicts)
           /\ stream' = SubSeq(stream, n + 1, Len(stream))
    BY <1>1 DEF ReadTags, Messages
  <2> DEFINE front == SubSeq(stream, 1, n)
             rest == SubSeq(stream, n + 1, Len(stream))
  <2>2. PICK dicts \in WorkMayPublish(front) :
           Len(statusIn) + Len(dicts) <= MaxQueue /\ statusIn' = statusIn \o Messages(dicts) /\ stream' = rest
    BY <2>1
  <2>3. UNCHANGED <<connectorVars, statusOut, given>>
    BY <1>1 DEF ReadTags
  <2>4. MoreGiven
    BY <2>3, SameGiven
  <2>5. QueuesKnown
    BY <1>1 DEF PipelineInv
  <2>6. /\ IsSequence(rest) /\ Len(rest) <= MaxStream /\ Known(front)
        /\ \A sample \in Range(front) \cup Range(rest) : SampleKnown(sample)
    BY <2>5, ReadPart
  <2> HIDE DEF front, rest
  <2>7. IsSequence(dicts) /\ Reports(dicts, front)
    BY <2>2, <2>6, ReadFacts
  <2>8. IsSequence(Messages(dicts)) /\ Len(Messages(dicts)) = Len(dicts)
    BY <2>7, MessagesFacts
  <2>9. ASSUME NEW msg \in Range(Messages(dicts)) PROVE MessageKnown(msg)'
    <3>1. PICK d \in Range(dicts) : msg = [shape |-> "dict", fields |-> d]
      BY <2>7, MessagesFacts
    <3>2. PICK i \in DOMAIN front : front[i] # <<>> /\ DictOf(d, front[i])
      BY <2>7 DEF Reports
    <3> DEFINE sample == front[i]
    <3>3. sample \in Range(front)
      BY DEF Range
    <3>4. PICK mark \in AnyMark : sample \in SampleKinds(mark) /\ (mark \in Marks => mark \in Range(given["tx"]))
      BY <2>6, <3>3 DEF SampleKnown
    <3>5. DictOf(d, sample) /\ sample # <<>>
      BY <3>2
    <3> HIDE DEF sample
    <3>6. d.mark = mark /\ (mark \in Marks => HasTxTime(d))
      BY <3>4, <3>5, SampleFacts
    <3>7. MessageKnown(msg)
      BY <3>1, <3>4, <3>6 DEF MessageKnown
    <3> QED
      BY <2>4, <3>7, KnowledgeStays
  <2>10. \A sample \in Range(stream') : SampleKnown(sample)'
    BY <2>2, <2>4, <2>6, KnowledgeStays
  <2>11. /\ Len(statusIn) + Len(Messages(dicts)) <= MaxQueue
         /\ statusIn' = statusIn \o Messages(dicts) /\ statusOut' = statusOut
         /\ IsSequence(stream') /\ Len(stream') <= MaxStream
    BY <2>2, <2>3, <2>6, <2>8
  <2>12. QueuesKnown'
    BY <2>4, <2>5, <2>8, <2>9, <2>10, <2>11, MessagesAdded
  <2> QED
    BY <1>1, <2>3, <2>12, QueuesOnly
<1> QED
  BY <1>1

\* The collector keeps the mark and tells the side from the kind of message.
LEMMA CollectedFacts ==
    \A msg : MessageKnown(msg) =>
        /\ StatusKnown(Collected(msg))
        /\ MarkOfStatus(Collected(msg)) \in AnyMark
        /\ MarkOfStatus(Collected(msg)) \in Marks \/ msg.fields.mark \in Marks
             => MarkOfStatus(Collected(msg)) = msg.fields.mark
<1>1. ASSUME NEW msg, MessageKnown(msg)
      PROVE  /\ StatusKnown(Collected(msg))
             /\ MarkOfStatus(Collected(msg)) \in AnyMark
             /\ MarkOfStatus(Collected(msg)) \in Marks \/ msg.fields.mark \in Marks
                  => MarkOfStatus(Collected(msg)) = msg.fields.mark
  <2> DEFINE mark == msg.fields.mark
             status == Collected(msg)
  <2>1. /\ mark \in AnyMark
        /\ mark \in Marks =>
             \/ msg.shape = "pdu" /\ ~HasTxTime(msg.fields) /\ mark \in Range(given["rx"])
             \/ msg.shape = "dict" /\ HasTxTime(msg.fields) /\ mark \in Range(given["tx"])
    BY <1>1 DEF MessageKnown
  <2>2. Plain \notin Marks
    BY ConnectorAssumption
  <2>3. CASE mark \in Marks
    <3>1. CASE msg.shape = "pdu"
      <4>1. ~HasTxTime(msg.fields) /\ mark \in Range(given["rx"])
        BY <2>1, <2>3, <3>1
      <4>2. status = [pair |-> TRUE, key |-> "rx_msg", fields |-> msg.fields]
        BY <3>1, <4>1 DEF Collected, HandlePduMeta, Status, RxKey
      <4>3. Direction("rx_msg") = "rx"
        BY DEF Direction
      <4> QED
        BY <2>1, <4>1, <4>2, <4>3 DEF StatusKnown, FromItsSide, MarkOfStatus
    <3>2. CASE msg.shape # "pdu"
      <4>1. msg.shape = "dict" /\ HasTxTime(msg.fields) /\ mark \in Range(given["tx"])
        BY <2>1, <2>3, <3>2
      <4>2. status = [pair |-> TRUE, key |-> "uhd_tx_msg", fields |-> msg.fields]
        BY <4>1 DEF Collected, Status, TxKey
      <4>3. Direction("uhd_tx_msg") = "tx"
        BY DEF Direction
      <4> QED
        BY <2>1, <4>1, <4>2, <4>3 DEF StatusKnown, FromItsSide, MarkOfStatus
    <3> QED
      BY <3>1, <3>2
  <2>4. CASE mark \notin Marks
    <3>1. status = [pair |-> FALSE] \/ \E key : status = [pair |-> TRUE, key |-> key, fields |-> msg.fields]
      BY DEF Collected, HandlePduMeta, Status, PmtF
    <3>2. CASE status = [pair |-> FALSE]
      BY <2>2, <2>4, <3>2 DEF StatusKnown, MarkOfStatus, AnyMark
    <3>3. ASSUME NEW key, status = [pair |-> TRUE, key |-> key, fields |-> msg.fields]
          PROVE  StatusKnown(status) /\ MarkOfStatus(status) = mark
      BY <2>1, <2>4, <3>3 DEF StatusKnown, MarkOfStatus
    <3> QED
      BY <2>1, <2>4, <3>1, <3>2, <3>3
  <2> QED
    BY <2>3, <2>4
<1> QED
  BY <1>1

LEMMA CollectKeeps == PipelineInv /\ Collect => PipelineInv'
<1>1. ASSUME PipelineInv, Collect PROVE PipelineInv'
  <2> DEFINE msg == Head(statusIn)
             rest == Tail(statusIn)
             status == Collected(msg)
  <2>1. /\ statusIn # <<>> /\ Len(statusOut) < MaxStatus
        /\ statusOut' = Append(statusOut, status) /\ statusIn' = rest
        /\ UNCHANGED <<connectorVars, stream, given>>
    BY <1>1 DEF Collect
  <2>2. MoreGiven
    BY <2>1, SameGiven
  <2>3. /\ IsSequence(statusIn) /\ IsSequence(statusOut)
        /\ \A m \in Range(statusIn) : MessageKnown(m)
        /\ \A s \in Range(statusOut) : StatusKnown(s)
        /\ Len(statusIn) <= MaxQueue /\ QueuesKnown
    BY <1>1 DEF PipelineInv, QueuesKnown
  <2>4. msg \in Range(statusIn) /\ IsSequence(rest) /\ Len(statusIn) = Len(rest) + 1
    BY <2>1, <2>3, HeadThenTail
  <2>5. Range(rest) \subseteq Range(statusIn)
    <3>1. statusIn = <<msg>> \o rest
      BY <2>1, <2>3, HeadThenTail
    <3>2. IsSequence(<<msg>>)
      BY RangeOne
    <3> HIDE DEF msg, rest
    <3>3. Range(<<msg>> \o rest) = Range(<<msg>>) \cup Range(rest)
      BY <2>4, <3>2, RangeConcat
    <3> QED
      BY <3>1, <3>3
  <2> HIDE DEF msg, rest
  <2>6. StatusKnown(status)
    BY <2>3, <2>4, CollectedFacts
  <2> HIDE DEF status
  <2>7. /\ IsSequence(statusOut') /\ Len(statusOut') = Len(statusOut) + 1
        /\ Range(statusOut') = Range(statusOut) \cup {status}
    BY <2>1, <2>3, RangeAppend
  <2>8. Len(statusOut) \in Nat /\ Len(rest) \in Nat
    BY <2>3, <2>4, SequenceFacts
  <2>9. Len(statusOut') <= MaxStatus /\ Len(statusIn') <= MaxQueue
    BY <2>1, <2>3, <2>4, <2>7, <2>8, PipelineAssumption
  <2>10. \A s \in Range(statusOut') : StatusKnown(s)'
    BY <2>2, <2>3, <2>6, <2>7, KnowledgeStays
  <2>11. \A m \in Range(statusIn') : MessageKnown(m)'
    BY <2>1, <2>2, <2>3, <2>5, KnowledgeStays
  <2>12. QueuesKnown'
    BY <2>1, <2>2, <2>3, <2>4, <2>7, <2>9, <2>10, <2>11, StreamStays DEF QueuesKnown
  <2> QED
    BY <1>1, <2>1, <2>12, QueuesOnly
<1> QED
  BY <1>1
-----------------------------------------------------------------------------
\* The body for a status message that is a pair.
LEMMA BodyFacts ==
    ASSUME ConnectorKnown, NEW status, StatusKnown(status), status.pair
    PROVE  /\ Body(status) \in Bodies(AnyMark)
           /\ Body(status).mark = status.fields.mark
           /\ Body(status).mark \in Marks => /\ FromItsSide(Body(status).mark, Body(status).direction)
                                             /\ Body(status).extra = additional
<1>1. Plain \notin Marks /\ MaxUpdates \in Nat /\ additional \in 0 .. MaxUpdates
  BY ConnectorAssumption DEF ConnectorKnown
<1>2. /\ status.fields.mark \in AnyMark
      /\ status.fields.mark \in Marks => FromItsSide(status.fields.mark, Direction(status.key))
  BY DEF StatusKnown
<1>3. Direction(status.key) \in {"rx", "tx", "unknown"}
  BY DEF Direction
<1>4. CASE status.fields.mark = Plain
  <2>1. Body(status) = [mark |-> Plain, direction |-> "unknown", extra |-> 0]
    BY <1>4 DEF Body, PlainBody
  <2> QED
    BY <1>1, <1>4, <2>1 DEF Bodies, AnyMark
<1>5. CASE status.fields.mark # Plain
  <2>1. Body(status) = [mark |-> status.fields.mark, direction |-> Direction(status.key), extra |-> additional]
    BY <1>5 DEF Body
  <2> QED
    BY <1>1, <1>2, <1>3, <2>1 DEF Bodies
<1> QED
  BY <1>4, <1>5

\* A body behind all that were entered: nothing is older.
LEMMA EnterOne ==
    ASSUME BodiesKnown, ConnectorKnown, NEW body \in Bodies(AnyMark),
           body.mark \in Marks => FromItsSide(body.mark, body.direction) /\ body.extra = additional
    PROVE  /\ Append(buffer, body) \in Seq(Bodies(AnyMark))
           /\ Reported(stored \o Marked(Append(buffer, body)))
           /\ stored \o Marked(Append(buffer, body)) \in Seq(Bodies(Marks))
<1> DEFINE bodies == Append(buffer, body)
           marked == Marked(buffer)
           set == Bodies(Marks)
<1>1. /\ buffer \in Seq(Bodies(AnyMark)) /\ stored \in Seq(set) /\ marked \in Seq(set)
      /\ Entered = stored \o marked /\ Entered \in Seq(set) /\ Reported(Entered)
  <2>1. marked \in Seq(set)
    BY MarkedFacts DEF BodiesKnown
  <2> QED
    BY <2>1, EnteredType DEF BodiesKnown, Entered
<1>2. bodies \in Seq(Bodies(AnyMark))
  BY <1>1, AppendProperties
<1>3. IsSequence(buffer)
  BY <1>1, SequenceIs
<1>4. Marked(bodies) = IF body \in set THEN Append(marked, body) ELSE marked
  BY <1>3, OnlyAppend DEF Marked
<1> HIDE DEF bodies, marked
<1>5. CASE body \notin set
  BY <1>1, <1>2, <1>4, <1>5 DEF bodies
<1>6. CASE body \in set
  <2> DEFINE more == Append(Entered, body)
             n == Len(Entered)
  <2>1. stored \o Marked(bodies) = more
    <3> HIDE DEF set
    <3>1. stored \o Append(marked, body) = Append(stored \o marked, body)
      BY <1>1, <1>6, ConcatAppend
    <3> QED
      BY <1>1, <1>4, <1>6, <3>1
  <2>2. body.mark \in Marks /\ FromItsSide(body.mark, body.direction) /\ body.extra = additional
    BY <1>6 DEF Bodies
  <2>3. /\ \A b \in Range(Entered) : FromItsSide(b.mark, b.direction) /\ b.extra <= additional
        /\ \A i, j \in DOMAIN Entered : i <= j => Entered[i].extra <= Entered[j].extra
    BY <1>1 DEF Reported
  <2>4. additional \in Int /\ additional <= additional
    BY ConnectorAssumption DEF ConnectorKnown
  <2>5. IsSequence(Entered)
    BY <1>1, SequenceIs
  <2>6. Range(more) = Range(Entered) \cup {body}
    BY <2>5, RangeAppend
  <2>7. \A b \in Range(more) : FromItsSide(b.mark, b.direction) /\ b.extra <= additional
    BY <2>2, <2>3, <2>4, <2>6
  <2>8. /\ n \in Nat /\ DOMAIN Entered = 1 .. n /\ DOMAIN more = 1 .. n + 1
        /\ \A i \in 1 .. n : more[i] = Entered[i] /\ Entered[i] \in Range(Entered)
        /\ more[n + 1] = body
    <3>1. \A Y : \A u \in Seq(Y) : \A y \in Y :
            /\ Len(u) \in Nat /\ DOMAIN u = 1 .. Len(u) /\ DOMAIN Append(u, y) = 1 .. Len(u) + 1
            /\ Append(u, y)[Len(u) + 1] = y
      OBVIOUS
    <3>2. \A Y : \A u \in Seq(Y) : \A y \in Y : \A i \in 1 .. Len(u) : Append(u, y)[i] = u[i]
      OBVIOUS
    <3> HIDE DEF set
    <3>3. \A i \in 1 .. n : Entered[i] \in Range(Entered)
      BY <2>5, SequenceFacts
    <3> QED
      BY <1>1, <1>6, <3>1, <3>2, <3>3
  <2> HIDE DEF more, n
  <2>9. ASSUME NEW i \in DOMAIN more, NEW j \in DOMAIN more, i <= j
        PROVE  more[i].extra <= more[j].extra
    <3>1. i \in 1 .. n + 1 /\ j \in 1 .. n + 1
      BY <2>8
    <3>2. CASE j \in 1 .. n
      <4>1. i \in 1 .. n
        BY <2>8, <2>9, <3>1, <3>2
      <4> QED
        BY <2>3, <2>8, <2>9, <3>2, <4>1
    <3>3. CASE j = n + 1
      <4>1. more[j].extra = additional
        BY <2>2, <2>8, <3>3
      <4>2. more[i] \in Range(Entered) \/ more[i] = body
        <5>1. i \in 1 .. n \/ i = n + 1
          BY <2>8, <3>1
        <5> QED
          BY <2>8, <5>1
      <4> QED
        BY <2>2, <2>3, <2>4, <4>1, <4>2
    <3> QED
      BY <2>8, <3>1, <3>2, <3>3
  <2>10. more \in Seq(set)
    BY <1>1, <1>6, AppendProperties DEF more
  <2> QED
    BY <1>2, <2>1, <2>7, <2>9, <2>10 DEF Reported, bodies
<1> QED
  BY <1>5, <1>6

\* A body is entered, flushed with the buffer or not.
LEMMA SendKeeps ==
    ASSUME BodiesKnown, ConnectorKnown, NEW body \in Bodies(AnyMark), running,
           body.mark \in Marks => FromItsSide(body.mark, body.direction) /\ body.extra = additional,
           SendToBuffer(body), UNCHANGED <<available, additional, up, given>>
    PROVE  BodiesKnown' /\ ConnectorKnown' /\ Entered' = stored \o Marked(Append(buffer, body))
<1> DEFINE bodies == Append(buffer, body)
           all == stored \o Marked(bodies)
<1>1. bodies \in Seq(Bodies(AnyMark)) /\ Reported(all) /\ all \in Seq(Bodies(Marks))
  BY EnterOne
<1>2. buffer \in Seq(Bodies(AnyMark)) /\ stored \in Seq(Bodies(Marks))
  BY DEF BodiesKnown
<1>3. IF BufferFull(bodies) \/ age > FlushAge THEN Flush(bodies)
      ELSE buffer' = bodies /\ UNCHANGED <<age, stored, running>>
  BY DEF SendToBuffer
<1>4. bodies # <<>> /\ Len(bodies) \in Nat
  BY <1>2
<1>5. Marked(<<>>) = <<>> /\ all \o <<>> = all
  BY <1>1, OnlyOfNone, ConcatEmptySeq DEF Marked
<1>6. /\ running \in BOOLEAN /\ available \in BOOLEAN /\ up \in BOOLEAN
      /\ additional \in 0 .. MaxUpdates /\ age \in 0 .. FlushAge + 1
      /\ running => Len(buffer) < BufferSize
      /\ BufferSize \in Nat \ {0} /\ FlushAge \in Nat
  BY ConnectorAssumption DEF ConnectorKnown
<1> HIDE DEF bodies, all
<1>7. CASE (BufferFull(bodies) \/ age > FlushAge) /\ up
  <2>1. stored' = all /\ buffer' = <<>> /\ age' = 0 /\ running' = running
    BY <1>3, <1>7 DEF Flush, all
  <2>2. Entered' = all
    <3>1. Entered' = stored' \o Marked(buffer)'
      BY DEF Entered
    <3>2. Marked(buffer)' = Marked(<<>>)
      BY <2>1 DEF Marked
    <3> QED
      BY <1>5, <2>1, <3>1, <3>2
  <2>3. buffer' \in Seq(Bodies(AnyMark))
    BY <2>1, EmptySeq
  <2>4. BodiesKnown'
    BY <1>1, <2>1, <2>2, <2>3 DEF BodiesKnown, Reported, FromItsSide
  <2>5. Len(buffer') = 0
    BY <2>1
  <2>6. ConnectorKnown'
    BY <1>6, <2>1, <2>5 DEF ConnectorKnown
  <2> QED
    BY <2>2, <2>4, <2>6 DEF bodies, all
<1>8. CASE ~((BufferFull(bodies) \/ age > FlushAge) /\ up)
  <2>1. /\ buffer' = bodies /\ age' = age /\ stored' = stored
        /\ running' = FALSE \/ (running' = running /\ ~BufferFull(bodies))
    BY <1>3, <1>8 DEF Flush
  <2>2. Entered' = all
    BY <2>1 DEF Entered, Marked, all
  <2>3. BodiesKnown'
    BY <1>1, <1>2, <2>1, <2>2 DEF BodiesKnown, Reported, FromItsSide
  <2>4. running' => Len(buffer') < BufferSize
    BY <1>4, <1>6, <2>1 DEF BufferFull
  <2>5. ConnectorKnown'
    BY <1>4, <1>6, <2>1, <2>4 DEF ConnectorKnown
  <2> QED
    BY <2>2, <2>3, <2>5 DEF bodies, all
<1> QED
  BY <1>7, <1>8

LEMMA ConnectKeeps == PipelineInv /\ Connect => PipelineInv'
<1>1. ASSUME PipelineInv, Connect PROVE PipelineInv'
  <2> DEFINE status == Head(statusOut)
             rest == Tail(statusOut)
  <2>1. /\ statusOut # <<>> /\ HandleStatus(status) /\ statusOut' = rest
        /\ UNCHANGED <<stream, statusIn, given>>
    BY <1>1 DEF Connect
  <2>2. MoreGiven
    BY <2>1, SameGiven
  <2>3. /\ GivenOnce /\ QueuesKnown /\ BodiesKnown /\ ConnectorKnown
    BY <1>1 DEF PipelineInv
  <2>4. IsSequence(statusOut) /\ (\A s \in Range(statusOut) : StatusKnown(s)) /\ Len(statusOut) <= MaxStatus
    BY <2>3 DEF QueuesKnown
  <2>5. status \in Range(statusOut) /\ IsSequence(rest) /\ Len(statusOut) = Len(rest) + 1
    BY <2>1, <2>4, HeadThenTail
  <2>6. Range(rest) \subseteq Range(statusOut)
    <3>1. statusOut = <<status>> \o rest
      BY <2>1, <2>4, HeadThenTail
    <3>2. IsSequence(<<status>>)
      BY RangeOne
    <3> HIDE DEF status, rest
    <3>3. Range(<<status>> \o rest) = Range(<<status>>) \cup Range(rest)
      BY <2>5, <3>2, RangeConcat
    <3> QED
      BY <3>1, <3>3
  <2> HIDE DEF status, rest
  <2>7. Len(statusOut') <= MaxStatus
    <3>1. Len(rest) \in Nat
      BY <2>5, SequenceFacts
    <3> QED
      BY <2>1, <2>4, <2>5, <3>1, PipelineAssumption
  <2>8. QueuesKnown'
    <3>1. \A s \in Range(statusOut') : StatusKnown(s)'
      BY <2>1, <2>2, <2>4, <2>6, KnowledgeStays
    <3>2. \A m \in Range(statusIn') : MessageKnown(m)'
      BY <2>1, <2>2, <2>3, KnowledgeStays DEF QueuesKnown
    <3> QED
      BY <2>1, <2>2, <2>3, <2>5, <2>7, <3>1, <3>2, StreamStays DEF QueuesKnown
  <2>9. GivenOnce'
    BY <2>1, <2>3 DEF GivenOnce
  <2>10. running /\ UNCHANGED <<available, additional, up, given>>
    BY <2>1 DEF HandleStatus
  <2>11. additional \in Int
    BY <2>3, ConnectorAssumption DEF ConnectorKnown
  <2>12. CASE UNCHANGED <<buffer, age, stored>> /\ running' \in {running, FALSE}
    <3>1. BodiesKnown'
      BY <2>2, <2>3, <2>10, <2>11, <2>12, BodiesStay
    <3>2. ConnectorKnown'
      BY <2>3, <2>10, <2>12 DEF ConnectorKnown
    <3> QED
      BY <2>8, <2>9, <3>1, <3>2 DEF PipelineInv
  <2>13. CASE status.pair /\ SendToBuffer(Body(status))
    <3> DEFINE body == Body(status)
    <3>1. StatusKnown(status)
      BY <2>4, <2>5
    <3>2. /\ body \in Bodies(AnyMark)
          /\ body.mark \in Marks => FromItsSide(body.mark, body.direction) /\ body.extra = additional
      BY <2>3, <2>13, <3>1, BodyFacts
    <3>3. SendToBuffer(body)
      BY <2>13
    <3> HIDE DEF body
    <3>4. BodiesKnown' /\ ConnectorKnown'
      BY <2>3, <2>10, <3>2, <3>3, SendKeeps
    <3> QED
      BY <2>8, <2>9, <3>4 DEF PipelineInv
  <2> QED
    BY <2>1, <2>12, <2>13 DEF HandleStatus
<1> QED
  BY <1>1

LEMMA EnvironmentKeeps == PipelineInv /\ ConnectorEnvironment => PipelineInv'
<1>1. ASSUME PipelineInv, ConnectorEnvironment PROVE PipelineInv'
  <2>1. /\ UpdateAdditionalData \/ Grow \/ DatabaseChange
        /\ UNCHANGED <<stream, statusIn, statusOut, given>>
    BY <1>1 DEF ConnectorEnvironment
  <2>2. MoreGiven
    BY <2>1, SameGiven
  <2>3. /\ GivenOnce /\ QueuesKnown /\ BodiesKnown /\ ConnectorKnown
    BY <1>1 DEF PipelineInv
  <2>4. GivenOnce'
    BY <2>1, <2>3 DEF GivenOnce
  <2>5. QueuesKnown'
    <3>1. \A s \in Range(statusOut') : StatusKnown(s)'
      BY <2>1, <2>2, <2>3, KnowledgeStays DEF QueuesKnown
    <3>2. \A m \in Range(statusIn') : MessageKnown(m)'
      BY <2>1, <2>2, <2>3, KnowledgeStays DEF QueuesKnown
    <3> QED
      BY <2>1, <2>2, <2>3, <3>1, <3>2, StreamStays DEF QueuesKnown
  <2>6. /\ running \in BOOLEAN /\ available \in BOOLEAN /\ up \in BOOLEAN
        /\ additional \in 0 .. MaxUpdates /\ age \in 0 .. FlushAge + 1
        /\ running => Len(buffer) < BufferSize
        /\ buffer = <<>> => age = 0
        /\ MaxUpdates \in Nat /\ FlushAge \in Nat
    BY <2>3, ConnectorAssumption DEF ConnectorKnown
  <2>7. UNCHANGED <<running, available, buffer, stored>>
    BY <2>1 DEF UpdateAdditionalData, Grow, DatabaseChange
  <2>8. additional' \in {additional, additional + 1} /\ additional' <= MaxUpdates
    BY <2>1, <2>6 DEF UpdateAdditionalData, Grow, DatabaseChange
  <2>9. age' \in 0 .. FlushAge + 1 /\ (buffer = <<>> => age' = 0)
    BY <2>1, <2>6 DEF UpdateAdditionalData, Grow, DatabaseChange
  <2>10. up' \in BOOLEAN
    BY <2>1, <2>6 DEF UpdateAdditionalData, Grow, DatabaseChange
  <2>11. ConnectorKnown'
    BY <2>6, <2>7, <2>8, <2>9, <2>10 DEF ConnectorKnown
  <2>12. BodiesKnown'
    <3>1. additional \in Int /\ additional' \in Int /\ additional <= additional'
      BY <2>6, <2>8
    <3> QED
      BY <2>2, <2>3, <2>7, <3>1, BodiesStay
  <2> QED
    BY <2>4, <2>5, <2>11, <2>12 DEF PipelineInv
<1> QED
  BY <1>1

LEMMA InitKnown == PipelineInit => PipelineInv
<1>1. ASSUME PipelineInit PROVE PipelineInv
  <2>1. /\ running = TRUE /\ up \in BOOLEAN /\ available = up /\ additional = 0
        /\ buffer = <<>> /\ age = 0 /\ stored = <<>>
        /\ stream = <<>> /\ statusIn = <<>> /\ statusOut = <<>>
        /\ given = [tx |-> <<>>, rx |-> <<>>]
    BY <1>1 DEF PipelineInit, ConnectorInit
  <2>2. DOMAIN <<>> = {} /\ Len(<<>>) = 0 /\ \A X : <<>> \in Seq(X)
    OBVIOUS
  <2>3. Range(<<>>) = {} /\ IsSequence(<<>>)
    BY <2>2 DEF Range, IsSequence
  <2>4. MaxStream \in Nat /\ MaxQueue \in Nat /\ MaxStatus \in Nat /\ Len(MarkOrder) \in Nat
    BY PipelineAssumption, LenProperties
  <2>5. GivenOnce
    <3>1. given["tx"] = <<>> /\ given["rx"] = <<>>
      BY <2>1
    <3>2. Len(given["tx"]) + Len(given["rx"]) <= Len(MarkOrder)
      BY <2>2, <2>4, <3>1
    <3> QED
      BY <2>1, <2>2, <2>3, <3>1, <3>2 DEF GivenOnce
  <2>6. QueuesKnown
    BY <2>1, <2>2, <2>3, <2>4 DEF QueuesKnown
  <2>7. Entered = <<>>
    <3>1. Marked(buffer) = <<>>
      BY <2>1, OnlyOfNone DEF Marked
    <3>2. <<>> \o <<>> = <<>>
      OBVIOUS
    <3> QED
      BY <2>1, <3>1, <3>2 DEF Entered
  <2>8. BodiesKnown
    BY <2>1, <2>2, <2>3, <2>7 DEF BodiesKnown, Reported
  <2>9. ConnectorKnown
    BY <2>1, <2>2, ConnectorAssumption DEF ConnectorKnown
  <2> QED
    BY <2>5, <2>6, <2>8, <2>9 DEF PipelineInv
<1> QED
  BY <1>1

LEMMA StutterKeeps == PipelineInv /\ UNCHANGED pipelineVars => PipelineInv'
<1>1. ASSUME PipelineInv, UNCHANGED pipelineVars PROVE PipelineInv'
  <2>1. UNCHANGED <<connectorVars, stream, statusIn, statusOut, given>>
    BY <1>1 DEF pipelineVars
  <2>2. MoreGiven
    BY <2>1, SameGiven
  <2>3. QueuesKnown'
    <3>1. \A s \in Range(statusOut') : StatusKnown(s)'
      BY <1>1, <2>1, <2>2, KnowledgeStays DEF PipelineInv, QueuesKnown
    <3>2. \A m \in Range(statusIn') : MessageKnown(m)'
      BY <1>1, <2>1, <2>2, KnowledgeStays DEF PipelineInv, QueuesKnown
    <3> QED
      BY <1>1, <2>1, <2>2, <3>1, <3>2, StreamStays DEF PipelineInv, QueuesKnown
  <2> QED
    BY <1>1, <2>1, <2>3, QueuesOnly
<1> QED
  BY <1>1

LEMMA StepKeeps == PipelineInv /\ [PipelineNext]_pipelineVars => PipelineInv'
<1>1. ASSUME PipelineInv, [PipelineNext]_pipelineVars PROVE PipelineInv'
  BY <1>1, ProduceKeeps, ReadTagsKeeps, ReportPduKeeps, ReportOtherKeeps, CollectKeeps,
     ConnectKeeps, EnvironmentKeeps, StutterKeeps DEF PipelineNext
<1> QED
  BY <1>1

LEMMA PipelineKnown == PipelineSpec => []PipelineInv
BY InitKnown, StepKeeps, PTL DEF PipelineSpec
-----------------------------------------------------------------------------
LEMMA KnownIsTyped == PipelineInv => StatusTypeOK
<1>1. ASSUME PipelineInv PROVE StatusTypeOK
  <2>1. buffer \in Seq(Bodies(AnyMark)) /\ stored \in Seq(Bodies(Marks))
    BY <1>1 DEF PipelineInv, BodiesKnown
  <2>2. Range(buffer) \subseteq Bodies(AnyMark) /\ Range(stored) \subseteq Bodies(Marks)
    BY <2>1, SequenceIs
  <2>3. Range(buffer) \cup Range(stored) \subseteq Bodies(Marks \cup {Plain})
    BY <2>2 DEF Bodies, AnyMark
  <2>4. Len(stream) <= MaxStream /\ Len(statusIn) <= MaxQueue /\ Len(statusOut) <= MaxStatus
    BY <1>1 DEF PipelineInv, QueuesKnown
  <2>5. /\ running \in BOOLEAN /\ available \in BOOLEAN /\ up \in BOOLEAN
        /\ additional \in 0 .. MaxUpdates
        /\ running => Len(buffer) < BufferSize
        /\ age \in 0 .. FlushAge + 1
        /\ buffer = <<>> => age = 0
    BY <1>1 DEF PipelineInv, ConnectorKnown
  <2> QED
    BY <2>3, <2>4, <2>5 DEF StatusTypeOK
<1> QED
  BY <1>1

LEMMA KnownAsReported == PipelineInv => StoredAsReported
<1>1. ASSUME PipelineInv PROVE StoredAsReported
  <2> DEFINE set == Bodies(Marks)
             marked == Marked(buffer)
  <2>1. stored \in Seq(set) /\ marked \in Seq(set) /\ Entered = stored \o marked /\ Reported(Entered)
    BY <1>1, MarkedFacts DEF PipelineInv, BodiesKnown, Entered
  <2> HIDE DEF set, marked
  <2>2. Entered \in Seq(set) /\ Len(Entered) = Len(stored) + Len(marked)
    BY <2>1, ConcatProperties
  <2>3. /\ Len(stored) \in Nat /\ Len(marked) \in Nat
        /\ DOMAIN stored = 1 .. Len(stored) /\ DOMAIN Entered = 1 .. Len(Entered)
    BY <2>1, <2>2, LenProperties
  <2>4. ASSUME NEW i \in DOMAIN stored
        PROVE  stored[i] = Entered[i] /\ i \in DOMAIN Entered /\ Entered[i] \in Range(Entered)
    <3>1. stored[i] = Entered[i]
      BY <2>1, <2>3, ConcatFirst
    <3>2. i \in DOMAIN Entered
      BY <2>2, <2>3
    <3> QED
      BY <3>1, <3>2 DEF Range
  <2>5. ASSUME NEW i \in DOMAIN stored
        PROVE  /\ stored[i].direction \in {"tx", "rx"} /\ stored[i].mark \in Range(given[stored[i].direction])
               /\ \A j \in 1 .. i : stored[j].extra <= stored[i].extra
    <3>1. FromItsSide(Entered[i].mark, Entered[i].direction)
      BY <2>1, <2>4 DEF Reported
    <3>2. ASSUME NEW j \in 1 .. i PROVE stored[j].extra <= stored[i].extra
      <4>1. j \in DOMAIN stored /\ j <= i
        BY <2>3
      <4>2. stored[j] = Entered[j] /\ j \in DOMAIN Entered
        BY <2>4, <4>1
      <4> QED
        BY <2>1, <2>4, <4>1, <4>2 DEF Reported
    <3> QED
      BY <2>4, <3>1, <3>2 DEF FromItsSide
  <2> QED
    BY <2>5 DEF StoredAsReported
<1> QED
  BY <1>1

\* The pipeline's types hold for all marks, samples and shapes of messages and all sizes of
\* the buffer and the queues; in particular the buffer is below its size between two calls
\* (elasticsearch_connector.py:110-121).
THEOREM StatusTypeAlwaysOK == PipelineSpec => []StatusTypeOK
<1>1. PipelineInv => StatusTypeOK
  BY KnownIsTyped
<1> QED
  BY <1>1, PipelineKnown, PTL

\* What the database holds is told from where it came, and its additional data never gets
\* older, for all of them and in all interleavings of the threads
\* (status_collector_impl.cc:125-134, elasticsearch_connector.py:107-108, 129-141).
THEOREM AlwaysStoredAsReported == PipelineSpec => []StoredAsReported
<1>1. PipelineInv => StoredAsReported
  BY KnownAsReported
<1> QED
  BY <1>1, PipelineKnown, PTL
-----------------------------------------------------------------------------
\* The marks in each part of the pipeline, by what the part holds.
MarkBy(kind, item) ==
    CASE kind = "body"    -> item.mark
      [] kind = "status"  -> MarkOfStatus(item)
      [] kind = "message" -> item.fields.mark
      [] OTHER            -> MarkOfSample(item)

MarksBy(kind, items) == [i \in DOMAIN items |-> MarkBy(kind, items[i])]
ItemMarks(kind, items) == Only(MarksBy(kind, items), Marks)

LEMMA MarksByFacts ==
    \A kind, s : IsSequence(s) =>
        /\ MarksBy(kind, s) \in Seq({ MarkBy(kind, x) : x \in Range(s) })
        /\ Len(MarksBy(kind, s)) = Len(s)
<1>1. ASSUME NEW kind, NEW s, IsSequence(s)
      PROVE  /\ MarksBy(kind, s) \in Seq({ MarkBy(kind, x) : x \in Range(s) })
             /\ Len(MarksBy(kind, s)) = Len(s)
  <2> DEFINE marks == MarksBy(kind, s)
             X == { MarkBy(kind, x) : x \in Range(s) }
  <2>1. Len(s) \in Nat /\ DOMAIN s = 1 .. Len(s) /\ \A i \in 1 .. Len(s) : s[i] \in Range(s)
    BY <1>1, SequenceFacts
  <2>2. marks = [i \in 1 .. Len(s) |-> MarkBy(kind, s[i])]
    BY <2>1 DEF MarksBy
  <2>3. marks \in [1 .. Len(s) -> X]
    BY <2>1, <2>2
  <2> HIDE DEF marks, X
  <2>4. marks \in Seq(X)
    BY <2>1, <2>3, SeqDef
  <2>5. Len(marks) = Len(s)
    BY <2>1, <2>3, <2>4, LenProperties
  <2> QED
    BY <2>4, <2>5 DEF marks, X
<1> QED
  BY <1>1

LEMMA ItemMarksType ==
    \A kind, s : IsSequence(s) => ItemMarks(kind, s) \in Seq({ MarkBy(kind, x) : x \in Range(s) } \cap Marks)
BY MarksByFacts, OnlyType DEF ItemMarks

LEMMA MarksByConcat ==
    \A kind, s, t : IsSequence(s) /\ IsSequence(t)
        => MarksBy(kind, s \o t) = MarksBy(kind, s) \o MarksBy(kind, t)
<1>1. ASSUME NEW kind, NEW s, NEW t, IsSequence(s), IsSequence(t)
      PROVE  MarksBy(kind, s \o t) = MarksBy(kind, s) \o MarksBy(kind, t)
  <2> DEFINE X == Range(s) \cup Range(t)
             M == { MarkBy(kind, x) : x \in X }
             all == s \o t
             a == MarksBy(kind, s)
             b == MarksBy(kind, t)
             left == MarksBy(kind, all)
             right == a \o b
  <2>1. IsSequence(all) /\ Len(all) = Len(s) + Len(t) /\ Range(all) = X
    BY <1>1, RangeConcat
  <2>2. /\ Len(s) \in Nat /\ Len(t) \in Nat /\ DOMAIN s = 1 .. Len(s) /\ DOMAIN t = 1 .. Len(t)
        /\ s \in Seq(X) /\ t \in Seq(X)
    <3>1. s \in Seq(Range(s)) /\ t \in Seq(Range(t)) /\ Range(s) \subseteq X /\ Range(t) \subseteq X
      BY <1>1 DEF IsSequence
    <3> HIDE DEF X
    <3> QED
      BY <1>1, <3>1, SequenceFacts, SeqMonotonic
  <2>3. /\ a \in Seq(M) /\ b \in Seq(M) /\ left \in Seq(M)
        /\ Len(a) = Len(s) /\ Len(b) = Len(t) /\ Len(left) = Len(all)
    <3> DEFINE MA == { MarkBy(kind, x) : x \in Range(s) }
               MB == { MarkBy(kind, x) : x \in Range(t) }
    <3>1. MA \subseteq M /\ MB \subseteq M
      OBVIOUS
    <3>2. a \in Seq(MA) /\ b \in Seq(MB) /\ Len(a) = Len(s) /\ Len(b) = Len(t)
      BY <1>1, MarksByFacts
    <3>3. left \in Seq(M) /\ Len(left) = Len(all)
      <4>1. left \in Seq({ MarkBy(kind, x) : x \in Range(all) }) /\ Len(left) = Len(all)
        <5> HIDE DEF all, X
        <5> QED
          BY <2>1, MarksByFacts
      <4>2. { MarkBy(kind, x) : x \in Range(all) } = M
        BY <2>1
      <4> QED
        BY <4>1, <4>2
    <3> HIDE DEF MA, MB, M, a, b, left
    <3> QED
      BY <3>1, <3>2, <3>3, SeqMonotonic
  <2>4. \A i \in 1 .. Len(s) : a[i] = MarkBy(kind, s[i])
    BY <2>2 DEF MarksBy
  <2>5. \A i \in 1 .. Len(t) : b[i] = MarkBy(kind, t[i])
    BY <2>2 DEF MarksBy
  <2>6. DOMAIN all = 1 .. Len(all)
    BY <2>1, SequenceFacts
  <2>7. \A i \in 1 .. Len(all) : left[i] = MarkBy(kind, all[i])
    BY <2>6 DEF MarksBy
  <2>8. \A i \in 1 .. Len(s) : all[i] = s[i]
    <3> HIDE DEF X
    <3> QED
      BY <2>2, ConcatFirst
  <2>9. \A i \in 1 .. Len(t) : all[Len(s) + i] = t[i]
    <3> HIDE DEF X
    <3> QED
      BY <2>2, ConcatThen
  <2> HIDE DEF all, a, b, left, M, X
  <2>10. right \in Seq(M) /\ Len(right) = Len(s) + Len(t)
    BY <2>3, ConcatOf
  <2>11. \A i \in 1 .. Len(s) : right[i] = a[i]
    BY <2>3, ConcatFirst
  <2>12. \A i \in 1 .. Len(t) : right[Len(s) + i] = b[i]
    BY <2>3, ConcatThen
  <2> HIDE DEF right
  <2>13. ASSUME NEW i \in 1 .. Len(left) PROVE left[i] = right[i]
    <3>1. i \in 1 .. Len(all)
      BY <2>3
    <3>2. CASE i \in 1 .. Len(s)
      BY <2>4, <2>7, <2>8, <2>11, <3>1, <3>2
    <3>3. CASE i \notin 1 .. Len(s)
      <4> DEFINE j == i - Len(s)
      <4>1. j \in 1 .. Len(t) /\ i = Len(s) + j
        BY <2>1, <2>2, <3>1, <3>3
      <4> HIDE DEF j
      <4> QED
        BY <2>5, <2>7, <2>9, <2>12, <3>1, <4>1
    <3> QED
      BY <3>2, <3>3
  <2>14. left = right
    BY <2>1, <2>3, <2>10, <2>13, SeqEqual
  <2> QED
    BY <2>14 DEF left, right, a, b, all
<1> QED
  BY <1>1

LEMMA ItemMarksConcat ==
    \A kind, s, t : IsSequence(s) /\ IsSequence(t)
        => ItemMarks(kind, s \o t) = ItemMarks(kind, s) \o ItemMarks(kind, t)
<1>1. ASSUME NEW kind, NEW s, NEW t, IsSequence(s), IsSequence(t)
      PROVE  ItemMarks(kind, s \o t) = ItemMarks(kind, s) \o ItemMarks(kind, t)
  <2> DEFINE MA == { MarkBy(kind, x) : x \in Range(s) }
             MB == { MarkBy(kind, x) : x \in Range(t) }
             M == MA \cup MB
             a == MarksBy(kind, s)
             b == MarksBy(kind, t)
  <2>1. a \in Seq(MA) /\ b \in Seq(MB)
    BY <1>1, MarksByFacts
  <2>2. MA \subseteq M /\ MB \subseteq M
    OBVIOUS
  <2>3. MarksBy(kind, s \o t) = a \o b
    BY <1>1, MarksByConcat
  <2> HIDE DEF MA, MB, M, a, b
  <2>4. a \in Seq(M) /\ b \in Seq(M)
    BY <2>1, <2>2, SeqMonotonic
  <2>5. Only(a \o b, Marks) = Only(a, Marks) \o Only(b, Marks)
    BY <2>4, OnlyConcat
  <2> QED
    BY <2>3, <2>5 DEF ItemMarks, a, b
<1> QED
  BY <1>1

LEMMA ItemMarksOne ==
    \A kind, x : ItemMarks(kind, <<x>>) = IF MarkBy(kind, x) \in Marks THEN <<MarkBy(kind, x)>> ELSE <<>>
<1>1. ASSUME NEW kind, NEW x
      PROVE  ItemMarks(kind, <<x>>) = IF MarkBy(kind, x) \in Marks THEN <<MarkBy(kind, x)>> ELSE <<>>
  <2>1. MarksBy(kind, <<x>>) = <<MarkBy(kind, x)>>
    <3>1. DOMAIN <<x>> = 1 .. 1 /\ <<x>>[1] = x
      OBVIOUS
    <3>2. MarksBy(kind, <<x>>) = [i \in 1 .. 1 |-> MarkBy(kind, x)]
      BY <3>1 DEF MarksBy
    <3>3. \A y : [i \in 1 .. 1 |-> y] = <<y>>
      OBVIOUS
    <3> QED
      BY <3>2, <3>3
  <2> QED
    BY <2>1, OnlyOfOne DEF ItemMarks
<1> QED
  BY <1>1

LEMMA ItemMarksAppend ==
    \A kind, s, x : IsSequence(s) =>
        ItemMarks(kind, Append(s, x)) =
            ItemMarks(kind, s) \o (IF MarkBy(kind, x) \in Marks THEN <<MarkBy(kind, x)>> ELSE <<>>)
<1>1. ASSUME NEW kind, NEW s, NEW x, IsSequence(s)
      PROVE  ItemMarks(kind, Append(s, x)) =
                 ItemMarks(kind, s) \o (IF MarkBy(kind, x) \in Marks THEN <<MarkBy(kind, x)>> ELSE <<>>)
  <2>1. Append(s, x) = s \o <<x>> /\ IsSequence(<<x>>)
    BY <1>1, AddedAtEnd, RangeOne
  <2>2. ItemMarks(kind, s \o <<x>>) = ItemMarks(kind, s) \o ItemMarks(kind, <<x>>)
    BY <1>1, <2>1, ItemMarksConcat
  <2>3. ItemMarks(kind, <<x>>) = IF MarkBy(kind, x) \in Marks THEN <<MarkBy(kind, x)>> ELSE <<>>
    BY ItemMarksOne
  <2> QED
    BY <2>1, <2>2, <2>3
<1> QED
  BY <1>1

LEMMA ItemMarksNone == \A kind : ItemMarks(kind, <<>>) = <<>>
<1>1. ASSUME NEW kind PROVE MarksBy(kind, <<>>) = <<>>
  BY DEF MarksBy
<1> QED
  BY <1>1, OnlyOfNone DEF ItemMarks
-----------------------------------------------------------------------------
\* The marked bodies of a buffer have its marks.
LEMMA MarkedMarks ==
    \A bodies \in Seq(Bodies(AnyMark)) : ItemMarks("body", Marked(bodies)) = ItemMarks("body", bodies)
<1>1. ASSUME NEW bodies \in Seq(Bodies(AnyMark))
      PROVE  ItemMarks("body", Marked(bodies)) = ItemMarks("body", bodies)
  <2> DEFINE n == Len(bodies)
             Part(k) == SubSeq(bodies, 1, k)
             Same(k) == ItemMarks("body", Marked(Part(k))) = ItemMarks("body", Part(k))
             B == Bodies(AnyMark)
  <2>1. n \in Nat /\ Part(n) = bodies
    BY SubSeqFull
  <2>2. Same(0)
    <3>1. Part(0) = <<>>
      <4> HIDE DEF B
      <4>1. \A Y : \A u \in Seq(Y) : SubSeq(u, 1, 0) = <<>>
        OBVIOUS
      <4> QED
        BY <4>1
    <3>2. Marked(<<>>) = <<>>
      BY OnlyOfNone DEF Marked
    <3> QED
      BY <3>1, <3>2
  <2>3. ASSUME NEW k \in Nat, k < n, Same(k) PROVE Same(k + 1)
    <3> DEFINE part == Part(k)
               b == bodies[k + 1]
               marked == Marked(part)
    <3>1. part \in Seq(B) /\ b \in B /\ Part(k + 1) = Append(part, b)
      <4> HIDE DEF B
      <4>1. \A Y : \A u \in Seq(Y) : \A m \in Nat : m < Len(u)
              => SubSeq(u, 1, m) \in Seq(Y) /\ u[m + 1] \in Y
        OBVIOUS
      <4>2. \A Y : \A u \in Seq(Y) : \A m \in Nat : m < Len(u)
              => SubSeq(u, 1, m + 1) = Append(SubSeq(u, 1, m), u[m + 1])
        OBVIOUS
      <4>3. bodies \in Seq(B) /\ k \in Nat /\ k < Len(bodies)
        BY <2>3 DEF B
      <4>4. SubSeq(bodies, 1, k) \in Seq(B) /\ bodies[k + 1] \in B
        BY <4>1, <4>3
      <4>5. SubSeq(bodies, 1, k + 1) = Append(SubSeq(bodies, 1, k), bodies[k + 1])
        BY <4>2, <4>3
      <4> QED
        BY <4>4, <4>5
    <3>2. IsSequence(part)
      BY <3>1, SequenceIs
    <3>3. IsSequence(marked)
      BY <3>1, MarkedFacts, SequenceIs
    <3>4. ItemMarks("body", marked) = ItemMarks("body", part)
      BY <2>3
    <3>5. MarkBy("body", b) = b.mark
      BY DEF MarkBy
    <3>7. b \in Bodies(Marks) <=> b.mark \in Marks
      BY <3>1 DEF Bodies
    <3> HIDE DEF part, b, Part
    <3>6. Marked(Append(part, b)) = IF b \in Bodies(Marks) THEN Append(marked, b) ELSE marked
      BY <3>2, OnlyAppend DEF Marked, marked
    <3> HIDE DEF marked
    <3>8. ItemMarks("body", Append(part, b)) =
              ItemMarks("body", part) \o (IF b.mark \in Marks THEN <<b.mark>> ELSE <<>>)
      BY <3>2, <3>5, ItemMarksAppend
    <3>9. ItemMarks("body", Append(marked, b)) =
              ItemMarks("body", marked) \o (IF b.mark \in Marks THEN <<b.mark>> ELSE <<>>)
      BY <3>3, <3>5, ItemMarksAppend
    <3>10. ItemMarks("body", part) \o <<>> = ItemMarks("body", part)
      BY <3>2, ItemMarksType, ConcatEmptySeq
    <3>11. ItemMarks("body", Marked(Append(part, b))) = ItemMarks("body", Append(part, b))
      <4>1. CASE b.mark \in Marks
        BY <3>4, <3>6, <3>7, <3>8, <3>9, <4>1
      <4>2. CASE b.mark \notin Marks
        BY <3>4, <3>6, <3>7, <3>8, <3>10, <4>2
      <4> QED
        BY <4>1, <4>2
    <3> QED
      BY <3>1, <3>11
  <2> DEFINE bad == { k \in 0 .. n : ~Same(k) }
  <2>4. Same(n)
    <3> HIDE DEF Same, Part
    <3>1. ASSUME ~Same(n) PROVE FALSE
      <4>1. bad \subseteq Nat /\ n \in bad
        BY <2>1, <3>1
      <4>2. PICK k \in bad : \A y \in bad : k <= y
        <5> HIDE DEF bad
        <5> QED
          BY <4>1, SmallestExists
      <4>3. k \in 0 .. n /\ ~Same(k) /\ k # 0
        BY <2>2, <4>2
      <4>4. k - 1 \in Nat /\ k - 1 < n /\ k - 1 < k /\ (k - 1) + 1 = k /\ k - 1 \in 0 .. n
        BY <2>1, <4>3
      <4>5. k - 1 \notin bad
        <5>1. \A x, y \in Nat : x < y => ~(y <= x)
          OBVIOUS
        <5>2. k \in Nat
          BY <4>3
        <5> HIDE DEF bad
        <5> QED
          BY <4>2, <4>4, <5>1, <5>2
      <4>6. Same(k - 1)
        BY <4>4, <4>5
      <4> QED
        BY <2>3, <4>3, <4>4, <4>6
    <3> QED
      BY <3>1
  <2> QED
    BY <2>1, <2>4
<1> QED
  BY <1>1

\* The marks of the pipeline in one row: at the database, at the connector, at the collector
\* and on the stream.
AtDatabase == ItemMarks("body", Entered)
AtConnector == ItemMarks("status", statusOut)
AtCollector == ItemMarks("message", statusIn)
OnStream == ItemMarks("sample", stream)
Row == ((AtDatabase \o AtConnector) \o AtCollector) \o OnStream

AllGiven == Range(given["tx"]) \cup Range(given["rx"])

LEMMA RowIsPipeline == PipelineInv => InPipeline = Row
<1>1. ASSUME PipelineInv PROVE InPipeline = Row
  <2>1. buffer \in Seq(Bodies(AnyMark)) /\ stored \in Seq(Bodies(Marks))
    BY <1>1 DEF PipelineInv, BodiesKnown
  <2>2. IsSequence(buffer) /\ IsSequence(stored) /\ IsSequence(Marked(buffer))
    BY <2>1, MarkedFacts, SequenceIs
  <2>3. AtDatabase = ItemMarks("body", stored) \o ItemMarks("body", buffer)
    BY <2>1, <2>2, MarkedMarks, ItemMarksConcat DEF AtDatabase, Entered
  <2>4. /\ MarksOf(stored, LAMBDA b : b.mark) = ItemMarks("body", stored)
        /\ MarksOf(buffer, LAMBDA b : b.mark) = ItemMarks("body", buffer)
    BY DEF MarksOf, ItemMarks, MarksBy, MarkBy
  <2>5. MarksOf(statusOut, MarkOfStatus) = AtConnector
    BY DEF MarksOf, ItemMarks, MarksBy, MarkBy, AtConnector
  <2>6. MarksOf(statusIn, MarkOfMessage) = AtCollector
    BY DEF MarksOf, ItemMarks, MarksBy, MarkBy, AtCollector, MarkOfMessage
  <2>7. MarksOf(stream, MarkOfSample) = OnStream
    BY DEF MarksOf, ItemMarks, MarksBy, MarkBy, OnStream
  <2> QED
    BY <2>3, <2>4, <2>5, <2>6, <2>7 DEF InPipeline, Row
<1> QED
  BY <1>1

\* All marks in the row were given, those on the stream by the transmitter.
LEMMA RowTypes ==
    PipelineInv => /\ AtDatabase \in Seq(Marks \cap AllGiven) /\ AtConnector \in Seq(Marks \cap AllGiven)
                   /\ AtCollector \in Seq(Marks \cap AllGiven)
                   /\ OnStream \in Seq(Marks \cap Range(given["tx"]))
<1>1. ASSUME PipelineInv
      PROVE  /\ AtDatabase \in Seq(Marks \cap AllGiven) /\ AtConnector \in Seq(Marks \cap AllGiven)
             /\ AtCollector \in Seq(Marks \cap AllGiven)
             /\ OnStream \in Seq(Marks \cap Range(given["tx"]))
  <2>1. /\ IsSequence(stream) /\ IsSequence(statusIn) /\ IsSequence(statusOut)
        /\ \A sample \in Range(stream) : SampleKnown(sample)
        /\ \A msg \in Range(statusIn) : MessageKnown(msg)
        /\ \A status \in Range(statusOut) : StatusKnown(status)
    BY <1>1 DEF PipelineInv, QueuesKnown
  <2>2. /\ Entered \in Seq(Bodies(Marks))
        /\ \A b \in Range(Entered) : FromItsSide(b.mark, b.direction)
    BY <1>1, EnteredType DEF PipelineInv, BodiesKnown, Reported
  <2>3. IsSequence(Entered)
    BY <2>2, SequenceIs
  <2>4. AtDatabase \in Seq(Marks \cap AllGiven)
    <3> DEFINE M == { MarkBy("body", x) : x \in Range(Entered) } \cap Marks
    <3>1. AtDatabase \in Seq(M)
      BY <2>3, ItemMarksType DEF AtDatabase
    <3>2. M \subseteq Marks \cap AllGiven
      BY <2>2 DEF MarkBy, FromItsSide, AllGiven
    <3> HIDE DEF M
    <3> QED
      BY <3>1, <3>2, SeqMonotonic
  <2>5. AtConnector \in Seq(Marks \cap AllGiven)
    <3> DEFINE M == { MarkBy("status", x) : x \in Range(statusOut) } \cap Marks
    <3>1. AtConnector \in Seq(M)
      BY <2>1, ItemMarksType DEF AtConnector
    <3>2. M \subseteq Marks \cap AllGiven
      BY <2>1, ConnectorAssumption DEF MarkBy, MarkOfStatus, StatusKnown, FromItsSide, AllGiven
    <3> HIDE DEF M
    <3> QED
      BY <3>1, <3>2, SeqMonotonic
  <2>6. AtCollector \in Seq(Marks \cap AllGiven)
    <3> DEFINE M == { MarkBy("message", x) : x \in Range(statusIn) } \cap Marks
    <3>1. AtCollector \in Seq(M)
      BY <2>1, ItemMarksType DEF AtCollector
    <3>2. M \subseteq Marks \cap AllGiven
      BY <2>1 DEF MarkBy, MessageKnown, AllGiven
    <3> HIDE DEF M
    <3> QED
      BY <3>1, <3>2, SeqMonotonic
  <2>7. OnStream \in Seq(Marks \cap Range(given["tx"]))
    <3> DEFINE M == { MarkBy("sample", x) : x \in Range(stream) } \cap Marks
    <3>1. OnStream \in Seq(M)
      BY <2>1, ItemMarksType DEF OnStream
    <3>2. ASSUME NEW x \in Range(stream), MarkBy("sample", x) \in Marks
          PROVE  MarkBy("sample", x) \in Range(given["tx"])
      <4>1. PICK mark \in AnyMark : x \in SampleKinds(mark) /\ (mark \in Marks => mark \in Range(given["tx"]))
        BY <2>1 DEF SampleKnown
      <4>2. MarkOfSample(x) = mark
        BY <4>1, SampleFacts
      <4> QED
        BY <3>2, <4>1, <4>2 DEF MarkBy
    <3>3. M \subseteq Marks \cap Range(given["tx"])
      BY <3>2
    <3> HIDE DEF M
    <3> QED
      BY <3>1, <3>3, SeqMonotonic
  <2> QED
    BY <2>4, <2>5, <2>6, <2>7
<1> QED
  BY <1>1
-----------------------------------------------------------------------------
\* The row has what was given, in the order of each side, if there is a database.
Kept ==
    available => \A direction \in {"tx", "rx"} : Only(Row, Range(given[direction])) = given[direction]

LEMMA KeptStays == Kept /\ Row' = Row /\ given' = given /\ available' = available => Kept'
BY DEF Kept

\* A new item between two parts.
LEMMA OnlyBetween ==
    \A X, set, s, t, x : s \in Seq(X) /\ t \in Seq(X) /\ x \in X =>
        Only((s \o <<x>>) \o t, set) = (Only(s, set) \o Only(<<x>>, set)) \o Only(t, set)
<1>1. ASSUME NEW X, NEW set, NEW s, NEW t, NEW x, s \in Seq(X), t \in Seq(X), x \in X
      PROVE  Only((s \o <<x>>) \o t, set) = (Only(s, set) \o Only(<<x>>, set)) \o Only(t, set)
  <2> DEFINE one == <<x>>
  <2>1. one \in Seq(X) /\ s \in Seq(X) /\ t \in Seq(X)
    BY <1>1
  <2> HIDE DEF one
  <2>2. s \o one \in Seq(X)
    BY <2>1, ConcatProperties
  <2>3. Only((s \o one) \o t, set) = Only(s \o one, set) \o Only(t, set)
    BY <2>1, <2>2, OnlyConcat
  <2>4. Only(s \o one, set) = Only(s, set) \o Only(one, set)
    BY <2>1, OnlyConcat
  <2> QED
    BY <2>3, <2>4 DEF one
<1> QED
  BY <1>1

\* A fresh mark goes behind all of its side.
LEMMA RowGrows ==
    ASSUME PipelineInv, Kept, available' = available,
           NEW direction \in {"tx", "rx"}, NEW mark \in Marks, mark \notin AllGiven,
           given' = [given EXCEPT ![direction] = Append(given[direction], mark)],
           NEW before \in Seq(AllGiven), NEW after \in Seq(AllGiven \ Range(given[direction])),
           Row = before \o after, Row' = (before \o <<mark>>) \o after
    PROVE  Kept'
<1> DEFINE X == AllGiven \cup {mark}
           one == <<mark>>
<1>1. SUFFICES ASSUME available, NEW d \in {"tx", "rx"}
               PROVE  Only(Row', Range(given'[d])) = given'[d]
  BY DEF Kept
<1> DEFINE R == Range(given[d])
           more == Range(given'[d])
<1>2. /\ given = [tx |-> given["tx"], rx |-> given["rx"]]
      /\ given["tx"] \in Seq(Marks) /\ given["rx"] \in Seq(Marks) /\ R \subseteq AllGiven
  BY DEF PipelineInv, GivenOnce, AllGiven
<1>3. Only(Row, R) = given[d]
  BY <1>1 DEF Kept
<1>4. before \in Seq(X) /\ after \in Seq(X) /\ mark \in X /\ after \in Seq(AllGiven)
  <2>1. AllGiven \subseteq X /\ AllGiven \ Range(given[direction]) \subseteq X
        /\ AllGiven \ Range(given[direction]) \subseteq AllGiven /\ mark \in X
    OBVIOUS
  <2> HIDE DEF X
  <2> QED
    BY <2>1, SeqMonotonic
<1> HIDE DEF X
<1>5. Only(before \o after, R) = Only(before, R) \o Only(after, R)
  BY <1>4, OnlyConcat
<1>6. Only((before \o one) \o after, more) =
          (Only(before, more) \o (IF mark \in more THEN one ELSE <<>>)) \o Only(after, more)
  <2> HIDE DEF more, R
  <2>1. Only((before \o <<mark>>) \o after, more) =
            (Only(before, more) \o Only(<<mark>>, more)) \o Only(after, more)
    BY <1>4, OnlyBetween
  <2> QED
    BY <2>1, OnlyOfOne
<1>7. Only(before, R) \in Seq(AllGiven \cap R) /\ IsSequence(Only(before, R))
  BY OnlyType, SequenceIs
<1>8. CASE d = direction
  <2>1. given'[d] = Append(given[d], mark) /\ IsSequence(given[d])
    BY <1>2, <1>8, SequenceIs
  <2>2. more = R \cup {mark}
    BY <2>1, RangeAppend
  <2>3. Only(before, more) = Only(before, R)
    <3>1. DOMAIN before = 1 .. Len(before) /\ \A i \in DOMAIN before : before[i] \in AllGiven
      OBVIOUS
    <3>2. \A i \in DOMAIN before : before[i] \in more <=> before[i] \in R
      BY <2>2, <3>1
    <3> HIDE DEF more, R
    <3> QED
      BY <3>2, OnlySame
  <2>4. Only(after, more) = <<>> /\ Only(after, R) = <<>>
    <3> DEFINE rest == AllGiven \ Range(given[direction])
    <3>1. rest \cap more = {} /\ rest \cap R = {} /\ after \in Seq(rest)
      BY <1>8, <2>2
    <3> HIDE DEF rest, more, R
    <3> QED
      BY <3>1, OnlyNothing
  <2>5. Only(before, R) = given[d]
    <3>1. Only(before, R) \o <<>> = Only(before, R)
      BY <1>7, ConcatEmptySeq
    <3> QED
      BY <1>3, <1>5, <2>4, <3>1
  <2>6. mark \in more /\ IsSequence(given[d] \o one) /\ Append(given[d], mark) = given[d] \o one
    <3>1. IsSequence(one)
      BY RangeOne
    <3> QED
      BY <2>1, <2>2, <3>1, RangeConcat, AddedAtEnd
  <2>7. (given[d] \o one) \o <<>> = given[d] \o one
    <3> DEFINE all == given[d] \o one
    <3>1. all \in Seq(Range(all))
      BY <2>6 DEF IsSequence
    <3> HIDE DEF all
    <3>2. all \o <<>> = all
      BY <3>1, ConcatEmptySeq
    <3> QED
      BY <3>2 DEF all
  <2> HIDE DEF more, R, one
  <2> QED
    BY <1>6, <2>1, <2>3, <2>4, <2>5, <2>6, <2>7 DEF more, one
<1>9. CASE d # direction
  <2>1. given'[d] = given[d]
    BY <1>2, <1>9
  <2>2. more = R /\ mark \notin more
    BY <1>2, <2>1
  <2>3. Only(before, R) \o <<>> = Only(before, R)
    BY <1>7, ConcatEmptySeq
  <2> HIDE DEF more, R, one
  <2> QED
    BY <1>3, <1>5, <1>6, <2>1, <2>2, <2>3 DEF more, one
<1> QED
  BY <1>8, <1>9
-----------------------------------------------------------------------------
\* A part moves from the end of one sequence to the front of the next.
Then(s, t) == s \o t

LEMMA Shift ==
    \A S : \A x, c, p, d \in Seq(S) : Then(Then(x, Then(c, p)), d) = Then(Then(x, c), Then(p, d))
<1> TAKE S
<1> TAKE x, c, p, d \in Seq(S)
<1>1. x \o (c \o p) = (x \o c) \o p
  BY ConcatAssociative, SMTT(30)
<1>2. x \o c \in Seq(S)
  BY ConcatProperties
<1>3. ((x \o c) \o p) \o d = (x \o c) \o (p \o d)
  BY <1>2, ConcatAssociative, SMTT(30)
<1> QED
  BY <1>1, <1>3 DEF Then

LEMMA ItemMarksInMarks == \A kind, s : IsSequence(s) => ItemMarks(kind, s) \in Seq(Marks)
<1>1. ASSUME NEW kind, NEW s, IsSequence(s) PROVE ItemMarks(kind, s) \in Seq(Marks)
  <2> DEFINE M == { MarkBy(kind, x) : x \in Range(s) } \cap Marks
             marks == ItemMarks(kind, s)
  <2>1. marks \in Seq(M)
    BY <1>1, ItemMarksType
  <2>2. M \subseteq Marks
    OBVIOUS
  <2> HIDE DEF M, marks
  <2>3. marks \in Seq(Marks)
    BY <2>1, <2>2, SeqMonotonic
  <2> QED
    BY <2>3 DEF marks
<1> QED
  BY <1>1

LEMMA RowInMarks ==
    PipelineInv => /\ AtDatabase \in Seq(Marks) /\ AtConnector \in Seq(Marks)
                   /\ AtCollector \in Seq(Marks) /\ OnStream \in Seq(Marks)
<1>1. Marks \cap AllGiven \subseteq Marks /\ Marks \cap Range(given["tx"]) \subseteq Marks
  OBVIOUS
<1> QED
  BY <1>1, RowTypes, SeqMonotonic

\* A message of one queue goes to the next with its mark, if it has one.
LEMMA ReadTagsMoves == PipelineInv /\ ReadTags => Row' = Row
<1>1. ASSUME PipelineInv, ReadTags PROVE Row' = Row
  <2>1. PICK n \in 1 .. Len(stream) : \E dicts \in WorkMayPublish(SubSeq(stream, 1, n)) :
           /\ statusIn' = statusIn \o Messages(dicts)
           /\ stream' = SubSeq(stream, n + 1, Len(stream))
    BY <1>1 DEF ReadTags, Messages
  <2> DEFINE front == SubSeq(stream, 1, n)
             rest == SubSeq(stream, n + 1, Len(stream))
  <2>2. PICK dicts \in WorkMayPublish(front) : statusIn' = statusIn \o Messages(dicts) /\ stream' = rest
    BY <2>1
  <2>3. AtDatabase' = AtDatabase /\ AtConnector' = AtConnector
    BY <1>1 DEF ReadTags, connectorVars, AtDatabase, AtConnector, Entered
  <2>4. QueuesKnown /\ IsSequence(statusIn)
    BY <1>1 DEF PipelineInv, QueuesKnown
  <2>5. IsSequence(front) /\ IsSequence(rest) /\ stream = front \o rest /\ Known(front)
    BY <2>4, ReadPart
  <2> HIDE DEF front, rest
  <2>6. IsSequence(dicts) /\ MarksIn(dicts) = MarksOf(front, MarkOfSample)
    BY <2>2, <2>5, ReadFacts
  <2> DEFINE moved == ItemMarks("message", Messages(dicts))
  <2>7. moved = MarksIn(dicts)
    BY DEF ItemMarks, MarksBy, MarkBy, MarksIn, Messages
  <2>8. ItemMarks("sample", front) = MarksOf(front, MarkOfSample)
    BY DEF ItemMarks, MarksBy, MarkBy, MarksOf
  <2>9. IsSequence(Messages(dicts))
    BY <2>6, MessagesFacts
  <2>10. AtCollector' = AtCollector \o moved
    BY <2>2, <2>4, <2>9, ItemMarksConcat DEF AtCollector
  <2>11. OnStream = moved \o OnStream'
    <3>1. ItemMarks("sample", front \o rest) = ItemMarks("sample", front) \o ItemMarks("sample", rest)
      BY <2>5, ItemMarksConcat
    <3> QED
      BY <2>2, <2>5, <2>6, <2>7, <2>8, <3>1 DEF OnStream
  <2>12. moved \in Seq(Marks)
    BY <2>9, ItemMarksInMarks
  <2>13. OnStream' \in Seq(Marks)
    BY <2>2, <2>5, ItemMarksInMarks DEF OnStream
  <2> HIDE DEF moved
  <2> DEFINE x == AtDatabase \o AtConnector
             c == AtCollector
             d == OnStream'
  <2>14. x \in Seq(Marks) /\ c \in Seq(Marks) /\ d \in Seq(Marks)
    BY <1>1, <2>13, RowInMarks, ConcatProperties
  <2>15. Row' = (x \o (c \o moved)) \o d /\ Row = (x \o c) \o (moved \o d)
    BY <2>3, <2>10, <2>11 DEF Row
  <2> HIDE DEF x, c, d
  <2> QED
    <3>1. moved \in Seq(Marks) /\ x \in Seq(Marks) /\ c \in Seq(Marks) /\ d \in Seq(Marks)
      BY <2>12, <2>14
    <3>2. Then(Then(x, Then(c, moved)), d) = Then(Then(x, c), Then(moved, d))
      BY <3>1, Shift
    <3> QED
      BY <2>15, <3>2 DEF Then
<1> QED
  BY <1>1

LEMMA CollectMoves == PipelineInv /\ Collect => Row' = Row
<1>1. ASSUME PipelineInv, Collect PROVE Row' = Row
  <2> DEFINE msg == Head(statusIn)
             rest == Tail(statusIn)
             status == Collected(msg)
             moved == ItemMarks("message", <<msg>>)
  <2>1. statusIn # <<>> /\ statusOut' = Append(statusOut, status) /\ statusIn' = rest
    BY <1>1 DEF Collect
  <2>2. AtDatabase' = AtDatabase /\ OnStream' = OnStream
    BY <1>1 DEF Collect, connectorVars, AtDatabase, OnStream, Entered
  <2>3. /\ IsSequence(statusIn) /\ IsSequence(statusOut)
        /\ \A m \in Range(statusIn) : MessageKnown(m)
    BY <1>1 DEF PipelineInv, QueuesKnown
  <2>4. msg \in Range(statusIn) /\ IsSequence(rest) /\ statusIn = <<msg>> \o rest
    BY <2>1, <2>3, HeadThenTail
  <2>5. MessageKnown(msg)
    BY <2>3, <2>4
  <2>6. MarkBy("message", msg) = msg.fields.mark
    BY DEF MarkBy
  <2>7. MarkBy("status", status) = MarkOfStatus(status)
    BY DEF MarkBy
  <2>8. MarkOfStatus(status) \in Marks \/ msg.fields.mark \in Marks => MarkOfStatus(status) = msg.fields.mark
    BY <2>5, CollectedFacts
  <2> HIDE DEF msg, rest, status
  <2>9. moved = IF msg.fields.mark \in Marks THEN <<msg.fields.mark>> ELSE <<>>
    BY <2>6, ItemMarksOne
  <2>10. ItemMarks("status", Append(statusOut, status)) = AtConnector \o moved
    <3>1. ItemMarks("status", Append(statusOut, status)) =
              AtConnector \o (IF MarkOfStatus(status) \in Marks THEN <<MarkOfStatus(status)>> ELSE <<>>)
      BY <2>3, <2>7, ItemMarksAppend DEF AtConnector
    <3>2. (IF MarkOfStatus(status) \in Marks THEN <<MarkOfStatus(status)>> ELSE <<>>) = moved
      <4> HIDE DEF moved
      <4> QED
        BY <2>8, <2>9
    <3> QED
      BY <3>1, <3>2
  <2>11. AtConnector' = AtConnector \o moved
    BY <2>1, <2>10 DEF AtConnector
  <2>12. AtCollector = moved \o AtCollector'
    <3>1. IsSequence(<<msg>>)
      BY RangeOne
    <3>2. ItemMarks("message", <<msg>> \o rest) = moved \o ItemMarks("message", rest)
      BY <2>4, <3>1, ItemMarksConcat
    <3> HIDE DEF moved
    <3> QED
      BY <2>1, <2>4, <3>2 DEF AtCollector
  <2>13. moved \in Seq(Marks)
    <3>1. \A X : <<>> \in Seq(X) /\ \A y \in X : <<y>> \in Seq(X)
      OBVIOUS
    <3> HIDE DEF moved
    <3> QED
      BY <2>9, <3>1
  <2>14. AtCollector' \in Seq(Marks)
    BY <2>1, <2>4, ItemMarksInMarks DEF AtCollector
  <2> HIDE DEF moved
  <2> DEFINE x == AtDatabase
             c == AtConnector
             d == AtCollector'
  <2>15. x \in Seq(Marks) /\ c \in Seq(Marks) /\ d \in Seq(Marks)
    BY <1>1, <2>14, RowInMarks
  <2>16. /\ Row' = ((x \o (c \o moved)) \o d) \o OnStream
         /\ Row = ((x \o c) \o (moved \o d)) \o OnStream
    BY <2>2, <2>11, <2>12 DEF Row
  <2> HIDE DEF x, c, d
  <2>17. (x \o (c \o moved)) \o d = (x \o c) \o (moved \o d)
    <3>1. moved \in Seq(Marks) /\ x \in Seq(Marks) /\ c \in Seq(Marks) /\ d \in Seq(Marks)
      BY <2>13, <2>15
    <3>2. Then(Then(x, Then(c, moved)), d) = Then(Then(x, c), Then(moved, d))
      BY <3>1, Shift
    <3> QED
      BY <3>2 DEF Then
  <2> QED
    BY <2>16, <2>17
<1> QED
  BY <1>1

LEMMA ConnectMoves == PipelineInv /\ Connect /\ available => Row' = Row
<1>1. ASSUME PipelineInv, Connect, available PROVE Row' = Row
  <2> DEFINE status == Head(statusOut)
             rest == Tail(statusOut)
             moved == ItemMarks("status", <<status>>)
  <2>1. /\ statusOut # <<>> /\ HandleStatus(status) /\ statusOut' = rest
        /\ UNCHANGED <<stream, statusIn, given>>
    BY <1>1 DEF Connect
  <2>2. AtCollector' = AtCollector /\ OnStream' = OnStream
    BY <2>1 DEF AtCollector, OnStream
  <2>3. /\ IsSequence(statusOut) /\ (\A s \in Range(statusOut) : StatusKnown(s))
        /\ BodiesKnown /\ ConnectorKnown
    BY <1>1 DEF PipelineInv, QueuesKnown
  <2>4. status \in Range(statusOut) /\ IsSequence(rest) /\ statusOut = <<status>> \o rest
    BY <2>1, <2>3, HeadThenTail
  <2>5. StatusKnown(status)
    BY <2>3, <2>4
  <2>6. MarkBy("status", status) = MarkOfStatus(status)
    BY DEF MarkBy
  <2> HIDE DEF status, rest
  <2>7. moved = IF MarkOfStatus(status) \in Marks THEN <<MarkOfStatus(status)>> ELSE <<>>
    BY <2>6, ItemMarksOne
  <2>8. AtConnector = moved \o AtConnector'
    <3>1. IsSequence(<<status>>)
      BY RangeOne
    <3>2. ItemMarks("status", <<status>> \o rest) = moved \o ItemMarks("status", rest)
      BY <2>4, <3>1, ItemMarksConcat
    <3> HIDE DEF moved
    <3> QED
      BY <2>1, <2>4, <3>2 DEF AtConnector
  <2>9. moved \in Seq(Marks)
    <3>1. \A X : <<>> \in Seq(X) /\ \A y \in X : <<y>> \in Seq(X)
      OBVIOUS
    <3> HIDE DEF moved
    <3> QED
      BY <2>7, <3>1
  <2>10. running /\ UNCHANGED <<available, additional, up, given>>
    BY <2>1 DEF HandleStatus
  <2>11. AtDatabase' = AtDatabase \o moved
    <3>1. CASE ~status.pair
      <4>1. UNCHANGED <<buffer, stored>>
        BY <1>1, <2>1, <3>1 DEF HandleStatus
      <4>2. AtDatabase' = AtDatabase
        BY <4>1 DEF AtDatabase, Entered
      <4>3. moved = <<>>
        BY <2>7, <3>1, ConnectorAssumption DEF MarkOfStatus
      <4>4. AtDatabase \o <<>> = AtDatabase
        BY <1>1, RowInMarks, ConcatEmptySeq
      <4> QED
        BY <4>2, <4>3, <4>4
    <3>2. CASE status.pair
      <4> DEFINE body == Body(status)
      <4>1. SendToBuffer(body)
        BY <1>1, <2>1, <3>2 DEF HandleStatus
      <4>2. /\ body \in Bodies(AnyMark) /\ body.mark = status.fields.mark
            /\ body.mark \in Marks => FromItsSide(body.mark, body.direction) /\ body.extra = additional
        BY <2>3, <2>5, <3>2, BodyFacts
      <4> HIDE DEF body
      <4>3. Entered' = stored \o Marked(Append(buffer, body))
        BY <2>3, <2>10, <4>1, <4>2, SendKeeps
      <4>4. /\ buffer \in Seq(Bodies(AnyMark)) /\ stored \in Seq(Bodies(Marks))
            /\ Append(buffer, body) \in Seq(Bodies(AnyMark))
        BY <2>3, <4>2, AppendProperties DEF BodiesKnown
      <4> DEFINE bodies == Append(buffer, body)
                 A == ItemMarks("body", stored)
                 B == ItemMarks("body", buffer)
      <4>5. /\ IsSequence(stored) /\ IsSequence(buffer)
            /\ IsSequence(Marked(buffer)) /\ IsSequence(Marked(bodies))
        BY <4>4, MarkedFacts, SequenceIs
      <4>6. MarkBy("body", body) = MarkOfStatus(status)
        BY <3>2, <4>2 DEF MarkBy, MarkOfStatus
      <4>7. ItemMarks("body", bodies) = B \o moved
        BY <2>7, <4>5, <4>6, ItemMarksAppend
      <4>8. ItemMarks("body", Marked(bodies)) = ItemMarks("body", bodies) /\ ItemMarks("body", Marked(buffer)) = B
        BY <4>4, MarkedMarks
      <4>9. AtDatabase = A \o B
        BY <4>5, <4>8, ItemMarksConcat DEF AtDatabase, Entered
      <4>10. ItemMarks("body", stored \o Marked(bodies)) = A \o ItemMarks("body", Marked(bodies))
        BY <4>5, ItemMarksConcat
      <4>11. AtDatabase' = A \o (B \o moved)
        BY <4>3, <4>7, <4>8, <4>10 DEF AtDatabase
      <4>12. A \in Seq(Marks) /\ B \in Seq(Marks)
        BY <4>5, ItemMarksInMarks
      <4> HIDE DEF A, B, moved
      <4>13. A \o (B \o moved) = (A \o B) \o moved
        BY <2>9, <4>12, ConcatAssociative
      <4> QED
        BY <4>9, <4>11, <4>13
    <3> QED
      BY <3>1, <3>2
  <2>12. AtConnector' \in Seq(Marks) /\ AtDatabase \in Seq(Marks)
    BY <1>1, <2>1, <2>4, RowInMarks, ItemMarksInMarks DEF AtConnector
  <2> HIDE DEF moved
  <2>13. (AtDatabase \o moved) \o AtConnector' = AtDatabase \o (moved \o AtConnector')
    <3> DEFINE a == AtDatabase
               b == AtConnector'
    <3> HIDE DEF a, b
    <3>1. a \in Seq(Marks) /\ b \in Seq(Marks)
      BY <2>12 DEF a, b
    <3>2. (a \o moved) \o b = a \o (moved \o b)
      BY <2>9, <3>1, ConcatAssociative, SMTT(30)
    <3> QED
      BY <3>2 DEF a, b
  <2> QED
    BY <2>2, <2>8, <2>11, <2>13 DEF Row
<1> QED
  BY <1>1
-----------------------------------------------------------------------------
LEMMA RowInGiven ==
    PipelineInv => /\ AtDatabase \in Seq(AllGiven) /\ AtConnector \in Seq(AllGiven)
                   /\ AtCollector \in Seq(AllGiven)
                   /\ OnStream \in Seq(AllGiven) /\ OnStream \in Seq(AllGiven \ Range(given["rx"]))
<1>1. ASSUME PipelineInv
      PROVE  /\ AtDatabase \in Seq(AllGiven) /\ AtConnector \in Seq(AllGiven)
             /\ AtCollector \in Seq(AllGiven)
             /\ OnStream \in Seq(AllGiven) /\ OnStream \in Seq(AllGiven \ Range(given["rx"]))
  <2>1. Range(given["tx"]) \cap Range(given["rx"]) = {}
    BY <1>1 DEF PipelineInv, GivenOnce
  <2> DEFINE M == Marks \cap AllGiven
             T == Marks \cap Range(given["tx"])
             rest == AllGiven \ Range(given["rx"])
  <2>2. M \subseteq AllGiven /\ T \subseteq AllGiven /\ T \subseteq rest
    BY <2>1 DEF AllGiven
  <2>3. AtDatabase \in Seq(M) /\ AtConnector \in Seq(M) /\ AtCollector \in Seq(M) /\ OnStream \in Seq(T)
    BY <1>1, RowTypes
  <2> HIDE DEF M, T, rest
  <2>4. AtDatabase \in Seq(AllGiven) /\ AtConnector \in Seq(AllGiven) /\ AtCollector \in Seq(AllGiven)
    BY <2>2, <2>3, SeqMonotonic
  <2>5. OnStream \in Seq(AllGiven) /\ OnStream \in Seq(rest)
    BY <2>2, <2>3, SeqMonotonic
  <2> QED
    BY <2>4, <2>5 DEF rest
<1> QED
  BY <1>1

LEMMA ProduceKept == PipelineInv /\ Kept /\ Produce => Kept'
<1>1. ASSUME PipelineInv, Kept, Produce PROVE Kept'
  <2>1. PICK mark \in Fresh : \E sample \in SampleKinds(mark) : stream' = Append(stream, sample) /\ Note("tx", mark)
    BY <1>1 DEF Produce
  <2>2. PICK sample \in SampleKinds(mark) : stream' = Append(stream, sample) /\ Note("tx", mark)
    BY <2>1
  <2>3. AtDatabase' = AtDatabase /\ AtConnector' = AtConnector /\ AtCollector' = AtCollector /\ available' = available
    BY <1>1 DEF Produce, connectorVars, AtDatabase, AtConnector, AtCollector, Entered
  <2>4. /\ mark \in AnyMark
        /\ mark \notin Marks => given' = given
        /\ mark \in Marks => /\ mark \notin AllGiven
                             /\ given' = [given EXCEPT !["tx"] = Append(given["tx"], mark)]
    BY <1>1, <2>2, NoteFacts DEF PipelineInv, AllGiven
  <2>5. MarkBy("sample", sample) = mark
    BY <2>4, SampleFacts DEF MarkBy
  <2>6. OnStream' = OnStream \o (IF mark \in Marks THEN <<mark>> ELSE <<>>)
    <3>1. IsSequence(stream)
      BY <1>1 DEF PipelineInv, QueuesKnown
    <3> QED
      BY <2>2, <2>5, <3>1, ItemMarksAppend DEF OnStream
  <2>7. /\ AtDatabase \in Seq(AllGiven) /\ AtConnector \in Seq(AllGiven)
        /\ AtCollector \in Seq(AllGiven) /\ OnStream \in Seq(AllGiven)
    BY <1>1, RowInGiven
  <2>8. CASE mark \notin Marks
    <3>1. OnStream' = OnStream
      BY <2>6, <2>7, <2>8, ConcatEmptySeq
    <3>2. Row' = Row
      BY <2>3, <3>1 DEF Row
    <3> QED
      BY <1>1, <2>3, <2>4, <2>8, <3>2, KeptStays
  <2>9. CASE mark \in Marks
    <3> DEFINE X == AllGiven \cup {mark}
               one == <<mark>>
               before == (AtDatabase \o AtConnector) \o AtCollector
    <3>1. AllGiven \subseteq X /\ one \in Seq(X)
      OBVIOUS
    <3>2. before \in Seq(AllGiven)
      <4>1. AtDatabase \o AtConnector \in Seq(AllGiven)
        BY <2>7, ConcatProperties
      <4> QED
        BY <2>7, <4>1, ConcatProperties
    <3>3. Row = before \o OnStream /\ Row' = before \o (OnStream \o one)
      BY <2>3, <2>6, <2>9 DEF Row
    <3> HIDE DEF X, one, before
    <3>4. before \in Seq(X) /\ OnStream \in Seq(X)
      BY <2>7, <3>1, <3>2, SeqMonotonic
    <3>5. Row \in Seq(AllGiven)
      BY <2>7, <3>2, <3>3, ConcatProperties
    <3>6. before \o (OnStream \o one) = (before \o OnStream) \o one
      BY <3>1, <3>4, ConcatAssociative
    <3>7. Row' = Row \o one
      BY <3>3, <3>6
    <3>8. Row = Row \o <<>> /\ <<>> \in Seq(AllGiven \ Range(given["tx"]))
      BY <3>5, ConcatEmptySeq, EmptySeq
    <3>9. Row' = (Row \o one) \o <<>>
      <4>1. Row \in Seq(X)
        BY <3>1, <3>5, SeqMonotonic
      <4>2. Row \o one \in Seq(X)
        BY <3>1, <4>1, ConcatProperties
      <4>3. (Row \o one) \o <<>> = Row \o one
        BY <4>2, ConcatEmptySeq
      <4> QED
        BY <3>7, <4>3
    <3> QED
      BY <1>1, <2>3, <2>4, <2>9, <3>5, <3>8, <3>9, RowGrows DEF one
  <2> QED
    BY <2>8, <2>9
<1> QED
  BY <1>1

LEMMA ReportPduKept == PipelineInv /\ Kept /\ ReportPdu => Kept'
<1>1. ASSUME PipelineInv, Kept, ReportPdu PROVE Kept'
  <2> DEFINE Msg(mark) == [shape |-> "pdu", fields |-> [mark |-> mark]]
  <2>1. PICK mark \in Fresh : statusIn' = Append(statusIn, Msg(mark)) /\ Note("rx", mark)
    BY <1>1 DEF ReportPdu
  <2> DEFINE msg == Msg(mark)
  <2>2. AtDatabase' = AtDatabase /\ AtConnector' = AtConnector /\ OnStream' = OnStream /\ available' = available
    BY <1>1 DEF ReportPdu, connectorVars, AtDatabase, AtConnector, OnStream, Entered
  <2>3. /\ mark \notin Marks => given' = given
        /\ mark \in Marks => /\ mark \notin AllGiven
                             /\ given' = [given EXCEPT !["rx"] = Append(given["rx"], mark)]
    BY <1>1, <2>1, NoteFacts DEF PipelineInv, AllGiven
  <2>4. MarkBy("message", msg) = mark
    BY DEF MarkBy
  <2>5. AtCollector' = AtCollector \o (IF mark \in Marks THEN <<mark>> ELSE <<>>)
    <3>1. IsSequence(statusIn)
      BY <1>1 DEF PipelineInv, QueuesKnown
    <3>2. statusIn' = Append(statusIn, msg)
      BY <2>1
    <3> HIDE DEF msg
    <3> QED
      BY <2>4, <3>1, <3>2, ItemMarksAppend DEF AtCollector
  <2> HIDE DEF msg
  <2>6. /\ AtDatabase \in Seq(AllGiven) /\ AtConnector \in Seq(AllGiven)
        /\ AtCollector \in Seq(AllGiven) /\ OnStream \in Seq(AllGiven \ Range(given["rx"]))
    BY <1>1, RowInGiven
  <2>7. CASE mark \notin Marks
    <3>1. AtCollector' = AtCollector
      BY <2>5, <2>6, <2>7, ConcatEmptySeq
    <3>2. Row' = Row
      BY <2>2, <3>1 DEF Row
    <3> QED
      BY <1>1, <2>2, <2>3, <2>7, <3>2, KeptStays
  <2>8. CASE mark \in Marks
    <3> DEFINE X == AllGiven \cup {mark}
               one == <<mark>>
               first == AtDatabase \o AtConnector
               before == first \o AtCollector
    <3>1. AllGiven \subseteq X /\ one \in Seq(X)
      OBVIOUS
    <3>2. first \in Seq(AllGiven)
      BY <2>6, ConcatProperties
    <3>3. Row = before \o OnStream /\ Row' = (first \o (AtCollector \o one)) \o OnStream
      BY <2>2, <2>5, <2>8 DEF Row
    <3> HIDE DEF X, one, first
    <3>4. before \in Seq(AllGiven)
      BY <2>6, <3>2, ConcatProperties
    <3>5. first \in Seq(X) /\ AtCollector \in Seq(X)
      BY <2>6, <3>1, <3>2, SeqMonotonic
    <3>6. first \o (AtCollector \o one) = before \o one
      BY <3>1, <3>5, ConcatAssociative, SMTT(30)
    <3>7. Row' = (before \o one) \o OnStream
      BY <3>3, <3>6
    <3> HIDE DEF before
    <3> QED
      BY <1>1, <2>2, <2>3, <2>6, <2>8, <3>3, <3>4, <3>7, RowGrows DEF one
  <2> QED
    BY <2>7, <2>8
<1> QED
  BY <1>1

LEMMA ReportOtherMoves == PipelineInv /\ ReportOther => Row' = Row
<1>1. ASSUME PipelineInv, ReportOther PROVE Row' = Row
  <2>1. PICK shape \in OtherShapes : statusIn' = Append(statusIn, [shape |-> shape, fields |-> [mark |-> Plain]])
    BY <1>1 DEF ReportOther
  <2> DEFINE msg == [shape |-> shape, fields |-> [mark |-> Plain]]
  <2>2. AtDatabase' = AtDatabase /\ AtConnector' = AtConnector /\ OnStream' = OnStream
    BY <1>1 DEF ReportOther, connectorVars, AtDatabase, AtConnector, OnStream, Entered
  <2>3. MarkBy("message", msg) \notin Marks
    BY ConnectorAssumption DEF MarkBy
  <2>4. statusIn' = Append(statusIn, msg) /\ IsSequence(statusIn)
    BY <1>1, <2>1 DEF PipelineInv, QueuesKnown
  <2> HIDE DEF msg
  <2>5. AtCollector' = AtCollector \o <<>>
    BY <2>3, <2>4, ItemMarksAppend DEF AtCollector
  <2>6. AtCollector \o <<>> = AtCollector
    BY <1>1, RowInMarks, ConcatEmptySeq
  <2> QED
    BY <2>2, <2>5, <2>6 DEF Row
<1> QED
  BY <1>1

LEMMA ElseStays == UNCHANGED <<stored, buffer, statusOut, statusIn, stream>> => Row' = Row
BY DEF Row, AtDatabase, AtConnector, AtCollector, OnStream, Entered

LEMMA InitKept == PipelineInit => Kept
<1>1. ASSUME PipelineInit PROVE Kept
  <2>1. /\ buffer = <<>> /\ stored = <<>> /\ stream = <<>> /\ statusIn = <<>> /\ statusOut = <<>>
        /\ given = [tx |-> <<>>, rx |-> <<>>]
    BY <1>1 DEF PipelineInit, ConnectorInit
  <2>2. <<>> \o <<>> = <<>>
    OBVIOUS
  <2>3. Entered = <<>>
    <3>1. Marked(buffer) = <<>>
      BY <2>1, OnlyOfNone DEF Marked
    <3> QED
      BY <2>1, <2>2, <3>1 DEF Entered
  <2>4. Row = <<>>
    BY <2>1, <2>2, <2>3, ItemMarksNone DEF Row, AtDatabase, AtConnector, AtCollector, OnStream
  <2> QED
    BY <2>1, <2>4, OnlyOfNone DEF Kept
<1> QED
  BY <1>1

LEMMA StepKept == PipelineInv /\ Kept /\ [PipelineNext]_pipelineVars => Kept'
<1>1. ASSUME PipelineInv, Kept, [PipelineNext]_pipelineVars PROVE Kept'
  <2>1. CASE Produce
    BY <1>1, <2>1, ProduceKept
  <2>2. CASE ReadTags
    <3>1. given' = given /\ available' = available
      BY <2>2 DEF ReadTags, connectorVars
    <3> QED
      BY <1>1, <2>2, <3>1, ReadTagsMoves, KeptStays
  <2>3. CASE ReportPdu
    BY <1>1, <2>3, ReportPduKept
  <2>4. CASE ReportOther
    <3>1. given' = given /\ available' = available
      BY <2>4 DEF ReportOther, connectorVars
    <3> QED
      BY <1>1, <2>4, <3>1, ReportOtherMoves, KeptStays
  <2>5. CASE Collect
    <3>1. given' = given /\ available' = available
      BY <2>5 DEF Collect, connectorVars
    <3> QED
      BY <1>1, <2>5, <3>1, CollectMoves, KeptStays
  <2>6. CASE Connect
    <3>1. given' = given /\ available' = available
      BY <2>6 DEF Connect, HandleStatus
    <3>2. CASE available
      BY <1>1, <2>6, <3>1, <3>2, ConnectMoves, KeptStays
    <3>3. CASE ~available
      BY <3>1, <3>3 DEF Kept
    <3> QED
      BY <3>2, <3>3
  <2>7. CASE ConnectorEnvironment
    <3>1. UNCHANGED <<stored, buffer, statusOut, statusIn, stream, given, available>>
      BY <2>7 DEF ConnectorEnvironment, UpdateAdditionalData, Grow, DatabaseChange
    <3> QED
      BY <1>1, <3>1, ElseStays, KeptStays
  <2>8. CASE UNCHANGED pipelineVars
    <3>1. UNCHANGED <<stored, buffer, statusOut, statusIn, stream, given, available>>
      BY <2>8 DEF pipelineVars, connectorVars
    <3> QED
      BY <1>1, <3>1, ElseStays, KeptStays
  <2> QED
    BY <1>1, <2>1, <2>2, <2>3, <2>4, <2>5, <2>6, <2>7, <2>8 DEF PipelineNext
<1> QED
  BY <1>1

LEMMA KeptIsNotLost == PipelineInv /\ Kept => NoStatusLost
BY RowIsPipeline DEF Kept, NoStatusLost, From

\* If there is a database at the start, nothing that was reported is lost, doubled or
\* overtaken on its side: for all samples and orders of their tags, wherever the stream is
\* cut, in all interleavings of the threads, for any size of the buffer and any age at
\* which it is flushed, and after a flush that failed
\* (tags_to_msg_dict_impl.cc:36-67, status_collector_impl.cc:117-149,
\* elasticsearch_connector.py:110-151).
THEOREM NoStatusEverLost == PipelineSpec => []NoStatusLost
<1>1. PipelineInit => PipelineInv /\ Kept
  BY InitKnown, InitKept
<1>2. (PipelineInv /\ Kept) /\ [PipelineNext]_pipelineVars => (PipelineInv /\ Kept)'
  BY StepKeeps, StepKept
<1>3. PipelineInv /\ Kept => NoStatusLost
  BY KeptIsNotLost
<1> QED
  BY <1>1, <1>2, <1>3, PTL DEF PipelineSpec
=============================================================================
