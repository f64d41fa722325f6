--------------------------- MODULE TagToStreamValue ---------------------------
(***************************************************************************)
(* The block that makes a stream of the values of tags                     *)
(* (lib/tag_to_stream_value_impl.cc).  It keeps nothing between two calls  *)
(* of general_work, so that a behaviour is a sequence of unrelated calls.  *)
(* A sample is the sequence of its tags with the block's key; a tag's      *)
(* value, looked up in its dictionary if it is one, is one number, a       *)
(* vector of the block's type, or a vector of another type.                *)
(***************************************************************************)
EXTENDS Integers, Sequences, SequencesExt

CONSTANTS
    Values,       \* what a number or an element of a vector may be
    Samples,      \* samples that may come
    MaxInput,     \* bound: ninput_items
    MaxOutput     \* bound: noutput_items

\* What get_tag_value may find: a number is of the block's type, and is one.
Tags == { t \in [vector : BOOLEAN, type : BOOLEAN, of : Seq(Values)] :
            t.vector \/ (t.type /\ Len(t.of) = 1) }

ASSUME StreamValueAssumption ==
    /\ Samples \subseteq Seq(Tags)
    /\ MaxInput \in Nat /\ MaxOutput \in Nat \ {0}

VARIABLE call     \* the last call: what it read, how much it might write, what it wrote

Stale == "stale"  \* what the output buffer held before

\* A call before its loop.
Begin(read, room) ==
    [read |-> read, room |-> room, produced |-> 0, full |-> FALSE, out |-> [i \in 1 .. room |-> Stale]]

Number(v) == [vector |-> FALSE, type |-> TRUE, of |-> <<v>>]
Vector(s) == [vector |-> TRUE, type |-> TRUE, of |-> s]
OtherVector(s) == [vector |-> TRUE, type |-> FALSE, of |-> s]

\* Values written from a place in the output buffer on; the buffer grows where the
\* memory behind it would be written.
Write(out, at, values) ==
    [i \in 1 .. (IF at + Len(values) > Len(out) THEN at + Len(values) ELSE Len(out)) |->
        IF i \in at + 1 .. at + Len(values) THEN values[i - at] ELSE out[i]]

\* Mutant: a vector is written without a look at the room that is left.
TagWithoutRoomCheck(c, tag) ==
    LET produced == c.produced + Len(tag.of) IN
    IF c.full \/ ~tag.type THEN c
    ELSE [c EXCEPT !.out = Write(c.out, IF tag.vector THEN 0 ELSE c.produced, tag.of),
                   !.produced = produced, !.full = produced >= c.room]

\* One turn of the loop: a vector goes to the start of the buffer, a number behind what
\* was produced; the loop ends when the next vector does not fit or the room is used up.
TurnTag(c, tag) ==
    LET produced == c.produced + Len(tag.of) IN
    IF c.full \/ ~tag.type THEN c
    ELSE IF tag.vector /\ produced > c.room THEN [c EXCEPT !.full = TRUE]
    ELSE [c EXCEPT !.out = Write(c.out, IF tag.vector THEN 0 ELSE c.produced, tag.of),
                   !.produced = produced, !.full = produced >= c.room]

\* Mutant: the tags of all samples at the input, not only of those consumed.
ConsumedAll(samples, room) == samples

\* The samples that a call consumes.
Consumed(samples, room) ==
    SubSeq(samples, 1, IF room < Len(samples) THEN room ELSE Len(samples))

\* general_work with room for that many values.
Work(samples, room) ==
    LET read == Consumed(samples, room)
        tags == FlattenSeq(read)
        loop[i \in 0 .. Len(tags)] ==
            IF i = 0 THEN Begin(read, room) ELSE TurnTag(loop[i - 1], tags[i])
    IN  loop[Len(tags)]

StreamValueInit == call = Begin(<<>>, MaxOutput)

CallWork ==
    \E n \in 1 .. MaxInput : \E samples \in [1 .. n -> Samples], room \in 1 .. MaxOutput :
        call' = Work(samples, room)

StreamValueSpec == StreamValueInit /\ [][CallWork]_call
-----------------------------------------------------------------------------
\* The values of the tags read, in their order.
Wanted == FlattenSeq([i \in DOMAIN FlattenSeq(call.read) |-> FlattenSeq(call.read)[i].of])

\* A call never writes behind its output buffer nor returns more than its room, whatever
\* numbers and vectors come and wherever the scheduler cuts (cc:142, 152, 160, 172).
WithinOutput == Len(call.out) = call.room /\ call.produced <= call.room

\* With at most one number per sample, no value is lost or moved however the scheduler cuts
\* the stream and however little room there is, although the loop may end early and all
\* input is consumed; a single vector that fits is returned whole (cc:126-182).
ValuesComplete ==
    \/ \A i \in DOMAIN call.read : Len(call.read[i]) <= 1 /\ \A t \in Range(call.read[i]) : ~t.vector
    \/ Len(FlattenSeq(call.read)) = 1 /\ Head(FlattenSeq(call.read)).type /\ Len(Wanted) <= call.room
    => SubSeq(call.out, 1, call.produced) = Wanted
=============================================================================
