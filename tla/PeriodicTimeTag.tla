--------------------------- MODULE PeriodicTimeTag ---------------------------
(***************************************************************************)
(* The block that tags every d_tag_interval-th sample with its time and    *)
(* publishes slot information (lib/periodic_time_tag_cc_impl.cc).  The     *)
(* scheduler calls work with as many samples as it likes; the receiver may *)
(* put rx_time and rx_rate tags on any sample.  A call is modelled turn by *)
(* turn of its two loops.                                                  *)
(*                                                                         *)
(* Time is counted in samples: d_frac_secs is a number of sample periods,  *)
(* and rounding of the floating point sums is left out.                    *)
(***************************************************************************)
EXTENDS Integers, Sequences

CONSTANTS
    SampRate,      \* samples per second
    TagInterval,   \* d_tag_interval
    ChunkSizes,    \* numbers of samples of one call of work
    RxTimes,       \* times of rx_time tags: pairs <<full seconds, samples>>
    MaxItems       \* bound: samples processed

ASSUME TimeTagAssumption ==
    /\ SampRate \in Nat \ {0} /\ TagInterval \in Nat \ {0}
    /\ ChunkSizes \subseteq Nat \ {0}
    /\ RxTimes \subseteq Nat \X (0 .. SampRate - 1)
    /\ MaxItems \in Nat

VARIABLES
    running,      \* FALSE once work has thrown
    pc,           \* "scheduler", or in work "tags" or "slots", its two loops
    nitems,       \* nitems_read(0)
    total_items,  \* of the call under way, or of the last one
    slots,        \* the members d_full_secs, d_frac_secs, d_tag_offset,
                  \* d_next_tag_offset and d_slot_counter
    published,    \* slot information sent so far
    reference     \* history: the rx_time tag in force, with nitems_read(0) of the call that
                  \* saw it, or the start of the stream

timeVars == <<running, pc, nitems, total_items, slots, published, reference>>

NoReference == [offset |-> 0, time |-> 0, call |-> -1]

TimeTagInit ==
    /\ running = TRUE /\ pc = "scheduler"
    /\ nitems = 0 /\ total_items = 0
    /\ slots = [full |-> 0, frac |-> 0, tag |-> 0, next |-> TagInterval, counter |-> 0]
    /\ published = <<>>
    /\ reference = NoReference

\* Mutant: the next slot is an interval behind the tag, as the comment at cc:97 has it.
RebaseBehind(st, offset, time) ==
    [st EXCEPT !.full = time[1], !.frac = time[2], !.tag = offset, !.next = offset + TagInterval]

\* An rx_time tag on a sample becomes the new base, and this sample the next slot.
Rebase(st, offset, time) ==
    [st EXCEPT !.full = time[1], !.frac = time[2], !.tag = offset, !.next = offset]

\* Mutant: the base is not moved along with the slot.
EmitFromOldBase(st) ==
    LET sum == st.frac + (st.next - st.tag)
        carry == IF sum >= SampRate THEN 1 ELSE 0
    IN  [st EXCEPT !.full = @ + carry, !.frac = sum - carry * SampRate,
                   !.next = @ + TagInterval, !.counter = @ + 1]

\* One turn of the loop: the time of the slot, with at most one second carried over.
Emit(st) ==
    LET sum == st.frac + (st.next - st.tag)
        carry == IF sum >= SampRate THEN 1 ELSE 0
    IN  [st EXCEPT !.full = @ + carry, !.frac = sum - carry * SampRate, !.tag = st.next,
                   !.next = @ + TagInterval, !.counter = @ + 1]

Info(st) ==
    [full |-> st.full, frac |-> st.frac, offset |-> st.tag, counter |-> st.counter - 1]

\* The scheduler calls work with n samples.
BeginWork ==
    /\ pc = "scheduler" /\ running
    /\ \E n \in ChunkSizes :
         /\ nitems + n <= MaxItems
         /\ total_items' = nitems + n
    /\ pc' = "tags"
    /\ UNCHANGED <<running, nitems, slots, published, reference>>

\* A call that sees an rx_rate tag with another rate than the configured one.
WrongRate ==
    /\ pc = "scheduler" /\ running
    /\ running' = FALSE
    /\ UNCHANGED <<pc, nitems, total_items, slots, published, reference>>

\* The next of the rx_time tags on the samples of this call, which come in the order of
\* their offsets.
SeeTimeTag ==
    /\ pc = "tags"
    /\ \E offset \in nitems .. total_items - 1, time \in RxTimes :
         /\ offset >= reference.offset
         /\ slots' = Rebase(slots, offset, time)
         /\ reference' = [offset |-> offset, time |-> time[1] * SampRate + time[2],
                          call |-> nitems]
    /\ UNCHANGED <<running, pc, nitems, total_items, published>>

\* Every tag is looked at before the first slot is emitted, so only the last one counts.
EndOfTags ==
    /\ pc = "tags" /\ pc' = "slots"
    /\ UNCHANGED <<running, nitems, total_items, slots, published, reference>>

\* The condition of the second loop: a slot begins before the end of the chunk.
Due(st) == total_items > st.next

EmitSlot ==
    /\ pc = "slots" /\ Due(slots)
    /\ slots' = Emit(slots)
    /\ published' = Append(published, [info |-> Info(Emit(slots)), base |-> reference])
    /\ UNCHANGED <<running, pc, nitems, total_items, reference>>

ReturnWork ==
    /\ pc = "slots" /\ ~Due(slots)
    /\ nitems' = total_items
    /\ pc' = "scheduler"
    /\ UNCHANGED <<running, total_items, slots, published, reference>>

TimeTagNext == BeginWork \/ WrongRate \/ SeeTimeTag \/ EndOfTags \/ EmitSlot \/ ReturnWork

TimeTagSpec == TimeTagInit /\ [][TimeTagNext]_timeVars

-----------------------------------------------------------------------------
\* The time published for a slot is that of the rx_time tag in force plus the samples
\* since, however the stream was cut into calls of work, and its fraction stays below
\* a second (holds for slots of at most a second).
SlotTimesFollowReference ==
    \A i \in DOMAIN published :
        LET info == published[i].info
            base == published[i].base
        IN  /\ info.full * SampRate + info.frac = base.time + (info.offset - base.offset)
            /\ info.frac \in 0 .. SampRate - 1

\* Two slots in a row.  With one base they are one interval apart.  A slot with a new base
\* is its tagged sample; the slot before it is the last one due before the call of work
\* that saw the tag, because the call looks at its tags first: slots of the old base that
\* fall due in that call before the tagged sample are left out.
InOrder(last, this) ==
    IF this.base = last.base THEN this.info.offset = last.info.offset + TagInterval
    ELSE /\ this.info.offset = this.base.offset
         /\ last.info.offset < this.base.call
         /\ this.base.call <= last.info.offset + TagInterval

\* The first slot, an interval behind the start of the stream or a tagged sample.
First(this) ==
    IF this.base = NoReference THEN this.info.offset = TagInterval
    ELSE this.info.offset = this.base.offset /\ this.base.call <= TagInterval

\* Which slots are published, and which are left out (periodic_time_tag_cc_impl.cc:91-125):
\* as long as no rx_time tag comes no slot is skipped, repeated or early.  A call that sees
\* tags publishes a slot on the last of them, none on its other tags, and none of those
\* that were due in the call before that tag; none of earlier or later calls is missing.
\* The counter numbers what is published, across tags and what is left out.  When a call
\* returns, its last tag has its slot, and all that were due by it are out, none beyond.
SlotsComplete ==
    /\ \A i \in DOMAIN published : published[i].info.counter = i - 1
    /\ published # <<>> => First(published[1])
    /\ \A i \in 2 .. Len(published) : InOrder(published[i - 1], published[i])
    /\ pc = "scheduler" =>
          /\ \A i \in DOMAIN published : published[i].info.offset < nitems
          /\ IF published = <<>> THEN reference = NoReference /\ nitems <= TagInterval
             ELSE LET last == published[Len(published)]
                  IN  last.base = reference /\ nitems <= last.info.offset + TagInterval
=============================================================================
