---------------------------- MODULE TagsToMsgDict ----------------------------
(***************************************************************************)
(* The block that turns the tags of a stream into dictionaries, one per    *)
(* tagged sample (lib/tags_to_msg_dict_impl.cc).  It keeps nothing between *)
(* two calls of work.  A sample is the sequence of its tags; offsets count *)
(* from the first sample of the call.                                      *)
(***************************************************************************)
EXTENDS Integers, Sequences, SequencesExt

\* get_tags_in_range: the tags of the samples of a call, with their offsets.
TagsInRange(samples) ==
    FlattenSeq([i \in DOMAIN samples |->
        [j \in DOMAIN samples[i] |->
            [offset |-> i, key |-> samples[i][j].key, value |-> samples[i][j].value]]])

\* What std::sort may return: ordered by offset, tags of one sample in any order.
Sorted(tags) ==
    { s \in { [i \in DOMAIN tags |-> tags[p[i]]] : p \in Surjection(DOMAIN tags, DOMAIN tags) } :
        \A i \in 1 .. Len(tags) - 1 : s[i].offset <= s[i + 1].offset }

DictAdd(dict, key, value) ==
    [k \in DOMAIN dict \cup {key} |-> IF k = key THEN value ELSE dict[k]]

EmptyDict == <<>>

\* One turn of the loop over the sorted tags.
Turn(loop, tag) ==
    IF tag.offset > loop.offset
    THEN [published |-> Append(loop.published, loop.current), offset |-> tag.offset,
          current |-> DictAdd(EmptyDict, tag.key, tag.value)]
    ELSE [loop EXCEPT !.current = DictAdd(@, tag.key, tag.value)]

\* The loop: tags of the first sample open the first dictionary.
Loop(sorted) ==
    LET loop[i \in 0 .. Len(sorted)] ==
          IF i = 0 THEN [published |-> <<>>, current |-> EmptyDict, offset |-> Head(sorted).offset]
          ELSE Turn(loop[i - 1], sorted[i])
    IN  loop[Len(sorted)]

\* Mutant: the dictionary of the last tagged sample is forgotten.
PublishedButLast(sorted) == IF sorted = <<>> THEN <<>> ELSE Loop(sorted).published

\* The messages of one call of work, given its sorted tags.
Published(sorted) ==
    IF sorted = <<>> THEN <<>>
    ELSE LET end == Loop(sorted)
         IN  IF end.current = EmptyDict THEN end.published
             ELSE Append(end.published, end.current)

\* All that one call of work on these samples may publish.
WorkMayPublish(samples) == { Published(s) : s \in Sorted(TagsInRange(samples)) }
=============================================================================
