------------------------------- MODULE MCStatus -------------------------------
(* The blocks that read tags.  The status pipeline and the block that makes a  *)
(* stream of tag values share nothing, so a behaviour runs one of the two.     *)
EXTENDS StatusPipeline, TagToStreamValue

VARIABLE reader  \* which of the two reads the tags

mcVars == <<pipelineVars, call, reader>>

FirstSecond == <<"first", "second">>

Tag(k, v) == [key |-> k, value |-> v]

\* A sample without tags, or the first one of a burst with its transmit time.
SamplesWith(mark) ==
    IF mark = Plain
    THEN { <<>>, <<Tag("tx_time", "soon"), Tag("mark", Plain)>> }
    ELSE { <<Tag("mark", mark), Tag("tx_time", "soon")>> }

ValueNames == {"a", "b", "c", "d", "e"}

ValueSamples ==
    { <<>>, <<Number("a")>>, <<Number("b")>>, <<Number("a"), Number("b")>>,
      <<Vector(<<"c", "d">>)>>, <<OtherVector(<<"e", "e">>)>> }

MCInit ==
    /\ reader \in {"pipeline", "values"}
    /\ PipelineInit
    /\ StreamValueInit

MCNext ==
    \/ reader = "pipeline" /\ PipelineNext /\ UNCHANGED <<call, reader>>
    \/ reader = "values" /\ CallWork /\ UNCHANGED <<pipelineVars, reader>>

MCSpec == MCInit /\ [][MCNext]_mcVars
=============================================================================
