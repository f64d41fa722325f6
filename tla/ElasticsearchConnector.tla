------------------------ MODULE ElasticsearchConnector ------------------------
(***************************************************************************)
(* The block that writes status messages to a database                     *)
(* (python/elasticsearch_connector.py).  ElasticBuffer and the database    *)
(* are external: add flushes when the buffer is full, flush stores all of  *)
(* the buffer or, if the database does not answer, raises and keeps it.    *)
(* An exception in a message handler ends the block's thread.              *)
(*                                                                         *)
(* The stream of messages never ends.  A body is named by its mark: two    *)
(* bodies are marked and seen once, all others are alike, and only marked  *)
(* bodies are remembered once they are stored.                             *)
(***************************************************************************)
EXTENDS Integers, Sequences, SequencesExt

CONSTANTS
    Marks,        \* marked bodies
    Plain,        \* the mark of all others
    BufferSize,   \* buffer_size
    FlushAge,     \* seconds after which a body's age makes the buffer be flushed
    MaxUpdates    \* bound: calls of update_additional_data

ASSUME ConnectorAssumption ==
    /\ Plain \notin Marks
    /\ BufferSize \in Nat \ {0} /\ FlushAge \in Nat /\ MaxUpdates \in Nat

VARIABLES
    running,      \* FALSE once the handler has raised
    available,    \* _database_available
    additional,   \* _additional_data: how often it has been updated
    buffer,       \* _db_buffer
    age,          \* its oldest_elapsed_time, up to FlushAge + 1
    up,           \* the database answers
    stored        \* marked bodies in the database, in the order they were stored

connectorVars == <<running, available, additional, buffer, age, up, stored>>

ConnectorInit ==
    /\ running = TRUE
    /\ up \in BOOLEAN
    /\ available = up
    /\ additional = 0
    /\ buffer = <<>> /\ age = 0
    /\ stored = <<>>

\* "rx" in meta, "tx" in meta, for the keys of the status collector.
Direction(key) ==
    CASE key = "rx_msg" -> "rx" [] key = "uhd_tx_msg" -> "tx" [] OTHER -> "unknown"

PlainBody == [mark |-> Plain, direction |-> "unknown", extra |-> 0]

\* The body for a status message, a pair of key and dictionary, with the additional data
\* of this moment.
Body(status) ==
    IF status.fields.mark = Plain THEN PlainBody
    ELSE [mark |-> status.fields.mark, direction |-> Direction(status.key), extra |-> additional]

\* The items that are in a set, in their order.
Only(items, set) ==
    FlattenSeq([i \in DOMAIN items |-> IF items[i] \in set THEN <<items[i]>> ELSE <<>>])

Bodies(marks) == [mark : marks, direction : {"rx", "tx", "unknown"}, extra : 0 .. MaxUpdates]

Marked(bodies) == Only(bodies, Bodies(Marks))

\* Mutant: the buffer is not emptied.
FlushButKeep(bodies) ==
    IF up
    THEN /\ stored' = stored \o Marked(bodies) /\ buffer' = bodies /\ age' = 0
         /\ UNCHANGED running
    ELSE buffer' = bodies /\ running' = FALSE /\ UNCHANGED <<age, stored>>

\* ElasticBuffer.flush, with these bodies in the buffer.
Flush(bodies) ==
    IF up
    THEN /\ stored' = stored \o Marked(bodies) /\ buffer' = <<>> /\ age' = 0
         /\ UNCHANGED running
    ELSE buffer' = bodies /\ running' = FALSE /\ UNCHANGED <<age, stored>>

\* ElasticBuffer.add flushes a full buffer.
BufferFull(bodies) == Len(bodies) >= BufferSize

\* Mutant: a full buffer takes nothing and waits for its age.
DropIfFull(body) ==
    LET bodies == Append(buffer, body) IN
    IF age > FlushAge THEN Flush(bodies)
    ELSE /\ buffer' = IF BufferFull(bodies) THEN buffer ELSE bodies
         /\ UNCHANGED <<age, stored, running>>

\* send_to_buffer: add, then flush if the oldest body is too old.
SendToBuffer(body) ==
    LET bodies == Append(buffer, body) IN
    IF BufferFull(bodies) \/ age > FlushAge THEN Flush(bodies)
    ELSE buffer' = bodies /\ UNCHANGED <<age, stored, running>>

\* handle_msg.  Without a database the message is dropped; the car of PMT_F raises.
HandleStatus(status) ==
    /\ running
    /\ \/ ~available /\ UNCHANGED <<running, buffer, age, stored>>
       \/ available /\ ~status.pair
          /\ running' = FALSE /\ UNCHANGED <<buffer, age, stored>>
       \/ available /\ status.pair /\ SendToBuffer(Body(status))
    /\ UNCHANGED <<available, additional, up>>

\* update_additional_data, called from another thread.
UpdateAdditionalData ==
    /\ additional < MaxUpdates
    /\ additional' = additional + 1
    /\ UNCHANGED <<running, available, buffer, age, up, stored>>

\* A second passes.
Grow ==
    /\ buffer # <<>> /\ age <= FlushAge
    /\ age' = age + 1
    /\ UNCHANGED <<running, available, additional, buffer, up, stored>>

\* The database goes away or comes back; who does not use it does not see that.
DatabaseChange ==
    /\ running /\ available
    /\ up' = ~up
    /\ UNCHANGED <<running, available, additional, buffer, age, stored>>
=============================================================================
