--------------------------- MODULE StatusCollector ---------------------------
(***************************************************************************)
(* The block that makes status messages of what the other blocks report    *)
(* (lib/status_collector_impl.cc).  Its members are written and logged,    *)
(* but never read for a message, so that the handler is a function.        *)
(*                                                                         *)
(* A message is a record of its shape and of what the pipeline looks at: a *)
(* PDU and a dictionary have fields, others only a shape.                  *)
(***************************************************************************)

\* The symbols UHD_ASYNC_MSG_KEY, UHD_TX_MSG_KEY and RX_MSG_KEY.
AsyncKey == "uhd_async_msg"
TxKey    == "uhd_tx_msg"
RxKey    == "rx_msg"

\* PMT_F, and the pair (key . dictionary).
PmtF == [pair |-> FALSE]
Status(key, fields) == [pair |-> TRUE, key |-> key, fields |-> fields]

HasTxTime(fields) == "tx_time" \in DOMAIN fields

\* handle_pdu_meta; fields that are vectors are none of a message's fields here.
HandlePduMeta(fields) == IF HasTxTime(fields) THEN PmtF ELSE Status(RxKey, fields)

\* Mutant: transmit times are reported with the key of the receiver.
CollectedAsRx(msg) ==
    CASE msg.shape = "pdu"   -> HandlePduMeta(msg.fields)
      [] msg.shape = "dict" /\ HasTxTime(msg.fields) -> Status(RxKey, msg.fields)
      [] msg.shape = "async" -> Status(AsyncKey, msg.fields)
      [] OTHER -> PmtF

\* handle_msg: what is published for a message.  Tuples with slot information, PDUs
\* with a transmit time, dictionaries without one and unknown messages yield PMT_F.
Collected(msg) ==
    CASE msg.shape = "pdu"   -> HandlePduMeta(msg.fields)
      [] msg.shape = "dict" /\ HasTxTime(msg.fields) -> Status(TxKey, msg.fields)
      [] msg.shape = "async" -> Status(AsyncKey, msg.fields)
      [] OTHER -> PmtF
=============================================================================
