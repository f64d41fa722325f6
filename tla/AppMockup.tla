------------------------------ MODULE AppMockup ------------------------------
(***************************************************************************)
(* The application mockup (python/udp_connector_mockup.py): a server that  *)
(* sends a message to each of its clients in turn and waits for the reply, *)
(* and clients that return what they receive.  In between lies whatever    *)
(* carries the datagrams, in the demo the radio link: it may lose and      *)
(* delay them but keeps those of one client in order.                      *)
(***************************************************************************)
EXTENDS Naturals, Sequences

CONSTANTS
    NumClients,
    MaxRounds,   \* bound: rounds the server runs
    Prompt       \* whether every datagram arrives or is lost while the server sleeps

ASSUME MockupAssumption ==
    NumClients \in Nat \ {0} /\ MaxRounds \in Nat /\ Prompt \in BOOLEAN

Clients == 1 .. NumClients

VARIABLES
    pc,          \* "send", "wait", "sleep", "flush", or "dead" after a failed assertion
    current,     \* the client whose turn it is
    tx_counter,  \* rounds completed
    toClient,    \* per client: datagrams under way to it
    toServer,    \* per client: replies under way to the server
    socks        \* per client: replies in the receive buffer of the server's socket

mockupVars == <<pc, current, tx_counter, toClient, toServer, socks>>

\* generate_payload: random strings, taken to differ from round to round.
Payload == tx_counter

MockupInit ==
    /\ pc = "send" /\ current = 1 /\ tx_counter = 0
    /\ toClient = [a \in Clients |-> <<>>]
    /\ toServer = [a \in Clients |-> <<>>]
    /\ socks = [a \in Clients |-> <<>>]

SendMessage ==
    /\ pc = "send"
    /\ toClient' = [toClient EXCEPT ![current] = Append(@, Payload)]
    /\ pc' = "wait"
    /\ UNCHANGED <<current, tx_counter, toServer, socks>>

\* The loop of produce_messages, and the increment behind it.
NextClient ==
    IF current < NumClients
    THEN /\ current' = current + 1 /\ pc' = "send"
         /\ UNCHANGED tx_counter
    ELSE /\ pc' = "sleep" /\ tx_counter' = tx_counter + 1
         /\ UNCHANGED current

\* recvfrom returns a datagram; the reply must carry the payload just sent, or the
\* assertion ends the thread.
ReceiveReply ==
    /\ pc = "wait"
    /\ socks[current] # <<>>
    /\ socks' = [socks EXCEPT ![current] = Tail(@)]
    /\ IF Head(socks[current]) = Payload
       THEN NextClient
       ELSE pc' = "dead" /\ UNCHANGED <<current, tx_counter>>
    /\ UNCHANGED <<toClient, toServer>>

\* Mutant: a socket without a timeout.
NeverTimeout == pc = "wait" /\ FALSE /\ UNCHANGED mockupVars

Timeout ==
    /\ pc = "wait"
    /\ socks[current] = <<>>
    /\ NextClient
    /\ UNCHANGED <<toClient, toServer, socks>>

UnderWay == \E a \in Clients : toClient[a] # <<>> \/ toServer[a] # <<>>

Wake ==
    /\ pc = "sleep"
    /\ Prompt => ~UnderWay
    /\ pc' = "flush"
    /\ UNCHANGED <<current, tx_counter, toClient, toServer, socks>>

\* Mutant: only the first socket is emptied.
FlushFirst ==
    /\ pc = "flush" /\ tx_counter < MaxRounds
    /\ socks' = [socks EXCEPT ![1] = IF @ = <<>> THEN @ ELSE Tail(@)]
    /\ pc' = "send" /\ current' = 1
    /\ UNCHANGED <<tx_counter, toClient, toServer>>

\* One datagram is read from every socket that has any.
Flush ==
    /\ pc = "flush" /\ tx_counter < MaxRounds
    /\ socks' = [a \in Clients |-> IF socks[a] = <<>> THEN <<>> ELSE Tail(socks[a])]
    /\ pc' = "send" /\ current' = 1
    /\ UNCHANGED <<tx_counter, toClient, toServer>>

\* The client returns the payload under its own prefix.
Echo(a) ==
    /\ toClient[a] # <<>>
    /\ toServer' = [toServer EXCEPT ![a] = Append(@, Head(toClient[a]))]
    /\ toClient' = [toClient EXCEPT ![a] = Tail(@)]
    /\ UNCHANGED <<pc, current, tx_counter, socks>>

Arrive(a) ==
    /\ toServer[a] # <<>>
    /\ socks' = [socks EXCEPT ![a] = Append(@, Head(toServer[a]))]
    /\ toServer' = [toServer EXCEPT ![a] = Tail(@)]
    /\ UNCHANGED <<pc, current, tx_counter, toClient>>

LoseRequest(a) ==
    /\ toClient[a] # <<>>
    /\ toClient' = [toClient EXCEPT ![a] = Tail(@)]
    /\ UNCHANGED <<pc, current, tx_counter, toServer, socks>>

LoseReply(a) ==
    /\ toServer[a] # <<>>
    /\ toServer' = [toServer EXCEPT ![a] = Tail(@)]
    /\ UNCHANGED <<pc, current, tx_counter, toClient, socks>>

Server == SendMessage \/ ReceiveReply \/ Timeout \/ Wake \/ Flush
Medium(a) == Echo(a) \/ Arrive(a) \/ LoseRequest(a) \/ LoseReply(a)

MockupNext == Server \/ \E a \in Clients : Medium(a)

\* The server's thread runs, its timeouts expire, and what is under way gets through
\* or lost in the end.
MockupSpec ==
    /\ MockupInit /\ [][MockupNext]_mockupVars
    /\ WF_mockupVars(Server)
    /\ \A a \in Clients : WF_mockupVars(Medium(a))

-----------------------------------------------------------------------------
\* The assertion of send_message_to_client: a reply carries the payload sent last.  As
\* long as no datagram outlives the sleep it holds, whatever is lost or late, and the
\* one datagram per socket that flush reads is enough.
RepliesMatch == pc # "dead"

\* The server always gets to its next round: a lost request or reply costs a timeout.
RoundsGoOn ==
    \A n \in 0 .. MaxRounds - 1 : (tx_counter = n) ~> (tx_counter = n + 1)
=============================================================================
