--------------------------- MODULE AppMockupProofs ---------------------------
(***************************************************************************)
(* The mockup's assertion holds for any number of clients and rounds, as   *)
(* long as no datagram outlives the server's sleep.                        *)
(***************************************************************************)
EXTENDS AppMockup, TLAPS

Empty(a) == toClient[a] = <<>> /\ toServer[a] = <<>> /\ socks[a] = <<>>

\* Of a client there is at most one datagram: on its way there, on its way back, or in
\* the server's socket.
Carries(a, payload) ==
    \/ Empty(a)
    \/ toClient[a] = <<payload>> /\ toServer[a] = <<>> /\ socks[a] = <<>>
    \/ toClient[a] = <<>> /\ toServer[a] = <<payload>> /\ socks[a] = <<>>
    \/ toClient[a] = <<>> /\ toServer[a] = <<>> /\ socks[a] = <<payload>>

InRound == pc \in {"send", "wait"}

\* In a round it carries the round's payload, and there is none of the clients whose turn
\* has not come.  When the server has slept, whatever there is lies in a socket.
ClientInv(a) ==
    /\ \E payload \in Nat : Carries(a, payload)
    /\ InRound => Carries(a, Payload)
    /\ pc = "send" /\ a >= current => Empty(a)
    /\ pc = "wait" /\ a > current => Empty(a)
    /\ pc = "flush" => toClient[a] = <<>> /\ toServer[a] = <<>>

MockupTypeOK ==
    /\ pc \in {"send", "wait", "sleep", "flush"}
    /\ current \in Clients /\ tx_counter \in Nat
    /\ toClient \in [Clients -> Seq(Nat)]
    /\ toServer \in [Clients -> Seq(Nat)]
    /\ socks \in [Clients -> Seq(Nat)]

MockupInv == MockupTypeOK /\ \A a \in Clients : ClientInv(a)

\* Sequences of one datagram.
LEMMA Single ==
    ASSUME NEW payload \in Nat
    PROVE  /\ <<payload>> # <<>> /\ <<payload>> \in Seq(Nat)
           /\ Head(<<payload>>) = payload /\ Tail(<<payload>>) = <<>>
           /\ Append(<<>>, payload) = <<payload>>
OBVIOUS

\* The server goes on to the next client, or to sleep, once it is done with the current one.
LEMMA NextClientInv ==
    ASSUME MockupInv, pc = "wait", NextClient,
           UNCHANGED <<toClient, toServer>>, socks' \in [Clients -> Seq(Nat)],
           \A a \in Clients : socks'[a] = socks[a] \/ (a = current /\ Empty(a)')
    PROVE  MockupInv'
<1>1. pc \in {"wait"} /\ current \in 1 .. NumClients /\ tx_counter \in Nat /\ NumClients \in Nat
  BY MockupAssumption DEF MockupInv, MockupTypeOK, Clients
<1>2. CASE current < NumClients
  <2>1. pc' = "send" /\ current' = current + 1 /\ tx_counter' = tx_counter
    BY <1>2 DEF NextClient
  <2>2. MockupTypeOK'
    BY <1>1, <1>2, <2>1 DEF MockupInv, MockupTypeOK, Clients
  <2>3. ASSUME NEW a \in Clients PROVE ClientInv(a)'
    <3>1. ClientInv(a) /\ (a > current => Empty(a)) /\ Carries(a, Payload)
      BY <1>1 DEF MockupInv, ClientInv, InRound
    <3>2. Carries(a, Payload)'
      BY <2>1, <3>1 DEF Carries, Empty, Payload
    <3>3. a >= current' => Empty(a)'
      <4>1. a >= current' => a > current /\ a # current
        BY <1>1, <2>1 DEF Clients
      <4>2. QED
        BY <3>1, <4>1 DEF Empty
    <3>4. tx_counter' \in Nat /\ Payload' = tx_counter'
      BY <1>1, <2>1 DEF Payload
    <3>5. QED
      BY <2>1, <3>2, <3>3, <3>4 DEF ClientInv
  <2>4. QED
    BY <2>2, <2>3 DEF MockupInv
<1>3. CASE ~(current < NumClients)
  <2>1. pc' = "sleep" /\ current' = current /\ tx_counter' = tx_counter + 1
    BY <1>3 DEF NextClient
  <2>2. MockupTypeOK'
    BY <1>1, <2>1 DEF MockupInv, MockupTypeOK
  <2>3. ASSUME NEW a \in Clients PROVE ClientInv(a)'
    <3>1. Carries(a, Payload)
      BY <1>1 DEF MockupInv, ClientInv, InRound
    <3>2. \E payload \in Nat : Carries(a, payload)'
      BY <1>1, <3>1 DEF Carries, Empty, Payload
    <3>3. QED
      BY <2>1, <3>2 DEF ClientInv, InRound
  <2>4. QED
    BY <2>2, <2>3 DEF MockupInv
<1>4. QED
  BY <1>2, <1>3

\* What the medium does to one client's datagram, and to no other's.
LEMMA MediumInv ==
    ASSUME MockupInv, Prompt, NEW a \in Clients, Medium(a)
    PROVE  MockupInv'
<1>1. UNCHANGED <<pc, current, tx_counter>>
  BY DEF Medium, Echo, Arrive, LoseRequest, LoseReply
<1>2. /\ toClient[a] \in Seq(Nat) /\ toServer[a] \in Seq(Nat) /\ socks[a] \in Seq(Nat)
      /\ ClientInv(a)
  BY DEF MockupInv, MockupTypeOK
<1>3. /\ toClient' \in [Clients -> Seq(Nat)]
      /\ toServer' \in [Clients -> Seq(Nat)]
      /\ socks' \in [Clients -> Seq(Nat)]
  <2>1. CASE Echo(a)
    BY <1>2, <2>1 DEF Echo, MockupInv, MockupTypeOK
  <2>2. CASE Arrive(a)
    BY <1>2, <2>2 DEF Arrive, MockupInv, MockupTypeOK
  <2>3. CASE LoseRequest(a)
    BY <1>2, <2>3 DEF LoseRequest, MockupInv, MockupTypeOK
  <2>4. CASE LoseReply(a)
    BY <1>2, <2>4 DEF LoseReply, MockupInv, MockupTypeOK
  <2>5. QED
    BY <2>1, <2>2, <2>3, <2>4 DEF Medium
<1>4. MockupTypeOK'
  BY <1>1, <1>3 DEF MockupInv, MockupTypeOK
<1>5. ASSUME NEW b \in Clients, b # a PROVE ClientInv(b)'
  <2>1. toClient'[b] = toClient[b] /\ toServer'[b] = toServer[b] /\ socks'[b] = socks[b]
    BY <1>5 DEF Medium, Echo, Arrive, LoseRequest, LoseReply, MockupInv, MockupTypeOK
  <2>2. QED
    BY <1>1, <2>1 DEF MockupInv, ClientInv, Carries, Empty, InRound, Payload
<1>6. ASSUME NEW payload \in Nat, Carries(a, payload)
      PROVE  Carries(a, payload)' /\ ~Empty(a) /\ pc # "flush"
  <2>1. CASE Echo(a)
    BY <1>2, <1>6, <2>1, Single DEF Echo, Carries, Empty, MockupInv, MockupTypeOK, ClientInv
  <2>2. CASE Arrive(a)
    BY <1>2, <1>6, <2>2, Single DEF Arrive, Carries, Empty, MockupInv, MockupTypeOK, ClientInv
  <2>3. CASE LoseRequest(a)
    BY <1>2, <1>6, <2>3, Single DEF LoseRequest, Carries, Empty, MockupInv, MockupTypeOK, ClientInv
  <2>4. CASE LoseReply(a)
    BY <1>2, <1>6, <2>4, Single DEF LoseReply, Carries, Empty, MockupInv, MockupTypeOK, ClientInv
  <2>5. QED
    BY <2>1, <2>2, <2>3, <2>4 DEF Medium
<1>7. ClientInv(a)'
  <2>1. PICK payload \in Nat : Carries(a, payload)
    BY <1>2 DEF ClientInv
  <2>2. Carries(a, payload)' /\ ~Empty(a) /\ pc' # "flush"
    BY <1>1, <1>6, <2>1
  <2>3. InRound => Carries(a, Payload)'
    <3>1. PICK n \in Nat : n = tx_counter
      BY DEF MockupInv, MockupTypeOK
    <3>2. InRound => Carries(a, n)
      BY <1>2, <3>1 DEF ClientInv, Payload
    <3>3. InRound => Carries(a, n)'
      BY <1>6, <3>2
    <3>4. QED
      BY <1>1, <3>1, <3>3 DEF Carries, Empty, Payload
  <2>4. QED
    BY <1>1, <1>2, <2>2, <2>3 DEF ClientInv, InRound, Payload
<1>8. QED
  BY <1>4, <1>5, <1>7 DEF MockupInv

\* A step of the server's thread.
LEMMA ServerInv ==
    ASSUME MockupInv, Prompt, Server
    PROVE  MockupInv'
<1>1. /\ current \in Clients /\ tx_counter \in Nat /\ Payload = tx_counter
      /\ \A a \in Clients : a \in Nat
  BY MockupAssumption DEF MockupInv, MockupTypeOK, Payload, Clients
<1>2. CASE SendMessage
  <2>1. /\ pc = "send" /\ pc' = "wait"
        /\ UNCHANGED <<current, tx_counter, toServer, socks>>
        /\ toClient' = [toClient EXCEPT ![current] = Append(@, tx_counter)]
    BY <1>1, <1>2 DEF SendMessage
  <2>2. Empty(current)
    BY <1>1, <2>1 DEF MockupInv, ClientInv
  <2>3. toClient'[current] = <<tx_counter>>
    BY <1>1, <2>1, <2>2, Single DEF Empty, MockupInv, MockupTypeOK
  <2>4. MockupTypeOK'
    <3>1. toClient' \in [Clients -> Seq(Nat)]
      BY <1>1, <2>1 DEF MockupInv, MockupTypeOK
    <3>2. QED
      BY <2>1, <3>1 DEF MockupInv, MockupTypeOK
  <2>5. ASSUME NEW a \in Clients PROVE ClientInv(a)'
    <3>1. Carries(a, tx_counter)'
      <4>1. Carries(a, tx_counter)
        BY <1>1, <2>1 DEF MockupInv, ClientInv, InRound
      <4>2. a # current => toClient'[a] = toClient[a]
        BY <2>1 DEF MockupInv, MockupTypeOK
      <4>3. QED
        BY <2>1, <2>2, <2>3, <4>1, <4>2 DEF Carries, Empty
    <3>2. a > current => Empty(a)'
      <4>1. a > current => a >= current /\ a # current
        BY <1>1
      <4>2. QED
        BY <2>1, <4>1 DEF MockupInv, MockupTypeOK, ClientInv, Empty
    <3>3. QED
      BY <1>1, <2>1, <3>1, <3>2 DEF ClientInv, InRound, Payload
  <2>6. QED
    BY <2>4, <2>5 DEF MockupInv
<1>3. CASE ReceiveReply
  <2>1. Carries(current, Payload) /\ socks[current] # <<>> /\ pc = "wait"
    BY <1>1, <1>3 DEF ReceiveReply, MockupInv, ClientInv, InRound
  <2>2. /\ toClient[current] = <<>> /\ toServer[current] = <<>>
        /\ socks[current] = <<Payload>>
    BY <2>1, Single DEF Carries, Empty
  <2>3. NextClient /\ UNCHANGED <<toClient, toServer>>
    BY <1>1, <1>3, <2>2, Single DEF ReceiveReply
  <2>4. socks' = [socks EXCEPT ![current] = <<>>]
    BY <1>1, <1>3, <2>2, Single DEF ReceiveReply, MockupInv, MockupTypeOK
  <2>5. socks' \in [Clients -> Seq(Nat)]
    BY <1>1, <2>4 DEF MockupInv, MockupTypeOK
  <2>6. \A a \in Clients : socks'[a] = socks[a] \/ (a = current /\ Empty(a)')
    BY <1>1, <2>2, <2>3, <2>4 DEF MockupInv, MockupTypeOK, Empty
  <2>7. QED
    BY <2>1, <2>3, <2>5, <2>6, NextClientInv
<1>4. CASE Timeout
  BY <1>4, NextClientInv DEF Timeout, MockupInv, MockupTypeOK
<1>5. CASE Wake
  <2>1. \A a \in Clients : toClient[a] = <<>> /\ toServer[a] = <<>>
    BY <1>5 DEF Wake, UnderWay
  <2>2. MockupTypeOK'
    BY <1>5 DEF Wake, MockupInv, MockupTypeOK
  <2>3. QED
    BY <1>5, <2>1, <2>2 DEF Wake, MockupInv, ClientInv, Carries, Empty, InRound
<1>6. CASE Flush
  <2>1. \A a \in Clients : socks'[a] = IF socks[a] = <<>> THEN <<>> ELSE Tail(socks[a])
    BY <1>6 DEF Flush
  <2>2. \A a \in Clients : Empty(a)'
    <3>1. ASSUME NEW a \in Clients PROVE Empty(a)'
      <4>1. toClient'[a] = <<>> /\ toServer'[a] = <<>>
        BY <1>6 DEF Flush, MockupInv, ClientInv
      <4>2. PICK payload \in Nat : socks[a] = <<>> \/ socks[a] = <<payload>>
        BY DEF MockupInv, ClientInv, Carries, Empty
      <4>3. QED
        BY <2>1, <4>1, <4>2, Single DEF Empty
    <3>2. QED
      BY <3>1
  <2>3. MockupTypeOK'
    <3>1. socks' = [a \in Clients |-> <<>>]
      BY <1>6, <2>2 DEF Flush, Empty
    <3>2. 1 \in Clients
      BY MockupAssumption DEF Clients
    <3>3. QED
      BY <1>6, <3>1, <3>2 DEF Flush, MockupInv, MockupTypeOK
  <2>4. QED
    BY <1>1, <1>6, <2>2, <2>3 DEF Flush, MockupInv, ClientInv, Carries, InRound
<1>7. QED
  BY <1>2, <1>3, <1>4, <1>5, <1>6 DEF Server

\* Where every datagram arrives or is lost while the server sleeps, no reply ever fails
\* the assertion of send_message_to_client: no number of clients, losses or timeouts makes
\* the server compare an old reply with a new payload, and one read per socket is enough
\* to clear what is late (udp_connector_mockup.py:159-193).
THEOREM RepliesAlwaysMatch == ASSUME Prompt PROVE MockupSpec => []RepliesMatch
<1>1. MockupInit => MockupInv
  BY MockupAssumption
     DEF MockupInit, MockupInv, MockupTypeOK, ClientInv, Carries, Empty, InRound, Clients
<1>2. MockupInv /\ [MockupNext]_mockupVars => MockupInv'
  <2> SUFFICES ASSUME MockupInv, [MockupNext]_mockupVars PROVE MockupInv'
    OBVIOUS
  <2>1. CASE UNCHANGED mockupVars
    BY <2>1 DEF mockupVars, MockupInv, MockupTypeOK, ClientInv, Carries, Empty, InRound, Payload
  <2>2. QED
    BY <2>1, MediumInv, ServerInv DEF MockupNext
<1>3. MockupInv => RepliesMatch
  BY DEF MockupInv, MockupTypeOK, RepliesMatch
<1>4. QED
  BY <1>1, <1>2, <1>3, PTL DEF MockupSpec
=============================================================================
