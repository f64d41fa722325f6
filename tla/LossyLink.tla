----------------------------- MODULE LossyLink -----------------------------
(***************************************************************************)
(* What a pair of MAC controllers and the radio between them promise to    *)
(* the applications at their UDP ports: a link per direction that may lose *)
(* a PDU, but delivers what it delivers unchanged, in order, only once and *)
(* only to the other end.  README.md of the repository: "UDP interfaces"   *)
(* carry packets from a source to a destination id.  Where replay mode is  *)
(* used the test pattern may come in between.                              *)
(***************************************************************************)
EXTENDS Sequences, Naturals

CONSTANTS
    Links,     \* the directions, named by the sending controller
    Pdus,      \* what may be offered on a link: records with their rank there
    Patterns   \* test patterns that may be delivered on a link at any time

VARIABLES
    offered,     \* how many PDUs were offered
    inTransit,   \* PDUs offered and neither lost nor delivered
    delivered    \* PDUs and patterns delivered, in order

linkVars == <<offered, inTransit, delivered>>

LinkInit ==
    /\ offered = [l \in Links |-> 0]
    /\ inTransit = [l \in Links |-> {}]
    /\ delivered = [l \in Links |-> <<>>]

Offer(l) ==
    /\ offered' = [offered EXCEPT ![l] = @ + 1]
    /\ \E pdu \in Pdus[l] :
         /\ pdu.rank = offered[l] + 1
         /\ inTransit' = [inTransit EXCEPT ![l] = @ \cup {pdu}]
    /\ UNCHANGED delivered

Lose(l) ==
    /\ \E pdu \in inTransit[l] : inTransit' = [inTransit EXCEPT ![l] = @ \ {pdu}]
    /\ UNCHANGED <<offered, delivered>>

\* The oldest is delivered first.
Deliver(l) ==
    /\ \E pdu \in inTransit[l] :
         /\ \A other \in inTransit[l] : pdu.rank <= other.rank
         /\ delivered' = [delivered EXCEPT ![l] = Append(@, pdu)]
         /\ inTransit' = [inTransit EXCEPT ![l] = @ \ {pdu}]
    /\ UNCHANGED offered

Replay(l) ==
    /\ \E pattern \in Patterns[l] : delivered' = [delivered EXCEPT ![l] = Append(@, pattern)]
    /\ UNCHANGED <<offered, inTransit>>

LinkNext == \E l \in Links : Offer(l) \/ Lose(l) \/ Deliver(l) \/ Replay(l)

LinkSpec == LinkInit /\ [][LinkNext]_linkVars

\* No PDU stays in transit for ever.
LinkFairSpec == LinkSpec /\ \A l \in Links : WF_linkVars(Lose(l) \/ Deliver(l))
=============================================================================
