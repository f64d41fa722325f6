------------------------------- MODULE UsrpClock -------------------------------
(***************************************************************************)
(* How the clocks of the USRP boards are set while a station starts        *)
(* (python/phy_layer.py:467-501).  Boards, the edges of the PPS signal and *)
(* the GPS receiver are external: a board takes a time that was ordered    *)
(* for the next edge at that edge, and the sensor gps_time tells the       *)
(* second of the last edge only some time after it.                        *)
(*                                                                         *)
(* Time is GPS time in ticks, with an edge every Second ticks.  Before     *)
(* each step of the host up to MaxDelay ticks pass, besides its sleeps.    *)
(***************************************************************************)
EXTENDS Integers

CONSTANTS
    MaxBoards,    \* boards behind the device
    Second,       \* ticks of a second
    PollSleep,    \* time.sleep(50e-3)
    SettleSleep,  \* time.sleep(200e-3)
    SensorLag,    \* ticks after an edge until gps_time follows
    MaxDelay,     \* bound: ticks that a step of the host may take
    HostAhead     \* ticks by which the host's clock may be ahead

\* A second is long enough for the steps between two edges, and the sensor not slower
\* than the sleep that waits for it.
ASSUME ClockAssumption ==
    /\ MaxBoards \in Nat \ {0} /\ Second \in Nat \ {0} /\ MaxDelay \in Nat /\ HostAhead \subseteq Nat
    /\ PollSleep \in Nat \ {0} /\ SettleSleep \in Nat /\ SensorLag \in 0 .. SettleSleep
    /\ PollSleep + SettleSleep + (MaxBoards + 2) * MaxDelay < Second

VARIABLES
    pc,       \* the next step of initialize_usrps
    mode,     \* "gps" if locked, else "multi" or "single"
    boards,   \* how many boards
    ahead,    \* the host's clock minus GPS time
    now,      \* ticks of GPS time
    begun,    \* now at the first step
    last,     \* edges counted at the last but one query of the last PPS ...
    next,     \* ... and at the last one
    target,   \* seconds to be set
    set,      \* how many boards have been told
    waiting,  \* boards that take the target at their next edge
    offset    \* per board whose time has been set: its time minus GPS time

clockVars == <<pc, mode, boards, ahead, now, begun, last, next, target, set, waiting, offset>>

\* An instant of the second before the first step; the host's clock says what it says.
ClockInit(multi, locked) ==
    /\ mode = IF locked THEN "gps" ELSE IF multi THEN "multi" ELSE "single"
    /\ boards = IF multi THEN MaxBoards ELSE 1
    /\ ahead \in HostAhead
    /\ now \in Second .. 2 * Second - 1 /\ begun = now
    /\ pc = IF locked THEN "last" ELSE "system"
    /\ last = 0 /\ next = 0 /\ target = 0 /\ set = 0
    /\ waiting = {} /\ offset = <<>>

Edges(t) == t \div Second

\* What d ticks, with at most one edge, do to the boards: ordered times are taken.
HasEdge(d) == Edges(now + d) > Edges(now)
Waiting(d) == IF HasEdge(d) THEN {} ELSE waiting
Taken(d) ==
    LET now_set == waiting \ Waiting(d) IN
    [b \in DOMAIN offset \cup now_set |->
        IF b \in now_set THEN (target - Edges(now + d)) * Second ELSE offset[b]]

Pass(d) == now' = now + d /\ offset' = Taken(d) /\ waiting' = Waiting(d)

\* A step of the host, after its sleep.
Takes(sleep) == \E delay \in 0 .. MaxDelay : Pass(sleep + delay)

Goto(from, to) == pc = from /\ pc' = to

\* The two queries before the loop.
QueryLast ==
    /\ Goto("last", "next")
    /\ Takes(0)
    /\ last' = Edges(now')
    /\ UNCHANGED <<mode, boards, ahead, begun, next, target, set>>

QueryNext ==
    /\ Goto("next", "while")
    /\ Takes(0)
    /\ next' = Edges(now')
    /\ UNCHANGED <<mode, boards, ahead, begun, last, target, set>>

\* Mutant: the loop does not ask again.
NotAsked == next

\* get_time_last_pps in the loop
Asked == Edges(now')

\* A turn of the loop, which waits for an edge.
AwaitEdge ==
    /\ Goto("while", "while") /\ last = next
    /\ Takes(PollSleep)
    /\ last' = next /\ next' = Asked
    /\ UNCHANGED <<mode, boards, ahead, begun, target, set>>

\* Mutant: the sensor is read without the sleep.
ReadGpsAtOnce == Takes(0) /\ \E lag \in 0 .. SensorLag : target' = Edges(now' - lag) + 1

\* The sleep behind the loop, then gps_time + 1.
ReadGps == Takes(SettleSleep) /\ \E lag \in 0 .. SensorLag : target' = Edges(now' - lag) + 1

ReadGpsTime ==
    /\ Goto("while", "set") /\ last # next
    /\ ReadGps
    /\ UNCHANGED <<mode, boards, ahead, begun, last, next, set>>

\* Mutant: the seconds that have passed on the host.
PassedSeconds(t) == t \div Second

\* np.ceil(time.time())
CeilSeconds(t) == (t + Second - 1) \div Second

ReadSystemTime ==
    /\ mode = "multi" /\ Goto("system", "set")
    /\ Takes(0)
    /\ target' = CeilSeconds(now' + ahead)
    /\ UNCHANGED <<mode, boards, ahead, begun, last, next, set>>

\* set_time_next_pps visits one board after the other.
SetTimeNextPps ==
    /\ pc = "set" /\ set < boards
    /\ \E delay \in 0 .. MaxDelay :
         /\ now' = now + delay
         /\ offset' = Taken(delay)
         /\ waiting' = Waiting(delay) \cup {set + 1}
    /\ set' = set + 1
    /\ UNCHANGED <<pc, mode, boards, ahead, begun, last, next, target>>

\* set_time_now with the host's time, which gets older on its way to the board.
SetTimeNow ==
    /\ mode = "single" /\ Goto("system", "edge")
    /\ \E age \in 0 .. MaxDelay :
         now' = now + age /\ offset' = <<ahead - age>>
    /\ UNCHANGED <<waiting, mode, boards, ahead, begun, last, next, target, set>>

\* The constructor goes on while the boards wait for their next edge.
NextEdge ==
    /\ pc = "set" /\ set = boards /\ pc' = "edge"
    /\ Pass(Second - (now % Second))
    /\ UNCHANGED <<mode, boards, ahead, begun, last, next, target, set>>

ClockNext ==
    \/ QueryLast
    \/ QueryNext
    \/ AwaitEdge
    \/ ReadGpsTime
    \/ ReadSystemTime
    \/ SetTimeNextPps
    \/ SetTimeNow
    \/ NextEdge

ClockSpec == (\E multi, locked \in BOOLEAN : ClockInit(multi, locked)) /\ [][ClockNext]_clockVars
-----------------------------------------------------------------------------
\* With GPS all boards run with GPS time from the next edge on, however long the steps
\* take and whenever the set-up begins: the number told after the loop and the sleep is
\* that of the coming edge, and no edge comes between two boards
\* (phy_layer.py:470-491; "maybe a check would be in order?", :492).
BoardsFollowGps ==
    mode = "gps" /\ pc = "edge" =>
        DOMAIN offset = 1 .. boards /\ \A b \in 1 .. boards : offset[b] = 0

\* Without GPS the boards follow the host.  Several boards may be told on both sides of
\* an edge and then differ by a second, but by nothing else, and none is off from the
\* host's clock by more than that second and the delays (phy_layer.py:493-501).
BoardsFollowHost ==
    mode # "gps" /\ pc = "edge" => \A b \in 1 .. boards :
        /\ offset[b] - ahead <= IF mode = "single" THEN 0 ELSE Second
        /\ offset[b] - ahead >= -(IF mode = "single" THEN MaxDelay ELSE Second + MaxBoards * MaxDelay)
        /\ offset[1] - offset[b] \in {0, Second}

\* The loop ends with the first edge: the constructor is not held up for longer than two
\* seconds and the delays (phy_layer.py:480-490).
SetUpInTime == now - begun <= 2 * Second + PollSleep + SettleSleep + (MaxBoards + 4) * MaxDelay
=============================================================================
