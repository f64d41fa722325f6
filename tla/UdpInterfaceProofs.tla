-------------------------- MODULE UdpInterfaceProofs --------------------------
(***************************************************************************)
(* The UDP ports of stations, for any number of stations, any width of the *)
(* identifiers and all arguments.                                          *)
(***************************************************************************)
EXTENDS UdpInterface, TLAPS

\* The controller of a port.
ControllerAt(s, i) ==
    [dst_id |-> args[s].dst_id + (i - 1), src_id |-> args[s].src_id,
     mtu_size |-> args[s].mtu_size,
     server_port |-> PortBase + args[s].dst_id + (i - 1),
     client_port |-> PortBase + args[s].src_id + (i - 1)]

\* What the constructor has built so far belongs to the first ports, each with the
\* identifiers and UDP ports of its number; only the base station gets beyond the first.
StationInv(s) ==
    /\ built[s] = [i \in 1 .. Len(built[s]) |-> ControllerAt(s, i)]
    /\ Len(built[s]) \in Nat /\ Len(built[s]) <= args[s].nports
    /\ built[s] # <<>> => args[s].src_id = 0 \/ args[s].nports <= 1

InterfaceInv ==
    /\ args \in [Stations -> Arguments]
    /\ outcome \in [Stations -> {"building", "running", "RuntimeError", "invalid_argument"}]
    /\ DOMAIN built = Stations
    /\ \A s \in Stations : StationInv(s)

LEMMA ArgumentTypes ==
    ASSUME InterfaceInv, NEW s \in Stations
    PROVE  /\ args[s].src_id \in Nat /\ args[s].dst_id \in Nat /\ args[s].nports \in Nat
           /\ PortBase \in Nat
BY InterfaceAssumption DEF InterfaceInv

\* A turn of the loop over the ports builds the controller of the next port.
LEMMA AddPortInv ==
    ASSUME InterfaceInv, NEW s \in Stations, AddPort(s)
    PROVE  InterfaceInv'
<1> DEFINE n == Len(built[s])
           x == [dst_id |-> args[s].dst_id + n, src_id |-> args[s].src_id,
                 mtu_size |-> args[s].mtu_size,
                 server_port |-> ServerPort(s, n), client_port |-> ClientPort(s, n)]
<1>1. /\ args' = args /\ ~InvalidConfig(s) /\ n < args[s].nports /\ n \in Nat
      /\ \/ built' = built /\ outcome' = [outcome EXCEPT ![s] = "invalid_argument"]
         \/ built' = [built EXCEPT ![s] = Append(@, x)] /\ outcome' = outcome
  BY DEF AddPort, InterfaceInv, StationInv
<1>2. CASE built' = built /\ outcome' = [outcome EXCEPT ![s] = "invalid_argument"]
  <2>1. \A r \in Stations : StationInv(r)'
    BY <1>1, <1>2 DEF InterfaceInv, StationInv, ControllerAt
  <2>2. QED
    BY <1>1, <1>2, <2>1 DEF InterfaceInv
<1>3. CASE built' = [built EXCEPT ![s] = Append(@, x)] /\ outcome' = outcome
  <2>1. built'[s] = Append(built[s], x)
    BY <1>3 DEF InterfaceInv
  <2>2. x = ControllerAt(s, n + 1)
    BY <1>1 DEF ControllerAt, ServerPort, ClientPort
  <2> HIDE DEF x
  <2>3. built[s] = [i \in 1 .. n |-> ControllerAt(s, i)]
    BY DEF InterfaceInv, StationInv
  <2>4. /\ built'[s] = [i \in 1 .. n + 1 |-> ControllerAt(s, i)]
        /\ Len(built'[s]) = n + 1
    BY <1>1, <2>1, <2>2, <2>3
  <2>5. StationInv(s)'
    BY <1>1, <2>4, ArgumentTypes DEF StationInv, ControllerAt, InvalidConfig
  <2>6. ASSUME NEW r \in Stations, r # s PROVE StationInv(r)'
    <3>1. built'[r] = built[r]
      BY <1>3, <2>6 DEF InterfaceInv
    <3>2. QED
      BY <1>1, <3>1 DEF InterfaceInv, StationInv, ControllerAt
  <2>7. QED
    BY <1>1, <1>3, <2>5, <2>6 DEF InterfaceInv
<1>4. QED
  BY <1>1, <1>2, <1>3

LEMMA InterfaceNextInv == InterfaceInv /\ [InterfaceNext]_interfaceVars => InterfaceInv'
<1> SUFFICES ASSUME InterfaceInv, [InterfaceNext]_interfaceVars PROVE InterfaceInv'
  OBVIOUS
<1>1. ASSUME UNCHANGED <<args, built>>,
             outcome' \in [Stations -> {"building", "running", "RuntimeError", "invalid_argument"}]
      PROVE  InterfaceInv'
  BY <1>1 DEF InterfaceInv, StationInv, ControllerAt
<1>2. CASE UNCHANGED interfaceVars
  BY <1>1, <1>2 DEF interfaceVars, InterfaceInv
<1>3. ASSUME NEW s \in Stations, RaiseInvalidConfig(s) PROVE InterfaceInv'
  BY <1>1, <1>3 DEF RaiseInvalidConfig, InterfaceInv
<1>4. ASSUME NEW s \in Stations, Run(s) PROVE InterfaceInv'
  BY <1>1, <1>4 DEF Run, InterfaceInv
<1>5. QED
  BY <1>2, <1>3, <1>4, AddPortInv DEF InterfaceNext

\* Every controller of a station is the one of its port.
LEMMA ControllerHasPort ==
    ASSUME InterfaceInv, NEW s \in Stations, NEW x \in ControllersOf(s)
    PROVE  \E i \in 1 .. Len(built[s]) :
             /\ i \in Nat /\ i >= 1 /\ i <= args[s].nports
             /\ x = ControllerAt(s, i)
             /\ args[s].src_id # 0 => i = 1
<1>1. /\ built[s] = [j \in 1 .. Len(built[s]) |-> ControllerAt(s, j)]
      /\ Len(built[s]) \in Nat /\ Len(built[s]) <= args[s].nports
      /\ built[s] # <<>> => args[s].src_id = 0 \/ args[s].nports <= 1
  BY DEF InterfaceInv, StationInv
<1>2. PICK i \in DOMAIN built[s] : x = built[s][i]
  BY DEF ControllersOf, ToSet
<1>3. i \in 1 .. Len(built[s]) /\ built[s] # <<>>
  BY <1>1, <1>2
<1>4. x = ControllerAt(s, i)
  BY <1>1, <1>2, <1>3
<1>5. QED
  BY <1>1, <1>3, <1>4, ArgumentTypes

LEMMA InterfaceInitInv == InterfaceInit => InterfaceInv
<1> SUFFICES ASSUME InterfaceInit PROVE InterfaceInv
  OBVIOUS
<1>1. ASSUME NEW s \in Stations PROVE StationInv(s)
  <2>1. built[s] = <<>> /\ Len(built[s]) = 0 /\ args[s].nports \in Nat
    BY InterfaceAssumption DEF InterfaceInit
  <2>2. QED
    BY <2>1 DEF StationInv
<1>2. QED
  BY <1>1 DEF InterfaceInit, InterfaceInv

\* What an application sends to the base station's port for a device comes out at the port
\* of the same number on the device's host, and no two devices share a port of the base
\* station, for any number of stations and all arguments (udp_interface.py:51-90, README.md
\* of the repository, "Network tools usage").
THEOREM PortsAlwaysFollowIds == InterfaceSpec => []PortsFollowIds
<1>1. InterfaceInv => PortsFollowIds
  <2> SUFFICES ASSUME InterfaceInv,
                      NEW bs \in Stations, NEW dev \in Stations,
                      args[bs].src_id = 0, args[dev].src_id # 0
               PROVE  /\ \A x \in ControllersOf(bs), y \in ControllersOf(dev) :
                           ArePeers(x, y) => x.server_port = y.client_port
                      /\ \A x, y \in ControllersOf(bs) :
                           x.client_port = y.client_port \/ x.server_port = y.server_port => x = y
    BY DEF PortsFollowIds
  <2>1. ASSUME NEW x \in ControllersOf(bs), NEW y \in ControllersOf(dev), ArePeers(x, y)
        PROVE  x.server_port = y.client_port
    <3>1. PICK i \in 1 .. Len(built[bs]) : x = ControllerAt(bs, i) /\ i \in Nat
      BY ControllerHasPort
    <3>2. y = ControllerAt(dev, 1)
      BY ControllerHasPort
    <3>3. x.server_port = PortBase + x.dst_id
      BY <3>1, ArgumentTypes DEF ControllerAt
    <3>4. y.client_port = PortBase + y.src_id
      BY <3>2, ArgumentTypes DEF ControllerAt
    <3>5. QED
      BY <2>1, <3>3, <3>4 DEF ArePeers
  <2>2. ASSUME NEW x \in ControllersOf(bs), NEW y \in ControllersOf(bs),
               x.client_port = y.client_port \/ x.server_port = y.server_port
        PROVE  x = y
    <3>1. PICK i \in 1 .. Len(built[bs]) : x = ControllerAt(bs, i) /\ i \in Nat
      BY ControllerHasPort
    <3>2. PICK j \in 1 .. Len(built[bs]) : y = ControllerAt(bs, j) /\ j \in Nat
      BY ControllerHasPort
    <3>3. i = j
      BY <2>2, <3>1, <3>2, ArgumentTypes DEF ControllerAt
    <3>4. QED
      BY <3>1, <3>2, <3>3
  <2>3. QED
    BY <2>1, <2>2
<1>2. QED
  BY <1>1, InterfaceInitInv, InterfaceNextInv, PTL DEF InterfaceSpec

\* A station whose own identifier is at least its number of ports away from those of its
\* peers never receives from itself what it puts out on its host, base station or device
\* (udp_interface.py:51-90).
THEOREM NeverLocalLoop == InterfaceSpec => []NoLocalLoop
<1>1. InterfaceInv => NoLocalLoop
  <2> SUFFICES ASSUME InterfaceInv, NEW s \in Stations,
                      \/ args[s].dst_id >= args[s].src_id + args[s].nports
                      \/ args[s].src_id >= args[s].dst_id + args[s].nports,
                      NEW x \in ControllersOf(s), NEW y \in ControllersOf(s)
               PROVE  x.client_port # y.server_port
    BY DEF NoLocalLoop
  <2>1. PICK i \in 1 .. Len(built[s]) :
          x = ControllerAt(s, i) /\ i \in Nat /\ i >= 1 /\ i <= args[s].nports
    BY ControllerHasPort
  <2>2. PICK j \in 1 .. Len(built[s]) :
          y = ControllerAt(s, j) /\ j \in Nat /\ j >= 1 /\ j <= args[s].nports
    BY ControllerHasPort
  <2>3. x.client_port = PortBase + args[s].src_id + (i - 1)
    BY <2>1 DEF ControllerAt
  <2>4. y.server_port = PortBase + args[s].dst_id + (j - 1)
    BY <2>2 DEF ControllerAt
  <2>5. \A src, dst, n, k, l \in Nat :
          /\ dst >= src + n \/ src >= dst + n
          /\ k >= 1 /\ k <= n /\ l >= 1 /\ l <= n
          => PortBase + src + (k - 1) # PortBase + dst + (l - 1)
    BY InterfaceAssumption
  <2>6. PortBase + args[s].src_id + (i - 1) # PortBase + args[s].dst_id + (j - 1)
    BY <2>1, <2>2, <2>5, ArgumentTypes
  <2>7. QED
    BY <2>3, <2>4, <2>6
<1>2. QED
  BY <1>1, InterfaceInitInv, InterfaceNextInv, PTL DEF InterfaceSpec
=============================================================================
