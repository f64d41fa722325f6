---------------------------- MODULE UdpInterface ----------------------------
(***************************************************************************)
(* How a station is put together: the constructor of the UDP interface     *)
(* (python/udp_interface.py) and, for each port, that of a MAC controller  *)
(* (lib/mac_controller_impl.cc).  A constructor that throws ends the       *)
(* station.  Each station runs on a host of its own.                       *)
(***************************************************************************)
EXTENDS Integers, Sequences, SequencesExt

CONSTANTS
    Stations,
    Byte,       \* number of identifiers the header can carry (code: 256)
    PortBase,   \* UDP port of identifier 0                   (code: 4000)
    Arguments   \* what a station may be configured with:
                \* records [src_id, dst_id, nports, mtu_size]

ASSUME InterfaceAssumption ==
    /\ Byte \in Nat /\ PortBase \in Nat
    /\ Arguments \subseteq [src_id : Nat, dst_id : Nat, nports : Nat, mtu_size : Nat]

VARIABLES
    args,      \* arguments of each station
    built,     \* controllers built so far, with their UDP ports
    outcome    \* "building", "running" or the exception raised

interfaceVars == <<args, built, outcome>>

(***************************************************************************)
(* The checks of mac_controller_impl's constructor.                        *)
(***************************************************************************)
ConstructorThrows(dst_id, src_id, mtu_size) ==
    \/ src_id = dst_id
    \/ Byte < dst_id
    \/ Byte < src_id
    \/ mtu_size > Byte

\* Mutant: one server port for all controllers.
OneServerPort(s, port) == PortBase + args[s].dst_id

ServerPort(s, port) == PortBase + args[s].dst_id + port

\* Mutant: the client sends to the port the server listens on.
ServerAsClientPort(s, port) == PortBase + args[s].dst_id + port

ClientPort(s, port) == PortBase + args[s].src_id + port

InterfaceInit ==
    /\ args \in [Stations -> Arguments]
    /\ built = [s \in Stations |-> <<>>]
    /\ outcome = [s \in Stations |-> "building"]

\* Only the base station, identifier 0, may have several ports.
InvalidConfig(s) == args[s].src_id # 0 /\ args[s].nports > 1

RaiseInvalidConfig(s) ==
    /\ outcome[s] = "building"
    /\ InvalidConfig(s)
    /\ outcome' = [outcome EXCEPT ![s] = "RuntimeError"]
    /\ UNCHANGED <<args, built>>

\* One turn of the loop over the ports.
AddPort(s) ==
    LET port   == Len(built[s])
        dst_id == args[s].dst_id + port
        src_id == args[s].src_id
    IN  /\ outcome[s] = "building"
        /\ ~InvalidConfig(s)
        /\ port < args[s].nports
        /\ IF ConstructorThrows(dst_id, src_id, args[s].mtu_size)
           THEN /\ outcome' = [outcome EXCEPT ![s] = "invalid_argument"]
                /\ UNCHANGED built
           ELSE /\ built' = [built EXCEPT ![s] = Append(@,
                                [dst_id |-> dst_id, src_id |-> src_id,
                                 mtu_size |-> args[s].mtu_size,
                                 server_port |-> ServerPort(s, port),
                                 client_port |-> ClientPort(s, port)])]
                /\ UNCHANGED outcome
        /\ UNCHANGED args

Run(s) ==
    /\ outcome[s] = "building"
    /\ ~InvalidConfig(s)
    /\ Len(built[s]) >= args[s].nports
    /\ outcome' = [outcome EXCEPT ![s] = "running"]
    /\ UNCHANGED <<args, built>>

InterfaceNext == \E s \in Stations : RaiseInvalidConfig(s) \/ AddPort(s) \/ Run(s)

InterfaceSpec == InterfaceInit /\ [][InterfaceNext]_interfaceVars

-----------------------------------------------------------------------------
Running(s) == outcome[s] = "running"
ControllersOf(s) == ToSet(built[s])
ArePeers(x, y) == x.src_id = y.dst_id /\ x.dst_id = y.src_id

\* The addresses of README.md, "Network tools usage": what an application sends to
\* the base station's port 4000 + id is put out at port 4000 + id on the host of the
\* device with that id, and the base station has a port of its own for what comes
\* from each device.
PortsFollowIds ==
    \A bs, dev \in {s \in Stations : Running(s)} :
        args[bs].src_id = 0 /\ args[dev].src_id # 0 =>
            /\ \A x \in ControllersOf(bs), y \in ControllersOf(dev) :
                   ArePeers(x, y) => x.server_port = y.client_port
            /\ \A x, y \in ControllersOf(bs) :
                   x.client_port = y.client_port \/ x.server_port = y.server_port => x = y

\* Where the identifiers of the peers are as far from the station's own as its number
\* of ports, as with base station 0 and devices from 40 on, what a station, base or
\* device, puts out on its host never comes back in at one of its own UDP servers.
NoLocalLoop ==
    \A s \in Stations :
        /\ Running(s)
        /\ \/ args[s].dst_id >= args[s].src_id + args[s].nports
           \/ args[s].src_id >= args[s].dst_id + args[s].nports
        => \A x, y \in ControllersOf(s) : x.client_port # y.server_port

\* What the error messages of the controller's constructor say: identifiers and MTU of
\* a controller that was built are in [0, 256).
BuiltInRange ==
    \A s \in Stations : \A x \in ControllersOf(s) :
        x.dst_id < Byte /\ x.src_id < Byte /\ x.mtu_size < Byte
=============================================================================
