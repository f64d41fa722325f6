------------------------------ MODULE MCStation ------------------------------
(* What happens before a station runs, and its user's calls while it runs.  The    *)
(* parts hand on nothing that another part's properties look at, so a behaviour    *)
(* goes through one of them.                                                       *)
EXTENDS UhdConfiguration, UsrpClock, PaddingConfiguration, HierBlocks, PhyControl,
        TacmacHeader

VARIABLE part

FrameLengths == 1 .. 1300

\* Bodies whose bytes overflow, and one with more bytes than a byte can count.
FrameBodies == {<<>>, <<255, 0, 254, 255>>, [i \in 1 .. 300 |-> (3 * i) % 256]}

mcVars == <<configVars, clockVars, paddingVars, built, controlVars, headerVars, part>>

\* Paths of one parameter, which every section may mention, in a file that says who spoke.
Flowgraph == <<"flowgraph_defaults", "", "addr">>
Role      == <<"roles", "device", "addr">>
DefaultOf(type) == <<"usrp_defaults", type, "addr">>
Usrp1     == <<"usrps", "first", "addr">>
Host      == <<"hosts", "host", "addr">>

Spoken(file, paths) == [p \in paths |-> file \o ":" \o p[1]]

\* tacmac_configuration_defaults.yml: all sections, the parameter in some of them.
Defaults ==
    { Spoken("defaults", paths) @@ (<<"roles", "device", "nports">> :> "1")
        @@ (<<"roles", "basestation", "nports">> :> "4")
        @@ (<<"database_defaults", "", "db_device_id">> :> "0")
        @@ (<<"usrp_defaults", "b200", "tx_gain">> :> "87")
        @@ (<<"usrp_defaults", "n3xx", "tx_gain">> :> "58")
        @@ (<<"usrps", "first", "type">> :> "n3xx")
        @@ (<<"hosts", "host", "usrp">> :> <<"first">>) :
      paths \in SUBSET {Flowgraph, Role, DefaultOf("n3xx")} }

\* tacmac_usrp_inventory.yml: none, devices, or devices and defaults for some types.
Inventories ==
    LET devices(type1, type2) ==
            (<<"usrps", "first", "type">> :> type1) @@ (<<"usrps", "second", "type">> :> type2)
        products == (<<"usrps", "first", "product">> :> "B210") @@ (<<"usrps", "second", "product">> :> "B210")
    IN  {<<>>, products @@ devices("b200", "b200")}
        \cup { Spoken("inventory", paths) @@ devices("n3xx", type) :
                 paths \in SUBSET {Usrp1, DefaultOf("n3xx")}, type \in {"n3xx", "b200"} }

\* tacmac_hosts.yml: none, or the host without devices, with one or two, and perhaps a role.
HostFiles ==
    {<<>>, <<"hosts", "host", "role">> :> "device"} \cup { (<<"hosts", "host", "usrp">> :> names) @@ Spoken("hosts", paths) @@ role :
                    names \in {<<"first">>, <<"first", "second">>}, paths \in SUBSET {Host},
                    role \in {<<>>, <<"hosts", "host", "role">> :> "basestation"} }

Specifics ==
    { Spoken("specific", paths) :
        paths \in { s \in SUBSET {Flowgraph, Role, DefaultOf("n3xx"), Usrp1, Host} : Cardinality(s) <= 2 } }

ConfigurationFiles ==
    [defaults : Defaults, inventory : Inventories, hosts : HostFiles, specific : Specifics]

\* What a search finds for a name: nothing, or the device of that name with its address.
FoundByName ==
    LET Device1(name, type) ==
            ("type" :> type) @@ ("serial" :> name)
            @@ (IF type = "n3xx" THEN ("claimed" :> "False") @@ ("addr" :> name)
                ELSE "product" :> "B210")
    IN
    { [name \in {"first", "second", "N/A"} |-> IF name \in names THEN Device1(name, type[name]) ELSE <<>>] :
        names \in {{}, {"first"}, {"second"}, {"first", "second"}},
        type \in {[first |-> "n3xx", second |-> "n3xx"], [first |-> "n3xx", second |-> "b200"],
                  [first |-> "b200", second |-> "b200"]} }

\* Devices at the network and at the USB of two hosts, whose they are, and whether the
\* inventory speaks of another device under their number.
NetworkDevices ==
    LET Known(s, type, at, hosts) ==
            { [serial |-> s, type |-> type, at |-> at, primary_host |-> h, fits |-> TRUE] : h \in hosts }
            \cup { [serial |-> s, type |-> type, at |-> at, primary_host |-> "unknown", fits |-> FALSE] }
        AtNetwork(s) == Known(s, "n3xx", "network", {"host", "other", "unknown"})
        AtUsb == Known("u", "b200", "host", {"host", "unknown"})
    IN  { n \in SUBSET (AtNetwork("x") \cup AtNetwork("y") \cup AtUsb) :
            n # {} /\ \A d, e \in n : d.serial = e.serial => d = e }

ConfigOff  == loaded = <<>> /\ network = {} /\ taken = <<>>
ClockOff   == /\ mode = "gps" /\ boards = 0 /\ ahead = 0 /\ now = 0 /\ begun = 0 /\ pc = "off"
              /\ last = 0 /\ next = 0 /\ target = 0 /\ set = 0 /\ waiting = {} /\ offset = <<>>
PaddingOff == PaddingInit
BlocksOff  == BlocksInit
ControlOff == ControlInit

MCInit ==
    \/ part = "devices" /\ ConfigInit /\ ClockOff /\ PaddingOff /\ BlocksOff /\ ControlOff /\ HeaderInit
    \/ /\ part = "usrps" /\ ConfigOff /\ PaddingOff /\ BlocksOff /\ ControlOff /\ HeaderInit
       /\ \E multi, locked \in BOOLEAN : ClockInit(multi, locked)
    \/ part \in {"configuration", "padding", "blocks", "control", "frame"}
       /\ ConfigOff /\ ClockOff /\ PaddingOff /\ BlocksOff /\ ControlOff /\ HeaderInit

MCNext ==
    /\ \/ /\ \/ part = "configuration" /\ Load
             \/ part = "devices" /\ StartStation
          /\ UNCHANGED <<clockVars, paddingVars, built, controlVars, headerVars>>
       \/ /\ part = "usrps" /\ ClockNext
          /\ UNCHANGED <<configVars, paddingVars, built, controlVars, headerVars>>
       \/ /\ part = "padding" /\ PaddingNext
          /\ UNCHANGED <<configVars, clockVars, built, controlVars, headerVars>>
       \/ /\ part = "blocks" /\ Construct
          /\ UNCHANGED <<configVars, clockVars, paddingVars, controlVars, headerVars>>
       \/ /\ part = "control" /\ ControlNext
          /\ UNCHANGED <<configVars, clockVars, paddingVars, built, headerVars>>
       \/ /\ part = "frame" /\ HeaderNext
          /\ UNCHANGED <<configVars, clockVars, paddingVars, built, controlVars>>
    /\ UNCHANGED part

MCSpec == MCInit /\ [][MCNext]_mcVars
=============================================================================
