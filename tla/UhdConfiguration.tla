--------------------------- MODULE UhdConfiguration ---------------------------
(***************************************************************************)
(* How a station gets its configuration and its device                     *)
(* (python/uhd_configuration.py).  A configuration is a function from      *)
(* paths <<section, name, key>> to values; sections without names have the *)
(* name "".  What the search for devices returns is external.              *)
(***************************************************************************)
EXTENDS Integers, Sequences, FiniteSets, SequencesExt

CONSTANTS
    Hostname,      \* the host that loads its configuration
    FileChoices,   \* what its configuration files may say
    FoundChoices,  \* what the search may find for each name of a device
    Stations,      \* hosts that choose a device on one network
    Networks       \* network devices and USB devices they may find

DeviceNames == UNION { DOMAIN found : found \in FoundChoices }

\* A host's devices are a list of different names; the search is asked for each and never
\* answers with the word that stands for a missing value (uhd_configuration.py:166).
ASSUME FilesAssumption ==
    /\ \A files \in FileChoices :
         \A file \in {files.defaults, files.inventory, files.hosts, files.specific} :
           \A p \in DOMAIN file :
             /\ p = <<p[1], p[2], p[3]>>
             /\ p[1] = "hosts" /\ p[3] = "usrp" =>
                  file[p] \in Seq(DeviceNames) \ {<<>>} /\ IsInjective(file[p])
    /\ "N/A" \in DeviceNames
    /\ \A found \in FoundChoices :
         /\ DOMAIN found = DeviceNames
         /\ \A name \in DeviceNames : \A key \in DOMAIN found[name] : found[name][key] # "N/A"

VARIABLES
    loaded,   \* the configuration that was loaded, with what it was made of
    network,  \* the devices there are
    taken     \* per station: the device chosen, NoDevice, or nothing yet

configVars == <<loaded, network, taken>>

Raised == [raised |-> TRUE]

\* dict.update: what f says is laid over what g says.
f ++ g == [x \in DOMAIN f \cup DOMAIN g |-> IF x \in DOMAIN f THEN f[x] ELSE g[x]]

Only(key, value) == [k \in {key} |-> value]

Get(dict, key, default) == IF key \in DOMAIN dict THEN dict[key] ELSE default

Sections(file) == { p[1] : p \in DOMAIN file }
Has(config, section, name) == \E p \in DOMAIN config : p[1] = section /\ p[2] = name

\* config[section][name], or without the name for a section of parameters.
Entry(config, section, name) ==
    [key \in { p[3] : p \in { p \in DOMAIN config : p[1] = section /\ p[2] = name } } |->
        config[<<section, name, key>>]]

\* dict.update of a whole configuration: each section of the file replaces the other.
Update(config, file) ==
    file ++ [p \in { p \in DOMAIN config : p[1] \notin Sections(file) } |-> config[p]]

\* update_nested_dict
UpdateNested(config, file) == file ++ config

\* What the inventory says of a device; of one it does not know, that it is a b200.  The
\* defaults have all sections, so there is one of devices.
InventoryEntry(config, name) ==
    IF Has(config, "usrps", name) THEN Entry(config, "usrps", name) ELSE Only("type", "b200")

\* Mutant: the defaults of the type lie under what the inventory says of the device.
DeviceOverDefaults(config, found, name) ==
    LET entry == InventoryEntry(config, name)
        device == found ++ entry ++ Entry(config, "usrp_defaults", entry["type"])
    IN  Only("usrp", Get(device, "name", name)) ++ device

\* load_single_device_config: the defaults of the type are laid over the device, and what
\* the search found over both.
SingleDevice(config, found, name) ==
    LET entry == InventoryEntry(config, name)
        device == found ++ Entry(config, "usrp_defaults", entry["type"]) ++ entry
    IN  Only("usrp", Get(device, "name", name)) ++ device

\* KeyError: the inventory says no type, or the type has no defaults, which also happens
\* to a device that is not in the inventory if a file replaces the defaults.
SingleDeviceRaises(config, name) ==
    LET entry == InventoryEntry(config, name) IN
    "type" \notin DOMAIN entry \/ ~Has(config, "usrp_defaults", entry["type"])

EqualKeys == {"product", "type", "claimed", "fpga"}

\* Mutant: nothing is compared.
MergedAnyway(devs) ==
    IF \E i \in DOMAIN devs : ~(DOMAIN devs[1] \subseteq DOMAIN devs[i]) THEN Raised
    ELSE [key \in DOMAIN devs[1] \ {"primary_host"} |->
            IF \A i \in DOMAIN devs : devs[i][key] = devs[1][key]
            THEN devs[1][key] ELSE [i \in DOMAIN devs |-> devs[i][key]]]

\* load_device_config: one value if the devices agree, else the list of their values.
\* Keys that only later devices have are left out; a key that one of them lacks raises.
MergedDevices(devs) ==
    IF \/ \E key \in EqualKeys : \E i \in DOMAIN devs :
            Get(devs[i], key, "N/A") # Get(devs[1], key, "N/A")
       \/ \E i \in DOMAIN devs : ~(DOMAIN devs[1] \subseteq DOMAIN devs[i])
    THEN Raised
    ELSE [key \in DOMAIN devs[1] \ {"primary_host"} |->
            IF \A i \in DOMAIN devs : devs[i][key] = devs[1][key]
            THEN devs[1][key] ELSE [i \in DOMAIN devs |-> devs[i][key]]]

Device(config, found, names) ==
    IF \E i \in DOMAIN names : SingleDeviceRaises(config, names[i]) THEN Raised
    ELSE MergedDevices([i \in DOMAIN names |-> SingleDevice(config, found[names[i]], names[i])])

\* The files laid over the defaults; a missing file is empty.
Config(files) ==
    UpdateNested(Update(Update(files.defaults, files.inventory), files.hosts), files.specific)

\* load_default_configuration on this host.
LoadDefaultConfiguration(files, found, hostname) ==
    LET config     == Config(files)
        hostconfig == Entry(config, "hosts", hostname)
        role       == Get(hostconfig, "role", "device")
        device     == Device(config, found, Get(hostconfig, "usrp", <<"N/A">>))
    IN  IF ~Has(config, "roles", role) \/ device = Raised THEN Raised
        ELSE hostconfig ++ device ++ Entry(config, "roles", role) ++ Only("role", role)
             ++ Entry(config, "database_defaults", "") ++ Entry(config, "flowgraph_defaults", "")
             ++ Only("hostname", hostname)

Load ==
    /\ loaded = <<>>
    /\ \E files \in FileChoices, found \in FoundChoices :
         loaded' = [files |-> files, found |-> found,
                    options |-> LoadDefaultConfiguration(files, found, Hostname)]
    /\ UNCHANGED <<network, taken>>
-----------------------------------------------------------------------------
\* Devices for a station without an address: a device is at the network, or at the USB
\* of one station, and has a primary host if the inventory names one.  It fits the
\* inventory if it has a serial number, the entry with that number has its type and its
\* product and names a primary host, or there is no such entry.
NoDevice == "none"

\* A serial number names one device, which is not the word that says there is none; a
\* device with USB is at one host only (uhd_configuration.py:79-80, 126).
ASSUME NetworkAssumption ==
    /\ "network" \notin Stations
    /\ \A devices \in Networks :
         /\ IsFiniteSet(devices)
         /\ \A d, e \in devices : d.serial = e.serial => d = e
         /\ \A d \in devices : /\ d.serial # NoDevice /\ d.fits \in BOOLEAN
                               /\ d.type = "b200" => d.at # "network"

\* The first of these devices that was found.
FirstOf(devices, wanted) ==
    LET places == { i \in DOMAIN devices : devices[i] \in wanted } IN
    IF places = {} THEN NoDevice ELSE devices[Min(places)].serial

\* find_primary_device, find_usb_device
PrimaryDevice(devices, station) ==
    FirstOf(devices, { d \in Range(devices) : d.primary_host = station })
UsbDevice(devices) == FirstOf(devices, { d \in Range(devices) : d.type = "b200" })

\* add_config_info raises on a device that does not fit what the inventory says of it, even
\* if another one would be taken.
AddConfigInfoRaises(devices) == \E d \in Range(devices) : ~d.fits

\* Mutant: the first device is taken if none is this host's.
DeviceOrFirst(devices, station) ==
    LET primary == PrimaryDevice(devices, station) IN
    IF AddConfigInfoRaises(devices) THEN NoDevice
    ELSE IF primary # NoDevice \/ devices = <<>> THEN primary ELSE devices[1].serial

\* get_device.  The station does not start without a device, whether get_device raises or
\* returns nothing (phy_layer.py:431-432).
GetDevice(devices, station) ==
    LET primary == PrimaryDevice(devices, station) IN
    IF AddConfigInfoRaises(devices) THEN NoDevice
    ELSE IF Len(devices) = 1 THEN devices[1].serial
    ELSE IF primary # NoDevice THEN primary
    ELSE UsbDevice(devices)

\* What a station finds, in the order of the answers.
Seen(station) == { d \in network : d.at \in {"network", station} }

\* A station starts; whether another one has claimed a device does not matter.
StartStation ==
    /\ \E station \in Stations \ DOMAIN taken : \E devices \in SetToSeqs(Seen(station)) :
         taken' = Only(station, GetDevice(devices, station)) ++ taken
    /\ UNCHANGED <<loaded, network>>

ConfigInit ==
    /\ loaded = <<>>
    /\ network \in Networks
    /\ taken = <<>>

ConfigNext == Load \/ StartStation

ConfigSpec == ConfigInit /\ [][ConfigNext]_configVars

-----------------------------------------------------------------------------
\* What a section says of a key: the specific file, or else the last file that has the
\* section at all, or else the defaults.
Said(section, name, key) ==
    LET path == <<section, name, key>>
        f    == loaded.files
        file == IF path \in DOMAIN f.specific THEN f.specific
                ELSE IF section \in Sections(f.hosts) THEN f.hosts
                ELSE IF section \in Sections(f.inventory) THEN f.inventory ELSE f.defaults
    IN  IF path \in DOMAIN file THEN <<file[path]>> ELSE <<>>

HostSaid(key) == Said("hosts", Hostname, key)

\* The devices of this host, and the type that is looked up for one.
HostDevices == IF HostSaid("usrp") = <<>> THEN <<"N/A">> ELSE HostSaid("usrp")[1]
LookedUpType(device) ==
    LET declared == Said("usrps", device, "type") IN
    IF declared = <<>> THEN "b200" ELSE declared[1]

\* Every parameter of a station with one device has the value of the first that speaks
\* of it: the host, the device as found, the defaults of its type, the inventory, the
\* role, the database, the flowgraph; and the first file that speaks for each of them
\* (uhd_configuration.py:149-159, 216-248).  Only primary_host is taken away from the
\* device (:176).
FirstSpeakerWins ==
    loaded # <<>> /\ loaded.options # Raised /\ Len(HostDevices) = 1 =>
        LET device == HostDevices[1]
            found  == loaded.found[device]
            type   == LookedUpType(device)
            role   == HostSaid("role")
            Spoken(key) ==
                << HostSaid(key),
                   IF key \in DOMAIN found THEN <<found[key]>> ELSE <<>>,
                   Said("usrp_defaults", type, key),
                   IF key = "type" THEN <<type>> ELSE Said("usrps", device, key),
                   Said("roles", IF role = <<>> THEN "device" ELSE role[1], key),
                   Said("database_defaults", "", key),
                   Said("flowgraph_defaults", "", key) >>
        IN  \A key \in DOMAIN loaded.options \ {"hostname", "role", "usrp", "primary_host"} :
                \E i \in 1 .. 7 :
                    /\ Spoken(key)[i] # <<>>
                    /\ \A j \in 1 .. i - 1 : Spoken(key)[j] = <<>>
                    /\ loaded.options[key] = Spoken(key)[i][1]

\* A station with several devices starts only if those found agree on type, product,
\* image and claim, and a device lacks one of these that another was found with only if
\* the files say it instead: boards that were found are not put together with others of
\* which nobody knows.  What all were found with is known of each, in their order, unless
\* the host says it for all (uhd_configuration.py:162-177).
DevicesAgree ==
    loaded # <<>> /\ loaded.options # Raised =>
        LET places   == DOMAIN HostDevices
            found(i) == loaded.found[HostDevices[i]]
            Asked(i, key) == key \in DOMAIN found(i)
        IN  /\ \A key \in EqualKeys : \A i, j \in places :
                 Asked(i, key) =>
                    IF Asked(j, key) THEN found(i)[key] = found(j)[key]
                    ELSE \/ key = "type" \/ Said("usrps", HostDevices[j], key) # <<>>
                         \/ Said("usrp_defaults", LookedUpType(HostDevices[j]), key) # <<>>
            /\ \A key \in DOMAIN found(1) \ {"hostname", "role", "usrp", "primary_host"} :
                 (\A i \in places : Asked(i, key)) /\ HostSaid(key) = <<>> =>
                    loaded.options[key] =
                        IF \A i \in places : found(i)[key] = found(1)[key]
                        THEN found(1)[key] ELSE [i \in places |-> found(i)[key]]

\* Two stations take one device only if one of them sees no other device: then it takes
\* what it sees, no matter whose it is or who claimed it (uhd_configuration.py:109-138).
DevicesNotShared ==
    \A a, b \in DOMAIN taken :
        a # b /\ taken[a] = taken[b] /\ taken[a] # NoDevice
            => Cardinality(Seen(a)) = 1 \/ Cardinality(Seen(b)) = 1
=============================================================================
