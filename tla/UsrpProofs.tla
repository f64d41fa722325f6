------------------------------ MODULE UsrpProofs ------------------------------
(***************************************************************************)
(* The boards of a station: which device it takes, with which              *)
(* configuration, and that their clocks are set as they should, for any    *)
(* number of boards and any instant at which the set-up begins.            *)
(***************************************************************************)
EXTENDS UhdConfiguration, UsrpClock, FiniteSetTheorems, SequenceTheorems, WellFoundedInduction, TLAPS

\* A set of numbers that is not empty has a least one.
LEMMA LeastExists ==
    ASSUME NEW S, S \subseteq Nat, S # {}
    PROVE  Min(S) \in S
<1> DEFINE Less == OpToRel(<, Nat)
<1>1. IsWellFoundedOn(Less, Nat)
  BY NatLessThanWellFounded
<1>2. PICK x \in S : \A y \in S : <<y, x>> \notin Less
  <2> HIDE DEF Less
  <2> QED
    BY <1>1, WFMin
<1>3. ASSUME NEW y \in S PROVE x <= y
  <2>1. x \in Nat /\ y \in Nat /\ <<y, x>> \notin Less
    BY <1>2
  <2>2. ~(y < x)
    BY <2>1 DEF OpToRel
  <2>3. \A m, n \in Nat : ~(n < m) => m <= n
    OBVIOUS
  <2> QED
    BY <2>1, <2>2, <2>3
<1> QED
  BY <1>3 DEF Min

\* The first of the devices wanted is one of them.
LEMMA FirstIsWanted ==
    ASSUME NEW n \in Nat, NEW S, NEW devices \in [1 .. n -> S], NEW wanted,
           FirstOf(devices, wanted) # NoDevice
    PROVE  \E d \in S \cap wanted : FirstOf(devices, wanted) = d.serial
<1> DEFINE places == { i \in DOMAIN devices : devices[i] \in wanted }
<1>1. places # {} /\ FirstOf(devices, wanted) = devices[Min(places)].serial
  BY DEF FirstOf
<1>2. places \subseteq Nat
  OBVIOUS
<1>3. Min(places) \in places
  <2> HIDE DEF places
  <2> QED
    BY <1>1, <1>2, LeastExists
<1> QED
  BY <1>1, <1>3

-----------------------------------------------------------------------------
\* A station has a device that is its own, one at USB, or the only one it sees.
DeviceOf(station) ==
    \/ taken[station] = NoDevice
    \/ Cardinality(Seen(station)) = 1
    \/ \E d \in Seen(station) :
         /\ taken[station] = d.serial
         /\ d.primary_host = station \/ d.type = "b200"

TakenInv ==
    /\ network \in Networks
    /\ DOMAIN taken \subseteq Stations
    /\ \A station \in DOMAIN taken : DeviceOf(station)

\* What get_device returns (uhd_configuration.py:121-138).
LEMMA DeviceTaken ==
    ASSUME network \in Networks, NEW station, NEW devices \in SetToSeqs(Seen(station))
    PROVE  LET device == GetDevice(devices, station) IN
           \/ device = NoDevice
           \/ Cardinality(Seen(station)) = 1
           \/ \E d \in Seen(station) :
                device = d.serial /\ (d.primary_host = station \/ d.type = "b200")
<1> DEFINE S == Seen(station)
           n == Cardinality(S)
<1>1. n \in Nat
  <2>1. IsFiniteSet(network) /\ S \subseteq network
    BY NetworkAssumption DEF Seen
  <2> QED
    BY <2>1, FS_Subset, FS_CardinalityType
<1>2. devices \in [1 .. n -> S]
  BY DEF SetToSeqs
<1> HIDE DEF n
<1>3. devices \in Seq(S) /\ Len(devices) = n
  BY <1>1, <1>2, LenProperties, SeqDef
<1>4. ASSUME NEW wanted, FirstOf(devices, wanted) # NoDevice
      PROVE  \E d \in S \cap wanted : FirstOf(devices, wanted) = d.serial
  <2>1. n \in Nat /\ devices \in [1 .. n -> S] /\ FirstOf(devices, wanted) # NoDevice
    BY <1>1, <1>2, <1>4
  <2> HIDE DEF S
  <2> QED
    BY <2>1, FirstIsWanted, SMTT(30)
<1> DEFINE own == { d \in Range(devices) : d.primary_host = station }
           usb == { d \in Range(devices) : d.type = "b200" }
<1>5. \/ n = 1 \/ GetDevice(devices, station) = NoDevice
      \/ GetDevice(devices, station) = FirstOf(devices, own) /\ FirstOf(devices, own) # NoDevice
      \/ GetDevice(devices, station) = FirstOf(devices, usb)
  BY <1>3 DEF GetDevice, PrimaryDevice, UsbDevice
<1>6. CASE GetDevice(devices, station) = FirstOf(devices, own) /\ FirstOf(devices, own) # NoDevice
  BY <1>4, <1>6
<1>7. CASE GetDevice(devices, station) = FirstOf(devices, usb)
  BY <1>4, <1>7
<1> QED
  BY <1>5, <1>6, <1>7 DEF n

LEMMA TakenStep == ASSUME TakenInv, [ConfigNext]_configVars PROVE TakenInv'
<1>1. ASSUME UNCHANGED <<network, taken>> PROVE TakenInv'
  BY <1>1 DEF TakenInv, DeviceOf, Seen
<1>2. CASE Load
  BY <1>1, <1>2 DEF Load
<1>3. CASE UNCHANGED configVars
  BY <1>1, <1>3 DEF configVars
<1>4. CASE StartStation
  <2>0. PICK station \in Stations \ DOMAIN taken : \E devices \in SetToSeqs(Seen(station)) :
          taken' = Only(station, GetDevice(devices, station)) ++ taken
    BY <1>4 DEF StartStation
  <2>1. PICK devices \in SetToSeqs(Seen(station)) :
          taken' = Only(station, GetDevice(devices, station)) ++ taken
    BY <2>0
  <2> DEFINE device == GetDevice(devices, station)
  <2>2. network' = network /\ \A s : Seen(s)' = Seen(s)
    BY <1>4 DEF StartStation, Seen
  <2>3. /\ DOMAIN taken' = {station} \cup DOMAIN taken
        /\ taken'[station] = device
        /\ \A s \in DOMAIN taken : taken'[s] = taken[s]
    <3> HIDE DEF device
    <3> QED
      BY <2>1 DEF Only, ++, device
  <2>4. DeviceOf(station)'
    BY <2>2, <2>3, DeviceTaken DEF DeviceOf, TakenInv
  <2>5. ASSUME NEW s \in DOMAIN taken PROVE DeviceOf(s)'
    BY <2>2, <2>3 DEF DeviceOf, TakenInv
  <2> QED
    BY <2>2, <2>3, <2>4, <2>5 DEF TakenInv
<1> QED
  BY <1>2, <1>3, <1>4 DEF ConfigNext

\* Whatever is found and in whatever order, two stations have one device only if one of
\* them sees no other (uhd_configuration.py:109-138).
THEOREM DevicesNeverShared == ConfigSpec => []DevicesNotShared
<1>1. ConfigInit => TakenInv
  BY DEF ConfigInit, TakenInv
<1>2. TakenInv => DevicesNotShared
  <2> SUFFICES ASSUME TakenInv, NEW a \in DOMAIN taken, NEW b \in DOMAIN taken,
                      a # b, taken[a] = taken[b], taken[a] # NoDevice,
                      Cardinality(Seen(a)) # 1, Cardinality(Seen(b)) # 1
               PROVE  FALSE
    BY DEF DevicesNotShared
  <2>1. PICK d \in Seen(a) : taken[a] = d.serial /\ (d.primary_host = a \/ d.type = "b200")
    BY DEF TakenInv, DeviceOf
  <2>2. PICK e \in Seen(b) : taken[b] = e.serial /\ (e.primary_host = b \/ e.type = "b200")
    BY DEF TakenInv, DeviceOf
  <2>3. /\ \A x, y \in network : x.serial = y.serial => x = y
        /\ \A x \in network : x.type = "b200" => x.at # "network"
    <3>1. network \in Networks
      BY DEF TakenInv
    <3> QED
      BY <3>1, NetworkAssumption
  <2>4. d = e
    <3>1. d \in network /\ e \in network
      BY DEF Seen
    <3>2. d.serial = e.serial
      BY <2>1, <2>2
    <3> QED
      BY <2>3, <3>1, <3>2
  <2>5. CASE d.type = "b200"
    <3>1. d \in network /\ d.at \in {"network", a} /\ d.at \in {"network", b}
      BY <2>4 DEF Seen
    <3>2. d.at # "network"
      BY <2>3, <2>5, <3>1
    <3> QED
      BY <3>1, <3>2
  <2>6. CASE d.type # "b200"
    BY <2>1, <2>2, <2>4, <2>6
  <2> QED
    BY <2>5, <2>6
<1> QED
  BY <1>1, <1>2, TakenStep, PTL DEF ConfigSpec
-----------------------------------------------------------------------------
\* Every path of a file or a configuration names a section, an entry and a key.
Paths(dict) == \A p \in DOMAIN dict : p = <<p[1], p[2], p[3]>>

LEMMA OverFacts ==
    ASSUME NEW f, NEW g
    PROVE  /\ DOMAIN (f ++ g) = DOMAIN f \cup DOMAIN g
           /\ \A x \in DOMAIN f : (f ++ g)[x] = f[x]
           /\ \A x \in DOMAIN g : x \notin DOMAIN f => (f ++ g)[x] = g[x]
BY DEF ++

LEMMA OnlyFacts ==
    ASSUME NEW key, NEW value
    PROVE  DOMAIN Only(key, value) = {key} /\ Only(key, value)[key] = value
BY DEF Only

\* A section of the file replaces the whole section (uhd_configuration.py:225-226).
LEMMA UpdateFacts ==
    ASSUME NEW config, NEW file, Paths(config), Paths(file)
    PROVE  /\ Paths(Update(config, file))
           /\ \A s, n, k :
                LET path   == <<s, n, k>>
                    source == IF s \in Sections(file) THEN file ELSE config
                IN  /\ path \in DOMAIN Update(config, file) <=> path \in DOMAIN source
                    /\ path \in DOMAIN source => Update(config, file)[path] = source[path]
<1> DEFINE rest == [p \in { p \in DOMAIN config : p[1] \notin Sections(file) } |-> config[p]]
<1>1. Update(config, file) = file ++ rest
  BY DEF Update
<1>2. /\ DOMAIN (file ++ rest) = DOMAIN file \cup DOMAIN rest
      /\ \A x \in DOMAIN file : (file ++ rest)[x] = file[x]
      /\ \A x \in DOMAIN rest : x \notin DOMAIN file => (file ++ rest)[x] = rest[x]
  <2> HIDE DEF rest
  <2> QED
    BY OverFacts
<1>3. DOMAIN rest = { p \in DOMAIN config : p[1] \notin Sections(file) } /\ \A p \in DOMAIN rest : rest[p] = config[p]
  OBVIOUS
<1>4. \A p \in DOMAIN file : p[1] \in Sections(file)
  BY DEF Sections
<1> HIDE DEF rest
<1>5. Paths(Update(config, file))
  BY <1>1, <1>2, <1>3 DEF Paths
<1>6. ASSUME NEW s, NEW n, NEW k
      PROVE  LET path   == <<s, n, k>>
                 source == IF s \in Sections(file) THEN file ELSE config
             IN  /\ path \in DOMAIN Update(config, file) <=> path \in DOMAIN source
                 /\ path \in DOMAIN source => Update(config, file)[path] = source[path]
  <2>1. <<s, n, k>>[1] = s
    OBVIOUS
  <2>2. CASE s \in Sections(file)
    BY <2>1, <2>2, <1>1, <1>2, <1>3
  <2>3. CASE s \notin Sections(file)
    BY <2>1, <2>3, <1>1, <1>2, <1>3, <1>4
  <2> QED
    BY <2>2, <2>3
<1> QED
  BY <1>5, <1>6

\* What the merged configuration says is what the first file says that speaks
\* (uhd_configuration.py:216-227).
LEMMA ConfigSaid ==
    ASSUME loaded.files \in FileChoices
    PROVE  /\ Paths(Config(loaded.files))
           /\ \A s, n, k :
                /\ <<s, n, k>> \in DOMAIN Config(loaded.files) <=> Said(s, n, k) # <<>>
                /\ Said(s, n, k) # <<>> =>
                     /\ Said(s, n, k) = <<Config(loaded.files)[<<s, n, k>>]>>
                     /\ Said(s, n, k)[1] = Config(loaded.files)[<<s, n, k>>]
<1> DEFINE f == loaded.files
           one == Update(f.defaults, f.inventory)
           two == Update(one, f.hosts)
<1>1. Paths(f.defaults) /\ Paths(f.inventory) /\ Paths(f.hosts) /\ Paths(f.specific)
  BY FilesAssumption DEF Paths
<1>2. Paths(one) /\ Paths(two)
  BY <1>1, UpdateFacts
<1>3. Config(f) = f.specific ++ two
  BY DEF Config, UpdateNested
<1>4. /\ DOMAIN Config(f) = DOMAIN f.specific \cup DOMAIN two
      /\ \A x \in DOMAIN f.specific : Config(f)[x] = f.specific[x]
      /\ \A x \in DOMAIN two : x \notin DOMAIN f.specific => Config(f)[x] = two[x]
  <2> DEFINE top == f.specific
  <2> HIDE DEF two, top
  <2>1. /\ DOMAIN (top ++ two) = DOMAIN top \cup DOMAIN two
        /\ \A x \in DOMAIN top : (top ++ two)[x] = top[x]
        /\ \A x \in DOMAIN two : x \notin DOMAIN top => (top ++ two)[x] = two[x]
    BY OverFacts
  <2>2. Config(f) = top ++ two
    BY <1>3 DEF top
  <2> QED
    BY <2>1, <2>2 DEF top
<1>5. Paths(Config(f))
  BY <1>1, <1>2, <1>4 DEF Paths
<1>6. ASSUME NEW s, NEW n, NEW k
      PROVE  /\ <<s, n, k>> \in DOMAIN Config(f) <=> Said(s, n, k) # <<>>
             /\ Said(s, n, k) # <<>> =>
                  /\ Said(s, n, k) = <<Config(f)[<<s, n, k>>]>>
                  /\ Said(s, n, k)[1] = Config(f)[<<s, n, k>>]
  <2> DEFINE path == <<s, n, k>>
             inv == IF s \in Sections(f.inventory) THEN f.inventory ELSE f.defaults
             mid == IF s \in Sections(f.hosts) THEN f.hosts ELSE inv
             file == IF path \in DOMAIN f.specific THEN f.specific ELSE mid
  <2>1. /\ path \in DOMAIN one <=> path \in DOMAIN inv
        /\ path \in DOMAIN inv => one[path] = inv[path]
    BY <1>1, UpdateFacts
  <2>2. LET source == IF s \in Sections(f.hosts) THEN f.hosts ELSE one IN
        /\ path \in DOMAIN two <=> path \in DOMAIN source
        /\ path \in DOMAIN source => two[path] = source[path]
    <3> HIDE DEF one
    <3> QED
      BY <1>1, <1>2, UpdateFacts
  <2>3. /\ path \in DOMAIN two <=> path \in DOMAIN mid
        /\ path \in DOMAIN mid => two[path] = mid[path]
    BY <2>1, <2>2
  <2>4. /\ path \in DOMAIN Config(f) <=> path \in DOMAIN file
        /\ path \in DOMAIN file => Config(f)[path] = file[path]
    BY <2>3, <1>4
  <2>5. Said(s, n, k) = IF path \in DOMAIN file THEN <<file[path]>> ELSE <<>>
    BY DEF Said
  <2> HIDE DEF path, file
  <2>6. Said(s, n, k) # <<>> <=> path \in DOMAIN file
    BY <2>5
  <2>7. path \in DOMAIN Config(f) <=> Said(s, n, k) # <<>>
    BY <2>4, <2>6
  <2>8. ASSUME path \in DOMAIN file
        PROVE  Said(s, n, k) = <<Config(f)[path]>> /\ Said(s, n, k)[1] = Config(f)[path]
    BY <2>4, <2>5, <2>8
  <2> QED
    BY <2>6, <2>7, <2>8 DEF path
<1> QED
  BY <1>5, <1>6

LEMMA EntryFacts ==
    ASSUME NEW config, Paths(config), NEW s, NEW n
    PROVE  /\ \A k : k \in DOMAIN Entry(config, s, n) <=> <<s, n, k>> \in DOMAIN config
           /\ \A k \in DOMAIN Entry(config, s, n) : Entry(config, s, n)[k] = config[<<s, n, k>>]
           /\ Has(config, s, n) <=> \E k : k \in DOMAIN Entry(config, s, n)
<1>1. DOMAIN Entry(config, s, n) = { p[3] : p \in { p \in DOMAIN config : p[1] = s /\ p[2] = n } }
  BY DEF Entry
<1>2. ASSUME NEW k, <<s, n, k>> \in DOMAIN config PROVE k \in DOMAIN Entry(config, s, n)
  <2>1. <<s, n, k>>[1] = s /\ <<s, n, k>>[2] = n /\ <<s, n, k>>[3] = k
    OBVIOUS
  <2> QED
    BY <2>1, <1>1, <1>2
<1>3. ASSUME NEW k \in DOMAIN Entry(config, s, n) PROVE <<s, n, k>> \in DOMAIN config
  <2>1. PICK p \in DOMAIN config : p[1] = s /\ p[2] = n /\ k = p[3]
    BY <1>1
  <2>2. p = <<p[1], p[2], p[3]>>
    BY DEF Paths
  <2> QED
    BY <2>1, <2>2
<1>4. \A k \in DOMAIN Entry(config, s, n) : Entry(config, s, n)[k] = config[<<s, n, k>>]
  BY DEF Entry
<1>5. Has(config, s, n) <=> \E k : k \in DOMAIN Entry(config, s, n)
  BY <1>1 DEF Has
<1> QED
  BY <1>2, <1>3, <1>4, <1>5
-----------------------------------------------------------------------------
\* What load_default_configuration has returned, if it has.
LoadedInv ==
    loaded # <<>> =>
        /\ loaded.files \in FileChoices /\ loaded.found \in FoundChoices
        /\ loaded.options = LoadDefaultConfiguration(loaded.files, loaded.found, Hostname)

LEMMA LoadedAlways == ConfigSpec => []LoadedInv
<1>1. ConfigInit => LoadedInv
  BY DEF ConfigInit, LoadedInv
<1>2. LoadedInv /\ [ConfigNext]_configVars => LoadedInv'
  <2> SUFFICES ASSUME LoadedInv, [ConfigNext]_configVars PROVE LoadedInv'
    OBVIOUS
  <2>1. CASE Load
    <3>1. PICK files \in FileChoices : \E found \in FoundChoices :
            loaded' = [files |-> files, found |-> found,
                       options |-> LoadDefaultConfiguration(files, found, Hostname)]
      BY <2>1 DEF Load
    <3>2. PICK found \in FoundChoices :
            loaded' = [files |-> files, found |-> found,
                       options |-> LoadDefaultConfiguration(files, found, Hostname)]
      BY <3>1
    <3> QED
      BY <3>2 DEF LoadedInv
  <2>2. CASE loaded' = loaded
    BY <2>2 DEF LoadedInv
  <2> QED
    BY <2>1, <2>2 DEF ConfigNext, StartStation, configVars
<1> QED
  BY <1>1, <1>2, PTL DEF ConfigSpec

\* What the configuration says under a section and a name.
LEMMA EntrySaid ==
    ASSUME loaded.files \in FileChoices, NEW s, NEW n
    PROVE  LET entry == Entry(Config(loaded.files), s, n) IN
           /\ \A k : k \in DOMAIN entry <=> Said(s, n, k) # <<>>
           /\ \A k \in DOMAIN entry : entry[k] = Said(s, n, k)[1]
           /\ Has(Config(loaded.files), s, n) <=> \E k : k \in DOMAIN entry
<1> DEFINE config == Config(loaded.files)
<1>1. /\ Paths(config)
      /\ \A k : /\ <<s, n, k>> \in DOMAIN config <=> Said(s, n, k) # <<>>
                /\ Said(s, n, k) # <<>> => Said(s, n, k)[1] = config[<<s, n, k>>]
  BY ConfigSaid
<1> HIDE DEF config
<1>2. /\ \A k : k \in DOMAIN Entry(config, s, n) <=> <<s, n, k>> \in DOMAIN config
      /\ \A k \in DOMAIN Entry(config, s, n) : Entry(config, s, n)[k] = config[<<s, n, k>>]
      /\ Has(config, s, n) <=> \E k : k \in DOMAIN Entry(config, s, n)
  BY <1>1, EntryFacts
<1>3. \A k \in DOMAIN Entry(config, s, n) : Said(s, n, k) # <<>>
  BY <1>1, <1>2
<1> QED
  BY <1>1, <1>2, <1>3 DEF config

DeclaredOf(name, key) == IF key = "type" THEN <<LookedUpType(name)>> ELSE Said("usrps", name, key)

LEMMA InventorySaid ==
    ASSUME loaded.files \in FileChoices, NEW name,
           ~SingleDeviceRaises(Config(loaded.files), name)
    PROVE  LET entry == InventoryEntry(Config(loaded.files), name) IN
           /\ entry["type"] = LookedUpType(name)
           /\ \A key : key \in DOMAIN entry <=> DeclaredOf(name, key) # <<>>
           /\ \A key \in DOMAIN entry : entry[key] = DeclaredOf(name, key)[1]
<1> DEFINE config == Config(loaded.files)
           inventory == Entry(config, "usrps", name)
           entry == InventoryEntry(config, name)
           type == LookedUpType(name)
<1>1. /\ \A k : k \in DOMAIN inventory <=> Said("usrps", name, k) # <<>>
      /\ \A k \in DOMAIN inventory : inventory[k] = Said("usrps", name, k)[1]
      /\ Has(config, "usrps", name) <=> \E k : k \in DOMAIN inventory
  BY EntrySaid
<1>2. Has(config, "usrps", name) => "type" \in DOMAIN inventory
  BY DEF SingleDeviceRaises, InventoryEntry
<1>3. entry = IF Has(config, "usrps", name) THEN inventory ELSE Only("type", "b200")
  BY DEF InventoryEntry
<1>4. type = IF Said("usrps", name, "type") = <<>> THEN "b200" ELSE Said("usrps", name, "type")[1]
  BY DEF LookedUpType
<1>5. \A key : DeclaredOf(name, key) = IF key = "type" THEN <<type>> ELSE Said("usrps", name, key)
  BY DEF DeclaredOf
<1>6. <<type>> # <<>> /\ <<type>>[1] = type
  OBVIOUS
<1> HIDE DEF inventory, config, entry, type
<1>7. CASE Has(config, "usrps", name)
  <2>1. entry = inventory /\ type = inventory["type"]
    BY <1>1, <1>2, <1>3, <1>4, <1>7
  <2> QED
    BY <2>1, <1>1, <1>2, <1>5, <1>6, <1>7 DEF entry, type, config
<1>8. CASE ~Has(config, "usrps", name)
  <2>1. \A key : Said("usrps", name, key) = <<>>
    BY <1>1, <1>8
  <2>2. DOMAIN entry = {"type"} /\ entry["type"] = "b200" /\ type = "b200"
    BY <1>3, <1>4, <1>8, <2>1, OnlyFacts
  <2> QED
    BY <2>1, <2>2, <1>5, <1>6 DEF entry, type, config
<1> QED
  BY <1>7, <1>8

\* One device: what was found, the defaults of its type, the inventory
\* (uhd_configuration.py:149-159).
LEMMA SingleSaid ==
    ASSUME loaded.files \in FileChoices, NEW found, NEW name, NEW key,
           ~SingleDeviceRaises(Config(loaded.files), name), key # "usrp"
    PROVE  LET dev      == SingleDevice(Config(loaded.files), found, name)
               default  == Said("usrp_defaults", LookedUpType(name), key)
               declared == DeclaredOf(name, key)
           IN  /\ key \in DOMAIN dev <=> key \in DOMAIN found \/ default # <<>> \/ declared # <<>>
               /\ key \in DOMAIN found => dev[key] = found[key]
               /\ key \notin DOMAIN found /\ default # <<>> => dev[key] = default[1]
               /\ key \notin DOMAIN found /\ default = <<>> /\ declared # <<>> => dev[key] = declared[1]
<1> DEFINE config   == Config(loaded.files)
           entry    == InventoryEntry(config, name)
           defaults == Entry(config, "usrp_defaults", entry["type"])
           device   == found ++ defaults ++ entry
           own      == Only("usrp", Get(device, "name", name))
<1>1. SingleDevice(config, found, name) = own ++ device
  BY DEF SingleDevice
<1>2. /\ entry["type"] = LookedUpType(name)
      /\ key \in DOMAIN entry <=> DeclaredOf(name, key) # <<>>
      /\ key \in DOMAIN entry => entry[key] = DeclaredOf(name, key)[1]
  BY InventorySaid
<1>3. /\ key \in DOMAIN defaults <=> Said("usrp_defaults", LookedUpType(name), key) # <<>>
      /\ key \in DOMAIN defaults => defaults[key] = Said("usrp_defaults", LookedUpType(name), key)[1]
  BY <1>2, EntrySaid
<1>4. DOMAIN own = {"usrp"}
  BY OnlyFacts
<1> HIDE DEF config, entry, defaults, own
<1>5. /\ key \in DOMAIN device <=> key \in DOMAIN found \/ key \in DOMAIN defaults \/ key \in DOMAIN entry
      /\ key \in DOMAIN found => device[key] = found[key]
      /\ key \notin DOMAIN found /\ key \in DOMAIN defaults => device[key] = defaults[key]
      /\ key \notin DOMAIN found /\ key \notin DOMAIN defaults /\ key \in DOMAIN entry
            => device[key] = entry[key]
  <2> DEFINE both == found ++ defaults
  <2>1. /\ DOMAIN both = DOMAIN found \cup DOMAIN defaults
        /\ \A x \in DOMAIN found : both[x] = found[x]
        /\ \A x \in DOMAIN defaults : x \notin DOMAIN found => both[x] = defaults[x]
    BY OverFacts
  <2> HIDE DEF both
  <2>2. /\ DOMAIN (both ++ entry) = DOMAIN both \cup DOMAIN entry
        /\ \A x \in DOMAIN both : (both ++ entry)[x] = both[x]
        /\ \A x \in DOMAIN entry : x \notin DOMAIN both => (both ++ entry)[x] = entry[x]
    BY OverFacts
  <2> QED
    BY <2>1, <2>2 DEF both
<1> HIDE DEF device
<1>6. /\ DOMAIN (own ++ device) = DOMAIN own \cup DOMAIN device
      /\ \A x \in DOMAIN device : x \notin DOMAIN own => (own ++ device)[x] = device[x]
  BY OverFacts
<1>7. /\ key \in DOMAIN (own ++ device) <=> key \in DOMAIN device
      /\ key \in DOMAIN device => (own ++ device)[key] = device[key]
  BY <1>4, <1>6
<1> QED
  BY <1>1, <1>2, <1>3, <1>5, <1>7 DEF config

-----------------------------------------------------------------------------
\* The list of devices of this host, and its role (uhd_configuration.py:231-241).
LEMMA HostFacts ==
    ASSUME loaded.files \in FileChoices
    PROVE  LET host == Entry(Config(loaded.files), "hosts", Hostname) IN
           /\ HostDevices = Get(host, "usrp", <<"N/A">>)
           /\ HostDevices \in Seq(DeviceNames) \ {<<>>}
           /\ Get(host, "role", "device") =
                IF HostSaid("role") = <<>> THEN "device" ELSE HostSaid("role")[1]
<1> DEFINE config == Config(loaded.files)
           host == Entry(config, "hosts", Hostname)
           f == loaded.files
           path == <<"hosts", Hostname, "usrp">>
<1>1. /\ \A k : k \in DOMAIN host <=> HostSaid(k) # <<>>
      /\ \A k \in DOMAIN host : host[k] = HostSaid(k)[1]
  BY EntrySaid DEF HostSaid
<1>2. HostDevices = Get(host, "usrp", <<"N/A">>)
  BY <1>1 DEF HostDevices, Get
<1>3. Get(host, "role", "device") = IF HostSaid("role") = <<>> THEN "device" ELSE HostSaid("role")[1]
  BY <1>1 DEF Get
<1>4. ASSUME HostSaid("usrp") # <<>>
      PROVE  HostSaid("usrp")[1] \in Seq(DeviceNames) \ {<<>>}
  <2>1. PICK file \in {f.defaults, f.inventory, f.hosts, f.specific} :
          HostSaid("usrp") = IF path \in DOMAIN file THEN <<file[path]>> ELSE <<>>
    BY DEF HostSaid, Said
  <2>2. path \in DOMAIN file /\ HostSaid("usrp")[1] = file[path]
    BY <2>1, <1>4
  <2>3. path[1] = "hosts" /\ path[3] = "usrp"
    OBVIOUS
  <2> HIDE DEF path
  <2> QED
    BY <2>2, <2>3, FilesAssumption
<1>5. <<"N/A">> \in Seq(DeviceNames) \ {<<>>}
  BY FilesAssumption
<1> QED
  BY <1>2, <1>3, <1>4, <1>5 DEF HostDevices

RoleName == IF HostSaid("role") = <<>> THEN "device" ELSE HostSaid("role")[1]

Devices ==
    [i \in DOMAIN HostDevices |->
        SingleDevice(Config(loaded.files), loaded.found[HostDevices[i]], HostDevices[i])]

\* What a station starts with: the host, its devices, the role, the database and the
\* flowgraph (uhd_configuration.py:228-248).
LEMMA OptionsSaid ==
    ASSUME LoadedInv, loaded # <<>>, loaded.options # Raised,
           NEW key, key \notin {"hostname", "role"}
    PROVE  LET options == loaded.options
               device  == MergedDevices(Devices)
               role    == Said("roles", RoleName, key)
               data    == Said("database_defaults", "", key)
               flow    == Said("flowgraph_defaults", "", key)
           IN  /\ device # Raised
               /\ \A i \in DOMAIN HostDevices :
                    ~SingleDeviceRaises(Config(loaded.files), HostDevices[i])
               /\ key \in DOMAIN options =>
                    \/ HostSaid(key) # <<>> \/ key \in DOMAIN device
                    \/ role # <<>> \/ data # <<>> \/ flow # <<>>
               /\ HostSaid(key) # <<>> => options[key] = HostSaid(key)[1]
               /\ HostSaid(key) = <<>> =>
                    /\ key \in DOMAIN device => options[key] = device[key]
                    /\ key \notin DOMAIN device =>
                         /\ role # <<>> => options[key] = role[1]
                         /\ role = <<>> /\ data # <<>> => options[key] = data[1]
                         /\ role = <<>> /\ data = <<>> /\ flow # <<>> => options[key] = flow[1]
<1> DEFINE config == Config(loaded.files)
           found  == loaded.found
           device == MergedDevices(Devices)
           host   == Entry(config, "hosts", Hostname)
           roles  == Entry(config, "roles", RoleName)
           given  == Only("role", RoleName)
           data   == Entry(config, "database_defaults", "")
           flow   == Entry(config, "flowgraph_defaults", "")
           name   == Only("hostname", Hostname)
           all    == host ++ device ++ roles ++ given ++ data ++ flow ++ name
<1>1. loaded.files \in FileChoices
  BY DEF LoadedInv
<1>2. HostDevices = Get(host, "usrp", <<"N/A">>) /\ RoleName = Get(host, "role", "device")
  BY <1>1, HostFacts DEF RoleName
<1>3. Device(config, found, HostDevices) =
        IF \E i \in DOMAIN HostDevices : SingleDeviceRaises(config, HostDevices[i]) THEN Raised
        ELSE device
  BY DEF Device, Devices
<1>4. loaded.options =
        IF ~Has(config, "roles", RoleName) \/ Device(config, found, HostDevices) = Raised THEN Raised
        ELSE host ++ Device(config, found, HostDevices) ++ roles ++ given ++ data ++ flow ++ name
  BY <1>2 DEF LoadedInv, LoadDefaultConfiguration
<1>5. /\ device # Raised /\ loaded.options = all
      /\ \A i \in DOMAIN HostDevices : ~SingleDeviceRaises(config, HostDevices[i])
  <2> HIDE DEF device, host, roles, given, data, flow, name, config
  <2> QED
    BY <1>3, <1>4
<1>6. /\ key \in DOMAIN host <=> HostSaid(key) # <<>>
      /\ key \in DOMAIN host => host[key] = HostSaid(key)[1]
  BY <1>1, EntrySaid DEF HostSaid
<1>7. /\ key \in DOMAIN roles <=> Said("roles", RoleName, key) # <<>>
      /\ key \in DOMAIN roles => roles[key] = Said("roles", RoleName, key)[1]
  BY <1>1, EntrySaid
<1>8. /\ key \in DOMAIN data <=> Said("database_defaults", "", key) # <<>>
      /\ key \in DOMAIN data => data[key] = Said("database_defaults", "", key)[1]
  BY <1>1, EntrySaid
<1>9. /\ key \in DOMAIN flow <=> Said("flowgraph_defaults", "", key) # <<>>
      /\ key \in DOMAIN flow => flow[key] = Said("flowgraph_defaults", "", key)[1]
  BY <1>1, EntrySaid
<1>10. key \notin DOMAIN given /\ key \notin DOMAIN name
  <2>1. DOMAIN given = {"role"} /\ DOMAIN name = {"hostname"}
    BY DEF Only
  <2> HIDE DEF given, name
  <2> QED
    BY <2>1
<1>11. \A f, g : /\ key \in DOMAIN (f ++ g) <=> key \in DOMAIN f \/ key \in DOMAIN g
                 /\ key \in DOMAIN f => (f ++ g)[key] = f[key]
                 /\ key \notin DOMAIN f /\ key \in DOMAIN g => (f ++ g)[key] = g[key]
  BY DEF ++
<1> HIDE DEF device, host, roles, given, data, flow, name, config
<1>12. LET one == host ++ device ++ roles IN
       /\ key \in DOMAIN one <=> key \in DOMAIN host \/ key \in DOMAIN device \/ key \in DOMAIN roles
       /\ key \in DOMAIN host => one[key] = host[key]
       /\ key \notin DOMAIN host /\ key \in DOMAIN device => one[key] = device[key]
       /\ key \notin DOMAIN host /\ key \notin DOMAIN device /\ key \in DOMAIN roles => one[key] = roles[key]
  BY <1>11
<1> DEFINE one == host ++ device ++ roles
           two == one ++ given ++ data
           whole == two ++ flow ++ name
<1> HIDE DEF one
<1>13. /\ key \in DOMAIN two <=> key \in DOMAIN one \/ key \in DOMAIN data
       /\ key \in DOMAIN one => two[key] = one[key]
       /\ key \notin DOMAIN one /\ key \in DOMAIN data => two[key] = data[key]
  BY <1>10, <1>11
<1> HIDE DEF two
<1>14. /\ key \in DOMAIN whole <=> key \in DOMAIN two \/ key \in DOMAIN flow
       /\ key \in DOMAIN two => whole[key] = two[key]
       /\ key \notin DOMAIN two /\ key \in DOMAIN flow => whole[key] = flow[key]
  BY <1>10, <1>11
<1>15. loaded.options = whole
  BY <1>5 DEF one, two
<1> HIDE DEF whole
<1>16. /\ key \in DOMAIN whole <=> \/ key \in DOMAIN host \/ key \in DOMAIN device \/ key \in DOMAIN roles
                                  \/ key \in DOMAIN data \/ key \in DOMAIN flow
       /\ key \in DOMAIN host => whole[key] = host[key]
       /\ key \notin DOMAIN host =>
            /\ key \in DOMAIN device => whole[key] = device[key]
            /\ key \notin DOMAIN device =>
                 /\ key \in DOMAIN roles => whole[key] = roles[key]
                 /\ key \notin DOMAIN roles =>
                      /\ key \in DOMAIN data => whole[key] = data[key]
                      /\ key \notin DOMAIN data /\ key \in DOMAIN flow => whole[key] = flow[key]
  BY <1>12, <1>13, <1>14 DEF one
<1>17. \A i \in DOMAIN HostDevices : ~SingleDeviceRaises(Config(loaded.files), HostDevices[i])
  BY <1>5 DEF config
<1>18. MergedDevices(Devices) # Raised
  BY <1>5 DEF device
<1> QED
  BY <1>6, <1>7, <1>8, <1>9, <1>15, <1>16, <1>17, <1>18 DEF device

\* Several devices are merged if they are equal in what they must be
\* (uhd_configuration.py:162-177).
LEMMA MergedFacts ==
    ASSUME NEW devs, MergedDevices(devs) # Raised
    PROVE  /\ \A key \in EqualKeys : \A i \in DOMAIN devs :
                Get(devs[i], key, "N/A") = Get(devs[1], key, "N/A")
           /\ DOMAIN MergedDevices(devs) = DOMAIN devs[1] \ {"primary_host"}
           /\ \A key \in DOMAIN devs[1] \ {"primary_host"} :
                MergedDevices(devs)[key] =
                    IF \A i \in DOMAIN devs : devs[i][key] = devs[1][key]
                    THEN devs[1][key] ELSE [i \in DOMAIN devs |-> devs[i][key]]
<1>1. /\ \A key \in EqualKeys : \A i \in DOMAIN devs :
            Get(devs[i], key, "N/A") = Get(devs[1], key, "N/A")
      /\ MergedDevices(devs) =
            [key \in DOMAIN devs[1] \ {"primary_host"} |->
                IF \A i \in DOMAIN devs : devs[i][key] = devs[1][key]
                THEN devs[1][key] ELSE [i \in DOMAIN devs |-> devs[i][key]]]
  BY DEF MergedDevices
<1> QED
  BY <1>1

-----------------------------------------------------------------------------
\* For all files, whatever they say, and whatever is found: every parameter of a station with
\* one device has the value of the first that speaks of it (uhd_configuration.py:149-248).
THEOREM FirstSpeakerAlwaysWins == ConfigSpec => []FirstSpeakerWins
<1>1. LoadedInv => FirstSpeakerWins
  <2> DEFINE device == HostDevices[1]
             found  == loaded.found[device]
             type   == LookedUpType(device)
             dev    == SingleDevice(Config(loaded.files), found, device)
  <2> SUFFICES ASSUME LoadedInv, loaded # <<>>, loaded.options # Raised, Len(HostDevices) = 1,
                      NEW key \in DOMAIN loaded.options \ {"hostname", "role", "usrp", "primary_host"}
               PROVE  LET spoken ==
                            << HostSaid(key),
                               IF key \in DOMAIN found THEN <<found[key]>> ELSE <<>>,
                               Said("usrp_defaults", type, key),
                               IF key = "type" THEN <<type>> ELSE Said("usrps", device, key),
                               Said("roles", RoleName, key),
                               Said("database_defaults", "", key),
                               Said("flowgraph_defaults", "", key) >>
                      IN  \E i \in 1 .. 7 :
                            /\ spoken[i] # <<>>
                            /\ \A j \in 1 .. i - 1 : spoken[j] = <<>>
                            /\ loaded.options[key] = spoken[i][1]
    BY DEF FirstSpeakerWins, RoleName
  <2> DEFINE merged == MergedDevices(Devices)
             own == IF key \in DOMAIN found THEN <<found[key]>> ELSE <<>>
  <2>1. loaded.files \in FileChoices /\ HostDevices \in Seq(DeviceNames) /\ DOMAIN HostDevices = {1}
    <3>1. loaded.files \in FileChoices /\ HostDevices \in Seq(DeviceNames)
      BY HostFacts DEF LoadedInv
    <3>2. 1 .. 1 = {1}
      OBVIOUS
    <3> QED
      BY <3>1, <3>2
  <2>2. DOMAIN Devices = {1} /\ Devices[1] = dev
    BY <2>1 DEF Devices
  <2>3. /\ merged # Raised
        /\ ~SingleDeviceRaises(Config(loaded.files), device)
    BY <2>1, OptionsSaid
  <2>4. /\ key \in DOMAIN merged <=> key \in DOMAIN dev
        /\ key \in DOMAIN dev => merged[key] = dev[key]
    <3> DEFINE devs == Devices
    <3>1. /\ DOMAIN MergedDevices(devs) = DOMAIN devs[1] \ {"primary_host"}
          /\ \A k \in DOMAIN devs[1] \ {"primary_host"} :
               MergedDevices(devs)[k] =
                   IF \A i \in DOMAIN devs : devs[i][k] = devs[1][k]
                   THEN devs[1][k] ELSE [i \in DOMAIN devs |-> devs[i][k]]
      <4>1. MergedDevices(devs) # Raised
        BY <2>3
      <4> HIDE DEF devs
      <4> QED
        BY <4>1, MergedFacts
    <3> HIDE DEF dev
    <3> QED
      BY <3>1, <2>2
  <2>5. /\ key \in DOMAIN dev <=>
             key \in DOMAIN found \/ Said("usrp_defaults", type, key) # <<>> \/ DeclaredOf(device, key) # <<>>
        /\ key \in DOMAIN found => dev[key] = found[key]
        /\ key \notin DOMAIN found /\ Said("usrp_defaults", type, key) # <<>> =>
             dev[key] = Said("usrp_defaults", type, key)[1]
        /\ key \notin DOMAIN found /\ Said("usrp_defaults", type, key) = <<>>
             /\ DeclaredOf(device, key) # <<>> => dev[key] = DeclaredOf(device, key)[1]
    <3> HIDE DEF device, found
    <3> QED
      BY <2>1, <2>3, SingleSaid
  <2>6. /\ \/ HostSaid(key) # <<>> \/ key \in DOMAIN merged \/ Said("roles", RoleName, key) # <<>>
           \/ Said("database_defaults", "", key) # <<>> \/ Said("flowgraph_defaults", "", key) # <<>>
        /\ HostSaid(key) # <<>> => loaded.options[key] = HostSaid(key)[1]
        /\ HostSaid(key) = <<>> =>
             /\ key \in DOMAIN merged => loaded.options[key] = merged[key]
             /\ key \notin DOMAIN merged =>
                  /\ Said("roles", RoleName, key) # <<>> =>
                       loaded.options[key] = Said("roles", RoleName, key)[1]
                  /\ Said("roles", RoleName, key) = <<>> /\ Said("database_defaults", "", key) # <<>> =>
                       loaded.options[key] = Said("database_defaults", "", key)[1]
                  /\ Said("roles", RoleName, key) = <<>> /\ Said("database_defaults", "", key) = <<>>
                       /\ Said("flowgraph_defaults", "", key) # <<>> =>
                       loaded.options[key] = Said("flowgraph_defaults", "", key)[1]
    BY OptionsSaid
  <2>7. /\ own # <<>> <=> key \in DOMAIN found
        /\ key \in DOMAIN found => own[1] = found[key]
    OBVIOUS
  <2>8. DeclaredOf(device, key) = IF key = "type" THEN <<type>> ELSE Said("usrps", device, key)
    BY DEF DeclaredOf
  <2> DEFINE s1 == HostSaid(key)
             s3 == Said("usrp_defaults", type, key)
             s4 == DeclaredOf(device, key)
             s5 == Said("roles", RoleName, key)
             s6 == Said("database_defaults", "", key)
             s7 == Said("flowgraph_defaults", "", key)
             spoken == << s1, own, s3, s4, s5, s6, s7 >>
             value == loaded.options[key]
  <2>9. \/ s1 # <<>> /\ value = s1[1]
        \/ s1 = <<>> /\ own # <<>> /\ value = own[1]
        \/ s1 = <<>> /\ own = <<>> /\ s3 # <<>> /\ value = s3[1]
        \/ s1 = <<>> /\ own = <<>> /\ s3 = <<>> /\ s4 # <<>> /\ value = s4[1]
        \/ s1 = <<>> /\ own = <<>> /\ s3 = <<>> /\ s4 = <<>> /\ s5 # <<>> /\ value = s5[1]
        \/ s1 = <<>> /\ own = <<>> /\ s3 = <<>> /\ s4 = <<>> /\ s5 = <<>> /\ s6 # <<>> /\ value = s6[1]
        \/ /\ s1 = <<>> /\ own = <<>> /\ s3 = <<>> /\ s4 = <<>> /\ s5 = <<>> /\ s6 = <<>>
           /\ s7 # <<>> /\ value = s7[1]
    <3> HIDE DEF dev, found, type, merged, own, device
    <3> QED
      BY <2>4, <2>5, <2>6, <2>7
  <2>10. \E i \in 1 .. 7 : /\ spoken[i] # <<>>
                           /\ \A j \in 1 .. i - 1 : spoken[j] = <<>>
                           /\ value = spoken[i][1]
    <3> HIDE DEF s1, own, s3, s4, s5, s6, s7, value
    <3>1. /\ spoken[1] = s1 /\ spoken[2] = own /\ spoken[3] = s3 /\ spoken[4] = s4
          /\ spoken[5] = s5 /\ spoken[6] = s6 /\ spoken[7] = s7
      OBVIOUS
    <3> HIDE DEF spoken
    <3> QED
      BY <2>9, <3>1
  <2> QED
    BY <2>10, <2>8
<1> QED
  BY <1>1, LoadedAlways, PTL

\* For any number of devices: a station does not start with devices that were found to be
\* different, nor with some of which less is known than the search told of others; what all
\* were found with is kept for each (uhd_configuration.py:162-177).
THEOREM DevicesAlwaysAgree == ConfigSpec => []DevicesAgree
<1>1. LoadedInv => DevicesAgree
  <2> DEFINE places == DOMAIN HostDevices
             found(i) == loaded.found[HostDevices[i]]
             devs == Devices
             merged == MergedDevices(devs)
  <2> SUFFICES ASSUME LoadedInv, loaded # <<>>, loaded.options # Raised
               PROVE  /\ \A key \in EqualKeys : \A i, j \in places :
                           key \in DOMAIN found(i) =>
                              IF key \in DOMAIN found(j) THEN found(i)[key] = found(j)[key]
                              ELSE \/ key = "type" \/ Said("usrps", HostDevices[j], key) # <<>>
                                   \/ Said("usrp_defaults", LookedUpType(HostDevices[j]), key) # <<>>
                      /\ \A key \in DOMAIN found(1) \ {"hostname", "role", "usrp", "primary_host"} :
                           (\A i \in places : key \in DOMAIN found(i)) /\ HostSaid(key) = <<>> =>
                              loaded.options[key] =
                                  IF \A i \in places : found(i)[key] = found(1)[key]
                                  THEN found(1)[key] ELSE [i \in places |-> found(i)[key]]
    BY DEF DevicesAgree
  <2>1. /\ loaded.files \in FileChoices /\ loaded.found \in FoundChoices
        /\ HostDevices \in Seq(DeviceNames) /\ HostDevices # <<>>
    BY HostFacts DEF LoadedInv
  <2>2. 1 \in places /\ \A i \in places : HostDevices[i] \in DeviceNames
    BY <2>1
  <2>3. \A i \in places : \A key \in DOMAIN found(i) : found(i)[key] # "N/A"
    BY <2>1, <2>2, FilesAssumption
  <2>4. /\ merged # Raised
        /\ \A i \in places : ~SingleDeviceRaises(Config(loaded.files), HostDevices[i])
    <3>1. "addr" \notin {"hostname", "role"}
      OBVIOUS
    <3> QED
      BY <3>1, OptionsSaid
  <2>5. /\ DOMAIN devs = places
        /\ \A i \in places : devs[i] = SingleDevice(Config(loaded.files), found(i), HostDevices[i])
    BY DEF Devices
  <2>6. /\ \A key \in EqualKeys : \A i \in DOMAIN devs :
             Get(devs[i], key, "N/A") = Get(devs[1], key, "N/A")
        /\ DOMAIN merged = DOMAIN devs[1] \ {"primary_host"}
        /\ \A key \in DOMAIN devs[1] \ {"primary_host"} :
             merged[key] = IF \A i \in DOMAIN devs : devs[i][key] = devs[1][key]
                           THEN devs[1][key] ELSE [i \in DOMAIN devs |-> devs[i][key]]
    <3> HIDE DEF devs
    <3> QED
      BY <2>4, MergedFacts
  <2>7. ASSUME NEW i \in places, NEW key, key # "usrp"
        PROVE  /\ key \in DOMAIN found(i) => key \in DOMAIN devs[i] /\ devs[i][key] = found(i)[key]
               /\ key \in DOMAIN devs[i] /\ key \notin DOMAIN found(i) =>
                    \/ key = "type" \/ Said("usrps", HostDevices[i], key) # <<>>
                    \/ Said("usrp_defaults", LookedUpType(HostDevices[i]), key) # <<>>
    <3> DEFINE name == HostDevices[i]
               that == loaded.found[name]
               dev  == SingleDevice(Config(loaded.files), that, name)
    <3>1. devs[i] = dev /\ ~SingleDeviceRaises(Config(loaded.files), name)
      BY <2>4, <2>5
    <3>2. /\ key \in DOMAIN dev <=> \/ key \in DOMAIN that \/ DeclaredOf(name, key) # <<>>
                                    \/ Said("usrp_defaults", LookedUpType(name), key) # <<>>
          /\ key \in DOMAIN that => dev[key] = that[key]
      <4> HIDE DEF name, that
      <4> QED
        BY <2>1, <2>7, <3>1, SingleSaid
    <3>3. DeclaredOf(name, key) = IF key = "type" THEN <<LookedUpType(name)>> ELSE Said("usrps", name, key)
      BY DEF DeclaredOf
    <3> HIDE DEF dev, devs
    <3> QED
      BY <3>1, <3>2, <3>3
  <2> HIDE DEF devs, places, found
  <2>8. ASSUME NEW key \in EqualKeys, NEW i \in places, NEW j \in places, key \in DOMAIN found(i)
        PROVE  IF key \in DOMAIN found(j) THEN found(i)[key] = found(j)[key]
               ELSE \/ key = "type" \/ Said("usrps", HostDevices[j], key) # <<>>
                    \/ Said("usrp_defaults", LookedUpType(HostDevices[j]), key) # <<>>
    <3>1. key # "usrp"
      BY DEF EqualKeys
    <3>2. Get(devs[i], key, "N/A") = Get(devs[j], key, "N/A")
      BY <2>5, <2>6
    <3>3. Get(devs[i], key, "N/A") = found(i)[key] /\ found(i)[key] # "N/A"
      BY <2>3, <2>7, <2>8, <3>1 DEF Get
    <3>4. key \in DOMAIN devs[j] /\ devs[j][key] = found(i)[key]
      BY <3>2, <3>3 DEF Get
    <3> QED
      BY <2>7, <3>1, <3>4
  <2>9. ASSUME NEW key \in DOMAIN found(1) \ {"hostname", "role", "usrp", "primary_host"},
               \A i \in places : key \in DOMAIN found(i), HostSaid(key) = <<>>
        PROVE  loaded.options[key] = IF \A i \in places : found(i)[key] = found(1)[key]
                                     THEN found(1)[key] ELSE [i \in places |-> found(i)[key]]
    <3>1. \A i \in places : key \in DOMAIN devs[i] /\ devs[i][key] = found(i)[key]
      BY <2>7, <2>9
    <3>2. merged[key] = IF \A i \in places : found(i)[key] = found(1)[key]
                        THEN found(1)[key] ELSE [i \in places |-> found(i)[key]]
      BY <3>1, <2>2, <2>5, <2>6
    <3>3. key \in DOMAIN merged
      BY <3>1, <2>2, <2>6
    <3>4. loaded.options[key] = merged[key]
      BY <2>9, <3>3, OptionsSaid DEF devs, places
    <3> QED
      BY <3>2, <3>4
  <2> QED
    BY <2>8, <2>9 DEF places, found
<1> QED
  BY <1>1, LoadedAlways, PTL
-----------------------------------------------------------------------------
Phase(t) == t % Second

LEMMA ClockTypes ==
    /\ MaxBoards \in Nat /\ MaxBoards >= 1 /\ Second \in Nat /\ Second >= 1
    /\ PollSleep \in Nat /\ PollSleep >= 1 /\ SettleSleep \in Nat /\ MaxDelay \in Nat
    /\ SensorLag \in Nat /\ SensorLag <= SettleSleep
    /\ HostAhead \subseteq Nat
    /\ PollSleep + SettleSleep + 2 * MaxDelay < Second
<1>1. MaxBoards \in Nat \ {0} /\ MaxDelay \in Nat
  BY ClockAssumption
<1>2. (MaxBoards + 2) * MaxDelay >= 2 * MaxDelay
  BY <1>1, SMT
<1>3. (MaxBoards + 2) * MaxDelay \in Nat
  BY <1>1, SMT
<1>4. QED
  BY <1>2, <1>3, ClockAssumption

\* The steps that tell all boards fit into the rest of the second.
LEMMA StepsFit ==
    /\ MaxBoards * MaxDelay \in Nat
    /\ PollSleep + SettleSleep + 2 * MaxDelay + MaxBoards * MaxDelay < Second
<1>1. MaxBoards \in Nat \ {0} /\ MaxDelay \in Nat
  BY ClockAssumption
<1>2. (MaxBoards + 2) * MaxDelay = MaxBoards * MaxDelay + 2 * MaxDelay
  BY <1>1, SMT
<1>3. MaxBoards * MaxDelay \in Nat
  BY <1>1, SMT
<1>4. QED
  BY <1>2, <1>3, ClockAssumption

LEMMA Multiple == ASSUME NEW e \in Nat PROVE Second * e \in Nat
BY ClockTypes, SMT

\* A time is a number of edges and a phase, in one way only.
LEMMA EdgesAndPhase ==
    ASSUME NEW t \in Nat
    PROVE  /\ Edges(t) \in Nat /\ Phase(t) \in Nat /\ Phase(t) < Second
           /\ t = Second * Edges(t) + Phase(t)
BY ClockTypes, SMT DEF Edges, Phase

LEMMA EdgesUnique ==
    ASSUME NEW t \in Nat, NEW e \in Int, NEW r \in Nat, r < Second, t = Second * e + r
    PROVE  Edges(t) = e /\ Phase(t) = r
<1> DEFINE k == Edges(t)
           s == Phase(t)
<1>1. /\ k \in Nat /\ s \in Nat /\ s < Second /\ t = Second * k + s /\ Second \in Nat /\ Second >= 1
  BY ClockTypes, EdgesAndPhase
<1> HIDE DEF k, s
<1>2. Second * (e - k) = s - r
  BY <1>1, SMT
<1>3. e - k < 1
  <2>1. SUFFICES ASSUME e - k >= 1 PROVE FALSE
    BY <1>1
  <2>2. Second * (e - k) >= Second
    BY <1>1, <2>1, SMT
  <2>3. QED
    BY <1>1, <1>2, <2>2
<1>4. e - k > -1
  <2>1. SUFFICES ASSUME e - k <= -1 PROVE FALSE
    BY <1>1
  <2>2. Second * (e - k) <= -Second
    BY <1>1, <2>1, SMT
  <2>3. QED
    BY <1>1, <1>2, <2>2
<1>5. QED
  BY <1>1, <1>2, <1>3, <1>4 DEF k, s

\* What happens in less than a second: no edge, or one.
LEMMA EdgeStep ==
    ASSUME NEW t \in Nat, NEW d \in Nat, d <= Second
    PROVE  /\ t + d \in Nat
           /\ Phase(t) + d < Second => Edges(t + d) = Edges(t) /\ Phase(t + d) = Phase(t) + d
           /\ Phase(t) + d >= Second =>
                Edges(t + d) = Edges(t) + 1 /\ Phase(t + d) = Phase(t) + d - Second
<1>1. /\ Edges(t) \in Nat /\ Phase(t) \in Nat /\ Phase(t) < Second
      /\ t = Second * Edges(t) + Phase(t) /\ Second \in Nat
  BY ClockTypes, EdgesAndPhase
<1>2. t + d \in Nat
  OBVIOUS
<1>3. CASE Phase(t) + d < Second
  <2>1. t + d = Second * Edges(t) + (Phase(t) + d)
    BY <1>1
  <2>2. QED
    BY <1>1, <1>2, <1>3, <2>1, EdgesUnique
<1>4. CASE Phase(t) + d >= Second
  <2>1. t + d = Second * (Edges(t) + 1) + (Phase(t) + d - Second)
    <3>1. PICK e \in Nat, r \in Nat : e = Edges(t) /\ r = Phase(t) /\ t = Second * e + r
      BY <1>1
    <3>2. Second * (e + 1) = Second * e + Second /\ Second * e \in Nat
      BY <1>1, SMT
    <3>3. QED
      BY <1>1, <3>1, <3>2
  <2>2. Phase(t) + d - Second \in Nat /\ Phase(t) + d - Second < Second
    BY <1>1, <1>4
  <2>3. QED
    BY <1>1, <1>2, <1>4, <2>1, <2>2, EdgesUnique
<1>5. QED
  BY <1>1, <1>2, <1>3, <1>4

\* So many steps of the host take so long.
LEMMA Delays ==
    ASSUME NEW k \in Nat
    PROVE  /\ k * MaxDelay \in Nat
           /\ (k + 1) * MaxDelay = k * MaxDelay + MaxDelay
           /\ k <= MaxBoards => k * MaxDelay <= MaxBoards * MaxDelay
<1>1. MaxDelay \in Nat /\ MaxBoards \in Nat
  BY ClockTypes
<1>2. k <= MaxBoards => (MaxBoards - k) * MaxDelay \in Nat
  BY <1>1, SMT
<1>3. QED
  BY <1>1, <1>2, SMT

\* np.ceil of the host's time: not before it, and less than a second after it.
LEMMA CeilFacts ==
    ASSUME NEW t \in Nat
    PROVE  /\ CeilSeconds(t) \in Nat
           /\ Second * CeilSeconds(t) >= t /\ Second * CeilSeconds(t) <= t + Second - 1
<1>1. t + Second - 1 \in Nat
  BY ClockTypes
<1>2. CeilSeconds(t) = Edges(t + Second - 1)
  BY DEF CeilSeconds, Edges
<1>3. PICK e \in Nat, r \in Nat : e = CeilSeconds(t) /\ r < Second /\ t + Second - 1 = Second * e + r
  BY <1>1, <1>2, EdgesAndPhase
<1>4. Second * e \in Nat
  BY <1>3, ClockTypes, SMT
<1>5. QED
  BY <1>3, <1>4, ClockTypes
-----------------------------------------------------------------------------
ClockTypeOK ==
    /\ pc \in {"last", "next", "while", "set", "system", "edge"}
    /\ mode \in {"gps", "multi", "single"}
    /\ boards \in 1 .. MaxBoards /\ (mode = "single" => boards = 1)
    /\ ahead \in Nat /\ now \in Nat /\ begun \in Nat
    /\ last \in Nat /\ next \in Nat /\ target \in Nat
    /\ set \in 0 .. boards
    /\ pc \in {"last", "next", "while", "system"} => set = 0 /\ waiting = {} /\ DOMAIN offset = {}

\* With GPS: the loop knows the edge that is past, and leaves so soon after the next one
\* that sensor and boards are done before the one that follows.
GpsInv ==
    /\ pc # "system"
    /\ pc = "last" => now = begun
    /\ pc = "next" => last = Edges(now) /\ now - begun <= MaxDelay
    /\ pc = "while" =>
         /\ next = Edges(now)
         /\ now - begun <= Second + PollSleep + 2 * MaxDelay
         /\ last = next => Second * last <= begun + MaxDelay
         /\ last # next => Phase(now) <= PollSleep + MaxDelay
    /\ pc = "set" =>
         /\ target = Edges(now) + 1
         /\ Phase(now) <= PollSleep + SettleSleep + 2 * MaxDelay + set * MaxDelay
         /\ now - begun <= Second + PollSleep + SettleSleep + 3 * MaxDelay + set * MaxDelay
         /\ DOMAIN offset = {} /\ waiting = 1 .. set
    /\ pc = "edge" => DOMAIN offset = 1 .. boards /\ \A b \in 1 .. boards : offset[b] = 0

\* How far the clock of a board may be off the host's.
NearHost(x) == x - ahead <= Second /\ x - ahead >= -(Second + MaxBoards * MaxDelay)

\* With the host's time on several boards: an edge between two boards may come once, and
\* whoever had been told by then took the time at that edge.
MultiInv ==
    /\ pc \in {"system", "set", "edge"}
    /\ pc = "system" => now = begun
    /\ pc = "set" =>
         /\ Second * target - now - ahead >= -(set * MaxDelay)
         /\ Second * target - now - ahead <= Second - 1
         /\ now - begun <= MaxDelay + set * MaxDelay
         /\ \E m \in 0 .. set :
              /\ DOMAIN offset = 1 .. m /\ waiting = m + 1 .. set
              /\ m > 0 => Phase(now) <= set * MaxDelay
              /\ \A b \in 1 .. m : offset[b] = Second * target - Second * Edges(now) /\ NearHost(offset[b])
    /\ pc = "edge" =>
         \E m \in 0 .. boards, x \in Int :
           /\ DOMAIN offset = 1 .. boards
           /\ \A b \in 1 .. boards : offset[b] = IF b <= m THEN x ELSE x - Second
           /\ \A b \in 1 .. boards : NearHost(offset[b])

\* With the host's time on one board.
SingleInv ==
    /\ pc \in {"system", "edge"}
    /\ pc = "system" => now = begun
    /\ pc = "edge" =>
         offset[1] \in Int /\ offset[1] - ahead <= 0 /\ offset[1] - ahead >= -MaxDelay

ClockInv ==
    /\ ClockTypeOK
    /\ mode = "gps" => GpsInv
    /\ mode = "multi" => MultiInv
    /\ mode = "single" => SingleInv
    /\ pc = "edge" =>
         now - begun <= 2 * Second + PollSleep + SettleSleep + 3 * MaxDelay + boards * MaxDelay

LEMMA ClockInitInv ==
    ASSUME NEW multi \in BOOLEAN, NEW locked \in BOOLEAN, ClockInit(multi, locked)
    PROVE  ClockInv
<1>1. now \in Nat /\ begun = now /\ ahead \in Nat
  BY ClockTypes DEF ClockInit
<1>2. boards \in 1 .. MaxBoards /\ 0 \in 0 .. boards
  BY ClockTypes DEF ClockInit
<1>3. ClockTypeOK
  BY <1>1, <1>2 DEF ClockInit, ClockTypeOK
<1>4. QED
  BY <1>1, <1>3 DEF ClockInit, ClockInv, GpsInv, MultiInv, SingleInv

\* Nothing happens to boards that nobody has told anything.
LEMMA PassUntold ==
    ASSUME waiting = {}, DOMAIN offset = {}, NEW d
    PROVE  Waiting(d) = {} /\ DOMAIN Taken(d) = {}
BY DEF Waiting, Taken

LEMMA QueryLastInv == ASSUME ClockInv, QueryLast PROVE ClockInv'
<1>1. PICK d \in 0 .. MaxDelay : now' = now + d /\ offset' = Taken(d) /\ waiting' = Waiting(d)
  BY DEF QueryLast, Takes, Pass
<1>2. /\ pc = "last" /\ pc' = "next" /\ last' = Edges(now') /\ mode = "gps" /\ now = begun
      /\ UNCHANGED <<mode, boards, ahead, begun, next, target, set>>
  BY DEF QueryLast, Goto, ClockInv, ClockTypeOK, GpsInv, MultiInv, SingleInv
<1>3. now' \in Nat /\ now' - begun' <= MaxDelay
  BY <1>1, <1>2, ClockTypes DEF ClockInv, ClockTypeOK
<1>4. ClockTypeOK'
  BY <1>1, <1>2, <1>3, EdgesAndPhase, PassUntold DEF ClockInv, ClockTypeOK
<1>5. QED
  BY <1>2, <1>3, <1>4 DEF ClockInv, GpsInv

LEMMA QueryNextInv == ASSUME ClockInv, QueryNext PROVE ClockInv'
<1>1. PICK d \in 0 .. MaxDelay : now' = now + d /\ offset' = Taken(d) /\ waiting' = Waiting(d)
  BY DEF QueryNext, Takes, Pass
<1>2. /\ pc = "next" /\ pc' = "while" /\ next' = Edges(now') /\ mode = "gps"
      /\ last = Edges(now) /\ now - begun <= MaxDelay
      /\ UNCHANGED <<mode, boards, ahead, begun, last, target, set>>
  BY DEF QueryNext, Goto, ClockInv, ClockTypeOK, GpsInv, MultiInv, SingleInv
<1>3. /\ now \in Nat /\ begun \in Nat /\ d \in Nat /\ d <= Second /\ d <= MaxDelay
  BY <1>1, ClockTypes DEF ClockInv, ClockTypeOK
<1>4. now' \in Nat /\ begun' = begun /\ now' - begun <= 2 * MaxDelay
  BY <1>1, <1>2, <1>3, ClockTypes
<1>5. ClockTypeOK'
  BY <1>1, <1>2, <1>4, EdgesAndPhase, PassUntold DEF ClockInv, ClockTypeOK
<1>6. last = next' => Second * last <= begun + MaxDelay
  <2>1. PICK e \in Nat, r \in Nat : e = last /\ now = Second * e + r
    BY <1>2, <1>3, EdgesAndPhase
  <2>2. Second * e \in Nat
    BY ClockTypes, SMT
  <2>3. QED
    BY <1>2, <1>3, <2>1, <2>2, ClockTypes
<1>7. last # next' => Phase(now') <= PollSleep + MaxDelay
  <2>1. /\ Phase(now) \in Nat /\ Phase(now) < Second
        /\ Phase(now) + d < Second => Edges(now + d) = Edges(now)
        /\ Phase(now) + d >= Second => Phase(now + d) = Phase(now) + d - Second
    BY <1>3, EdgeStep, EdgesAndPhase
  <2>2. QED
    BY <1>1, <1>2, <1>3, <2>1, ClockTypes
<1>8. now' - begun' <= Second + PollSleep + 2 * MaxDelay
  <2>1. \A t, b, m \in Nat : t - b <= 2 * m => t - b <= Second + PollSleep + 2 * m
    BY ClockTypes
  <2>2. QED
    BY <1>3, <1>4, <2>1, ClockTypes
<1>9. QED
  BY <1>2, <1>5, <1>6, <1>7, <1>8 DEF ClockInv, GpsInv

LEMMA AwaitEdgeInv == ASSUME ClockInv, AwaitEdge PROVE ClockInv'
<1>1. PICK d \in 0 .. MaxDelay :
        now' = now + (PollSleep + d) /\ offset' = Taken(PollSleep + d) /\ waiting' = Waiting(PollSleep + d)
  <2>1. PICK d \in 0 .. MaxDelay : Pass(PollSleep + d)
    BY DEF AwaitEdge, Takes
  <2>2. QED
    BY <2>1 DEF Pass
<1>2. /\ pc = "while" /\ pc' = "while" /\ last = next /\ last' = next /\ next' = Edges(now')
      /\ mode = "gps" /\ next = Edges(now) /\ Second * last <= begun + MaxDelay
      /\ UNCHANGED <<mode, boards, ahead, begun, target, set>>
  BY DEF AwaitEdge, Asked, Goto, ClockInv, ClockTypeOK, GpsInv, MultiInv, SingleInv
<1>3. /\ now \in Nat /\ begun \in Nat /\ PollSleep + d \in Nat /\ PollSleep + d < Second
  BY <1>1, ClockTypes DEF ClockInv, ClockTypeOK
<1>4. now' \in Nat /\ now' - begun' <= Second + PollSleep + 2 * MaxDelay
  <2>1. PICK e \in Nat, r \in Nat : e = last /\ now = Second * e + r /\ r < Second
    BY <1>2, <1>3, EdgesAndPhase
  <2>2. Second * e \in Nat
    BY ClockTypes, SMT
  <2>3. QED
    BY <1>1, <1>2, <1>3, <2>1, <2>2, ClockTypes
<1>5. ClockTypeOK'
  BY <1>1, <1>2, <1>4, EdgesAndPhase, PassUntold DEF ClockInv, ClockTypeOK
<1>6. last' # next' => Phase(now') <= PollSleep + MaxDelay
  <2> DEFINE p == PollSleep + d
  <2>1. p \in Nat /\ p <= Second /\ now' = now + p /\ p <= PollSleep + MaxDelay
    BY <1>1, <1>3, ClockTypes
  <2> HIDE DEF p
  <2>2. /\ Phase(now) \in Nat /\ Phase(now) < Second
        /\ Phase(now) + p < Second => Edges(now + p) = Edges(now)
        /\ Phase(now) + p >= Second => Phase(now + p) = Phase(now) + p - Second
    BY <1>3, <2>1, EdgeStep, EdgesAndPhase
  <2>3. QED
    BY <1>2, <2>1, <2>2, ClockTypes
<1>7. QED
  BY <1>2, <1>4, <1>5, <1>6 DEF ClockInv, GpsInv

\* The sensor, asked after the sleep, tells the second of the edge that is past.
LEMMA ReadGpsTimeInv == ASSUME ClockInv, ReadGpsTime PROVE ClockInv'
<1>1. PICK d \in 0 .. MaxDelay, lag \in 0 .. SensorLag :
        /\ now' = now + (SettleSleep + d) /\ offset' = Taken(SettleSleep + d)
        /\ waiting' = Waiting(SettleSleep + d) /\ target' = Edges(now' - lag) + 1
  <2>1. PICK d \in 0 .. MaxDelay : Pass(SettleSleep + d)
    BY DEF ReadGpsTime, ReadGps, Takes
  <2>2. PICK lag \in 0 .. SensorLag : target' = Edges(now' - lag) + 1
    BY DEF ReadGpsTime, ReadGps
  <2>3. QED
    BY <2>1, <2>2 DEF Pass
<1>2. /\ pc = "while" /\ pc' = "set" /\ last # next /\ mode = "gps" /\ set = 0
      /\ Phase(now) <= PollSleep + MaxDelay /\ now - begun <= Second + PollSleep + 2 * MaxDelay
      /\ waiting = {} /\ DOMAIN offset = {}
      /\ UNCHANGED <<mode, boards, ahead, begun, last, next, set>>
  BY DEF ReadGpsTime, Goto, ClockInv, ClockTypeOK, GpsInv, MultiInv, SingleInv
<1> DEFINE p == SettleSleep + d
<1>3. /\ now \in Nat /\ begun \in Nat /\ d \in Nat /\ d <= MaxDelay /\ lag \in Nat /\ lag <= SettleSleep
      /\ p \in Nat /\ p <= Second
  BY <1>1, ClockTypes DEF ClockInv, ClockTypeOK
<1>4. /\ Phase(now) \in Nat /\ Phase(now) + p < Second
      /\ Phase(now) + p <= PollSleep + SettleSleep + 2 * MaxDelay
  <2>1. Phase(now) \in Nat
    BY <1>3, EdgesAndPhase
  <2>2. \A x, m \in Nat : x <= PollSleep + m /\ d <= m /\ PollSleep + SettleSleep + 2 * m < Second =>
          x + p < Second /\ x + p <= PollSleep + SettleSleep + 2 * m
    BY <1>3, ClockTypes
  <2>3. QED
    BY <1>2, <1>3, <2>1, <2>2, ClockTypes
<1>5. now' = now + p /\ p >= lag
  BY <1>1, <1>3, ClockTypes
<1> HIDE DEF p
<1>6. now' \in Nat /\ Edges(now') = Edges(now) /\ Phase(now') = Phase(now) + p
  BY <1>3, <1>4, <1>5, EdgeStep
<1>7. Edges(now' - lag) = Edges(now)
  <2>1. now' - lag = now + (p - lag) /\ p - lag \in Nat /\ p - lag <= Second
    BY <1>3, <1>5, ClockTypes
  <2>2. Phase(now) + (p - lag) < Second
    BY <1>3, <1>4, <1>5, ClockTypes
  <2>3. QED
    BY <1>3, <2>1, <2>2, EdgeStep
<1>8. target' = Edges(now') + 1 /\ target' \in Nat
  BY <1>1, <1>3, <1>6, <1>7, EdgesAndPhase
<1>9. now' - begun' <= Second + PollSleep + SettleSleep + 3 * MaxDelay + set' * MaxDelay
  <2>1. \A t, b, q, m \in Nat : t - b <= Second + PollSleep + 2 * m /\ q <= SettleSleep + m
          => (t + q) - b <= Second + PollSleep + SettleSleep + 3 * m + 0
    BY ClockTypes
  <2>2. p <= SettleSleep + MaxDelay
    BY <1>3, ClockTypes DEF p
  <2>3. set' * MaxDelay = 0 /\ begun' = begun
    BY <1>2, Delays, ClockTypes
  <2>4. (now + p) - begun <= Second + PollSleep + SettleSleep + 3 * MaxDelay + 0
    BY <1>2, <1>3, <2>1, <2>2, ClockTypes
  <2>5. QED
    BY <1>5, <2>3, <2>4
<1>10. Phase(now') <= PollSleep + SettleSleep + 2 * MaxDelay + set' * MaxDelay
  <2>1. set' * MaxDelay = 0
    BY <1>2, ClockTypes
  <2>2. QED
    BY <1>4, <1>6, <2>1, ClockTypes
<1>11. waiting' = {} /\ DOMAIN offset' = {} /\ 1 .. set' = {}
  BY <1>1, <1>2, PassUntold
<1>12. ClockTypeOK'
  BY <1>2, <1>6, <1>8 DEF ClockInv, ClockTypeOK
<1>13. QED
  BY <1>2, <1>8, <1>9, <1>10, <1>11, <1>12 DEF ClockInv, GpsInv

LEMMA ReadSystemTimeInv == ASSUME ClockInv, ReadSystemTime PROVE ClockInv'
<1>1. PICK d \in 0 .. MaxDelay : now' = now + d /\ offset' = Taken(d) /\ waiting' = Waiting(d)
  BY DEF ReadSystemTime, Takes, Pass
<1>2. /\ pc = "system" /\ pc' = "set" /\ mode = "multi" /\ now = begun /\ set = 0
      /\ target' = CeilSeconds(now' + ahead)
      /\ waiting = {} /\ DOMAIN offset = {}
      /\ UNCHANGED <<mode, boards, ahead, begun, last, next, set>>
  BY DEF ReadSystemTime, Goto, ClockInv, ClockTypeOK, GpsInv, MultiInv, SingleInv
<1>3. now' \in Nat /\ ahead \in Nat /\ begun' = begun /\ now' - begun <= MaxDelay /\ begun \in Nat
  BY <1>1, <1>2, ClockTypes DEF ClockInv, ClockTypeOK
<1>4. /\ target' \in Nat
      /\ Second * target' >= now' + ahead /\ Second * target' <= now' + ahead + Second - 1
  <2> DEFINE t == now' + ahead
  <2>1. t \in Nat
    <3>1. now' \in Nat /\ ahead \in Nat
      BY <1>3
    <3>2. \A x, y \in Nat : x + y \in Nat
      OBVIOUS
    <3> QED
      BY <3>1, <3>2
  <2>2. target' = CeilSeconds(t)
    BY <1>2
  <2> HIDE DEF t
  <2>3. /\ CeilSeconds(t) \in Nat
        /\ Second * CeilSeconds(t) >= t /\ Second * CeilSeconds(t) <= t + Second - 1
    BY <2>1, CeilFacts
  <2> QED
    BY <2>2, <2>3 DEF t
<1>5. set' * MaxDelay = 0 /\ set' = 0
  BY <1>2, ClockTypes
<1>6. Second * target' \in Nat
  BY <1>4, Multiple
<1>7. waiting' = {} /\ DOMAIN offset' = {} /\ 1 .. 0 = {}
  BY <1>1, <1>2, PassUntold
<1>8. ClockTypeOK'
  BY <1>2, <1>3, <1>4 DEF ClockInv, ClockTypeOK
<1>9. MultiInv'
  <2>1. /\ Second * target' - now' - ahead' >= -(set' * MaxDelay)
        /\ Second * target' - now' - ahead' <= Second - 1
        /\ now' - begun' <= MaxDelay + set' * MaxDelay
    <3>1. ahead' = ahead
      BY <1>2
    <3>2. \A x, t, a \in Nat : x >= t + a /\ x <= t + a + Second - 1 =>
            x - t - a >= -0 /\ x - t - a <= Second - 1
      BY ClockTypes
    <3>3. Second * target' - now' - ahead >= -0 /\ Second * target' - now' - ahead <= Second - 1
      BY <1>3, <1>4, <1>6, <3>2
    <3>4. MaxDelay + 0 = MaxDelay
      BY ClockTypes
    <3>5. QED
      BY <1>3, <1>5, <3>1, <3>3, <3>4
  <2>2. 0 \in 0 .. set' /\ DOMAIN offset' = 1 .. 0 /\ waiting' = 0 + 1 .. set'
    BY <1>5, <1>7
  <2>3. QED
    BY <1>2, <2>1, <2>2 DEF MultiInv
<1>10. QED
  BY <1>2, <1>8, <1>9 DEF ClockInv

LEMMA SetTimeNowInv == ASSUME ClockInv, SetTimeNow PROVE ClockInv'
<1>1. PICK age \in 0 .. MaxDelay : now' = now + age /\ offset' = <<ahead - age>>
  BY DEF SetTimeNow
<1>2. /\ pc = "system" /\ pc' = "edge" /\ mode = "single" /\ now = begun
      /\ UNCHANGED <<mode, boards, ahead, begun, last, next, target, set>>
  BY DEF SetTimeNow, Goto, ClockInv, SingleInv
<1>3. /\ now' \in Nat /\ ahead \in Nat /\ age \in Nat /\ now' - begun' <= MaxDelay
      /\ boards \in Nat
  BY <1>1, <1>2, ClockTypes DEF ClockInv, ClockTypeOK
<1>4. ClockTypeOK'
  BY <1>2, <1>3 DEF ClockInv, ClockTypeOK
<1>5. SingleInv'
  BY <1>1, <1>2, <1>3, ClockTypes DEF SingleInv
<1>6. now' - begun' <= 2 * Second + PollSleep + SettleSleep + 3 * MaxDelay + boards' * MaxDelay
  <2>1. boards' * MaxDelay \in Nat
    BY <1>2, <1>3, Delays
  <2>2. \A x, y, m \in Nat, t \in Int : t <= m => t <= 2 * Second + x + y + 3 * m + 0
    BY ClockTypes
  <2>3. now' - begun' \in Int /\ begun' = begun
    BY <1>2, <1>3 DEF ClockInv, ClockTypeOK
  <2>4. now' - begun' <= 2 * Second + PollSleep + SettleSleep + 3 * MaxDelay + 0
    BY <1>3, <2>2, <2>3, ClockTypes
  <2>5. QED
    BY <2>1, <2>3, <2>4, ClockTypes
<1>7. QED
  BY <1>2, <1>4, <1>5, <1>6 DEF ClockInv

\* What an edge does to the boards that wait, or not.
LEMMA EdgeOrNot ==
    ASSUME now \in Nat, NEW d \in Nat, d <= Second
    PROVE  /\ Phase(now) + d < Second =>
                /\ Edges(now + d) = Edges(now) /\ Phase(now + d) = Phase(now) + d
                /\ Waiting(d) = waiting
                /\ DOMAIN Taken(d) = DOMAIN offset /\ \A b \in DOMAIN offset : Taken(d)[b] = offset[b]
           /\ Phase(now) + d >= Second =>
                /\ Edges(now + d) = Edges(now) + 1 /\ Phase(now + d) = Phase(now) + d - Second
                /\ Waiting(d) = {}
                /\ DOMAIN Taken(d) = DOMAIN offset \cup waiting
                /\ \A b \in waiting : Taken(d)[b] = (target - (Edges(now) + 1)) * Second
                /\ \A b \in DOMAIN offset \ waiting : Taken(d)[b] = offset[b]
<1>1. Edges(now) \in Nat /\ Phase(now) \in Nat /\ Second \in Nat
  BY EdgesAndPhase, ClockTypes
<1>2. CASE Phase(now) + d < Second
  <2>1. Edges(now + d) = Edges(now) /\ Phase(now + d) = Phase(now) + d
    BY <1>2, EdgeStep
  <2>2. ~HasEdge(d)
    BY <1>1, <2>1 DEF HasEdge
  <2>3. Waiting(d) = waiting
    BY <2>2 DEF Waiting
  <2>4. DOMAIN Taken(d) = DOMAIN offset /\ \A b \in DOMAIN offset : Taken(d)[b] = offset[b]
    BY <2>3 DEF Taken
  <2>5. QED
    BY <1>2, <2>1, <2>3, <2>4, <1>1
<1>3. CASE Phase(now) + d >= Second
  <2>1. Edges(now + d) = Edges(now) + 1 /\ Phase(now + d) = Phase(now) + d - Second
    BY <1>3, EdgeStep
  <2>2. HasEdge(d)
    BY <1>1, <2>1 DEF HasEdge
  <2>3. Waiting(d) = {}
    BY <2>2 DEF Waiting
  <2>4. /\ DOMAIN Taken(d) = DOMAIN offset \cup waiting
        /\ \A b \in waiting : Taken(d)[b] = (target - Edges(now + d)) * Second
        /\ \A b \in DOMAIN offset \ waiting : Taken(d)[b] = offset[b]
    BY <2>3 DEF Taken
  <2>5. QED
    BY <1>3, <2>1, <2>3, <2>4, <1>1
<1>4. QED
  BY <1>1, <1>2, <1>3

\* (target - edges) * Second, in parts.
LEMMA Seconds ==
    ASSUME NEW t \in Nat, NEW e \in Nat
    PROVE  /\ (t - e) * Second = Second * t - Second * e
           /\ (t - (e + 1)) * Second = Second * t - Second * e - Second
           /\ Second * t \in Nat /\ Second * e \in Nat
BY ClockTypes, SMT

\* What is known while the boards are told.
LEMMA TellFacts ==
    ASSUME ClockInv, pc = "set"
    PROVE  /\ now \in Nat /\ begun \in Nat /\ ahead \in Nat /\ target \in Nat
           /\ set \in Nat /\ boards \in Nat /\ boards <= MaxBoards /\ set <= boards
           /\ Edges(now) \in Nat /\ Phase(now) \in Nat /\ Phase(now) < Second
           /\ now = Second * Edges(now) + Phase(now)
           /\ mode \in {"gps", "multi"}
BY ClockTypes, EdgesAndPhase DEF ClockInv, ClockTypeOK, SingleInv

\* One more board is told, with GPS: no edge comes.
LEMMA TellWithGps ==
    ASSUME ClockInv, SetTimeNextPps, mode = "gps"
    PROVE  now' \in Nat /\ GpsInv'
<1>1. PICK d \in 0 .. MaxDelay :
        now' = now + d /\ offset' = Taken(d) /\ waiting' = Waiting(d) \cup {set + 1}
  BY DEF SetTimeNextPps
<1>2. /\ pc = "set" /\ set < boards /\ set' = set + 1
      /\ UNCHANGED <<pc, mode, boards, ahead, begun, last, next, target>>
      /\ target = Edges(now) + 1
      /\ Phase(now) <= PollSleep + SettleSleep + 2 * MaxDelay + set * MaxDelay
      /\ now - begun <= Second + PollSleep + SettleSleep + 3 * MaxDelay + set * MaxDelay
      /\ DOMAIN offset = {} /\ waiting = 1 .. set
  BY DEF SetTimeNextPps, ClockInv, GpsInv
<1>3. /\ now \in Nat /\ begun \in Nat /\ set \in Nat /\ set + 1 <= MaxBoards /\ Phase(now) \in Nat
      /\ d \in Nat /\ d <= MaxDelay /\ d <= Second
  <2>1. pc = "set" /\ set < boards
    BY <1>2
  <2>2. QED
    BY <2>1, TellFacts, ClockTypes
<1> DEFINE more == set * MaxDelay
<1>4. /\ more \in Nat /\ (set + 1) * MaxDelay = more + MaxDelay
      /\ more + MaxDelay <= MaxBoards * MaxDelay
  BY <1>3, Delays
<1> HIDE DEF more
<1>5. Phase(now) + d <= PollSleep + SettleSleep + 2 * MaxDelay + (more + MaxDelay)
  <2>1. \A x, a, k \in Nat : x <= a + k => x + d <= a + (k + MaxDelay)
    BY <1>3, ClockTypes
  <2>2. Phase(now) <= PollSleep + SettleSleep + 2 * MaxDelay + more
    BY <1>2 DEF more
  <2>3. PollSleep + SettleSleep + 2 * MaxDelay \in Nat
    BY ClockTypes
  <2>4. QED
    BY <1>3, <1>4, <2>1, <2>2, <2>3
<1>6. now' - begun <= Second + PollSleep + SettleSleep + 3 * MaxDelay + (more + MaxDelay)
  <2>1. \A t, b, a, k \in Nat : t - b <= a + k => (t + d) - b <= a + (k + MaxDelay)
    BY <1>3, ClockTypes
  <2>2. now - begun <= Second + PollSleep + SettleSleep + 3 * MaxDelay + more
    BY <1>2 DEF more
  <2>3. Second + PollSleep + SettleSleep + 3 * MaxDelay \in Nat
    BY ClockTypes
  <2>4. QED
    BY <1>1, <1>3, <1>4, <2>1, <2>2, <2>3
<1>7. Phase(now) + d < Second
  BY <1>3, <1>4, <1>5, StepsFit, ClockTypes
<1>8. /\ Edges(now') = Edges(now) /\ Phase(now') = Phase(now) + d
      /\ waiting' = waiting \cup {set + 1} /\ DOMAIN offset' = {}
  BY <1>1, <1>2, <1>3, <1>7, EdgeOrNot
<1>9. waiting' = 1 .. set + 1
  BY <1>2, <1>3, <1>8
<1>10. QED
  BY <1>1, <1>2, <1>3, <1>4, <1>5, <1>6, <1>8, <1>9 DEF GpsInv

\* One more board is told the host's time: an edge may come, once.
LEMMA TellWithHost ==
    ASSUME ClockInv, SetTimeNextPps, mode = "multi"
    PROVE  now' \in Nat /\ MultiInv'
<1>1. PICK d \in 0 .. MaxDelay :
        now' = now + d /\ offset' = Taken(d) /\ waiting' = Waiting(d) \cup {set + 1}
  BY DEF SetTimeNextPps
<1>2. /\ pc = "set" /\ set < boards /\ set' = set + 1
      /\ UNCHANGED <<pc, mode, boards, ahead, begun, last, next, target>>
      /\ Second * target - now - ahead >= -(set * MaxDelay)
      /\ Second * target - now - ahead <= Second - 1
      /\ now - begun <= MaxDelay + set * MaxDelay
  BY DEF SetTimeNextPps, ClockInv, MultiInv
<1>3. PICK m \in 0 .. set :
        /\ DOMAIN offset = 1 .. m /\ waiting = m + 1 .. set
        /\ m > 0 => Phase(now) <= set * MaxDelay
        /\ \A b \in 1 .. m : offset[b] = Second * target - Second * Edges(now) /\ NearHost(offset[b])
  BY <1>2 DEF ClockInv, MultiInv
<1>4. /\ now \in Nat /\ begun \in Nat /\ ahead \in Nat /\ target \in Nat
      /\ set \in Nat /\ set + 1 <= MaxBoards
      /\ Phase(now) \in Nat /\ Phase(now) < Second /\ Edges(now) \in Nat
      /\ now = Second * Edges(now) + Phase(now)
      /\ d \in Nat /\ d <= MaxDelay /\ d <= Second /\ m \in Nat /\ m <= set
  BY <1>2, TellFacts, ClockTypes
<1> DEFINE more == set * MaxDelay
           due  == Second * target
           past == Second * Edges(now)
           all  == MaxBoards * MaxDelay
<1>5. /\ more \in Nat /\ set' * MaxDelay = more + MaxDelay
      /\ more + MaxDelay <= all /\ all \in Nat /\ all < Second
      /\ due \in Nat /\ past \in Nat
  BY <1>2, <1>4, Delays, StepsFit, Seconds, ClockTypes
<1>6. /\ due - now - ahead >= -more /\ due - now - ahead <= Second - 1
      /\ now - begun <= MaxDelay + more /\ now = past + Phase(now)
      /\ m > 0 => Phase(now) <= more
      /\ \A b \in 1 .. m : offset[b] = due - past /\ NearHost(offset[b])
  BY <1>2, <1>3, <1>4
<1>7. Second * target' = due /\ ahead' = ahead /\ begun' = begun
  BY <1>2
<1> HIDE DEF more, due, past, all
<1>8. /\ now' \in Nat
      /\ due - now' - ahead' >= -(more + MaxDelay) /\ due - now' - ahead' <= Second - 1
      /\ now' - begun' <= MaxDelay + (more + MaxDelay)
  BY <1>1, <1>4, <1>5, <1>6, <1>7, ClockTypes
<1>9. \E k \in 0 .. set + 1 :
        /\ DOMAIN offset' = 1 .. k /\ waiting' = k + 1 .. set + 1
        /\ k > 0 => Phase(now') <= more + MaxDelay
        /\ \A b \in 1 .. k : offset'[b] = due - Second * Edges(now') /\ NearHost(offset'[b])
  <2>1. CASE Phase(now) + d < Second
    <3>1. /\ Edges(now') = Edges(now) /\ Phase(now') = Phase(now) + d
          /\ waiting' = waiting \cup {set + 1}
          /\ DOMAIN offset' = 1 .. m /\ \A b \in 1 .. m : offset'[b] = offset[b]
      BY <1>1, <1>3, <1>4, <2>1, EdgeOrNot
    <3>2. waiting' = m + 1 .. set + 1
      BY <1>3, <1>4, <3>1
    <3>3. m > 0 => Phase(now') <= more + MaxDelay
      BY <1>4, <1>5, <1>6, <3>1, ClockTypes
    <3>4. \A b \in 1 .. m : offset'[b] = due - Second * Edges(now') /\ NearHost(offset'[b])
      BY <1>6, <3>1 DEF past
    <3>5. m \in 0 .. set + 1
      BY <1>4
    <3>6. QED
      BY <3>1, <3>2, <3>3, <3>4, <3>5
  <2>2. CASE Phase(now) + d >= Second
    <3>1. m = 0
      BY <1>4, <1>5, <1>6, <2>2, ClockTypes
    <3>2. waiting = 1 .. set /\ DOMAIN offset = {}
      BY <1>3, <3>1
    <3>3. /\ Edges(now') = Edges(now) + 1 /\ Phase(now') = Phase(now) + d - Second
          /\ waiting' = {set + 1} /\ DOMAIN offset' = 1 .. set
          /\ \A b \in 1 .. set : offset'[b] = (target - (Edges(now) + 1)) * Second
      BY <1>1, <1>4, <2>2, <3>2, EdgeOrNot
    <3>4. /\ (target - (Edges(now) + 1)) * Second = due - past - Second
          /\ Second * (Edges(now) + 1) = past + Second
      <4>1. \A e \in Nat : Second * (e + 1) = Second * e + Second
        BY ClockTypes, SMT
      <4>2. QED
        BY <1>4, <4>1, Seconds DEF due, past
    <3>5. /\ due - past - Second = due - Second * Edges(now')
          /\ (due - past - Second) - ahead <= Second
          /\ (due - past - Second) - ahead >= -(Second + all)
      <4>1. due - past - Second = due - Second * Edges(now')
        BY <1>5, <3>3, <3>4, ClockTypes
      <4>2. (due - past - Second) - ahead = (due - now - ahead) + Phase(now) - Second
        BY <1>4, <1>5, <1>6, ClockTypes
      <4>3. (due - past - Second) - ahead <= Second
        BY <1>4, <1>5, <1>6, <4>2, ClockTypes
      <4>4. (due - past - Second) - ahead >= -(Second + all)
        BY <1>4, <1>5, <1>6, <2>2, <4>2, ClockTypes
      <4>5. QED
        BY <4>1, <4>3, <4>4
    <3>6. \A b \in 1 .. set : offset'[b] = due - Second * Edges(now') /\ NearHost(offset'[b])
      BY <1>7, <3>3, <3>4, <3>5 DEF NearHost, all
    <3>7. Phase(now') <= more + MaxDelay
      BY <1>4, <1>5, <3>3, ClockTypes
    <3>8. waiting' = set + 1 .. set + 1 /\ set \in 0 .. set + 1
      BY <1>4, <3>3
    <3>9. QED
      BY <3>3, <3>6, <3>7, <3>8
  <2>3. QED
    BY <1>4, <2>1, <2>2, ClockTypes
<1>10. \E k \in 0 .. set' :
         /\ DOMAIN offset' = 1 .. k /\ waiting' = k + 1 .. set'
         /\ k > 0 => Phase(now') <= set' * MaxDelay
         /\ \A b \in 1 .. k : offset'[b] = Second * target' - Second * Edges(now') /\ NearHost(offset[b])'
  <2>1. set' = set + 1
    BY <1>2
  <2>2. QED
    BY <1>5, <1>7, <1>9, <2>1 DEF NearHost
<1>11. pc' = "set"
  BY <1>2
<1>12. QED
  BY <1>5, <1>7, <1>8, <1>10, <1>11 DEF MultiInv

LEMMA SetTimeNextPpsInv == ASSUME ClockInv, SetTimeNextPps PROVE ClockInv'
<1>1. /\ pc = "set" /\ set < boards /\ set' = set + 1
      /\ UNCHANGED <<pc, mode, boards, ahead, begun, last, next, target>>
  BY DEF SetTimeNextPps
<1>2. mode \in {"gps", "multi"} /\ set + 1 \in 0 .. boards
  BY <1>1, TellFacts
<1>3. now' \in Nat
  BY <1>2, TellWithGps, TellWithHost
<1>4. ClockTypeOK'
  BY <1>1, <1>2, <1>3 DEF ClockInv, ClockTypeOK
<1>5. (mode' = "gps" => GpsInv') /\ (mode' = "multi" => MultiInv')
  BY <1>1, TellWithGps, TellWithHost
<1>6. QED
  BY <1>1, <1>2, <1>4, <1>5 DEF ClockInv

\* All boards have been told: those that still wait take their time at the next edge.
LEMMA NextEdgeInv == ASSUME ClockInv, NextEdge PROVE ClockInv'
<1> DEFINE d == Second - Phase(now)
<1>1. /\ pc = "set" /\ set = boards /\ pc' = "edge"
      /\ now' = now + d /\ offset' = Taken(d) /\ waiting' = Waiting(d)
      /\ UNCHANGED <<mode, boards, ahead, begun, last, next, target, set>>
  BY DEF NextEdge, Pass, Phase
<1>2. /\ now \in Nat /\ begun \in Nat /\ ahead \in Nat /\ target \in Nat /\ boards \in Nat
      /\ boards <= MaxBoards /\ mode \in {"gps", "multi"}
      /\ Phase(now) \in Nat /\ Phase(now) < Second /\ Edges(now) \in Nat
      /\ now = Second * Edges(now) + Phase(now)
  BY <1>1, TellFacts
<1>3. d \in Nat /\ d <= Second /\ d >= 1 /\ Phase(now) + d = Second
  BY <1>2, ClockTypes
<1> HIDE DEF d
<1>4. /\ DOMAIN offset' = DOMAIN offset \cup waiting
      /\ \A b \in waiting : offset'[b] = (target - (Edges(now) + 1)) * Second
      /\ \A b \in DOMAIN offset \ waiting : offset'[b] = offset[b]
  <2>1. Phase(now) + d >= Second
    BY <1>3, ClockTypes
  <2>2. /\ DOMAIN Taken(d) = DOMAIN offset \cup waiting
        /\ \A b \in waiting : Taken(d)[b] = (target - (Edges(now) + 1)) * Second
        /\ \A b \in DOMAIN offset \ waiting : Taken(d)[b] = offset[b]
    BY <1>2, <1>3, <2>1, EdgeOrNot
  <2>3. offset' = Taken(d)
    BY <1>1
  <2>4. QED
    BY <2>2, <2>3
<1>5. now' \in Nat
  BY <1>1, <1>2, <1>3
<1>6. ClockTypeOK'
  BY <1>1, <1>5 DEF ClockInv, ClockTypeOK
<1> DEFINE more == boards * MaxDelay
<1>7. more \in Nat
  BY <1>2, Delays
<1>8. now - begun <= Second + PollSleep + SettleSleep + 3 * MaxDelay + more
  <2>1. CASE mode = "gps"
    BY <1>1, <2>1 DEF ClockInv, GpsInv
  <2>2. CASE mode = "multi"
    <3>1. now - begun <= MaxDelay + more
      BY <1>1, <2>2 DEF ClockInv, MultiInv
    <3>2. \A t, b, x, y, m, k \in Nat : t - b <= m + k => t - b <= Second + x + y + 3 * m + k
      BY ClockTypes
    <3> HIDE DEF more
    <3>3. QED
      BY <1>2, <1>7, <3>1, <3>2, ClockTypes
  <2>3. QED
    BY <1>2, <2>1, <2>2
<1>9. now' - begun' <= 2 * Second + PollSleep + SettleSleep + 3 * MaxDelay + boards' * MaxDelay
  <2>1. \A t, b, x, y, z, k \in Nat :
          t - b <= Second + x + y + z + k => (t + d) - b <= 2 * Second + x + y + z + k
    BY <1>3, ClockTypes
  <2>2. 3 * MaxDelay \in Nat /\ begun' = begun /\ boards' * MaxDelay = more
    BY <1>1, ClockTypes
  <2> DEFINE three == 3 * MaxDelay
  <2>3. three \in Nat /\ now - begun <= Second + PollSleep + SettleSleep + three + more
    BY <1>8, <2>2
  <2> HIDE DEF more, three
  <2>4. (now + d) - begun <= 2 * Second + PollSleep + SettleSleep + three + more
    BY <1>2, <1>7, <2>1, <2>3, ClockTypes
  <2>5. QED
    BY <1>1, <2>2, <2>4 DEF three
<1>10. CASE mode = "gps"
  <2>1. target = Edges(now) + 1 /\ DOMAIN offset = {} /\ waiting = 1 .. boards
    BY <1>1, <1>10 DEF ClockInv, GpsInv
  <2>2. (target - (Edges(now) + 1)) * Second = 0
    BY <1>2, <2>1, ClockTypes
  <2>3. GpsInv'
    BY <1>1, <1>4, <2>1, <2>2 DEF GpsInv
  <2>4. QED
    BY <1>1, <1>6, <1>9, <1>10, <2>3 DEF ClockInv
<1>11. CASE mode = "multi"
  <2> DEFINE due  == Second * target
             past == Second * Edges(now)
             all  == MaxBoards * MaxDelay
             x    == due - past
  <2>1. /\ due - now - ahead >= -more /\ due - now - ahead <= Second - 1
        /\ more <= all /\ all \in Nat /\ due \in Nat /\ past \in Nat
        /\ now = past + Phase(now)
    <3>1. due - now - ahead >= -more /\ due - now - ahead <= Second - 1
      BY <1>1, <1>11 DEF ClockInv, MultiInv
    <3>2. more <= all /\ all \in Nat /\ due \in Nat /\ past \in Nat
      BY <1>2, Delays, StepsFit, Seconds
    <3>3. QED
      BY <1>2, <3>1, <3>2
  <2>2. PICK m \in 0 .. boards :
          /\ DOMAIN offset = 1 .. m /\ waiting = m + 1 .. boards
          /\ \A b \in 1 .. m : offset[b] = x /\ NearHost(offset[b])
    BY <1>1, <1>11 DEF ClockInv, MultiInv
  <2>3. (target - (Edges(now) + 1)) * Second = x - Second
    BY <1>2, Seconds
  <2> HIDE DEF more, due, past, all
  <2>4. x \in Int /\ (x - Second) - ahead <= Second /\ (x - Second) - ahead >= -(Second + all)
    BY <1>2, <1>7, <2>1, ClockTypes
  <2>5. DOMAIN offset' = 1 .. boards
    BY <1>2, <1>4, <2>2
  <2>6. ASSUME NEW b \in 1 .. boards
        PROVE  /\ offset'[b] = IF b <= m THEN x ELSE x - Second
               /\ NearHost(offset'[b])
    <3>1. CASE b <= m
      <4>1. b \in 1 .. m /\ b \in DOMAIN offset \ waiting
        BY <1>2, <2>2, <3>1
      <4>2. QED
        BY <1>4, <2>2, <3>1, <4>1
    <3>2. CASE ~(b <= m)
      <4>1. b \in waiting
        BY <1>2, <2>2, <3>2
      <4>2. offset'[b] = x - Second
        BY <1>4, <2>3, <4>1
      <4>3. QED
        BY <2>4, <3>2, <4>2 DEF NearHost, all
    <3>3. QED
      BY <3>1, <3>2
  <2>7. \A b \in 1 .. boards : NearHost(offset[b])'
    BY <1>1, <2>6 DEF NearHost
  <2>8. MultiInv'
    <3>1. x \in Int /\ m \in 0 .. boards
      BY <2>4
    <3> HIDE DEF x
    <3>2. QED
      BY <1>1, <2>5, <2>6, <2>7, <3>1 DEF MultiInv
  <2>9. QED
    BY <1>1, <1>6, <1>9, <1>11, <2>8 DEF ClockInv
<1>12. QED
  BY <1>2, <1>10, <1>11

LEMMA ClockNextInv == ClockInv /\ [ClockNext]_clockVars => ClockInv'
<1> SUFFICES ASSUME ClockInv, [ClockNext]_clockVars PROVE ClockInv'
  OBVIOUS
<1>1. CASE UNCHANGED clockVars
  BY <1>1 DEF clockVars, ClockInv, ClockTypeOK, GpsInv, MultiInv, SingleInv, NearHost, Phase, Edges
<1>2. QED
  BY <1>1, QueryLastInv, QueryNextInv, AwaitEdgeInv, ReadGpsTimeInv, ReadSystemTimeInv,
     SetTimeNextPpsInv, SetTimeNowInv, NextEdgeInv DEF ClockNext

LEMMA ClockAlwaysInv == ClockSpec => []ClockInv
<1>1. (\E multi, locked \in BOOLEAN : ClockInit(multi, locked)) => ClockInv
  BY ClockInitInv
<1>2. QED
  BY <1>1, ClockNextInv, PTL DEF ClockSpec

\* With GPS all boards run with GPS time, for any number of boards, delays and instants,
\* as long as the sleeps and the steps between them fit into a second and the sensor is
\* not slower than the sleep (phy_layer.py:467-491).
THEOREM BoardsAlwaysFollowGps == ClockSpec => []BoardsFollowGps
<1>1. ClockInv => BoardsFollowGps
  BY DEF ClockInv, GpsInv, BoardsFollowGps
<1>2. QED
  BY <1>1, ClockAlwaysInv, PTL

\* Without GPS no board is off from the host's clock by more than a second and the delays,
\* and several boards differ by nothing or by a second (phy_layer.py:493-501).
THEOREM BoardsAlwaysFollowHost == ClockSpec => []BoardsFollowHost
<1>1. ClockInv => BoardsFollowHost
  <2> SUFFICES ASSUME ClockInv, mode # "gps", pc = "edge", NEW b \in 1 .. boards
               PROVE  /\ offset[b] - ahead <= IF mode = "single" THEN 0 ELSE Second
                      /\ offset[b] - ahead >=
                           -(IF mode = "single" THEN MaxDelay ELSE Second + MaxBoards * MaxDelay)
                      /\ offset[1] - offset[b] \in {0, Second}
    BY DEF BoardsFollowHost
  <2>1. CASE mode = "single"
    <3>1. b = 1
      BY <2>1 DEF ClockInv, ClockTypeOK
    <3>2. offset[1] \in Int /\ offset[1] - ahead <= 0 /\ offset[1] - ahead >= -MaxDelay
      BY <2>1 DEF ClockInv, SingleInv
    <3>3. QED
      BY <2>1, <3>1, <3>2
  <2>2. CASE mode = "multi"
    <3>1. PICK m \in 0 .. boards, x \in Int :
            /\ \A c \in 1 .. boards : offset[c] = IF c <= m THEN x ELSE x - Second
            /\ \A c \in 1 .. boards : NearHost(offset[c])
      BY <2>2 DEF ClockInv, MultiInv
    <3>2. NearHost(offset[b])
      BY <3>1
    <3>3. boards \in Nat /\ 1 \in 1 .. boards
      BY ClockTypes DEF ClockInv, ClockTypeOK
    <3>4. /\ offset[b] = IF b <= m THEN x ELSE x - Second
          /\ offset[1] = IF 1 <= m THEN x ELSE x - Second
      BY <3>1, <3>3
    <3>5. b <= m => 1 <= m
      BY <3>3
    <3>6. offset[1] - offset[b] \in {0, Second}
      BY <3>4, <3>5, ClockTypes
    <3>7. QED
      BY <2>2, <3>2, <3>6 DEF NearHost
  <2>3. QED
    BY <2>1, <2>2 DEF ClockInv, ClockTypeOK
<1>2. QED
  BY <1>1, ClockAlwaysInv, PTL

\* The set-up takes no longer than two seconds, the sleeps and the delays: the loop ends
\* with the first edge, however the queries fall (phy_layer.py:480-490).
THEOREM SetUpAlwaysInTime == ClockSpec => []SetUpInTime
<1>1. ClockInv => SetUpInTime
  <2> SUFFICES ASSUME ClockInv PROVE SetUpInTime
    OBVIOUS
  <2> DEFINE all == MaxBoards * MaxDelay
             limit == 2 * Second + PollSleep + SettleSleep + 4 * MaxDelay + all
  <2>1. (MaxBoards + 4) * MaxDelay = all + 4 * MaxDelay /\ all \in Nat
    <3>1. MaxBoards \in Nat /\ MaxDelay \in Nat
      BY ClockTypes
    <3>2. QED
      BY <3>1, SMT
  <2>2. /\ now \in Nat /\ begun \in Nat /\ boards \in Nat /\ boards <= MaxBoards
        /\ set \in Nat /\ set <= boards
    BY ClockTypes DEF ClockInv, ClockTypeOK
  <2>3. boards * MaxDelay \in Nat /\ boards * MaxDelay <= all
    BY <2>2, Delays
  <2>4. set * MaxDelay \in Nat /\ set * MaxDelay <= all
    BY <2>2, Delays, ClockTypes
  <2>5. \A t, b, k, a, m, x, y \in Nat :
          /\ k <= a
          /\ \/ t - b <= 0
             \/ t - b <= m
             \/ t - b <= m + k
             \/ t - b <= Second + x + 2 * m
             \/ t - b <= Second + x + y + 3 * m + k
             \/ t - b <= 2 * Second + x + y + 3 * m + k
          => t - b <= 2 * Second + x + y + (a + 4 * m)
    BY ClockTypes
  <2>6. CASE pc = "edge"
    <3>1. now - begun <= 2 * Second + PollSleep + SettleSleep + 3 * MaxDelay + boards * MaxDelay
      BY <2>6 DEF ClockInv
    <3> DEFINE k == boards * MaxDelay
    <3> HIDE DEF k, all
    <3>2. now - begun <= 2 * Second + PollSleep + SettleSleep + (all + 4 * MaxDelay)
      BY <2>1, <2>2, <2>3, <2>5, <3>1, ClockTypes DEF k
    <3>3. QED
      BY <2>1, <3>2 DEF SetUpInTime
  <2>7. CASE pc = "set"
    <3>1. \/ now - begun <= MaxDelay + set * MaxDelay
          \/ now - begun <= Second + PollSleep + SettleSleep + 3 * MaxDelay + set * MaxDelay
      BY <2>7 DEF ClockInv, ClockTypeOK, GpsInv, MultiInv, SingleInv
    <3> HIDE DEF all
    <3>2. now - begun <= 2 * Second + PollSleep + SettleSleep + (all + 4 * MaxDelay)
      BY <2>1, <2>2, <2>4, <2>5, <3>1, ClockTypes
    <3>3. QED
      BY <2>1, <3>2 DEF SetUpInTime
  <2>8. CASE pc \notin {"edge", "set"}
    <3>1. now = begun \/ now - begun <= MaxDelay \/ now - begun <= Second + PollSleep + 2 * MaxDelay
      BY <2>8 DEF ClockInv, ClockTypeOK, GpsInv, MultiInv, SingleInv
    <3>2. now = begun => now - begun <= 0
      BY <2>2
    <3> HIDE DEF all
    <3>3. 0 <= all
      BY <2>1
    <3>4. now - begun <= 2 * Second + PollSleep + SettleSleep + (all + 4 * MaxDelay)
      BY <2>1, <2>2, <2>5, <3>1, <3>2, <3>3, ClockTypes
    <3>5. QED
      BY <2>1, <3>4 DEF SetUpInTime
  <2>9. QED
    BY <2>6, <2>7, <2>8
<1>2. QED
  BY <1>1, ClockAlwaysInv, PTL
=============================================================================
