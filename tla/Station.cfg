SPECIFICATION MCSpec
CONSTANTS
    Hostname = "host"
    FileChoices <- ConfigurationFiles
    FoundChoices <- FoundByName
    Stations = {"host", "other"}
    Networks <- NetworkDevices
    MaxBoards = 3
    Second = 20
    PollSleep = 1
    SettleSleep = 4
    SensorLag = 4
    MaxDelay = 2
    HostAhead = {0, 7}
    FrameLens <- FrameLengths
    MaxExponent = 12
    MaxChannels = 4
    TxChannels = 2
    RxChannels = 2
    Antennas = 3
    MaxSettings = 2
    Indices = {0, 1, 15, 16, 31, 32, 63, 255}
    Bodies <- FrameBodies
INVARIANTS
    FirstSpeakerWins
    DevicesAgree
    DevicesNotShared
    BoardsFollowGps
    BoardsFollowHost
    SetUpInTime
    PaddingExact
    PaddingEnough
    StreamsAsLabelled
    LayerBuiltOrRaised
    GetterSpeaksForAll
    HeaderComesBack
    BodyComesBack
CHECK_DEADLOCK FALSE
