\* Base station and two devices, with replay mode at the base station.
CONSTANTS
    Byte = 3
    Word = 4
    Size = 256
    ReplaySequence = 1
    ReplayTicks = 7
    MTU = 2
    PrintInterval = 10
    Ticks <- OneReading
    MaxFrames <- NoBound
    Controllers <- BsAndTwoDevices
    PduSizes <- BelowMtu
    ReplayUsers <- BsReplays
    Noisy <- Nobody
    MaxPdus <- OneUpTwoDown
SPECIFICATION NetSpec
INVARIANTS
    ReplayModesAgree
PROPERTIES
    ImplementsLossyLink
CHECK_DEADLOCK FALSE
