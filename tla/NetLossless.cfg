\* A network without noise, within one round of the sequence numbers.
CONSTANTS
    Byte = 3
    Word = 4
    Size = 256
    ReplaySequence = 1
    ReplayTicks = 7
    MTU = 2
    PrintInterval = 10
    Ticks <- OneReading
    MaxFrames <- NoBound
    Controllers <- BsAndTwoDevices
    PduSizes <- UpToMtu
    ReplayUsers <- Nobody
    Noisy <- Nobody
    MaxPdus <- BothUp
SPECIFICATION NetFairSpec
INVARIANTS
    LosslessLinkReportsZero
PROPERTIES
    LosslessLinkDelivers
CHECK_DEADLOCK FALSE
