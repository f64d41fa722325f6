\* One link without noise, past the reset of the sender's counter.
CONSTANTS
    Byte = 3
    Word = 4
    Size = 256
    ReplaySequence = 1
    ReplayTicks = 7
    MTU = 2
    PrintInterval = 10
    Ticks <- OneReading
    MaxFrames <- NoBound
    Controllers <- OneLink
    PduSizes <- BelowMtu
    ReplayUsers <- Nobody
    Noisy <- Nobody
    MaxPdus <- FourUp
SPECIFICATION NetSpec
INVARIANTS
    LosslessLinkReportsZero
CHECK_DEADLOCK FALSE
