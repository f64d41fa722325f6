\* One noisy link whose sender passes a reset of its counter, with fairness.
CONSTANTS
    Byte = 3
    Word = 4
    Size = 256
    ReplaySequence = 1
    ReplayTicks = 7
    MTU = 2
    PrintInterval = 10
    Ticks <- OneReading
    MaxFrames <- NoBound
    Controllers <- OneLink
    PduSizes <- BelowAndAboveMtu
    ReplayUsers <- Nobody
    Noisy <- BsListens
    MaxPdus <- FiveUp
SPECIFICATION NetFairSpec
INVARIANTS
    NetTypeOK
    LossReportExact
PROPERTIES
    ImplementsFairLink
CHECK_DEADLOCK FALSE
