\* A base station sending to two devices past the wrap of its counter; frames in any
\* order, whole or damaged, and a clock that jumps forth and back.
CONSTANTS
    Byte = 4
    Word = 3
    Size = 257
    ReplaySequence = 1
    ReplayTicks = 7
    Controllers <- BsAndOneDevice
    MTU = 2
    PrintInterval = 10
    Ticks <- LateOrBack
    PduSizes <- BelowAndAboveMtu
    ReplayUsers <- DeviceIsSentReplays
    Noisy <- DeviceListens
    MaxPdus <- ThreeAndOnePdus
    MaxFrames <- ThreeFrames
SPECIFICATION MacSpec
INVARIANTS
    MacTypeOK
    LossReportIsSkipped
    SequenceCountsPdus
    StatusLinesAccount
    DeliveredWasSent
CHECK_DEADLOCK FALSE
