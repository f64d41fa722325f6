\* Chunks of one to five samples with any pattern of rx_time tags.
CONSTANTS
    SampRate = 4
    TagInterval = 3
    ChunkSizes <- Chunks
    RxTimes <- Times
    MaxItems = 8
SPECIFICATION TimeTagSpec
INVARIANTS
    SlotTimesFollowReference
    SlotsComplete
CHECK_DEADLOCK FALSE
