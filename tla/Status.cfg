SPECIFICATION MCSpec
CONSTANTS
    Marks = {"first", "second"}
    Plain = "plain"
    BufferSize = 2
    FlushAge = 0
    MaxUpdates = 1
    MarkOrder <- FirstSecond
    SampleKinds <- SamplesWith
    OtherShapes = {"slot"}
    MaxStream = 2
    MaxQueue = 2
    MaxStatus = 1
    Values <- ValueNames
    Samples <- ValueSamples
    MaxInput = 3
    MaxOutput = 4
INVARIANTS
    StatusTypeOK
    NoStatusLost
    StoredAsReported
    WithinOutput
    ValuesComplete
PROPERTIES
    StoredIfMessagesContinue
CHECK_DEADLOCK FALSE
