SPECIFICATION FairSpec
CONSTANTS
    p = p
    q = q
    Partitions = {p, q}
    Logs <- PipelineLogs
    Normal = "normal"
    Tumble = 2
    Length = 4
    Slide = 2
    Lag = 1
    MinEvents = 2
    ThresholdSquared = 0
    Attempts = 3
    Tolerated = 1
    RestartAttempts = 1
    LastTime = 5
INVARIANTS
    TypeOK
    NoSpanLost
    CommittedIsStored
    WindowsPublishedOnce
PROPERTIES
    EachSpanCountedOnce
    EachSpanReportedOnce
    SpansPublished
CHECK_DEADLOCK FALSE
