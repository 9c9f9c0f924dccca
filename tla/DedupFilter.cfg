SPECIFICATION FairSpec
CONSTANTS
    SpanIds = {s1, s2}
    NoSpan = NoSpan
    Ttl = 2
    Capacity = 0
    MaxTime = 5
    MaxRecords = 4
    MaxCrashes = 1
INVARIANTS
    TypeOK
    PreCheckComplete
    NoReEmission
    DropsJustified
PROPERTIES
    EveryRecordJudged
CHECK_DEADLOCK FALSE
