SPECIFICATION Spec
CONSTANTS
    SpanIds = {s1, s2, s3}
    NoSpan = NoSpan
    Ttl = 2
    Capacity = 1
    MaxTime = 5
    MaxRecords = 5
    MaxCrashes = 0
SYMMETRY Symmetry
INVARIANTS
    ProvablyNew
CHECK_DEADLOCK FALSE
