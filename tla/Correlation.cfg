SPECIFICATION Spec
CONSTANTS
    a = a
    b = b
    c = c
    Services <- ChainServices
    Related <- Chain
    Window = 3
    MaxClusterAge = 2
    CheckInterval = 1
    MaxDelay = 1
    MaxTime = 4
    LastEvent = 2
    MaxEvents = 3
    MaxCrashes = 1
SYMMETRY Ends
INVARIANTS
    TypeOK
    EachAnomalyInOneGroup
    SpreadBounded
    ConnectedClustersMerged
PROPERTIES
    NoLateJoin
CHECK_DEADLOCK FALSE
