SPECIFICATION FairSpec
CONSTANTS
    a = a
    b = b
    c = c
    Services <- ChainServices
    Related <- Chain
    Window = 3
    MaxClusterAge = 2
    CheckInterval = 1
    MaxDelay = 1
    MaxTime = 5
    LastEvent = 2
    MaxEvents = 2
    MaxCrashes = 1
PROPERTIES
    AnomaliesConcluded
CHECK_DEADLOCK FALSE
