SPECIFICATION FairSpec
CONSTANTS
    b1 = b1
    b2 = b2
    Browsers = {b1, b2}
    Backfill = 1
    MaxItems = 3
    LastFrame = 2
    MaxFaults = 1
INVARIANTS
    TypeOK
    OncePerSocket
    NothingMissed
    NoDeadSocket
PROPERTIES
    DeadSocketsForgotten
    PagesCatchUp
CHECK_DEADLOCK FALSE
