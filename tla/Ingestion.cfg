SPECIFICATION Spec
CONSTANTS
    s1 = s1
    s2 = s2
    h1 = h1
    h2 = h2
    Spans = {s1, s2}
    Invalids <- SomeInvalid
    Services = {"web"}
    Threads = {h1, h2}
    BatchMax = 2
    SendAttempts = 2
    QueueMax = 1
    Rotations = 1
    MaxFaults = 1
SYMMETRY Alike
INVARIANTS
    TypeOK
    TallyComplete
    SentIsSafe
    OneCopy
CHECK_DEADLOCK FALSE
