SPECIFICATION Spec
CONSTANTS
    s1 = s1
    s2 = s2
    h1 = h1
    h2 = h2
    Services = {s1, s2}
    Threads = {h1, h2}
    Readings = {"plain", "odd"}
    HighWindows <- EndingOdd
    Models <- Trained
    Length = 2
    Persistence = 2
    MaxCalls = 4
SYMMETRY Alike
INVARIANTS
    TypeOK
    AnswersExact
    WindowKept
CHECK_DEADLOCK FALSE
