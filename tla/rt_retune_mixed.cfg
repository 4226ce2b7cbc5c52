CONSTANTS
    slow = slow
    fast = fast
    lo1 = lo1
    lo2 = lo2
    FramesPerUpdate <- MCFramesPerUpdate
    Rates = {slow, fast}
    LOs = {lo1, lo2}
    FFTSize = 2
    Capacity = 1
    InitialSequence = 0
    SeqMod = 3
    LossLimit = 10
    ReadAttempts = 3
    Sinks = {sink}
    Writers = 1
    Steppers = {"worker"}
    ConcurrentRadio = TRUE
    ReentrantSink = FALSE
    MaxBlocks = 3
    MaxRetunes = 1
    MaxForeign = 0
SPECIFICATION Spec
SYMMETRY MCSymmetry
INVARIANT NoRetuneMixed
