CONSTANTS
    slow = slow
    fast = fast
    lo1 = lo1
    lo2 = lo2
    FramesPerUpdate <- MCFramesPerUpdate
    Rates = {slow, fast}
    LOs = {lo1, lo2}
    FFTSize = 2
    Capacity = 2
    InitialSequence = 0
    SeqMod = 3
    LossLimit = 2
    ReadAttempts = 3
    Sinks = {sink}
    Writers = 1
    Steppers = {"caller"}
    ConcurrentRadio = FALSE
    ReentrantSink = FALSE
    MaxBlocks = 5
    MaxRetunes = 2
    MaxForeign = 0
SPECIFICATION Spec
SYMMETRY MCSymmetry
INVARIANT InOrder
INVARIANT NoRetuneMixed
INVARIANT EpochNamesRadio
PROPERTY ImplementsStream
