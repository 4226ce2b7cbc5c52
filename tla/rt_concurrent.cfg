CONSTANTS
    slow = slow
    fast = fast
    lo1 = lo1
    lo2 = lo2
    FramesPerUpdate <- MCFramesPerUpdate
    Rates = {slow, fast}
    LOs = {lo1, lo2}
    FFTSize = 2
    Capacity = 1
    InitialSequence = 0
    SeqMod = 3
    LossLimit = 10
    ReadAttempts = 2
    Sinks = {sink}
    Writers = 2
    Steppers = {"worker"}
    ConcurrentRadio = TRUE
    ReentrantSink = TRUE
    MaxBlocks = 3
    MaxRetunes = 2
    MaxForeign = 0
SPECIFICATION Spec
SYMMETRY MCSymmetry
INVARIANT SoundUpdates
INVARIANT UpdateLedger
INVARIANT LossLedger
INVARIANT RoomForUpdate
