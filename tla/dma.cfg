SPECIFICATION FairSpec
CONSTANTS
    Depth = 2
    Durations <- MCDurations
    ResetDuration = 1
    SupportsCyclic = TRUE
    MaxTransfers = 5
INVARIANT OneTimer
INVARIANT FifoOrder
INVARIANT DoneBits
INVARIANT TimeKept
PROPERTY ImplementsQueue
PROPERTY HeldAccepted
PROPERTY TransfersFinish
