SPECIFICATION Spec
CONSTANTS
    Depth = 2
    Directions = {TRUE, FALSE}
    Lengths <- MCLengths
    Scans <- MCScans
    Chunk = 8
    BytesPerTick = 1
    MaxTransfers = 3
INVARIANT SamplesContinuous
INVARIANT SavedStateResumes
PROPERTY ImplementsQueue
