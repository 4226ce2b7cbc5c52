SPECIFICATION MCSpec
CONSTANTS
    Cells <- MCCells
    Contents <- MCContents
    Blank = 0
    Crc <- MCCrc
    Modes <- MCModes
    Result <- MCResult
    Files <- MCFiles
    NoFile <- MCNoFile
    Loads <- MCLoads
    MaxResults = 2
INVARIANT TwinsAreOne
INVARIANT PortableAttributes
INVARIANT EmulatedAttributes
PROPERTY ProgramPasses
CHECK_DEADLOCK FALSE
