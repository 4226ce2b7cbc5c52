SPECIFICATION MCSpec
CONSTANTS
    Ram <- MCRam
    Words <- MCWords
    Blank = 0
    Power <- MCPower
    MinLog2N = 1
    MaxLog2N = 2
    MaxChannels = 2
    AddressSpace = 48
    Files <- MCFiles
    Patched <- MCPatched
    MaxStarts = 2
    RtlCells <- MCRtlCells
    RtlContents <- MCRtlContents
    RtlBlank = 0
    RtlTransform <- MCRtlTransform
    RtlBlockLog2N = 1
    RtlFiles <- MCRtlFiles
    RtlNoFile <- MCRtlNoFile
    RtlLoads <- MCRtlLoads
    Libraries <- MCLibraries
    Hanging <- MCHanging
    RtlMaxStarts = 3
    RtlMaxResults = 3
INVARIANT LineFollowsStatus
INVARIANT StatusCoherent
PROPERTY InputSurvives
PROPERTY ImplementsContract
PROPERTY RtlImplementsContract
