SPECIFICATION MCSpec
CONSTANTS
    Settings <- MCSettings
    Chunk = 10
    IndexWrap = 128
    Lengths <- MCLengths
    Writes <- MCWrites
    DataBits = 12
    BlockInputs <- MCInputs
    Banks <- MCBanks
    Thresholds <- MCThresholds
    Bytes <- MCBytes
    Damage <- MCDamage
    MaxBytes = 6
INVARIANT TransformsFaithful
INVARIANT BlocksExact
INVARIANT DamageShows
INVARIANT CaptureIsWhole
INVARIANT ClientServed
CHECK_DEADLOCK FALSE
