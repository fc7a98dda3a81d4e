SPECIFICATION Spec
CONSTANTS
    FileHeaderSize = 2
    FileEOFSize = 2
    SHASize = 3
    Files <- MCFiles
    Lengths <- MCLengths
    Unstable <- Changing
    Suffixes = {"_0", "_1", "other"}
    MaxKeyLength = 4
    MaxMetadataLength = 2
    MaxValidationBytes = 3
    MaxInt32 = 8
    MaxInt64 = 100
    MaxChanges = 1
INVARIANTS
    StreamsTile
    AllocationBounded
    IntactRecovered
    DamageNoticed
