CONSTANTS
    Procs = {p1}
    MaxRuns = 1
    Contents <- Bytes
    Empty = ""
    Partial = "prefix"
    Corrupt = "corrupt"
    Size <- SizeOf
    Type <- TypeOf
    Decoding <- DecodingOf
    Bodies <- SameImage
    Limit = 7
    MaxInt = 7
    InitialDir <- NewDir
    Faults <- NoFaults
    SourceMayChange = FALSE
    MayCrash = FALSE
    MayLosePower = FALSE
SPECIFICATION Spec
INVARIANT
    CleanCallSucceeds
