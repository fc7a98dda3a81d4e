CONSTANTS
    Procs = {p1, p2}
    MaxRuns = 2
    Contents <- FewBytes
    Empty = ""
    Partial = "prefix"
    Corrupt = "corrupt"
    Size <- SizeOf
    Type <- TypeOf
    Decoding <- DecodingOf
    Bodies <- SameImage
    Limit = 2
    MaxInt = 7
    InitialDir <- NewDir
    Faults <- LateFaults
    SourceMayChange = FALSE
    MayCrash = TRUE
    MayLosePower = FALSE
SPECIFICATION Spec
INVARIANTS
    ResultsBacked
    OneIsFresh
    NoStagingLeft
    CleanCallSucceeds
SYMMETRY Symmetry
