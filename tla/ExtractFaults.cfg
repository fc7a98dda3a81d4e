CONSTANTS
    Procs = {p1}
    MaxRuns = 2
    Contents <- Bytes
    Empty = ""
    Partial = "prefix"
    Corrupt = "corrupt"
    Size <- SizeOf
    Type <- TypeOf
    Decoding <- DecodingOf
    Bodies <- EveryBody
    Limit = 2
    MaxInt = 7
    InitialDir <- PlantedDir
    Faults <- AnyFault
    SourceMayChange = TRUE
    MayCrash = TRUE
    MayLosePower = TRUE
SPECIFICATION Spec
INVARIANTS
    TypeOK
    ArtifactIntegrity
    ResultsTruthful
PROPERTY
    ImplementsStore
