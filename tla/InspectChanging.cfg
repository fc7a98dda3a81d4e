\* Every file turning into two others, and every call failing; and beside it, the
\* search of every content of up to five cells, and of WebP images in six, of which
\* scan reads five.
SPECIFICATION MCSpec
CONSTANTS
    Versions <- MCVersions
    Paths <- MCPaths
    MaxScan = 30
    MaxKey = 12
    Faults = {"stat", "open", "read", "readat"}
    MaxChanges = 2
    Cells <- MCCells
    Files <- MCFiles
    Window = 5
    HeaderLength = 3
    Patterns <- MCPatterns
    Brands <- MCBrands
    Claim <- MCClaim
INVARIANTS InspectInv EvidenceWasThere FailuresKept QuietFileExact EverySignature AgreesWithDetect
