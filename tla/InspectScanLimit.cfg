\* Files at rest, no call failing, a key longer than the limit leaves room for; and
\* no search of more than one cell.
SPECIFICATION MCSpec
CONSTANTS
    Versions <- MCVersions
    Paths <- MCPaths
    MaxScan = 30
    MaxKey = 12
    Faults = {}
    MaxChanges = 0
    Cells <- MCCells
    Files <- MCFiles
    Window = 1
    HeaderLength = 1
    Patterns <- MCPatterns
    Brands <- MCBrands
    Claim <- MCClaim
INVARIANT ContentScanBounded
