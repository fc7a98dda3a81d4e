CONSTANTS
    Entries = {1, 2, 3, 4, 5, 6}
    WalkedBefore <- Lexical
    Workers = {w1}
    NoEntry = NoEntry
    WalkKinds <- FilesAndRoots
    Outcomes <- FewOutcomes
    WriteFaults <- Faults
    ParentMayCancel = TRUE
    Progress = FALSE
SPECIFICATION Spec
PROPERTIES
    ScanReturns
    ImplementsInventory
