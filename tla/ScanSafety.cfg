CONSTANTS
    Entries = {e1, e2, e3}
    WalkedBefore <- AnyOrder
    Workers = {w1, w2}
    NoEntry = NoEntry
    WalkKinds <- AnyKind
    Outcomes <- AllOutcomes
    WriteFaults <- Faults
    ParentMayCancel = TRUE
    Progress = TRUE
SPECIFICATION Spec
INVARIANTS
    ScanInvariant
    CompleteOnSuccess
    CountsExact
    FailureNamesItsCause
    QuietAfterReturn
    ProgressHonest
SYMMETRY Symmetry
