\* Every list of roots, with and without --follow-symlinks; directories that cannot
\* be read, or only in part, links that cannot be resolved, cancellation.
SPECIFICATION Spec
CONSTANTS
    Nodes = {"home", "a", "f", "loop", "dev", ".h", "g", "out", "into", "broken", "tofile", "ext", "e", "back"}
    Kind <- MCKind
    Parent <- MCParent
    Target <- MCTarget
    AbsoluteLinks = {"out"}
    Inside <- MCInside
    Hidden = {".h"}
    Excluded = {"e"}
    Configs <- MCConfigs
    Faults = {"denied", "other", "abs", "cancel"}
    Nowhere = "nowhere"
INVARIANTS WentEverywhere SentOncePerRoot StaysInRoots
PROPERTY WalkReturns
