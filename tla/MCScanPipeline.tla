--------------------------- MODULE MCScanPipeline ---------------------------
(***************************************************************************)
(* Small instances of ScanPipeline for TLC.                                 *)
(***************************************************************************)
EXTENDS ScanPipeline, TLC

Outcome(candidate, err) == [candidate |-> candidate, err |-> err]

\* Every pair inspect can return: a permission error ends it before a
\* candidate exists, a failed Detect may come with one.
AllOutcomes == {Outcome(FALSE, "none"), Outcome(FALSE, "denied"), Outcome(FALSE, "other"),
                Outcome(TRUE, "none"), Outcome(TRUE, "other")}

\* A candidate, nothing of interest, or a candidate with an error.
FewOutcomes == {Outcome(FALSE, "none"), Outcome(TRUE, "none"), Outcome(TRUE, "other")}

AnyKind == {"file", "denied", "other", "skipped", "abs"}
FilesAndRoots == {"file", "abs"}

Faults == {"marshal", "io"}

\* The walk may meet the entries in any order, or in the order of numbers.
AnyOrder == {}
Lexical == {p \in Entries \X Entries : p[1] < p[2]}

\* Entries are interchangeable, and so are workers.
Symmetry == Permutations(Entries) \cup Permutations(Workers)
=============================================================================
