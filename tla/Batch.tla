-------------------------------- MODULE Batch --------------------------------
(***************************************************************************)
(* What `inspect` and `extract` do with one path, or with the lines of a    *)
(* JSONL file, and the status they exit with.  A process may be killed and  *)
(* its command given again; the artifacts it installed stay.                *)
(*                                                                          *)
(* A file is the lines bufio.Scanner delivers, and how the reading ends: a  *)
(* read error comes after whatever was read of the last line, which is then *)
(* a line like any other.  What ParseFile or Extract make of a path is any  *)
(* of Outcomes.                                                             *)
(***************************************************************************)
EXTENDS ExitCodes, Naturals, Sequences, FiniteSets

CONSTANTS Commands,  \* "inspect", "extract"
          Inputs,    \* [batch, lines, end]: one path, or the lines of a file
          Outcomes,  \* [errs, entry, ok]: what a path may come to
          Faults,    \* what may fail: "open", "close", "stdout", "kill"
          MaxRuns    \* bound: times the command is given

LineKinds == {"blank", "malformed", "nopath", "record", "oversized"}
Unsupported == {"notcache", "version"}
Partial(cmd) == {"corrupt", "truncated"} \cup
                IF cmd = "extract" THEN {"encoding", "notimage", "toolarge", "nobody"} ELSE {}
Errors == Unsupported \cup Partial("extract") \cup {"io"}

ASSUME CommandsAssumption == Commands \subseteq {"inspect", "extract"}
ASSUME InputsAssumption ==
    \A f \in Inputs : f.batch \in BOOLEAN /\ f.lines \in Seq(LineKinds) /\ f.end \in {"eof", "error"}
ASSUME OutcomesAssumption ==
    \A o \in Outcomes : /\ o.errs \subseteq Errors /\ o.entry \in BOOLEAN /\ o.ok \in BOOLEAN
                        /\ o.ok <=> o.errs = {}
ASSUME RunsAssumption == MaxRuns \in Nat

VARIABLES cmd,        \* the command
          input,      \* what it is given
          at,         \* the line to be read next
          hadErrors,
          exit,       \* the status of the process, Running until it ends
          runs,       \* how often the command was given
          tried,      \* history: lines whose path was tried, in this run
          good,       \* history: lines that came to a good end, in this run
          complained, \* history: lines a diagnostic was written for, in this run
          written,    \* lines whose result went to stdout, in order, in this run
          installed   \* lines whose artifacts are in the output directory
vars == <<cmd, input, at, hadErrors, exit, runs, tried, good, complained, written, installed>>

\* A process that has done nothing yet.
Started == /\ at = 1
           /\ hadErrors = FALSE
           /\ exit = Running
           /\ tried = {} /\ good = {} /\ complained = {}
           /\ written = <<>>

Init == /\ cmd \in Commands /\ input \in Inputs
        /\ runs = 1
        /\ installed = {}
        /\ Started

-----------------------------------------------------------------------------

\* The switch over errors.Is: an error may wrap several sentinels, or none.
ExitOf(o) ==
    IF o.ok THEN ExitSuccess
    ELSE IF o.errs \cap Unsupported # {} THEN ExitUnsupported
    ELSE IF o.errs \cap Partial(cmd) # {} THEN ExitPartial
    ELSE ExitFatal

HasLine == at <= Len(input.lines) /\ input.lines[at] # "oversized"

\* Scan returns false: no line is left, or the next does not fit the buffer.
Drained == ~HasLine
ReadError == Drained /\ (at <= Len(input.lines) \/ input.end = "error")

\* One path: the diagnostics, the output and the status of extractPath or
\* inspectPath.  extract reports a failing stdout, inspect does not look.
TryPath(o, stdoutFails, status) ==
    /\ tried' = tried \cup {at}
    /\ installed' = IF cmd = "extract" /\ o.ok THEN installed \cup {at} ELSE installed
    /\ written' = IF (IF cmd = "extract" THEN o.ok ELSE o.entry) /\ ~stdoutFails
                  THEN Append(written, at) ELSE written
    /\ status = IF cmd = "extract" /\ o.ok /\ stdoutFails THEN ExitFatal ELSE ExitOf(o)
    /\ good' = IF status = ExitSuccess THEN good \cup {at} ELSE good
    /\ complained' = IF status = ExitSuccess THEN complained ELSE complained \cup {at}

\* `inspect PATH`, `extract PATH`: the status is that of the path.
Single ==
    /\ exit = Running /\ ~input.batch
    /\ \E o \in Outcomes, f \in {FALSE} \cup {"stdout" \in Faults} :
          TryPath(o, f, exit')
    /\ UNCHANGED <<cmd, input, at, hadErrors, runs>>

\* os.Open fails.
OpenFails ==
    /\ exit = Running /\ input.batch /\ at = 1 /\ "open" \in Faults
    /\ exit' = ExitFatal
    /\ UNCHANGED <<cmd, input, at, hadErrors, runs, tried, good, complained, written, installed>>

\* Variant: the next line is read only after a record.
SkipBlankStuck ==
    /\ exit = Running /\ input.batch /\ HasLine
    /\ input.lines[at] = "blank"
    /\ UNCHANGED vars

\* A line of white space.
SkipBlank ==
    /\ exit = Running /\ input.batch /\ HasLine
    /\ input.lines[at] = "blank"
    /\ at' = at + 1
    /\ UNCHANGED <<cmd, input, hadErrors, exit, runs, tried, good, complained, written, installed>>

\* Variant: a record without a path is passed over in silence.
RejectQuietly ==
    /\ exit = Running /\ input.batch /\ HasLine
    /\ input.lines[at] \in {"malformed", "nopath"}
    /\ hadErrors' = TRUE
    /\ complained' = IF input.lines[at] = "malformed" THEN complained \cup {at} ELSE complained
    /\ at' = at + 1
    /\ UNCHANGED <<cmd, input, exit, runs, tried, good, written, installed>>

\* Not JSON, or without a path.
Reject ==
    /\ exit = Running /\ input.batch /\ HasLine
    /\ input.lines[at] \in {"malformed", "nopath"}
    /\ hadErrors' = TRUE
    /\ complained' = complained \cup {at}
    /\ at' = at + 1
    /\ UNCHANGED <<cmd, input, exit, runs, tried, good, written, installed>>

\* Variant: the flag says how the last record went.
TryRecordLast ==
    /\ exit = Running /\ input.batch /\ HasLine
    /\ input.lines[at] = "record"
    /\ \E o \in Outcomes, f \in {FALSE} \cup {"stdout" \in Faults},
          status \in {ExitSuccess, ExitPartial, ExitFatal, ExitUnsupported} :
          /\ TryPath(o, f, status)
          /\ hadErrors' = (status # ExitSuccess)
    /\ at' = at + 1
    /\ UNCHANGED <<cmd, input, exit, runs>>

\* A record: whatever its path comes to, the batch goes on.
TryRecord ==
    /\ exit = Running /\ input.batch /\ HasLine
    /\ input.lines[at] = "record"
    /\ \E o \in Outcomes, f \in {FALSE} \cup {"stdout" \in Faults},
          status \in {ExitSuccess, ExitPartial, ExitFatal, ExitUnsupported} :
          /\ TryPath(o, f, status)
          /\ hadErrors' = (hadErrors \/ status # ExitSuccess)
    /\ at' = at + 1
    /\ UNCHANGED <<cmd, input, exit, runs>>

\* The end: a read error, for inspect a failing Close, or the flag.
Finish ==
    /\ exit = Running /\ input.batch /\ Drained
    /\ exit' \in IF ReadError THEN {ExitFatal}
                 ELSE {IF hadErrors THEN ExitPartial ELSE ExitSuccess} \cup
                      (IF cmd = "inspect" /\ "close" \in Faults THEN {ExitFatal} ELSE {})
    /\ UNCHANGED <<cmd, input, at, hadErrors, runs, tried, good, complained, written, installed>>

\* The process is killed: what a path was installed as may be there already,
\* its result not yet written.
Kill ==
    /\ exit = Running /\ "kill" \in Faults /\ runs < MaxRuns
    /\ runs' = runs + 1
    /\ at' = 1
    /\ hadErrors' = FALSE
    /\ tried' = {} /\ good' = {} /\ complained' = {}
    /\ written' = <<>>
    /\ installed' \in {installed} \cup
                      (IF cmd = "extract" /\ \/ ~input.batch
                                             \/ HasLine /\ input.lines[at] = "record"
                       THEN {installed \cup {at}} ELSE {})
    /\ UNCHANGED <<cmd, input, exit>>

Terminated == exit # Running /\ UNCHANGED vars

Work == Single \/ OpenFails \/ SkipBlank \/ Reject \/ TryRecord \/ Finish
Next == Work \/ Kill \/ Terminated

Spec == Init /\ [][Next]_vars /\ WF_vars(Work)

-----------------------------------------------------------------------------
(* Properties.                                                              *)

TypeOK ==
    /\ cmd \in Commands /\ input \in Inputs
    /\ at \in Nat \ {0}
    /\ hadErrors \in BOOLEAN
    /\ exit \in {ExitSuccess, ExitPartial, ExitFatal, ExitUnsupported, Running}
    /\ runs \in Nat
    /\ tried \subseteq Nat /\ good \subseteq Nat /\ complained \subseteq Nat
    /\ written \in Seq(Nat)
    /\ installed \subseteq Nat

NonBlank == {i \in 1 .. Len(input.lines) : input.lines[i] # "blank"}
Records == {i \in 1 .. Len(input.lines) : input.lines[i] = "record"}
WrittenLines == {written[i] : i \in 1 .. Len(written)}

\* The status of a batch says what happened to all of it, however the errors came:
\* 0 only if every line came to a good end (and, for extract, its result was
\* written and its artifacts are installed, by this process or one killed before
\* it), 1 only if some line did not, and both only if every record was tried.
StatusTruthful ==
    input.batch =>
        /\ exit = ExitSuccess => /\ NonBlank \subseteq good
                                 /\ cmd = "extract" => Records \subseteq WrittenLines \cap installed
        /\ exit = ExitPartial => ~(NonBlank \subseteq good)
        /\ exit \in {ExitSuccess, ExitPartial} => Records \subseteq tried
        /\ exit # ExitUnsupported

\* Results are written in the order of the file, each at most once.
InFileOrder == \A i, j \in 1 .. Len(written) : i < j => written[i] < written[j]

\* Every line read that did not come to a good end has a diagnostic, and a batch
\* never reports partial success without one.
FailuresExplained ==
    input.batch =>
        /\ \A i \in NonBlank : i < at => i \in good \cup complained
        /\ exit = ExitPartial => complained # {}
==============================================================================
