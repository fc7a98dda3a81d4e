-------------------------- MODULE ChromecarveProofs --------------------------
(***************************************************************************)
(* Proofs about CommandLine, Batch and Chromecarve.                         *)
(*                                                                          *)
(* Of the commands, for integers of any width, any limits, any command      *)
(* lines and any number of commands: refused commands do no harm, the       *)
(* status tells what is in the inventory, and no command runs with a limit  *)
(* above the one asked for.                                                 *)
(*                                                                          *)
(* Of a batch, for input of any length, any outcomes and failures and any   *)
(* number of restarts: the exit status tells the truth, results are in the  *)
(* order of the file, and every failure has a diagnostic.                   *)
(*                                                                          *)
(* Of the program, for any command lines: it is a sequence of commands as   *)
(* CommandLine has them, every batch in it keeps the invariant of Batch,    *)
(* and what was proved of the two parts holds of the whole.                 *)
(***************************************************************************)
EXTENDS Chromecarve, SequenceTheorems, TLAPS

USE DEF ExitSuccess, ExitPartial, ExitUsage, ExitFatal, ExitUnsupported, Running

-----------------------------------------------------------------------------
(* The commands.                                                            *)

\* Before the output is opened nothing has happened yet.
Untouched ==
    step \in {"parse", "check", "work", "open"} =>
        inventory = before /\ code = Running /\ failed = FALSE /\ faults = 0

\* From then on the command is a valid scan and the output its own.
Opened ==
    /\ step = "work" => args.cmd # "scan"
    /\ step \in {"check", "work", "open", "config", "scan", "close"} => args.parse = "ok"
    /\ step \in {"open", "config", "scan", "close"} => args.cmd = "scan"
    /\ step \in {"config", "scan", "close"} => code = Running /\ inventory.of = given
    /\ step \in {"config", "scan"} => failed = FALSE /\ faults = 0
    /\ step = "close" /\ ~failed => inventory = [of |-> given, whole |-> TRUE]

\* Until the limit is settled, the size is the product as it wraps.
SizeRead ==
    step \in {"check", "work", "open", "config"} =>
        SizeAccepted(args.digits) /\ size = Stored(args.digits, args.factor)

\* An earlier inventory has an earlier number.
Numbered == before.of < given /\ inventory.of <= given

CommandInv == CommandTypeOK /\ Untouched /\ Opened /\ Numbered /\ SizeRead
              /\ UsageHarmless /\ StatusOfInventory /\ LimitAsAsked

-----------------------------------------------------------------------------

\* A wrapped product is an integer of the width.
LEMMA WrapInRange == \A n \in Int : Wrap(n) \in -Half .. Half - 1
    BY HalfAssumption DEF Wrap

LEMMA StoredInRange ==
    ASSUME CommandTypeOK PROVE Stored(args.digits, args.factor) \in -Half .. Half - 1
<1>1. args.digits \in Int /\ args.factor \in Int
    BY ArgsAssumption DEF CommandTypeOK, ArgsType
<1>2. args.digits * args.factor \in Int
    BY <1>1
<1>3. QED
    BY <1>2, WrapInRange DEF Stored

\* What is stored is never above what was asked for, and is it where it fits.
LEMMA WrapNeverAbove == \A n \in Nat : Wrap(n) <= n /\ (n < Half => Wrap(n) = n)
<1> TAKE n \in Nat
<1> DEFINE r == (n + Half) % (2 * Half)
<1>1. Half \in Nat /\ Half > 0
    BY HalfAssumption
<1>2. r <= n + Half
    BY <1>1
<1>3. n < Half => r = n + Half
    BY <1>1
<1>4. r \in Int
    BY <1>1
<1>5. Wrap(n) = r - Half
    BY DEF Wrap
<1>6. QED
    BY <1>1, <1>2, <1>3, <1>4, <1>5

\* So it is of a size flag that was accepted.
LEMMA StoredNeverAbove ==
    ASSUME CommandTypeOK, SizeAccepted(args.digits)
    PROVE  /\ Asked \in Nat
           /\ Stored(args.digits, args.factor) <= Asked
           /\ Asked < Half => Stored(args.digits, args.factor) = Asked
<1>1. args.digits \in Nat /\ args.factor \in Nat
    BY ArgsAssumption, HalfAssumption DEF CommandTypeOK, ArgsType, SizeAccepted
<1>2. args.digits * args.factor \in Nat
    BY <1>1
<1>3. QED
    BY <1>2, WrapNeverAbove DEF Stored, Asked

LEMMA InitCommand == ASSUME CommandInit PROVE CommandInv
<1>1. /\ args \in Args /\ step = "parse" /\ code = Running /\ size = 0 /\ workers = 0
      /\ failed = FALSE /\ faults = 0 /\ given = 1 /\ before = inventory
    BY DEF CommandInit
<1>2. inventory \in [of : Int, whole : BOOLEAN] /\ inventory.of < 1
    <2>1. inventory = NoInventory \/ inventory = EarlierInventory
        BY DEF CommandInit
    <2>2. CASE inventory = NoInventory
        BY <2>2 DEF NoInventory
    <2>3. CASE inventory = EarlierInventory
        BY <2>3 DEF EarlierInventory
    <2>4. QED
        BY <2>1, <2>2, <2>3
<1>3. failed \in BOOLEAN
    BY <1>1, Zenon
<1>4. size \in -Half .. Half - 1
    BY <1>1, HalfAssumption
<1>5. CommandTypeOK
    BY <1>1, <1>2, <1>3, <1>4 DEF CommandTypeOK
<1>6. QED
    BY <1>1, <1>2, <1>5 DEF CommandInv, Untouched, Opened, Numbered, UsageHarmless,
       StatusOfInventory, SizeRead, LimitAsAsked, Asked

\* A command that ends before it opened anything.
LEMMA EndsEarly ==
    ASSUME CommandInv, NEW status \in {ExitSuccess, ExitPartial, ExitUsage, ExitFatal, ExitUnsupported},
           step \in {"parse", "check", "work", "open"},
           args.cmd = "scan" /\ args.parse # "help" => status \in {ExitUsage, ExitFatal},
           End(status), UNCHANGED size
    PROVE  CommandInv'
<1>1. /\ step' = "done" /\ code' = status
      /\ UNCHANGED <<args, size, workers, inventory, failed, faults, given, before>>
    BY DEF End
<1>2. inventory = before /\ before.of < given /\ inventory.of \in Int /\ given \in Int
    BY DEF CommandInv, Untouched, Numbered, CommandTypeOK
<1>3. CommandTypeOK'
    BY <1>1 DEF CommandInv, CommandTypeOK
<1>4. Untouched' /\ Opened' /\ Numbered' /\ SizeRead' /\ LimitAsAsked' /\ UsageHarmless'
    BY <1>1, <1>2 DEF CommandInv, Untouched, Opened, Numbered, SizeRead, LimitAsAsked, Asked, UsageHarmless
<1>5. StatusOfInventory'
    <2>1. inventory' # [of |-> given', whole |-> FALSE]
        BY <1>1, <1>2
    <2>2. QED
        BY <1>1, <2>1 DEF StatusOfInventory
<1>6. QED
    BY <1>3, <1>4, <1>5 DEF CommandInv

LEMMA ParseKeeps == ASSUME CommandInv, Parse PROVE CommandInv'
<1>1. step = "parse"
    BY DEF Parse
<1>2. CASE End(ExitSuccess) /\ UNCHANGED size /\ (args.cmd # "scan" \/ args.parse = "help")
    BY <1>1, <1>2, EndsEarly
<1>3. CASE End(ExitUsage) /\ UNCHANGED size
    BY <1>1, <1>3, EndsEarly
<1>4. CASE /\ args.parse = "ok" /\ step' = "check"
           /\ size' = Stored(args.digits, args.factor)
           /\ SizeAccepted(args.digits)
           /\ UNCHANGED <<args, workers, inventory, failed, faults, code, given, before>>
    <2>1. size' \in -Half .. Half - 1
        BY <1>4, StoredInRange DEF CommandInv
    <2>2. CommandTypeOK'
        BY <1>4, <2>1 DEF CommandInv, CommandTypeOK
    <2>3. QED
        BY <1>1, <1>4, <2>2 DEF CommandInv, Untouched, Opened, Numbered, UsageHarmless,
           StatusOfInventory, SizeRead, LimitAsAsked, Asked
<1>5. QED
    BY <1>2, <1>3, <1>4 DEF Parse

LEMMA CheckKeeps == ASSUME CommandInv, Check PROVE CommandInv'
<1>1. step = "check"
    BY DEF Check
<1>2. CASE End(ExitUsage) /\ UNCHANGED size
    BY <1>1, <1>2, EndsEarly
<1>3. CASE /\ Valid
           /\ step' = IF args.cmd = "scan" THEN "open" ELSE "work"
           /\ UNCHANGED <<args, size, workers, inventory, failed, faults, code, given, before>>
    <2>1. step' \in {"open", "work"} /\ (step' = "open" <=> args.cmd = "scan")
        BY <1>3
    <2>2. CommandTypeOK'
        BY <1>3, <2>1 DEF CommandInv, CommandTypeOK
    <2>3. args.cmd = "scan" => args.parse = "ok"
        BY <1>1 DEF CommandInv, Opened
    <2>4. SizeRead'
        BY <1>1, <1>3, <2>1 DEF CommandInv, SizeRead, SizeAccepted, Stored
    <2>5. LimitAsAsked'
        <3>1. /\ Asked \in Nat /\ size <= Asked /\ (Asked < Half => size = Asked)
              /\ size \in Int /\ Half \in Nat
            BY <1>1, StoredNeverAbove, HalfAssumption DEF CommandInv, SizeRead, CommandTypeOK
        <3>2. args.cmd = "extract" => size > 0
            BY <1>3 DEF Valid
        <3>3. Asked' = Asked /\ size' = size /\ args' = args
            BY <1>3 DEF Asked
        <3>4. QED
            BY <2>1, <3>1, <3>2, <3>3 DEF LimitAsAsked
    <2>6. QED
        BY <1>1, <1>3, <2>1, <2>2, <2>3, <2>4, <2>5 DEF CommandInv, Untouched, Opened, Numbered,
           UsageHarmless, StatusOfInventory
<1>4. QED
    BY <1>2, <1>3 DEF Check

LEMMA WorkKeeps == ASSUME CommandInv, Delegate PROVE CommandInv'
<1>1. step = "work" /\ args.cmd # "scan" /\ UNCHANGED size
    BY DEF Delegate, CommandInv, Opened
<1>2. PICK status \in {ExitSuccess, ExitPartial, ExitFatal, ExitUnsupported} : End(status)
    BY DEF Delegate
<1>3. QED
    BY <1>1, <1>2, EndsEarly

LEMMA OpenKeeps == ASSUME CommandInv, Open PROVE CommandInv'
<1>1. step = "open" /\ args.cmd = "scan" /\ args.parse = "ok"
    BY DEF Open, CommandInv, Opened
<1>2. CASE End(ExitFatal) /\ UNCHANGED size
    BY <1>1, <1>2, EndsEarly
<1>3. CASE /\ step' = "config" /\ inventory' = [of |-> given, whole |-> FALSE]
           /\ UNCHANGED <<args, size, workers, failed, faults, code, given, before>>
    <2>1. CommandTypeOK'
        BY <1>3 DEF CommandInv, CommandTypeOK
    <2>2. QED
        BY <1>1, <1>3, <2>1 DEF CommandInv, CommandTypeOK, Untouched, Opened, Numbered, UsageHarmless,
           StatusOfInventory, SizeRead, LimitAsAsked, Asked
<1>4. QED
    BY <1>2, <1>3 DEF Open

LEMMA ConfigureKeeps == ASSUME CommandInv, Configure PROVE CommandInv'
<1>1. step = "config" /\ UNCHANGED <<args, inventory, faults, code, given, before>>
    BY DEF Configure
<1>2. CASE Configured /\ step' = "scan" /\ workers' = Pool /\ size' = Limit /\ UNCHANGED failed
    <2>1. /\ args.workers \in Int /\ args.after \in Int /\ args.before \in Int
          /\ size \in -Half .. Half - 1
        BY ArgsAssumption DEF CommandInv, CommandTypeOK, ArgsType
    <2>2. size' \in MinScan .. Half - 1 /\ workers' \in Int
        BY <1>2, <2>1, ScanAssumption, HalfAssumption, PoolAssumption DEF Configured, Pool, Limit
    <2>3. Asked \in Nat /\ size <= Asked /\ (Asked < Half => size = Asked)
        BY <1>1, StoredNeverAbove DEF CommandInv, SizeRead
    <2>4. CommandTypeOK'
        BY <1>1, <1>2, <2>2, ScanAssumption, HalfAssumption DEF CommandInv, CommandTypeOK
    <2>5. LimitAsAsked'
        <3>1. Asked' = Asked /\ step' = "scan"
            BY <1>1, <1>2 DEF Asked
        <3>2. CASE size = 0
            <4>1. size' = DefaultScan
                BY <1>2, <3>2 DEF Limit
            <4>2. Asked = 0 \/ Asked >= Half
                BY <2>3, <3>2, HalfAssumption
            <4>3. QED
                BY <2>2, <2>3, <3>1, <4>1, <4>2, ScanAssumption, HalfAssumption DEF LimitAsAsked
        <3>3. CASE size # 0
            <4>1. size' = size
                BY <1>2, <3>3 DEF Limit
            <4>2. QED
                BY <2>1, <2>2, <2>3, <3>1, <4>1, ScanAssumption, HalfAssumption DEF LimitAsAsked
        <3>4. QED
            BY <3>2, <3>3
    <2>6. QED
        BY <1>1, <1>2, <2>4, <2>5 DEF CommandInv, Untouched, Opened, Numbered, UsageHarmless,
           StatusOfInventory, SizeRead
<1>3. CASE step' = "close" /\ failed' = TRUE /\ UNCHANGED <<workers, size>>
    <2>1. failed' \in BOOLEAN /\ ~(~failed')
        BY <1>3, Zenon
    <2>2. CommandTypeOK'
        BY <1>1, <1>3, <2>1 DEF CommandInv, CommandTypeOK
    <2>3. QED
        BY <1>1, <1>3, <2>1, <2>2 DEF CommandInv, Untouched, Opened, Numbered, UsageHarmless,
           StatusOfInventory, SizeRead, LimitAsAsked, Asked
<1>4. QED
    BY <1>2, <1>3 DEF Configure

LEMMA ScanKeeps == ASSUME CommandInv, Scan PROVE CommandInv'
<1>1. /\ step = "scan" /\ step' = "close" /\ faults' \in {0, 1}
      /\ UNCHANGED <<args, size, workers, code, given, before>>
    BY DEF Scan
<1>2. args.cmd = "scan" /\ args.parse = "ok" /\ code = Running /\ inventory.of = given
    BY <1>1 DEF CommandInv, Opened
<1>3. inventory \in [of : Int, whole : BOOLEAN]
    BY DEF CommandInv, CommandTypeOK
<1>4. \/ failed' = FALSE /\ inventory' = [inventory EXCEPT !.whole = TRUE]
      \/ failed' = TRUE /\ \E all \in BOOLEAN : inventory' = [inventory EXCEPT !.whole = all]
    BY DEF Scan
<1>5. failed' \in BOOLEAN
    BY <1>4, Zenon
<1>6. inventory' \in [of : Int, whole : BOOLEAN] /\ inventory'.of = given
    BY <1>2, <1>3, <1>4
<1>7. ~failed' => inventory' = [of |-> given, whole |-> TRUE]
    BY <1>2, <1>3, <1>4
<1>8. CommandTypeOK'
    BY <1>1, <1>5, <1>6 DEF CommandInv, CommandTypeOK
<1>9. QED
    BY <1>1, <1>2, <1>6, <1>7, <1>8 DEF CommandInv, CommandTypeOK, Untouched, Opened, Numbered,
       UsageHarmless, StatusOfInventory, SizeRead, LimitAsAsked, Asked

LEMMA CloseKeeps == ASSUME CommandInv, Close PROVE CommandInv'
<1>1. /\ step = "close" /\ step' = "done"
      /\ UNCHANGED <<args, size, workers, failed, faults, given, before>>
    BY DEF Close
<1>2. /\ args.cmd = "scan" /\ args.parse = "ok" /\ inventory.of = given /\ faults \in {0, 1}
      /\ inventory \in [of : Int, whole : BOOLEAN] /\ failed \in BOOLEAN /\ given \in Nat
      /\ ~failed => inventory = [of |-> given, whole |-> TRUE]
    BY <1>1 DEF CommandInv, Opened, CommandTypeOK
<1>3. PICK c \in {FALSE} \cup {"close" \in CommandFaults} :
        /\ code' = StatusOf(c)
        /\ \/ UNCHANGED inventory
           \/ c /\ inventory' = [inventory EXCEPT !.whole = FALSE]
    BY DEF Close
<1>4. code' \in {ExitSuccess, ExitPartial, ExitFatal}
    BY <1>3 DEF StatusOf
<1>5. code' # ExitFatal => /\ ~failed /\ UNCHANGED inventory
                           /\ code' = ExitSuccess <=> faults = 0
    BY <1>2, <1>3 DEF StatusOf
<1>6. inventory' \in [of : Int, whole : BOOLEAN] /\ inventory'.of = given
    BY <1>2, <1>3
<1>7. CommandTypeOK'
    BY <1>1, <1>4, <1>6 DEF CommandInv, CommandTypeOK
<1>8. StatusOfInventory'
    BY <1>1, <1>2, <1>4, <1>5 DEF StatusOfInventory
<1>9. QED
    BY <1>1, <1>2, <1>4, <1>6, <1>7, <1>8 DEF CommandInv, Untouched, Opened, Numbered,
       UsageHarmless, SizeRead, LimitAsAsked, Asked

LEMMA KillCommandKeeps == ASSUME CommandInv, KillCommand PROVE CommandInv'
<1>1. /\ step # "done" /\ step' = "done"
      /\ UNCHANGED <<args, size, workers, inventory, failed, faults, code, given, before>>
    BY DEF KillCommand
<1>2. code = Running
    BY <1>1 DEF CommandInv, CommandTypeOK, Untouched, Opened
<1>3. CommandTypeOK'
    BY <1>1 DEF CommandInv, CommandTypeOK
<1>4. QED
    BY <1>1, <1>2, <1>3 DEF CommandInv, Untouched, Opened, Numbered, UsageHarmless,
       StatusOfInventory, SizeRead, LimitAsAsked, Asked

LEMMA AgainKeeps == ASSUME CommandInv, Again PROVE CommandInv'
<1>1. /\ given' = given + 1 /\ before' = inventory /\ inventory' = inventory /\ args' \in Args
      /\ step' = "parse" /\ code' = Running
      /\ size' = 0 /\ workers' = 0 /\ failed' = FALSE /\ faults' = 0
    BY DEF Again
<1>2. failed' \in BOOLEAN
    BY <1>1, Zenon
<1>3. size' \in -Half .. Half - 1
    BY <1>1, HalfAssumption
<1>4. CommandTypeOK'
    BY <1>1, <1>2, <1>3 DEF CommandInv, CommandTypeOK
<1>5. QED
    BY <1>1, <1>4 DEF CommandInv, CommandTypeOK, Untouched, Opened, Numbered, UsageHarmless,
       StatusOfInventory, SizeRead, LimitAsAsked, Asked

\* The inductive invariant: whose records the output holds at every step.
THEOREM CommandInvariant == CommandSpec => []CommandInv
<1>1. ASSUME CommandInv, UNCHANGED commandVars PROVE CommandInv'
    BY <1>1 DEF commandVars, CommandInv, CommandTypeOK, Untouched, Opened, Numbered, UsageHarmless,
       StatusOfInventory, SizeRead, LimitAsAsked, Asked
<1>2. CommandInv /\ [CommandNext]_commandVars => CommandInv'
    BY <1>1, ParseKeeps, CheckKeeps, WorkKeeps, OpenKeeps, ConfigureKeeps, ScanKeeps, CloseKeeps,
       KillCommandKeeps, AgainKeeps DEF CommandNext, Stopped
<1>3. QED
    BY InitCommand, <1>2, PTL DEF CommandSpec

\* The variables keep their types; a size is an integer of the width, however its
\* product wraps.
THEOREM CommandTyped == CommandSpec => []CommandTypeOK
    BY CommandInvariant, PTL DEF CommandInv

\* A command refused for its usage leaves an earlier inventory as it was.
THEOREM Harmless == CommandSpec => []UsageHarmless
    BY CommandInvariant, PTL DEF CommandInv

\* The status of a scan tells what its inventory holds.
THEOREM StatusTells == CommandSpec => []StatusOfInventory
    BY CommandInvariant, PTL DEF CommandInv

\* However the size flag wraps, no command runs with a limit above the one asked
\* for, nor with another one where an integer holds it.
THEOREM LimitNeverAbove == CommandSpec => []LimitAsAsked
    BY CommandInvariant, PTL DEF CommandInv

-----------------------------------------------------------------------------
(* The batch.                                                               *)

\* What was recorded is about lines already read, in order.
Behind ==
    /\ \A i \in tried \cup good \cup complained : i < at
    /\ \A k \in 1 .. Len(written) : written[k] < at
    /\ InFileOrder

\* What the lines read so far came to, and what hadErrors says of it.
ReadSoFar ==
    /\ \A i \in Records : i < at => i \in tried
    /\ \A i \in NonBlank : i < at => i \in good \cup complained
    /\ hadErrors <=> \E i \in NonBlank : i < at /\ i \notin good
    /\ hadErrors => complained # {}
    /\ cmd = "extract" => Records \cap good \subseteq WrittenLines \cap installed

\* The status, once there is one.
Ended == /\ exit # ExitUnsupported
         /\ exit \in {ExitSuccess, ExitPartial} => /\ Len(input.lines) < at
                                                   /\ hadErrors <=> exit = ExitPartial

BatchInv == /\ TypeOK
            /\ input.batch => Behind /\ ReadSoFar /\ Ended
            /\ ~input.batch => /\ exit = Running => written = <<>>
                               /\ Len(written) \in {0, 1}

-----------------------------------------------------------------------------

\* The input is one of those there are.
LEMMA InputKnown ==
    ASSUME TypeOK
    PROVE  /\ input.batch \in BOOLEAN /\ input.lines \in Seq(LineKinds)
           /\ Len(input.lines) \in Nat
    BY InputsAssumption, LenProperties DEF TypeOK

\* Writing one more line keeps those written.
LEMMA OneMore ==
    ASSUME NEW q \in Seq(Nat), NEW x \in Nat
    PROVE  /\ Append(q, x) \in Seq(Nat)
           /\ Len(q) \in Nat /\ Len(Append(q, x)) = Len(q) + 1
           /\ \A i \in 1 .. Len(q) : Append(q, x)[i] = q[i]
           /\ Append(q, x)[Len(q) + 1] = x
    BY AppendProperties, LenProperties

\* A batch nothing has happened to.
Fresh == cmd \in Commands /\ input \in Inputs /\ runs = 1 /\ installed = {} /\ Started

LEMMA FreshBatch == Fresh => BatchInv
<1> SUFFICES ASSUME Fresh PROVE BatchInv
    OBVIOUS
<1>1. /\ cmd \in Commands /\ input \in Inputs /\ runs = 1 /\ installed = {}
      /\ at = 1 /\ hadErrors = FALSE /\ exit = Running
      /\ tried = {} /\ good = {} /\ complained = {} /\ written = <<>>
    BY DEF Fresh, Started
<1>2. written \in Seq(Nat) /\ Len(written) = 0
    BY <1>1, EmptySeq
<1>3. TypeOK
    <2>1. hadErrors \in BOOLEAN
        BY <1>1, Zenon
    <2>2. cmd \in Commands /\ input \in Inputs /\ at \in Nat \ {0} /\ runs \in Nat
        BY <1>1
    <2>3. tried \subseteq Nat /\ good \subseteq Nat /\ complained \subseteq Nat /\ installed \subseteq Nat
        BY <1>1
    <2>4. exit = Running
        BY <1>1
    <2>5. QED
        BY <1>2, <2>1, <2>2, <2>3, <2>4 DEF TypeOK
<1>4. Behind
    BY <1>1, <1>2 DEF Behind, InFileOrder
<1>5. ReadSoFar
    <2>1. \A i \in NonBlank : i \in Nat /\ ~(i < 1)
        BY <1>3, InputKnown DEF NonBlank
    <2>2. Records \subseteq NonBlank
        BY DEF Records, NonBlank
    <2>3. QED
        BY <1>1, <2>1, <2>2 DEF ReadSoFar
<1>6. Ended
    BY <1>1 DEF Ended
<1>7. QED
    BY <1>1, <1>2, <1>3, <1>4, <1>5, <1>6 DEF BatchInv

\* What trying a path does.
LEMMA Tried ==
    ASSUME TypeOK, NEW o \in Outcomes, NEW f \in BOOLEAN, NEW status, TryPath(o, f, status)
    PROVE  /\ status \in {ExitSuccess, ExitPartial, ExitFatal, ExitUnsupported}
           /\ tried' = tried \cup {at}
           /\ good' = IF status = ExitSuccess THEN good \cup {at} ELSE good
           /\ complained' = IF status = ExitSuccess THEN complained ELSE complained \cup {at}
           /\ written' \in {written, Append(written, at)}
           /\ installed' \in {installed, installed \cup {at}}
           /\ cmd = "extract" /\ status = ExitSuccess =>
                 written' = Append(written, at) /\ installed' = installed \cup {at}
<1>1. status \in {ExitSuccess, ExitPartial, ExitFatal, ExitUnsupported}
    BY DEF TryPath, ExitOf
<1>2. ASSUME cmd = "extract", status = ExitSuccess PROVE o.ok /\ ~f
    BY <1>2, OutcomesAssumption DEF TryPath, ExitOf
<1>3. written' \in {written, Append(written, at)}
    BY DEF TryPath
<1>4. installed' \in {installed, installed \cup {at}}
    BY DEF TryPath
<1>5. ASSUME cmd = "extract", status = ExitSuccess
      PROVE  written' = Append(written, at) /\ installed' = installed \cup {at}
    BY <1>2, <1>5 DEF TryPath
<1>6. /\ tried' = tried \cup {at}
      /\ good' = IF status = ExitSuccess THEN good \cup {at} ELSE good
      /\ complained' = IF status = ExitSuccess THEN complained ELSE complained \cup {at}
    BY DEF TryPath
<1>7. QED
    BY <1>1, <1>3, <1>4, <1>5, <1>6

LEMMA StdoutBoolean == {FALSE} \cup {"stdout" \in Faults} \subseteq BOOLEAN
    OBVIOUS

LEMMA TryRecordKeeps == ASSUME BatchInv, TryRecord PROVE BatchInv'
<1>1. /\ exit = Running /\ input.batch /\ at \in 1 .. Len(input.lines) /\ at' = at + 1
      /\ input.lines[at] = "record" /\ UNCHANGED <<cmd, input, exit, runs>>
      /\ Len(input.lines) \in Nat
    BY InputKnown DEF TryRecord, HasLine, BatchInv, TypeOK
<1>2. PICK o \in Outcomes, f \in {FALSE} \cup {"stdout" \in Faults},
           status \in {ExitSuccess, ExitPartial, ExitFatal, ExitUnsupported} :
            TryPath(o, f, status) /\ hadErrors' = (hadErrors \/ status # ExitSuccess)
    BY DEF TryRecord
<1>3. /\ tried' = tried \cup {at}
      /\ good' = IF status = ExitSuccess THEN good \cup {at} ELSE good
      /\ complained' = IF status = ExitSuccess THEN complained ELSE complained \cup {at}
      /\ written' \in {written, Append(written, at)}
      /\ installed' \in {installed, installed \cup {at}}
      /\ cmd = "extract" /\ status = ExitSuccess =>
            written' = Append(written, at) /\ installed' = installed \cup {at}
    BY <1>2, Tried, StdoutBoolean DEF BatchInv
<1>4. /\ written \in Seq(Nat) /\ at \in Nat \ {0} /\ Len(written) \in Nat
      /\ Append(written, at) \in Seq(Nat) /\ Len(Append(written, at)) = Len(written) + 1
      /\ \A i \in 1 .. Len(written) : Append(written, at)[i] = written[i]
      /\ Append(written, at)[Len(written) + 1] = at
    BY OneMore DEF BatchInv, TypeOK
<1>5. TypeOK'
    <2>1. hadErrors' \in BOOLEAN
        BY <1>2, Zenon DEF BatchInv, TypeOK
    <2>2. at' \in Nat \ {0} /\ UNCHANGED <<cmd, input, exit, runs>>
        BY <1>1, <1>4
    <2>3. written' \in Seq(Nat)
        <3>1. written' = written \/ written' = Append(written, at)
            BY <1>3
        <3>2. QED
            BY <1>4, <3>1
    <2>4. tried' \subseteq Nat /\ good' \subseteq Nat /\ complained' \subseteq Nat /\ installed' \subseteq Nat
        BY <1>3, <1>4 DEF BatchInv, TypeOK
    <2>5. QED
        BY <2>1, <2>2, <2>4, <2>3 DEF BatchInv, TypeOK
<1>6. Behind'
    <2>1. \A i \in tried' \cup good' \cup complained' : i < at'
        <3>1. \A i \in tried \cup good \cup complained : i \in Nat /\ i < at
            BY <1>1 DEF BatchInv, Behind, TypeOK
        <3>2. tried' \cup good' \cup complained' \subseteq (tried \cup good \cup complained) \cup {at}
            BY <1>3
        <3>3. QED
            BY <1>1, <1>4, <3>1, <3>2
    <2>2. \A k \in 1 .. Len(written) : written[k] < at /\ written[k] \in Nat
        BY <1>1, <1>4 DEF BatchInv, Behind
    <2>3. CASE written' = written
        BY <1>1, <1>4, <2>1, <2>2, <2>3 DEF BatchInv, Behind, InFileOrder
    <2>4. CASE written' = Append(written, at)
        <3>1. \A k \in 1 .. Len(written') : written'[k] < at'
            BY <1>1, <1>4, <2>2, <2>4
        <3>2. \A i, j \in 1 .. Len(written') : i < j => written'[i] < written'[j]
            <4>1. \A i, j \in 1 .. Len(written) : i < j => written[i] < written[j]
                BY <1>1 DEF BatchInv, Behind, InFileOrder
            <4>2. SUFFICES ASSUME NEW i \in 1 .. Len(written'), NEW j \in 1 .. Len(written'), i < j
                           PROVE  written'[i] < written'[j]
                OBVIOUS
            <4>3. i \in 1 .. Len(written) /\ written'[i] = written[i]
                BY <1>4, <2>4, <4>2
            <4>4. CASE j \in 1 .. Len(written)
                BY <1>4, <2>4, <4>1, <4>2, <4>3, <4>4
            <4>5. CASE j = Len(written) + 1
                BY <1>4, <2>2, <2>4, <4>3, <4>5
            <4>6. QED
                BY <1>4, <2>4, <4>4, <4>5
        <3>3. QED
            BY <2>1, <3>1, <3>2 DEF Behind, InFileOrder
    <2>5. QED
        BY <1>3, <2>3, <2>4
<1>7. ReadSoFar'
    <2>1. Records' = Records /\ NonBlank' = NonBlank /\ at \in NonBlank
        BY <1>1 DEF Records, NonBlank
    <2>2. \A i \in NonBlank : i \in Nat /\ (i < at' <=> i < at \/ i = at)
        BY <1>1, <1>4 DEF NonBlank
    <2>3. Records \subseteq NonBlank
        BY DEF Records, NonBlank
    <2>4. at \notin good
        BY <1>1, <1>4 DEF BatchInv, Behind
    <2>5. /\ \A i \in Records : i < at' => i \in tried'
          /\ \A i \in NonBlank : i < at' => i \in good' \cup complained'
        BY <1>1, <1>3, <2>2, <2>3 DEF BatchInv, ReadSoFar
    <2>6. hadErrors' <=> \E i \in NonBlank : i < at' /\ i \notin good'
        <3>1. CASE status = ExitSuccess
            <4>1. hadErrors' = hadErrors /\ good' = good \cup {at}
                BY <1>2, <1>3, <3>1 DEF BatchInv, TypeOK
            <4>2. \A i \in NonBlank : (i < at' /\ i \notin good') <=> (i < at /\ i \notin good)
                BY <1>4, <2>2, <4>1
            <4>3. QED
                BY <1>1, <4>1, <4>2 DEF BatchInv, ReadSoFar
        <3>2. CASE status # ExitSuccess
            <4>1. hadErrors' = TRUE /\ good' = good
                BY <1>2, <1>3, <3>2
            <4>2. at \in NonBlank /\ at < at' /\ at \notin good'
                BY <1>1, <1>4, <2>1, <2>4, <4>1
            <4>3. QED
                BY <2>1, <4>1, <4>2
        <3>3. QED
            BY <3>1, <3>2
    <2>7. hadErrors' => complained' # {}
        BY <1>1, <1>2, <1>3 DEF BatchInv, ReadSoFar
    <2>8. cmd = "extract" => Records \cap good' \subseteq WrittenLines' \cap installed'
        <3>1. WrittenLines \subseteq WrittenLines'
            <4>1. CASE written' = written
                BY <4>1 DEF WrittenLines
            <4>2. CASE written' = Append(written, at)
                <5>1. \A i \in 1 .. Len(written) : i \in 1 .. Len(written') /\ written'[i] = written[i]
                    BY <1>4, <4>2
                <5>2. QED
                    BY <5>1 DEF WrittenLines
            <4>3. QED
                BY <1>3, <4>1, <4>2
        <3>2. written' = Append(written, at) => at \in WrittenLines'
            BY <1>4 DEF WrittenLines
        <3>3. QED
            BY <1>1, <1>3, <3>1, <3>2 DEF BatchInv, ReadSoFar
    <2>9. QED
        BY <1>1, <2>1, <2>5, <2>6, <2>7, <2>8 DEF ReadSoFar
<1>8. Ended'
    BY <1>1 DEF Ended
<1>9. input'.batch
    BY <1>1
<1>10. QED
    BY <1>5, <1>6, <1>7, <1>8, <1>9 DEF BatchInv

\* A line that is not a record: blank, or rejected with a diagnostic.
LEMMA OtherLineKeeps == ASSUME BatchInv, SkipBlank \/ Reject PROVE BatchInv'
<1>1. /\ exit = Running /\ input.batch /\ at \in 1 .. Len(input.lines) /\ at' = at + 1
      /\ UNCHANGED <<cmd, input, exit, runs, tried, good, written, installed>>
      /\ Len(input.lines) \in Nat /\ input.lines[at] # "record"
    BY InputKnown DEF SkipBlank, Reject, HasLine, BatchInv, TypeOK
<1>2. \/ /\ input.lines[at] = "blank" /\ UNCHANGED <<hadErrors, complained>>
      \/ /\ input.lines[at] # "blank" /\ hadErrors' = TRUE /\ complained' = complained \cup {at}
    BY DEF SkipBlank, Reject
<1>3. TypeOK'
    <2>1. hadErrors' \in BOOLEAN
        BY <1>2, Zenon DEF BatchInv, TypeOK
    <2>2. complained' = complained \/ complained' = complained \cup {at}
        BY <1>2, Zenon
    <2>3. complained \subseteq Nat /\ at \in Nat \ {0}
        BY DEF BatchInv, TypeOK
    <2>4. complained' \subseteq Nat
        BY <2>2, <2>3
    <2>5. at' \in Nat \ {0}
        BY <1>1, <2>3
    <2>6. QED
        BY <1>1, <2>1, <2>4, <2>5 DEF BatchInv, TypeOK
<1>4. Behind'
    <2>1. \A i \in tried' \cup good' \cup complained' : i < at'
        BY <1>1, <1>2 DEF BatchInv, Behind, TypeOK
    <2>2. \A k \in 1 .. Len(written) : written[k] \in Nat /\ written[k] < at + 1
        BY <1>1 DEF BatchInv, Behind, TypeOK
    <2>3. QED
        BY <1>1, <2>1, <2>2 DEF BatchInv, Behind, InFileOrder
<1>5. ReadSoFar'
    <2>1. Records' = Records /\ NonBlank' = NonBlank /\ WrittenLines' = WrittenLines
        BY <1>1 DEF Records, NonBlank, WrittenLines
    <2>2. \A i \in NonBlank : i \in Nat /\ (i < at' <=> i < at \/ i = at)
        BY <1>1 DEF NonBlank
    <2>3. Records \subseteq NonBlank /\ at \notin Records
        BY <1>1 DEF Records, NonBlank
    <2>4. CASE input.lines[at] = "blank"
        <3>1. at \notin NonBlank /\ UNCHANGED <<hadErrors, complained>>
            BY <1>2, <2>4 DEF NonBlank
        <3>2. QED
            BY <1>1, <2>1, <2>2, <2>3, <3>1 DEF BatchInv, ReadSoFar
    <2>5. CASE input.lines[at] # "blank"
        <3>1. at \in NonBlank /\ hadErrors' = TRUE /\ complained' = complained \cup {at}
            BY <1>1, <1>2, <2>5 DEF NonBlank
        <3>2. at \notin good
            BY <1>1 DEF BatchInv, Behind
        <3>3. QED
            BY <1>1, <2>1, <2>2, <2>3, <3>1, <3>2 DEF BatchInv, ReadSoFar
    <2>6. QED
        BY <2>4, <2>5
<1>6. Ended'
    BY <1>1 DEF Ended
<1>7. input'.batch
    BY <1>1
<1>8. QED
    BY <1>3, <1>4, <1>5, <1>6, <1>7 DEF BatchInv

LEMMA SingleKeeps == ASSUME BatchInv, Single PROVE BatchInv'
<1>1. PICK o \in Outcomes, f \in {FALSE} \cup {"stdout" \in Faults} : TryPath(o, f, exit')
    BY DEF Single
<1>2. /\ ~input.batch /\ written = <<>> /\ UNCHANGED <<cmd, input, at, hadErrors, runs>>
    BY DEF Single, BatchInv
<1>3. /\ exit' \in {ExitSuccess, ExitPartial, ExitFatal, ExitUnsupported}
      /\ tried' = tried \cup {at}
      /\ good' = IF exit' = ExitSuccess THEN good \cup {at} ELSE good
      /\ complained' = IF exit' = ExitSuccess THEN complained ELSE complained \cup {at}
      /\ written' \in {written, Append(written, at)}
      /\ installed' \in {installed, installed \cup {at}}
    BY <1>1, Tried, StdoutBoolean DEF BatchInv
<1>4. written' \in Seq(Nat) /\ Len(written') \in {0, 1}
    <2>1. written \in Seq(Nat) /\ at \in Nat /\ Len(written) = 0
        BY <1>2, EmptySeq DEF BatchInv, TypeOK
    <2>2. Append(written, at) \in Seq(Nat) /\ Len(Append(written, at)) = 1
        BY <2>1, OneMore
    <2>3. QED
        BY <1>3, <2>1, <2>2
<1>5. TypeOK'
    BY <1>2, <1>3, <1>4 DEF BatchInv, TypeOK
<1>6. ~input'.batch /\ exit' # Running
    BY <1>2, <1>3
<1>7. QED
    BY <1>4, <1>5, <1>6 DEF BatchInv

LEMMA KillKeeps == ASSUME BatchInv, Kill PROVE BatchInv'
<1>1. /\ UNCHANGED <<cmd, input, exit>> /\ exit = Running /\ written' = <<>> /\ at' = 1
      /\ hadErrors' = FALSE /\ tried' = {} /\ good' = {} /\ complained' = {} /\ runs' = runs + 1
    BY DEF Kill
<1>2. installed' \subseteq installed \cup {at}
    BY DEF Kill
<1>3. written' \in Seq(Nat) /\ Len(written') = 0
    BY <1>1, EmptySeq
<1>4. TypeOK'
    <2>1. hadErrors' \in BOOLEAN
        BY <1>1, Zenon
    <2>2. /\ UNCHANGED <<cmd, input, exit>> /\ at' \in Nat \ {0}
          /\ tried' \subseteq Nat /\ good' \subseteq Nat /\ complained' \subseteq Nat
        BY <1>1
    <2>3. runs' \in Nat /\ installed' \subseteq Nat
        BY <1>1, <1>2 DEF BatchInv, TypeOK
    <2>4. QED
        BY <1>3, <2>1, <2>2, <2>3 DEF BatchInv, TypeOK
<1>5. Behind' /\ Ended'
    BY <1>1, <1>3 DEF Behind, InFileOrder, Ended
<1>6. ReadSoFar'
    <2>1. \A i \in NonBlank' : i \in Nat /\ ~(i < 1)
        BY <1>4, InputKnown, <1>1 DEF NonBlank, BatchInv
    <2>2. Records' \subseteq NonBlank'
        BY DEF Records, NonBlank
    <2>3. QED
        BY <1>1, <2>1, <2>2 DEF ReadSoFar
<1>7. QED
    BY <1>1, <1>3, <1>4, <1>5, <1>6 DEF BatchInv

LEMMA EndKeeps == ASSUME BatchInv, OpenFails \/ Finish \/ UNCHANGED vars PROVE BatchInv'
<1>1. UNCHANGED <<cmd, input, at, hadErrors, runs, tried, good, complained, written, installed>>
    BY DEF OpenFails, Finish, vars
<1>2. \/ input.batch /\ exit' = ExitFatal
      \/ input.batch /\ Drained /\ ~ReadError /\ exit' = IF hadErrors THEN ExitPartial ELSE ExitSuccess
      \/ exit' = exit
    BY DEF OpenFails, Finish, vars
<1>3. TypeOK'
    BY <1>1, <1>2 DEF BatchInv, TypeOK
<1>4. input.batch => Behind' /\ ReadSoFar'
    BY <1>1 DEF BatchInv, Behind, ReadSoFar, InFileOrder, Records, NonBlank, WrittenLines
<1>5. input.batch => Ended'
    BY <1>1, <1>2, InputKnown DEF BatchInv, Ended, Drained, ReadError, HasLine, TypeOK
<1>6. ~input.batch => /\ exit' = Running => written' = <<>>
                      /\ Len(written') \in {0, 1}
    BY <1>1, <1>2 DEF BatchInv
<1>7. QED
    BY <1>1, <1>3, <1>4, <1>5, <1>6 DEF BatchInv

LEMMA BatchKeeps == ASSUME BatchInv, [Next]_vars PROVE BatchInv'
    BY SingleKeeps, OtherLineKeeps, TryRecordKeeps, KillKeeps, EndKeeps
    DEF Next, Work, Terminated

\* The inductive invariant: what the flag, the position and the records of a batch
\* have to do with each other after every line.
THEOREM BatchInvariant == Spec => []BatchInv
<1>1. Init => BatchInv
    BY FreshBatch DEF Init, Fresh
<1>2. QED
    BY <1>1, BatchKeeps, PTL DEF Spec

LEMMA InvTruthful == BatchInv => StatusTruthful
<1> SUFFICES ASSUME BatchInv, input.batch PROVE StatusTruthful
    BY DEF StatusTruthful
<1>1. ReadSoFar /\ Ended /\ Len(input.lines) \in Nat /\ at \in Nat
    BY InputKnown DEF BatchInv, TypeOK
<1>2. /\ \A i \in NonBlank : i \in 1 .. Len(input.lines)
      /\ Records \subseteq NonBlank
    BY DEF NonBlank, Records
<1>3. exit \in {ExitSuccess, ExitPartial} => \A i \in NonBlank : i < at
    BY <1>1, <1>2 DEF Ended
<1>4. exit = ExitSuccess => NonBlank \subseteq good
    BY <1>1, <1>3 DEF Ended, ReadSoFar
<1>5. exit = ExitPartial => ~(NonBlank \subseteq good)
    BY <1>1 DEF Ended, ReadSoFar
<1>6. QED
    BY <1>1, <1>2, <1>3, <1>4, <1>5 DEF StatusTruthful, ReadSoFar, Ended

LEMMA InvOrdered == BatchInv => InFileOrder
<1> SUFFICES ASSUME BatchInv PROVE InFileOrder
    OBVIOUS
<1>1. CASE input.batch
    BY <1>1 DEF BatchInv, Behind
<1>2. CASE ~input.batch
    <2>1. Len(written) \in {0, 1}
        BY <1>2 DEF BatchInv
    <2>2. \A i, j \in 1 .. 0 : ~ (i < j)
        OBVIOUS
    <2>3. \A i, j \in 1 .. 1 : ~ (i < j)
        OBVIOUS
    <2>4. 1 .. Len(written) = 1 .. 0 \/ 1 .. Len(written) = 1 .. 1
        BY <2>1
    <2>5. \A i, j \in 1 .. Len(written) : ~ (i < j)
        BY <2>2, <2>3, <2>4
    <2>6. QED
        BY <2>5 DEF InFileOrder
<1>3. QED
    BY <1>1, <1>2

LEMMA InvExplained == BatchInv => FailuresExplained
    BY DEF BatchInv, FailuresExplained, ReadSoFar, Ended

\* The status of a batch says what happened to all of it.
THEOREM TruthfulStatus == Spec => []StatusTruthful
    BY InvTruthful, BatchInvariant, PTL

\* Results are written in the order of the file, each at most once.
THEOREM OrderOfFile == Spec => []InFileOrder
    BY InvOrdered, BatchInvariant, PTL

\* Every failing line has a diagnostic.
THEOREM Explained == Spec => []FailuresExplained
    BY InvExplained, BatchInvariant, PTL

-----------------------------------------------------------------------------
(* The program.                                                             *)

\* Only inspect and extract get as far as a batch, and outside of one its
\* variables are as a new batch needs them.
Delegated ==
    /\ step = "check" => args.cmd \in {"scan", "inspect", "extract"}
    /\ step # "work" => Fresh

ProgramInv == Delegated /\ BatchInv

-----------------------------------------------------------------------------

LEMMA NoInputGiven == NoInput \in Inputs
    BY CarveAssumption DEF NoInput

LEMMA LeavesFresh == ASSUME Leave PROVE Fresh'
    BY NoInputGiven, CarveAssumption DEF Leave, Fresh, Started

\* Where the batch has no part in a step.
LEMMA BatchUntouched == ASSUME ProgramInv, UNCHANGED batchVars PROVE BatchInv' /\ (Fresh => Fresh')
<1>1. UNCHANGED vars
    BY DEF batchVars, vars
<1>2. BatchInv'
    BY <1>1, BatchKeeps DEF ProgramInv
<1>3. QED
    BY <1>2 DEF Fresh, Started, batchVars

LEMMA DispatchKeeps == ASSUME ProgramInv, Dispatch PROVE ProgramInv'
<1>1. step = "check" /\ args' = args /\ Fresh /\ args.cmd \in {"scan", "inspect", "extract"}
      /\ step' \in {"done", "open", "work"}
    BY DEF Dispatch, Check, End, ProgramInv, Delegated
<1>2. CASE step' = "work"
    <2>1. args.cmd # "scan"
        BY <1>2 DEF Dispatch, Check, End
    <2>2. cmd' \in Commands /\ input' \in Inputs
        BY <1>1, <1>2, <2>1, CarveAssumption DEF Dispatch
    <2>3. Fresh'
        BY <1>1, <1>2, <2>2 DEF Dispatch, Fresh, Started
    <2>4. BatchInv'
        BY <2>3, FreshBatch, PTL
    <2>5. QED
        BY <1>2, <2>4 DEF ProgramInv, Delegated
<1>3. CASE step' # "work"
    <2>1. UNCHANGED batchVars
        BY <1>3 DEF Dispatch
    <2>2. QED
        BY <1>1, <1>3, <2>1, BatchUntouched DEF ProgramInv, Delegated
<1>4. QED
    BY <1>2, <1>3

LEMMA ScanStepKeeps == ASSUME ProgramInv, ScanStep PROVE ProgramInv'
<1>1. step # "work" /\ step' # "work"
    BY DEF ScanStep, Parse, Open, Configure, Scan, Close, End
<1>2. step' = "check" => args'.cmd \in {"scan", "inspect", "extract"}
    BY DEF ScanStep, Parse, Open, Configure, Scan, Close, End
<1>3. Fresh /\ UNCHANGED batchVars
    BY <1>1 DEF ScanStep, ProgramInv, Delegated
<1>4. QED
    BY <1>1, <1>2, <1>3, BatchUntouched DEF ProgramInv, Delegated

LEMMA BatchStepKeeps == ASSUME ProgramInv, BatchStep \/ BatchAgain PROVE ProgramInv'
<1>1. [Next]_vars /\ step = "work" /\ step' = step
    BY DEF BatchStep, BatchAgain, Next, commandVars
<1>2. BatchInv'
    BY <1>1, BatchKeeps DEF ProgramInv
<1>3. QED
    BY <1>1, <1>2 DEF ProgramInv, Delegated

LEMMA LeaveKeeps == ASSUME ProgramInv, Return \/ GiveUp PROVE ProgramInv'
<1>1. step' = "done" /\ Leave
    BY DEF Return, GiveUp, Delegate, KillCommand, End
<1>2. Fresh'
    BY <1>1, LeavesFresh
<1>3. BatchInv'
    BY <1>2, FreshBatch, PTL
<1>4. QED
    BY <1>1, <1>2, <1>3 DEF ProgramInv, Delegated

LEMMA OutsideKeeps ==
    ASSUME ProgramInv, Another \/ AllDone \/ UNCHANGED <<commandVars, batchVars>> PROVE ProgramInv'
<1>1. UNCHANGED batchVars
    BY DEF Another, AllDone
<1>2. \/ step = "done" /\ step' = "parse"
      \/ step' = step /\ args' = args
    BY DEF Another, AllDone, Again, Stopped, commandVars
<1>3. QED
    BY <1>1, <1>2, BatchUntouched DEF ProgramInv, Delegated

\* What the batch is like at every step of the program.
THEOREM ProgramInvariant == Program => []ProgramInv
<1>1. ProgramInit => ProgramInv
    <2> SUFFICES ASSUME ProgramInit PROVE ProgramInv
        OBVIOUS
    <2>1. Fresh /\ step = "parse"
        BY NoInputGiven, CarveAssumption DEF ProgramInit, CommandInit, Fresh
    <2>2. QED
        BY <2>1, FreshBatch DEF ProgramInv, Delegated
<1>2. ProgramInv /\ [ProgramNext]_<<commandVars, batchVars>> => ProgramInv'
    BY DispatchKeeps, ScanStepKeeps, BatchStepKeeps, LeaveKeeps, OutsideKeeps DEF ProgramNext, Progress
<1>3. QED
    BY <1>1, <1>2, PTL DEF Program

\* The program implements CommandLine: a batch is one step of the command that
\* runs it, and its status is one CommandLine allows.
THEOREM ProgramCommands == Program => CommandSpec
<1>1. ProgramInit => CommandInit
    BY DEF ProgramInit
<1>2. [ProgramNext]_<<commandVars, batchVars>> => [CommandNext]_commandVars
    BY DEF ProgramNext, Progress, Dispatch, ScanStep, BatchStep, BatchAgain, Return, GiveUp, Another,
       AllDone, CommandNext
<1>3. QED
    BY <1>1, <1>2, PTL DEF Program, CommandSpec

\* Whatever the commands before it, the status of every batch says what happened
\* to all of it.
THEOREM ProgramTruthful == Program => []StatusTruthful
    BY ProgramInvariant, InvTruthful, PTL DEF ProgramInv

\* The results of every batch are in the order of its file.
THEOREM ProgramOrdered == Program => []InFileOrder
    BY ProgramInvariant, InvOrdered, PTL DEF ProgramInv

\* Every failing line of every batch has a diagnostic.
THEOREM ProgramExplained == Program => []FailuresExplained
    BY ProgramInvariant, InvExplained, PTL DEF ProgramInv

\* No batch and no refused command harms the inventory of an earlier scan.
THEOREM ProgramHarmless == Program => []UsageHarmless
    BY ProgramCommands, Harmless, PTL

\* The status of a scan tells what its inventory holds, whatever else the program
\* is used for.
THEOREM ProgramStatus == Program => []StatusOfInventory
    BY ProgramCommands, StatusTells, PTL
==============================================================================
