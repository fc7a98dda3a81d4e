----------------------------- MODULE CommandLine -----------------------------
(***************************************************************************)
(* One chromecarve command after another: how Run and its three commands    *)
(* check their arguments, what `scan` does to the inventory its --output    *)
(* names, and the status each command ends with.  What Scan does between    *)
(* its configuration and its return is ScanPipeline's subject and only its  *)
(* outcome appears here; a valid inspect or extract goes on as in Batch.    *)
(*                                                                          *)
(* An integer is one of the 2 * Half values around 0, as int64 is one of    *)
(* 2^64; MinScan and DefaultScan stand for 8 bytes and 1 MiB.               *)
(***************************************************************************)
EXTENDS ExitCodes, Integers

CONSTANTS Args,         \* the command lines
          Half,         \* bound: integers are in -Half .. Half - 1
          MinScan,      \* the least --max-content-scan
          DefaultScan,  \* --max-content-scan if not given, or 0
          DefaultPool,  \* --workers if not given, or 0
          CommandFaults, \* what may fail: "open", "close", "scan", "kill"
          MaxCommands   \* bound: commands given

Unset == 0      \* --after, --before: not given
Malformed == -1 \* --after, --before: not RFC3339

CommandNames == {"scan", "inspect", "extract", "help", "planned", "unknown", "none"}

\* What the flag package has read off a command line; digits and factor are the
\* size flag as written.
ArgsType == [cmd : CommandNames, parse : {"ok", "help", "bad"}, digits : Int, factor : Nat \ {0},
             roots : Nat, output : BOOLEAN, input : BOOLEAN, paths : Nat, workers : Int,
             interval : Int, after : Int, before : Int]

ASSUME ArgsAssumption == Args \subseteq ArgsType
ASSUME HalfAssumption == Half \in Nat \ {0}
ASSUME ScanAssumption == MinScan \in Nat \ {0} /\ DefaultScan \in MinScan .. Half - 1
ASSUME PoolAssumption == DefaultPool \in Nat \ {0}
ASSUME CommandsGivenAssumption == MaxCommands \in Nat

VARIABLES args,      \* the command line of the command under way
          step,      \* where the command is
          size,      \* the size flag as stored
          workers,   \* cfg.Workers
          inventory, \* the output file: whose records, and whether all of them
          failed,    \* scanErr # nil
          faults,    \* permission errors and other errors, as counted
          code,      \* the status
          given,     \* commands given so far
          before     \* history: inventory when the command was given
commandVars == <<args, step, size, workers, inventory, failed, faults, code, given, before>>

NoInventory == [of |-> -1, whole |-> FALSE]
EarlierInventory == [of |-> 0, whole |-> TRUE]

CommandInit ==
        /\ args \in Args
        /\ step = "parse" /\ code = Running
        /\ size = 0 /\ workers = 0 /\ failed = FALSE /\ faults = 0
        /\ inventory \in {NoInventory, EarlierInventory}
        /\ given = 1
        /\ before = inventory

-----------------------------------------------------------------------------
(* Flags.                                                                   *)

\* Two's complement.
Wrap(n) == ((n + Half) % (2 * Half)) - Half

\* sizeFlag.Set: the digits must be a nonnegative integer.
SizeAccepted(n) == n \in 0 .. Half - 1

\* The product wraps.
Stored(n, factor) == Wrap(n * factor)

End(status) == /\ step' = "done" /\ code' = status
               /\ UNCHANGED <<args, workers, inventory, failed, faults, given, before>>

\* Commands without flags of their own, and what flags.Parse says.
Parse ==
    /\ step = "parse"
    /\ \/ /\ \/ args.cmd = "help"
             \/ args.cmd \in {"scan", "inspect", "extract"} /\ args.parse = "help"
          /\ End(ExitSuccess) /\ UNCHANGED size
       \/ /\ \/ args.cmd \in {"planned", "unknown", "none"}
             \/ /\ args.cmd \in {"scan", "inspect", "extract"}
                /\ \/ args.parse = "bad"
                   \/ args.parse = "ok" /\ ~SizeAccepted(args.digits)
          /\ End(ExitUsage) /\ UNCHANGED size
       \/ /\ args.cmd \in {"scan", "inspect", "extract"}
          /\ args.parse = "ok" /\ SizeAccepted(args.digits)
          /\ step' = "check"
          /\ size' = Stored(args.digits, args.factor)
          /\ UNCHANGED <<args, workers, inventory, failed, faults, code, given, before>>

OneInput == args.paths = IF args.input THEN 0 ELSE 1

\* What each command asks of its flags before it does anything.
Valid ==
    CASE args.cmd = "scan" -> /\ args.roots > 0 /\ args.output
                              /\ args.interval >= 0
                              /\ args.after # Malformed /\ args.before # Malformed
      [] args.cmd = "inspect" -> OneInput
      [] args.cmd = "extract" -> args.output /\ size > 0 /\ OneInput

Check ==
    /\ step = "check"
    /\ \/ ~Valid /\ End(ExitUsage) /\ UNCHANGED size
       \/ /\ Valid
          /\ step' = IF args.cmd = "scan" THEN "open" ELSE "work"
          /\ UNCHANGED <<args, size, workers, inventory, failed, faults, code, given, before>>

\* inspect and extract: any status of Batch.
Delegate ==
        /\ step = "work"
        /\ \E status \in {ExitSuccess, ExitPartial, ExitFatal, ExitUnsupported} : End(status)
        /\ UNCHANGED size

-----------------------------------------------------------------------------
(* scan.                                                                    *)

\* os.OpenFile(O_CREATE|O_WRONLY|O_TRUNC): whatever was there is gone.
Open ==
    /\ step = "open"
    /\ \/ /\ step' = "config"
          /\ inventory' = [of |-> given, whole |-> FALSE]
          /\ UNCHANGED <<args, size, workers, failed, faults, code, given, before>>
       \/ "open" \in CommandFaults /\ End(ExitFatal) /\ UNCHANGED size

Pool == IF args.workers = 0 THEN DefaultPool ELSE args.workers

\* Variant: a limit too small is replaced, not refused.
LimitRaised == IF size < MinScan THEN DefaultScan ELSE size

Limit == IF size = 0 THEN DefaultScan ELSE size

\* Config.defaults finds nothing wrong.
Configured ==
    /\ args.roots > 0 /\ Pool >= 1 /\ Limit >= MinScan
    /\ args.after # Unset /\ args.before # Unset => args.after <= args.before

\* Variant: a refused configuration is a usage error.
ConfigureUsage ==
    /\ step = "config"
    /\ \/ /\ Configured
          /\ step' = "scan" /\ workers' = Pool /\ size' = Limit
          /\ UNCHANGED <<args, inventory, failed, faults, code, given, before>>
       \/ ~Configured /\ End(ExitUsage) /\ UNCHANGED size

\* Scan refuses its configuration, the output already empty, or starts.
Configure ==
    /\ step = "config"
    /\ \/ /\ Configured
          /\ step' = "scan" /\ workers' = Pool /\ size' = Limit
          /\ UNCHANGED failed
       \/ /\ ~Configured
          /\ step' = "close" /\ failed' = TRUE
          /\ UNCHANGED <<workers, size>>
    /\ UNCHANGED <<args, inventory, faults, code, given, before>>

\* Scan returns: nil with everything written, or an error with any part of it.
Scan ==
    /\ step = "scan"
    /\ step' = "close"
    /\ faults' \in {0, 1}
    /\ \/ failed' = FALSE /\ inventory' = [inventory EXCEPT !.whole = TRUE]
       \/ /\ "scan" \in CommandFaults
          /\ failed' = TRUE
          /\ \E all \in BOOLEAN : inventory' = [inventory EXCEPT !.whole = all]
    /\ UNCHANGED <<args, size, workers, code, given, before>>

\* Variant: the error of file.Close is dropped.
StatusUnclosed(closeFails) ==
    IF failed THEN ExitFatal ELSE IF faults > 0 THEN ExitPartial ELSE ExitSuccess

StatusOf(closeFails) ==
    IF failed \/ closeFails THEN ExitFatal
    ELSE IF faults > 0 THEN ExitPartial ELSE ExitSuccess

\* file.Close, which may lose what was written, and the status.
Close ==
    /\ step = "close"
    /\ step' = "done"
    /\ \E closeFails \in {FALSE} \cup {"close" \in CommandFaults} :
          /\ code' = StatusOf(closeFails)
          /\ \/ UNCHANGED inventory
             \/ closeFails /\ inventory' = [inventory EXCEPT !.whole = FALSE]
    /\ UNCHANGED <<args, size, workers, failed, faults, given, before>>

\* The process is killed: no status, and the output as it is.
KillCommand ==
        /\ "kill" \in CommandFaults /\ step # "done"
        /\ step' = "done"
        /\ UNCHANGED <<args, size, workers, inventory, failed, faults, code, given, before>>

\* The next command, with an --output that names the same file.
Again == /\ step = "done" /\ given < MaxCommands
         /\ given' = given + 1
         /\ before' = inventory
         /\ args' \in Args
         /\ step' = "parse" /\ code' = Running
         /\ size' = 0 /\ workers' = 0 /\ failed' = FALSE /\ faults' = 0
         /\ UNCHANGED inventory

Stopped == step = "done" /\ UNCHANGED commandVars

CommandNext == \/ Parse \/ Check \/ Delegate \/ Open \/ Configure \/ Scan \/ Close
               \/ KillCommand \/ Again \/ Stopped

CommandSpec == CommandInit /\ [][CommandNext]_commandVars

-----------------------------------------------------------------------------
(* Properties.                                                              *)

CommandTypeOK ==
    /\ args \in Args
    /\ step \in {"parse", "check", "work", "open", "config", "scan", "close", "done"}
    /\ size \in -Half .. Half - 1 /\ workers \in Int
    /\ inventory \in [of : Int, whole : BOOLEAN]
    /\ failed \in BOOLEAN /\ faults \in {0, 1}
    /\ code \in {ExitSuccess, ExitPartial, ExitUsage, ExitFatal, ExitUnsupported, Running}
    /\ given \in Nat
    /\ before \in [of : Int, whole : BOOLEAN]

\* A command refused for its usage leaves the inventory of an earlier scan as it
\* was, wherever the refusal comes from, and so do help, inspect and extract.
UsageHarmless ==
    code = ExitUsage \/ args.cmd # "scan" \/ args.parse = "help" => inventory = before

\* A scan that exits with 0 or 1 has left all of its own records in the output, and
\* 0 says that nothing was missed; whenever the output holds less, the status is 3
\* or the scan was killed.
StatusOfInventory ==
    step = "done" /\ args.cmd = "scan" /\ args.parse # "help" =>
        /\ code \in {ExitSuccess, ExitPartial} => inventory = [of |-> given, whole |-> TRUE]
        /\ code \in {ExitSuccess, ExitPartial} => (code = ExitSuccess <=> faults = 0)
        /\ inventory = [of |-> given, whole |-> FALSE] => code \in {ExitFatal, Running}

\* The product as written, whatever its width.
Asked == args.digits * args.factor

\* However the size flag wraps, neither a scan nor an extract runs with a limit
\* above the one asked for: it is the one asked for if an integer holds that, the
\* default only if none was asked for or the product wraps to nothing, and never too
\* short for a magic number.  A product that wraps to something less is not refused.
LimitAsAsked ==
    /\ step = "scan" =>
          /\ size >= MinScan
          /\ IF Asked = 0 THEN size = DefaultScan ELSE size <= Asked
          /\ Asked \in 1 .. Half - 1 => size = Asked
    /\ step = "work" /\ args.cmd = "extract" =>
          /\ size \in 1 .. Asked
          /\ Asked < Half => size = Asked
==============================================================================
