----------------------------- MODULE Chromecarve -----------------------------
(***************************************************************************)
(* The program: one command line after another, and within a valid inspect  *)
(* or extract the batch it runs, whose status becomes the command's.  The   *)
(* arguments of CommandLine choose the command and the input of Batch; the  *)
(* inventory a scan leaves stays out of the reach of both.                  *)
(***************************************************************************)
EXTENDS CommandLine, Batch

ASSUME CarveAssumption == Commands = {"inspect", "extract"} /\ \E i \in Inputs : ~i.batch

batchVars == <<cmd, input, at, hadErrors, exit, runs, tried, good, complained, written, installed>>

NoInput == CHOOSE i \in Inputs : ~i.batch

\* No batch is under way.
ProgramInit ==
    /\ CommandInit
    /\ cmd = "inspect" /\ input = NoInput /\ runs = 1 /\ installed = {}
    /\ Started

\* The process ends, and its batch with it.
Leave ==
    /\ cmd' = "inspect" /\ input' = NoInput /\ runs' = 1 /\ installed' = {}
    /\ at' = 1 /\ hadErrors' = FALSE /\ exit' = Running
    /\ tried' = {} /\ good' = {} /\ complained' = {} /\ written' = <<>>

-----------------------------------------------------------------------------

\* Run reads the arguments; a valid inspect or extract is given its path or its
\* file, whatever that holds.
Dispatch ==
    /\ Check
    /\ IF step' = "work"
       THEN /\ cmd' = args.cmd
            /\ input' \in {i \in Inputs : i.batch = args.input}
            /\ UNCHANGED <<at, hadErrors, exit, runs, tried, good, complained, written, installed>>
       ELSE UNCHANGED batchVars

\* A step of the scan command, which knows nothing of batches.
ScanStep == (Parse \/ Open \/ Configure \/ Scan \/ Close) /\ UNCHANGED batchVars

BatchStep == step = "work" /\ Work /\ UNCHANGED commandVars

\* The same command is given again after a kill.
BatchAgain == step = "work" /\ Kill /\ UNCHANGED commandVars

\* runInspect or runExtract returns, and Run with it.
Return == step = "work" /\ exit # Running /\ Delegate /\ code' = exit /\ Leave

\* A kill for good, and another command.
GiveUp == KillCommand /\ Leave
Another == Again /\ UNCHANGED batchVars

AllDone == Stopped /\ UNCHANGED batchVars

Progress == Dispatch \/ ScanStep \/ BatchStep \/ Return
ProgramNext == Progress \/ BatchAgain \/ GiveUp \/ Another \/ AllDone

Program == ProgramInit /\ [][ProgramNext]_<<commandVars, batchVars>>
           /\ WF_<<commandVars, batchVars>>(Progress)

-----------------------------------------------------------------------------
(* Properties.                                                              *)

\* However often it is killed, every command ends: a scan that returns, and every
\* batch, whatever its lines hold.
CommandEnds == []<>(step = "done")
==============================================================================
