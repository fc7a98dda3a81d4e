------------------------------ MODULE ExitCodes ------------------------------
(***************************************************************************)
(* The statuses a chromecarve process exits with.                           *)
(***************************************************************************)
ExitSuccess == 0
ExitPartial == 1
ExitUsage == 2
ExitFatal == 3
ExitUnsupported == 4
Running == 9    \* no status yet, or never one
==============================================================================
