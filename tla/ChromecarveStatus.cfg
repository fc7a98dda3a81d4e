\* Every command line of MCArgs, then another, with every file of up to three lines and
\* every failure and kill, before and after an earlier inventory.
SPECIFICATION Program
CONSTANTS
    Args <- MCArgs
    Half = 128
    MinScan = 8
    DefaultScan = 16
    DefaultPool = 4
    CommandFaults = {"open", "close", "scan", "kill"}
    MaxCommands = 2
    Commands = {"inspect", "extract"}
    Inputs <- MCInputs
    Outcomes <- MCOutcomes
    Faults = {"open", "close", "stdout", "kill"}
    MaxRuns = 2
    MaxLines = 3
INVARIANTS UsageHarmless StatusOfInventory LimitAsAsked StatusTruthful FailuresExplained
PROPERTY CommandEnds
