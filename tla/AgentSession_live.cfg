CONSTANTS
    Causes = {a, b}
    MaxCalls = 3
    MaxAtOnce = 2
    MaxStops = 0
    MaxDeletes = 0
    MaxFaults = 0
    SilenceReads = {FALSE}
    MayClose = FALSE
SPECIFICATION FairSpec
INVARIANT OpeningCauseOnce
PROPERTY SessionMovesOn
CHECK_DEADLOCK FALSE
