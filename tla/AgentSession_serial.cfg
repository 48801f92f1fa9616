CONSTANTS
    Causes = {a, b}
    MaxCalls = 3
    MaxAtOnce = 1
    MaxStops = 1
    MaxDeletes = 1
    MaxFaults = 1
    SilenceReads = {TRUE, FALSE}
    MayClose = TRUE
SPECIFICATION Spec
SYMMETRY Interchangeable
CONSTRAINT StopsComeAlone
INVARIANTS
    OneAgentPerRow
    OneOpenRow
PROPERTY KeepsLife
CHECK_DEADLOCK FALSE
