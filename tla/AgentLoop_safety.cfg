CONSTANTS
    Tools = {"sleep", "compact"}
    Controls = {"suspend", "resume"}
    Jobs = {1}
    MaxEvents = 2
    MaxControls = 2
    MaxReplies = 2
    MaxBatch = 2
    MaxEmpty = 0
    Threshold = FALSE
    MaxFaults = 1
SPECIFICATION Spec
INVARIANTS
    NothingForgotten
    RequestWellFormed
PROPERTY SeenBeforeEnd
CHECK_DEADLOCK FALSE
