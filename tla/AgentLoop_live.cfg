CONSTANTS
    Tools = {"work", "ask"}
    Controls = {"shutdown"}
    Jobs = {1}
    MaxEvents = 2
    MaxControls = 1
    MaxReplies = 2
    MaxBatch = 1
    MaxEmpty = 1
    Threshold = TRUE
    MaxFaults = 0
SPECIFICATION FairSpec
PROPERTIES
    InputsAnswered
    ShutdownHonoured
CHECK_DEADLOCK FALSE
