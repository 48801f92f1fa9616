CONSTANTS
    Tools = {"work", "compact", "sleep"}
    MaxBatch = 2
    MaxEvents = 2
    MaxWakes = 2
    MaxReplies = 2
    MaxHalts = 1
    MaxLosses = 1
    MaxDeaths = 1
SPECIFICATION HistorySpec
INVARIANTS
    EventsOnce
PROPERTIES
    HistoryIsValid
    AnsweredIsKept
CHECK_DEADLOCK FALSE
