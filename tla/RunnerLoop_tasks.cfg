CONSTANTS
    Job = {i, j}
    narrow = narrow
    wide = wide
    Runner = {narrow, wide}
    Nobody = nobody
    Parallelism <- SlotsOfEach
    MaxPerPoll = 2
    MaxFaults = 2
SPECIFICATION FairSpec
INVARIANTS
    SlotsConserved
    ClaimedIsHeld
PROPERTIES
    KeepsPromise
    QueueDrains
    StopsWhenCancelled
CHECK_DEADLOCK FALSE
