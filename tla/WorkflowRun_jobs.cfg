CONSTANTS
    NumJobs = 3
    MaxCancels = 1
    MaxFaults = 1
SPECIFICATION FairSpec
INVARIANTS
    DeliveredInOrder
    OneJobAtATime
    FailureHasACause
PROPERTIES
    KeepsLife
    RunEnds
    EndIsAnnounced
CHECK_DEADLOCK FALSE
