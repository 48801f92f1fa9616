SPECIFICATION FairDriverSpec
CONSTANTS
    Jobs <- MCJobs
    MaxBroken = 2
INVARIANTS
    SuccessIsWhole
PROPERTY DriverEnds
CHECK_DEADLOCK FALSE
