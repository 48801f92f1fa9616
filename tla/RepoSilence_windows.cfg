CONSTANTS
    Person = {a}
    Scheduler = scheduler
    Ticks <- TwoSchedules
    Duration <- TheirWindows
    MaxTime = 5
    MaxRequests = 2
    MaxFaults = 1
SPECIFICATION FairSpec
PROPERTIES
    FiresOncePerTick
    SinceIsKept
    WindowCloses
CHECK_DEADLOCK FALSE
