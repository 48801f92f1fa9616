CONSTANTS
    Contribs = {c1, c2}
    SubContribs = {c1, c2}
    reviewer = reviewer
    writer = writer
    Voters = {reviewer}
    Author <- Authors
    Roles = {reviewer, writer}
    Configs <- Both
    Slots = {p, q}
    People = TRUE
    MaxPushes = 2
    MaxRequests = 4
    MaxOverlaps = 1
    MaxChanges = 1
    MaxFaults = 1
SPECIFICATION Spec
INVARIANTS
    LandedWasApproved
    AloneAppliedIsOnBranch
    AloneNothingLeftOpen
    AloneCacheIsVerdict
PROPERTY AloneDecisionsAreFinal
SYMMETRY Interchangeable
CHECK_DEADLOCK FALSE
