CONSTANTS
    epic = epic
    a = a
    b = b
    c = c
    NoIssue = none
    Issue = {epic, a, b, c}
    Parent <- Tree
    Slots = {p, q}
    Budget = 1
    Wanted <- Wants
    Asked <- Cycle
    MaxAdds = 2
    MaxFaults = 1
SPECIFICATION FairSpec
INVARIANTS
    FiredOnce
    AloneAcyclic
PROPERTIES
    FiredWhenReady
    ReadyIsFired
CHECK_DEADLOCK FALSE
