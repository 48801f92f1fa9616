CONSTANTS
    Request = {r1, r2}
    first = first
    second = second
    strange = strange
    Provider = {first, second, strange}
    Unserved = {strange}
    Lists <- TwoLists
    Cap = 2
    MaxRows = 4
    MaxChanges = 2
    MaxFaults = 1
SPECIFICATION Spec
SYMMETRY Interchangeable
INVARIANTS
    FailureIsHonest
    PreferenceKept
CHECK_DEADLOCK FALSE
