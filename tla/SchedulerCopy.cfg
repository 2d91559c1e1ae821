CONSTANTS
    Ids = {a, b}
    Intervals = {1, 2}
    Counts = {0, 2}
    Slots = {s1}
    MaxTime = 3
    Nothing = Nothing
SPECIFICATION Spec
INVARIANT
    CopyIsDefined
CHECK_DEADLOCK FALSE
