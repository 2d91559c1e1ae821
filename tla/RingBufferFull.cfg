CONSTANTS
    Capacity = 4
    WordMod = 64
    Counts = {1, 2, 3, 4}
    MaxItems = 10
SPECIFICATION Spec
INVARIANT
    OneSlotFree
CHECK_DEADLOCK FALSE
