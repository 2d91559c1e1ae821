CONSTANTS
    Producers = {t1, t2}
    RingSize = 3
    MaxMessages = 2
    Strategies = {"Wait"}
    Nothing = Nothing
SPECIFICATION Spec
INVARIANT
    NothingLost
CHECK_DEADLOCK FALSE
