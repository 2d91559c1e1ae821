CONSTANTS
    Ids = {a, b}
    Intervals = {1, 2}
    Counts <- SmallCounts
    Slots = {s1}
    MaxTime = 2
    Nothing = Nothing
    Timers = {t1, t2}
    Delays = {0, 2}
    THREAD_COUNT = 2
    WorkerIntervals <- TwoIntervals
    Tasks = {m1, m2, m3}
    NULL = NULL
    MAX_TASKS = 2
    TableIntervals = {1, 3}
    MaxBehind = 2
    DelaysMs <- SmallDelays
SPECIFICATION Spec
INVARIANTS
    CountsAreKept
    AtMostOneLate
PROPERTIES
    NeverEarly
    EverythingDueRuns
    DestructorReturnsUnlessMissed
CHECK_DEADLOCK FALSE
