CONSTANTS
    Submitters = {s1, s2}
    fixedCount_ = 1
    maxThreads_ = 2
    MaxTasks = 2
SPECIFICATION FairSpec
INVARIANTS
    CountersMakeSense
    MaxThreadsUnlessBlind
    AtMostOneLateTask
PROPERTIES
    TasksStartUnlessStopped
    DestructorReturns
CHECK_DEADLOCK FALSE
