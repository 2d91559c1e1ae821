CONSTANTS
    PoolWorkers = {w1, w2}
    Clients = {c1}
    Tasks = {t1, t2, t3}
    NoTask = NoTask
    Priority <- OneFirst
    NWorkers = 2
    Submitters = {main, timer}
    MaxTasks = 2
    NConsumers = 2
    Produced = 3
    NThreads = 2
    NTasks = 3
    MaxThreads = 2
SPECIFICATION Spec
INVARIANTS
    OnceAndInOrder
    ShutdownDrains
    AtMostOneLateTask
PROPERTIES
    AcceptedTasksRun
    DestructorReturnsUnlessMissed
CHECK_DEADLOCK FALSE
