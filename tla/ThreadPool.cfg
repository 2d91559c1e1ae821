CONSTANTS
    Workers = {w1, w2, w3}
    Clients = {c1, c2}
    Tasks = {x1, x2, x3}
    NoTask = NoTask
SPECIFICATION FairSpec
INVARIANTS
    TypeOK
    FifoOrder
    ShutdownDrains
    NoIdleWorker
    NobodySleepsThroughStop
PROPERTIES
    DestructorReturns
    ImplementsTaskPool
