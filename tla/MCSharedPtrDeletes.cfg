CONSTANTS
    Threads = {t1, t2}
    ThreeThreads = {t1, t2, t3}
    Observers = {o1, o2}
    MaxObservers = 2
    Nobody = Nobody
    Configs = {c1, c2}
    Restart = {c1}
    Pids = {p1, p2, p3}
    MinusOne = MinusOne
    NoProcess = NoProcess
    Blocks = {b1}
    Null = Null
    Pointers = {m1, m2}
    Buckets = 1
    Bits = {0, 1}
    Calls <- SomeCalls
    Forbidden <- ForbiddenPairs
    Wide = TRUE
    Devices = {0, 1}
    Width = 2
    Cleared = 1
    Subsystems = {1, 2}
    Finals <- TwoFinals
    NoName = NoName
    Events = {"A", "B", "C"}
    Rules <- SomeRules
    Start = "Idle"
    MaxAge = 3
    Objects = {x1, x2}
    SmartPtrs = {q1, q2, q3}
    MaxLost = 1
    MaxLeaves = 6
    LeafValues = {1, 2, 3}
    Garbage = {0, 4}
SPECIFICATION StudiesSpec
INVARIANT
    ObjectDeletedOnce
CHECK_DEADLOCK FALSE
