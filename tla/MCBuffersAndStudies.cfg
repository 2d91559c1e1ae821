CONSTANTS
    Capacity = 4
    WordMod = 64
    Counts = {1, 2, 3, 4}
    MaxItems = 12
    Producers = {p1}
    RingSize = 3
    MaxMessages = 5
    Strategies = {"Drop", "Wait"}
    Nothing = Nothing
    BufferSize = 3
    MaxEntries = 6
    MaxSizes = {1, 2}
    MaxFiles = {0, 1, 2, 3}
    Lines = 10
    NoFile = NoFile
    Byte = 2
    LengthBytes = 2
    Payloads <- SomePayloads
    MaxSent = 2
    Threads = {t1, t2}
    ThreeThreads = {t1, t2, t3}
    Observers = {o1, o2}
    MaxObservers = 2
    Nobody = Nobody
    Configs = {c1, c2}
    Restart = {c1}
    Pids = {p1, p2, p3}
    MinusOne = MinusOne
    NoProcess = NoProcess
    Blocks = {b1}
    Null = Null
    Pointers = {m1, m2}
    Buckets = 1
    Bits = {0, 1}
    Calls <- SomeCalls
    Forbidden <- ForbiddenPairs
    Wide = TRUE
    Devices = {0, 1}
    Width = 2
    Cleared = 1
    Subsystems = {1, 2}
    Finals <- TwoFinals
    NoName = NoName
    Events = {"A", "B", "C"}
    Rules <- SomeRules
    Start = "Idle"
    MaxAge = 3
    Objects = {x1, x2}
    SmartPtrs = {q1, q2, q3}
    MaxLost = 1
    MaxLeaves = 6
    LeafValues = {1, 2, 3}
    Garbage = {0, 4}
SPECIFICATION Spec
INVARIANTS
    NoDataRace
    NothingLost
    KeepsTheLastLines
    ReferencesAreSafe
    RecordsMatch
    ViewsAreCurrent
PROPERTIES
    ImplementsBoundedFifo
    SpinsEnd
    AcceptedIsWritten
    TransitionsByTheRules
    EverythingGoesOn
CHECK_DEADLOCK FALSE
