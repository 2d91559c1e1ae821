CONSTANTS
    Nodes <- MCNodes
    KeyOf <- MCKeyOf
    nil = nil
    nullptr = nullptr
    QueueElements = {0, 1, 2, 3, 4}
    N = 4
    MaxLength = 4
    Values = {1, 2, 3}
    Byte = 3
    Widths = {1, 2, 4}
    Items = {a, b}
    BloomSize = 2
    HashCnt = 1
    Pools = {p1, p2}
    Threads = {t1, t2}
    Blocks = {1, 2, 3, 4}
    NoPool = NoPool
    NoThread = NoThread
    ArraySizes = {1, 3}
    MaxArrays = 2
    ChunkSizes = {0, 1, 2}
    MaxSize = 3
    MaxBlocks = 6
    Garbage = Garbage
SPECIFICATION BothSpec
INVARIANTS
    StructuresAreSound
    AnswersAreRight
    BlocksUsedOnce
    UndefinedOnlyWhere
PROPERTIES
    NullOnlyWhenExhausted
    ReturnsUnlessOutOfMemory
    ImplementBags
CHECK_DEADLOCK FALSE
