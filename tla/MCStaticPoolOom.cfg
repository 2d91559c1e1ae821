SPECIFICATION PoolsSpec
CONSTANTS
  Pools = {p1, p2}
  Threads = {t1, t2}
  Blocks = {1, 2, 3, 4}
  NoPool = NoPool
  NoThread = NoThread
  ArraySizes = {1, 3}
  MaxArrays = 2
  ChunkSizes = {0, 1, 2}
  MaxSize = 3
  MaxBlocks = 6
  Garbage = Garbage
PROPERTY AllocateReturns
CHECK_DEADLOCK FALSE
