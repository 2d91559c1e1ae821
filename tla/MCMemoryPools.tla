--------------------------- MODULE MCMemoryPools ---------------------------
(* The memory pools, one at a time: poolPart says which of them runs, the others
   stay as they are initially.  With "none", others than the pools run. *)
EXTENDS Naturals

CONSTANTS Pools, Threads, Blocks, NoPool, NoThread,
          ArraySizes, MaxArrays, ChunkSizes, MaxSize, MaxBlocks, Garbage

VARIABLES poolPart,
          threaded, freeList, system, held, request, setLock,
          array, arrays, avail, out, alloc_cnt, freeing, overlapped,
          kind, first, stack, chunks, blockCount, handedOut, undefined

Static == INSTANCE StaticMemPool
Block == INSTANCE BlockPools WITH Sizes <- ChunkSizes, blocks <- blockCount,
                                  used <- handedOut

ASSUME PoolsAssumption ==
    /\ Static!StaticMemPoolAssumption
    /\ Static!FixedMemPoolAssumption
    /\ Block!BlockPoolsAssumption

staticVars == <<threaded, freeList, system, held, request, setLock>>
fixedVars == <<array, arrays, avail, out, alloc_cnt, freeing, overlapped>>
blockVars == <<kind, first, stack, chunks, blockCount, handedOut, undefined>>
poolsVars == <<poolPart, staticVars, fixedVars, blockVars>>

PoolsInit ==
    /\ poolPart \in {"static", "fixed", "block", "none"}
    /\ Static!Init /\ Static!FixedInit /\ Block!Init
    /\ poolPart # "static" => threaded
    /\ poolPart # "block" => kind = "fixed" /\ first = 1

PoolsNext ==
    \/ poolPart = "static" /\ Static!Next /\ UNCHANGED <<poolPart, fixedVars, blockVars>>
    \/ poolPart = "fixed" /\ Static!FixedNext /\ UNCHANGED <<poolPart, staticVars, blockVars>>
    \/ poolPart = "block" /\ Block!Next /\ UNCHANGED <<poolPart, staticVars, fixedVars>>

PoolsFairness ==
    \A t \in Threads : SF_poolsVars(poolPart = "static" /\ Static!InAllocSys(t)
                                    /\ UNCHANGED <<poolPart, fixedVars, blockVars>>)

PoolsSpec == PoolsInit /\ [][PoolsNext]_poolsVars /\ PoolsFairness

NullOnlyWhenExhausted == Static!NullOnlyWhenExhausted
ReturnsUnlessOutOfMemory == Static!ReturnsUnlessOutOfMemory
AllocateReturns == Static!AllocateReturns

\* A block is free or in one user's hands, in each of the pools.
BlocksUsedOnce ==
    Static!BlocksInOnePlace /\ Static!BlocksAreOfTheArray /\ Block!BlocksUsedOnce

UndefinedOnlyWhere == Block!UndefinedOnlyWhere
=============================================================================
