--------------------------- MODULE StaticMemPool ---------------------------
(* The pools of nvwa, whose memory blocks threads share: first static_mem_pool
   (pool/static_mem_pool_nvwa.hpp with utility/class_level_lock.h), then
   fixed_mem_pool (pool/fixed_mem_pool_nvwa.hpp).

   A pool keeps the blocks it gets back in a list.  When the list is empty a
   block is requested from the system, and when the system has none, every
   pool is made to give back half of its list and the request is repeated.

   Each pool has a lock, and the set of pools has one.  The locks exist only
   in a build with threads (without _NOTHREADS).  A section under a pool's
   lock touches nothing else and is one step; the lock of the set is held
   across the whole of _S_alloc_sys. *)
EXTENDS Integers, FiniteSets, Sequences, SequencesExt

CONSTANTS Pools,     \* one for each size of block
          Threads,
          Blocks,    \* what the system can hand out
          NoPool, NoThread

StaticMemPoolAssumption ==
    /\ IsFiniteSet(Pools) /\ NoPool \notin Pools
    /\ IsFiniteSet(Threads) /\ NoThread \notin Threads
    /\ IsFiniteSet(Blocks)

VARIABLES
    threaded,  \* is this a build with threads?
    freeList,  \* freeList[p]: the blocks linked from _S_memory_block_p
    system,    \* the blocks the system can hand out
    held,      \* held[p]: the blocks of pool p that the program uses
    request,   \* request[t]: the pool for which t is in _S_alloc_sys, or NoPool
    setLock    \* the thread that recycles with the lock of the set held

vars == <<threaded, freeList, system, held, request, setLock>>

Init ==
    /\ threaded \in BOOLEAN
    /\ freeList = [p \in Pools |-> <<>>]
    /\ system = Blocks
    /\ held = [p \in Pools |-> {}]
    /\ request = [t \in Threads |-> NoPool]
    /\ setLock = NoThread

(* Without threads one call ends before the next begins. *)
MayCall(t) ==
    \A u \in Threads : request[u] = NoPool \/ (threaded /\ u # t)

(* Mutant: the build without threads locks as well. *)
CanLockAlways == setLock = NoThread

(* class_level_lock::lock: a plain mutex, which its own holder cannot take. *)
CanLock == ~threaded \/ setLock = NoThread

(* allocate() while the list has a block. *)
AllocatePooled(t, p) ==
    /\ MayCall(t)
    /\ freeList[p] # <<>>
    /\ freeList' = [freeList EXCEPT ![p] = Tail(@)]
    /\ held' = [held EXCEPT ![p] = @ \union {Head(freeList[p])}]
    /\ UNCHANGED <<threaded, system, request, setLock>>

(* allocate() finds the list empty, releases the pool's lock and goes on to
   _S_alloc_sys, where the lock of the set is next. *)
AllocateMiss(t, p) ==
    /\ MayCall(t)
    /\ freeList[p] = <<>>
    /\ request' = [request EXCEPT ![t] = p]
    /\ UNCHANGED <<threaded, freeList, system, held, setLock>>

(* Mutant: the result of the second request is dropped. *)
AnswerNull(t, room) ==
    /\ system' = room
    /\ request' = [request EXCEPT ![t] = NoPool]
    /\ UNCHANGED held

(* The request of t is answered out of room, with a null pointer if there is
   nothing, and _S_alloc_sys returns. *)
Answer(t, room) ==
    /\ \/ \E b \in room : /\ system' = room \ {b}
                          /\ held' = [held EXCEPT ![request[t]] = @ \union {b}]
       \/ room = {} /\ UNCHANGED <<system, held>>
    /\ request' = [request EXCEPT ![t] = NoPool]

(* _S_alloc_sys while the system has a block. *)
AllocSys(t) ==
    /\ request[t] # NoPool /\ setLock # t /\ CanLock
    /\ system # {}
    /\ Answer(t, system)
    /\ UNCHANGED <<threaded, freeList, setLock>>

(* When it has none, instance() is called with the lock of the set held. *)
AllocSysFails(t) ==
    /\ request[t] # NoPool /\ setLock # t /\ CanLock
    /\ system = {}
    /\ setLock' = t
    /\ UNCHANGED <<threaded, freeList, system, held, request>>

(* recycle() of a pool keeps of every two blocks the first. *)
Kept(s) == [i \in 1..((Len(s) + 1) \div 2) |-> s[2 * i - 1]]
GivenBack(s) == {s[2 * i] : i \in 1..(Len(s) \div 2)}

(* instance() takes the lock of the set, all pools are recycled, and the
   system is asked again. *)
RecycleAndRetry(t) ==
    /\ setLock = t /\ CanLock
    /\ freeList' = [p \in Pools |-> Kept(freeList[p])]
    /\ Answer(t, system \union UNION {GivenBack(freeList[p]) : p \in Pools})
    /\ setLock' = NoThread
    /\ UNCHANGED threaded

(* deallocate(ptr) *)
Deallocate(t, p, b) ==
    /\ MayCall(t)
    /\ b \in held[p]
    /\ held' = [held EXCEPT ![p] = @ \ {b}]
    /\ freeList' = [freeList EXCEPT ![p] = <<b>> \o @]
    /\ UNCHANGED <<threaded, system, request, setLock>>

(* recycle() of one pool, called by the program. *)
Recycle(t, p) ==
    /\ MayCall(t)
    /\ freeList' = [freeList EXCEPT ![p] = Kept(@)]
    /\ system' = system \union GivenBack(freeList[p])
    /\ UNCHANGED <<threaded, held, request, setLock>>

Next ==
    \E t \in Threads :
        \/ \E p \in Pools : \/ AllocatePooled(t, p)
                            \/ AllocateMiss(t, p)
                            \/ \E b \in Blocks : Deallocate(t, p, b)
                            \/ Recycle(t, p)
        \/ AllocSys(t)
        \/ AllocSysFails(t)
        \/ RecycleAndRetry(t)

InAllocSys(t) == AllocSys(t) \/ AllocSysFails(t) \/ RecycleAndRetry(t)
Fairness == \A t \in Threads : SF_vars(InAllocSys(t))
Spec == Init /\ [][Next]_vars /\ Fairness

-----------------------------------------------------------------------------
TypeOK ==
    /\ threaded \in BOOLEAN
    /\ freeList \in [Pools -> Seq(Blocks)]
    /\ system \subseteq Blocks
    /\ held \in [Pools -> SUBSET Blocks]
    /\ request \in [Threads -> Pools \union {NoPool}]
    /\ setLock \in Threads \union {NoThread}

(* Where block b is: with the system, in use, or at a position of a list. *)
Places(b) ==
    {<<NoPool, 0>> : x \in system \intersect {b}}
    \union {<<p, 0>> : p \in {q \in Pools : b \in held[q]}}
    \union UNION {{<<p, i>> : i \in {j \in DOMAIN freeList[p] : freeList[p][j] = b}}
                      : p \in Pools}

(* A block is with the system, with the program or once in one list, wherever
   allocate, deallocate and the relinking of recycle (lines 192-201) have put
   it: nothing is lost, handed out twice or given back while it is linked. *)
BlocksInOnePlace == \A b \in Blocks : Cardinality(Places(b)) = 1

(* The null pointer of lines 102-103 is the answer only when there really is
   no memory: the system has none and no list has a block to spare. *)
NullOnlyWhenExhausted ==
    [][ \A t \in Threads :
            request[t] # NoPool /\ request'[t] = NoPool /\ held' = held
                => system' = {} /\ \A p \in Pools : Len(freeList'[p]) <= 1 ]_vars

(* Every allocate() returns, unless the system had no memory in a build with
   threads: then the thread that asked waits for the lock it holds, and so
   does everybody who asks after it. *)
ReturnsUnlessOutOfMemory ==
    \A t \in Threads :
        request[t] # NoPool ~> request[t] = NoPool \/ (threaded /\ setLock # NoThread)

(* What the comment of allocate() says (lines 97-104): it requests memory and
   returns a block, or null. *)
AllocateReturns == \A t \in Threads : request[t] # NoPool ~> request[t] = NoPool
-----------------------------------------------------------------------------
(* fixed_mem_pool: one array of blocks that threads share.  allocate() and
   deallocate() lock; initialize() and deinitialize() do not.  The owner tests
   the count of allocations without the lock and frees the array afterwards,
   which is a step of its own. *)

CONSTANTS ArraySizes,  \* what initialize() is called with
          MaxArrays    \* bound of the model: how often it is called

FixedMemPoolAssumption == ArraySizes \subseteq Nat \ {0} /\ MaxArrays \in Nat

VARIABLES
    array,       \* the number of the array in use, 0 while there is none
    arrays,      \* how many there have been
    avail,       \* the blocks linked from _S_first_avail_ptr
    out,         \* the blocks the program holds
    alloc_cnt,   \* _S_alloc_cnt
    freeing,     \* deinitialize() has tested the count
    overlapped   \* history: a block was handed out while it stood there

fixedVars == <<array, arrays, avail, out, alloc_cnt, freeing, overlapped>>

FixedInit ==
    /\ array = 0 /\ arrays = 0
    /\ avail = <<>> /\ out = {} /\ alloc_cnt = 0
    /\ freeing = FALSE /\ overlapped = FALSE

(* A block is an array's number and a position. *)
Array(a, n) == [i \in 1..n |-> <<a, i>>]

Initialize(n) ==
    /\ array = 0 /\ ~freeing /\ arrays < MaxArrays
    /\ array' = arrays + 1
    /\ arrays' = arrays + 1
    /\ avail' = Array(arrays + 1, n)
    /\ UNCHANGED <<out, alloc_cnt, freeing, overlapped>>

(* allocate(): with no block available bad_alloc_handler gives up, and the
   answer is a null pointer. *)
FixedAllocate ==
    /\ avail # <<>>
    /\ avail' = Tail(avail)
    /\ out' = out \union {Head(avail)}
    /\ alloc_cnt' = alloc_cnt + 1
    /\ overlapped' = (overlapped \/ freeing)
    /\ UNCHANGED <<array, arrays, freeing>>

FixedDeallocate(b) ==
    /\ b \in out
    /\ out' = out \ {b}
    /\ avail' = <<b>> \o avail
    /\ alloc_cnt' = alloc_cnt - 1
    /\ UNCHANGED <<array, arrays, freeing, overlapped>>

(* deinitialize(): with a block out it returns their number. *)
Deinitialize ==
    /\ array # 0 /\ ~freeing
    /\ alloc_cnt = 0
    /\ freeing' = TRUE
    /\ UNCHANGED <<array, arrays, avail, out, alloc_cnt, overlapped>>

FreeArray ==
    /\ freeing
    /\ freeing' = FALSE
    /\ array' = 0
    /\ avail' = <<>>
    /\ UNCHANGED <<arrays, out, alloc_cnt, overlapped>>

FixedNext ==
    \/ \E n \in ArraySizes : Initialize(n)
    \/ FixedAllocate
    \/ \E b \in out : FixedDeallocate(b)
    \/ Deinitialize
    \/ FreeArray

FixedTypeOK ==
    /\ array \in 0..MaxArrays /\ arrays \in array..MaxArrays
    /\ alloc_cnt \in Nat
    /\ freeing \in BOOLEAN /\ overlapped \in BOOLEAN

(* While nobody allocates between the test and the free of deinitialize
   (lines 130-134), the blocks in use and the blocks available are the blocks
   of the one array that exists, each once, and their count is right. *)
BlocksAreOfTheArray ==
    ~overlapped =>
        /\ IsInjective(avail) /\ ToSet(avail) \intersect out = {}
        /\ IF array = 0 THEN ToSet(avail) \union out = {}
           ELSE \E n \in ArraySizes : ToSet(avail) \union out = ToSet(Array(array, n))
        /\ alloc_cnt = Cardinality(out)
=============================================================================
