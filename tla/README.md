# A formal model of self_stl

self_stl is a C++ library of building blocks: thread pools, schedulers, ring
buffers, loggers, memory pools, containers and algorithms, each mostly in one
header, and many small studies around them. It has no main program that uses
them all. The components that carry logic worth verifying are therefore
separate, with few joints between them: the schedulers submit to thread pools,
the logger's worker reads a ring buffer, the priority pools keep a heap.

This directory holds TLA+ specifications of those components, TLC
configurations that check them on small instances, and proofs that TLAPS
checks. `PROJECT.json` maps every definition to the lines it is translated
from, lists the hazards of the code line by line, and names for every property
a plausible bug (an operator of the modules, preceded by a comment that says
what is wrong) under which the property fails.

Contents: 1 inventory, 2 how the code is modelled, 3 the modules, 4 the runs,
5 bounds, 6 fairness, 7 proofs, 8 what the model found, 9 what is not
modelled, 10 the plan.

## 1. Inventory

### Components that are modelled

| Component | Source | State | Operations | Correct when |
|---|---|---|---|---|
| FIFO thread pool | `thread/thread_pool.hpp` | task queue, stop flag, the place of every worker, who sleeps on the condition | AddTask, worker loop, destructor | FIFO, each task once, no queued task while workers sleep, destructor returns after everything ran |
| Rejecting, priority and example pools | `thread/header_ver/*`, `thread/thread_pool_with_pri.hpp`, `craft/system_design/thread_pool_ver2`, `.../thread_pool_with_taskqueue_schedule`, the pool of `craft/timer/timer_ex/444.cpp` | the same; stop under the mutex or not, a queue or a heap | enqueue (some throw once stopped), worker loop, destructor | rejected tasks never run, accepted ones do, also when they race with the stop |
| Fixed worker pool | `craft/timer/timer_ex/666.cpp` | a queue, mutex and condition per worker | submitTo, worker loop, destructor | per-worker order, at most one task after the stop |
| Work-stealing pool | `craft/performance/thread_rob.cpp` | a deque per worker | submit, own and stolen tasks, destructor | each task taken once, from whichever end |
| Dynamic pools | `thread/thread_pool_ad/dynamic_thread_pool.hpp`, `..._v1.hpp` | queue, counters, worker vector | submit (may start a thread), fixed and dynamic loops, destructor | counters meaningful, maximum kept, tasks start although workers leave |
| Producer and observers | `design/mode/mixed/producer_consumer_with_observer.cpp` | queue, observers, a flag and condition per consumer | pushTask, onNotified, run, stop | tasks consumed once, in order |
| Ring buffer | `data_struct/buffer/ring_buffer.cpp` | slots, two indices | push, pop, push_bulk, pop_bulk | bounded FIFO between two threads with no lock |
| Loggers | `craft/middleware/async_logger`, `data_struct/buffer/async_logger_system.cpp`, `utility/log/log_rotate.hpp` | ring, flush buffer, file; numbered files | submitLog or push, worker loop, stop; rotation | accepted messages reach the file once and in order; a rotation loses only the oldest lines, also when it is interrupted |
| Light RPC codecs | `craft/middleware/light_rpc/include/protocol` | bytes received so far | Encode, Decode | messages survive any fragmentation of the stream |
| Schedulers and timers | `thread/scheduler.hpp`, `craft/timer/timer_ex/444.cpp`, `craft/timer/222.c`, `111.c`, `example.c` | heap of timed tasks, linked queues, table, POSIX timer | schedule, the timer's loop, stop | never early, as often as asked, everything due runs |
| Memory pools | `pool/*.hpp`, `craft/mem_pool` | free lists, counts, locks | allocate, deallocate, recycle, initialize | a block is in one place; allocation returns |
| Trees, heap, sets | `data_struct/rb_tree.hpp`, `data_struct/rb_tree/*`, `queue/priority_queue.hpp`, `algo/union_find*.hpp`, `data_struct/tree/*` | nodes and links, a vector | insert, remove, push, pop, merge, replace | ordered, balanced, finds what it holds |
| Algorithms | `algo`, `other`, `craft/performance/sort.cpp`, `craft/bloom` | none | sorts, selection, bounds, byte order, filters | what they return |
| Events and state machines | `design/mode/observer`, `craft/dispatch`, `design/mode/states`, `craft/states` | observer lists, masks, final states, collected events | subscribe, publish, update, post | the removed are not called, views are current, transitions follow the rules |
| Process manager | `process/ex_start` | entries per process id | startAll, the monitor | entries match processes, what must restart does |
| Pointers, tracking, locks | `craft/smart_ptr`, `craft/mem/trace.cpp`, `craft/dead_lock` | counts, a map of allocations, two mutexes | copy, lock, release; new, delete | what is held lives, counts are right |

### How they interact

* Users call a pool from any thread, tasks included: a running task may submit
  more, also while the destructor joins.
* Workers, submitters and the destructor share a mutex and a condition
  variable. A notification is a call on whoever sleeps at that moment; it is
  not remembered.
* `TaskScheduler` calls `AddTask` of a pool it holds by reference and which has
  to outlive it.
* A logging thread and the logger's worker share only the ring; the two sides
  of a ring buffer share only the slots and two atomics.
* Subjects call their observers with their own mutex held; observers call back.
* When the system is out of memory, `static_mem_pool_set` asks every pool to
  give back half of its list, across the locks of all of them.
* The monitor of the process manager and the system share the process ids,
  which the system gives out again.
* Trees, heaps and sets are used by one thread; what is hard in them is the
  sequence of calls.

### What is hard to test here

Every line that bites is in `PROJECT.json` under `hazards`. In kinds:

* *Lost wakeups.* A flag stored outside the mutex and notified while a worker
  stands between its predicate and its sleep (`thread_pool_17.hpp:42`,
  `scheduler.hpp:36`, `444.cpp:90`, `dynamic_thread_pool.hpp:20`,
  `producer_consumer_with_observer.cpp:82`).
* *One notification for many workers.* The woken worker competes for the mutex
  with workers that never slept, and may find the queue empty.
* *The end of a pool.* Tasks submitted during the shutdown, by other threads or
  by tasks; what is drained and what is dropped.
* *State used after an unlock.* A reference to the heap's top held across
  `wait_until` (`scheduler.hpp:104`); counters and a queue size read one after
  the other (`dynamic_thread_pool.hpp:101-106`); a count tested and raised later
  (`advanced_craft.cpp:128`).
* *Index arithmetic.* Indices that wrap, subtracted as `size_t`
  (`ring_buffer.cpp:34`); a size of zero less one (`mem_pool.hpp:48`); an empty
  node compared as a leaf (`loser_tree.cpp:43`).
* *Protocols between two atomics*, and plain variables used as such.
* *A lock taken twice* (`static_mem_pool_nvwa.hpp:212`, `example_3.cpp:62`).
* *Interruption.* The process ends between two renames (`log_rotate.hpp:66`); a
  process id comes back while its old entry is still being replaced
  (`process_manager.cpp:82`).
* *Long sequences of legal calls* (the trees).

### Components that are not modelled

They are all listed in `PROJECT.json` with the reason, and in section 9.

## 2. How the code is modelled

**Steps.** A critical section whose data nobody touches outside the mutex is one
step. Where something does change or is read outside it, the section is split
there and the thread is said to hold the mutex from one step to the next
(`deciding`, `pushing`, `checking`). What is outside every mutex (the gap
between a push and its `notify_one`, a store of an atomic flag, the gap to
`notify_all`, the run of a task, every load, copy and store of a lock-free
buffer, every access of a counter of `SharedPtr`) is a step of its own. What one
thread uses alone takes one step a call, or one step a turn of its loop when the
loop is what can go wrong (trees, heap).

**Condition variables.** A thread that waits is in the program position
`waiting` (`sleeping` or `timed` in the scheduler). `notify_one` moves some
waiting thread, or none if nobody waits, to the position in which it competes
for the mutex again; `notify_all` moves all of them; a spurious wakeup moves
one at any time. The predicate is evaluated again by the actions of that
position, as the loop inside `wait` does.

**Memory order.** Steps interleave as in sequential consistency. The accesses
that are not protected by a mutex are sequentially consistent atomics, or
acquire/release pairs where the acquire reads the index that the release
published after its slot. Plain variables that race are undefined in C++:
`running` of the scheduler and `_head` of the batch logger are modelled as if a
store became visible at once or the old value were read once more, which are
behaviours the build can have, and the hazards say that they are races.

**Undefined behaviour.** Where the code would read freed storage, an index
outside its array, or a string that is being written, the model goes to a state
marked for it (`undefined`, `race`, `ended`, `deletes` and `overlap` of the
pointers) in which nothing more happens, and a property says exactly when that
state is reached. Uninitialised pointers are a value `Garbage`.

**Data.** A task is a name, a message is its producer and number, a block is a
number, a mask is the set of its bits. Bytes appear only in the codecs and the
byte-order functions, to a small base. Tasks return; what they do is to submit
other tasks.

**Time.** `scheduler.hpp` keeps its runs on a grid of absolute times and has a
clock that stops at `MaxTime`. All other timers have relative times, cut where
no test of the code can tell them apart, so that time goes on for ever and
"eventually" means what it says.

**History variables.** `added`, `taken`, `accepted`, `rejected`, `missed`, `ran`,
`late`, `sent`, `received`, `lost`, `popped`, `gone`, `seen`, `blocks` and the
like record what happened so that properties can speak of it. No guard reads
them except to bound the model.

## 3. The modules

`TaskPool`, `BoundedFifo` and `KeyBag` are abstract: they say what a pool, a
queue between two threads and a container of keys promise, with no mechanism.
Modules are named after the class they model unless two files share one.

### Pools

**ThreadPool** (`thread/thread_pool.hpp`)

| Code | Model |
|---|---|
| `tasks`, `stop` | `tasks`, `stop` |
| a worker's position in its loop, lines 17-31 | `wpc[w]`: ready, waiting, running, exited |
| the local `task` | `current[w]` |
| `AddTask`, lines 37-41, and line 42 | `AddTask(t, x)`, then `NotifyOne(t)` |
| `condition.wait` with a false predicate | `Block(w)`; `SpuriousWakeup(w)` |
| lines 22-24, 26-28, 30 | `Exit(w)`, `Take(w)`, `Finish(w)` |
| the destructor, lines 45-54 | `BeginDestroy`, `NotifyAll`, `JoinAll` over `dtor` |

Clients may submit until the destruction begins (`MayAdd`), running tasks as
long as they run. `ThreadPool` implements `TaskPool`: pending is the queue, a
worker is a slot, the pool is closed when the destructor has returned.

**RejectingPool** models seven classes that are the same but for three choices,
which the constant records `Pool17` to `PoolTaskQueue` name: is stop stored under
the mutex, does `enqueue` throw on a stopped pool, and is the queue a FIFO or a
heap by priority. `EnterEnqueue`, `Reject` and `Push` stand in the place of
`AddTask`, `SeeIdle` (a false predicate) is apart from `Block` (the sleep), and
in `Pool17` `StoreStop` may happen between any two steps. `missed` is the set of
workers that `notify_all` found between the two. Among the clients are the
timer threads of `444.cpp` and `thread_pool_with_taskqueue_schedule`.

**FixedWorkerPool** (`666.cpp`) has a queue, a mutex and a condition per worker.
`NotifyNext` notifies the queues one after the other; `Loop` is the test of
`stopFlag` at the head of the loop.

**StealingPool** (`thread_rob.cpp`): a worker takes from the front of its own
deque, then looks through all the others' from any start (`scan` is the indices
still to try) and takes from the back; a `try_lock` may fail. One thread submits,
as in both tests of the file, so that no other thread reads `next_worker` and its `fetch_add` is
part of the push.

**DynamicThreadPool**: `Push` and `NotifyOne`, then `Measure`, `CheckActive`,
`Spawn` and `NoSpawn` read the queue size and the two counters one by one, as
`submit` does; the workers are `CountActive`, `CountIdle`, `Loop`, `SeeIdle`,
`Block`, `Timeout`, `GiveUp`, `SeeStop`, `Take`, `CountBusy`, `CountInactive`,
with the counters changed in steps of their own. Threads are numbered in the
order in which they are started; the first `fixedCount_` are the fixed ones.
**DynamicPoolV1** is the earlier class, which counts its threads by the length
of a vector that nobody shortens.

**ObserverQueue**: `PushTask` and `Main` are the producer and the queue it
notifies from, `Run(c)` a consumer with its `notified` flag and its unlocked
`notify_one`. The predicate of its wait reads the stop flag (`ReadStop`) and then
the queue (`SeeIdle`, `SeeWork`); `lost` collects the consumers that a
notification or the stop found between that first read and the sleep.

### Buffers, logs and streams

**RingBuffer**: `Push`, `PushBulk(n)`, `Pop`, `PopBulk(n)` are the loads and the
arithmetic at the start of a call; `CopyIn` and `CopyOut` copy one slot;
`Publish` and `Release` store the index. `NextUnwrapped` is the next-state
relation in which bulk calls are made only while the write index is not behind
the read index (see section 8). It implements `BoundedFifo`.

**AsyncLogger**: `Log(p)` enters `submitLog` and loads `head_`; `Full`,
`AcceptSlot`, `WriteSlot` and `StoreHead` are the rest of `Push`, with the
strategy deciding whether `Full` gives up or tries again; `Loop`, `Pop`,
`PopStore`, `Flush`, `LastFlush` are the worker; `Stop` is `Logger::Stop`.

**SimpleLogs** has two parts that share no variable. `BatchInit`, `BatchNext`
(`async_logger_system.cpp`): `Log` and `Push` are the thread that logs, `Run` the
flushing thread, `Stop` the destructor. `RotatorInit`, `RotatorNext`
(`log_rotate.hpp`): `LogLine`, the single steps `RemoveNew`, `Shift`,
`RenameCurrent` and `OpenLogFile` of `RotateLogs`, and `CrashAndRestart`, a crash at any
of them followed by a new process. **FrameCodec**: `Send` encodes, `Arrive(n)` delivers
the next n bytes, `Receive` decodes what it can, for both codecs.

### Timers

**Scheduler**: `Schedule` pushes and notifies (the vector of the heap may grow:
`Grow`); `TestRunning`, `WaitForTask`, `WaitUntilDue`, `Timeout`,
`SpuriousWakeup` are the loop up to the end of its waits; `NotYet`, `Copy` and
`ReadFreed` are what follows the wait; `AddTask` and `PushBack` hand the copy to
the pool and push it back; `StopRunning`, `NotifyAll`, `Join` are the
destructor. `Tick` is the clock. The module composes with `TaskPool`
(`Pool == INSTANCE TaskPool`): `AddTask` is at the same time the pool's
`Submit`, and `PoolStep` the pool at work. That `ThreadPool` implements
`TaskPool` is what lets the abstract pool stand for it.

**TimerScheduler** (`444.cpp`) reschedules from now instead of from the grid,
and copies under the mutex; `addTask` reads the clock before it locks, so that a
task may be pushed with less than its delay left. **CTimers** has three parts that
share no variable: `TableInit`, `TableNext` (`111.c`), whose thread reads the clock
before it takes the mutex; `TaskInit`, `TaskNext` (`example.c`), a POSIX timer, its
callback in another thread, and `main`; and `PollingInit`, `PollingNext` (`222.c`),
which follow the nodes of the linked queues from `malloc` to `free`.

### Memory

**StaticMemPool**: `AllocatePooled` and `AllocateMiss` are the two outcomes of
looking at the list, `AllocSys`, `AllocSysFails`, `Recycle` (one pool at a
time) and `RecycleAndRetry` are `_S_alloc_sys` under the set's lock, with and
without threads. Its second part (`FixedInit`, `FixedNext`) is
`fixed_mem_pool_nvwa.hpp`: the owner's `Deinitialize` tests a counter that others
change, and `FreeArray` comes later. **BlockPools**: six pools that
differ in how they start and grow. **HeldMutexes** holds two studies of mutexes
that their own thread or another one wants again: `MemoryInit`, `MemoryNext`
(`trace.cpp`) replace `new` and `delete` by ones that keep a map, whose own nodes
go through the same `delete`; `LocksInit`, `LocksNext` are the deadlock example
and its repair. **SmartPointers**: `AtomicNext` has one step per access of a
counter (`advanced_craft.cpp`); `SingleNext` are the pointers for one thread.

### Structures and algorithms

**RBTree**: `tree` is the record of the fields of all nodes and the root. A call
of `Insert` or `Remove` is one action up to its fixup; every turn of a fixup's
loop is one (`InsertRecolor`, `InsertRotate`, `DeleteRecolor`, `DeleteRotate`)
and its end another. `Rotate`, `Transplant`, `Search`, `Minimum` are operators on
the record. Functions and branches that the code writes once for left and once
for right have the direction as a parameter. The sentinel's parent is state, as
in the code, because `DeleteFixup` climbs by it. `RBTree` implements `KeyBag`.

The second half of the module are three more files of the same algorithm
(`DraftInit`, `DraftNext`), written over the actions of the first; at the one
statement where a draft differs (the `...Miscodes` operators) the model of that
draft ends. **PriorityQueue** is the heap turn by turn, and implements `KeyBag`
too, with `Top` the greatest. **UnionFind** has both versions, **TournamentTree**
both trees (it runs with the studies). **Algorithms** has the functions without
state: a state is a call with its result. Loops and recursive calls are recursive
functions.

### Events, states, processes

**EventBus** models five subjects and their lists: subscriptions and
publications of several threads, with observers that call back. **MaskMachine**
is an atomic mask with its validator, retry loop and observers (`Init`, `Next`),
and the states of devices packed into one mask (`TableInit`, `TableNext`), where
the numbers in two fields are compared by the highest bit in which they differ.
**StateStudies**: `FinalNext` evaluates which final state holds under a shared
lock, and the queries of three machines are operators that say what their loops
return (`BestMatch`: the first of the highest priority among those that match;
`Matched`: the indices of those that match, by falling priority; equals, which
the code orders by their masks, come in any order). `EventNext` has transitions that
need several events within a window; `Post` is the loop over the rules, given by
the first rule that is met (`Apply`) and those before it that came too late
(`Late`, `Keep`). **ProcessManager**: `StartAll`, `Exit(pid)`, `Reap(pid)` and the
steps of the monitor, with a fork that fails and ids that come back.

### Composition

The components are independent, so that one TLC run can hold several: the `MC`
modules instantiate them side by side with a variable (`part`, `bufferPart`,
`poolPart`, `studyPart`) that never changes and says which one moves. A property of
such a module is the conjunction of one question asked of each part, with its
fairness restricted to the part. What the parts would do together is the sum of what
each does alone. `MCBuffersAndStudies` puts `MCBuffers` and `MCStudies` side by side in
the same way, and `MCPoolsAndStructures` does so with `MCMemoryPools` and
`MCDataStructures`: one of the two variables is "none", so that a behavior is one of the specification of each (`BuffersSpec` and `StudiesSpec`,
`PoolsSpec` and `SumSpec`), which are what the proofs speak of.

## 4. The runs

| Run | Properties | What it shows |
|---|---|---|
| `threadpool` (ThreadPool) | TypeOK, FifoOrder, ShutdownDrains, NoIdleWorker, NobodySleepsThroughStop, DestructorReturns, ImplementsTaskPool | order; one `notify_one` per push suffices; the shutdown is complete and ends; the pool implements the abstract one with its fairness |
| `unlocked_stop` (MCUnlockedStop) | OnceAndInOrder, ShutdownDrains, AtMostOneLateTask, AcceptedTasksRun, DestructorReturnsUnlessMissed | all other pools but the dynamic one: an unlocked stop costs no accepted task where the pool drains, and each worker starts at most one more task where it does not; a destructor hangs only when a notification found its worker between predicate and sleep |
| `dynamic_pool` (DynamicThreadPool) | CountersMakeSense, MaxThreadsUnlessBlind, AtMostOneLateTask, TasksStartUnlessStopped, DestructorReturns | the counters, the maximum and what may exceed it; no queued task is left by workers that time out; the timed wait saves the destructor from the unlocked stop |
| `buffers_and_studies` (MCBuffersAndStudies) | NoDataRace, NothingLost, KeepsTheLastLines, ImplementsBoundedFifo, SpinsEnd, AcceptedIsWritten, ReferencesAreSafe, RecordsMatch, ViewsAreCurrent, TransitionsByTheRules, EverythingGoesOn | with single calls, and bulk calls before the wrap, the ring is a bounded FIFO, liveness included; one logging thread loses nothing; rotations survive interruption; the codecs survive fragmentation. Nobody uses what is gone; entries, counts, reports and the winners of the tournament trees are those of what exists; observers know the latest; transitions follow the rules; calls end |
| `timers` (MCTimers) | CountsAreKept, AtMostOneLate, NeverEarly, EverythingDueRuns, DestructorReturnsUnlessMissed | the five timers: when runs happen, how many, and how a timer ends |
| `pools_and_structures` (MCPoolsAndStructures) | BlocksUsedOnce, UndefinedOnlyWhere, NullOnlyWhenExhausted, ReturnsUnlessOutOfMemory, StructuresAreSound, AnswersAreRight, ImplementBags | a block is in one place through misses, recycling and growth; which calls are undefined; when allocation fails and when it hangs. Every mix of calls, in the middle of a fixup or a heapify as well; every input of the algorithms up to a length |
| `ring_buffer_full`, `async_logger_two_producers`, `scheduler_copy`, `static_pool_oom` | OneSlotFree, NothingLost, CopyIsDefined, AllocateReturns (violated) | findings 1 to 4 |
| `shared_ptr_deletes`, `shared_ptr_assign` (MCStudies) | ObjectDeletedOnce, UseCountIsHolders (violated) | findings 5 and 6 |

A property that is called `...Unless...`, or whose comment says *unless*, states
under exactly which circumstances the code does not keep it; the run shows that
nothing else breaks it. These circumstances are

* a notification sent while its worker is between predicate and sleep
  (`Pool17`, `scheduler.hpp`, `444.cpp`, ObserverQueue);
* a thread that was started and has not counted itself (DynamicThreadPool), or
  threads that left and were not given back (DynamicPoolV1);
* a stop of a pool or logger that drops what is queued;
* an observer that calls its subject, which holds its mutex (EventBus);
* a failed fork, or an entry erased after its id was given out again
  (ProcessManager);
* the system out of memory in a build with threads (StaticMemPool);
* a tracked pointer or a growing map, crossed locks (both HeldMutexes), `lock`
  raising a count from 0 or two threads making and releasing pointers between
  each other's tests, an object whose pointer was assigned over (SmartPointers,
  finding 6), a delay of 0 (CTimers).

Where such a circumstance is itself a hazard, the run records what the code does
and does not catch it: loggers that are stopped with an unread ring, the calls
that `UndefinedOnlyWhere` names, the bus that is called back and the crossed locks
are of this kind.

`CHECK_DEADLOCK FALSE` stands where the model stops because its bound is
reached (no more tasks, items, messages or time), or because the code can hang:
a destructor whose notification was missed. Where a stopped state would be a
fault, a liveness property says so. `threadpool` checks deadlock.

## 5. Bounds

| Module | Bounds | Why they are enough |
|---|---|---|
| ThreadPool | 3 workers, 2 clients, 3 tasks | a notified worker loses its task to another one while a third sleeps; a task submits while another worker leaves; two pushes overlap |
| RejectingPool | 2 workers, 1 client, 3 tasks, the 7 kinds | one worker in the window and one not; running tasks submit as well as the client, so that submitters race; of the three tasks two have the same priority |
| FixedWorkerPool | 2 workers, 2 submitters, 2 tasks per worker | workers share nothing but the flag; two submitters to one queue |
| StealingPool | 2 workers, 3 tasks | owner and thief at one deque with one task, and with two |
| DynamicThreadPool | 2 submitters, 1 fixed worker, maximum 2, 2 tasks | both submitters see room for the one dynamic worker |
| DynamicPoolV1 | every number of fixed threads up to 2 of 2 | a pool of dynamic threads only, a mixed one, a fixed one |
| ObserverQueue | 2 consumers, 3 tasks | each drains what the other was notified of; both miss |
| RingBuffer | Capacity 4, WordMod 64, counts 1..4, MaxItems 12 (10 for the violation) | the indices go round more than twice; counts that fit, fill and exceed the room. WordMod stands for 2^64: a power of two above twice the capacity behaves alike |
| AsyncLogger | ring of 3 slots, 5 messages of 1 producer (2 producers with 2 each), Drop and Wait | the ring fills and goes round |
| SimpleLogs, batches | ring of 3 slots, 6 entries | the same |
| SimpleLogs, rotation | 0 to 3 backups, files of 1 or 2 lines, 10 lines | every file is renamed and the oldest removed, several times |
| FrameCodec | payloads of up to 2 bytes, to the base 2, 2 messages | payloads that look like headers; every split of the stream |
| Scheduler | 2 calls, intervals {1, 2}, counts {-1, 2} ({0, 2} in `scheduler_copy`), 1 slot, MaxTime 2 (3) | two tasks due together or apart, each able to overtake the other; the heap's vector grows at the second push |
| TimerScheduler | 2 calls, delays and intervals {0, 2} | repeating and not; due at once and later |
| CTimers, `222.c` | 2 queues (`THREAD_COUNT`) with `WorkerIntervals` 1 and 2, 3 tasks in memory | a queue of several tasks, one being executed |
| CTimers, `111.c` and `example.c` | 2 entries, intervals {1, 3}, at most 2 late; `DelaysMs` with and without 0 | a clock read before and a table looked through after; the delay that never fires |
| StaticMemPool | 2 pools, 2 threads, 4 blocks, with and without threads | one thread recycles the list of the pool the other one uses |
| StaticMemPool, `fixed_mem_pool_nvwa.hpp` | arrays of 1 and 3 blocks, 2 arrays | a second array after the first was freed |
| BlockPools | chunks of 0, 1 and 2, 6 blocks | pools of nothing; growth twice |
| EventBus | 2 threads, 2 observers, lists of 2 | one calls back while another publishes; subscribed twice |
| ProcessManager | 2 configurations, 1 to restart, 3 ids | an id comes back while its entry is replaced |
| SmartPointers | 3 threads, 1 object; 3 pointers, 2 objects | two release while a third copies or locks; assignment between all, also to itself |
| MaskMachine | 2 threads, 2 bits, a few `Calls` and `Forbidden` pairs; 2 `Devices` of `Width` 2 | an exchange that fails; a neighbour's field |
| StateStudies | 2 subsystems, 2 `Finals` that overlap; 3 `Rules`, windows up to 2, ages to 3 | a state that is also excepted; events inside and outside the window |
| HeldMutexes | 2 threads, 2 pointers, 1 bucket; 2 threads | the map grows at the second entry |
| RBTree, with its drafts | 7 nodes with the keys 1, 2, 3, 3, 4, 5, 6 | every case of both fixups, recolorings that climb among them; equal keys land on both sides of each other; each slip is reached with 3 to 6 nodes |
| PriorityQueue, UnionFind | 5 elements in pairs of equals; 4 elements | a heap of three levels; ranks up to 3 |
| TournamentTree | up to 6 leaves with 3 values | four leaves make the loser tree's second level; five and six are the two sides of what `ReadsBeforeItsLeaves` says |
| Algorithms | vectors up to 4 of 3 values, bytes to the base 3, 1, 2 and 4 bytes | duplicates, empty and full ranges |

For every row but the last, Algorithms, the safety properties are proved for all
values of the constants (section 7). The values that a `.cfg` gives such as
`Priority`, `Rules` or `Calls` are examples; the assumptions of the modules say what
they have to be.

Constants named `MaxTasks`, `MaxMessages`, `MaxItems`, `MaxEntries`, `MaxSent`,
`MaxTime`, `MaxLost`, `MaxObservers`,
`Lines`, `Produced`, `MaxArrays`, `MaxBlocks` are bounds
of the model, not of the code, and are read in guards only.

## 6. Fairness

Nobody is obliged to submit, log, insert or destroy; spurious wakeups and
timeouts of others are never relied on, except where the code relies on a
timeout. In an `MC` module the conditions are those below, each restricted to
the steps of its part.

* *Weak fairness per thread.* A thread that can take its next step takes it: the
  scheduler of the operating system, and tasks that return. This is all
  `ThreadPool`, `FixedWorkerPool`, `StealingPool`, `ObserverQueue`, the buffers
  and loggers, the timers, `EventBus`, `HeldMutexes` and the structures use. In
  these, whoever waits for a mutex stays enabled, or the property excepts that the
  mutex is never released. In `ThreadPool` a worker that is ready can always move,
  since critical sections are single steps.
* *Strong fairness* for the workers of `RejectingPool` and `DynamicPoolV1`, the
  workers and submitters of `DynamicThreadPool`, and the threads in
  `_S_alloc_sys`: there a mutex is held from one step to the next, so a thread
  that wants it is enabled again and again but not continuously. It assumes
  that a mutex that is freed infinitely often is obtained in the end.
* *Strong fairness* for the reaping of each process: the monitor waits for any
  child, and one that exited is found by one of its polls in the end, whatever
  others exit meanwhile.
* *Ring buffer.* Each side calls again when a call failed, as the two threads of
  `main` do (lines 63-82).
* *Timers.* The clock advances and, for `scheduler.hpp`, the abstract pool keeps
  its own promise.
* *Dynamic pools.* The timed wait of a dynamic worker ends.

## 7. Proofs

Eight modules hold proofs. Except for `ThreadPoolProofs` and
`DynamicThreadPoolProofs`, which extend their component, each extends an `MC`
module: what it proves is stated of the specification that TLC runs, or, in the two
runs that put two modules side by side, of the one of the two it is about, so that a
theorem and a run speak of one property. These six have the same structure. A
step of `Next` is, for each part, a step of that part or one that leaves its
variables alone (`StepsOfParts`); each part has an inductive invariant of its
own; their conjunction (`PartsInv`, `PoolsInv`, `TimersInv`, `StudiesInv`, `StructuresInv`) is
an invariant of `Spec`, and each theorem follows from the parts it speaks of.

The assumptions on the constants are the named `ASSUME`s of the component (or the
conjunction of them in the `MC` module, which TLC evaluates in every run). They
say that sets of threads and blocks are finite, that the values for "nothing" are
not things, that sizes are those with which the code compiles and its buffers can
hold something, and no more. A theorem with a further hypothesis is marked.

### ThreadPoolProofs

`ThreadPoolProofs` proves, for every finite non-empty set of workers, every finite
set of clients disjoint from them and every set of tasks:

| Theorem | Says |
|---|---|
| TypeCorrect | `Spec => []TypeOK` |
| Fifo | what was pushed is what was popped followed by the queue, in order |
| RunsAtMostOnce | a task is in at most one of queue, workers and finished |
| ShutdownInvariant | nobody sleeps once the destructor has notified |
| ShutdownIsComplete | when the destructor returns, every task ever submitted has run |
| NotifyOneSuffices | while a worker sleeps, the queued tasks are no more than the workers that are ready to take one and the notifications still to be sent |
| Refinement | `Spec => TP!Spec`: ThreadPool implements TaskPool |

*Assumptions* (`ThreadPoolAssumption`): the worker set is finite and not empty,
clients are finitely many and are not workers, `NoTask` is not a task.
Non-emptiness is needed: the destructor of a pool of no threads has nobody to
join and returns with every task still queued, so that `ShutdownIsComplete` is
false of it. Finiteness is what gives the sets of sleeping and awake workers a
cardinality.

*The inductive invariant* `IInv` is the conjunction of the type invariant and:

* `FifoOrder`, which `Take` and `AddTask` keep and which says nothing of where a
  popped task is;
* `AtMostOnce` and `Placement`: every task that was popped is with a worker or
  finished, and never in two places. ShutdownDrains speaks of finished tasks and
  needs to know that a task cannot be anywhere else;
* `Shutdown`: workers have left only if stop is set, and when all have left the
  queue is empty. This is the heart of the completeness of the shutdown: `Exit`
  needs an empty queue, and afterwards only a running task can fill it, whose own
  worker has yet to look at the queue again;
* `NoIdleWorker`: the counting argument. `Block` needs an empty queue, a push
  brings one more notification to be sent, a notification that wakes a worker
  makes one more ready, and a ready worker that is counted no longer has taken a
  task; a notification that finds nobody asleep leaves an inequality whose
  premise is false;
* `NobodySleepsThroughStop`: after `notify_all` the predicate is true for ever,
  so nobody sleeps again.

`Init => IInv` and `IInv /\ [Next]_vars => IInv'` are proved with one step per
action and one lemma per group of conjuncts; the theorems follow. The
refinement needs `IInv` for two steps: `AddTask` maps to `Submit` only if the
task is nowhere (AtMostOnce), and `JoinAll` maps to `Close` only if queue and
slots are empty (Shutdown).

### UnlockedStopProofs

| Theorem | Says |
|---|---|
| PartsInvariant | the conjunction of the invariants of the five modules |
| TasksOnceAndInOrder | in all pools of `unlocked_stop`, an accepted task is in exactly one place, in the order the queue promises; a rejected one never runs |
| DestructorDrains | when the destructor of a pool that drains returns, every accepted task has run, those accepted after the flag was stored included |
| OneLateTask | after the stop of a pool that does not drain, no worker starts more than one task |

*Assumptions* (`PartsAssumption`): finite non-empty workers, clients that are not
workers, `NoTask` not a task, a priority in `Nat` for each task, numbers of
workers, consumers and threads of at least one.

*The invariant* has for each pool what it needs to know of its tasks, and where
its workers can be:

* RejectingPool: `RejectingPlacement` (what was accepted is queued, running or
  finished; what is on offer has not been rejected yet) and `RejectingShutdown`.
  The latter is the subtle part. With stop stored outside the mutex a task
  may pass the test, `stop_` be raised, and the task be pushed. That is harmless
  because a client that still enqueues keeps the pool alive and anybody else who
  enqueues is a worker inside a task, which has yet to find the queue empty: the
  last worker to leave leaves an empty queue that nobody can fill.
* `FixedLate`, `StealingLate`, `DynamicLate`: a worker whose count of late tasks
  is one is running that task, or has come back to the test of the flag, which
  it will now find raised. The count alone is not inductive.
* StealingPool: `StealingInventory`: the numbers in the deques and those taken
  partition `1..next_worker`, and each deque is increasing. Order within a deque
  is what makes the two ends differ, and with it an element taken from one end
  cannot be in what remains.
* `ObservedInv`, and for FixedWorkerPool and DynamicPoolV1 their types and order.

### DynamicThreadPoolProofs

| Theorem | Says |
|---|---|
| PoolInvariant | the inductive invariant below |
| TypeCorrect | `TypeOK`: in particular `activeThreads_` and `idleThreads_` never leave 0 .. the number of threads |
| CountersCount | `activeThreads_` and `idleThreads_` are exactly the threads between their increments and their decrements |
| MaximumKept | the pool exceeds its maximum only by threads that were started and had not counted themselves when `submit` looked |
| OneLateTask | after the stop no worker starts more than one task |

*Assumptions*: finitely many submitters, at least one fixed thread.

*The invariant* is `RoomForThreads` (the model has a number for each thread that
submitters inside `submit` may still start), `Types`, `CountersAreExact` (a
counter is the cardinality of a set of places in the loop; each step of a worker
moves one thread from place to place, lemma `OneMoves`), `MaxInv` and `LateInv`.
`MaxInv` is why the maximum holds: `OneInside` (`dynamicMutex_` admits one
submitter between its test and the start of a thread) and `LiveBelowMax` (such a
submitter has seen fewer than `maxThreads_` active threads, so that while no
thread is uncounted there is room for one more; threads may leave meanwhile, which
only makes room).

### MemoryPoolsProofs

| Theorem | Says |
|---|---|
| PoolsInvariant | the conjunction of `StaticInv`, `FixedInv`, `BlockInv` |
| EveryBlockUsedOnce | a block is in one free list, or out with one thread or the user, or was freed |
| UndefinedOnlyInFourCases | a pool reads outside its blocks only in the calls that the property names |
| NullMeansNoMemory | an action property: a call returns no block only when the pool's blocks are used up or the system has no memory |

*Assumptions* (`PoolsAssumption`): finitely many pools, threads and blocks, arrays
of at least one block, any chunk size, 0 included.

*The invariant*: `StaticInv` says that what is free in each pool, what each thread
holds and what the system has are pairwise disjoint (`Apart`), that no list has a
block twice, and that whoever holds the set's lock has a request to answer. Its
only hard step is `Recycle`, which cuts a list in half (lemma `Halves`).
`FixedInv` ties the counter to the blocks that are out, and the array to the union
of those available and out, *unless* an unlocked `Deinitialize` overlapped.
`BlockInv` says what the list of each of the six pools holds, also when its head
is garbage or 0 - 1. The action property is proved from `StaticInv` and the step
itself.

### BuffersProofs

| Theorem | Says |
|---|---|
| RingInvariant | the inductive invariant of the ring buffer |
| NoSlotIsShared | while bulk calls are made unwrapped, and items are copied in and out at once, no slot is copied by both sides |
| OneSlotStaysFree | while bulk calls are made unwrapped, a slot is free, in the middle of a call as well; with the wrapped ones it is false (finding 1) |
| RingIsBoundedFifo | while bulk calls are made unwrapped, the ring implements `BoundedFifo`: single and bulk calls, from both sides |
| OneProducerLosesNothing | `ASSUME Producers = {p}`: what `submitLog` accepted is in the file, the flush buffer or the ring, once and in order |
| BatchesLoseNothing | the same of `RingLogBuffer`, which has its index in a plain variable |
| FramesLoseNothing | both codecs: what was decoded is what was sent, in order, and what is on its way is the encoding of the rest |
| NothingIsLost | `ASSUME Producers = {p}`: the property of the run, the loggers, the files and the codecs together |
| RotationKeepsTheLastLines | wherever the process ends, the files hold the last lines logged, in order, and no line is dropped before all backups exist |

*Assumptions* (`BuffersAssumption`): the capacity is a power of two, as the code
asserts, `WordMod` more than twice that, rings of at least two slots for the
loggers, some greatest number of backups, payloads of bytes whose length fits the
bytes of its field. `NoSlotIsShared`, `OneSlotStaysFree` and `RingIsBoundedFifo`
speak of `NextUnwrapped`, in which the write index is not behind the read index
when a bulk call begins; single calls may wrap. With bulk calls after the wrap
a slot no longer stays free (finding 1), just as `OneProducerLosesNothing` is
false of two producers (finding 2).

*The invariant* of the ring is `RingRoom` (used and reserved slots together leave
one free; the consumer reserves only what is used; the indices are as far apart
as there are used slots) and `RingContent` (used slots hold the items that follow
the released ones, copied slots those that follow the items sent). The
refinement maps the ring to its used slots in order (`Content`); `Publish` is the
abstract queue's put, `Release` its get, all else stutters. The proof rests on
arithmetic modulo the capacity (`RoundTheRing`), stated once. `Unread`, with
`WriteFreeSlot`, `PublishSlot` and `TakeSlot`, is the same for the two loggers' rings.

The rotator's invariant has to hold between any two renames: `LinesKept` (the
lines in the files, from the oldest to the current one, are increasing and end
with the last line logged, without gaps), `RotatorFiles` (the renames go from
the oldest file down, each into a name that is vacant by then) and
`RotatorBackups` (unless it was restarted, the files have no hole but the one the
renames are moving, and a line is missing only if the oldest file exists).

The codecs' proof is an induction twice over. That `Number` of `Digits` is the
length is shown along the bytes of the field, from the highest down: the number so
far is what is left of the length without its lower bytes (`Rests`), which at the
end is all of it. That a message at the head of the stream decodes, and one of
which a part is missing does not, is read off the lengths; `Stream` of what
remains is then one message shorter.

### TimersProofs

| Theorem | Says |
|---|---|
| TasksAreKept | a task of `scheduler.hpp`, `444.cpp` and `222.c` is queued or held exactly as often as it has runs left |
| StopLetsOneThrough | after the stop, `scheduler.hpp` and `444.cpp` dispatch one task at most; the callback of `example.c` is over when its task is destroyed |
| NoTaskIsEarly | an action property: no timer hands out a run before it is due, however often its wait is cut short |

*Assumptions* (`TimersAssumption`): intervals of at least 1, a greatest delay, any
number of calls, tasks and queues. The abstract pool below the scheduler takes
part in the proof: the runs dispatched are the tasks it has.

*The invariant*: `HeapInv` (`Kept`: of a call's runs the first m are dispatched,
and either that is all of them, or there is one entry, in the heap or in hand, for
run m + 1, due at m + 1 intervals after the call and with the right count left)
and `HeapLate`; `RepeatingQueue` and `RepeatingLate` of `444.cpp`, whose queue is
kept sorted (`PushedQueue`); `PollingInv`: the linked queues are chains from head
to tail that share no node, and a node is allocated if and only if it is queued or
held. What a chain reaches is the least set that holds its head and is closed
under `next`, so that `Enqueued` and `Dequeued` need no recursion. `TableInv`: the
age of an entry and the time it has left make up the interval, but for how late
the thread is; hence two triggers are apart.

### StudiesProofs

| Theorem | Says |
|---|---|
| ReferencesStayAlive | no observer is called after its unsubscription returned, no object is deleted while a `SharedPtr` or `UniquePtr` holds it |
| RecordsAreTrue | the process manager's entries, the pointers' counts (where an assignment does not release, of the objects no assignment took a pointer from) and the allocation report are those of what there is; the tournament trees' winners are the least and the greatest, but for the loser tree's exceptions, and its constructor reads `leaves[-1]` with four leaves, with six and more, and with no other number |
| ObserversAreCurrent | whoever observes a subject, a mask or the final state has heard the latest when no report is under way, but for updates that report in the other order; the two queries of the final states agree |
| TransitionsFollowTheRules | an action property: retried updates change only their field and respect the validator, no device goes down, a setter keeps to its field, a transition with a window finds its events inside it |

*Assumptions* (`StudiesAssumption`): finitely many threads and pointers, values for
nothing that are nothing else, a `Cleared` state within the width of a field,
rules whose windows the model can tell apart, leaves that are integers. *The invariant* by parts:

* `BusInv`: nobody is listed twice where the class prevents it, whoever publishes
  holds the subject's mutex, and `NewsArrive`: whom the loop has passed has the
  news. The observer at a place of the list is found by counting (`RankIsTaken`).
* `ProcessInv`: entries and processes match, and the pid whose exit the monitor is
  handling belongs to no process.
* `PointerInv`: for every block, a strong and a weak count are the pointers to it
  and the threads in the middle of a call that has raised or not yet lowered
  them (`CountsAreExact`); what holds while some thread has the object
  (`WhileHeld`) and once none has (`WhenGone`): one thread at most deletes it.
  It is stated until the first of the races that the properties except.
* `SingleInv`, `HeldInv`: an object's count is the number of its holders and of the
  assignments that took a pointer from it without a release (`lost`); what is
  in the map is what is allocated, but for the thread between the two.
* `MaskInv`: as long as no report was overtaken, a view followed by the changes
  whose reporters have not reported yet is the mask (`ReportsLead`).
* `FinalInv`: when no call is under way, none raced and no final state was added
  since, the final state is the best match of the states. That the two queries
  agree is `BestIsHighest` and `BestIsFirst`: the greatest of finitely many keys
  exists (`GreatestKey`) and is what both return.
* `TableInv`: all bits lie in fields of devices. Fields of different devices are
  apart (`FieldsApart`), and the comparison by the highest bit orders the states
  (`ClampGoesUp`).
* `EventInv`: a collected event that no earlier transition left over is no older
  than the current round of collecting.

* `TournamentIsSound`: a winner tree is one whose matches are all played
  (`WinnerTree`). A replacement plays again those on one way up (`Iterated`,
  `OneChildOnPath`), and who won elsewhere stands (`OthersStand`). A loser tree does
  not store who won; the proof says that there is such a W (`LoserTree`), for which at
  each node the loser is stored and the winner goes on, and that only the winner
  has come all the way (`WinnersPath`), so that it can be taken out
  (`WinnerTaken`) and another set out from its leaf (`Climb`). While the tree is
  built, W has -1 where nobody has come yet. `FirstRead` is the turn of `build` at
  which a -1 that goes up has met a leaf at the latest (`BuiltFrom`).

### DataStructuresProofs

| Theorem | Says |
|---|---|
| StructuresStaySound | `StructuresAreSound`: the tree, its drafts, the heap and both union-finds, in the middle of a fixup or a heapify as well |
| TreeAndQueueAreBags | the tree and the heap take only the steps of a `KeyBag`: one copy of a key is added or taken, or nothing changes. `KeyBag` does not say whose; that is in the actions. The safety part of `ImplementBags` |

*Assumptions*: finitely many nodes with integer keys, a sentinel and a null pointer
that are nothing else (`RBTreeAssumption`); elements with a priority
(`QueueAssumption`); any number of elements to unite (`SetsAssumption`).

*The invariant of the tree*, `Sane`, says that there are, besides the record of links
and colors, a set D of the nodes below each node and a number h of black nodes on
the way down from it, such that

* `Shape`: the children of a node split what is below it; links up and links down
  agree; the nodes in use are those below the root;
* `Ordered`: what is below on the left does not come after the node, nor does what
  is below on the right come before it; equal keys may be on both sides, because a
  rotation moves them;
* `Level`: h of a child and the weight of the edge to it make h of the node. While
  `DeleteFixup` runs, its node weighs one more, the sentinel too where `Transplant`
  put it; that is what a removal takes away and the fixup gives back;
* `Reds` and `HeldNode`: a red node has a black parent, but for the node of a fixup,
  which is in the tree or, in `DeleteFixup`, an empty place with its parent written
  into the sentinel.

D and h are not in the code: the proof of each action says how they change, and that
the change is right at the two or three nodes whose links moved and at no other. So
the walks of `Search`, `Minimum` and of the property itself, which go down the record
turn by turn, come to their end: D loses a node at every turn. A case that the
code writes once for each side is proved once, for a tree that may be seen in a
mirror (`Facing`); a removal of a node with two children, whose successor takes its
place, is a removal of the successor from a tree in which the two have changed
places (the map rho). What a draft needs to meet its slip (`EndsWhere`) is counted
from `Shape` and `Level`: a black successor has a sibling.

*The invariant of the heap*, `QueueIsSound`, is the property itself with the index in
range and no element twice: a turn of a heapify moves the one place that is out of
order (`Heap`).

*The invariant of union-find*, `SetsAreSound`: the blocks partition the elements and
the parents are a forest with a root for each block (`Forest`, which again has a set
of what is below each element, so that every walk up ends at the root within N
steps). A merge links two roots and joins their blocks (`LinkIsForest`), so there
is one block less; a compression keeps the blocks and the roots (`CompressedIs`).
With ranks, a parent's is greater and a root of rank r has 2^(r - 1) elements in its
block (`RankedForest`): two roots of the same rank have twice as many.

### What is only model-checked

* *Every liveness property*, and the fairness of the refinements: TLAPS does not
  treat ENABLED. Of `ImplementBags` that is the part that calls return.
* *`AnswersAreRight`*: the functions of Algorithms. A recursive function of several arguments is what its equation says only if such a
  function exists, and for arguments the code never passes (a range that ends
  before it starts, an index outside of the vector) the equation does not say so.
  Loops that count, and those that climb or go down a structure, are proved to end:
  lemmas `Repeats`, `Settles` and `Induction` do it without an operator as a
  parameter, for properties given as sets.
* *The six violations*, which are traces of TLC.

## 8. What the model found

1. **`push_bulk` overfills the ring buffer** (`ring_buffer.cpp:34`, run
   `ring_buffer_full`). `used = current_write - current_read` is computed modulo
   2^64; when the write index has wrapped and is behind the read index, the
   number of free slots comes out too large, the reserved slot is filled and
   unread items are overwritten. The next line's comment promises to keep one
   slot. `pop_bulk` subtracts in the same way at line 48. The run
   `buffers_and_studies` shows that single calls, and bulk calls before the wrap, are right.
2. **The logger loses messages of concurrent producers**
   (`async_logger/include/ring_buffer.hpp:33`, run
   `async_logger_two_producers`). The buffer is named for many producers and the
   design document says thread-safe, but `Push` claims a slot with a load and a
   store. One producer is served correctly
   (`buffers_and_studies`).
3. **The scheduler reads through a dangling reference** (`scheduler.hpp:104`,
   run `scheduler_copy`). A call of `Schedule` during `wait_until` may reallocate
   the heap's vector.
4. **An allocation that finds no memory hangs** (`static_mem_pool_nvwa.hpp:212`,
   run `static_pool_oom`). `_S_alloc_sys` holds the lock of the set of pools and
   calls `instance()`, which takes it again (line 38); the comment of `allocate`
   (98-104) promises null.
5. **An object is deleted twice** (`advanced_craft.cpp:93` and `189`, run
   `shared_ptr_deletes`). The release of the last `SharedPtr` deletes the object,
   and the destructor of the control block deletes it again. The design in
   `craft/smart_ptr/README.md:236-239` deletes the object at strong count 0 and
   only the control block when both counts are 0.
6. **An assignment keeps what it overwrites** (`self_shared_ptr.cpp:31`, run
   `shared_ptr_assign`). `operator=` takes over the other pointer without
   `release()`, which `craft/smart_ptr/README.md:115-123` begins with: the count
   of the object stays one too high and the object is never deleted.

Slips met on the way, for which a property of a passing run states what
happens but which contradict nothing the repository says, or whose code is used
by nobody:

* `thread_pool_17.hpp`, `scheduler.hpp`, `444.cpp` and `666.cpp` store their stop
  flag without the mutex and can hang in their destructor; the consumers of
  `producer_consumer_with_observer.cpp` can sleep with tasks in the queue.
* `dynamic_thread_pool.hpp` may run more than `maxThreads_` threads, because a
  thread counts itself only when it runs. `dynamic_thread_pool_v1.hpp` with no
  fixed threads stops working after `maxThreads_` threads have left.
* `666.cpp`, `thread_rob.cpp` and the dynamic pools drop queued tasks at
  destruction; the other pools drain them.
* `LogWorker` writes its flush buffer at the end and not what is still in the
  ring; and while producers keep the ring from being empty it writes nothing.
* A `repeat_count` of 0 runs once. A delay of 0 ms never fires (`example.c:52`).
* `SharedPtr`'s `lock` (`advanced_craft.cpp:128`) tests the count and raises it
  later.
* `trace.cpp` takes its own mutex again when its map frees or allocates what is
  tracked. `example_3.cpp`'s observers cannot call their bus.
* `process_manager.cpp:82` erases the entry of the exited process after its
  replacement was entered, under the same key if the id came back.
* `mem_pool.hpp:48` wraps for 0 blocks; `object_alloc_pool.hpp:37` leaves the head
  of its list indeterminate; `mem_pool_alloc.hpp:40` hands out one block for an
  array of several.
* `loser_tree.cpp:43` reads `leaves[-1]` with four leaves and with six or more.
  `bloom_filter_3.cpp:16` looks at as many hashes as there are bits.
* `rbtree_self.hpp:90` asks for the color of the uncle's parent;
  `rbtree_self_vv.hpp:55` and `refer.cpp:180` each have one slip in a fixup.
* The comment at `priority_queue.hpp:9` calls the default heap a min-heap; `Top`
  is the greatest.
* Outside the models: `design/mode/singleton/ver7.cpp:13` exchanges a pointer for
  itself, so that nobody ever creates the instance.

## 9. What is not modelled

The map covers about a fifth of the implementation's lines. The rest is, for the
most part, code in which there is no state over time to check:

* *Generated, vendored and build files*: protocol buffer and gRPC output
  (`craft/proto`, `craft/question_dtor`), the JSON library, the test framework,
  CMake's probes.
* *Compile-time code*: reflection and serialisation (`utility/reflect`,
  `craft/reflect`), type lists, traits, macros, the patterns of `design/mode` that
  only show a class hierarchy, the studies of lambdas, moves, templates and
  declarations in `craft`.
* *Text and I/O*: argument parsing and dictionary files (`craft/para_proc`),
  formatting of reports (`craft/decouple`, `craft/log`, `logger_v*.hpp`),
  counting words (`craft/string`), sockets and epoll (`craft/reactor`, which
  hands each event to a handler and keeps nothing between two of them but a
  handler for each connection, which nobody frees), matrix kernels with vector
  instructions (`craft/performance`), timings.
* *Files that do not compile as they stand*: `333.cpp`, `555.cpp`, `total.cpp` of
  thread_pool_ver3 and ver4, `craft/message_proc/example.cpp`, `example_1.cpp` of
  the observers, `craft/dispatch/example_2.cpp`, `bloom_filter.cpp`,
  `segment_tree.hpp`, `self_weak_ptr.cpp`, `rbtree_self_xx.hpp`, and two methods
  of the managers in `pool/object_pool`.
* *Nothing to say*: `trie_v1.hpp` (children never initialised), `lru.hpp` (a node
  only), `practice_1.cpp` (a tree without insertion), `rbtree_self_v1.hpp` (its
  right rotation turns left, and its fixup does not redden the grandparent: no
  insertion beyond the first few leaves a red-black tree), `777.cpp` (`666.cpp`
  with the call of the task missing), the version tables and join and leave
  messages of the state machines (lookups), `HighestOfSet` of ex_combine_0825
  (which goes through as many states as there are subsystems, whatever the set),
  `rpc_message_codec.hpp` (fields to a JSON library).
* *Demonstrations of undefined behaviour*: `craft/threads` (threads that outlive
  what they use, on purpose), `ptr_after_delete.cpp`, `cyclic_reference.cpp`.
* *The same again*: `test.c` is `222.c`; `example_4.cpp` and `example_5.cpp` are
  the observers without threads; the two LoggingExample trees repeat each other.
* *In modelled components:* exceptions out of tasks (the process terminates),
  futures, `std::bind`, destruction from a task's own thread, copies of handles,
  memory exhaustion (but for the static pools), a second `Start` of the logger,
  the `Destroy` of the tree, which nobody calls, errors of file operations.

## 10. Plan

The safety properties of every module but one are proved. What is left, in order of
value:

1. Algorithms: that `LowerBound` and `UpperBound` halve the right part, that a turn
   of `merge` takes the least of what remains. It needs the functions restricted to
   the arguments the code passes, so that they exist.
2. The calls of the tree and of the heap return: the places of a fixup only climb,
   or the tree is mended. The measure is in the proof (D), the step to liveness
   stays with TLC.
