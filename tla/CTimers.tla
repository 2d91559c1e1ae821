------------------------------- MODULE CTimers -------------------------------
(***************************************************************************)
(* craft/timer/111.c: a table of at most MAX_TASKS timer tasks under a     *)
(* mutex; a thread looks through it every second and triggers those whose  *)
(* next_trigger has come.  It reads the clock before it takes the mutex.   *)
(*                                                                         *)
(* next_trigger is kept relative to the clock, and no lower than what the  *)
(* most belated test tells apart, so that time has no end.                 *)
(*                                                                         *)
(* craft/timer/example.c: a POSIX timer that calls back in a thread of its *)
(* own, which publishes a result under a mutex; main starts the task,      *)
(* waits for the result and destroys the task.  timer_create and           *)
(* timer_settime are the system's: a value of zero disarms the timer.      *)
(*                                                                         *)
(* craft/timer/222.c: a timer that hands tasks to threads; at the end.     *)
(***************************************************************************)
EXTENDS Integers, Sequences

CONSTANTS MAX_TASKS,
          TableIntervals,  \* the intervals of register_timer_task
          MaxBehind        \* how long the mutex may keep the timer waiting

TableTimerAssumption == /\ MAX_TASKS \in Nat
                        /\ TableIntervals \subseteq Nat \ {0}
                        /\ \E n \in TableIntervals : \A m \in TableIntervals : m <= n
                        /\ MaxBehind \in Nat

VARIABLES
    timer_tasks,  \* the first task_count entries: interval_sec and next_trigger
    asleep,       \* the rest of sleep(1)
    clockRead,    \* the timer thread has read the clock and wants the mutex
    lag,          \* the time since
    age           \* history: the time since an entry's registration or last trigger

tableVars == <<timer_tasks, asleep, clockRead, lag, age>>

LongestInterval == CHOOSE n \in TableIntervals : \A m \in TableIntervals : m <= n
AtLeast(n, m) == IF n < m THEN m ELSE n

-------------------------------------------------------------------------------

TableInit == timer_tasks = <<>> /\ asleep = TRUE /\ clockRead = FALSE /\ lag = 0 /\ age = <<>>

TableTick ==
    /\ clockRead => lag < MaxBehind
    /\ lag' = IF clockRead THEN lag + 1 ELSE 0
    /\ asleep' = FALSE
    /\ timer_tasks' = [i \in DOMAIN timer_tasks |->
          [timer_tasks[i] EXCEPT !.next_trigger = AtLeast(@ - 1, -MaxBehind)]]
    /\ age' = [i \in DOMAIN age |-> IF age[i] < LongestInterval THEN age[i] + 1 ELSE age[i]]
    /\ UNCHANGED clockRead

\* A full table takes no more, and the caller is not told.
Register(interval) ==
    /\ Len(timer_tasks) < MAX_TASKS
    /\ timer_tasks' = Append(timer_tasks, [interval |-> interval, next_trigger |-> interval])
    /\ age' = Append(age, 0)
    /\ UNCHANGED <<asleep, clockRead, lag>>

ReadClock == /\ ~asleep /\ ~clockRead
             /\ clockRead' = TRUE
             /\ UNCHANGED <<timer_tasks, asleep, lag, age>>

\* now >= next_trigger, for the now that was read before the lock.
IsDue(e) == e.next_trigger + lag <= 0
Triggered(e) == [e EXCEPT !.next_trigger = e.interval - lag]

LookThrough ==
    /\ clockRead
    /\ timer_tasks' = [i \in DOMAIN timer_tasks |->
          IF IsDue(timer_tasks[i]) THEN Triggered(timer_tasks[i]) ELSE timer_tasks[i]]
    /\ age' = [i \in DOMAIN age |-> IF IsDue(timer_tasks[i]) THEN 0 ELSE age[i]]
    /\ clockRead' = FALSE /\ asleep' = TRUE /\ lag' = 0

TableNext == TableTick \/ ReadClock \/ LookThrough \/ \E n \in TableIntervals : Register(n)

-------------------------------------------------------------------------------

\* However late the timer comes, two triggers of a task are not closer to each
\* other than its interval less what the later one's clock could lag behind the
\* earlier's, and the first is an interval after the registration.
TriggersAreApart ==
    [][\A i \in DOMAIN timer_tasks :
          age'[i] < age[i] => age[i] >= timer_tasks[i].interval - MaxBehind]_tableVars

\* Every task of the table is triggered.
TableIsTriggered ==
    \A i \in 1..MAX_TASKS :
        i \in DOMAIN timer_tasks /\ timer_tasks[i].next_trigger <= 0
            ~> i \in DOMAIN timer_tasks /\ age[i] = 0

-------------------------------------------------------------------------------

CONSTANT DelaysMs  \* what TimerTask_Start is called with

VARIABLES
    delay,     \* delay_ms; time counts it down once the timer is armed
    timer_,    \* "none", "created", "armed", "fired" or "deleted"
    done,
    callback,  \* "none", "sleeping" or "returned"
    caller     \* "starting", "arming", "working", "waiting", "got", "failed" or "destroyed"

taskVars == <<delay, timer_, done, callback, caller>>

-------------------------------------------------------------------------------

TaskInit == /\ delay \in DelaysMs
            /\ timer_ = "none" /\ done = FALSE /\ callback = "none" /\ caller = "starting"

TaskTick == /\ timer_ = "armed" /\ delay > 0
            /\ delay' = delay - 1
            /\ UNCHANGED <<timer_, done, callback, caller>>

\* The first half of TimerTask_Start: timer_create may fail.
Create == /\ caller = "starting"
          /\ \/ timer_' = "created" /\ caller' = "arming"
             \/ timer_' = timer_ /\ caller' = "failed"
          /\ UNCHANGED <<delay, done, callback>>

\* The second: a negative time is refused, a time of zero arms nothing.  A timer
\* that could not be armed is not deleted.
SetTime == /\ caller = "arming"
           /\ timer_' = IF delay > 0 THEN "armed" ELSE timer_
           /\ caller' = IF delay < 0 THEN "failed" ELSE "working"
           /\ UNCHANGED <<delay, done, callback>>

Fire == /\ timer_ = "armed" /\ delay = 0
        /\ timer_' = "fired" /\ callback' = "sleeping"
        /\ UNCHANGED <<delay, done, caller>>

\* The result, done and the signal, under the mutex.
Publish == /\ callback = "sleeping"
           /\ done' = TRUE
           /\ callback' = "returned"
           /\ UNCHANGED <<delay, timer_, caller>>

\* TimerTask_Wait: its loop, and the way out of it.
Wait == /\ caller = "working"
        /\ caller' = "waiting"
        /\ UNCHANGED <<delay, timer_, done, callback>>

GetResult == /\ caller = "waiting" /\ done
             /\ caller' = "got"
             /\ UNCHANGED <<delay, timer_, done, callback>>

\* TimerTask_Destroy, which main calls with the result in hand.
Destroy == /\ caller = "got"
           /\ timer_' = "deleted"
           /\ caller' = "destroyed"
           /\ UNCHANGED <<delay, done, callback>>

Caller == Create \/ SetTime \/ Wait \/ GetResult \/ Destroy
TaskNext == TaskTick \/ Fire \/ Publish \/ Caller

-------------------------------------------------------------------------------

\* The callback has done with the task when the mutex is destroyed.
CallbackIsOver == caller = "destroyed" => callback = "returned"

\* A task that could be started is waited for and destroyed, unless its delay was
\* zero: then the timer is not armed, and the wait is for ever.
WaitReturnsUnlessZero ==
    caller = "arming" /\ delay > 0 ~> caller = "destroyed"

-------------------------------------------------------------------------------
(***************************************************************************)
(* 222.c (and timer_ex/test.c, the same program): a thread polls the clock *)
(* and gives worker i a task every intervals[i] seconds (WorkerIntervals), *)
(* through a linked queue with a mutex and a condition variable of its     *)
(* own.  A task is malloc'ed by the timer and freed by the worker.         *)
(*                                                                         *)
(* since and behind are relative times that stop at the longest interval,  *)
(* past which no test distinguishes them, so that time has no end.         *)
(***************************************************************************)

CONSTANTS THREAD_COUNT,
          WorkerIntervals,  \* intervals[i], in seconds
          Tasks,            \* the memory malloc can return: the bound of the queues
          NULL

Workers == 1..THREAD_COUNT

PollingTimerAssumption == /\ THREAD_COUNT \in Nat \ {0}
                          /\ WorkerIntervals \in [Workers -> Nat \ {0}]
                          /\ NULL \notin Tasks

VARIABLES
    head, tail,  \* of each worker's queue
    next,        \* next[t]: the field of task t
    allocated,   \* the tasks between malloc and free
    worker,      \* "locking", "waiting" (in cond_wait) or "executing"
    task,        \* what the worker holds
    timer,       \* the index of timer_func's loop, 0 while it sleeps
    since,       \* since[i] = now - last_times[i]
    behind       \* the time since now was read

pollingVars == <<head, tail, next, allocated, worker, task, timer, since, behind>>

LongestOfWorkers ==
    CHOOSE n \in {WorkerIntervals[i] : i \in Workers} :
        \A i \in Workers : WorkerIntervals[i] <= n
UpToLongest(n) == IF n > LongestOfWorkers THEN LongestOfWorkers ELSE n

-------------------------------------------------------------------------------

PollingInit ==
    /\ head = [i \in Workers |-> NULL]
    /\ tail = [i \in Workers |-> NULL]
    /\ next = [t \in Tasks |-> NULL]
    /\ allocated = {}
    /\ worker = [i \in Workers |-> "locking"]
    /\ task = [i \in Workers |-> NULL]
    /\ timer = 1
    /\ since = [i \in Workers |-> 0]
    /\ behind = 0

PollingTick ==
    /\ behind' = UpToLongest(behind + 1)
    /\ UNCHANGED <<head, tail, next, allocated, worker, task, timer, since>>

\* now = time(NULL), at the start of a round.
PollClock ==
    /\ timer = 0
    /\ since' = [i \in Workers |-> UpToLongest(since[i] + behind)]
    /\ behind' = 0
    /\ timer' = 1
    /\ UNCHANGED <<head, tail, next, allocated, worker, task>>

NextIndex == IF timer + 1 \in Workers THEN timer + 1 ELSE 0

Skip == /\ timer # 0 /\ since[timer] < WorkerIntervals[timer]
        /\ timer' = NextIndex
        /\ UNCHANGED <<head, tail, next, allocated, worker, task, since, behind>>

\* malloc and enqueue_task; the signal is sent under the mutex, which the worker
\* gave up when it went to wait.
Trigger ==
    LET i == timer IN
    /\ i # 0 /\ since[i] >= WorkerIntervals[i]
    /\ \E t \in Tasks \ allocated :
          /\ allocated' = allocated \cup {t}
          /\ tail' = [tail EXCEPT ![i] = t]
          /\ IF tail[i] = NULL
             THEN head' = [head EXCEPT ![i] = t] /\ next' = [next EXCEPT ![t] = NULL]
             ELSE head' = head /\ next' = [next EXCEPT ![tail[i]] = t, ![t] = NULL]
    /\ worker' = [worker EXCEPT ![i] = IF @ = "waiting" THEN "locking" ELSE @]
    /\ since' = [since EXCEPT ![i] = 0]
    /\ timer' = NextIndex
    /\ UNCHANGED <<task, behind>>

WaitForTask(i) ==
    /\ worker[i] = "locking" /\ head[i] = NULL
    /\ worker' = [worker EXCEPT ![i] = "waiting"]
    /\ UNCHANGED <<head, tail, next, allocated, task, timer, since, behind>>

SpuriousWakeup(i) ==
    /\ worker[i] = "waiting"
    /\ worker' = [worker EXCEPT ![i] = "locking"]
    /\ UNCHANGED <<head, tail, next, allocated, task, timer, since, behind>>

Dequeue(i) ==
    /\ worker[i] = "locking"
    /\ head[i] # NULL
    /\ task' = [task EXCEPT ![i] = head[i]]
    /\ head' = [head EXCEPT ![i] = next[head[i]]]
    /\ tail' = [tail EXCEPT ![i] = IF next[head[i]] = NULL THEN NULL ELSE @]
    /\ worker' = [worker EXCEPT ![i] = "executing"]
    /\ UNCHANGED <<next, allocated, timer, since, behind>>

\* Prints the task and frees it; malloc's memory is the same to the code, NULL here.
Execute(i) ==
    /\ worker[i] = "executing"
    /\ allocated' = allocated \ {task[i]}
    /\ task' = [task EXCEPT ![i] = NULL]
    /\ worker' = [worker EXCEPT ![i] = "locking"]
    /\ next' = [next EXCEPT ![task[i]] = NULL]
    /\ UNCHANGED <<head, tail, timer, since, behind>>

Poll == PollClock \/ Skip \/ Trigger
Worker(i) == WaitForTask(i) \/ Dequeue(i) \/ Execute(i)

PollingNext == PollingTick \/ Poll \/ \E i \in Workers : Worker(i) \/ SpuriousWakeup(i)

-------------------------------------------------------------------------------

\* What head leads to in i's queue.
Queued(i) ==
    {t \in Tasks : head[i] # NULL /\
        \A S \in SUBSET Tasks :
            head[i] \in S /\ (\A u \in S : next[u] \in S \cup {NULL}) => t \in S}

Held == {task[i] : i \in Workers} \ {NULL}

\* A task is in one place: a queue, the hands of a worker or free memory; tail is
\* the end of what head leads to.
TasksInOnePlace ==
    /\ allocated = Held \cup UNION {Queued(i) : i \in Workers}
    /\ \A i, j \in Workers : i # j => Queued(i) \cap Queued(j) = {}
    /\ \A i \in Workers :
          /\ Queued(i) \cap Held = {}
          /\ head[i] = NULL <=> tail[i] = NULL
          /\ head[i] # NULL => tail[i] \in Queued(i) /\ next[tail[i]] = NULL

\* Every task that was triggered is executed.
TasksAreExecuted == \A t \in Tasks : t \in allocated ~> t \notin allocated
===============================================================================
