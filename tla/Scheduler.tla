------------------------------- MODULE Scheduler -------------------------------
(***************************************************************************)
(* thread/scheduler.hpp: a thread that keeps tasks in a priority queue     *)
(* ordered by their next run, sleeps on a condition variable until the     *)
(* earliest one is due, copies it, hands it to the thread pool and pushes  *)
(* it back while repetitions remain.  The pool is the abstract TaskPool,   *)
(* which ThreadPool implements; its owner destroys it after the scheduler. *)
(*                                                                         *)
(* run() holds a reference to queue.top() across wait_until, which reads   *)
(* the deadline through it again after the wait.  The reference stays good *)
(* while the heap's vector keeps its storage (it then denotes whatever is  *)
(* the top by now) and dangles once a push made the vector grow; what is   *)
(* read through it then is undefined.  running is a plain bool written     *)
(* without the mutex.  Time is discrete and ends at MaxTime.               *)
(***************************************************************************)
EXTENDS Integers, Sequences, FiniteSets

CONSTANTS Ids,        \* the calls of Schedule; each id is one call
          Intervals,  \* the intervals the calls use
          Counts,     \* the values of repeat_count: -1 repeats for ever
          Slots,      \* the workers of the pool
          MaxTime,
          Nothing     \* no call, no task

SchedulerAssumption ==
    /\ IsFiniteSet(Ids)
    /\ Intervals \subseteq Nat \ {0}
    /\ Counts \subseteq Nat \cup {-1}
    /\ MaxTime \in Nat
    /\ Nothing \notin Ids \X Nat
    /\ Nothing \notin [time : Nat, interval : Nat, count : Int]
    /\ Nothing \notin [id : Ids, run : Nat, next : Nat, interval : Nat, remaining : Int]

VARIABLES
    now,
    call,      \* history: call[id]: the time, interval and count it was given
    queue,     \* the entries of the priority queue
    capacity,  \* the capacity of the vector that holds them
    running,
    spc,       \* the scheduler thread: "loop" (at the while), "locking",
               \* "sleeping" (in wait), "timed" (in wait_until), "woken" (out of
               \* wait_until), "adding", "pushing", "done", or "undefined"
    deadline,  \* what wait_until was called with
    dangling,  \* the reference task denotes storage that was freed
    held,      \* task_copy
    dtor,      \* "alive", "stopping", "joining" or "destroyed"
    late,      \* history: how many tasks were dispatched after running = false
    missed,    \* history: notify_all came between the test of running and a wait
    pending, active, finished, closed  \* the pool

svars == <<spc, deadline, dangling, held>>
pvars == <<pending, active, finished, closed>>
hvars == <<late, missed>>
vars  == <<now, call, queue, capacity, running, svars, dtor, hvars, pvars>>

\* A task of the pool is one run of a call: <<id, 1>>, <<id, 2>>, ...
Pool == INSTANCE TaskPool WITH Tasks <- Ids \X (1..MaxTime), NoTask <- Nothing,
                               running <- active

Dispatched == Pool!Known \ {Nothing}

Called == {id \in Ids : call[id] # Nothing}

\* The time a call's run k is due: the grid of its first interval.
Due(id, k) == call[id].time + k * call[id].interval

Earlier(e, f) == e.next < f.next
Tops == {e \in queue : \A f \in queue : ~Earlier(f, e)}

\* The vector doubles its storage when it is full.
Grow(n) == IF n < capacity THEN capacity ELSE IF capacity = 0 THEN 1 ELSE 2 * capacity

Init == /\ now = 0
        /\ call = [id \in Ids |-> Nothing]
        /\ queue = {} /\ capacity = 0
        /\ running = TRUE
        /\ spc = "loop"
        /\ deadline = 0
        /\ dangling = FALSE
        /\ held = Nothing
        /\ dtor = "alive"
        /\ late = 0 /\ missed = FALSE
        /\ Pool!Init

\* cv.notify: the scheduler thread is the only one that waits.
Notified == CASE spc = "sleeping" -> "loop"
              [] spc = "timed"    -> "woken"
              [] OTHER            -> spc

-------------------------------------------------------------------------------

(***************************************************************************)
(* Bugs this code could plausibly have, each in the place of one action or *)
(* operator.                                                               *)
(***************************************************************************)

\* Whatever ended the wait, the top is dispatched.
CopyOnAnyWakeup ==
    /\ spc = "woken" /\ ~dangling
    /\ \E e \in Tops : held' = e /\ queue' = queue \ {e}
    /\ spc' = "adding"
    /\ UNCHANGED <<now, call, capacity, running, deadline, dangling, dtor,
                   hvars, pvars>>

\* The next run is an interval from now, not from the run before.
RescheduledFromNow(e) == [e EXCEPT !.run = @ + 1,
                                   !.next = now + e.interval,
                                   !.remaining = IF @ > 0 THEN @ - 1 ELSE @]

\* Schedule does not notify.
ScheduleSilently(id, interval, count) ==
    /\ dtor = "alive"
    /\ call[id] = Nothing
    /\ call' = [call EXCEPT ![id] = [time |-> now, interval |-> interval,
                                     count |-> count]]
    /\ queue' = queue \cup {[id |-> id, run |-> 1, next |-> now + interval,
                             interval |-> interval, remaining |-> count]}
    /\ capacity' = Grow(Cardinality(queue))
    /\ dangling' = (dangling \/ (spc \in {"timed", "woken"} /\ capacity' # capacity))
    /\ UNCHANGED <<now, running, spc, deadline, held, dtor, hvars, pvars>>

\* The loop condition is while (true).
LoopForEver ==
    /\ spc = "loop"
    /\ spc' = "locking"
    /\ UNCHANGED <<now, call, queue, capacity, running, deadline, dangling, held,
                   dtor, hvars, pvars>>

\* The destructor joins without notifying.
NotifyNothing ==
    /\ dtor = "stopping"
    /\ dtor' = "joining"
    /\ missed' = (spc = "locking")
    /\ UNCHANGED <<now, call, queue, capacity, running, svars, late, pvars>>

-------------------------------------------------------------------------------

Tick == /\ now < MaxTime
        /\ now' = now + 1
        /\ UNCHANGED <<call, queue, capacity, running, svars, dtor, hvars, pvars>>

Schedule(id, interval, count) ==
    /\ dtor = "alive"
    /\ call[id] = Nothing
    /\ call' = [call EXCEPT ![id] = [time |-> now, interval |-> interval,
                                     count |-> count]]
    /\ queue' = queue \cup {[id |-> id, run |-> 1, next |-> now + interval,
                             interval |-> interval, remaining |-> count]}
    /\ capacity' = Grow(Cardinality(queue))
    /\ dangling' = (dangling \/ (spc \in {"timed", "woken"} /\ capacity' # capacity))
    /\ spc' = Notified
    /\ UNCHANGED <<now, running, deadline, held, dtor, hvars, pvars>>

\* while (running), without the mutex.
TestRunning ==
    /\ spc = "loop"
    /\ spc' = IF running THEN "locking" ELSE "done"
    /\ UNCHANGED <<now, call, queue, capacity, running, deadline, dangling, held,
                   dtor, hvars, pvars>>

WaitForTask ==
    /\ spc = "locking" /\ queue = {}
    /\ spc' = "sleeping"
    /\ UNCHANGED <<now, call, queue, capacity, running, deadline, dangling, held,
                   dtor, hvars, pvars>>

WaitUntilDue ==
    /\ spc = "locking"
    /\ \E e \in Tops : deadline' = e.next
    /\ dangling' = FALSE
    /\ spc' = "timed"
    /\ UNCHANGED <<now, call, queue, capacity, running, held, dtor, hvars, pvars>>

SpuriousWakeup ==
    /\ spc \in {"sleeping", "timed"}
    /\ spc' = Notified
    /\ UNCHANGED <<now, call, queue, capacity, running, deadline, dangling, held,
                   dtor, hvars, pvars>>

Timeout == /\ spc = "timed" /\ now >= deadline
           /\ spc' = "woken"
           /\ UNCHANGED <<now, call, queue, capacity, running, deadline, dangling,
                          held, dtor, hvars, pvars>>

\* wait_until compares the clock with the deadline read through the reference.
NotYet == /\ spc = "woken" /\ ~dangling
          /\ \A e \in Tops : now < e.next
          /\ spc' = "loop"
          /\ UNCHANGED <<now, call, queue, capacity, running, deadline, dangling,
                         held, dtor, hvars, pvars>>

\* The copy through the reference, the pop and the unlock.
Copy == /\ spc = "woken" /\ ~dangling
        /\ \E e \in Tops : /\ now >= e.next
                           /\ held' = e
                           /\ queue' = queue \ {e}
        /\ spc' = "adding"
        /\ UNCHANGED <<now, call, capacity, running, deadline, dangling, dtor,
                       hvars, pvars>>

\* The freed deadline reads as one still to come, or as one past: then a freed
\* task is copied, and nothing can be said of the program any more.
ReadFreed == /\ spc = "woken" /\ dangling
             /\ spc' \in {"loop", "undefined"}
             /\ UNCHANGED <<now, call, queue, capacity, running, deadline, dangling,
                            held, dtor, hvars, pvars>>

\* reschedule() on the copy.
Rescheduled(e) == [e EXCEPT !.run = @ + 1,
                            !.next = @ + e.interval,
                            !.remaining = IF @ > 0 THEN @ - 1 ELSE @]

\* pool.AddTask(task_copy.task) and reschedule().
AddTask ==
    /\ spc = "adding"
    /\ Pool!Submit(<<held.id, held.run>>)
    /\ late' = IF running THEN late ELSE late + 1
    /\ IF held.remaining # 0 /\ Rescheduled(held).remaining # 0
       THEN held' = Rescheduled(held) /\ spc' = "pushing"
       ELSE held' = Nothing /\ spc' = "loop"
    /\ UNCHANGED <<now, call, queue, capacity, running, deadline, dangling,
                   dtor, missed>>

\* The push of the copy.  The notify_one that follows finds nobody waiting.
PushBack ==
    /\ spc = "pushing"
    /\ queue' = queue \cup {held}
    /\ capacity' = Grow(Cardinality(queue))
    /\ held' = Nothing
    /\ spc' = "loop"
    /\ UNCHANGED <<now, call, running, deadline, dangling, dtor, hvars, pvars>>

StopRunning ==
    /\ dtor = "alive"
    /\ running' = FALSE
    /\ dtor' = "stopping"
    /\ UNCHANGED <<now, call, queue, capacity, svars, hvars, pvars>>

NotifyAll ==
    /\ dtor = "stopping"
    /\ dtor' = "joining"
    /\ spc' = Notified
    /\ missed' = (spc = "locking")
    /\ UNCHANGED <<now, call, queue, capacity, running, deadline, dangling, held,
                   late, pvars>>

Join == /\ dtor = "joining" /\ spc = "done"
        /\ dtor' = "destroyed"
        /\ UNCHANGED <<now, call, queue, capacity, running, svars, hvars, pvars>>

Scheduling == \/ TestRunning \/ WaitForTask \/ WaitUntilDue \/ Timeout
              \/ NotYet \/ Copy \/ ReadFreed \/ AddTask \/ PushBack

\* The pool's workers, and its destructor, which runs after the scheduler's.
PoolStep == /\ \/ \E s \in Slots : Pool!Start(s) \/ Pool!Finish(s)
               \/ dtor = "destroyed" /\ ~closed /\ Pool!Close
            /\ UNCHANGED <<now, call, queue, capacity, running, svars, dtor, hvars>>

Next == \/ Tick
        \/ \E id \in Ids, i \in Intervals, n \in Counts : Schedule(id, i, n)
        \/ Scheduling \/ SpuriousWakeup
        \/ StopRunning \/ NotifyAll \/ Join
        \/ PoolStep

Spec == Init /\ [][Next]_vars

\* The clock advances, threads that can run do, and the pool keeps its promise.
FairSpec == /\ Spec
            /\ WF_vars(Tick)
            /\ WF_vars(Scheduling)
            /\ WF_vars(NotifyAll) /\ WF_vars(Join)
            /\ WF_vars(PoolStep)

-------------------------------------------------------------------------------

Entries == queue \cup ({held} \ {Nothing})

TypeOK ==
    /\ now \in 0..MaxTime
    /\ \A id \in Called : /\ call[id].time \in 0..MaxTime
                          /\ call[id].interval \in Intervals
                          /\ call[id].count \in Counts
    /\ \A e \in Entries : e.id \in Called /\ e.run >= 1 /\ e.remaining >= -1
    /\ Cardinality(queue) <= capacity
    /\ running \in BOOLEAN /\ dangling \in BOOLEAN
    /\ spc \in {"loop", "locking", "sleeping", "timed", "woken", "adding",
                "pushing", "done", "undefined"}
    /\ deadline \in Nat
    /\ held # Nothing <=> spc \in {"adding", "pushing"}
    /\ dtor \in {"alive", "stopping", "joining", "destroyed"}
    /\ late \in Nat

\* No run is dispatched before it is due, however often the wait is cut short by
\* notifications of other tasks; the runs of a call stay on its original grid,
\* whatever the delay of the earlier ones.
NeverEarly ==
    [][\A x \in Dispatched' \ Dispatched : now >= Due(x[1], x[2])]_vars

\* Each call is in the queue or in the scheduler's hands with exactly the runs
\* it has left, or it has had them all: as many as repeat_count says, one if
\* that is 0, without end if it is negative.
CountsAreKept ==
    \A id \in Called :
        LET done == {k \in 1..MaxTime : <<id, k>> \in Dispatched}
            n    == call[id].count
            mine == {e \in Entries : e.id = id}
        IN /\ done = 1..Cardinality(done)
           /\ \/ /\ n >= 0 /\ mine = {}
                 /\ Cardinality(done) = (IF n = 0 THEN 1 ELSE n)
              \/ \E e \in mine :
                     /\ mine = {e}
                     /\ e.run = Cardinality(done) + 1
                     /\ e.next = Due(id, e.run)
                     /\ e.remaining = (IF n > 0 THEN n - Cardinality(done) ELSE n)

\* The destructor does not wait for what is queued: at most one task is
\* dispatched once running is false.
AtMostOneLate == late <= 1

\* Every run that is due is dispatched and finishes, unless the scheduler is
\* stopped or the dangling reference has ended all certainty.
EverythingDueRuns ==
    \A id \in Ids :
        \A k \in 1..MaxTime :
            (\E e \in Entries : e.id = id /\ e.run = k /\ now >= e.next)
                ~> <<id, k>> \in finished \/ ~running \/ spc = "undefined"

\* The destructor returns, unless its notify_all comes between the scheduler's
\* test of running and its wait on an empty queue, where nothing ends the wait
\* any more; with a task in the queue its deadline does, if time gets there.
DestructorReturnsUnlessMissed ==
    dtor = "joining" /\ (missed => queue # {})
        ~> dtor = "destroyed" \/ deadline > MaxTime \/ spc = "undefined"

\* The comment in the first version of run says that the task must be copied
\* first, since moving it could be undefined behaviour: copying is safe.
CopyIsDefined == spc # "undefined"
===============================================================================
