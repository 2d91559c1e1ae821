---------------------------- MODULE TimerScheduler ----------------------------
(***************************************************************************)
(* craft/timer/timer_ex/444.cpp: a thread that keeps timer tasks in a heap *)
(* ordered by execTime, hands those that are due to a thread pool and puts *)
(* the repeating ones back an interval from now.  Unlike thread/scheduler  *)
(* it copies the top only when it is due and still holds the mutex.        *)
(* running is stored and notified without the mutex, and the wait on an    *)
(* empty heap has no predicate and no time limit.                          *)
(*                                                                         *)
(* The heap is the sequence in which its entries leave it; left is the     *)
(* time to an entry's execTime, 0 once it is due, so that time has no end. *)
(* Entries of the same execTime leave in any order (their priority), and   *)
(* so do those that are due, where one that is added late comes in.        *)
(***************************************************************************)
EXTENDS Naturals, Sequences

CONSTANTS Timers,  \* the calls of addTask; each is one call
          Delays   \* the delays and intervals they use

TimerSchedulerAssumption == /\ Delays \subseteq Nat
                            /\ \E d \in Delays : \A e \in Delays : e <= d

VARIABLES
    taskQueue,
    interval,   \* interval[id]: what the call was given, 0 if it does not repeat
    owed,       \* history: the time until a call may run again, NoCall after the last
    adding,     \* the calls between the push and notify_one
    wait,       \* "loop", "locking", "sleeping", "timed" or "done": the thread
    limit,      \* the time to the execTime that wait_until was called with
    running,
    scheduler,  \* "alive", "stopping", "joining" or "destroyed"
    unseen,     \* history: the last notification came before the wait
    lateRuns    \* history: the number of tasks dispatched after the stop

vars == <<taskQueue, interval, owed, adding, wait, limit, running, scheduler,
          unseen, lateRuns>>

Queued == {taskQueue[i].id : i \in DOMAIN taskQueue}
Longest == CHOOSE d \in Delays : \A e \in Delays : e <= d
NoCall == Longest + 1
Less(n) == IF n = 0 THEN 0 ELSE n - 1

Init == /\ taskQueue = <<>>
        /\ interval = [id \in Timers |-> NoCall]
        /\ owed = [id \in Timers |-> NoCall]
        /\ adding = {}
        /\ wait = "loop"
        /\ limit = 0
        /\ running = TRUE
        /\ scheduler = "alive"
        /\ unseen = FALSE
        /\ lateRuns = 0

\* push: the places an entry may have in the order of execTime.
Pushed(q, e) ==
    {SubSeq(q, 1, k) \o <<e>> \o SubSeq(q, k + 1, Len(q)) :
        k \in {k \in 0..Len(q) : /\ \A i \in 1..k : q[i].left <= e.left
                                 /\ \A i \in k + 1..Len(q) : q[i].left >= e.left}}

-------------------------------------------------------------------------------

Tick ==
    /\ taskQueue' = [i \in DOMAIN taskQueue |-> [taskQueue[i] EXCEPT !.left = Less(@)]]
    /\ owed' = [id \in Timers |-> IF owed[id] = NoCall THEN NoCall ELSE Less(owed[id])]
    /\ limit' = Less(limit)
    /\ UNCHANGED <<interval, adding, wait, running, scheduler, unseen, lateRuns>>

\* addTask, called from outside while the scheduler lives.  It reads the clock before
\* it takes the mutex: left is what the wait for the mutex has left of the delay.
AddTask(id, delay, every) ==
    /\ scheduler = "alive"
    /\ interval[id] = NoCall
    /\ interval' = [interval EXCEPT ![id] = every]
    /\ \E left \in 0..delay :
          /\ owed' = [owed EXCEPT ![id] = left]
          /\ taskQueue' \in Pushed(taskQueue, [id |-> id, left |-> left])
    /\ adding' = adding \cup {id}
    /\ UNCHANGED <<wait, limit, running, scheduler, unseen, lateRuns>>

\* cv.notify_one(): nobody but the scheduler's thread waits.
Notified == wait' = IF wait \in {"sleeping", "timed"} THEN "loop" ELSE wait

NotifyAdded(id) ==
    /\ id \in adding
    /\ adding' = adding \ {id}
    /\ Notified
    /\ UNCHANGED <<taskQueue, interval, owed, limit, running, scheduler, unseen, lateRuns>>

\* while (running), before the lock.
TestRunning ==
    /\ wait = "loop"
    /\ wait' = IF running THEN "locking" ELSE "done"
    /\ UNCHANGED <<taskQueue, interval, owed, adding, limit, running, scheduler,
                   unseen, lateRuns>>

WaitForTask ==
    /\ wait = "locking" /\ taskQueue = <<>>
    /\ wait' = "sleeping"
    /\ UNCHANGED <<taskQueue, interval, owed, adding, limit, running, scheduler,
                   unseen, lateRuns>>

WaitUntilDue ==
    /\ wait = "locking" /\ taskQueue # <<>>
    /\ Head(taskQueue).left > 0
    /\ limit' = Head(taskQueue).left
    /\ wait' = "timed"
    /\ UNCHANGED <<taskQueue, interval, owed, adding, running, scheduler, unseen, lateRuns>>

WakeUp ==
    /\ wait = "timed" /\ limit = 0
    /\ wait' = "loop"
    /\ UNCHANGED <<taskQueue, interval, owed, adding, limit, running, scheduler,
                   unseen, lateRuns>>

SpuriousWakeup ==
    /\ wait \in {"sleeping", "timed"}
    /\ wait' = "loop"
    /\ UNCHANGED <<taskQueue, interval, owed, adding, limit, running, scheduler,
                   unseen, lateRuns>>

\* The copy, the pop, the pool's enqueue and the push of a repeating task, all under
\* the mutex and relative to the time that was read there.
Dispatch ==
    /\ wait = "locking" /\ taskQueue # <<>>
    /\ Head(taskQueue).left = 0
    /\ LET top == Head(taskQueue) IN
          /\ owed' = [owed EXCEPT ![top.id] =
                           IF interval[top.id] = 0 THEN NoCall ELSE interval[top.id]]
          /\ taskQueue' \in IF interval[top.id] = 0 THEN {Tail(taskQueue)}
                            ELSE Pushed(Tail(taskQueue),
                                        [id |-> top.id, left |-> interval[top.id]])
    /\ lateRuns' = IF running THEN lateRuns ELSE lateRuns + 1
    /\ wait' = "loop"
    /\ UNCHANGED <<interval, adding, limit, running, scheduler, unseen>>

StopRunning ==
    /\ scheduler = "alive" /\ adding = {}
    /\ running' = FALSE
    /\ scheduler' = "stopping"
    /\ UNCHANGED <<taskQueue, interval, owed, adding, wait, limit, unseen, lateRuns>>

NotifyStop ==
    /\ scheduler = "stopping"
    /\ scheduler' = "joining"
    /\ unseen' = (wait = "locking")
    /\ Notified
    /\ UNCHANGED <<taskQueue, interval, owed, adding, limit, running, lateRuns>>

Join ==
    /\ scheduler = "joining" /\ wait = "done"
    /\ scheduler' = "destroyed"
    /\ UNCHANGED <<taskQueue, interval, owed, adding, wait, limit, running, unseen, lateRuns>>

Run == TestRunning \/ WaitForTask \/ WaitUntilDue \/ WakeUp \/ Dispatch
Others == NotifyStop \/ Join \/ \E id \in Timers : NotifyAdded(id)

Next == \/ Tick \/ Run \/ Others \/ SpuriousWakeup \/ StopRunning
        \/ \E id \in Timers, d, i \in Delays : AddTask(id, d, i)

-------------------------------------------------------------------------------

\* The first run comes no earlier than the delay after the call, the next ones no
\* earlier than the interval after the run before, whoever notifies meanwhile.
NeverEarly ==
    [][\A id \in Queued : owed'[id] > owed[id] => owed[id] = 0]_vars

\* A call is queued once until it has run, and for ever if it repeats, in the order
\* of execTime.
QueuedOnce ==
    /\ \A i, j \in DOMAIN taskQueue : taskQueue[i].id = taskQueue[j].id => i = j
    /\ \A i \in 2..Len(taskQueue) : taskQueue[i - 1].left <= taskQueue[i].left
    /\ \A id \in Timers : interval[id] \notin {0, NoCall} => id \in Queued

\* One task may still be dispatched once running is false.
AtMostOneLate == lateRuns <= 1

\* What is due is dispatched unless the scheduler stops.
EverythingDueRuns ==
    \A id \in Timers :
        (\E i \in DOMAIN taskQueue : taskQueue[i].id = id /\ taskQueue[i].left = 0)
            ~> (\A i \in DOMAIN taskQueue : taskQueue[i].id = id => taskQueue[i].left > 0)
               \/ ~running

\* The destructor returns, unless its notification comes between the test of
\* running and the wait of a scheduler without tasks.
DestructorReturnsUnlessMissed ==
    scheduler = "joining" /\ (unseen => taskQueue # <<>>) ~> scheduler = "destroyed"
===============================================================================
