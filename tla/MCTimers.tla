------------------------------- MODULE MCTimers -------------------------------
(* The five timers, one at a time: part says which of them runs, the others stay
   as they are initially. *)
EXTENDS Integers, Sequences

CONSTANTS Ids, Intervals, Counts, Slots, MaxTime, Nothing,
          Timers, Delays,
          THREAD_COUNT, WorkerIntervals, Tasks, NULL,
          MAX_TASKS, TableIntervals, MaxBehind, DelaysMs

\* For ever, and twice.
SmallCounts == {-1, 2}

\* A refused delay, one that arms nothing, and one that the timer counts down.
SmallDelays == {-1, 0, 2}

\* Two of the workers, the second slower.
TwoIntervals == <<1, 2>>

VARIABLES part,
          now, call, queue, capacity, running, spc, deadline, dangling, held, dtor,
          late, missed, pending, active, finished, closed,
          taskQueue, interval, owed, adding, wait, limit, running_, scheduler,
          unseen, lateRuns,
          head, tail, next, allocated, worker, task, timer, since, behind,
          timer_tasks, asleep, clockRead, lag, age,
          delay, timer_, done, callback, caller

Heap == INSTANCE Scheduler
Repeating == INSTANCE TimerScheduler WITH running <- running_
InC == INSTANCE CTimers

ASSUME TimersAssumption ==
    /\ Heap!SchedulerAssumption
    /\ Repeating!TimerSchedulerAssumption
    /\ InC!PollingTimerAssumption
    /\ InC!TableTimerAssumption

heapVars == <<now, call, queue, capacity, running, spc, deadline, dangling, held,
              dtor, late, missed, pending, active, finished, closed>>
repeatingVars == <<taskQueue, interval, owed, adding, wait, limit, running_,
                   scheduler, unseen, lateRuns>>
pollingVars == <<head, tail, next, allocated, worker, task, timer, since, behind>>
tableVars == <<timer_tasks, asleep, clockRead, lag, age>>
posixVars == <<delay, timer_, done, callback, caller>>
vars == <<part, heapVars, repeatingVars, pollingVars, tableVars, posixVars>>

\* What stays unchanged when one part takes a step.
exceptHeap == <<part, repeatingVars, pollingVars, tableVars, posixVars>>
exceptRepeating == <<part, heapVars, pollingVars, tableVars, posixVars>>
exceptPolling == <<part, heapVars, repeatingVars, tableVars, posixVars>>
exceptTable == <<part, heapVars, repeatingVars, pollingVars, posixVars>>
exceptPosix == <<part, heapVars, repeatingVars, pollingVars, tableVars>>

Init ==
    /\ part \in {"heap", "repeating", "polling", "table", "posix"}
    /\ Heap!Init /\ Repeating!Init /\ InC!PollingInit /\ InC!TableInit /\ InC!TaskInit
    /\ part # "posix" => delay = 0

Next ==
    \/ part = "heap" /\ Heap!Next /\ UNCHANGED exceptHeap
    \/ part = "repeating" /\ Repeating!Next /\ UNCHANGED exceptRepeating
    \/ part = "polling" /\ InC!PollingNext /\ UNCHANGED exceptPolling
    \/ part = "table" /\ InC!TableNext /\ UNCHANGED exceptTable
    \/ part = "posix" /\ InC!TaskNext /\ UNCHANGED exceptPosix

Clock ==
    \/ part = "heap" /\ Heap!Tick /\ UNCHANGED exceptHeap
    \/ part = "repeating" /\ Repeating!Tick /\ UNCHANGED exceptRepeating
    \/ part = "table" /\ InC!TableTick /\ UNCHANGED exceptTable
    \/ part = "posix" /\ (InC!TaskTick \/ InC!Fire \/ InC!Publish) /\ UNCHANGED exceptPosix

Timer ==
    \/ part = "heap" /\ Heap!Scheduling /\ UNCHANGED exceptHeap
    \/ part = "repeating" /\ Repeating!Run /\ UNCHANGED exceptRepeating
    \/ part = "polling" /\ InC!Poll /\ UNCHANGED exceptPolling
    \/ part = "table" /\ (InC!ReadClock \/ InC!LookThrough) /\ UNCHANGED exceptTable

Caller ==
    \/ part = "heap" /\ (Heap!NotifyAll \/ Heap!Join) /\ UNCHANGED exceptHeap
    \/ part = "repeating" /\ Repeating!Others /\ UNCHANGED exceptRepeating
    \/ part = "posix" /\ InC!Caller /\ UNCHANGED exceptPosix

Worker(i) ==
    \/ part = "heap" /\ i = 1 /\ Heap!PoolStep /\ UNCHANGED exceptHeap
    \/ part = "polling" /\ InC!Worker(i) /\ UNCHANGED exceptPolling

\* The clock advances and threads that can run do; nobody has to call, to stop or
\* to be woken without a reason.  As part never changes, the fairness of one step
\* of several parts is that of each of them.
Fairness == /\ WF_vars(Clock)
            /\ WF_vars(Timer)
            /\ WF_vars(Caller)
            /\ \A i \in InC!Workers : WF_vars(Worker(i))

Spec == Init /\ [][Next]_vars /\ Fairness

-------------------------------------------------------------------------------

\* scheduler.hpp, 444.cpp and 222.c: a task is queued or handed out exactly as
\* often as it has runs left, whatever is added or dispatched meanwhile.
CountsAreKept ==
    Heap!CountsAreKept /\ Repeating!QueuedOnce /\ InC!TasksInOnePlace

\* scheduler.hpp and 444.cpp: at most one task is dispatched after the stop;
\* example.c: the callback does not touch what Destroy destroyed.
AtMostOneLate ==
    Heap!AtMostOneLate /\ Repeating!AtMostOneLate /\ InC!CallbackIsOver

\* No timer runs a task before it is due, and delays do not add up where the
\* code keeps the runs of a task on a grid.
NeverEarly ==
    Heap!NeverEarly /\ Repeating!NeverEarly /\ InC!TriggersAreApart

\* What is due is run, and what was triggered is executed.
EverythingDueRuns ==
    /\ Heap!EverythingDueRuns
    /\ Repeating!EverythingDueRuns
    /\ InC!TasksAreExecuted
    /\ InC!TableIsTriggered

\* The destructors of scheduler.hpp and 444.cpp return unless they notify where
\* nobody waits yet; TimerTask_Wait returns unless the timer was not armed.
DestructorReturnsUnlessMissed ==
    /\ Heap!DestructorReturnsUnlessMissed
    /\ Repeating!DestructorReturnsUnlessMissed
    /\ InC!WaitReturnsUnlessZero
===============================================================================
