--------------------------- MODULE DynamicThreadPool ---------------------------
(***************************************************************************)
(* thread/thread_pool_ad/dynamic_thread_pool.hpp: a pool with fixed        *)
(* workers and dynamic ones.  submit pushes, notifies, and starts a        *)
(* dynamic worker when more tasks are queued than threads are idle and     *)
(* fewer threads than maxThreads_ are active; a dynamic worker leaves      *)
(* after 200 ms without a task.  The two counters are atomics that the     *)
(* threads themselves keep, outside every mutex, and so is stopFlag_.      *)
(*                                                                         *)
(* A worker holds queueMutex_ from its false predicate to its sleep        *)
(* ("deciding"); every other critical section is one step, and every       *)
(* access to an atomic outside them is one.                                *)
(***************************************************************************)
EXTENDS Integers, Sequences, FiniteSets

CONSTANTS Submitters,   \* the threads that call submit
          fixedCount_,
          maxThreads_,
          MaxTasks      \* bound: the tasks submitted

ASSUME DynamicThreadPoolAssumption ==
    /\ IsFiniteSet(Submitters)
    /\ fixedCount_ \in Nat \ {0}
    /\ maxThreads_ \in Nat /\ MaxTasks \in Nat

VARIABLES
    workers_,   \* how many threads were started: they are 1..workers_
    wpc,        \* "starting", "counted" (active), "loop", "ready", "deciding",
                \* "waiting", "late" (timed out), "taken", "running", "leaving",
                \* "left" (no longer idle) or "exited"
    epc,        \* epc[s] in submit: "out", "notifying", "measuring", "checking",
                \* "comparing"; the last two hold dynamicMutex_
    pendingTasks,  \* pendingTasks[s]: the local variable, 0 outside its scope
    taskQueue_, stopFlag_, activeThreads_, idleThreads_,
    dtor,       \* "alive", "stopping", "joining" or "destroyed"
    submitted,  \* how many tasks were submitted; they are 1..submitted
    started,    \* history: the tasks popped, in order
    late,       \* history: late[w]: how many of them w took after the stop
    blind       \* history: activeThreads_ was found below maxThreads_ while a
                \* thread was started that had not counted itself yet

avars == <<activeThreads_, idleThreads_>>
tvars == <<taskQueue_, submitted, started, late>>
svars == <<epc, pendingTasks, blind>>
vars  == <<workers_, wpc, svars, tvars, avars, stopFlag_, dtor>>

Threads == 1..fixedCount_ + MaxTasks
Workers == 1..workers_
Fixed(w) == w <= fixedCount_
WorkersAt(p) == {w \in Workers : wpc[w] = p}
MutexFree == WorkersAt("deciding") = {}
DynamicMutexFree == \A s \in Submitters : epc[s] \notin {"checking", "comparing"}

Init == /\ workers_ = fixedCount_
        /\ wpc = [w \in Threads |-> "starting"]
        /\ epc = [s \in Submitters |-> "out"]
        /\ pendingTasks = [s \in Submitters |-> 0]
        /\ taskQueue_ = <<>>
        /\ stopFlag_ = FALSE
        /\ activeThreads_ = 0 /\ idleThreads_ = 0
        /\ dtor = "alive"
        /\ submitted = 0 /\ started = <<>>
        /\ late = [w \in Threads |-> 0]
        /\ blind = FALSE

\* Worker w moves from place p to place q and nothing else changes.
Goes(w, p, q) == /\ wpc[w] = p
                 /\ wpc' = [wpc EXCEPT ![w] = q]

\* Submitter s returns from maybeSpawnDynamicThread, and from submit.
Leave(s) == /\ epc' = [epc EXCEPT ![s] = "out"]
            /\ pendingTasks' = [pendingTasks EXCEPT ![s] = 0]

-------------------------------------------------------------------------------

(***************************************************************************)
(* Bugs this code could plausibly have, each in the place of one action.   *)
(***************************************************************************)

\* activeThreads_ > maxThreads_.
CheckActiveOffByOne(s) ==
    /\ epc[s] = "checking"
    /\ IF activeThreads_ > maxThreads_ THEN Leave(s)
       ELSE epc' = [epc EXCEPT ![s] = "comparing"] /\ UNCHANGED pendingTasks
    /\ blind' = (blind \/ (activeThreads_ < maxThreads_ /\ WorkersAt("starting") # {}))
    /\ UNCHANGED <<workers_, wpc, tvars, avars, stopFlag_, dtor>>

\* idleThreads_ is not incremented again after a task.
CountIdleOnce(w) ==
    /\ Goes(w, "counted", "loop") \/ Goes(w, "running", "loop")
    /\ idleThreads_' = IF wpc[w] = "counted" THEN idleThreads_ + 1 ELSE idleThreads_
    /\ UNCHANGED <<workers_, svars, tvars, activeThreads_, stopFlag_, dtor>>

\* The loop condition is while (true).
LoopForEver(w) ==
    /\ Goes(w, "loop", "ready")
    /\ UNCHANGED <<workers_, svars, tvars, avars, stopFlag_, dtor>>

\* A fixed worker that times out leaves as well.
GiveUpFixed(w) ==
    /\ MutexFree
    /\ ~stopFlag_ /\ taskQueue_ = <<>>
    /\ Goes(w, "late", "leaving")
    /\ UNCHANGED <<workers_, svars, tvars, avars, stopFlag_, dtor>>

\* wait instead of wait_for.
NoTimeLimit(w) == wpc[w] = "waiting" /\ UNCHANGED vars

-------------------------------------------------------------------------------

\* The critical section of submit.
Push(s) ==
    /\ dtor = "alive"
    /\ epc[s] = "out" /\ MutexFree
    /\ submitted < MaxTasks
    /\ submitted' = submitted + 1
    /\ taskQueue_' = Append(taskQueue_, submitted + 1)
    /\ epc' = [epc EXCEPT ![s] = "notifying"]
    /\ UNCHANGED <<workers_, wpc, pendingTasks, started, late, blind, avars,
                   stopFlag_, dtor>>

NotifyOne(s) ==
    /\ epc[s] = "notifying"
    /\ epc' = [epc EXCEPT ![s] = "measuring"]
    /\ IF WorkersAt("waiting") = {} THEN UNCHANGED wpc
       ELSE \E w \in WorkersAt("waiting") : Goes(w, "waiting", "ready")
    /\ UNCHANGED <<workers_, pendingTasks, blind, tvars, avars, stopFlag_, dtor>>

\* maybeSpawnDynamicThread locks dynamicMutex_ and reads the queue's size.
Measure(s) ==
    /\ epc[s] = "measuring" /\ MutexFree /\ DynamicMutexFree
    /\ pendingTasks' = [pendingTasks EXCEPT ![s] = Len(taskQueue_)]
    /\ epc' = [epc EXCEPT ![s] = "checking"]
    /\ UNCHANGED <<workers_, wpc, blind, tvars, avars, stopFlag_, dtor>>

CheckActive(s) ==
    /\ epc[s] = "checking"
    /\ IF activeThreads_ >= maxThreads_ THEN Leave(s)
       ELSE epc' = [epc EXCEPT ![s] = "comparing"] /\ UNCHANGED pendingTasks
    /\ blind' = (blind \/ (activeThreads_ < maxThreads_ /\ WorkersAt("starting") # {}))
    /\ UNCHANGED <<workers_, wpc, tvars, avars, stopFlag_, dtor>>

Spawn(s) ==
    /\ epc[s] = "comparing"
    /\ pendingTasks[s] > idleThreads_
    /\ workers_' = workers_ + 1
    /\ Leave(s)
    /\ UNCHANGED <<wpc, blind, tvars, avars, stopFlag_, dtor>>

NoSpawn(s) ==
    /\ epc[s] = "comparing"
    /\ pendingTasks[s] <= idleThreads_
    /\ Leave(s)
    /\ UNCHANGED <<workers_, wpc, blind, tvars, avars, stopFlag_, dtor>>

CountActive(w) ==
    /\ Goes(w, "starting", "counted")
    /\ activeThreads_' = activeThreads_ + 1
    /\ UNCHANGED <<workers_, svars, tvars, idleThreads_, stopFlag_, dtor>>

\* ++idleThreads_ at the start, and again after each task.
CountIdle(w) ==
    /\ Goes(w, "counted", "loop") \/ Goes(w, "running", "loop")
    /\ idleThreads_' = idleThreads_ + 1
    /\ UNCHANGED <<workers_, svars, tvars, activeThreads_, stopFlag_, dtor>>

\* while (!stopFlag_), outside the mutex.
Loop(w) ==
    /\ Goes(w, "loop", IF stopFlag_ THEN "leaving" ELSE "ready")
    /\ UNCHANGED <<workers_, svars, tvars, avars, stopFlag_, dtor>>

\* The predicate is false and time is left; queueMutex_ stays locked.
SeeIdle(w) ==
    /\ MutexFree
    /\ ~stopFlag_ /\ taskQueue_ = <<>>
    /\ Goes(w, "ready", "deciding")
    /\ UNCHANGED <<workers_, svars, tvars, avars, stopFlag_, dtor>>

Block(w) ==
    /\ Goes(w, "deciding", "waiting")
    /\ UNCHANGED <<workers_, svars, tvars, avars, stopFlag_, dtor>>

SpuriousWakeup(w) ==
    /\ Goes(w, "waiting", "ready")
    /\ UNCHANGED <<workers_, svars, tvars, avars, stopFlag_, dtor>>

Timeout(w) ==
    /\ Goes(w, "waiting", "late")
    /\ UNCHANGED <<workers_, svars, tvars, avars, stopFlag_, dtor>>

\* 200 ms passed and the predicate is still false: a dynamic worker leaves.
GiveUp(w) ==
    /\ MutexFree
    /\ ~stopFlag_ /\ taskQueue_ = <<>>
    /\ Goes(w, "late", IF Fixed(w) THEN "loop" ELSE "leaving")
    /\ UNCHANGED <<workers_, svars, tvars, avars, stopFlag_, dtor>>

\* The predicate is true because of stopFlag_ alone: continue.
SeeStop(w) ==
    /\ MutexFree
    /\ stopFlag_ /\ taskQueue_ = <<>>
    /\ Goes(w, "ready", "loop") \/ Goes(w, "late", "loop")
    /\ UNCHANGED <<workers_, svars, tvars, avars, stopFlag_, dtor>>

\* There is a task, whether time has run out or not.
Take(w) ==
    /\ MutexFree
    /\ taskQueue_ # <<>>
    /\ Goes(w, "ready", "taken") \/ Goes(w, "late", "taken")
    /\ started' = Append(started, Head(taskQueue_))
    /\ taskQueue_' = Tail(taskQueue_)
    /\ late' = IF stopFlag_ THEN [late EXCEPT ![w] = @ + 1] ELSE late
    /\ UNCHANGED <<workers_, svars, submitted, avars, stopFlag_, dtor>>

\* --idleThreads_, before the task and before leaving.
CountBusy(w) ==
    /\ Goes(w, "taken", "running") \/ Goes(w, "leaving", "left")
    /\ idleThreads_' = idleThreads_ - 1
    /\ UNCHANGED <<workers_, svars, tvars, activeThreads_, stopFlag_, dtor>>

CountInactive(w) ==
    /\ Goes(w, "left", "exited")
    /\ activeThreads_' = activeThreads_ - 1
    /\ UNCHANGED <<workers_, svars, tvars, idleThreads_, stopFlag_, dtor>>

\* stopFlag_ = true, without queueMutex_; nobody is in submit any more.
StoreStop ==
    /\ dtor = "alive"
    /\ \A s \in Submitters : epc[s] = "out"
    /\ stopFlag_' = TRUE
    /\ dtor' = "stopping"
    /\ UNCHANGED <<workers_, wpc, svars, tvars, avars>>

NotifyAll ==
    /\ dtor = "stopping"
    /\ wpc' = [w \in Threads |-> IF wpc[w] = "waiting" THEN "ready" ELSE wpc[w]]
    /\ dtor' = "joining"
    /\ UNCHANGED <<workers_, svars, tvars, avars, stopFlag_>>

JoinAll ==
    /\ dtor = "joining"
    /\ WorkersAt("exited") = Workers
    /\ dtor' = "destroyed"
    /\ UNCHANGED <<workers_, wpc, svars, tvars, avars, stopFlag_>>

Submit(s) == NotifyOne(s) \/ Measure(s) \/ CheckActive(s) \/ Spawn(s) \/ NoSpawn(s)

\* What a worker does when it runs; a wait ends at the latest after 200 ms.
Step(w) == \/ CountActive(w) \/ CountIdle(w) \/ Loop(w) \/ SeeIdle(w) \/ Block(w)
           \/ Timeout(w) \/ GiveUp(w) \/ SeeStop(w) \/ Take(w)
           \/ CountBusy(w) \/ CountInactive(w)

Next == \/ \E s \in Submitters : Push(s) \/ Submit(s)
        \/ \E w \in Workers : Step(w) \/ SpuriousWakeup(w)
        \/ StoreStop \/ NotifyAll \/ JoinAll

Spec == Init /\ [][Next]_vars

\* Threads that can run do, a thread that keeps asking for a mutex gets it in
\* the end (which takes strong fairness), and tasks return.
FairSpec == /\ Spec
            /\ \A w \in Threads : SF_vars(w \in Workers /\ Step(w))
            /\ \A s \in Submitters : SF_vars(Submit(s))
            /\ WF_vars(NotifyAll) /\ WF_vars(JoinAll)
-------------------------------------------------------------------------------

TypeOK ==
    /\ workers_ \in fixedCount_..fixedCount_ + submitted
    /\ wpc \in [Threads -> {"starting", "counted", "loop", "ready", "deciding",
                            "waiting", "late", "taken", "running", "leaving",
                            "left", "exited"}]
    /\ epc \in [Submitters -> {"out", "notifying", "measuring", "checking", "comparing"}]
    /\ pendingTasks \in [Submitters -> 0..MaxTasks]
    /\ taskQueue_ \in Seq(1..MaxTasks) /\ started \in Seq(1..MaxTasks)
    /\ stopFlag_ \in BOOLEAN /\ blind \in BOOLEAN
    /\ dtor \in {"alive", "stopping", "joining", "destroyed"}
    /\ late \in [Threads -> Nat]
    /\ activeThreads_ \in 0..workers_ /\ idleThreads_ \in 0..workers_

\* The counters never claim more than there is: 0 <= idle <= active <= threads.
\* idleThreads_ is a signed int that is compared with a size_t, where a negative
\* value would be a huge one and no thread would ever be started again.
CountersMakeSense ==
    /\ 0 <= idleThreads_
    /\ idleThreads_ <= activeThreads_
    /\ activeThreads_ <= workers_

\* There are no more live threads than maxThreads_ (or than the fixed ones, if
\* these are more) unless activeThreads_ was read while a thread that was started
\* had yet to count itself: the lag of the counter is all that lets the pool grow
\* beyond its maximum.
MaxThreadsUnlessBlind ==
    ~blind => \/ activeThreads_ <= maxThreads_
              \/ workers_ = fixedCount_

\* The destructor drops what is queued: a worker takes at most one more task
\* once stopFlag_ is stored.
AtMostOneLateTask == \A w \in Threads : late[w] <= 1

\* Every task is started unless the pool is destroyed: a dynamic worker that
\* leaves as a task arrives, or that took its notification, leaves no task
\* behind, since the fixed workers look again after at most 200 ms.
TasksStartUnlessStopped ==
    \A n \in 1..MaxTasks : submitted = n ~> Len(started) >= n \/ stopFlag_

\* The destructor returns although notify_all may miss a worker that was about
\* to sleep: its wait times out.
DestructorReturns == dtor # "alive" ~> dtor = "destroyed"
===============================================================================
