---------------------------- MODULE FixedWorkerPool ----------------------------
(***************************************************************************)
(* craft/timer/timer_ex/666.cpp: a queue, a mutex and a condition variable *)
(* per worker, so that a task runs on the thread it was submitted to.  The *)
(* destructor stores the atomic stopFlag outside every mutex, notifies the *)
(* queues one after the other and joins.                                   *)
(*                                                                         *)
(* A worker holds its own mutex from its false predicate to its sleep      *)
(* ("deciding"); all other critical sections are one step.                 *)
(***************************************************************************)
EXTENDS Naturals, Sequences, FiniteSets

CONSTANTS NWorkers,    \* threadCount; workers are 1..NWorkers
          Submitters,  \* the threads that call submitTo
          MaxTasks     \* bound: the number of tasks submitted to a worker

FixedWorkerPoolAssumption == NWorkers \in Nat \ {0} /\ MaxTasks \in Nat

VARIABLES
    wpc,        \* "loop", "ready", "deciding", "waiting", "running", "exited"
    queue,      \* queue[w]: the numbers of the tasks queued for worker w
    submitted,  \* submitted[w]: how many tasks were submitted to w so far
    ran,        \* history: ran[w]: the tasks w started, in order
    late,       \* history: late[w]: how many of them it started after the stop
    notifying,  \* <<s, w>>: s pushed for w and has not notified yet
    stopFlag,
    dtor        \* 0 while the pool lives, then the next queue to notify, then
                \* Joining, and Joining + 1 when the destructor has returned

vars == <<wpc, queue, submitted, ran, late, notifying, stopFlag, dtor>>

Workers == 1..NWorkers
Joining == NWorkers + 1

Init == /\ wpc = [w \in Workers |-> "loop"]
        /\ queue = [w \in Workers |-> <<>>]
        /\ submitted = [w \in Workers |-> 0]
        /\ ran = [w \in Workers |-> <<>>]
        /\ late = [w \in Workers |-> 0]
        /\ notifying = {}
        /\ stopFlag = FALSE
        /\ dtor = 0

-------------------------------------------------------------------------------

(***************************************************************************)
(* Bugs this code could plausibly have, each in the place of one action.   *)
(***************************************************************************)

\* The loop condition is while (true).
LoopForEver(w) ==
    /\ wpc[w] = "loop"
    /\ wpc' = [wpc EXCEPT ![w] = "ready"]
    /\ UNCHANGED <<queue, submitted, ran, late, notifying, stopFlag, dtor>>

-------------------------------------------------------------------------------

\* The critical section of submitTo; a valid threadId, as every caller gives.
SubmitTo(s, w) ==
    /\ dtor = 0
    /\ \A v \in Workers : <<s, v>> \notin notifying
    /\ wpc[w] # "deciding"
    /\ submitted[w] < MaxTasks
    /\ submitted' = [submitted EXCEPT ![w] = @ + 1]
    /\ queue' = [queue EXCEPT ![w] = Append(@, submitted[w] + 1)]
    /\ notifying' = notifying \cup {<<s, w>>}
    /\ UNCHANGED <<wpc, ran, late, stopFlag, dtor>>

\* queues[threadId].cv.notify_one(): only worker w waits on that condition.
NotifyOne(s, w) ==
    /\ <<s, w>> \in notifying
    /\ notifying' = notifying \ {<<s, w>>}
    /\ wpc' = [wpc EXCEPT ![w] = IF @ = "waiting" THEN "ready" ELSE @]
    /\ UNCHANGED <<queue, submitted, ran, late, stopFlag, dtor>>

\* while (!stopFlag), outside the mutex.
Loop(w) ==
    /\ wpc[w] = "loop"
    /\ wpc' = [wpc EXCEPT ![w] = IF stopFlag THEN "exited" ELSE "ready"]
    /\ UNCHANGED <<queue, submitted, ran, late, notifying, stopFlag, dtor>>

\* The predicate of wait is false; the worker's mutex stays locked.
SeeIdle(w) ==
    /\ wpc[w] = "ready"
    /\ ~stopFlag /\ queue[w] = <<>>
    /\ wpc' = [wpc EXCEPT ![w] = "deciding"]
    /\ UNCHANGED <<queue, submitted, ran, late, notifying, stopFlag, dtor>>

Block(w) ==
    /\ wpc[w] = "deciding"
    /\ wpc' = [wpc EXCEPT ![w] = "waiting"]
    /\ UNCHANGED <<queue, submitted, ran, late, notifying, stopFlag, dtor>>

SpuriousWakeup(w) ==
    /\ wpc[w] = "waiting"
    /\ wpc' = [wpc EXCEPT ![w] = "ready"]
    /\ UNCHANGED <<queue, submitted, ran, late, notifying, stopFlag, dtor>>

\* stopFlag && tasks.empty(): break.
Exit(w) ==
    /\ wpc[w] = "ready"
    /\ stopFlag /\ queue[w] = <<>>
    /\ wpc' = [wpc EXCEPT ![w] = "exited"]
    /\ UNCHANGED <<queue, submitted, ran, late, notifying, stopFlag, dtor>>

\* The front is moved out and popped, stopFlag or not, and taskWithLocalData
\* starts it.
Take(w) ==
    /\ wpc[w] = "ready"
    /\ queue[w] # <<>>
    /\ ran' = [ran EXCEPT ![w] = Append(@, Head(queue[w]))]
    /\ queue' = [queue EXCEPT ![w] = Tail(@)]
    /\ late' = IF stopFlag THEN [late EXCEPT ![w] = @ + 1] ELSE late
    /\ wpc' = [wpc EXCEPT ![w] = "running"]
    /\ UNCHANGED <<submitted, notifying, stopFlag, dtor>>

Finish(w) ==
    /\ wpc[w] = "running"
    /\ wpc' = [wpc EXCEPT ![w] = "loop"]
    /\ UNCHANGED <<queue, submitted, ran, late, notifying, stopFlag, dtor>>

\* stopFlag = true; the submitters have returned, as main joins its timer first.
StoreStop ==
    /\ dtor = 0
    /\ notifying = {}
    /\ stopFlag' = TRUE
    /\ dtor' = 1
    /\ UNCHANGED <<wpc, queue, submitted, ran, late, notifying>>

\* One iteration of the loop of notify_all.
NotifyNext ==
    /\ dtor \in Workers
    /\ wpc' = [wpc EXCEPT ![dtor] = IF @ = "waiting" THEN "ready" ELSE @]
    /\ dtor' = dtor + 1
    /\ UNCHANGED <<queue, submitted, ran, late, notifying, stopFlag>>

JoinAll ==
    /\ dtor = Joining
    /\ \A w \in Workers : wpc[w] = "exited"
    /\ dtor' = Joining + 1
    /\ UNCHANGED <<wpc, queue, submitted, ran, late, notifying, stopFlag>>

Worker(w) == Loop(w) \/ SeeIdle(w) \/ Block(w) \/ Exit(w) \/ Take(w) \/ Finish(w)

Next == \/ \E s \in Submitters, w \in Workers : SubmitTo(s, w) \/ NotifyOne(s, w)
        \/ \E w \in Workers : Worker(w) \/ SpuriousWakeup(w)
        \/ StoreStop \/ NotifyNext \/ JoinAll

Spec == Init /\ [][Next]_vars

\* Threads that can run do, and tasks return.
FairSpec == /\ Spec
            /\ \A w \in Workers : WF_vars(Worker(w))
            /\ \A s \in Submitters, w \in Workers : WF_vars(NotifyOne(s, w))
            /\ WF_vars(NotifyNext) /\ WF_vars(JoinAll)

-------------------------------------------------------------------------------

TypeOK ==
    /\ wpc \in [Workers -> {"loop", "ready", "deciding", "waiting", "running", "exited"}]
    /\ \A w \in Workers : /\ queue[w] \in Seq(1..MaxTasks)
                          /\ ran[w] \in Seq(1..MaxTasks)
                          /\ submitted[w] \in 0..MaxTasks
                          /\ late[w] \in Nat
    /\ notifying \subseteq Submitters \X Workers
    /\ stopFlag = (dtor # 0)
    /\ dtor \in 0..Joining + 1

\* A worker runs the tasks submitted to it in the order of their pushes, none of
\* them skipped, whatever threads submitted them.
RunsInOrder ==
    \A w \in Workers : ran[w] \o queue[w] = [i \in 1..submitted[w] |-> i]

\* The destructor drops what is queued: a worker starts at most one more task
\* once stopFlag is stored, the one it may already be past the loop test for.
AtMostOneLateTask == \A w \in Workers : late[w] <= 1

\* Submitted tasks run, each on its own worker, unless the pool is destroyed.
TasksRunUnlessStopped ==
    \A w \in Workers, n \in 1..MaxTasks :
        submitted[w] = n ~> Len(ran[w]) >= n \/ stopFlag
===============================================================================
