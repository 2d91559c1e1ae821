---------------------------- MODULE MCUnlockedStop ----------------------------
(* The pools and consumers that stop by a flag, most of them stored outside the
   mutex of the threads it is meant for; one at a time: part says which of them
   runs, the others stay as they are initially. *)
EXTENDS Naturals, Sequences

CONSTANTS PoolWorkers, Clients, Tasks, NoTask,
          Priority, NWorkers, Submitters, MaxTasks, NConsumers, Produced,
          NThreads, NTasks, MaxThreads

VARIABLES part,
          kind, wpc, current, epc, offered, tasks_, stop_, dtor,
          accepted, rejected, finished, missed,
          fpc, queue, submitted, ran, late, notifying, stopFlag, fdtor,
          cpc, queue_, pushed, popped, observer, stopped, lost,
          lpc, scan, task_queue, next_worker, taken, lateTake, stop, joined,
          fixedCount_, workers_, taskQueue_, submits, begun, lateBegun, pool

Rejecting == INSTANCE RejectingPool WITH Workers <- PoolWorkers
Fixed == INSTANCE FixedWorkerPool WITH wpc <- fpc, dtor <- fdtor
Observed == INSTANCE ObserverQueue WITH MaxTasks <- Produced
Stealing == INSTANCE StealingPool
Dynamic == INSTANCE DynamicPoolV1

ASSUME PartsAssumption ==
    /\ Rejecting!RejectingPoolAssumption
    /\ Fixed!FixedWorkerPoolAssumption
    /\ Observed!ObserverQueueAssumption
    /\ Stealing!StealingPoolAssumption
    /\ Dynamic!DynamicPoolV1Assumption

\* A value of Priority: one task comes before the others, which are equal.
OneFirst == [x \in Tasks |-> IF x = CHOOSE y \in Tasks : TRUE THEN 0 ELSE 1]

rejectingVars == <<kind, wpc, current, epc, offered, tasks_, stop_, dtor,
                   accepted, rejected, finished, missed>>
fixedVars == <<fpc, queue, submitted, ran, late, notifying, stopFlag, fdtor>>
observedVars == <<cpc, queue_, pushed, popped, observer, stopped, lost>>
stealingVars == <<lpc, scan, task_queue, next_worker, taken, lateTake, stop, joined>>
dynamicVars == <<fixedCount_, workers_, taskQueue_, submits, begun, lateBegun, pool>>
vars == <<part, rejectingVars, fixedVars, observedVars, stealingVars, dynamicVars>>

\* What stays unchanged when one part takes a step.
exceptRejecting == <<part, fixedVars, observedVars, stealingVars, dynamicVars>>
exceptFixed == <<part, rejectingVars, observedVars, stealingVars, dynamicVars>>
exceptObserved == <<part, rejectingVars, fixedVars, stealingVars, dynamicVars>>
exceptStealing == <<part, rejectingVars, fixedVars, observedVars, dynamicVars>>
exceptDynamic == <<part, rejectingVars, fixedVars, observedVars, stealingVars>>

Init ==
    /\ part \in {"rejecting", "fixed", "observed", "stealing", "dynamic"}
    /\ Rejecting!Init /\ Fixed!Init /\ Observed!Init /\ Stealing!Init /\ Dynamic!Init
    /\ part # "rejecting" => kind = Rejecting!Pool17
    /\ part # "dynamic" => fixedCount_ = 0

Next ==
    \/ part = "rejecting" /\ Rejecting!Next /\ UNCHANGED exceptRejecting
    \/ part = "fixed" /\ Fixed!Next /\ UNCHANGED exceptFixed
    \/ part = "observed" /\ Observed!Next /\ UNCHANGED exceptObserved
    \/ part = "stealing" /\ Stealing!Next /\ UNCHANGED exceptStealing
    \/ part = "dynamic" /\ Dynamic!Next /\ UNCHANGED exceptDynamic

\* Threads that can run do, tasks return, a time limit passes, and a thread that
\* keeps asking for a mutex gets it in the end, which takes strong fairness.
Fairness ==
    /\ \A w \in PoolWorkers : SF_vars(part = "rejecting" /\ Rejecting!Worker(w)
                                  /\ UNCHANGED exceptRejecting)
    /\ \A t \in Rejecting!Threads : WF_vars(part = "rejecting" /\ Rejecting!Enqueue(t)
                                            /\ UNCHANGED exceptRejecting)
    /\ WF_vars(part = "rejecting" /\ (Rejecting!NotifyAll \/ Rejecting!JoinAll)
               /\ UNCHANGED exceptRejecting)
    /\ \A w \in Fixed!Workers : WF_vars(part = "fixed" /\ Fixed!Worker(w)
                                        /\ UNCHANGED exceptFixed)
    /\ \A s \in Submitters, w \in Fixed!Workers :
          WF_vars(part = "fixed" /\ Fixed!NotifyOne(s, w) /\ UNCHANGED exceptFixed)
    /\ WF_vars(part = "fixed" /\ (Fixed!NotifyNext \/ Fixed!JoinAll) /\ UNCHANGED exceptFixed)
    /\ \A c \in Observed!Consumers : WF_vars(part = "observed" /\ Observed!Run(c)
                                             /\ UNCHANGED exceptObserved)
    /\ WF_vars(part = "observed" /\ Observed!Main /\ UNCHANGED exceptObserved)
    /\ \A w \in Stealing!Workers : WF_vars(part = "stealing" /\ Stealing!WorkerLoop(w)
                                           /\ UNCHANGED exceptStealing)
    /\ WF_vars(part = "stealing" /\ Stealing!JoinAll /\ UNCHANGED exceptStealing)
    /\ \A i \in 1..MaxThreads : SF_vars(part = "dynamic" /\ Dynamic!WorkerLoop(i)
                                        /\ UNCHANGED exceptDynamic)
    /\ \A c \in Clients : WF_vars(part = "dynamic" /\ (\/ Dynamic!NotifyOne(c)
                                                       \/ Dynamic!MaybeSpawnDynamicThread(c))
                                  /\ UNCHANGED exceptDynamic)
    /\ WF_vars(part = "dynamic" /\ (Dynamic!NotifyAll \/ Dynamic!JoinAll)
               /\ UNCHANGED exceptDynamic)

Spec == Init /\ [][Next]_vars /\ Fairness

-------------------------------------------------------------------------------

\* Whoever takes them, tasks are not lost, doubled, or run after a rejection, and
\* queues are served in order.
OnceAndInOrder ==
    /\ Rejecting!RejectedNeverRuns
    /\ Fixed!RunsInOrder
    /\ Observed!PoppedInOrder
    /\ Stealing!TakenOnce
    /\ Dynamic!BegunInOrder

\* thread_pool_17.hpp and its kin: the destructor returns after the last task.
ShutdownDrains == Rejecting!ShutdownDrains

\* 666.cpp, thread_rob.cpp and dynamic_thread_pool_v1.hpp drop what is queued
\* when they stop: each worker begins at most one more task.
AtMostOneLateTask ==
    /\ Fixed!AtMostOneLateTask
    /\ Stealing!AtMostOneLateTask
    /\ Dynamic!AtMostOneLateTask

\* Tasks accepted run in the end, up to the stop of a pool that drops its queue,
\* to notifications lost on every observer, and to threads used up for good.
AcceptedTasksRun ==
    /\ Rejecting!EveryAcceptedTaskRuns
    /\ Fixed!TasksRunUnlessStopped
    /\ Observed!ConsumedUnlessLost
    /\ Stealing!TasksAreTaken
    /\ Dynamic!TasksBegin

\* The destructor of a pool that rejects returns unless its notification is lost.
DestructorReturnsUnlessMissed == Rejecting!DestructorReturnsUnlessMissed
===============================================================================
