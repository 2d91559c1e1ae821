----------------------------- MODULE DynamicPoolV1 -----------------------------
(***************************************************************************)
(* thread/thread_pool_ad/dynamic_thread_pool_v1.hpp: every submit starts a *)
(* dynamic thread while workers_ has room.  A dynamic thread that waits    *)
(* 200 ms in vain leaves, but its std::thread object stays in workers_:    *)
(* the room it took is never given back.  Fixed threads wait again.        *)
(*                                                                         *)
(* stopFlag_ is stored outside queueMutex_: a worker may be between its    *)
(* false predicate and its sleep then ("deciding", it holds the mutex),    *)
(* and miss the notification until its 200 ms are over.                    *)
(***************************************************************************)
EXTENDS Naturals, Sequences, FiniteSets

CONSTANTS MaxThreads,  \* maxThreads_
          Clients,     \* the threads that call submit
          NTasks       \* bound: the number of tasks submitted; tasks are 1..NTasks

DynamicPoolV1Assumption == MaxThreads \in Nat /\ NTasks \in Nat

VARIABLES
    fixedCount_,  \* fixedThreadCount
    workers_,     \* workers_[i]: where the i-th thread started is: "loop", "ready",
                  \* "deciding", "waiting", "timedout", "running" or "left"
    taskQueue_,
    submits,      \* submits[c]: "out" of submit, "notifying" or "spawning"
    begun,        \* history: the tasks begun, in order
    lateBegun,    \* history: lateBegun[i]: how many of them thread i began too late
    pool          \* "alive", "stopping" (stopFlag_ stored), "joining", "destroyed"

vars == <<fixedCount_, workers_, taskQueue_, submits, begun, lateBegun, pool>>

Threads == DOMAIN workers_
stopFlag_ == pool # "alive"
isFixed(i) == i <= fixedCount_
Waiting == {i \in Threads : workers_[i] = "waiting"}
Number == Len(begun) + Len(taskQueue_)    \* of the tasks submitted so far

Init == /\ fixedCount_ \in 0..MaxThreads
        /\ workers_ = [i \in 1..fixedCount_ |-> "loop"]
        /\ taskQueue_ = <<>>
        /\ submits = [c \in Clients |-> "out"]
        /\ begun = <<>>
        /\ lateBegun = [i \in 1..MaxThreads |-> 0]
        /\ pool = "alive"

\* queueMutex_ is held across steps only by a thread that is about to sleep.
MutexFree == \A i \in Threads : workers_[i] # "deciding"

Goto(i, p) == workers_' = [workers_ EXCEPT ![i] = p]

\* Mutant: a fixed thread leaves as well when it waited in vain.
GiveUpFixed(i) ==
    /\ workers_[i] = "timedout" /\ MutexFree
    /\ ~stopFlag_ /\ taskQueue_ = <<>>
    /\ Goto(i, "left")
    /\ UNCHANGED <<fixedCount_, taskQueue_, submits, begun, lateBegun, pool>>

-------------------------------------------------------------------------------

Submit(c) ==
    /\ submits[c] = "out" /\ ~stopFlag_ /\ MutexFree
    /\ Number < NTasks
    /\ taskQueue_' = Append(taskQueue_, Number + 1)
    /\ submits' = [submits EXCEPT ![c] = "notifying"]
    /\ UNCHANGED <<fixedCount_, workers_, begun, lateBegun, pool>>

NotifyOne(c) ==
    /\ submits[c] = "notifying"
    /\ IF Waiting = {} THEN UNCHANGED workers_ ELSE \E i \in Waiting : Goto(i, "ready")
    /\ submits' = [submits EXCEPT ![c] = "spawning"]
    /\ UNCHANGED <<fixedCount_, taskQueue_, begun, lateBegun, pool>>

\* The test and the emplace_back, both under dynamicMutex_.
MaybeSpawnDynamicThread(c) ==
    /\ submits[c] = "spawning"
    /\ submits' = [submits EXCEPT ![c] = "out"]
    /\ workers_' = IF Len(workers_) < MaxThreads THEN Append(workers_, "loop") ELSE workers_
    /\ UNCHANGED <<fixedCount_, taskQueue_, begun, lateBegun, pool>>

\* while (!stopFlag_)
Loop(i) ==
    /\ workers_[i] = "loop"
    /\ Goto(i, IF stopFlag_ THEN "left" ELSE "ready")
    /\ UNCHANGED <<fixedCount_, taskQueue_, submits, begun, lateBegun, pool>>

\* wait_for: the predicate is false.
SeeIdle(i) ==
    /\ workers_[i] = "ready" /\ MutexFree
    /\ ~stopFlag_ /\ taskQueue_ = <<>>
    /\ Goto(i, "deciding")
    /\ UNCHANGED <<fixedCount_, taskQueue_, submits, begun, lateBegun, pool>>

Block(i) ==
    /\ workers_[i] = "deciding"
    /\ Goto(i, "waiting")
    /\ UNCHANGED <<fixedCount_, taskQueue_, submits, begun, lateBegun, pool>>

\* 200 ms passed: wait_for returns whatever the predicate says.
Timeout(i) ==
    /\ workers_[i] = "waiting"
    /\ Goto(i, "timedout")
    /\ UNCHANGED <<fixedCount_, taskQueue_, submits, begun, lateBegun, pool>>

SpuriousWakeup(i) ==
    /\ workers_[i] = "waiting"
    /\ Goto(i, "ready")
    /\ UNCHANGED <<fixedCount_, taskQueue_, submits, begun, lateBegun, pool>>

\* stopFlag_ && taskQueue_.empty(): break.
LeaveOnStop(i) ==
    /\ workers_[i] \in {"ready", "timedout"} /\ MutexFree
    /\ stopFlag_ /\ taskQueue_ = <<>>
    /\ Goto(i, "left")
    /\ UNCHANGED <<fixedCount_, taskQueue_, submits, begun, lateBegun, pool>>

Take(i) ==
    /\ workers_[i] \in {"ready", "timedout"} /\ MutexFree
    /\ taskQueue_ # <<>>
    /\ begun' = Append(begun, Head(taskQueue_))
    /\ taskQueue_' = Tail(taskQueue_)
    /\ lateBegun' = IF stopFlag_ THEN [lateBegun EXCEPT ![i] = @ + 1] ELSE lateBegun
    /\ Goto(i, "running")
    /\ UNCHANGED <<fixedCount_, submits, pool>>

\* Nothing to do: a dynamic thread leaves, a fixed one starts over.
GiveUp(i) ==
    /\ workers_[i] = "timedout" /\ MutexFree
    /\ ~stopFlag_ /\ taskQueue_ = <<>>
    /\ Goto(i, IF isFixed(i) THEN "loop" ELSE "left")
    /\ UNCHANGED <<fixedCount_, taskQueue_, submits, begun, lateBegun, pool>>

\* task() returns.
Return(i) ==
    /\ workers_[i] = "running"
    /\ Goto(i, "loop")
    /\ UNCHANGED <<fixedCount_, taskQueue_, submits, begun, lateBegun, pool>>

\* The destructor runs when no submit does.
StoreStop ==
    /\ ~stopFlag_
    /\ \A c \in Clients : submits[c] = "out"
    /\ pool' = "stopping"
    /\ UNCHANGED <<fixedCount_, workers_, taskQueue_, submits, begun, lateBegun>>

NotifyAll ==
    /\ pool = "stopping"
    /\ pool' = "joining"
    /\ workers_' = [i \in Threads |-> IF i \in Waiting THEN "ready" ELSE workers_[i]]
    /\ UNCHANGED <<fixedCount_, taskQueue_, submits, begun, lateBegun>>

JoinAll ==
    /\ pool = "joining"
    /\ \A i \in Threads : workers_[i] = "left"
    /\ pool' = "destroyed"
    /\ UNCHANGED <<fixedCount_, workers_, taskQueue_, submits, begun, lateBegun>>

WorkerLoop(i) ==
    i \in Threads /\ \/ Loop(i) \/ SeeIdle(i) \/ Block(i) \/ Timeout(i) \/ LeaveOnStop(i)
                     \/ Take(i) \/ GiveUp(i) \/ Return(i)

Next == \/ \E c \in Clients : Submit(c) \/ NotifyOne(c) \/ MaybeSpawnDynamicThread(c)
        \/ \E i \in Threads : WorkerLoop(i) \/ SpuriousWakeup(i)
        \/ StoreStop \/ NotifyAll \/ JoinAll

-------------------------------------------------------------------------------

\* Threads begin the tasks in the order of their submissions, none twice.
BegunInOrder == begun \o taskQueue_ = [i \in 1..Number |-> i]

\* The destructor drops what is queued: a thread begins at most one more task.
AtMostOneLateTask == \A i \in 1..MaxThreads : lateBegun[i] <= 1

\* Unless the pool is destroyed, every task begins, or there is no fixed thread
\* and workers_ is full of threads that left; and the destructor returns.
TasksBegin ==
    /\ taskQueue_ # <<>> ~>
          \/ taskQueue_ = <<>> \/ stopFlag_
          \/ fixedCount_ = 0 /\ Len(workers_) = MaxThreads
             /\ \A i \in Threads : workers_[i] = "left"
    /\ stopFlag_ ~> pool = "destroyed"
===============================================================================
