----------------------------- MODULE RejectingPool -----------------------------
(***************************************************************************)
(* The pools with one queue, one mutex and one condition variable that all *)
(* workers share.  They differ in how the destructor stores the stop flag, *)
(* in whether enqueue rejects tasks of a pool that stops, and in the order *)
(* of the queue: see Pool17 to PoolTaskQueue below.                        *)
(*                                                                         *)
(* In Pool17 stop_ may change inside a critical section, so that the       *)
(* sections that read it and then act on what they read are split there:   *)
(* a worker between its false predicate and its sleep ("deciding"), a      *)
(* submitter between its test of stop_ and its push ("pushing").  Both     *)
(* still hold the mutex.                                                   *)
(***************************************************************************)
EXTENDS Naturals, Sequences, FiniteSets

CONSTANTS Workers, Clients, Tasks, NoTask,
          Priority    \* the priority of each task

RejectingPoolAssumption ==
    /\ IsFiniteSet(Workers) /\ Workers # {}
    /\ Workers \cap Clients = {}
    /\ NoTask \notin Tasks
    /\ Priority \in [Tasks -> Nat]

\* The pools, each by what its class does: the worker, enqueue and the destructor.
Pool17 == [locked |-> FALSE, rejects |-> TRUE, order |-> "fifo"]
Pool11 == [locked |-> TRUE, rejects |-> TRUE, order |-> "fifo"]
PoolSelf == [locked |-> TRUE, rejects |-> TRUE, order |-> "fifo"]
PoolWithPri == [locked |-> TRUE, rejects |-> TRUE, order |-> "greatest"]
PoolVer2 == [locked |-> TRUE, rejects |-> FALSE, order |-> "smallest"]
PoolTimer == [locked |-> TRUE, rejects |-> FALSE, order |-> "fifo"]
PoolTaskQueue == [locked |-> TRUE, rejects |-> FALSE, order |-> "fifo"]
Kinds == {Pool17, Pool11, PoolSelf, PoolWithPri, PoolVer2, PoolTimer, PoolTaskQueue}

VARIABLES
    kind,       \* which pool
    wpc,        \* "ready", "deciding", "waiting", "running" or "exited"
    current,    \* current[w]: the worker's local variable task
    epc,        \* epc[t]: where thread t is in enqueue, "out" of it, "pushing"
                \* (saw ~stop_, holds the mutex) or "notifying"
    offered,    \* offered[t]: the task thread t is enqueueing
    tasks_, stop_,
    dtor,       \* "alive", "stopping", "joining" or "destroyed"
    accepted,   \* history: the tasks pushed
    rejected,   \* history: the tasks enqueue threw away with an exception
    finished,   \* history: the tasks that ran
    missed      \* history: the workers that were deciding when notify_all ran

vars == <<kind, wpc, current, epc, offered, tasks_, stop_, dtor,
          accepted, rejected, finished, missed>>

Threads == Workers \cup Clients
Elements(s) == {s[i] : i \in 1..Len(s)}
WorkersAt(p) == {w \in Workers : wpc[w] = p}
Waiting == WorkersAt("waiting")

\* queue_mutex_ is held across steps only in the two split sections.
MutexFree == /\ WorkersAt("deciding") = {}
             /\ \A t \in Threads : epc[t] # "pushing"

\* Which of the queued tasks front() or top() may be; that of a heap is any of
\* the first in order.
Before(x, y) == CASE kind.order = "greatest" -> Priority[x] > Priority[y]
                  [] kind.order = "smallest" -> Priority[x] < Priority[y]
                  [] OTHER                   -> FALSE
Tops == IF kind.order = "fifo"
        THEN {1} \cap DOMAIN tasks_
        ELSE {i \in DOMAIN tasks_ : \A j \in DOMAIN tasks_ : ~Before(tasks_[j], tasks_[i])}
Without(s, i) == SubSeq(s, 1, i - 1) \o SubSeq(s, i + 1, Len(s))

Init == /\ kind \in Kinds
        /\ wpc = [w \in Workers |-> "ready"]
        /\ current = [w \in Workers |-> NoTask]
        /\ epc = [t \in Threads |-> "out"]
        /\ offered = [t \in Threads |-> NoTask]
        /\ tasks_ = <<>>
        /\ stop_ = FALSE
        /\ dtor = "alive"
        /\ accepted = {} /\ rejected = {} /\ finished = {} /\ missed = {}

-------------------------------------------------------------------------------

(***************************************************************************)
(* Bugs this code could plausibly have, each in the place of one action.   *)
(***************************************************************************)

\* A worker leaves as soon as it sees stop_, whatever is queued.
ExitOnStop(w) ==
    /\ wpc[w] = "ready" /\ MutexFree
    /\ stop_
    /\ wpc' = [wpc EXCEPT ![w] = "exited"]
    /\ UNCHANGED <<kind, current, epc, offered, tasks_, stop_, dtor,
                   accepted, rejected, finished, missed>>

\* wait does not look at stop_: its predicate is !tasks_.empty() alone.
SeeIdleIgnoringStop(w) ==
    /\ wpc[w] = "ready" /\ MutexFree
    /\ tasks_ = <<>>
    /\ wpc' = [wpc EXCEPT ![w] = "deciding"]
    /\ UNCHANGED <<kind, current, epc, offered, tasks_, stop_, dtor,
                   accepted, rejected, finished, missed>>

-------------------------------------------------------------------------------

\* enqueue, called by a client of a live pool or from inside a running task.
MayEnqueue(t, x) ==
    /\ \/ t \in Clients /\ dtor = "alive"
       \/ t \in Workers /\ wpc[t] = "running"
    /\ epc[t] = "out" /\ MutexFree
    /\ x \notin accepted \cup rejected /\ \A u \in Threads : offered[u] # x

\* The mutex is locked and stop_ was still false, or is not looked at.
EnterEnqueue(t, x) ==
    /\ MayEnqueue(t, x)
    /\ stop_ => ~kind.rejects
    /\ epc' = [epc EXCEPT ![t] = "pushing"]
    /\ offered' = [offered EXCEPT ![t] = x]
    /\ UNCHANGED <<kind, wpc, current, tasks_, stop_, dtor,
                   accepted, rejected, finished, missed>>

\* throw "enqueue on stopped ThreadPool".
Reject(t, x) ==
    /\ MayEnqueue(t, x)
    /\ stop_ /\ kind.rejects
    /\ rejected' = rejected \cup {x}
    /\ UNCHANGED <<kind, wpc, current, epc, offered, tasks_, stop_, dtor,
                   accepted, finished, missed>>

\* The push, by now perhaps into a pool that stops, and the unlock.
Push(t) ==
    /\ epc[t] = "pushing"
    /\ tasks_' = Append(tasks_, offered[t])
    /\ accepted' = accepted \cup {offered[t]}
    /\ epc' = [epc EXCEPT ![t] = "notifying"]
    /\ offered' = [offered EXCEPT ![t] = NoTask]
    /\ UNCHANGED <<kind, wpc, current, stop_, dtor, rejected, finished, missed>>

\* condition_.notify_one() and the return of the future.
NotifyOne(t) ==
    /\ epc[t] = "notifying"
    /\ epc' = [epc EXCEPT ![t] = "out"]
    /\ IF Waiting = {} THEN UNCHANGED wpc
       ELSE \E w \in Waiting : wpc' = [wpc EXCEPT ![w] = "ready"]
    /\ UNCHANGED <<kind, current, offered, tasks_, stop_, dtor,
                   accepted, rejected, finished, missed>>

\* The predicate of wait is false; the mutex stays locked.
SeeIdle(w) ==
    /\ wpc[w] = "ready" /\ MutexFree
    /\ ~stop_ /\ tasks_ = <<>>
    /\ wpc' = [wpc EXCEPT ![w] = "deciding"]
    /\ UNCHANGED <<kind, current, epc, offered, tasks_, stop_, dtor,
                   accepted, rejected, finished, missed>>

\* wait releases the mutex and sleeps, whatever happened to stop_ meanwhile.
Block(w) ==
    /\ wpc[w] = "deciding"
    /\ wpc' = [wpc EXCEPT ![w] = "waiting"]
    /\ UNCHANGED <<kind, current, epc, offered, tasks_, stop_, dtor,
                   accepted, rejected, finished, missed>>

SpuriousWakeup(w) ==
    /\ wpc[w] = "waiting"
    /\ wpc' = [wpc EXCEPT ![w] = "ready"]
    /\ UNCHANGED <<kind, current, epc, offered, tasks_, stop_, dtor,
                   accepted, rejected, finished, missed>>

Exit(w) ==
    /\ wpc[w] = "ready" /\ MutexFree
    /\ stop_ /\ tasks_ = <<>>
    /\ wpc' = [wpc EXCEPT ![w] = "exited"]
    /\ UNCHANGED <<kind, current, epc, offered, tasks_, stop_, dtor,
                   accepted, rejected, finished, missed>>

Take(w) ==
    /\ wpc[w] = "ready" /\ MutexFree
    /\ \E i \in Tops : /\ tasks_' = Without(tasks_, i)
                       /\ current' = [current EXCEPT ![w] = tasks_[i]]
    /\ wpc' = [wpc EXCEPT ![w] = "running"]
    /\ UNCHANGED <<kind, epc, offered, stop_, dtor, accepted, rejected, finished, missed>>

\* task() returns; in Pool17 it may throw as well, catch (...) treats both alike.
Finish(w) ==
    /\ wpc[w] = "running" /\ epc[w] = "out"
    /\ wpc' = [wpc EXCEPT ![w] = "ready"]
    /\ current' = [current EXCEPT ![w] = NoTask]
    /\ finished' = finished \cup {current[w]}
    /\ UNCHANGED <<kind, epc, offered, tasks_, stop_, dtor, accepted, rejected, missed>>

\* stop_.store(true), in Pool17 without the mutex: also while somebody holds it.
StoreStop ==
    /\ dtor = "alive"
    /\ kind.locked => MutexFree
    /\ \A c \in Clients : epc[c] = "out"
    /\ stop_' = TRUE
    /\ dtor' = "stopping"
    /\ UNCHANGED <<kind, wpc, current, epc, offered, tasks_,
                   accepted, rejected, finished, missed>>

NotifyAll ==
    /\ dtor = "stopping"
    /\ dtor' = "joining"
    /\ wpc' = [w \in Workers |-> IF w \in Waiting THEN "ready" ELSE wpc[w]]
    /\ missed' = WorkersAt("deciding")
    /\ UNCHANGED <<kind, current, epc, offered, tasks_, stop_, accepted, rejected, finished>>

JoinAll ==
    /\ dtor = "joining"
    /\ \A w \in Workers : wpc[w] = "exited"
    /\ dtor' = "destroyed"
    /\ UNCHANGED <<kind, wpc, current, epc, offered, tasks_, stop_,
                   accepted, rejected, finished, missed>>

Enqueue(t) == Push(t) \/ NotifyOne(t)
Worker(w) == SeeIdle(w) \/ Block(w) \/ Exit(w) \/ Take(w) \/ Finish(w)

Next == \/ \E t \in Threads, x \in Tasks : EnterEnqueue(t, x) \/ Reject(t, x)
        \/ \E t \in Threads : Enqueue(t)
        \/ \E w \in Workers : Worker(w) \/ SpuriousWakeup(w)
        \/ StoreStop \/ NotifyAll \/ JoinAll

Spec == Init /\ [][Next]_vars

\* Threads that can run do, tasks return, and a thread that keeps asking for the
\* mutex gets it in the end, which takes strong fairness.
FairSpec == /\ Spec
            /\ \A w \in Workers : SF_vars(Worker(w))
            /\ \A t \in Threads : WF_vars(Enqueue(t))
            /\ WF_vars(NotifyAll) /\ WF_vars(JoinAll)

-------------------------------------------------------------------------------

TypeOK ==
    /\ \A w \in Workers : current[w] = NoTask <=> wpc[w] # "running"
    /\ tasks_ \in Seq(Tasks)
    /\ stop_ \in BOOLEAN
    /\ accepted \subseteq Tasks /\ rejected \subseteq Tasks /\ finished \subseteq Tasks

\* Every accepted task is queued, running or finished, and a rejected one is
\* none of these, also when stop_ is stored between the test and the push of
\* enqueue: a caller that gets an exception never has its task run.
RejectedNeverRuns ==
    /\ accepted \cap rejected = {}
    /\ accepted = Elements(tasks_) \cup finished
                     \cup {current[w] : w \in WorkersAt("running")}

\* If the destructor returns, every accepted task ran, even one accepted after
\* stop_ was stored.
ShutdownDrains == dtor = "destroyed" => accepted \subseteq finished

\* Every accepted task runs, also in a pool whose destructor hangs.
EveryAcceptedTaskRuns == \A x \in Tasks : x \in accepted ~> x \in finished

\* The destructor returns unless a wake-up was lost between a worker's predicate
\* and its sleep (thread_pool_17.hpp:42), which needs a stop outside the mutex.
DestructorReturnsUnlessMissed ==
    dtor = "joining" /\ (missed = {} \/ kind.locked) ~> dtor = "destroyed"
===============================================================================
