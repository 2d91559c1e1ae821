------------------------------ MODULE ThreadPool ------------------------------
(***************************************************************************)
(* thread/thread_pool.hpp: worker threads share a FIFO of tasks under      *)
(* queue_mutex and sleep on one condition variable; AddTask pushes under   *)
(* the mutex and notifies after releasing it; the destructor raises stop   *)
(* under the mutex, notifies everybody and joins.                          *)
(*                                                                         *)
(* Every access to tasks and stop is inside a critical section of          *)
(* queue_mutex, so a critical section is one step.  What the mutex does    *)
(* not cover are steps of their own: the gap between a push and its        *)
(* notify_one, between raising stop and notify_all, the run of a task, and *)
(* the wake-up of a sleeper, which must compete for the mutex again.       *)
(***************************************************************************)
EXTENDS Naturals, Sequences, FiniteSets

CONSTANTS Workers,  \* the threads the constructor starts
          Clients,  \* the threads that call AddTask from outside the pool
          Tasks,    \* the tasks ever submitted, each of them once
          NoTask

ASSUME ThreadPoolAssumption ==
    /\ IsFiniteSet(Workers) /\ Workers # {}
    /\ IsFiniteSet(Clients)
    /\ Workers \cap Clients = {}
    /\ NoTask \notin Tasks

VARIABLES
    wpc,        \* wpc[w]: "ready" (will lock the mutex), "waiting" (asleep on
                \* the condition), "running" (in task()) or "exited"
    current,    \* current[w]: the worker's local variable task
    tasks,      \* the queue
    stop,       \* the stop flag
    notifying,  \* threads in AddTask that pushed and have not notified yet
    dtor,       \* "alive", "stopping", "joining" or "destroyed"
    added,      \* history: the submitted tasks in the order of their pushes
    taken,      \* history: the tasks in the order the workers popped them
    finished    \* history: the tasks whose task() returned

vars == <<wpc, current, tasks, stop, notifying, dtor, added, taken, finished>>

Elements(s) == {s[i] : i \in 1..Len(s)}

WorkersAt(p) == {w \in Workers : wpc[w] = p}
Waiting == WorkersAt("waiting")
Ready   == WorkersAt("ready")
Running == WorkersAt("running")

ActiveTasks == {current[w] : w \in Running}

-------------------------------------------------------------------------------

Init == /\ wpc = [w \in Workers |-> "ready"]
        /\ current = [w \in Workers |-> NoTask]
        /\ tasks = <<>>
        /\ stop = FALSE
        /\ notifying = {}
        /\ dtor = "alive"
        /\ added = <<>>
        /\ taken = <<>>
        /\ finished = {}

\* A client may use the pool until its owner destroys it; the body of a task
\* may use it even later, while the destructor waits for that very task.
MayAdd(t) == \/ t \in Clients /\ dtor = "alive"
             \/ t \in Workers /\ wpc[t] = "running"

(***************************************************************************)
(* Bugs this code could plausibly have, each in the place of one action.   *)
(***************************************************************************)

\* AddTask puts the task in front of the queue.
AddTaskAtFront(t, x) ==
    /\ MayAdd(t)
    /\ t \notin notifying
    /\ x \notin Elements(added)
    /\ tasks' = <<x>> \o tasks
    /\ added' = Append(added, x)
    /\ notifying' = notifying \cup {t}
    /\ UNCHANGED <<wpc, current, stop, dtor, taken, finished>>

\* AddTask forgets to notify.
NotifyNobody(t) ==
    /\ t \in notifying
    /\ notifying' = notifying \ {t}
    /\ UNCHANGED <<wpc, current, tasks, stop, dtor, added, taken, finished>>

\* A worker leaves as soon as it sees stop, whatever is queued.
ExitOnStop(w) ==
    /\ wpc[w] = "ready"
    /\ stop
    /\ wpc' = [wpc EXCEPT ![w] = "exited"]
    /\ UNCHANGED <<current, tasks, stop, notifying, dtor, added, taken, finished>>

\* The local task outlives the iteration that ran it.
FinishKeepsTask(w) ==
    /\ wpc[w] = "running"
    /\ w \notin notifying
    /\ wpc' = [wpc EXCEPT ![w] = "ready"]
    /\ finished' = finished \cup {current[w]}
    /\ UNCHANGED <<current, tasks, stop, notifying, dtor, added, taken>>

\* wait does not look at stop: its predicate is !tasks.empty() alone.
BlockDespiteStop(w) ==
    /\ wpc[w] = "ready"
    /\ tasks = <<>>
    /\ wpc' = [wpc EXCEPT ![w] = "waiting"]
    /\ UNCHANGED <<current, tasks, stop, notifying, dtor, added, taken, finished>>

\* The destructor calls notify_one.
NotifyAllWakesOne ==
    /\ dtor = "stopping"
    /\ dtor' = "joining"
    /\ IF Waiting = {} THEN UNCHANGED wpc
       ELSE \E w \in Waiting : wpc' = [wpc EXCEPT ![w] = "ready"]
    /\ UNCHANGED <<current, tasks, stop, notifying, added, taken, finished>>

\* The destructor detaches the workers instead of joining them.
DetachAll ==
    /\ dtor = "joining"
    /\ dtor' = "destroyed"
    /\ UNCHANGED <<wpc, current, tasks, stop, notifying, added, taken, finished>>

-------------------------------------------------------------------------------

\* The critical section of AddTask; AddTask never looks at stop.
AddTask(t, x) ==
    /\ MayAdd(t)
    /\ t \notin notifying
    /\ x \notin Elements(added)
    /\ tasks' = Append(tasks, x)
    /\ added' = Append(added, x)
    /\ notifying' = notifying \cup {t}
    /\ UNCHANGED <<wpc, current, stop, dtor, taken, finished>>

\* condition.notify_one(), after the mutex is released: it wakes one sleeper,
\* whichever, or nobody when nobody sleeps at this instant.
NotifyOne(t) ==
    /\ t \in notifying
    /\ notifying' = notifying \ {t}
    /\ IF Waiting = {} THEN UNCHANGED wpc
       ELSE \E w \in Waiting : wpc' = [wpc EXCEPT ![w] = "ready"]
    /\ UNCHANGED <<current, tasks, stop, dtor, added, taken, finished>>

\* The predicate is false: wait releases the mutex and sleeps in one step.
Block(w) ==
    /\ wpc[w] = "ready"
    /\ ~stop /\ tasks = <<>>
    /\ wpc' = [wpc EXCEPT ![w] = "waiting"]
    /\ UNCHANGED <<current, tasks, stop, notifying, dtor, added, taken, finished>>

\* A condition variable may wake a thread nobody notified.
SpuriousWakeup(w) ==
    /\ wpc[w] = "waiting"
    /\ wpc' = [wpc EXCEPT ![w] = "ready"]
    /\ UNCHANGED <<current, tasks, stop, notifying, dtor, added, taken, finished>>

\* stop && tasks.empty(): the worker returns.
Exit(w) ==
    /\ wpc[w] = "ready"
    /\ stop /\ tasks = <<>>
    /\ wpc' = [wpc EXCEPT ![w] = "exited"]
    /\ UNCHANGED <<current, tasks, stop, notifying, dtor, added, taken, finished>>

\* The front of the queue is moved out and popped, stop or not.
Take(w) ==
    /\ wpc[w] = "ready"
    /\ tasks # <<>>
    /\ wpc' = [wpc EXCEPT ![w] = "running"]
    /\ current' = [current EXCEPT ![w] = Head(tasks)]
    /\ tasks' = Tail(tasks)
    /\ taken' = Append(taken, Head(tasks))
    /\ UNCHANGED <<stop, notifying, dtor, added, finished>>

\* task() returns and the loop body's local task dies.
Finish(w) ==
    /\ wpc[w] = "running"
    /\ w \notin notifying
    /\ wpc' = [wpc EXCEPT ![w] = "ready"]
    /\ current' = [current EXCEPT ![w] = NoTask]
    /\ finished' = finished \cup {current[w]}
    /\ UNCHANGED <<tasks, stop, notifying, dtor, added, taken>>

\* ~ThreadPool, first block.  No client is inside a member function then: a
\* call that overlaps the end of the object's lifetime is the caller's error.
BeginDestroy ==
    /\ dtor = "alive"
    /\ notifying \cap Clients = {}
    /\ stop' = TRUE
    /\ dtor' = "stopping"
    /\ UNCHANGED <<wpc, current, tasks, notifying, added, taken, finished>>

\* condition.notify_all(), outside the mutex.
NotifyAll ==
    /\ dtor = "stopping"
    /\ dtor' = "joining"
    /\ wpc' = [w \in Workers |-> IF w \in Waiting THEN "ready" ELSE wpc[w]]
    /\ UNCHANGED <<current, tasks, stop, notifying, added, taken, finished>>

\* The loop of joins ends when every worker has returned.
JoinAll ==
    /\ dtor = "joining"
    /\ \A w \in Workers : wpc[w] = "exited"
    /\ dtor' = "destroyed"
    /\ UNCHANGED <<wpc, current, tasks, stop, notifying, added, taken, finished>>

\* A destroyed pool does nothing more.
Destroyed == dtor = "destroyed" /\ UNCHANGED vars

Worker(w) == Block(w) \/ Exit(w) \/ Take(w) \/ Finish(w) \/ NotifyOne(w)

Next == \/ \E t \in Clients \cup Workers, x \in Tasks : AddTask(t, x)
        \/ \E c \in Clients : NotifyOne(c)
        \/ \E w \in Workers : Worker(w) \/ SpuriousWakeup(w)
        \/ BeginDestroy \/ NotifyAll \/ JoinAll
        \/ Destroyed

Spec == Init /\ [][Next]_vars

\* Threads that can run do run and tasks return.  Nobody has to submit a task
\* or to destroy the pool, and no sleeper has to wake by itself.
FairSpec == /\ Spec
            /\ \A w \in Workers : WF_vars(Worker(w))
            /\ \A c \in Clients : WF_vars(NotifyOne(c))
            /\ WF_vars(NotifyAll)
            /\ WF_vars(JoinAll)

-------------------------------------------------------------------------------

\* Every variable has its type, and a worker holds a task exactly while it runs.
TypeOK == /\ wpc \in [Workers -> {"ready", "waiting", "running", "exited"}]
          /\ current \in [Workers -> Tasks \cup {NoTask}]
          /\ \A w \in Workers : current[w] = NoTask <=> wpc[w] # "running"
          /\ tasks \in Seq(Tasks)
          /\ stop \in BOOLEAN
          /\ notifying \subseteq Clients \cup Workers
          /\ dtor \in {"alive", "stopping", "joining", "destroyed"}
          /\ added \in Seq(Tasks)
          /\ taken \in Seq(Tasks)
          /\ finished \subseteq Tasks

\* No submission is lost, duplicated or overtaken on its way through the queue,
\* however pushes and pops of several threads interleave: what was pushed is
\* what was popped followed by what is still queued (AddTask against the pop).
FifoOrder == added = taken \o tasks

\* A task is queued, running in one worker, or finished, never two of these:
\* no task runs twice, not even when a woken worker loses the race for it.
AtMostOnce ==
    \A w \in Workers : wpc[w] = "running" =>
        /\ current[w] \notin finished
        /\ current[w] \notin Elements(tasks)
        /\ \A v \in Workers : v # w => current[v] # current[w]

\* ~ThreadPool returns only after every submitted task has run, also those that
\* tasks submitted while the destructor was already joining and other workers
\* had already left.
ShutdownDrains ==
    dtor = "destroyed" => /\ tasks = <<>>
                          /\ Elements(added) \subseteq finished

\* The question the comment at AddTask's notify_one asks ("notify_one or
\* notify_all?"): one wake-up per push is enough.  While a worker sleeps, every
\* queued task has a thread that will come for it, an awake worker or the
\* pending notify_one of a push, although a notify_one may hit a worker that
\* finds the queue emptied by another one and may come when nobody sleeps.
NoIdleWorker ==
    Waiting # {} =>
        Len(tasks) <= Cardinality(Ready) + Cardinality(notifying)

\* Once notify_all was called no worker sleeps again, so that no join can hang:
\* stop is raised under the mutex and a worker that checked before it is asleep.
NobodySleepsThroughStop == dtor \in {"joining", "destroyed"} => Waiting = {}

\* Why AtMostOnce and ShutdownDrains hold: a submitted task is in exactly one
\* place, and the last worker can only leave an empty queue behind, since a task
\* that submits during the shutdown runs in a worker that has yet to look again.
Placement ==
    /\ \A i, j \in 1..Len(tasks) : tasks[i] = tasks[j] => i = j
    /\ Elements(tasks) \cap finished = {}
    /\ Elements(added) =
          Elements(tasks) \cup finished \cup ActiveTasks

Shutdown ==
    /\ dtor = "alive" <=> ~stop
    /\ \A w \in Workers : wpc[w] = "exited" => stop
    /\ (\A w \in Workers : wpc[w] = "exited") => tasks = <<>>
    /\ dtor = "destroyed" => \A w \in Workers : wpc[w] = "exited"

\* The destructor returns once the tasks do.
DestructorReturns == stop ~> dtor = "destroyed"

\* The pool keeps the promise of TaskPool, its fairness included.
TP == INSTANCE TaskPool WITH
        Slots   <- Workers,
        pending <- tasks,
        running <- current,
        closed  <- dtor = "destroyed"

ImplementsTaskPool == TP!FairSpec
===============================================================================
