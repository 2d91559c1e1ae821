----------------------------- MODULE StealingPool -----------------------------
(***************************************************************************)
(* craft/performance/thread_rob.cpp: a deque and a mutex per worker, and   *)
(* no condition variable.  submit deals the tasks round robin; a worker    *)
(* takes from the front of its own deque and, when that is empty, tries    *)
(* the others' from a random one on and takes from the back.  Critical     *)
(* sections are one step.                                                  *)
(***************************************************************************)
EXTENDS Naturals, Sequences, FiniteSets

CONSTANTS NThreads,  \* num_threads; workers are 0..NThreads - 1, as in the code
          NTasks     \* bound: the number of tasks submitted; tasks are 1..NTasks

StealingPoolAssumption == NThreads \in Nat \ {0} /\ NTasks \in Nat

VARIABLES
    lpc,          \* worker_loop: "loop", "local", "stealing", "running", "exited"
    scan,         \* scan[w]: the indices steal_remote_task has yet to try, in order
    task_queue,
    next_worker,  \* also the number of tasks submitted; far below 2^64
    taken,        \* history: taken[w]: the tasks w took, in order
    lateTake,     \* history: lateTake[w]: how many of them after the stop
    stop, joined

vars == <<lpc, scan, task_queue, next_worker, taken, lateTake, stop, joined>>

Workers == 0..NThreads - 1
Elements(s) == {s[i] : i \in 1..Len(s)}

Init == /\ lpc = [w \in Workers |-> "loop"]
        /\ scan = [w \in Workers |-> <<>>]
        /\ task_queue = [w \in Workers |-> <<>>]
        /\ next_worker = 0
        /\ taken = [w \in Workers |-> <<>>]
        /\ lateTake = [w \in Workers |-> 0]
        /\ stop = FALSE
        /\ joined = FALSE

\* The task moves from a deque into the local task of worker w, which calls it.
Moved(w, x) ==
    /\ taken' = [taken EXCEPT ![w] = Append(@, x)]
    /\ lateTake' = IF stop THEN [lateTake EXCEPT ![w] = @ + 1] ELSE lateTake
    /\ lpc' = [lpc EXCEPT ![w] = "running"]

\* Mutant: the stolen task is copied and stays in the deque.
StealCopy(w) ==
    /\ lpc[w] = "stealing" /\ scan[w] # <<>> /\ Head(scan[w]) # w
    /\ LET q == task_queue[Head(scan[w])]
       IN q # <<>> /\ Moved(w, q[Len(q)])
    /\ scan' = [scan EXCEPT ![w] = <<>>]
    /\ UNCHANGED <<task_queue, next_worker, stop, joined>>

-------------------------------------------------------------------------------

\* submit: fetch_add, then push_back under the mutex of that worker. One step, since
\* only submit reads next_worker, and one thread submits and destroys the pool.
Submit ==
    /\ ~stop /\ next_worker < NTasks
    /\ next_worker' = next_worker + 1
    /\ task_queue' = [task_queue EXCEPT ![next_worker % NThreads] = Append(@, next_worker + 1)]
    /\ UNCHANGED <<lpc, scan, taken, lateTake, stop, joined>>

\* while (!stop.load())
Loop(w) ==
    /\ lpc[w] = "loop"
    /\ lpc' = [lpc EXCEPT ![w] = IF stop THEN "exited" ELSE "local"]
    /\ UNCHANGED <<scan, task_queue, next_worker, taken, lateTake, stop, joined>>

\* get_local_task finds a task.
GetLocalTask(w) ==
    /\ lpc[w] = "local"
    /\ task_queue[w] # <<>>
    /\ Moved(w, Head(task_queue[w]))
    /\ task_queue' = [task_queue EXCEPT ![w] = Tail(@)]
    /\ UNCHANGED <<scan, next_worker, stop, joined>>

\* It finds none: steal_remote_task starts at a random index.
StartSteal(w) ==
    /\ lpc[w] = "local"
    /\ task_queue[w] = <<>>
    /\ \E start \in Workers :
          scan' = [scan EXCEPT ![w] = [i \in 1..NThreads |-> (start + i - 1) % NThreads]]
    /\ lpc' = [lpc EXCEPT ![w] = "stealing"]
    /\ UNCHANGED <<task_queue, next_worker, taken, lateTake, stop, joined>>

\* The lock is got and the deque is not empty: its last task is taken.
Steal(w) ==
    /\ lpc[w] = "stealing" /\ scan[w] # <<>> /\ Head(scan[w]) # w
    /\ LET idx == Head(scan[w])
           q == task_queue[idx]
       IN /\ q # <<>>
          /\ Moved(w, q[Len(q)])
          /\ task_queue' = [task_queue EXCEPT ![idx] = SubSeq(@, 1, Len(@) - 1)]
    /\ scan' = [scan EXCEPT ![w] = <<>>]
    /\ UNCHANGED <<next_worker, stop, joined>>

\* The index is the worker's own, or try_lock fails, as it may when another thread
\* is in there, or nothing is queued.
TryNext(w) ==
    /\ lpc[w] = "stealing" /\ scan[w] # <<>>
    /\ scan' = [scan EXCEPT ![w] = Tail(@)]
    /\ UNCHANGED <<lpc, task_queue, next_worker, taken, lateTake, stop, joined>>

\* Nothing to steal: yield.
Yield(w) ==
    /\ lpc[w] = "stealing" /\ scan[w] = <<>>
    /\ lpc' = [lpc EXCEPT ![w] = "loop"]
    /\ UNCHANGED <<scan, task_queue, next_worker, taken, lateTake, stop, joined>>

\* task() returns.
Return(w) ==
    /\ lpc[w] = "running"
    /\ lpc' = [lpc EXCEPT ![w] = "loop"]
    /\ UNCHANGED <<scan, task_queue, next_worker, taken, lateTake, stop, joined>>

StoreStop ==
    /\ ~stop
    /\ stop' = TRUE
    /\ UNCHANGED <<lpc, scan, task_queue, next_worker, taken, lateTake, joined>>

JoinAll ==
    /\ stop /\ ~joined
    /\ \A w \in Workers : lpc[w] = "exited"
    /\ joined' = TRUE
    /\ UNCHANGED <<lpc, scan, task_queue, next_worker, taken, lateTake, stop>>

WorkerLoop(w) == \/ Loop(w) \/ GetLocalTask(w) \/ StartSteal(w)
                 \/ Steal(w) \/ TryNext(w) \/ Yield(w) \/ Return(w)

Next == Submit \/ StoreStop \/ JoinAll \/ \E w \in Workers : WorkerLoop(w)

-------------------------------------------------------------------------------

\* However owners and thieves interleave, a task is in one deque or was taken by
\* one worker, once; each deque keeps the order of its submissions.
TakenOnce ==
    LET held == [w \in Workers |-> task_queue[w] \o taken[w]]
    IN /\ UNION {Elements(held[w]) : w \in Workers} = 1..next_worker
       /\ \A w \in Workers : Cardinality(Elements(held[w])) = Len(held[w])
       /\ \A v, w \in Workers : v # w => Elements(held[v]) \cap Elements(held[w]) = {}
       /\ \A w \in Workers : \A i \in 2..Len(task_queue[w]) :
             task_queue[w][i - 1] < task_queue[w][i]

\* The destructor drops what is queued: each worker starts at most one more task.
AtMostOneLateTask == \A w \in Workers : lateTake[w] <= 1

\* Unless the pool is destroyed every task is taken, by its owner when nobody
\* steals it; and the destructor returns: no worker ever sleeps.
TasksAreTaken ==
    /\ \A w \in Workers : task_queue[w] # <<>> ~> task_queue[w] = <<>> \/ stop
    /\ stop ~> joined
===============================================================================
