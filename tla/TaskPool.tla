------------------------------- MODULE TaskPool -------------------------------
(***************************************************************************)
(* What a thread pool promises its users, without threads, locks or        *)
(* condition variables: a submitted task waits in a FIFO queue and is      *)
(* started once, in a free slot; the pool closes only when nothing is      *)
(* queued and nothing runs.  ThreadPool implements this.                   *)
(***************************************************************************)
EXTENDS Naturals, Sequences

CONSTANTS Tasks,  \* the tasks users may submit, each of them once
          Slots,  \* as many tasks may run at the same time
          NoTask

VARIABLES pending,   \* submitted and not started, oldest first
          running,   \* running[s]: the task started in slot s, or NoTask
          finished,  \* run to completion
          closed     \* the pool is gone

vars == <<pending, running, finished, closed>>

Known == {pending[i] : i \in 1..Len(pending)} \cup finished
            \cup {running[s] : s \in Slots}

Init == /\ pending = <<>>
        /\ running = [s \in Slots |-> NoTask]
        /\ finished = {}
        /\ closed = FALSE

Submit(x) == /\ ~closed
             /\ x \notin Known
             /\ pending' = Append(pending, x)
             /\ UNCHANGED <<running, finished, closed>>

Start(s) == /\ pending # <<>>
            /\ running[s] = NoTask
            /\ running' = [running EXCEPT ![s] = Head(pending)]
            /\ pending' = Tail(pending)
            /\ UNCHANGED <<finished, closed>>

Finish(s) == /\ running[s] # NoTask
             /\ finished' = finished \cup {running[s]}
             /\ running' = [running EXCEPT ![s] = NoTask]
             /\ UNCHANGED <<pending, closed>>

Close == /\ pending = <<>>
         /\ \A s \in Slots : running[s] = NoTask
         /\ closed' = TRUE
         /\ UNCHANGED <<pending, running, finished>>

Next == \/ \E x \in Tasks : Submit(x)
        \/ \E s \in Slots : Start(s) \/ Finish(s)
        \/ Close

Spec == Init /\ [][Next]_vars

\* A queued task is started when a slot is free, and a started task returns.
FairSpec == /\ Spec
            /\ WF_vars(\E s \in Slots : Start(s))
            /\ \A s \in Slots : WF_vars(Finish(s))
===============================================================================
