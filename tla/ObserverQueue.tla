----------------------------- MODULE ObserverQueue -----------------------------
(***************************************************************************)
(* design/mode/mixed/producer_consumer_with_observer.cpp: one producer, a  *)
(* TaskQueue and consumers that observe it.  After each push the queue     *)
(* calls onNotified of every observer, which is cv_.notify_one() WITHOUT   *)
(* the consumer's cvMutex_; main stops the consumers after the producer    *)
(* returned, with no mutex either, and never joins them.                   *)
(*                                                                         *)
(* The predicate of wait reads stopFlag_ and then the queue.  A consumer   *)
(* that found stopFlag_ false is "reading", one between the false          *)
(* predicate and its sleep "deciding".                                     *)
(***************************************************************************)
EXTENDS Naturals, Sequences

CONSTANTS NConsumers,  \* consumers are 1..NConsumers, in the order of addObserver
          MaxTasks     \* the number of tasks that producer pushes (10)

ObserverQueueAssumption == NConsumers \in Nat \ {0} /\ MaxTasks \in Nat

VARIABLES
    cpc,        \* "ready", "reading", "deciding", "waiting", "testing", "draining",
                \* "exited"
    queue_,
    pushed,     \* how many tasks the producer pushed so far
    popped,     \* history: the tasks popped, in order
    observer,   \* the next observer to notify of a push, 0 when there is none
    stopped,    \* stopped[c]: "no", "stored" (stopFlag_ is set) or "notified"
    lost        \* history: the consumers that miss a notification: it came while
                \* they were reading or deciding, and they have neither seen work
                \* nor woken since

vars == <<cpc, queue_, pushed, popped, observer, stopped, lost>>

Consumers == 1..NConsumers
stopFlag_(c) == stopped[c] # "no"
hasTask == queue_ # <<>>

Init == /\ cpc = [c \in Consumers |-> "ready"]
        /\ queue_ = <<>>
        /\ pushed = 0
        /\ popped = <<>>
        /\ observer = 0
        /\ stopped = [c \in Consumers |-> "no"]
        /\ lost = {}

Goto(c, p) == cpc' = [cpc EXCEPT ![c] = p]

\* The effect on consumer c of a notification of its condition variable.
Notified(c) ==
    /\ cpc' = [cpc EXCEPT ![c] = IF @ = "waiting" THEN "ready" ELSE @]
    /\ lost' = IF cpc[c] \in {"reading", "deciding"} THEN lost \cup {c} ELSE lost \ {c}

-------------------------------------------------------------------------------

\* pushTask: the push under queueMutex_, then notifyObservers.
PushTask ==
    /\ observer = 0 /\ pushed < MaxTasks
    /\ pushed' = pushed + 1
    /\ queue_' = Append(queue_, pushed + 1)
    /\ observer' = 1
    /\ UNCHANGED <<cpc, popped, stopped, lost>>

\* One iteration of the loop of notifyObservers: obs->onNotified().
NotifyObserver ==
    /\ observer \in Consumers
    /\ Notified(observer)
    /\ observer' = IF observer = NConsumers THEN 0 ELSE observer + 1
    /\ UNCHANGED <<queue_, pushed, popped, stopped>>

\* The predicate's first read.
ReadStop(c) ==
    /\ cpc[c] = "ready"
    /\ Goto(c, IF stopFlag_(c) THEN "testing" ELSE "reading")
    /\ UNCHANGED <<queue_, pushed, popped, observer, stopped, lost>>

\* The second, under queueMutex_: the predicate is false, whatever stopFlag_ is now.
SeeIdle(c) ==
    /\ cpc[c] = "reading"
    /\ ~hasTask
    /\ Goto(c, "deciding")
    /\ UNCHANGED <<queue_, pushed, popped, observer, stopped, lost>>

Block(c) ==
    /\ cpc[c] = "deciding"
    /\ Goto(c, "waiting")
    /\ UNCHANGED <<queue_, pushed, popped, observer, stopped, lost>>

SpuriousWakeup(c) ==
    /\ cpc[c] = "waiting"
    /\ Goto(c, "ready")
    /\ lost' = lost \ {c}
    /\ UNCHANGED <<queue_, pushed, popped, observer, stopped>>

\* The predicate is true; the task it saw may be gone at the next test.
SeeWork(c) ==
    /\ cpc[c] = "reading"
    /\ hasTask
    /\ Goto(c, "testing")
    /\ lost' = lost \ {c}
    /\ UNCHANGED <<queue_, pushed, popped, observer, stopped>>

\* if (stopFlag_ && !queue_->hasTask()) break; a stopFlag_ that is read as true is
\* still true when the queue is read.
TestStop(c) ==
    /\ cpc[c] = "testing"
    /\ Goto(c, IF stopFlag_(c) /\ ~hasTask THEN "exited" ELSE "draining")
    /\ UNCHANGED <<queue_, pushed, popped, observer, stopped, lost>>

\* while (queue_->popTask(task)): the front, which the consumer prints.
PopTask(c) ==
    /\ cpc[c] = "draining"
    /\ hasTask
    /\ popped' = Append(popped, Head(queue_))
    /\ queue_' = Tail(queue_)
    /\ UNCHANGED <<cpc, pushed, observer, stopped, lost>>

PopNothing(c) ==
    /\ cpc[c] = "draining"
    /\ ~hasTask
    /\ Goto(c, "ready")
    /\ UNCHANGED <<queue_, pushed, popped, observer, stopped, lost>>

\* main joined the producer; it stops the consumers one after the other.
StoreStop(c) ==
    /\ pushed = MaxTasks /\ observer = 0
    /\ stopped[c] = "no"
    /\ \A b \in 1..c - 1 : stopped[b] = "notified"
    /\ stopped' = [stopped EXCEPT ![c] = "stored"]
    /\ UNCHANGED <<cpc, queue_, pushed, popped, observer, lost>>

NotifyStop(c) ==
    /\ stopped[c] = "stored"
    /\ stopped' = [stopped EXCEPT ![c] = "notified"]
    /\ Notified(c)
    /\ UNCHANGED <<queue_, pushed, popped, observer>>

Run(c) == \/ ReadStop(c) \/ SeeIdle(c) \/ SeeWork(c) \/ Block(c)
          \/ TestStop(c) \/ PopTask(c) \/ PopNothing(c)
Main == NotifyObserver \/ \E c \in Consumers : StoreStop(c) \/ NotifyStop(c)

Next == PushTask \/ Main \/ \E c \in Consumers : Run(c) \/ SpuriousWakeup(c)

-------------------------------------------------------------------------------

\* The consumers together take the tasks in the order of the pushes, each once.
PoppedInOrder == popped \o queue_ = [i \in 1..pushed |-> i]

\* A task waits for ever only if every consumer missed its notification, and a
\* consumer that did not miss the notification of stop leaves.
ConsumedUnlessLost ==
    /\ hasTask ~> ~hasTask \/ lost = Consumers
    /\ \A c \in Consumers : stopped[c] = "notified" ~> cpc[c] = "exited" \/ c \in lost
===============================================================================
