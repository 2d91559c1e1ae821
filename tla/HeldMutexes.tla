----------------------------- MODULE HeldMutexes ------------------------------
(***************************************************************************)
(* Two programs whose threads may wait for ever.                           *)
(*                                                                         *)
(* craft/mem/trace.cpp: every delete of the program is replaced by one     *)
(* that removes the pointer from a map, and news with a file and a line    *)
(* enter it.  The map's own nodes and buckets are freed by the same        *)
(* delete, with the tracker's mutex held.                                  *)
(*                                                                         *)
(* craft/dead_lock/example.cpp: two threads take two mutexes, in opposite  *)
(* orders or with std::lock, which takes both or waits.                    *)
(***************************************************************************)
EXTENDS Naturals, Sequences, FiniteSets

CONSTANTS Threads, Pointers,
          Buckets,   \* how many entries the first array of buckets serves
          Nobody

VARIABLES
    memory,        \* the pointers that malloc has handed out
    tracked,       \* history: those of them that came from the tracking new
    allocations,
    mutex,
    pc, arg

memoryVars == <<memory, tracked, allocations, mutex, pc, arg>>

-------------------------------------------------------------------------------

MemoryInit == /\ memory = {} /\ tracked = {}
              /\ allocations = {}
              /\ mutex = Nobody
              /\ pc = [t \in Threads |-> "idle"]
              /\ arg = [t \in Threads |-> Nobody]

\* malloc, in either new: pointers come from main, so one thread deletes each once.
New(t, p, how) ==
    /\ pc[t] = "idle" /\ p \notin memory
    /\ memory' = memory \cup {p}
    /\ tracked' = IF how = "add" THEN tracked \cup {p} ELSE tracked
    /\ pc' = [pc EXCEPT ![t] = how]
    /\ arg' = [arg EXCEPT ![t] = p]
    /\ UNCHANGED <<allocations, mutex>>

\* The map grows: the old array of buckets is deleted, and delete wants the mutex.
Add(t) ==
    /\ pc[t] = "add" /\ mutex = Nobody
    /\ allocations' = allocations \cup {arg[t]}
    /\ IF Cardinality(allocations) = Buckets
       THEN pc' = [pc EXCEPT ![t] = "stuck"] /\ mutex' = t
       ELSE pc' = [pc EXCEPT ![t] = "idle"] /\ UNCHANGED mutex
    /\ UNCHANGED <<memory, tracked, arg>>

Delete(t, p) ==
    /\ pc[t] = "idle" /\ p \in memory
    /\ \A u \in Threads : pc[u] # "idle" => arg[u] # p
    /\ pc' = [pc EXCEPT ![t] = "remove"]
    /\ arg' = [arg EXCEPT ![t] = p]
    /\ UNCHANGED <<memory, tracked, allocations, mutex>>

\* remove: the entry's node is deleted with the mutex held; a pointer without an
\* entry is only reported.
Remove(t) ==
    /\ pc[t] = "remove" /\ mutex = Nobody
    /\ IF arg[t] \in allocations
       THEN /\ mutex' = t
            /\ allocations' = allocations \ {arg[t]}
            /\ pc' = [pc EXCEPT ![t] = "stuck"]
       ELSE /\ pc' = [pc EXCEPT ![t] = "free"]
            /\ UNCHANGED <<mutex, allocations>>
    /\ UNCHANGED <<memory, tracked, arg>>

Free(t) ==
    /\ pc[t] = "free"
    /\ memory' = memory \ {arg[t]}
    /\ tracked' = tracked \ {arg[t]}
    /\ pc' = [pc EXCEPT ![t] = "idle"]
    /\ UNCHANGED <<allocations, mutex, arg>>

Proceed(t) == Add(t) \/ Remove(t) \/ Free(t)

MemoryNext == \E t \in Threads :
                  \/ Proceed(t)
                  \/ \E p \in Pointers : New(t, p, "add") \/ New(t, p, "idle") \/ Delete(t, p)

-------------------------------------------------------------------------------

\* What report lists is what was allocated with tracking and not deleted: the
\* deletion that would free a tracked pointer never gets that far.
ReportIsRight ==
    \A p \in Pointers :
        (\A t \in Threads : arg[t] = p => pc[t] = "idle") =>
            (p \in allocations <=> p \in tracked)

\* A deletion ends, unless the mutex is held by one of a tracked pointer, or by an
\* allocation that made the map grow.
DeletesEndUnlessTracked ==
    \A t \in Threads :
        pc[t] = "remove" ~> pc[t] = "idle" \/ \E u \in Threads : pc[u] = "stuck"

-------------------------------------------------------------------------------

VARIABLES version, owner, step

lockVars == <<version, owner, step>>

Pair == 1..2
Mutexes == {"A", "B"}

\* What each thread takes, one step after the other.
Order(t) == IF version = "locked together" THEN <<{"A", "B"}>>
            ELSE IF t = 1 THEN <<{"A"}, {"B"}>> ELSE <<{"B"}, {"A"}>>

LocksInit == /\ version \in {"deadlock", "locked together"}
             /\ owner = [m \in Mutexes |-> 0]
             /\ step = [t \in Pair |-> 1]

Lock(t) == /\ step[t] \in DOMAIN Order(t)
           /\ \A m \in Order(t)[step[t]] : owner[m] = 0
           /\ owner' = [m \in Mutexes |-> IF m \in Order(t)[step[t]] THEN t ELSE owner[m]]
           /\ step' = [step EXCEPT ![t] = @ + 1]
           /\ UNCHANGED version

\* The guards are destroyed when the thread ends.
End(t) == /\ \E m \in Mutexes : owner[m] = t
          /\ step[t] \notin DOMAIN Order(t)
          /\ owner' = [m \in Mutexes |-> IF owner[m] = t THEN 0 ELSE owner[m]]
          /\ UNCHANGED <<version, step>>

LocksNext == \E t \in Pair : Lock(t) \/ End(t)

-------------------------------------------------------------------------------

Crossed == owner = [m \in Mutexes |-> IF m = "A" THEN 1 ELSE 2] /\ step = [t \in Pair |-> 2]

\* main's joins return, unless each thread holds what the other one waits for; with
\* std::lock that does not happen.
JoinsReturnUnlessCrossed ==
    /\ TRUE ~> Crossed \/ \A t \in Pair : step[t] > Len(Order(t)) /\ owner["A"] # t
    /\ [](version = "locked together" => ~Crossed)
===============================================================================
