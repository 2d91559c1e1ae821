------------------------ MODULE DynamicThreadPoolProofs ------------------------
(***************************************************************************)
(* What the run of DynamicThreadPool checks with two submitters and two    *)
(* tasks, proved for every number of submitters, of fixed threads and of   *)
(* tasks, and for every maximum.                                           *)
(*                                                                         *)
(* The atomics are the numbers of threads at certain places of their code, *)
(* so the proofs count: a step of a thread moves it from one place to      *)
(* another, and no other thread moves.                                     *)
(***************************************************************************)
EXTENDS DynamicThreadPool, FiniteSetTheorems, SequenceTheorems, TLAPS

(***************************************************************************)
(* Counting threads.                                                       *)
(***************************************************************************)

\* The threads that are at one of the places P.
In(f, P) == {w \in Threads : f[w] \in P}

LEMMA InIsFinite ==
    ASSUME NEW f, NEW P
    PROVE  IsFiniteSet(In(f, P)) /\ Cardinality(In(f, P)) \in Nat
  <1>1. IsFiniteSet(Threads)
    BY DynamicThreadPoolAssumption, FS_Interval DEF Threads
  <1>2. QED  BY <1>1, FS_Subset, FS_CardinalityType DEF In

\* One thread moves, from f[w] to g[w].
LEMMA OneMoves ==
    ASSUME NEW f, NEW g, NEW w \in Threads, \A v \in Threads \ {w} : g[v] = f[v],
           NEW P
    PROVE  /\ Cardinality(In(f, P)) \in Nat
           /\ (f[w] \in P <=> g[w] \in P) => Cardinality(In(g, P)) = Cardinality(In(f, P))
           /\ (f[w] \notin P /\ g[w] \in P) =>
                 Cardinality(In(g, P)) = Cardinality(In(f, P)) + 1
           /\ (f[w] \in P /\ g[w] \notin P) =>
                 Cardinality(In(g, P)) = Cardinality(In(f, P)) - 1
  <1>1. IsFiniteSet(In(f, P)) /\ Cardinality(In(f, P)) \in Nat
    BY InIsFinite
  <1>2. (f[w] \in P <=> g[w] \in P) => In(g, P) = In(f, P)
    BY DEF In
  <1>3. ASSUME f[w] \notin P, g[w] \in P
        PROVE  Cardinality(In(g, P)) = Cardinality(In(f, P)) + 1
    <2>1. In(g, P) = In(f, P) \cup {w} /\ w \notin In(f, P)
      BY <1>3 DEF In
    <2>2. QED  BY <1>1, <2>1, FS_AddElement
  <1>4. ASSUME f[w] \in P, g[w] \notin P
        PROVE  Cardinality(In(g, P)) = Cardinality(In(f, P)) - 1
    <2>1. In(g, P) = In(f, P) \ {w} /\ w \in In(f, P)
      BY <1>4 DEF In
    <2>2. QED  BY <1>1, <2>1, FS_RemoveElement
  <1>5. QED  BY <1>1, <1>2, <1>3, <1>4

(***************************************************************************)
(* submit starts at most one thread for a task, so the threads never get   *)
(* more than 1..fixedCount_ + MaxTasks: whoever is inside submit has a     *)
(* task to its name that no thread was started for.                        *)
(***************************************************************************)

Inside(e) == {s \in Submitters : e[s] # "out"}

RoomForThreads ==
    /\ workers_ \in Nat /\ submitted \in 0..MaxTasks
    /\ epc \in [Submitters -> {"out", "notifying", "measuring", "checking", "comparing"}]
    /\ fixedCount_ <= workers_
    /\ workers_ - fixedCount_ + Cardinality(Inside(epc)) <= submitted

LEMMA InsideIsFinite ==
    ASSUME NEW e
    PROVE  IsFiniteSet(Inside(e)) /\ Cardinality(Inside(e)) \in Nat
  BY DynamicThreadPoolAssumption, FS_Subset, FS_CardinalityType DEF Inside

LEMMA RoomStep == RoomForThreads /\ [Next]_vars => RoomForThreads'
  <1> SUFFICES ASSUME RoomForThreads, [Next]_vars  PROVE RoomForThreads'
    OBVIOUS
  <1> USE DEF RoomForThreads
  <1>1. /\ fixedCount_ \in Nat /\ MaxTasks \in Nat
        /\ IsFiniteSet(Inside(epc)) /\ Cardinality(Inside(epc)) \in Nat
    BY InsideIsFinite, DynamicThreadPoolAssumption
  <1>2. ASSUME NEW s \in Submitters, Push(s)
        PROVE  RoomForThreads'
    <2>1. Inside(epc') = Inside(epc) \cup {s} /\ s \notin Inside(epc)
      BY <1>2 DEF Push, Inside
    <2>2. Cardinality(Inside(epc')) = Cardinality(Inside(epc)) + 1
      BY <1>1, <2>1, FS_AddElement
    <2>3. QED  BY <1>1, <1>2, <2>2 DEF Push, Inside
  <1>3. ASSUME NEW s \in Submitters, epc[s] # "out",
               epc' = [epc EXCEPT ![s] = "out"], workers_' \in {workers_, workers_ + 1},
               UNCHANGED submitted
        PROVE  RoomForThreads'
    <2>1. Inside(epc') = Inside(epc) \ {s} /\ s \in Inside(epc)
      BY <1>3 DEF Inside
    <2>2. Cardinality(Inside(epc')) = Cardinality(Inside(epc)) - 1
      BY <1>1, <2>1, FS_RemoveElement
    <2>3. QED  BY <1>1, <1>3, <2>2 DEF Inside
  <1>4. ASSUME NEW s \in Submitters, NEW p \in {"measuring", "checking", "comparing"},
               epc[s] # "out", epc' = [epc EXCEPT ![s] = p],
               UNCHANGED <<workers_, submitted>>
        PROVE  RoomForThreads'
    <2>1. Inside(epc') = Inside(epc)
      BY <1>4 DEF Inside
    <2>2. QED  BY <1>4, <2>1 DEF Inside
  <1>5. ASSUME NEW s \in Submitters, Submit(s)
        PROVE  RoomForThreads'
    BY <1>3, <1>4, <1>5
       DEF Submit, NotifyOne, Measure, CheckActive, Spawn, NoSpawn, Leave, tvars
  <1>6. ASSUME UNCHANGED <<workers_, epc, submitted>>
        PROVE  RoomForThreads'
    BY <1>6 DEF Inside
  <1>7. ASSUME NEW w \in Workers, Step(w) \/ SpuriousWakeup(w)
        PROVE  UNCHANGED <<workers_, epc, submitted>>
    BY <1>7 DEF Step, CountActive, CountIdle, Loop, SeeIdle, Block, Timeout, GiveUp,
                SeeStop, Take, CountBusy, CountInactive, SpuriousWakeup, svars, tvars
  <1>8. ASSUME StoreStop \/ NotifyAll \/ JoinAll \/ UNCHANGED vars
        PROVE  UNCHANGED <<workers_, epc, submitted>>
    BY <1>8 DEF StoreStop, NotifyAll, JoinAll, vars, svars, tvars
  <1>9. QED  BY <1>2, <1>5, <1>6, <1>7, <1>8 DEF Next

(***************************************************************************)
(* Types.                                                                  *)
(***************************************************************************)

Places == {"starting", "counted", "loop", "ready", "deciding", "waiting", "late",
           "taken", "running", "leaving", "left", "exited"}

Types ==
    /\ wpc \in [Threads -> Places]
    /\ pendingTasks \in [Submitters -> 0..MaxTasks]
    /\ taskQueue_ \in Seq(1..MaxTasks) /\ started \in Seq(1..MaxTasks)
    /\ Len(started) + Len(taskQueue_) = submitted
    /\ stopFlag_ \in BOOLEAN /\ blind \in BOOLEAN
    /\ dtor \in {"alive", "stopping", "joining", "destroyed"}
    /\ late \in [Threads -> Nat]
    /\ \A w \in Threads : w > workers_ => wpc[w] = "starting"

LEMMA WorkersAreThreads ==
    ASSUME RoomForThreads
    PROVE  /\ Workers \subseteq Threads
           /\ Threads \subseteq Nat
           /\ \A w \in Threads : (w \in Workers) <=> ~(w > workers_)
           /\ workers_ \in Nat /\ fixedCount_ \in Nat /\ MaxTasks \in Nat
  <1>1. Cardinality(Inside(epc)) \in Nat
    BY InsideIsFinite
  <1>2. QED
    BY <1>1, DynamicThreadPoolAssumption DEF RoomForThreads, Workers, Threads

LEMMA HeadMoves ==
    ASSUME NEW S, NEW a \in Seq(S), NEW b \in Seq(S), b # <<>>
    PROVE  /\ Tail(b) \in Seq(S) /\ Len(Tail(b)) = Len(b) - 1
           /\ Append(a, Head(b)) \in Seq(S) /\ Len(Append(a, Head(b))) = Len(a) + 1
  OBVIOUS

LEMMA TypesStep ==
    RoomForThreads /\ RoomForThreads' /\ Types /\ [Next]_vars => Types'
  <1> SUFFICES ASSUME RoomForThreads, RoomForThreads', Types, [Next]_vars
               PROVE  Types'
    OBVIOUS
  <1> USE DEF Types
  <1>1. /\ Workers \subseteq Threads
        /\ Threads \subseteq Nat
        /\ \A w \in Threads : (w \in Workers) <=> ~(w > workers_)
        /\ workers_ \in Nat /\ fixedCount_ \in Nat /\ MaxTasks \in Nat
    BY WorkersAreThreads
  <1>2. submitted \in 0..MaxTasks /\ Len(started) \in Nat /\ Len(taskQueue_) \in 0..MaxTasks
    BY <1>1 DEF RoomForThreads
  <1>3. ASSUME NEW w \in Workers, NEW q \in Places, wpc' = [wpc EXCEPT ![w] = q],
               UNCHANGED <<workers_, pendingTasks, taskQueue_, started, submitted, stopFlag_,
                           blind, dtor, late>>
        PROVE  Types'
    <2>1. \A v \in Threads : wpc'[v] = IF v = w THEN q ELSE wpc[v]
      BY <1>3
    <2>2. \A v \in Threads : v > workers_ => v # w
      BY <1>1
    <2>3. wpc' \in [Threads -> Places]
      BY <1>3
    <2>4. QED  BY <1>3, <2>1, <2>2, <2>3
  <1>4. ASSUME NEW s \in Submitters, Push(s)
        PROVE  Types'
    <2>1. submitted + 1 \in 1..MaxTasks
      BY <1>1, <1>2, <1>4 DEF Push
    <2>2. /\ Append(taskQueue_, submitted + 1) \in Seq(1..MaxTasks)
          /\ Len(Append(taskQueue_, submitted + 1)) = Len(taskQueue_) + 1
      BY <2>1
    <2>3. QED  BY <1>2, <1>4, <2>2 DEF Push, avars
  <1>5. ASSUME NEW s \in Submitters, NotifyOne(s)
        PROVE  Types'
    <2>1. UNCHANGED <<workers_, pendingTasks, taskQueue_, started, submitted, stopFlag_,
                      blind, dtor, late>>
      BY <1>5 DEF NotifyOne, tvars
    <2>2. CASE UNCHANGED wpc
      BY <2>1, <2>2
    <2>3. CASE \E w \in WorkersAt("waiting") : Goes(w, "waiting", "ready")
      <3>1. PICK w \in Workers : Goes(w, "waiting", "ready")
        BY <2>3 DEF WorkersAt
      <3>2. wpc' = [wpc EXCEPT ![w] = "ready"] /\ "ready" \in Places
        BY <3>1 DEF Goes, Places
      <3>3. QED  BY <1>3, <2>1, <3>2
    <2>4. QED  BY <1>5, <2>2, <2>3 DEF NotifyOne
  <1>6. ASSUME NEW s \in Submitters, Measure(s) \/ CheckActive(s) \/ NoSpawn(s)
        PROVE  Types'
    <2>1. /\ UNCHANGED <<workers_, wpc, taskQueue_, started, submitted, stopFlag_, dtor, late>>
          /\ blind' \in BOOLEAN
      BY <1>6 DEF Measure, CheckActive, NoSpawn, tvars
    <2>2. \E n \in 0..MaxTasks : pendingTasks' = [pendingTasks EXCEPT ![s] = n]
                                 \/ pendingTasks' = pendingTasks
      BY <1>1, <1>2, <1>6 DEF Measure, CheckActive, NoSpawn, Leave
    <2>3. QED  BY <2>1, <2>2
  <1>7. ASSUME NEW s \in Submitters, Spawn(s)
        PROVE  Types'
    <2>1. workers_' = workers_ + 1 /\ UNCHANGED <<wpc, blind, tvars, stopFlag_, dtor>>
      BY <1>7 DEF Spawn
    <2>2. pendingTasks' = [pendingTasks EXCEPT ![s] = 0] /\ 0 \in 0..MaxTasks
      BY <1>1, <1>7 DEF Spawn, Leave
    <2>3. \A w \in Threads : w > workers_ + 1 => w > workers_
      BY <1>1
    <2>4. QED  BY <2>1, <2>2, <2>3 DEF tvars
  <1>8. ASSUME NEW w \in Workers,
               \/ CountActive(w) \/ CountIdle(w) \/ Loop(w) \/ SeeIdle(w) \/ Block(w)
               \/ Timeout(w) \/ GiveUp(w) \/ SeeStop(w) \/ CountBusy(w) \/ CountInactive(w)
               \/ SpuriousWakeup(w)
        PROVE  Types'
    <2>1. UNCHANGED <<workers_, pendingTasks, taskQueue_, started, submitted, stopFlag_,
                      blind, dtor, late>>
      BY <1>8 DEF CountActive, CountIdle, Loop, SeeIdle, Block, Timeout, GiveUp, SeeStop,
                  CountBusy, CountInactive, SpuriousWakeup, svars, tvars
    <2>2. \E q \in Places : wpc' = [wpc EXCEPT ![w] = q]
      BY <1>8 DEF CountActive, CountIdle, Loop, SeeIdle, Block, Timeout, GiveUp, SeeStop,
                  CountBusy, CountInactive, SpuriousWakeup, Goes, Places
    <2>3. QED  BY <1>3, <2>1, <2>2
  <1>9. ASSUME NEW w \in Workers, Take(w)
        PROVE  Types'
    <2>1. /\ Tail(taskQueue_) \in Seq(1..MaxTasks)
          /\ Append(started, Head(taskQueue_)) \in Seq(1..MaxTasks)
          /\ Len(Tail(taskQueue_)) = Len(taskQueue_) - 1
          /\ Len(Append(started, Head(taskQueue_))) = Len(started) + 1
      <3>1. taskQueue_ \in Seq(1..MaxTasks) /\ taskQueue_ # <<>>
        BY <1>9 DEF Take
      <3>2. QED  BY <3>1, HeadMoves
    <2>2. late' \in [Threads -> Nat]
      <3>1. late' = IF stopFlag_ THEN [late EXCEPT ![w] = late[w] + 1] ELSE late
        BY <1>9 DEF Take
      <3>2. w \in Threads /\ late[w] + 1 \in Nat
        BY <1>1
      <3>3. QED  BY <3>1, <3>2
    <2>3. wpc' = [wpc EXCEPT ![w] = "taken"]
      BY <1>9 DEF Take, Goes
    <2>4. /\ started' = Append(started, Head(taskQueue_)) /\ taskQueue_' = Tail(taskQueue_)
          /\ UNCHANGED <<workers_, pendingTasks, submitted, stopFlag_, blind, dtor>>
      BY <1>9 DEF Take, svars
    <2>5. w \in Threads /\ \A v \in Threads : v > workers_ => v # w
      BY <1>1
    <2>6. wpc' \in [Threads -> Places] /\ \A v \in Threads : v > workers_ => wpc'[v] = wpc[v]
      BY <2>3, <2>5 DEF Places
    <2>7. Len(started') + Len(taskQueue_') = submitted'
      <3> DEFINE m == Len(started)  n == Len(taskQueue_)
      <3>1. m \in Nat /\ n \in Nat /\ m + n = submitted
        BY <1>2
      <3>2. Len(started') = m + 1 /\ Len(taskQueue_') = n - 1 /\ submitted' = submitted
        BY <2>1, <2>4
      <3> HIDE DEF m, n
      <3>3. QED  BY <3>1, <3>2
    <2>8. QED  BY <2>1, <2>2, <2>4, <2>6, <2>7
  <1>10. ASSUME StoreStop
         PROVE  Types'
    BY <1>10 DEF StoreStop, svars, tvars
  <1>11. ASSUME NotifyAll
         PROVE  Types'
    <2>1. wpc' = [w \in Threads |-> IF wpc[w] = "waiting" THEN "ready" ELSE wpc[w]]
      BY <1>11 DEF NotifyAll
    <2>2. /\ UNCHANGED <<workers_, pendingTasks, taskQueue_, started, submitted, stopFlag_,
                         blind, late>>
          /\ dtor' = "joining"
      BY <1>11 DEF NotifyAll, svars, tvars
    <2>3. QED  BY <2>1, <2>2 DEF Places
  <1>12. ASSUME JoinAll \/ UNCHANGED vars
         PROVE  Types'
    BY <1>12 DEF JoinAll, vars, svars, tvars
  <1>13. QED
    BY <1>4, <1>5, <1>6, <1>7, <1>8, <1>9, <1>10, <1>11, <1>12 DEF Next, Submit, Step

(***************************************************************************)
(* Where a worker's step leads.                                            *)
(***************************************************************************)

LEMMA StepMovesOne ==
    ASSUME RoomForThreads, Types, NEW w \in Workers, Step(w) \/ SpuriousWakeup(w)
    PROVE  /\ w \in Threads /\ wpc[w] \in Places /\ wpc'[w] \in Places
           /\ wpc' = [wpc EXCEPT ![w] = wpc'[w]]
           /\ UNCHANGED <<workers_, svars, submitted, stopFlag_, dtor>>
  <1>1. w \in Threads /\ wpc \in [Threads -> Places]
    BY WorkersAreThreads DEF Types
  <1>2. \E q \in Places : wpc' = [wpc EXCEPT ![w] = q]
    BY DEF Step, CountActive, CountIdle, Loop, SeeIdle, Block, Timeout, GiveUp, SeeStop,
           Take, CountBusy, CountInactive, SpuriousWakeup, Goes, Places
  <1>3. UNCHANGED <<workers_, svars, submitted, stopFlag_, dtor>>
    BY DEF Step, CountActive, CountIdle, Loop, SeeIdle, Block, Timeout, GiveUp, SeeStop,
           Take, CountBusy, CountInactive, SpuriousWakeup, tvars
  <1>4. QED  BY <1>1, <1>2, <1>3

\* The other steps of the pool move nobody, or somebody from "waiting" to "ready".
LEMMA OthersWake ==
    ASSUME RoomForThreads, Types,
           \/ \E s \in Submitters : Push(s) \/ Submit(s)
           \/ StoreStop \/ NotifyAll \/ JoinAll \/ UNCHANGED vars
    PROVE  /\ \A w \in Threads : wpc'[w] = wpc[w] \/ (wpc[w] = "waiting" /\ wpc'[w] = "ready")
           /\ UNCHANGED avars /\ UNCHANGED late
  <1>1. CASE \E s \in Submitters : NotifyOne(s)
    <2>1. UNCHANGED <<avars, late>>
      BY <1>1 DEF NotifyOne, tvars
    <2>2. CASE UNCHANGED wpc
      BY <2>1, <2>2
    <2>3. CASE \E v \in WorkersAt("waiting") : Goes(v, "waiting", "ready")
      <3>1. PICK v \in Workers : wpc[v] = "waiting" /\ wpc' = [wpc EXCEPT ![v] = "ready"]
        BY <2>3 DEF WorkersAt, Goes
      <3>2. \A w \in Threads : wpc'[w] = IF w = v THEN "ready" ELSE wpc[w]
        BY <3>1 DEF Types
      <3>3. QED  BY <2>1, <3>1, <3>2
    <2>4. QED  BY <1>1, <2>2, <2>3 DEF NotifyOne
  <1>2. CASE NotifyAll
    <2>1. wpc' = [w \in Threads |-> IF wpc[w] = "waiting" THEN "ready" ELSE wpc[w]]
      BY <1>2 DEF NotifyAll
    <2>2. UNCHANGED avars /\ UNCHANGED late
      BY <1>2 DEF NotifyAll, tvars
    <2>3. QED  BY <2>1, <2>2
  <1>3. CASE \/ \E s \in Submitters : Push(s) \/ Measure(s) \/ CheckActive(s) \/ Spawn(s)
                                      \/ NoSpawn(s)
             \/ StoreStop \/ JoinAll \/ UNCHANGED vars
    <2>1. UNCHANGED <<wpc, avars, late>>
      BY <1>3 DEF Push, Measure, CheckActive, Spawn, NoSpawn, StoreStop, JoinAll, vars, tvars
    <2>2. QED  BY <2>1
  <1>4. QED  BY <1>1, <1>2, <1>3 DEF Submit

(***************************************************************************)
(* The counters: activeThreads_ and idleThreads_ are the numbers of        *)
(* threads that have counted themselves and have not taken it back.        *)
(***************************************************************************)

Idle == {"loop", "ready", "deciding", "waiting", "late", "taken", "leaving"}
Active == Idle \cup {"counted", "running", "left"}

CountersAreExact ==
    /\ activeThreads_ = Cardinality(In(wpc, Active))
    /\ idleThreads_ = Cardinality(In(wpc, Idle))

LEMMA CountersStep ==
    RoomForThreads /\ Types /\ CountersAreExact /\ [Next]_vars => CountersAreExact'
  <1> SUFFICES ASSUME RoomForThreads, Types, CountersAreExact, [Next]_vars
               PROVE  CountersAreExact'
    OBVIOUS
  <1> USE DEF CountersAreExact
  <1>1. ASSUME NEW w \in Workers, Step(w) \/ SpuriousWakeup(w)
        PROVE  CountersAreExact'
    <2> DEFINE p == wpc[w]
               q == wpc'[w]
    <2>1. /\ w \in Threads /\ p \in Places /\ q \in Places
          /\ wpc' = [wpc EXCEPT ![w] = q] /\ wpc \in [Threads -> Places]
      BY <1>1, StepMovesOne DEF Types
    <2>2. \A v \in Threads \ {w} : wpc'[v] = wpc[v]
      BY <2>1
    <2>3. /\ Cardinality(In(wpc, Active)) \in Nat
          /\ Cardinality(In(wpc, Idle)) \in Nat
      BY InIsFinite
    <2>4. /\ (p \in Active <=> q \in Active) =>
                Cardinality(In(wpc', Active)) = Cardinality(In(wpc, Active))
          /\ (p \notin Active /\ q \in Active) =>
                Cardinality(In(wpc', Active)) = Cardinality(In(wpc, Active)) + 1
          /\ (p \in Active /\ q \notin Active) =>
                Cardinality(In(wpc', Active)) = Cardinality(In(wpc, Active)) - 1
      BY ONLY <2>1, <2>2, OneMoves
    <2>5. /\ (p \in Idle <=> q \in Idle) =>
                Cardinality(In(wpc', Idle)) = Cardinality(In(wpc, Idle))
          /\ (p \notin Idle /\ q \in Idle) =>
                Cardinality(In(wpc', Idle)) = Cardinality(In(wpc, Idle)) + 1
          /\ (p \in Idle /\ q \notin Idle) =>
                Cardinality(In(wpc', Idle)) = Cardinality(In(wpc, Idle)) - 1
      BY ONLY <2>1, <2>2, OneMoves
    <2>6. CASE CountActive(w)
      <3>1. p = "starting" /\ q = "counted"
        BY <2>1, <2>6 DEF CountActive, Goes
      <3>2. activeThreads_' = activeThreads_ + 1 /\ idleThreads_' = idleThreads_
        BY <2>6 DEF CountActive
      <3>3. QED  BY <2>4, <2>5, <3>1, <3>2 DEF Active, Idle
    <2>7. CASE CountIdle(w)
      <3>1. p \in {"counted", "running"} /\ q = "loop"
        BY <2>1, <2>7 DEF CountIdle, Goes
      <3>2. activeThreads_' = activeThreads_ /\ idleThreads_' = idleThreads_ + 1
        BY <2>7 DEF CountIdle
      <3>3. QED  BY <2>4, <2>5, <3>1, <3>2 DEF Active, Idle
    <2>8. CASE CountBusy(w)
      <3>1. p \in {"taken", "leaving"} /\ q \in {"running", "left"}
        BY <2>1, <2>8 DEF CountBusy, Goes
      <3>2. activeThreads_' = activeThreads_ /\ idleThreads_' = idleThreads_ - 1
        BY <2>8 DEF CountBusy
      <3>3. QED  BY <2>4, <2>5, <3>1, <3>2 DEF Active, Idle
    <2>9. CASE CountInactive(w)
      <3>1. p = "left" /\ q = "exited"
        BY <2>1, <2>9 DEF CountInactive, Goes
      <3>2. activeThreads_' = activeThreads_ - 1 /\ idleThreads_' = idleThreads_
        BY <2>9 DEF CountInactive
      <3>3. QED  BY <2>4, <2>5, <3>1, <3>2 DEF Active, Idle
    <2>10. CASE \/ Loop(w) \/ SeeIdle(w) \/ Block(w) \/ Timeout(w) \/ GiveUp(w)
               \/ SeeStop(w) \/ Take(w) \/ SpuriousWakeup(w)
      <3>1. p \in Idle /\ q \in Idle
        BY <2>1, <2>10 DEF Loop, SeeIdle, Block, Timeout, GiveUp, SeeStop, Take,
                          SpuriousWakeup, Goes, Idle
      <3>2. UNCHANGED <<activeThreads_, idleThreads_>>
        BY <2>10 DEF Loop, SeeIdle, Block, Timeout, GiveUp, SeeStop, Take,
                    SpuriousWakeup, avars
      <3>3. QED  BY <2>4, <2>5, <3>1, <3>2 DEF Active
    <2>11. QED  BY <1>1, <2>6, <2>7, <2>8, <2>9, <2>10 DEF Step
  <1>2. ASSUME \/ \E s \in Submitters : Push(s) \/ Submit(s)
               \/ StoreStop \/ NotifyAll \/ JoinAll \/ UNCHANGED vars
        PROVE  CountersAreExact'
    <2>1. /\ \A w \in Threads : wpc'[w] = wpc[w] \/ (wpc[w] = "waiting" /\ wpc'[w] = "ready")
          /\ UNCHANGED avars
      BY <1>2, OthersWake
    <2>2. In(wpc', Active) = In(wpc, Active) /\ In(wpc', Idle) = In(wpc, Idle)
      BY <2>1 DEF In, Active, Idle
    <2>3. QED  BY <2>1, <2>2 DEF avars
  <1>3. QED  BY <1>1, <1>2 DEF Next

(***************************************************************************)
(* How many threads live: they were started and have not exited.           *)
(***************************************************************************)

Live == workers_ - Cardinality(In(wpc, {"exited"}))

LEMMA ActiveAreLive ==
    ASSUME RoomForThreads, Types
    PROVE  /\ Cardinality(In(wpc, Active)) <= Live /\ Live \in Int
           /\ Live <= workers_
           /\ WorkersAt("starting") = {} => Cardinality(In(wpc, Active)) = Live
  <1> DEFINE A == In(wpc, Active)
             E == In(wpc, {"exited"})
  <1>1. /\ IsFiniteSet(A) /\ Cardinality(A) \in Nat
        /\ IsFiniteSet(E) /\ Cardinality(E) \in Nat
    BY InIsFinite
  <1>2. A \cap E = {} /\ Cardinality(A \cap E) = 0
    <2>1. A \cap E = {}
      BY DEF In, Active, Idle
    <2>2. QED  BY <2>1, FS_EmptySet
  <1>3. Cardinality(A \cup E) = Cardinality(A) + Cardinality(E)
    <2>1. Cardinality(A \cup E) = Cardinality(A) + Cardinality(E) - Cardinality(A \cap E)
      BY <1>1, FS_Union
    <2>2. QED  BY <1>1, <1>2, <2>1
  <1>4. IsFiniteSet(Workers) /\ Cardinality(Workers) = workers_ /\ workers_ \in Nat
    <2>1. workers_ \in Nat
      BY DEF RoomForThreads
    <2>2. QED  BY <2>1, FS_Interval DEF Workers
  <1>5. A \cup E \subseteq Workers
    BY WorkersAreThreads DEF In, Active, Idle, Types
  <1>6. Cardinality(A \cup E) <= workers_
    BY <1>4, <1>5, FS_Subset
  <1>7. ASSUME WorkersAt("starting") = {}
        PROVE  A \cup E = Workers
    <2>1. \A w \in Workers : w \in Threads /\ wpc[w] \in Places /\ wpc[w] # "starting"
      BY <1>7, WorkersAreThreads DEF WorkersAt, Types
    <2>2. QED  BY <1>5, <2>1 DEF In, Active, Idle, Places
  <1>8. WorkersAt("starting") = {} => Cardinality(A) + Cardinality(E) = workers_
    BY <1>3, <1>4, <1>7
  <1>9. Cardinality(A) + Cardinality(E) <= workers_
    BY <1>3, <1>6
  <1>10. Live = workers_ - Cardinality(E)
    BY DEF Live
  <1> HIDE DEF A, E
  <1>11. /\ Cardinality(A) <= Live /\ Live \in Int /\ Live <= workers_
         /\ WorkersAt("starting") = {} => Cardinality(A) = Live
    BY <1>1, <1>4, <1>8, <1>9, <1>10
  <1>12. QED  BY <1>11 DEF A

(***************************************************************************)
(* The maximum.  While a submitter compares, dynamicMutex_ keeps the       *)
(* others from starting a thread, so what CheckActive found still holds.   *)
(***************************************************************************)

Critical == {"checking", "comparing"}

OneInside == \A s, t \in Submitters : epc[s] \in Critical /\ epc[t] \in Critical => s = t

LiveBelowMax ==
    ~blind => /\ Live <= maxThreads_ \/ workers_ = fixedCount_
              /\ \A s \in Submitters : epc[s] = "comparing" => Live < maxThreads_

MaxInv == OneInside /\ LiveBelowMax

LEMMA LiveFalls ==
    ASSUME RoomForThreads, Types, NEW w \in Workers, Step(w) \/ SpuriousWakeup(w)
    PROVE  Live \in Int /\ Live' \in Int /\ Live' <= Live
  <1> DEFINE E == {"exited"}
  <1>1. /\ w \in Threads
        /\ wpc' = [wpc EXCEPT ![w] = wpc'[w]] /\ wpc \in [Threads -> Places]
        /\ workers_' = workers_ /\ workers_ \in Nat
    BY StepMovesOne, WorkersAreThreads DEF Types
  <1>2. \A v \in Threads \ {w} : wpc'[v] = wpc[v]
    BY <1>1
  <1>3. wpc[w] \notin E
    BY DEF Step, CountActive, CountIdle, Loop, SeeIdle, Block, Timeout, GiveUp, SeeStop,
           Take, CountBusy, CountInactive, SpuriousWakeup, Goes
  <1>4. /\ Cardinality(In(wpc, E)) \in Nat
        /\ (wpc[w] \in E <=> wpc'[w] \in E) =>
              Cardinality(In(wpc', E)) = Cardinality(In(wpc, E))
        /\ (wpc[w] \notin E /\ wpc'[w] \in E) =>
              Cardinality(In(wpc', E)) = Cardinality(In(wpc, E)) + 1
    BY ONLY <1>1, <1>2, OneMoves
  <1>5. /\ Live = workers_ - Cardinality(In(wpc, E))
        /\ Live' = workers_' - Cardinality(In(wpc', E))
    BY DEF Live
  <1> HIDE DEF E
  <1>6. QED  BY <1>1, <1>3, <1>4, <1>5

LEMMA LiveStays ==
    ASSUME RoomForThreads, Types, NEW n \in Nat, workers_' = workers_ + n,
           \A w \in Threads : wpc'[w] = wpc[w] \/ (wpc[w] = "waiting" /\ wpc'[w] = "ready")
    PROVE  Live \in Int /\ Live' = Live + n
  <1>1. In(wpc', {"exited"}) = In(wpc, {"exited"})
    BY DEF In
  <1>2. Cardinality(In(wpc, {"exited"})) \in Nat /\ workers_ \in Nat
    BY InIsFinite, WorkersAreThreads
  <1>3. /\ Live = workers_ - Cardinality(In(wpc, {"exited"}))
        /\ Live' = workers_' - Cardinality(In(wpc', {"exited"}))
    BY DEF Live
  <1>4. QED  BY <1>1, <1>2, <1>3

LEMMA MaxStep ==
    RoomForThreads /\ Types /\ CountersAreExact /\ MaxInv /\ [Next]_vars => MaxInv'
  <1> SUFFICES ASSUME RoomForThreads, Types, CountersAreExact, MaxInv, [Next]_vars
               PROVE  MaxInv'
    OBVIOUS
  <1>1. /\ maxThreads_ \in Nat /\ fixedCount_ \in Nat /\ workers_ \in Nat
        /\ Live \in Int /\ blind \in BOOLEAN
        /\ epc \in [Submitters ->
                    {"out", "notifying", "measuring", "checking", "comparing"}]
    BY DynamicThreadPoolAssumption, ActiveAreLive DEF RoomForThreads, Types
  <1>2. ASSUME \/ \E s \in Submitters : Push(s) \/ Submit(s)
               \/ StoreStop \/ NotifyAll \/ JoinAll \/ UNCHANGED vars,
               UNCHANGED workers_
        PROVE  Live' = Live
    <2>1. \A w \in Threads : wpc'[w] = wpc[w] \/ (wpc[w] = "waiting" /\ wpc'[w] = "ready")
      BY <1>2, OthersWake
    <2>2. 0 \in Nat /\ workers_' = workers_ + 0
      BY <1>1, <1>2
    <2>3. Live' = Live + 0
      BY <2>1, <2>2, LiveStays
    <2>4. QED  BY <1>1, <2>3
  <1>3. ASSUME NEW w \in Workers, Step(w) \/ SpuriousWakeup(w)
        PROVE  MaxInv'
    <2>1. Live' \in Int /\ Live' <= Live /\ UNCHANGED <<workers_, epc, blind>>
      BY <1>3, LiveFalls, StepMovesOne DEF svars
    <2>2. QED  BY <1>1, <2>1 DEF MaxInv, OneInside, LiveBelowMax
  <1>4. ASSUME StoreStop \/ NotifyAll \/ JoinAll \/ UNCHANGED vars
        PROVE  MaxInv'
    <2>1. UNCHANGED <<workers_, epc, blind>>
      BY <1>4 DEF StoreStop, NotifyAll, JoinAll, vars, svars
    <2>2. QED  BY <1>2, <1>4, <2>1 DEF MaxInv, OneInside, LiveBelowMax
  <1>5. ASSUME NEW s \in Submitters, NEW p \in {"notifying", "measuring", "out"},
               epc' = [epc EXCEPT ![s] = p], UNCHANGED <<workers_, blind>>, Live' = Live
        PROVE  MaxInv'
    <2>1. \A t \in Submitters : epc'[t] = IF t = s THEN p ELSE epc[t]
      BY <1>1, <1>5
    <2>2. OneInside'
      BY <2>1 DEF MaxInv, OneInside, Critical
    <2>3. LiveBelowMax'
      BY <1>5, <2>1 DEF MaxInv, LiveBelowMax
    <2>4. QED  BY <2>2, <2>3 DEF MaxInv
  <1>6. ASSUME NEW s \in Submitters, Push(s) \/ NotifyOne(s) \/ NoSpawn(s)
        PROVE  MaxInv'
    <2>1. \E p \in {"notifying", "measuring", "out"} : epc' = [epc EXCEPT ![s] = p]
      BY <1>6 DEF Push, NotifyOne, NoSpawn, Leave
    <2>2. UNCHANGED <<workers_, blind>>
      BY <1>6 DEF Push, NotifyOne, NoSpawn
    <2>3. Live' = Live
      BY <1>2, <1>6, <2>2 DEF Submit
    <2>4. QED  BY <1>5, <2>1, <2>2, <2>3
  <1>7. ASSUME NEW s \in Submitters, Measure(s)
        PROVE  MaxInv'
    <2>1. /\ \A t \in Submitters : epc[t] \notin Critical
          /\ \A t \in Submitters : epc'[t] = IF t = s THEN "checking" ELSE epc[t]
          /\ UNCHANGED <<workers_, blind>>
      BY <1>1, <1>7 DEF Measure, DynamicMutexFree, Critical
    <2>2. Live' = Live
      BY <1>2, <1>7, <2>1 DEF Submit
    <2>3. OneInside'
      BY <2>1 DEF OneInside
    <2>4. LiveBelowMax'
      BY <2>1, <2>2 DEF MaxInv, LiveBelowMax
    <2>5. QED  BY <2>3, <2>4 DEF MaxInv
  <1>8. ASSUME NEW s \in Submitters, CheckActive(s)
        PROVE  MaxInv'
    <2>1. /\ epc[s] = "checking" /\ workers_' = workers_
          /\ blind' = (blind \/ (activeThreads_ < maxThreads_ /\ WorkersAt("starting") # {}))
      BY <1>8 DEF CheckActive
    <2>2. Live' = Live
      BY <1>2, <1>8, <2>1 DEF Submit
    <2>3. CASE activeThreads_ >= maxThreads_
      <3>1. activeThreads_ \in Nat
        BY InIsFinite DEF CountersAreExact
      <3>2. blind' = blind
        BY <1>1, <2>1, <2>3, <3>1
      <3>3. epc' = [epc EXCEPT ![s] = "out"]
        BY <1>8, <2>3 DEF CheckActive, Leave
      <3>4. QED  BY <1>5, <2>1, <2>2, <3>2, <3>3
    <2>4. CASE ~(activeThreads_ >= maxThreads_)
      <3>1. activeThreads_ \in Nat /\ activeThreads_ < maxThreads_
        BY <1>1, <2>4, InIsFinite DEF CountersAreExact
      <3>2. \A t \in Submitters : epc'[t] = IF t = s THEN "comparing" ELSE epc[t]
        BY <1>1, <1>8, <2>4 DEF CheckActive
      <3>3. OneInside'
        BY <2>1, <3>2 DEF MaxInv, OneInside, Critical
      <3>4. ASSUME ~blind'
            PROVE  Live < maxThreads_ /\ ~blind
        <4>1. WorkersAt("starting") = {} /\ ~blind
          BY <2>1, <3>1, <3>4
        <4>2. Live = activeThreads_
          BY <4>1, ActiveAreLive DEF CountersAreExact
        <4>3. QED  BY <3>1, <4>1, <4>2
      <3>5. LiveBelowMax'
        BY <1>1, <2>1, <2>2, <3>4 DEF LiveBelowMax
      <3>6. QED  BY <3>3, <3>5 DEF MaxInv
    <2>5. QED  BY <2>3, <2>4
  <1>9. ASSUME NEW s \in Submitters, Spawn(s)
        PROVE  MaxInv'
    <2>1. /\ epc[s] = "comparing" /\ workers_' = workers_ + 1
          /\ UNCHANGED <<wpc, blind>>
          /\ \A t \in Submitters : epc'[t] = IF t = s THEN "out" ELSE epc[t]
      BY <1>1, <1>9 DEF Spawn, Leave
    <2>2. Live' = Live + 1
      BY <2>1, LiveStays
    <2>3. OneInside' /\ \A t \in Submitters : epc'[t] # "comparing"
      BY <2>1 DEF MaxInv, OneInside, Critical
    <2>4. ASSUME ~blind
          PROVE  Live + 1 <= maxThreads_
      BY <1>1, <2>1, <2>4 DEF MaxInv, LiveBelowMax
    <2>5. LiveBelowMax'
      BY <2>1, <2>2, <2>3, <2>4 DEF LiveBelowMax
    <2>6. QED  BY <2>3, <2>5 DEF MaxInv
  <1>10. QED
    BY <1>3, <1>4, <1>6, <1>7, <1>8, <1>9 DEF Next, Submit

(***************************************************************************)
(* The destructor.  That a worker has taken a task after the stop says     *)
(* where it is: it will read stopFlag_ before it takes another one.        *)
(***************************************************************************)

LateInv ==
    \A w \in Threads :
        \/ late[w] = 0
        \/ late[w] = 1 /\ stopFlag_
           /\ wpc[w] \in {"taken", "running", "loop", "leaving", "left", "exited"}

LEMMA LateStep == RoomForThreads /\ Types /\ LateInv /\ [Next]_vars => LateInv'
  <1> SUFFICES ASSUME RoomForThreads, Types, LateInv, [Next]_vars  PROVE LateInv'
    OBVIOUS
  <1> USE DEF LateInv
  <1>1. ASSUME NEW w \in Workers, Take(w)
        PROVE  LateInv'
    <2>1. /\ w \in Threads /\ \A v \in Threads \ {w} : wpc'[v] = wpc[v]
          /\ UNCHANGED stopFlag_
      BY <1>1, StepMovesOne DEF Step, Types
    <2>2. late[w] = 0 /\ wpc'[w] = "taken"
      BY <1>1, <2>1 DEF Take, Goes, Types
    <2>3. /\ \A v \in Threads \ {w} : late'[v] = late[v]
          /\ late'[w] = 0 \/ (late'[w] = 1 /\ stopFlag_)
      BY <1>1, <2>1, <2>2 DEF Take, Types
    <2>4. QED  BY <2>1, <2>2, <2>3
  <1>2. ASSUME NEW w \in Workers,
               \/ CountActive(w) \/ CountIdle(w) \/ Loop(w) \/ SeeIdle(w) \/ Block(w)
               \/ Timeout(w) \/ GiveUp(w) \/ SeeStop(w) \/ CountBusy(w) \/ CountInactive(w)
               \/ SpuriousWakeup(w)
        PROVE  LateInv'
    <2>1. /\ w \in Threads /\ \A v \in Threads \ {w} : wpc'[v] = wpc[v]
          /\ UNCHANGED stopFlag_
      BY <1>2, StepMovesOne DEF Step, Types
    <2>2. UNCHANGED late
      BY <1>2 DEF CountActive, CountIdle, Loop, SeeIdle, Block, Timeout, GiveUp, SeeStop,
                  CountBusy, CountInactive, SpuriousWakeup, tvars
    <2>3. late[w] = 0 \/ wpc'[w] \in {"taken", "running", "loop", "leaving", "left", "exited"}
      BY <1>2, <2>1
         DEF CountActive, CountIdle, Loop, SeeIdle, Block, Timeout, GiveUp, SeeStop,
             CountBusy, CountInactive, SpuriousWakeup, Goes, Types
    <2>4. QED  BY <2>1, <2>2, <2>3
  <1>3. ASSUME \/ \E s \in Submitters : Push(s) \/ Submit(s)
               \/ StoreStop \/ NotifyAll \/ JoinAll \/ UNCHANGED vars
        PROVE  LateInv'
    <2>1. /\ \A w \in Threads : wpc'[w] = wpc[w] \/ (wpc[w] = "waiting" /\ wpc'[w] = "ready")
          /\ UNCHANGED late
      BY <1>3, OthersWake
    <2>2. stopFlag_ => stopFlag_'
      BY <1>3 DEF Push, Submit, NotifyOne, Measure, CheckActive, Spawn, NoSpawn, StoreStop,
                  NotifyAll, JoinAll, vars
    <2>3. QED  BY <2>1, <2>2
  <1>4. QED  BY <1>1, <1>2, <1>3 DEF Next, Step

-------------------------------------------------------------------------------

PoolInv == RoomForThreads /\ Types /\ CountersAreExact /\ MaxInv /\ LateInv

LEMMA PoolInit == Init => PoolInv
  <1> SUFFICES ASSUME Init  PROVE PoolInv
    OBVIOUS
  <1>1. fixedCount_ \in Nat \ {0} /\ maxThreads_ \in Nat /\ MaxTasks \in Nat
    BY DynamicThreadPoolAssumption
  <1>2. RoomForThreads
    <2>1. Inside(epc) = {}
      BY DEF Init, Inside
    <2>2. Cardinality(Inside(epc)) = 0
      BY <2>1, FS_EmptySet
    <2>3. QED  BY <1>1, <2>2 DEF Init, RoomForThreads
  <1>3. Types
    <2>1. /\ taskQueue_ = <<>> /\ started = <<>> /\ submitted = 0
          /\ \A S : <<>> \in Seq(S) /\ Len(<<>>) = 0
      BY DEF Init
    <2>2. /\ taskQueue_ \in Seq(1..MaxTasks) /\ started \in Seq(1..MaxTasks)
          /\ Len(started) + Len(taskQueue_) = submitted
      BY <2>1
    <2>3. /\ wpc \in [Threads -> Places] /\ \A w \in Threads : wpc[w] = "starting"
          /\ pendingTasks \in [Submitters -> 0..MaxTasks]
          /\ late \in [Threads -> Nat]
      BY <1>1 DEF Init, Places
    <2>4. QED  BY <2>2, <2>3 DEF Init, Types
  <1>4. CountersAreExact
    <2>1. In(wpc, Active) = {} /\ In(wpc, Idle) = {}
      BY DEF Init, In, Active, Idle
    <2>2. QED  BY <2>1, FS_EmptySet DEF Init, CountersAreExact
  <1>5. MaxInv
    BY DEF Init, MaxInv, OneInside, LiveBelowMax, Critical
  <1>6. LateInv
    BY DEF Init, LateInv
  <1>7. QED  BY <1>2, <1>3, <1>4, <1>5, <1>6 DEF PoolInv

\* The inductive invariant of the pool of dynamic_thread_pool.hpp.
THEOREM PoolInvariant == Spec => []PoolInv
  <1>1. PoolInv /\ [Next]_vars => PoolInv'
    BY RoomStep, TypesStep, CountersStep, MaxStep, LateStep DEF PoolInv
  <1>2. QED  BY <1>1, PoolInit, PTL DEF Spec

LEMMA CountersAreRight == PoolInv => CountersMakeSense
  <1> SUFFICES ASSUME PoolInv  PROVE CountersMakeSense
    OBVIOUS
  <1>1. /\ IsFiniteSet(In(wpc, Active)) /\ Cardinality(In(wpc, Active)) \in Nat
        /\ Cardinality(In(wpc, Idle)) \in Nat
    BY InIsFinite
  <1>2. In(wpc, Idle) \subseteq In(wpc, Active)
    BY DEF In, Active
  <1>3. Cardinality(In(wpc, Idle)) <= Cardinality(In(wpc, Active))
    BY <1>1, <1>2, FS_Subset
  <1>4. /\ Cardinality(In(wpc, Active)) <= Live /\ Live <= workers_
        /\ Live \in Int /\ workers_ \in Nat
    BY ActiveAreLive, WorkersAreThreads DEF PoolInv
  <1>5. Cardinality(In(wpc, Active)) <= workers_
    BY <1>1, <1>4
  <1>6. QED  BY <1>1, <1>3, <1>5 DEF PoolInv, CountersAreExact, CountersMakeSense

\* Every variable of the pool keeps its type; no more threads are started than there
\* are fixed ones and tasks submitted, and neither counter leaves 0 .. their number.
THEOREM TypeCorrect == Spec => []TypeOK
  <1>1. PoolInv => TypeOK
    <2> SUFFICES ASSUME PoolInv  PROVE TypeOK
      OBVIOUS
    <2>1. Cardinality(Inside(epc)) \in Nat /\ fixedCount_ \in Nat
      BY InsideIsFinite, DynamicThreadPoolAssumption
    <2>2. workers_ \in fixedCount_..fixedCount_ + submitted
      BY <2>1 DEF PoolInv, RoomForThreads
    <2>3. /\ activeThreads_ \in Int /\ idleThreads_ \in Int /\ workers_ \in Int
          /\ 0 <= idleThreads_ /\ idleThreads_ <= activeThreads_ /\ activeThreads_ <= workers_
      BY <2>1, <2>2, CountersAreRight, InIsFinite
         DEF CountersMakeSense, PoolInv, CountersAreExact, RoomForThreads
    <2>4. activeThreads_ \in 0..workers_ /\ idleThreads_ \in 0..workers_
      BY ONLY <2>3
    <2>5. QED  BY <2>2, <2>4 DEF PoolInv, RoomForThreads, Types, Places, TypeOK
  <1>2. QED  BY <1>1, PoolInvariant, PTL

\* activeThreads_ and idleThreads_ stay between 0 and the number of threads, and so
\* the comparison of a size with the signed idleThreads_ never meets a negative
\* value: in spite of being kept outside every mutex they count exactly.
THEOREM CountersCount == Spec => []CountersMakeSense
  BY CountersAreRight, PoolInvariant, PTL

\* maybeSpawnDynamicThread keeps to maxThreads_ unless it reads the counter while a
\* thread that was started has yet to count itself.
THEOREM MaximumKept == Spec => []MaxThreadsUnlessBlind
  <1>1. PoolInv => MaxThreadsUnlessBlind
    <2> SUFFICES ASSUME PoolInv, ~blind
                 PROVE  activeThreads_ <= maxThreads_ \/ workers_ = fixedCount_
      BY DEF MaxThreadsUnlessBlind
    <2>1. activeThreads_ <= Live /\ Live \in Int /\ activeThreads_ \in Nat
      BY ActiveAreLive, InIsFinite DEF PoolInv, CountersAreExact
    <2>2. Live <= maxThreads_ \/ workers_ = fixedCount_
      BY DEF PoolInv, MaxInv, LiveBelowMax
    <2>3. QED  BY <2>1, <2>2, DynamicThreadPoolAssumption
  <1>2. QED  BY <1>1, PoolInvariant, PTL

\* A worker takes at most one more task once the destructor has stored stopFlag_.
THEOREM OneLateTask == Spec => []AtMostOneLateTask
  <1>1. PoolInv => AtMostOneLateTask
    BY DEF PoolInv, LateInv, AtMostOneLateTask
  <1>2. QED  BY <1>1, PoolInvariant, PTL
===============================================================================
