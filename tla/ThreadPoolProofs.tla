--------------------------- MODULE ThreadPoolProofs ---------------------------
(***************************************************************************)
(* What ThreadPool's runs check on a few threads, proved for every finite  *)
(* set of workers and clients and every set of tasks.                      *)
(***************************************************************************)
EXTENDS ThreadPool, FiniteSetTheorems, SequenceTheorems, TLAPS

(***************************************************************************)
(* Facts about sequences.                                                  *)
(***************************************************************************)

LEMMA ElementsAppend ==
    ASSUME NEW S, NEW s \in Seq(S), NEW x \in S
    PROVE  /\ Append(s, x) \in Seq(S)
           /\ Elements(Append(s, x)) = Elements(s) \cup {x}
  <1>1. /\ Append(s, x) \in Seq(S)
        /\ Len(Append(s, x)) = Len(s) + 1
        /\ \A i \in 1..Len(s) : Append(s, x)[i] = s[i]
        /\ Append(s, x)[Len(s) + 1] = x
    OBVIOUS
  <1>2. QED  BY <1>1 DEF Elements

LEMMA ElementsTail ==
    ASSUME NEW S, NEW s \in Seq(S), s # <<>>
    PROVE  /\ Head(s) \in S
           /\ Tail(s) \in Seq(S)
           /\ Elements(s) = {Head(s)} \cup Elements(Tail(s))
  <1>1. /\ Head(s) \in S
        /\ Tail(s) \in Seq(S)
        /\ Len(s) \in Nat \ {0}
        /\ Len(Tail(s)) = Len(s) - 1
        /\ Head(s) = s[1]
        /\ \A i \in 1..Len(Tail(s)) : Tail(s)[i] = s[i + 1]
    OBVIOUS
  <1>2. ASSUME NEW y \in Elements(s)
        PROVE  y \in {Head(s)} \cup Elements(Tail(s))
    <2>1. PICK i \in 1..Len(s) : y = s[i]
      BY DEF Elements
    <2>2. CASE i = 1
      BY <1>1, <2>1, <2>2
    <2>3. CASE i # 1
      <3>1. i - 1 \in 1..Len(Tail(s)) /\ Tail(s)[i - 1] = y
        BY <1>1, <2>1, <2>3
      <3>2. QED  BY <3>1 DEF Elements
    <2>4. QED  BY <2>2, <2>3
  <1>3. ASSUME NEW y \in {Head(s)} \cup Elements(Tail(s))
        PROVE  y \in Elements(s)
    <2>1. CASE y = Head(s)
      BY <1>1, <2>1 DEF Elements
    <2>2. CASE y \in Elements(Tail(s))
      <3>1. PICK i \in 1..Len(Tail(s)) : y = Tail(s)[i]
        BY <2>2 DEF Elements
      <3>2. i + 1 \in 1..Len(s) /\ s[i + 1] = y
        BY <1>1, <3>1
      <3>3. QED  BY <3>2 DEF Elements
    <2>3. QED  BY <2>1, <2>2
  <1>4. QED  BY <1>1, <1>2, <1>3

LEMMA ConcatShift ==
    ASSUME NEW S, NEW a \in Seq(S), NEW b \in Seq(S), b # <<>>
    PROVE  a \o b = Append(a, Head(b)) \o Tail(b)
  OBVIOUS

(***************************************************************************)
(* Type correctness.                                                       *)
(***************************************************************************)

LEMMA TypeStep == TypeOK /\ [Next]_vars => TypeOK'
  <1> SUFFICES ASSUME TypeOK, [Next]_vars
               PROVE  TypeOK'
    OBVIOUS
  <1>1. ASSUME NEW t \in Clients \cup Workers, NEW x \in Tasks, AddTask(t, x)
        PROVE  TypeOK'
    BY <1>1, ThreadPoolAssumption DEF TypeOK, AddTask
  <1>2. ASSUME NEW t \in Clients \cup Workers, NotifyOne(t)
        PROVE  TypeOK'
    <2>1. CASE Waiting = {}
      BY <1>2, <2>1, ThreadPoolAssumption DEF TypeOK, NotifyOne
    <2>2. CASE Waiting # {}
      <3>1. PICK w \in Waiting : wpc' = [wpc EXCEPT ![w] = "ready"]
        BY <1>2, <2>2 DEF NotifyOne
      <3>2. QED  BY <1>2, <3>1, ThreadPoolAssumption DEF TypeOK, NotifyOne, Waiting, WorkersAt
    <2>3. QED  BY <2>1, <2>2
  <1>3. ASSUME NEW w \in Workers, Block(w)
        PROVE  TypeOK'
    BY <1>3, ThreadPoolAssumption DEF TypeOK, Block
  <1>4. ASSUME NEW w \in Workers, SpuriousWakeup(w)
        PROVE  TypeOK'
    BY <1>4, ThreadPoolAssumption DEF TypeOK, SpuriousWakeup
  <1>5. ASSUME NEW w \in Workers, Exit(w)
        PROVE  TypeOK'
    BY <1>5, ThreadPoolAssumption DEF TypeOK, Exit
  <1>6. ASSUME NEW w \in Workers, Take(w)
        PROVE  TypeOK'
    BY <1>6, ThreadPoolAssumption DEF TypeOK, Take
  <1>7. ASSUME NEW w \in Workers, Finish(w)
        PROVE  TypeOK'
    BY <1>7, ThreadPoolAssumption DEF TypeOK, Finish
  <1>8. CASE BeginDestroy
    BY <1>8, ThreadPoolAssumption DEF TypeOK, BeginDestroy
  <1>9. CASE NotifyAll
    BY <1>9, ThreadPoolAssumption DEF TypeOK, NotifyAll, Waiting, WorkersAt
  <1>10. CASE JoinAll
    BY <1>10, ThreadPoolAssumption DEF TypeOK, JoinAll
  <1>11. CASE UNCHANGED vars
    BY <1>11, ThreadPoolAssumption DEF TypeOK, vars
  <1>12. QED
    BY <1>1, <1>2, <1>3, <1>4, <1>5, <1>6, <1>7, <1>8, <1>9, <1>10, <1>11
       DEF Next, Worker, Destroyed

\* Every reachable state is well typed, whatever the threads and the tasks.
THEOREM TypeCorrect == Spec => []TypeOK
  <1>1. Init => TypeOK
    <2> SUFFICES ASSUME Init PROVE TypeOK
      OBVIOUS
    <2>1. tasks \in Seq(Tasks) /\ added \in Seq(Tasks) /\ taken \in Seq(Tasks)
      BY DEF Init
    <2>2. stop \in BOOLEAN /\ notifying \subseteq Clients \cup Workers /\ finished \subseteq Tasks
      BY DEF Init
    <2>3. /\ wpc \in [Workers -> {"ready", "waiting", "running", "exited"}]
          /\ current \in [Workers -> Tasks \cup {NoTask}]
      BY DEF Init
    <2>4. \A w \in Workers : current[w] = NoTask <=> wpc[w] # "running"
      BY DEF Init
    <2>5. QED  BY <2>1, <2>2, <2>3, <2>4 DEF Init, TypeOK
  <1>2. QED  BY <1>1, TypeStep, PTL DEF Spec

(***************************************************************************)
(* The queue.                                                              *)
(***************************************************************************)

LEMMA FifoStep == TypeOK /\ FifoOrder /\ [Next]_vars => FifoOrder'
  <1> SUFFICES ASSUME TypeOK, FifoOrder, [Next]_vars
               PROVE  FifoOrder'
    OBVIOUS
  <1>1. ASSUME NEW t \in Clients \cup Workers, NEW x \in Tasks, AddTask(t, x)
        PROVE  FifoOrder'
    <2>1. taken \in Seq(Tasks) /\ tasks \in Seq(Tasks)
      BY DEF TypeOK
    <2>2. Append(taken \o tasks, x) = taken \o Append(tasks, x)
      BY <2>1
    <2>3. QED  BY <1>1, <2>2 DEF FifoOrder, AddTask
  <1>2. ASSUME NEW w \in Workers, Take(w)
        PROVE  FifoOrder'
    <2>1. taken \in Seq(Tasks) /\ tasks \in Seq(Tasks) /\ tasks # <<>>
      BY <1>2 DEF TypeOK, Take
    <2>2. taken \o tasks = Append(taken, Head(tasks)) \o Tail(tasks)
      BY ONLY <2>1, ConcatShift
    <2>3. QED  BY <1>2, <2>2 DEF FifoOrder, Take
  <1>3. CASE UNCHANGED <<tasks, added, taken>>
    BY <1>3 DEF FifoOrder
  <1>4. QED
    BY <1>1, <1>2, <1>3
       DEF Next, Worker, NotifyOne, Block, SpuriousWakeup, Exit, Finish,
           BeginDestroy, NotifyAll, JoinAll, Destroyed, vars

\* No submission is lost, duplicated or overtaken between AddTask and a worker.
THEOREM Fifo == Spec => []FifoOrder
  <1>1. Init => FifoOrder
    BY DEF Init, FifoOrder
  <1>2. QED  BY <1>1, FifoStep, TypeCorrect, PTL DEF Spec

(***************************************************************************)
(* Where a task is.                                                        *)
(***************************************************************************)

LEMMA PlacementStep ==
    TypeOK /\ AtMostOnce /\ Placement /\ [Next]_vars => (AtMostOnce /\ Placement)'
  <1> SUFFICES ASSUME TypeOK, AtMostOnce, Placement, [Next]_vars
               PROVE  (AtMostOnce /\ Placement)'
    OBVIOUS
  <1>1. ASSUME NEW t \in Clients \cup Workers, NEW x \in Tasks, AddTask(t, x)
        PROVE  (AtMostOnce /\ Placement)'
    <2>1. /\ Elements(tasks') = Elements(tasks) \cup {x}
          /\ Elements(added') = Elements(added) \cup {x}
      BY <1>1, ElementsAppend DEF AddTask, TypeOK
    <2>2. /\ x \notin Elements(tasks) \cup finished
          /\ \A w \in Workers : wpc[w] = "running" => current[w] # x
      BY <1>1 DEF AddTask, Placement, ActiveTasks, Running, WorkersAt
    <2>3. AtMostOnce'
      BY <1>1, <2>1, <2>2 DEF AddTask, AtMostOnce
    <2>4. \A i, j \in 1..Len(tasks') : tasks'[i] = tasks'[j] => i = j
      <3>1. \A i \in 1..Len(tasks) : tasks[i] # x
        BY <2>2 DEF Elements
      <3>2. QED  BY <1>1, <3>1 DEF AddTask, Placement, TypeOK
    <2>5. QED
      BY <1>1, <2>1, <2>2, <2>3, <2>4 DEF AddTask, Placement, ActiveTasks, Running, WorkersAt
  <1>2. ASSUME NEW w \in Workers, Take(w)
        PROVE  (AtMostOnce /\ Placement)'
    <2> DEFINE x == Head(tasks)
    <2>1. /\ x \in Tasks
          /\ Elements(tasks) = {x} \cup Elements(tasks')
      BY <1>2, ElementsTail DEF Take, TypeOK
    <2>2. /\ \A i, j \in 1..Len(tasks') : tasks'[i] = tasks'[j] => i = j
          /\ \A i \in 1..Len(tasks') : tasks'[i] # x
      BY <1>2 DEF Take, Placement, TypeOK
    <2>3. x \notin Elements(tasks')
      BY <2>2 DEF Elements
    <2>4. x \notin finished /\ \A v \in Workers : current[v] # x
      BY <2>1, ThreadPoolAssumption DEF Placement, AtMostOnce, TypeOK
    <2>5. /\ current' = [current EXCEPT ![w] = x]
          /\ wpc' = [wpc EXCEPT ![w] = "running"]
          /\ finished' = finished /\ added' = added /\ wpc[w] = "ready"
      BY <1>2 DEF Take
    <2>6. AtMostOnce'
      BY <2>1, <2>3, <2>4, <2>5 DEF AtMostOnce, TypeOK
    <2>7. ActiveTasks' = ActiveTasks \cup {x}
      BY <2>5 DEF ActiveTasks, Running, WorkersAt, TypeOK
    <2>8. QED  BY <2>1, <2>2, <2>5, <2>6, <2>7 DEF Placement
  <1>3. ASSUME NEW w \in Workers, Finish(w)
        PROVE  (AtMostOnce /\ Placement)'
    <2>1. /\ current' = [current EXCEPT ![w] = NoTask]
          /\ wpc' = [wpc EXCEPT ![w] = "ready"]
          /\ finished' = finished \cup {current[w]}
          /\ tasks' = tasks /\ added' = added /\ wpc[w] = "running"
      BY <1>3 DEF Finish
    <2>2. AtMostOnce'
      BY <2>1 DEF AtMostOnce, TypeOK
    <2>3. ActiveTasks = ActiveTasks' \cup {current[w]}
      BY <2>1 DEF ActiveTasks, Running, WorkersAt, TypeOK
    <2>4. current[w] \notin Elements(tasks)
      BY <2>1 DEF AtMostOnce
    <2>5. QED  BY <2>1, <2>2, <2>3, <2>4 DEF Placement
  <1>4. CASE /\ UNCHANGED <<current, tasks, added, finished>>
             /\ \A w \in Workers : wpc'[w] = "running" <=> wpc[w] = "running"
    BY <1>4 DEF AtMostOnce, Placement, ActiveTasks, Running, WorkersAt
  <1>5. ASSUME NEW t \in Clients \cup Workers, NotifyOne(t)
        PROVE  (AtMostOnce /\ Placement)'
    BY <1>4, <1>5 DEF NotifyOne, Waiting, WorkersAt, TypeOK
  <1>6. ASSUME NEW w \in Workers, Block(w) \/ SpuriousWakeup(w) \/ Exit(w)
        PROVE  (AtMostOnce /\ Placement)'
    BY <1>4, <1>6 DEF Block, SpuriousWakeup, Exit, TypeOK
  <1>7. CASE BeginDestroy \/ NotifyAll \/ JoinAll \/ UNCHANGED vars
    BY <1>4, <1>7
       DEF BeginDestroy, NotifyAll, JoinAll, vars, Waiting, WorkersAt, TypeOK
  <1>8. QED
    BY <1>1, <1>2, <1>3, <1>5, <1>6, <1>7 DEF Next, Worker, Destroyed

LEMMA InitPlacement == Init => AtMostOnce /\ Placement
  <1> SUFFICES ASSUME Init
               PROVE  AtMostOnce /\ Placement
    OBVIOUS
  <1>1. Elements(<<>>) = {} /\ ActiveTasks = {} /\ Running = {}
    BY DEF Init, Elements, ActiveTasks, Running, WorkersAt
  <1>2. QED  BY <1>1 DEF Init, AtMostOnce, Placement

\* No task is run by two workers or run again after it finished.
THEOREM RunsAtMostOnce == Spec => [](AtMostOnce /\ Placement)
  BY InitPlacement, PlacementStep, TypeCorrect, PTL DEF Spec

(***************************************************************************)
(* The shutdown.                                                           *)
(***************************************************************************)

LEMMA ShutdownStep ==
    TypeOK /\ Shutdown /\ NobodySleepsThroughStop /\ [Next]_vars
        => (Shutdown /\ NobodySleepsThroughStop)'
  <1> SUFFICES ASSUME TypeOK, Shutdown, NobodySleepsThroughStop, [Next]_vars
               PROVE  (Shutdown /\ NobodySleepsThroughStop)'
    OBVIOUS
  <1> USE DEF TypeOK, Shutdown, NobodySleepsThroughStop, Waiting, WorkersAt
  <1>1. ASSUME NEW t \in Clients \cup Workers, NEW x \in Tasks, AddTask(t, x)
        PROVE  (Shutdown /\ NobodySleepsThroughStop)'
    <2>1. \E w \in Workers : wpc[w] # "exited"
      BY <1>1, ThreadPoolAssumption DEF AddTask, MayAdd
    <2>2. QED  BY <1>1, <2>1 DEF AddTask
  <1>2. ASSUME NEW t \in Clients \cup Workers, NotifyOne(t)
        PROVE  (Shutdown /\ NobodySleepsThroughStop)'
    BY <1>2, ThreadPoolAssumption DEF NotifyOne
  <1>3. ASSUME NEW w \in Workers, Block(w)
        PROVE  (Shutdown /\ NobodySleepsThroughStop)'
    BY <1>3 DEF Block
  <1>4. ASSUME NEW w \in Workers, SpuriousWakeup(w)
        PROVE  (Shutdown /\ NobodySleepsThroughStop)'
    BY <1>4 DEF SpuriousWakeup
  <1>5. ASSUME NEW w \in Workers, Exit(w)
        PROVE  (Shutdown /\ NobodySleepsThroughStop)'
    BY <1>5 DEF Exit
  <1>6. ASSUME NEW w \in Workers, Take(w)
        PROVE  (Shutdown /\ NobodySleepsThroughStop)'
    BY <1>6 DEF Take
  <1>7. ASSUME NEW w \in Workers, Finish(w)
        PROVE  (Shutdown /\ NobodySleepsThroughStop)'
    BY <1>7 DEF Finish
  <1>8. CASE BeginDestroy
    BY <1>8, ThreadPoolAssumption DEF BeginDestroy
  <1>9. CASE NotifyAll
    BY <1>9 DEF NotifyAll
  <1>10. CASE JoinAll
    BY <1>10 DEF JoinAll
  <1>11. CASE UNCHANGED vars
    BY <1>11 DEF vars
  <1> HIDE DEF TypeOK, Shutdown, NobodySleepsThroughStop, Waiting, WorkersAt
  <1>12. QED
    BY <1>1, <1>2, <1>3, <1>4, <1>5, <1>6, <1>7, <1>8, <1>9, <1>10, <1>11
       DEF Next, Worker, Destroyed

LEMMA InitShutdown == Init => Shutdown /\ NobodySleepsThroughStop
  BY ThreadPoolAssumption
     DEF Init, Shutdown, NobodySleepsThroughStop, Waiting, WorkersAt

THEOREM ShutdownInvariant == Spec => [](Shutdown /\ NobodySleepsThroughStop)
  BY InitShutdown, ShutdownStep, TypeCorrect, PTL DEF Spec

\* When ~ThreadPool returns, every task that was ever submitted has run.
THEOREM ShutdownIsComplete == Spec => []ShutdownDrains
  <1>1. TypeOK /\ Placement /\ Shutdown => ShutdownDrains
    <2> SUFFICES ASSUME TypeOK, Placement, Shutdown, dtor = "destroyed"
                 PROVE  tasks = <<>> /\ Elements(added) \subseteq finished
      BY DEF ShutdownDrains
    <2>1. tasks = <<>> /\ ActiveTasks = {}
      BY DEF Shutdown, ActiveTasks, Running, WorkersAt
    <2>2. Elements(tasks) = {}
      BY <2>1 DEF Elements
    <2>3. QED  BY <2>1, <2>2 DEF Placement
  <1>2. QED  BY <1>1, TypeCorrect, RunsAtMostOnce, ShutdownInvariant, PTL

(***************************************************************************)
(* One wake-up per push is enough.                                         *)
(***************************************************************************)

LEMMA FiniteThreads ==
    ASSUME TypeOK
    PROVE  /\ IsFiniteSet(Ready) /\ Cardinality(Ready) \in Nat
           /\ IsFiniteSet(notifying) /\ Cardinality(notifying) \in Nat
  <1>1. Ready \in SUBSET Workers /\ notifying \in SUBSET (Clients \cup Workers)
    BY DEF TypeOK, Ready, WorkersAt
  <1>2. IsFiniteSet(Clients \cup Workers)
    BY ThreadPoolAssumption, FS_Union
  <1>3. IsFiniteSet(Ready) /\ IsFiniteSet(notifying)
    BY <1>1, <1>2, ThreadPoolAssumption, FS_Subset
  <1>4. QED  BY <1>3, FS_CardinalityType

LEMMA NoIdleStep == TypeOK /\ NoIdleWorker /\ [Next]_vars => NoIdleWorker'
  <1> SUFFICES ASSUME TypeOK, NoIdleWorker, [Next]_vars
               PROVE  NoIdleWorker'
    OBVIOUS
  <1>0. /\ IsFiniteSet(Ready) /\ Cardinality(Ready) \in Nat
        /\ IsFiniteSet(notifying) /\ Cardinality(notifying) \in Nat
        /\ Len(tasks) \in Nat
    BY FiniteThreads DEF TypeOK
  <1>1. ASSUME NEW w \in Workers, wpc[w] # "ready",
               wpc' = [wpc EXCEPT ![w] = "ready"]
        PROVE  /\ Cardinality(Ready') = Cardinality(Ready) + 1
               /\ Waiting' \subseteq Waiting
    <2>1. Ready' = Ready \cup {w} /\ w \notin Ready /\ Waiting' \subseteq Waiting
      BY <1>1 DEF Ready, Waiting, WorkersAt, TypeOK
    <2>2. QED  BY <1>0, <2>1, FS_AddElement
  <1>2. ASSUME NEW t \in Clients \cup Workers, NEW x \in Tasks, AddTask(t, x)
        PROVE  NoIdleWorker'
    <2>1. t \notin notifying /\ notifying' = notifying \cup {t}
      BY <1>2 DEF AddTask
    <2>2. Cardinality(notifying') = Cardinality(notifying) + 1
      BY <1>0, <2>1, FS_AddElement
    <2>3. Len(tasks') = Len(tasks) + 1
      BY <1>2 DEF AddTask, TypeOK
    <2>4. Ready' = Ready /\ Waiting' = Waiting
      BY <1>2 DEF AddTask, Ready, Waiting, WorkersAt
    <2>5. QED  BY <1>0, <2>2, <2>3, <2>4 DEF NoIdleWorker
  <1>3. ASSUME NEW t \in Clients \cup Workers, NotifyOne(t)
        PROVE  NoIdleWorker'
    <2>1. CASE Waiting = {}
      BY <1>3, <2>1 DEF NotifyOne, NoIdleWorker, Waiting, WorkersAt
    <2>2. CASE Waiting # {}
      <3>1. PICK w \in Workers : /\ wpc[w] # "ready"
                                 /\ wpc' = [wpc EXCEPT ![w] = "ready"]
        BY <1>3, <2>2 DEF NotifyOne, Waiting, WorkersAt
      <3>2. Cardinality(notifying') = Cardinality(notifying) - 1
        BY <1>0, <1>3, FS_RemoveElement DEF NotifyOne
      <3>3. tasks' = tasks
        BY <1>3 DEF NotifyOne
      <3>4. Cardinality(Ready') = Cardinality(Ready) + 1
        BY <1>1, <3>1
      <3>5. QED  BY <1>0, <2>2, <3>2, <3>3, <3>4 DEF NoIdleWorker
    <2>3. QED  BY <2>1, <2>2
  <1>4. ASSUME NEW w \in Workers, Block(w) \/ Exit(w)
        PROVE  NoIdleWorker'
    <2>1. Len(tasks') = 0 /\ notifying' = notifying /\ Ready' = Ready \ {w}
      BY <1>4 DEF Block, Exit, Ready, WorkersAt, TypeOK
    <2>2. Cardinality(Ready') \in Nat
      BY <1>0, <2>1, FS_RemoveElement, FS_CardinalityType
    <2>3. QED  BY <1>0, <2>1, <2>2 DEF NoIdleWorker
  <1>5. ASSUME NEW w \in Workers, SpuriousWakeup(w) \/ Finish(w)
        PROVE  NoIdleWorker'
    <2>1. /\ wpc[w] # "ready" /\ wpc' = [wpc EXCEPT ![w] = "ready"]
          /\ tasks' = tasks /\ notifying' = notifying
      BY <1>5 DEF SpuriousWakeup, Finish
    <2>2. Cardinality(Ready') = Cardinality(Ready) + 1 /\ Waiting' \subseteq Waiting
      BY <1>1, <2>1
    <2>3. QED  BY <1>0, <2>1, <2>2 DEF NoIdleWorker
  <1>6. ASSUME NEW w \in Workers, Take(w)
        PROVE  NoIdleWorker'
    <2>1. /\ Ready' = Ready \ {w} /\ w \in Ready /\ Waiting' = Waiting
          /\ notifying' = notifying
      BY <1>6 DEF Take, Ready, Waiting, WorkersAt, TypeOK
    <2>2. Len(tasks') = Len(tasks) - 1
      BY <1>6 DEF Take, TypeOK
    <2>3. Cardinality(Ready') = Cardinality(Ready) - 1
      BY <1>0, <2>1, FS_RemoveElement
    <2>4. QED  BY <1>0, <2>1, <2>2, <2>3 DEF NoIdleWorker
  <1>7. CASE NotifyAll
    BY <1>7 DEF NotifyAll, NoIdleWorker, Waiting, WorkersAt
  <1>8. CASE BeginDestroy \/ JoinAll \/ UNCHANGED vars
    BY <1>8
       DEF BeginDestroy, JoinAll, vars, NoIdleWorker, Ready, Waiting, WorkersAt
  <1>9. QED
    BY <1>2, <1>3, <1>4, <1>5, <1>6, <1>7, <1>8 DEF Next, Worker, Destroyed

\* While a worker sleeps, every queued task has a thread that comes for it.
THEOREM NotifyOneSuffices == Spec => []NoIdleWorker
  <1>1. Init => NoIdleWorker
    BY DEF Init, NoIdleWorker, Waiting, WorkersAt
  <1>2. QED  BY <1>1, NoIdleStep, TypeCorrect, PTL DEF Spec

(***************************************************************************)
(* The pool implements TaskPool.                                           *)
(***************************************************************************)

LEMMA KnownTasks ==
    TypeOK /\ Placement => \A x \in Tasks : x \in TP!Known => x \in Elements(added)
  BY ThreadPoolAssumption
     DEF TP!Known, Elements, ActiveTasks, Running, WorkersAt, TypeOK, Placement

LEMMA StepRefines ==
    TypeOK /\ Placement /\ Shutdown /\ [Next]_vars => [TP!Next]_(TP!vars)
  <1> SUFFICES ASSUME TypeOK, Placement, Shutdown, [Next]_vars
               PROVE  TP!Next \/ UNCHANGED TP!vars
    OBVIOUS
  <1>1. ASSUME NEW t \in Clients \cup Workers, NEW x \in Tasks, AddTask(t, x)
        PROVE  TP!Next
    <2>1. dtor # "destroyed"
      BY <1>1 DEF AddTask, MayAdd, Shutdown
    <2>2. x \notin TP!Known
      BY <1>1, KnownTasks DEF AddTask
    <2>3. TP!Submit(x)
      BY <1>1, <2>1, <2>2 DEF TP!Submit, AddTask
    <2>4. QED  BY <2>3 DEF TP!Next
  <1>2. ASSUME NEW w \in Workers, Take(w)
        PROVE  TP!Next
    <2>1. TP!Start(w)
      BY <1>2 DEF TP!Start, Take, TypeOK
    <2>2. QED  BY <2>1 DEF TP!Next
  <1>3. ASSUME NEW w \in Workers, Finish(w)
        PROVE  TP!Next
    <2>1. TP!Finish(w)
      BY <1>3 DEF TP!Finish, Finish, TypeOK
    <2>2. QED  BY <2>1 DEF TP!Next
  <1>4. CASE JoinAll
    <2>1. tasks = <<>> /\ \A w \in Workers : current[w] = NoTask
      BY <1>4 DEF JoinAll, Shutdown, TypeOK
    <2>2. TP!Close
      BY <1>4, <2>1 DEF JoinAll, TP!Close
    <2>3. QED  BY <2>2 DEF TP!Next
  <1>5. ASSUME NEW t \in Clients \cup Workers, NotifyOne(t)
        PROVE  UNCHANGED TP!vars
    BY <1>5 DEF NotifyOne, TP!vars
  <1>6. ASSUME NEW w \in Workers, Block(w) \/ SpuriousWakeup(w) \/ Exit(w)
        PROVE  UNCHANGED TP!vars
    BY <1>6 DEF Block, SpuriousWakeup, Exit, TP!vars
  <1>7. CASE BeginDestroy \/ NotifyAll \/ UNCHANGED vars
    BY <1>7 DEF BeginDestroy, NotifyAll, vars, TP!vars
  <1>8. QED
    BY <1>1, <1>2, <1>3, <1>4, <1>5, <1>6, <1>7 DEF Next, Worker, Destroyed

\* Every behaviour of the pool, locks and wake-ups forgotten, is one of TaskPool.
THEOREM Refinement == Spec => TP!Spec
  <1>1. Init => TP!Init
    BY DEF Init, TP!Init
  <1>2. QED
    BY <1>1, StepRefines, TypeCorrect, RunsAtMostOnce, ShutdownInvariant, PTL
       DEF Spec, TP!Spec
===============================================================================
