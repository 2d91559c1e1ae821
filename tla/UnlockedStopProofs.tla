-------------------------- MODULE UnlockedStopProofs --------------------------
(***************************************************************************)
(* What module MCUnlockedStop checks on a few threads and tasks, proved    *)
(* for every number of them and every priority of the tasks.               *)
(*                                                                         *)
(* Each part has an inductive invariant over its own variables, and a step *)
(* of the composition is, for every part, a step of its own or none.       *)
(***************************************************************************)
EXTENDS MCUnlockedStop, FiniteSetTheorems, SequenceTheorems, TLAPS

(***************************************************************************)
(* Facts about sequences.                                                  *)
(***************************************************************************)

Elements(s) == {s[i] : i \in 1..Len(s)}

LEMMA ElementsAppend ==
    ASSUME NEW S, NEW s \in Seq(S), NEW x \in S
    PROVE  /\ Append(s, x) \in Seq(S)
           /\ Elements(Append(s, x)) = Elements(s) \cup {x}
  <1>1. /\ Append(s, x) \in Seq(S)
        /\ Len(Append(s, x)) = Len(s) + 1
        /\ \A i \in 1..Len(s) : Append(s, x)[i] = s[i]
        /\ Append(s, x)[Len(s) + 1] = x
    OBVIOUS
  <1>2. QED  BY <1>1 DEF Elements

LEMMA FrontMoves ==
    ASSUME NEW S, NEW a \in Seq(S), NEW b \in Seq(S), b # <<>>
    PROVE  /\ Head(b) \in S /\ Tail(b) \in Seq(S)
           /\ a \o b = Append(a, Head(b)) \o Tail(b)
  OBVIOUS

LEMMA WithoutLast ==
    ASSUME NEW S, NEW s \in Seq(S), s # <<>>
    PROVE  /\ Len(s) \in Nat \ {0} /\ s[Len(s)] \in S
           /\ SubSeq(s, 1, Len(s) - 1) \in Seq(S)
           /\ Len(SubSeq(s, 1, Len(s) - 1)) = Len(s) - 1
           /\ \A i \in 1..Len(s) - 1 : SubSeq(s, 1, Len(s) - 1)[i] = s[i]
  <1> DEFINE n == Len(s) - 1
             r == SubSeq(s, 1, n)
  <1>1. Len(s) \in Nat \ {0} /\ \A i \in 1..Len(s) : s[i] \in S
    OBVIOUS
  <1>2. n \in Nat /\ 1 \in Int /\ n \in Int /\ \A i \in 1..n : s[i] \in S
    BY <1>1
  <1>3. /\ r \in Seq(S) /\ Len(r) = IF 1 <= n THEN n - 1 + 1 ELSE 0
        /\ \A i \in 1..n - 1 + 1 : r[i] = s[1 + i - 1]
    <2> HIDE DEF n
    <2>1. QED  BY ONLY <1>2, SubSeqProperties
  <1>4. Len(r) = n /\ \A i \in 1..n : r[i] = s[i]
    <2> HIDE DEF n, r
    <2>1. n - 1 + 1 = n /\ \A i \in 1..n : 1 + i - 1 = i
      BY <1>2
    <2>2. QED  BY <1>2, <1>3, <2>1
  <1>5. QED  BY <1>1, <1>3, <1>4

LEMMA AppendAfter ==
    ASSUME NEW S, NEW a \in Seq(S), NEW b \in Seq(S), NEW x \in S
    PROVE  a \o Append(b, x) = Append(a \o b, x)
  OBVIOUS

LEMMA CountOneMore ==
    ASSUME NEW n \in Nat
    PROVE  Append([i \in 1..n |-> i], n + 1) = [i \in 1..n + 1 |-> i]
  <1> DEFINE s == [i \in 1..n |-> i]
             t == [i \in 1..n + 1 |-> i]
  <1>1. s \in Seq(Nat) /\ Len(s) = n /\ t \in Seq(Nat) /\ Len(t) = n + 1
    OBVIOUS
  <1>2. Append(s, n + 1) \in Seq(Nat) /\ Len(Append(s, n + 1)) = n + 1
    BY <1>1
  <1>3. \A i \in 1..n + 1 : Append(s, n + 1)[i] = t[i]
    BY <1>1
  <1>4. QED  BY <1>1, <1>2, <1>3, SeqEqual

(***************************************************************************)
(* The parts, one at a time.                                               *)
(***************************************************************************)

LEMMA StepsOfParts ==
    ASSUME [Next]_vars
    PROVE  /\ [Rejecting!Next]_rejectingVars
           /\ [Fixed!Next]_fixedVars
           /\ [Observed!Next]_observedVars
           /\ [Stealing!Next]_stealingVars
           /\ [Dynamic!Next]_dynamicVars
  BY DEF Next, vars, exceptRejecting, exceptFixed, exceptObserved, exceptStealing,
         exceptDynamic

(***************************************************************************)
(* FixedWorkerPool.  That a worker has begun a task after the stop says    *)
(* where it is: it will read stopFlag before it takes another one.         *)
(***************************************************************************)

FixedTypes ==
    /\ fpc \in [Fixed!Workers ->
                {"loop", "ready", "deciding", "waiting", "running", "exited"}]
    /\ queue \in [Fixed!Workers -> Seq(Nat)]
    /\ ran \in [Fixed!Workers -> Seq(Nat)]
    /\ submitted \in [Fixed!Workers -> Nat]
    /\ late \in [Fixed!Workers -> Nat]
    /\ stopFlag \in BOOLEAN
    /\ (stopFlag <=> (fdtor # 0))

FixedLate ==
    \A w \in Fixed!Workers :
        \/ late[w] = 0
        \/ late[w] = 1 /\ stopFlag /\ fpc[w] \in {"running", "loop", "exited"}

LEMMA FixedLateStep ==
    FixedTypes /\ FixedLate /\ [Fixed!Next]_fixedVars => (FixedTypes /\ FixedLate)'
  <1> SUFFICES ASSUME FixedTypes, FixedLate, [Fixed!Next]_fixedVars
               PROVE  (FixedTypes /\ FixedLate)'
    OBVIOUS
  <1> USE DEF FixedTypes, FixedLate
  <1>1. ASSUME NEW s \in Submitters, NEW w \in Fixed!Workers, Fixed!SubmitTo(s, w)
        PROVE  (FixedTypes /\ FixedLate)'
    BY <1>1 DEF Fixed!SubmitTo
  <1>2. ASSUME NEW s \in Submitters, NEW w \in Fixed!Workers, Fixed!NotifyOne(s, w)
        PROVE  (FixedTypes /\ FixedLate)'
    BY <1>2 DEF Fixed!NotifyOne
  <1>3. ASSUME NEW w \in Fixed!Workers, Fixed!Loop(w)
        PROVE  (FixedTypes /\ FixedLate)'
    BY <1>3 DEF Fixed!Loop
  <1>4. ASSUME NEW w \in Fixed!Workers, NEW p \in {"loop", "ready", "deciding", "waiting",
               "exited"}, fpc' = [fpc EXCEPT ![w] = p], late[w] = 0 \/ p \in {"loop", "exited"},
               UNCHANGED <<queue, ran, submitted, late, stopFlag, fdtor>>
        PROVE  (FixedTypes /\ FixedLate)'
    BY <1>4
  <1>5. ASSUME NEW w \in Fixed!Workers,
               \/ Fixed!SeeIdle(w) \/ Fixed!Block(w) \/ Fixed!Exit(w)
               \/ Fixed!Finish(w) \/ Fixed!SpuriousWakeup(w)
        PROVE  (FixedTypes /\ FixedLate)'
    <2>1. late[w] = 0 \/ fpc[w] \in {"running", "loop", "exited"}
      BY DEF FixedLate
    <2>2. QED
      BY <1>4, <1>5, <2>1
         DEF Fixed!SeeIdle, Fixed!Block, Fixed!Exit, Fixed!Finish, Fixed!SpuriousWakeup
  <1>6. ASSUME NEW w \in Fixed!Workers, Fixed!Take(w)
        PROVE  (FixedTypes /\ FixedLate)'
    <2>1. late[w] = 0 /\ queue[w] \in Seq(Nat) /\ ran[w] \in Seq(Nat)
      BY <1>6 DEF Fixed!Take
    <2>2. Tail(queue[w]) \in Seq(Nat) /\ Append(ran[w], Head(queue[w])) \in Seq(Nat)
      BY <1>6, <2>1, FrontMoves DEF Fixed!Take
    <2>3. /\ late' \in [Fixed!Workers -> Nat]
          /\ \A v \in Fixed!Workers : v # w => late'[v] = late[v]
          /\ late'[w] = IF stopFlag THEN 1 ELSE 0
      BY <1>6, <2>1 DEF Fixed!Take
    <2>4. QED  BY <1>6, <2>2, <2>3 DEF Fixed!Take
  <1>7. CASE Fixed!StoreStop
    BY <1>7 DEF Fixed!StoreStop
  <1>8. CASE Fixed!NotifyNext
    BY <1>8 DEF Fixed!NotifyNext, Fixed!Workers
  <1>9. CASE Fixed!JoinAll
    BY <1>9, PartsAssumption
       DEF Fixed!JoinAll, Fixed!Joining, Fixed!FixedWorkerPoolAssumption
  <1>10. CASE UNCHANGED fixedVars
    BY <1>10 DEF fixedVars
  <1> HIDE DEF FixedTypes, FixedLate
  <1>11. QED
    BY <1>1, <1>2, <1>3, <1>5, <1>6, <1>7, <1>8, <1>9, <1>10
       DEF Fixed!Next, Fixed!Worker

LEMMA FixedOrderStep ==
    FixedTypes /\ Fixed!RunsInOrder /\ [Fixed!Next]_fixedVars => Fixed!RunsInOrder'
  <1> SUFFICES ASSUME FixedTypes, Fixed!RunsInOrder, [Fixed!Next]_fixedVars
               PROVE  Fixed!RunsInOrder'
    OBVIOUS
  <1>1. ASSUME NEW s \in Submitters, NEW w \in Fixed!Workers, Fixed!SubmitTo(s, w),
               NEW v \in Fixed!Workers
        PROVE  ran'[v] \o queue'[v] = [i \in 1..submitted'[v] |-> i]
    <2>1. CASE v # w
      BY <1>1, <2>1 DEF Fixed!SubmitTo, Fixed!RunsInOrder, FixedTypes
    <2>2. CASE v = w
      <3>1. /\ ran'[v] = ran[v]
            /\ queue'[v] = Append(queue[v], submitted[v] + 1)
            /\ submitted'[v] = submitted[v] + 1
        BY <1>1, <2>2 DEF Fixed!SubmitTo, FixedTypes
      <3>2. ran[v] \o Append(queue[v], submitted[v] + 1)
              = Append(ran[v] \o queue[v], submitted[v] + 1)
        BY AppendAfter, SMTT(30) DEF FixedTypes
      <3>3. QED  BY <3>1, <3>2, CountOneMore, ZenonT(30) DEF Fixed!RunsInOrder, FixedTypes
    <2>3. QED  BY <2>1, <2>2
  <1>2. ASSUME NEW w \in Fixed!Workers, Fixed!Take(w), NEW v \in Fixed!Workers
        PROVE  ran'[v] \o queue'[v] = ran[v] \o queue[v]
    <2>1. ran[w] \in Seq(Nat) /\ queue[w] \in Seq(Nat) /\ queue[w] # <<>>
      BY <1>2 DEF Fixed!Take, FixedTypes
    <2>2. ran[w] \o queue[w] = Append(ran[w], Head(queue[w])) \o Tail(queue[w])
      BY <2>1, FrontMoves
    <2>3. QED  BY <1>2, <2>2 DEF Fixed!Take, FixedTypes
  <1>3. ASSUME NEW w \in Fixed!Workers, Fixed!Take(w)
        PROVE  submitted' = submitted
    BY <1>3 DEF Fixed!Take
  <1>4. CASE UNCHANGED <<queue, ran, submitted>>
    BY <1>4 DEF Fixed!RunsInOrder
  <1>5. QED
    BY <1>1, <1>2, <1>3, <1>4
       DEF Fixed!RunsInOrder, Fixed!Next, Fixed!Worker, Fixed!NotifyOne, Fixed!Loop,
           Fixed!SeeIdle, Fixed!Block, Fixed!Exit, Fixed!Finish, Fixed!SpuriousWakeup,
           Fixed!StoreStop, Fixed!NotifyNext, Fixed!JoinAll, fixedVars

LEMMA FixedInit == Fixed!Init => FixedTypes /\ FixedLate /\ Fixed!RunsInOrder
  <1> SUFFICES ASSUME Fixed!Init
               PROVE  FixedTypes /\ FixedLate /\ Fixed!RunsInOrder
    OBVIOUS
  <1>1. FixedTypes /\ FixedLate
    <2>1. /\ [w \in Fixed!Workers |-> <<>>] \in [Fixed!Workers -> Seq(Nat)]
          /\ [w \in Fixed!Workers |-> 0] \in [Fixed!Workers -> Nat]
      OBVIOUS
    <2>2. QED  BY <2>1 DEF Fixed!Init, FixedTypes, FixedLate
  <1>2. ASSUME NEW w \in Fixed!Workers
        PROVE  ran[w] \o queue[w] = [i \in 1..submitted[w] |-> i]
    <2>1. ran[w] = <<>> /\ queue[w] = <<>> /\ submitted[w] = 0
      BY DEF Fixed!Init
    <2>2. QED  BY <2>1
  <1>3. QED  BY <1>1, <1>2 DEF Fixed!RunsInOrder

(***************************************************************************)
(* ObserverQueue.                                                          *)
(***************************************************************************)

ObservedInv ==
    /\ queue_ \in Seq(Nat) /\ popped \in Seq(Nat) /\ pushed \in Nat
    /\ Observed!PoppedInOrder

LEMMA ObservedStep == ObservedInv /\ [Observed!Next]_observedVars => ObservedInv'
  <1> SUFFICES ASSUME ObservedInv, [Observed!Next]_observedVars
               PROVE  ObservedInv'
    OBVIOUS
  <1>1. queue_ \in Seq(Nat) /\ popped \in Seq(Nat) /\ pushed \in Nat
    BY DEF ObservedInv
  <1>2. CASE Observed!PushTask
    <2>1. /\ pushed' = pushed + 1 /\ popped' = popped
          /\ queue_' = Append(queue_, pushed + 1)
      BY <1>2 DEF Observed!PushTask
    <2>2. popped \o Append(queue_, pushed + 1) = Append(popped \o queue_, pushed + 1)
      BY <1>1, AppendAfter
    <2>3. Observed!PoppedInOrder'
      BY <1>1, <2>1, <2>2, CountOneMore DEF ObservedInv, Observed!PoppedInOrder
    <2>4. QED  BY <1>1, <2>1, <2>3 DEF ObservedInv
  <1>3. ASSUME NEW c \in Observed!Consumers, Observed!PopTask(c)
        PROVE  ObservedInv'
    <2>1. /\ queue_ # <<>> /\ pushed' = pushed
          /\ popped' = Append(popped, Head(queue_)) /\ queue_' = Tail(queue_)
      BY <1>3 DEF Observed!PopTask, Observed!hasTask
    <2>2. popped' \o queue_' = popped \o queue_ /\ popped' \in Seq(Nat) /\ queue_' \in Seq(Nat)
      BY <1>1, <2>1, FrontMoves, SMTT(30)
    <2>3. QED  BY <1>1, <2>1, <2>2 DEF ObservedInv, Observed!PoppedInOrder
  <1>4. CASE UNCHANGED <<queue_, popped, pushed>>
    BY <1>4 DEF ObservedInv, Observed!PoppedInOrder
  <1>5. QED
    BY <1>2, <1>3, <1>4
       DEF Observed!Next, Observed!Main, Observed!Run, Observed!NotifyObserver,
           Observed!ReadStop, Observed!SeeIdle, Observed!Block, Observed!SpuriousWakeup, Observed!SeeWork,
           Observed!TestStop, Observed!PopNothing, Observed!StoreStop,
           Observed!NotifyStop, observedVars

LEMMA ObservedInit == Observed!Init => ObservedInv
  BY DEF Observed!Init, ObservedInv, Observed!PoppedInOrder

(***************************************************************************)
(* DynamicPoolV1.                                                          *)
(***************************************************************************)

DynamicTypes ==
    /\ workers_ \in Seq({"loop", "ready", "deciding", "waiting", "timedout",
                         "running", "left"})
    /\ Len(workers_) <= MaxThreads
    /\ taskQueue_ \in Seq(Nat) /\ begun \in Seq(Nat)
    /\ lateBegun \in [1..MaxThreads -> Nat]
    /\ pool \in {"alive", "stopping", "joining", "destroyed"}

DynamicLate ==
    \A i \in 1..MaxThreads :
        \/ lateBegun[i] = 0
        \/ /\ lateBegun[i] = 1 /\ pool # "alive"
           /\ i <= Len(workers_) /\ workers_[i] \in {"running", "loop", "left"}

LEMMA DynamicLateStep ==
    DynamicTypes /\ DynamicLate /\ [Dynamic!Next]_dynamicVars
        => (DynamicTypes /\ DynamicLate)'
  <1> SUFFICES ASSUME DynamicTypes, DynamicLate, [Dynamic!Next]_dynamicVars
               PROVE  (DynamicTypes /\ DynamicLate)'
    OBVIOUS
  <1> USE DEF DynamicTypes, DynamicLate
  <1>0. Dynamic!Threads = 1..Len(workers_) /\ MaxThreads \in Nat
    BY PartsAssumption DEF Dynamic!Threads, Dynamic!DynamicPoolV1Assumption
  <1>1. ASSUME NEW c \in Clients, Dynamic!Submit(c)
        PROVE  (DynamicTypes /\ DynamicLate)'
    <2>1. Dynamic!Number + 1 \in Nat
      BY DEF Dynamic!Number
    <2>2. QED  BY <1>1, <2>1 DEF Dynamic!Submit
  <1>2. ASSUME NEW i \in Dynamic!Threads, NEW p \in {"loop", "ready", "deciding",
               "waiting", "timedout", "left"}, Dynamic!Goto(i, p),
               UNCHANGED <<taskQueue_, begun, lateBegun, pool>>,
               lateBegun[i] = 0 \/ p \in {"loop", "left"}
        PROVE  (DynamicTypes /\ DynamicLate)'
    BY <1>0, <1>2 DEF Dynamic!Goto
  <1>3. ASSUME NEW c \in Clients, Dynamic!NotifyOne(c)
        PROVE  (DynamicTypes /\ DynamicLate)'
    <2>1. CASE Dynamic!Waiting = {}
      BY <1>3, <2>1 DEF Dynamic!NotifyOne
    <2>2. CASE Dynamic!Waiting # {}
      <3>1. PICK i \in Dynamic!Threads : workers_[i] = "waiting" /\ Dynamic!Goto(i, "ready")
        BY <1>3, <2>2 DEF Dynamic!NotifyOne, Dynamic!Waiting
      <3>2. lateBegun[i] = 0
        <4>1. i \in 1..MaxThreads
          BY <1>0
        <4>2. QED  BY <3>1, <4>1
      <3>3. QED  BY <1>2, <1>3, <3>1, <3>2 DEF Dynamic!NotifyOne
    <2>3. QED  BY <2>1, <2>2
  <1>4. ASSUME NEW c \in Clients, Dynamic!MaybeSpawnDynamicThread(c)
        PROVE  (DynamicTypes /\ DynamicLate)'
    <2>1. CASE workers_' = workers_
      BY <1>4, <2>1 DEF Dynamic!MaybeSpawnDynamicThread
    <2>2. CASE Len(workers_) < MaxThreads /\ workers_' = Append(workers_, "loop")
      <3>1. /\ Len(workers_') = Len(workers_) + 1
            /\ \A i \in 1..Len(workers_) : workers_'[i] = workers_[i]
        BY <2>2
      <3>2. UNCHANGED <<taskQueue_, begun, lateBegun, pool>>
        BY <1>4 DEF Dynamic!MaybeSpawnDynamicThread
      <3>3. QED  BY <1>0, <2>2, <3>1, <3>2
    <2>3. QED  BY <1>4, <2>1, <2>2 DEF Dynamic!MaybeSpawnDynamicThread
  <1>5. ASSUME NEW i \in Dynamic!Threads,
               \/ Dynamic!Loop(i) \/ Dynamic!SeeIdle(i) \/ Dynamic!Block(i)
               \/ Dynamic!Timeout(i) \/ Dynamic!SpuriousWakeup(i)
               \/ Dynamic!LeaveOnStop(i) \/ Dynamic!GiveUp(i) \/ Dynamic!Return(i)
        PROVE  (DynamicTypes /\ DynamicLate)'
    <2>1. lateBegun[i] = 0 \/ (workers_[i] \in {"running", "loop", "left"} /\ pool # "alive")
      BY <1>0
    <2>2. QED
      BY <1>2, <1>5, <2>1
         DEF Dynamic!Loop, Dynamic!SeeIdle, Dynamic!Block, Dynamic!Timeout,
             Dynamic!SpuriousWakeup, Dynamic!LeaveOnStop, Dynamic!GiveUp, Dynamic!Return,
             Dynamic!stopFlag_
  <1>6. ASSUME NEW i \in Dynamic!Threads, Dynamic!Take(i)
        PROVE  (DynamicTypes /\ DynamicLate)'
    <2>1. lateBegun[i] = 0 /\ i \in 1..MaxThreads
      <3>1. i \in 1..MaxThreads /\ workers_[i] \in {"ready", "timedout"}
        BY <1>0, <1>6 DEF Dynamic!Take
      <3>2. QED  BY <3>1
    <2>2. taskQueue_' \in Seq(Nat) /\ begun' \in Seq(Nat)
      BY <1>6, FrontMoves DEF Dynamic!Take
    <2>3. workers_' = [workers_ EXCEPT ![i] = "running"] /\ pool' = pool
      BY <1>6 DEF Dynamic!Take, Dynamic!Goto
    <2>4. /\ lateBegun' \in [1..MaxThreads -> Nat]
          /\ \A j \in 1..MaxThreads : j # i => lateBegun'[j] = lateBegun[j]
          /\ lateBegun'[i] = IF pool # "alive" THEN 1 ELSE 0
      BY <1>6, <2>1 DEF Dynamic!Take, Dynamic!stopFlag_
    <2>5. /\ Len(workers_') = Len(workers_) /\ workers_'[i] = "running"
          /\ \A j \in 1..Len(workers_) : j # i => workers_'[j] = workers_[j]
          /\ workers_' \in Seq({"loop", "ready", "deciding", "waiting", "timedout",
                                "running", "left"})
      BY <1>0, <2>3
    <2>6. DynamicTypes'
      BY <2>2, <2>3, <2>4, <2>5
    <2>7. DynamicLate'
      BY <1>0, <2>1, <2>3, <2>4, <2>5
    <2>8. QED  BY <2>6, <2>7
  <1>7. CASE Dynamic!StoreStop \/ Dynamic!JoinAll \/ UNCHANGED dynamicVars
    BY <1>7 DEF Dynamic!StoreStop, Dynamic!JoinAll, dynamicVars, Dynamic!stopFlag_
  <1>8. CASE Dynamic!NotifyAll
    BY <1>0, <1>8 DEF Dynamic!NotifyAll, Dynamic!Waiting
  <1> HIDE DEF DynamicTypes, DynamicLate
  <1>9. QED
    BY <1>1, <1>3, <1>4, <1>5, <1>6, <1>7, <1>8 DEF Dynamic!Next, Dynamic!WorkerLoop

LEMMA DynamicOrderStep ==
    DynamicTypes /\ Dynamic!BegunInOrder /\ [Dynamic!Next]_dynamicVars
        => Dynamic!BegunInOrder'
  <1> SUFFICES ASSUME DynamicTypes, Dynamic!BegunInOrder, [Dynamic!Next]_dynamicVars
               PROVE  Dynamic!BegunInOrder'
    OBVIOUS
  <1>0. begun \in Seq(Nat) /\ taskQueue_ \in Seq(Nat)
    BY DEF DynamicTypes
  <1>1. ASSUME NEW c \in Clients, Dynamic!Submit(c)
        PROVE  Dynamic!BegunInOrder'
    <2> DEFINE n == Len(begun) + Len(taskQueue_)
    <2>1. n \in Nat /\ taskQueue_' = Append(taskQueue_, n + 1) /\ begun' = begun
      BY <1>0, <1>1 DEF Dynamic!Submit, Dynamic!Number
    <2>2. Len(begun') + Len(taskQueue_') = n + 1
      BY <1>0, <2>1
    <2>3. begun \o Append(taskQueue_, n + 1) = Append(begun \o taskQueue_, n + 1)
      BY <1>0, <2>1, AppendAfter
    <2>4. begun \o taskQueue_ = [i \in 1..n |-> i]
      BY DEF Dynamic!BegunInOrder, Dynamic!Number
    <2> HIDE DEF n
    <2>5. QED
      BY <2>1, <2>2, <2>3, <2>4, CountOneMore DEF Dynamic!BegunInOrder, Dynamic!Number
  <1>2. ASSUME NEW i \in Dynamic!Threads, Dynamic!Take(i)
        PROVE  Dynamic!BegunInOrder'
    <2>1. begun' \o taskQueue_' = begun \o taskQueue_
      BY <1>0, <1>2, FrontMoves DEF Dynamic!Take
    <2>2. Len(begun') + Len(taskQueue_') = Len(begun) + Len(taskQueue_)
      BY <1>0, <1>2 DEF Dynamic!Take
    <2>3. QED  BY <2>1, <2>2 DEF Dynamic!BegunInOrder, Dynamic!Number
  <1>3. CASE UNCHANGED <<taskQueue_, begun>>
    BY <1>3 DEF Dynamic!BegunInOrder, Dynamic!Number
  <1>4. QED
    BY <1>1, <1>2, <1>3
       DEF Dynamic!Next, Dynamic!WorkerLoop, Dynamic!NotifyOne,
           Dynamic!MaybeSpawnDynamicThread, Dynamic!Loop, Dynamic!SeeIdle, Dynamic!Block,
           Dynamic!Timeout, Dynamic!SpuriousWakeup, Dynamic!LeaveOnStop, Dynamic!GiveUp,
           Dynamic!Return, Dynamic!StoreStop, Dynamic!NotifyAll, Dynamic!JoinAll, dynamicVars

LEMMA DynamicInit == Dynamic!Init => DynamicTypes /\ DynamicLate /\ Dynamic!BegunInOrder
  BY PartsAssumption
     DEF Dynamic!Init, DynamicTypes, DynamicLate, Dynamic!BegunInOrder,
         Dynamic!Number, Dynamic!DynamicPoolV1Assumption

(***************************************************************************)
(* StealingPool.  A deque is increasing, what was taken has no doubles,    *)
(* and what the deques and the threads hold makes up the tasks submitted.  *)
(***************************************************************************)

Increasing(s) == \A i, j \in 1..Len(s) : i < j => s[i] < s[j]
Distinct(s) == \A i, j \in 1..Len(s) : s[i] = s[j] => i = j

StealingTypes ==
    /\ lpc \in [Stealing!Workers -> {"loop", "local", "stealing", "running", "exited"}]
    /\ scan \in [Stealing!Workers -> Seq(Stealing!Workers)]
    /\ task_queue \in [Stealing!Workers -> Seq(Nat)]
    /\ taken \in [Stealing!Workers -> Seq(Nat)]
    /\ lateTake \in [Stealing!Workers -> Nat]
    /\ next_worker \in Nat
    /\ stop \in BOOLEAN

StealingLate ==
    \A w \in Stealing!Workers :
        \/ lateTake[w] = 0
        \/ lateTake[w] = 1 /\ stop /\ lpc[w] \in {"running", "loop", "exited"}

\* The tasks in the deque of w and those w took.
Queued(w) == Elements(task_queue[w])
Taken(w) == Elements(taken[w])

StealingInventory ==
    /\ \A n \in 1..next_worker : \E w \in Stealing!Workers : n \in Queued(w) \cup Taken(w)
    /\ \A w \in Stealing!Workers : /\ Queued(w) \cup Taken(w) \subseteq 1..next_worker
                                   /\ Increasing(task_queue[w])
                                   /\ Distinct(taken[w])
    /\ \A v, w \in Stealing!Workers : Queued(v) \cap Taken(w) = {}
    /\ \A v, w \in Stealing!Workers :
          v # w => Queued(v) \cap Queued(w) = {} /\ Taken(v) \cap Taken(w) = {}

LEMMA TakeFront ==
    ASSUME NEW s \in Seq(Nat), s # <<>>, Increasing(s)
    PROVE  /\ Head(s) \in Nat /\ Tail(s) \in Seq(Nat) /\ Increasing(Tail(s))
           /\ Elements(s) = {Head(s)} \cup Elements(Tail(s))
           /\ Head(s) \notin Elements(Tail(s))
  <1>1. /\ Head(s) = s[1] /\ Head(s) \in Nat /\ Tail(s) \in Seq(Nat)
        /\ Len(s) \in Nat \ {0} /\ Len(Tail(s)) = Len(s) - 1
        /\ \A i \in 1..Len(s) - 1 : Tail(s)[i] = s[i + 1]
    OBVIOUS
  <1>2. Increasing(Tail(s))
    BY <1>1 DEF Increasing
  <1>3. ASSUME NEW i \in 1..Len(s)
        PROVE  s[i] \in {Head(s)} \cup Elements(Tail(s))
    <2>1. CASE i = 1
      BY <1>1, <2>1
    <2>2. CASE i # 1
      <3>1. i - 1 \in 1..Len(Tail(s)) /\ Tail(s)[i - 1] = s[i]
        BY <1>1, <2>2
      <3>2. QED  BY <3>1 DEF Elements
    <2>3. QED  BY <2>1, <2>2
  <1>4. ASSUME NEW i \in 1..Len(Tail(s))
        PROVE  Tail(s)[i] \in Elements(s) /\ Tail(s)[i] # Head(s)
    <2>1. i + 1 \in 1..Len(s) /\ Tail(s)[i] = s[i + 1]
      BY <1>1
    <2>2. s[1] < s[i + 1] /\ s[1] \in Nat /\ s[i + 1] \in Nat
      BY <1>1, <2>1 DEF Increasing
    <2>3. QED  BY <1>1, <2>1, <2>2 DEF Elements
  <1>5. Head(s) \in Elements(s)
    BY <1>1 DEF Elements
  <1>6. QED  BY <1>1, <1>2, <1>3, <1>4, <1>5, ZenonT(30) DEF Elements

LEMMA TakeBack ==
    ASSUME NEW s \in Seq(Nat), s # <<>>, Increasing(s)
    PROVE  LET r == SubSeq(s, 1, Len(s) - 1)
               x == s[Len(s)]
           IN /\ x \in Nat /\ r \in Seq(Nat) /\ Increasing(r)
              /\ Elements(s) = {x} \cup Elements(r)
              /\ x \notin Elements(r)
  <1> DEFINE r == SubSeq(s, 1, Len(s) - 1)
             x == s[Len(s)]
  <1>1. /\ Len(s) \in Nat \ {0} /\ x \in Nat
        /\ r \in Seq(Nat) /\ Len(r) = Len(s) - 1
        /\ \A i \in 1..Len(s) - 1 : r[i] = s[i]
    BY WithoutLast
  <1> HIDE DEF r
  <1>2. Increasing(r)
    <2>1. \A i \in 1..Len(r) : i \in 1..Len(s) /\ r[i] = s[i]
      BY <1>1
    <2>2. QED  BY <2>1 DEF Increasing
  <1>3. Elements(s) = {x} \cup Elements(r)
    BY <1>1, SMTT(30) DEF Elements
  <1>4. x \notin Elements(r)
    <2>1. ASSUME NEW i \in 1..Len(r)
          PROVE  r[i] # x
      <3>1. i \in 1..Len(s) /\ i < Len(s) /\ r[i] = s[i]
        BY <1>1
      <3>2. Len(s) \in 1..Len(s)
        BY <1>1
      <3>3. s[i] < s[Len(s)] /\ s[i] \in Nat
        BY <3>1, <3>2 DEF Increasing
      <3>4. QED  BY <1>1, <3>1, <3>3
    <2>2. QED  BY <2>1 DEF Elements
  <1>5. QED  BY <1>1, <1>2, <1>3, <1>4 DEF r

\* A task leaves the deque of v, at either end, for worker w.
LEMMA TaskMoves ==
    ASSUME StealingTypes, StealingInventory,
           NEW v \in Stealing!Workers, NEW w \in Stealing!Workers,
           NEW x \in Nat, NEW r \in Seq(Nat), Increasing(r),
           Queued(v) = {x} \cup Elements(r), x \notin Elements(r),
           task_queue' = [task_queue EXCEPT ![v] = r],
           taken' = [taken EXCEPT ![w] = Append(@, x)],
           next_worker' = next_worker
    PROVE  StealingInventory'
  <1>1. /\ Queued(v)' = Elements(r) /\ task_queue'[v] = r
        /\ \A u \in Stealing!Workers \ {v} :
              Queued(u)' = Queued(u) /\ task_queue'[u] = task_queue[u]
    BY DEF StealingTypes, Queued
  <1>2. /\ Taken(w)' = Taken(w) \cup {x} /\ taken'[w] = Append(taken[w], x)
        /\ \A u \in Stealing!Workers \ {w} : Taken(u)' = Taken(u) /\ taken'[u] = taken[u]
    <2>1. taken[w] \in Seq(Nat) /\ taken'[w] = Append(taken[w], x)
      BY DEF StealingTypes
    <2>2. Elements(taken'[w]) = Elements(taken[w]) \cup {x}
      BY <2>1, ElementsAppend
    <2>3. QED  BY <2>1, <2>2 DEF StealingTypes, Taken
  <1>3. /\ \A u \in Stealing!Workers : x \notin Taken(u)
        /\ \A u \in Stealing!Workers \ {v} : x \notin Queued(u)
        /\ x \in 1..next_worker
    BY DEF StealingInventory
  <1>4. Distinct(taken'[w])
    <2>1. taken[w] \in Seq(Nat) /\ Distinct(taken[w])
      BY DEF StealingTypes, StealingInventory
    <2>2. \A i \in 1..Len(taken[w]) : taken[w][i] # x
      BY <1>3 DEF Taken, Elements
    <2>3. QED  BY <1>2, <2>1, <2>2 DEF Distinct
  <1>5. \A u \in Stealing!Workers : Queued(u)' \subseteq Queued(u)
    BY <1>1
  <1>6. \A n \in 1..next_worker : \E u \in Stealing!Workers : n \in (Queued(u) \cup Taken(u))'
    <2>1. ASSUME NEW n \in 1..next_worker
          PROVE  \E u \in Stealing!Workers : n \in (Queued(u) \cup Taken(u))'
      <3>1. CASE n = x
        BY <1>2, <3>1
      <3>2. CASE n # x
        <4>1. PICK u \in Stealing!Workers : n \in Queued(u) \cup Taken(u)
          BY DEF StealingInventory
        <4>2. n \in (Queued(u) \cup Taken(u))'
          BY <1>1, <1>2, <3>2, <4>1
        <4>3. QED  BY <4>2
      <3>3. QED  BY <3>1, <3>2
    <2>2. QED  BY <2>1
  <1>7. \A u \in Stealing!Workers : /\ (Queued(u) \cup Taken(u))' \subseteq 1..next_worker
                                    /\ Increasing(task_queue'[u])
                                    /\ Distinct(taken'[u])
    BY <1>1, <1>2, <1>3, <1>4, <1>5 DEF StealingInventory
  <1>8. \A t, u \in Stealing!Workers : (Queued(t) \cap Taken(u))' = {}
    <2>1. ASSUME NEW t \in Stealing!Workers, NEW u \in Stealing!Workers
          PROVE  (Queued(t) \cap Taken(u))' = {}
      <3>1. Queued(t) \cap Taken(u) = {} /\ Queued(t)' \subseteq Queued(t)
        BY <1>5 DEF StealingInventory
      <3>2. x \notin Queued(t)'
        BY <1>1, <1>3
      <3>3. QED  BY <1>2, <3>1, <3>2
    <2>2. QED  BY <2>1
  <1>9. \A t, u \in Stealing!Workers :
           t # u => (Queued(t) \cap Queued(u))' = {} /\ (Taken(t) \cap Taken(u))' = {}
    BY <1>2, <1>3, <1>5 DEF StealingInventory
  <1>10. QED  BY <1>6, <1>7, <1>8, <1>9 DEF StealingInventory

LEMMA StealingInventoryStep ==
    StealingTypes /\ StealingInventory /\ [Stealing!Next]_stealingVars => StealingInventory'
  <1> SUFFICES ASSUME StealingTypes, StealingInventory, [Stealing!Next]_stealingVars
               PROVE  StealingInventory'
    OBVIOUS
  <1>1. CASE Stealing!Submit
    <2>0. next_worker % NThreads \in Stealing!Workers /\ next_worker + 1 \in Nat
      BY PartsAssumption DEF StealingTypes, Stealing!Workers, Stealing!StealingPoolAssumption
    <2>1. PICK k \in Stealing!Workers, n \in Nat :
             k = next_worker % NThreads /\ n = next_worker + 1
      BY <2>0
    <2>2. /\ next_worker' = n /\ taken' = taken
          /\ task_queue' = [task_queue EXCEPT ![k] = Append(@, n)]
      BY <1>1, <2>1 DEF Stealing!Submit, StealingTypes
    <2>3. task_queue[k] \in Seq(Nat)
      BY DEF StealingTypes
    <2>4. /\ Queued(k)' = Queued(k) \cup {n} /\ task_queue'[k] = Append(task_queue[k], n)
          /\ \A u \in Stealing!Workers \ {k} :
                Queued(u)' = Queued(u) /\ task_queue'[u] = task_queue[u]
          /\ \A u \in Stealing!Workers : Taken(u)' = Taken(u)
      <3>1. task_queue'[k] = Append(task_queue[k], n)
        BY <2>2 DEF StealingTypes
      <3>2. Elements(task_queue'[k]) = Elements(task_queue[k]) \cup {n}
        BY <2>3, <3>1, ElementsAppend
      <3>3. QED  BY <2>2, <3>1, <3>2 DEF StealingTypes, Queued, Taken
    <2>5. \A u \in Stealing!Workers : n \notin Queued(u) \cup Taken(u)
      BY <2>1 DEF StealingInventory, StealingTypes
    <2>6. Increasing(task_queue'[k])
      <3>1. ASSUME NEW i \in 1..Len(task_queue[k])
            PROVE  task_queue[k][i] < n
        <4>1. task_queue[k][i] \in 1..next_worker
          BY DEF StealingInventory, Queued, Elements
        <4>2. QED  BY <2>1, <4>1 DEF StealingTypes
      <3>2. Increasing(task_queue[k])
        BY DEF StealingInventory
      <3>3. QED  BY <2>3, <2>4, <3>1, <3>2 DEF Increasing
    <2>7. 1..n = (1..next_worker) \cup {n}
      BY <2>1 DEF StealingTypes
    <2>8. \A m \in 1..n : \E u \in Stealing!Workers : m \in (Queued(u) \cup Taken(u))'
      BY <2>4, <2>7 DEF StealingInventory
    <2>9. \A u \in Stealing!Workers : /\ (Queued(u) \cup Taken(u))' \subseteq 1..n
                                      /\ Increasing(task_queue'[u])
                                      /\ Distinct(taken'[u])
      BY <2>2, <2>4, <2>6, <2>7 DEF StealingInventory
    <2>10. \A t, u \in Stealing!Workers : (Queued(t) \cap Taken(u))' = {}
      BY <2>4, <2>5 DEF StealingInventory
    <2>11. \A t, u \in Stealing!Workers :
             t # u => (Queued(t) \cap Queued(u))' = {} /\ (Taken(t) \cap Taken(u))' = {}
      BY <2>4, <2>5 DEF StealingInventory
    <2>12. QED  BY <2>2, <2>8, <2>9, <2>10, <2>11 DEF StealingInventory
  <1>2. ASSUME NEW w \in Stealing!Workers, Stealing!GetLocalTask(w)
        PROVE  StealingInventory'
    <2>1. /\ task_queue[w] \in Seq(Nat) /\ task_queue[w] # <<>> /\ Increasing(task_queue[w])
      BY <1>2 DEF Stealing!GetLocalTask, StealingTypes, StealingInventory
    <2>2. /\ task_queue' = [task_queue EXCEPT ![w] = Tail(task_queue[w])]
          /\ taken' = [taken EXCEPT ![w] = Append(@, Head(task_queue[w]))]
          /\ next_worker' = next_worker
      BY <1>2 DEF Stealing!GetLocalTask, Stealing!Moved
    <2>3. QED  BY <2>1, <2>2, TakeFront, TaskMoves DEF Queued
  <1>3. ASSUME NEW w \in Stealing!Workers, Stealing!Steal(w)
        PROVE  StealingInventory'
    <2> DEFINE v == Head(scan[w])
               q == task_queue[v]
               r == SubSeq(q, 1, Len(q) - 1)
               x == q[Len(q)]
    <2>1. v \in Stealing!Workers
      BY <1>3 DEF Stealing!Steal, StealingTypes
    <2>2. q \in Seq(Nat) /\ q # <<>> /\ Increasing(q)
      BY <1>3, <2>1 DEF Stealing!Steal, StealingTypes, StealingInventory
    <2>3. /\ task_queue' = [task_queue EXCEPT ![v] = r]
          /\ taken' = [taken EXCEPT ![w] = Append(@, x)]
          /\ next_worker' = next_worker
      BY <1>3 DEF Stealing!Steal, Stealing!Moved
    <2>4. /\ x \in Nat /\ r \in Seq(Nat) /\ Increasing(r)
          /\ Queued(v) = {x} \cup Elements(r) /\ x \notin Elements(r)
      BY <2>2, TakeBack DEF Queued
    <2> HIDE DEF v, r, x
    <2>5. QED  BY <2>1, <2>3, <2>4, TaskMoves
  <1>4. CASE UNCHANGED <<task_queue, taken, next_worker>>
    BY <1>4 DEF StealingInventory, Queued, Taken
  <1>5. QED
    BY <1>1, <1>2, <1>3, <1>4
       DEF Stealing!Next, Stealing!WorkerLoop, Stealing!Loop, Stealing!StartSteal,
           Stealing!TryNext, Stealing!Yield, Stealing!Return, Stealing!StoreStop,
           Stealing!JoinAll, stealingVars

LEMMA StealingLateStep ==
    StealingTypes /\ StealingLate /\ StealingInventory /\ [Stealing!Next]_stealingVars
        => (StealingTypes /\ StealingLate)'
  <1> SUFFICES ASSUME StealingTypes, StealingLate, StealingInventory,
                      [Stealing!Next]_stealingVars
               PROVE  (StealingTypes /\ StealingLate)'
    OBVIOUS
  <1> USE DEF StealingTypes, StealingLate
  <1>1. CASE Stealing!Submit
    <2>1. task_queue' \in [Stealing!Workers -> Seq(Nat)]
      <3>1. next_worker % NThreads \in Stealing!Workers /\ next_worker + 1 \in Nat
        BY PartsAssumption DEF Stealing!Workers, Stealing!StealingPoolAssumption
      <3>2. \A k \in Stealing!Workers, n \in Nat : Append(task_queue[k], n) \in Seq(Nat)
        OBVIOUS
      <3>3. QED  BY <1>1, <3>1, <3>2 DEF Stealing!Submit
    <2>2. QED  BY <1>1, <2>1 DEF Stealing!Submit
  <1>2. ASSUME NEW w \in Stealing!Workers,
               NEW p \in {"loop", "local", "stealing", "exited"},
               lpc' = [lpc EXCEPT ![w] = p], lateTake[w] = 0 \/ p \in {"loop", "exited"},
               UNCHANGED <<task_queue, taken, next_worker, lateTake, stop>>,
               scan' \in [Stealing!Workers -> Seq(Stealing!Workers)]
        PROVE  (StealingTypes /\ StealingLate)'
    BY <1>2
  <1>3. ASSUME NEW w \in Stealing!Workers,
               Stealing!Loop(w) \/ Stealing!Yield(w) \/ Stealing!Return(w)
        PROVE  (StealingTypes /\ StealingLate)'
    <2>1. lateTake[w] = 0 \/ stop
      BY DEF StealingLate
    <2>2. QED
      BY <1>2, <1>3, <2>1 DEF Stealing!Loop, Stealing!Yield, Stealing!Return
  <1>4. ASSUME NEW w \in Stealing!Workers, Stealing!StartSteal(w)
        PROVE  (StealingTypes /\ StealingLate)'
    <2>1. PICK start \in Stealing!Workers :
            scan' = [scan EXCEPT ![w] = [i \in 1..NThreads |-> (start + i - 1) % NThreads]]
      BY <1>4 DEF Stealing!StartSteal
    <2>2. \A i \in 1..NThreads : (start + i - 1) % NThreads \in Stealing!Workers
      BY PartsAssumption DEF Stealing!Workers, Stealing!StealingPoolAssumption
    <2>3. [i \in 1..NThreads |-> (start + i - 1) % NThreads] \in Seq(Stealing!Workers)
      BY <2>2, PartsAssumption DEF Stealing!StealingPoolAssumption
    <2>4. scan' \in [Stealing!Workers -> Seq(Stealing!Workers)]
      BY <2>1, <2>3
    <2>5. lateTake[w] = 0
      BY <1>4 DEF Stealing!StartSteal
    <2>6. QED  BY <1>2, <1>4, <2>4, <2>5 DEF Stealing!StartSteal
  <1>5. ASSUME NEW w \in Stealing!Workers, Stealing!TryNext(w)
        PROVE  (StealingTypes /\ StealingLate)'
    <2>1. scan' \in [Stealing!Workers -> Seq(Stealing!Workers)]
      BY <1>5 DEF Stealing!TryNext
    <2>2. QED  BY <1>5, <2>1 DEF Stealing!TryNext
  <1>6. ASSUME NEW w \in Stealing!Workers, NEW v \in Stealing!Workers,
               NEW x \in Nat, NEW r \in Seq(Nat), Stealing!Moved(w, x),
               lateTake[w] = 0, task_queue' = [task_queue EXCEPT ![v] = r],
               scan' \in [Stealing!Workers -> Seq(Stealing!Workers)],
               UNCHANGED <<next_worker, stop>>
        PROVE  (StealingTypes /\ StealingLate)'
    <2>1. taken' \in [Stealing!Workers -> Seq(Nat)]
      BY <1>6 DEF Stealing!Moved
    <2>2. /\ lateTake' \in [Stealing!Workers -> Nat]
          /\ \A u \in Stealing!Workers : u # w => lateTake'[u] = lateTake[u]
          /\ lateTake'[w] = IF stop THEN 1 ELSE 0
      BY <1>6 DEF Stealing!Moved
    <2>3. QED  BY <1>6, <2>1, <2>2 DEF Stealing!Moved
  <1>7. ASSUME NEW w \in Stealing!Workers, Stealing!GetLocalTask(w)
        PROVE  (StealingTypes /\ StealingLate)'
    <2>1. task_queue[w] \in Seq(Nat) /\ task_queue[w] # <<>> /\ lateTake[w] = 0
      BY <1>7 DEF Stealing!GetLocalTask
    <2>2. /\ Stealing!Moved(w, Head(task_queue[w]))
          /\ task_queue' = [task_queue EXCEPT ![w] = Tail(task_queue[w])]
          /\ UNCHANGED <<scan, next_worker, stop>>
      BY <1>7 DEF Stealing!GetLocalTask
    <2>3. Head(task_queue[w]) \in Nat /\ Tail(task_queue[w]) \in Seq(Nat)
      BY <2>1
    <2>4. QED  BY <1>6, <2>1, <2>2, <2>3
  <1>8. ASSUME NEW w \in Stealing!Workers, Stealing!Steal(w)
        PROVE  (StealingTypes /\ StealingLate)'
    <2> DEFINE v == Head(scan[w])
               q == task_queue[v]
    <2>1. v \in Stealing!Workers /\ lateTake[w] = 0
      <3>1. scan[w] \in Seq(Stealing!Workers) /\ scan[w] # <<>> /\ lpc[w] = "stealing"
        BY <1>8 DEF Stealing!Steal
      <3>2. v \in Stealing!Workers
        BY <3>1
      <3>3. QED  BY <3>1, <3>2
    <2>2. q \in Seq(Nat) /\ q # <<>>
      BY <1>8, <2>1 DEF Stealing!Steal
    <2>3. q[Len(q)] \in Nat /\ SubSeq(q, 1, Len(q) - 1) \in Seq(Nat)
      BY <2>2, WithoutLast
    <2>4. /\ Stealing!Moved(w, q[Len(q)])
          /\ task_queue' = [task_queue EXCEPT ![v] = SubSeq(q, 1, Len(q) - 1)]
          /\ scan' \in [Stealing!Workers -> Seq(Stealing!Workers)]
          /\ UNCHANGED <<next_worker, stop>>
      BY <1>8 DEF Stealing!Steal
    <2> HIDE DEF v
    <2>5. QED  BY <1>6, <2>1, <2>3, <2>4
  <1>9. CASE Stealing!StoreStop \/ Stealing!JoinAll \/ UNCHANGED stealingVars
    BY <1>9 DEF Stealing!StoreStop, Stealing!JoinAll, stealingVars
  <1> HIDE DEF StealingTypes, StealingLate
  <1>10. QED
    BY <1>1, <1>3, <1>4, <1>5, <1>7, <1>8, <1>9 DEF Stealing!Next, Stealing!WorkerLoop

LEMMA StealingInit ==
    Stealing!Init => StealingTypes /\ StealingLate /\ StealingInventory
  <1> SUFFICES ASSUME Stealing!Init
               PROVE  StealingTypes /\ StealingLate /\ StealingInventory
    OBVIOUS
  <1>1. /\ [w \in Stealing!Workers |-> <<>>] \in [Stealing!Workers -> Seq(Nat)]
        /\ [w \in Stealing!Workers |-> <<>>] \in [Stealing!Workers -> Seq(Stealing!Workers)]
        /\ [w \in Stealing!Workers |-> 0] \in [Stealing!Workers -> Nat]
    OBVIOUS
  <1>2. StealingTypes /\ StealingLate
    BY <1>1 DEF Stealing!Init, StealingTypes, StealingLate
  <1>3. \A w \in Stealing!Workers : task_queue[w] = <<>> /\ taken[w] = <<>>
    BY DEF Stealing!Init
  <1>4. \A w \in Stealing!Workers : /\ Queued(w) = {} /\ Taken(w) = {}
                                    /\ Increasing(task_queue[w]) /\ Distinct(taken[w])
    BY <1>3 DEF Queued, Taken, Elements, Increasing, Distinct
  <1>5. 1..next_worker = {}
    BY DEF Stealing!Init
  <1>6. QED  BY <1>2, <1>4, <1>5 DEF StealingInventory

LEMMA ElementsConcat ==
    ASSUME NEW S, NEW a \in Seq(S), NEW b \in Seq(S)
    PROVE  Elements(a \o b) = Elements(a) \cup Elements(b)
  <1>1. /\ Len(a) \in Nat /\ Len(b) \in Nat /\ Len(a \o b) = Len(a) + Len(b)
        /\ \A i \in 1..Len(a) + Len(b) :
              (a \o b)[i] = IF i <= Len(a) THEN a[i] ELSE b[i - Len(a)]
    BY ConcatProperties
  <1>2. ASSUME NEW i \in 1..Len(a \o b)
        PROVE  (a \o b)[i] \in Elements(a) \cup Elements(b)
    <2>1. CASE i <= Len(a)
      BY <1>1, <2>1 DEF Elements
    <2>2. CASE i > Len(a)
      <3>1. i - Len(a) \in 1..Len(b) /\ (a \o b)[i] = b[i - Len(a)]
        BY <1>1, <2>2
      <3>2. QED  BY <3>1 DEF Elements
    <2>3. QED  BY <1>1, <2>1, <2>2
  <1>3. ASSUME NEW i \in 1..Len(a)
        PROVE  a[i] \in Elements(a \o b)
    <2>1. i \in 1..Len(a \o b) /\ (a \o b)[i] = a[i]
      BY <1>1
    <2>2. QED  BY <2>1 DEF Elements
  <1>4. ASSUME NEW i \in 1..Len(b)
        PROVE  b[i] \in Elements(a \o b)
    <2>1. Len(a) + i \in 1..Len(a \o b) /\ (a \o b)[Len(a) + i] = b[i]
      BY <1>1
    <2>2. QED  BY <2>1 DEF Elements
  <1>5. QED  BY <1>2, <1>3, <1>4 DEF Elements

LEMMA DistinctCardinality ==
    ASSUME NEW S, NEW s \in Seq(S), Distinct(s)
    PROVE  Cardinality(Elements(s)) = Len(s)
  <1>1. Len(s) \in Nat /\ s \in [1..Len(s) -> S]
    OBVIOUS
  <1>2. s \in [1..Len(s) -> Elements(s)]
    BY <1>1 DEF Elements
  <1>3. s \in Bijection(1..Len(s), Elements(s))
    <2>1. s \in Injection(1..Len(s), Elements(s))
      BY <1>2 DEF Distinct, Injection, IsInjective
    <2>2. s \in Surjection(1..Len(s), Elements(s))
      BY <1>2 DEF Elements, Surjection
    <2>3. QED  BY <2>1, <2>2 DEF Bijection
  <1>4. QED  BY <1>1, <1>3, FS_CountingElements DEF ExistsBijection

LEMMA DistinctConcat ==
    ASSUME NEW a \in Seq(Nat), NEW b \in Seq(Nat), Increasing(a), Distinct(b),
           Elements(a) \cap Elements(b) = {}
    PROVE  Distinct(a \o b)
  <1>1. /\ Len(a) \in Nat /\ Len(b) \in Nat /\ Len(a \o b) = Len(a) + Len(b)
        /\ \A i \in 1..Len(a) + Len(b) :
              (a \o b)[i] = IF i <= Len(a) THEN a[i] ELSE b[i - Len(a)]
    BY ConcatProperties
  <1>2. ASSUME NEW i \in 1..Len(a), NEW j \in 1..Len(a), a[i] = a[j]
        PROVE  i = j
    <2>1. a[i] \in Nat /\ a[j] \in Nat /\ (i < j \/ j < i \/ i = j)
      OBVIOUS
    <2>2. QED  BY <1>2, <2>1 DEF Increasing
  <1>3. ASSUME NEW i \in 1..Len(a), NEW j \in 1..Len(b)
        PROVE  a[i] # b[j]
    BY DEF Elements
  <1>4. ASSUME NEW i \in 1..Len(a \o b), NEW j \in 1..Len(a \o b), (a \o b)[i] = (a \o b)[j]
        PROVE  i = j
    <2>1. CASE i <= Len(a) /\ j <= Len(a)
      BY <1>1, <1>2, <1>4, <2>1
    <2>2. CASE i <= Len(a) /\ j > Len(a)
      <3>1. j - Len(a) \in 1..Len(b) /\ i \in 1..Len(a)
        BY <1>1, <2>2
      <3>2. QED  BY <1>1, <1>3, <1>4, <2>2, <3>1
    <2>3. CASE i > Len(a) /\ j <= Len(a)
      <3>1. i - Len(a) \in 1..Len(b) /\ j \in 1..Len(a)
        BY <1>1, <2>3
      <3>2. QED  BY <1>1, <1>3, <1>4, <2>3, <3>1
    <2>4. CASE i > Len(a) /\ j > Len(a)
      <3>1. i - Len(a) \in 1..Len(b) /\ j - Len(a) \in 1..Len(b)
        BY <1>1, <2>4
      <3>2. b[i - Len(a)] = b[j - Len(a)]
        BY <1>1, <1>4, <2>4
      <3>3. i - Len(a) = j - Len(a)
        BY <3>1, <3>2 DEF Distinct
      <3>4. QED  BY <1>1, <3>3
    <2>5. QED  BY <1>1, <2>1, <2>2, <2>3, <2>4
  <1>5. QED  BY <1>4 DEF Distinct

LEMMA StealingTakenOnce == StealingTypes /\ StealingInventory => Stealing!TakenOnce
  <1> SUFFICES ASSUME StealingTypes, StealingInventory
               PROVE  Stealing!TakenOnce
    OBVIOUS
  <1> DEFINE held == [w \in Stealing!Workers |-> task_queue[w] \o taken[w]]
  <1>1. ASSUME NEW w \in Stealing!Workers
        PROVE  /\ held[w] \in Seq(Nat)
               /\ Stealing!Elements(held[w]) = Queued(w) \cup Taken(w)
               /\ Cardinality(Stealing!Elements(held[w])) = Len(held[w])
    <2>1. task_queue[w] \in Seq(Nat) /\ taken[w] \in Seq(Nat)
      BY DEF StealingTypes
    <2>2. held[w] = task_queue[w] \o taken[w] /\ held[w] \in Seq(Nat)
      BY <2>1, ConcatProperties
    <2>3. Stealing!Elements(held[w]) = Elements(held[w])
      BY DEF Stealing!Elements, Elements
    <2>4. Elements(held[w]) = Queued(w) \cup Taken(w)
      BY <2>1, <2>2, ElementsConcat DEF Queued, Taken
    <2>5. Distinct(held[w])
      BY <2>1, <2>2, DistinctConcat DEF StealingInventory, Queued, Taken
    <2> HIDE DEF held
    <2>6. QED  BY <2>2, <2>3, <2>4, <2>5, DistinctCardinality
  <1> HIDE DEF held
  <1>2. UNION {Stealing!Elements(held[w]) : w \in Stealing!Workers} = 1..next_worker
    <2>1. ASSUME NEW w \in Stealing!Workers
          PROVE  Stealing!Elements(held[w]) \subseteq 1..next_worker
      BY <1>1 DEF StealingInventory
    <2>2. ASSUME NEW n \in 1..next_worker
          PROVE  \E w \in Stealing!Workers : n \in Stealing!Elements(held[w])
      BY <1>1 DEF StealingInventory
    <2>3. QED  BY <2>1, <2>2
  <1>3. ASSUME NEW v \in Stealing!Workers, NEW w \in Stealing!Workers, v # w
        PROVE  Stealing!Elements(held[v]) \cap Stealing!Elements(held[w]) = {}
    <2>1. /\ Queued(v) \cap Queued(w) = {} /\ Taken(v) \cap Taken(w) = {}
          /\ Queued(v) \cap Taken(w) = {} /\ Queued(w) \cap Taken(v) = {}
      BY <1>3 DEF StealingInventory
    <2>2. QED  BY <1>1, <2>1
  <1>4. ASSUME NEW w \in Stealing!Workers, NEW i \in 2..Len(task_queue[w])
        PROVE  task_queue[w][i - 1] < task_queue[w][i]
    <2>1. Increasing(task_queue[w]) /\ Len(task_queue[w]) \in Nat
      BY DEF StealingInventory, StealingTypes
    <2>2. i - 1 \in 1..Len(task_queue[w]) /\ i \in 1..Len(task_queue[w]) /\ i - 1 < i
      BY <2>1
    <2>3. QED  BY <2>1, <2>2 DEF Increasing
  <1>5. \A w \in Stealing!Workers :
           Stealing!Cardinality(Stealing!Elements(held[w])) = Len(held[w])
    <2>1. \A E : Stealing!Cardinality(E) = Cardinality(E)
      BY DEF Cardinality, Stealing!Cardinality
    <2>2. QED  BY <1>1, <2>1
  <1>6. \A v, w \in Stealing!Workers :
           v # w => Stealing!Elements(held[v]) \cap Stealing!Elements(held[w]) = {}
    BY <1>3
  <1>7. \A w \in Stealing!Workers : \A i \in 2..Len(task_queue[w]) :
           task_queue[w][i - 1] < task_queue[w][i]
    BY <1>4
  <1>8. QED  BY <1>2, <1>5, <1>6, <1>7 DEF Stealing!TakenOnce, held

(***************************************************************************)
(* RejectingPool.                                                          *)
(***************************************************************************)

RejectingTypes ==
    /\ wpc \in [PoolWorkers -> {"ready", "deciding", "waiting", "running", "exited"}]
    /\ current \in [PoolWorkers -> Tasks \cup {NoTask}]
    /\ epc \in [Rejecting!Threads -> {"out", "pushing", "notifying"}]
    /\ offered \in [Rejecting!Threads -> Tasks \cup {NoTask}]
    /\ tasks_ \in Seq(Tasks)
    /\ accepted \subseteq Tasks /\ rejected \subseteq Tasks /\ finished \subseteq Tasks
    /\ \A w \in PoolWorkers : current[w] = NoTask <=> wpc[w] # "running"
    /\ \A t \in Rejecting!Threads : offered[t] = NoTask <=> epc[t] # "pushing"

\* Where the tasks are; what is being offered has not been rejected.
Active == {current[w] : w \in Rejecting!WorkersAt("running")}
RejectingPlacement ==
    /\ accepted \cap rejected = {}
    /\ \A t \in Rejecting!Threads : offered[t] \notin rejected
    /\ accepted = Elements(tasks_) \cup finished \cup Active

\* Who may still enqueue: a client while the pool lives, and whoever runs a task.
\* The last worker to leave leaves an empty queue, which nobody can fill.
RejectingShutdown ==
    /\ stop_ \in BOOLEAN
    /\ stop_ <=> dtor # "alive"
    /\ \A w \in PoolWorkers : wpc[w] = "exited" => stop_
    /\ \A c \in Clients : epc[c] # "out" => dtor = "alive"
    /\ \A w \in PoolWorkers : epc[w] # "out" => wpc[w] = "running"
    /\ (\A w \in PoolWorkers : wpc[w] = "exited") => tasks_ = <<>>
    /\ dtor = "destroyed" => \A w \in PoolWorkers : wpc[w] = "exited"

LEMMA ElementsWithout ==
    ASSUME NEW S, NEW s \in Seq(S), NEW k \in 1..Len(s)
    PROVE  /\ Rejecting!Without(s, k) \in Seq(S)
           /\ Elements(s) = {s[k]} \cup Elements(Rejecting!Without(s, k))
  <1> DEFINE a == SubSeq(s, 1, k - 1)
             b == SubSeq(s, k + 1, Len(s))
  <1>0. Len(s) \in Nat /\ k \in Nat /\ \A i \in 1..Len(s) : s[i] \in S
    OBVIOUS
  <1>1. /\ a \in Seq(S) /\ Len(a) = k - 1
        /\ \A i \in 1..k - 1 : a[i] = s[i]
    <2>1. /\ 1 \in Int /\ k - 1 \in Int /\ \A i \in 1..k - 1 : s[i] \in S
      BY <1>0
    <2>2. /\ a \in Seq(S) /\ Len(a) = IF 1 <= k - 1 THEN k - 1 - 1 + 1 ELSE 0
          /\ \A i \in 1..k - 1 - 1 + 1 : a[i] = s[1 + i - 1]
      BY <2>1, SubSeqProperties
    <2> HIDE DEF a
    <2>3. k - 1 - 1 + 1 = k - 1 /\ \A i \in 1..k - 1 : 1 + i - 1 = i
      BY <1>0
    <2>4. QED  BY <1>0, <2>2, <2>3
  <1>2. /\ b \in Seq(S) /\ Len(b) = Len(s) - k
        /\ \A i \in 1..Len(s) - k : b[i] = s[k + i]
    <2>1. /\ k + 1 \in Int /\ Len(s) \in Int /\ \A i \in k + 1..Len(s) : s[i] \in S
      BY <1>0
    <2>2. /\ b \in Seq(S) /\ Len(b) = IF k + 1 <= Len(s) THEN Len(s) - (k + 1) + 1 ELSE 0
          /\ \A i \in 1..Len(s) - (k + 1) + 1 : b[i] = s[k + 1 + i - 1]
      BY <2>1, SubSeqProperties
    <2> HIDE DEF b
    <2>3. /\ Len(s) - (k + 1) + 1 = Len(s) - k
          /\ \A i \in 1..Len(s) - k : k + 1 + i - 1 = k + i
      BY <1>0
    <2>4. Len(b) = Len(s) - k
      BY <1>0, <2>2
    <2>5. ASSUME NEW i \in 1..Len(s) - k
          PROVE  b[i] = s[k + i]
      BY <2>2, <2>3
    <2>6. QED  BY <2>2, <2>4, <2>5
  <1> HIDE DEF a, b
  <1>3. Rejecting!Without(s, k) = a \o b
    BY DEF a, b, Rejecting!Without
  <1>4. Elements(a \o b) = Elements(a) \cup Elements(b) /\ a \o b \in Seq(S)
    BY <1>1, <1>2, ElementsConcat, ConcatProperties
  <1>5. ASSUME NEW i \in 1..Len(s), i # k
        PROVE  s[i] \in Elements(a) \cup Elements(b)
    <2>1. CASE i < k
      <3>1. i \in 1..Len(a) /\ a[i] = s[i]
        BY <1>0, <1>1, <2>1
      <3>2. QED  BY <3>1 DEF Elements
    <2>2. CASE i > k
      <3>1. i - k \in 1..Len(b) /\ b[i - k] = s[i]
        BY <1>0, <1>2, <2>2
      <3>2. QED  BY <3>1 DEF Elements
    <2>3. QED  BY <1>0, <1>5, <2>1, <2>2
  <1>6. ASSUME NEW i \in 1..Len(a)
        PROVE  a[i] \in Elements(s)
    <2>1. i \in 1..Len(s) /\ a[i] = s[i]
      BY <1>0, <1>1
    <2>2. QED  BY <2>1 DEF Elements
  <1>7. ASSUME NEW i \in 1..Len(b)
        PROVE  b[i] \in Elements(s)
    <2>1. k + i \in 1..Len(s) /\ b[i] = s[k + i]
      BY <1>0, <1>2
    <2>2. QED  BY <2>1 DEF Elements
  <1>8. Elements(s) \subseteq {s[k]} \cup Elements(a) \cup Elements(b)
    BY <1>5 DEF Elements
  <1>9. {s[k]} \cup Elements(a) \cup Elements(b) \subseteq Elements(s)
    BY <1>6, <1>7 DEF Elements
  <1>10. QED  BY <1>3, <1>4, <1>8, <1>9

LEMMA TopsAreQueued ==
    ASSUME tasks_ \in Seq(Tasks)
    PROVE  Rejecting!Tops \subseteq 1..Len(tasks_)
  <1>1. DOMAIN tasks_ = 1..Len(tasks_)
    OBVIOUS
  <1>2. QED  BY <1>1 DEF Rejecting!Tops

LEMMA RejectingTypesStep ==
    RejectingTypes /\ [Rejecting!Next]_rejectingVars => RejectingTypes'
  <1> SUFFICES ASSUME RejectingTypes, [Rejecting!Next]_rejectingVars
               PROVE  RejectingTypes'
    OBVIOUS
  <1> USE DEF RejectingTypes
  <1>0. NoTask \notin Tasks
    BY PartsAssumption DEF Rejecting!RejectingPoolAssumption
  <1>1. ASSUME NEW t \in Rejecting!Threads, NEW x \in Tasks, Rejecting!EnterEnqueue(t, x)
        PROVE  RejectingTypes'
    BY <1>0, <1>1 DEF Rejecting!EnterEnqueue
  <1>2. ASSUME NEW t \in Rejecting!Threads, NEW x \in Tasks, Rejecting!Reject(t, x)
        PROVE  RejectingTypes'
    BY <1>2 DEF Rejecting!Reject
  <1>3. ASSUME NEW t \in Rejecting!Threads, Rejecting!Push(t)
        PROVE  RejectingTypes'
    <2>1. offered[t] \in Tasks
      BY <1>3 DEF Rejecting!Push
    <2>2. QED  BY <1>3, <2>1 DEF Rejecting!Push
  <1>4. ASSUME NEW w \in PoolWorkers, NEW p \in {"ready", "deciding", "waiting", "exited"},
               wpc[w] # "running", wpc' = [wpc EXCEPT ![w] = p],
               epc' \in [Rejecting!Threads -> {"out", "pushing", "notifying"}],
               \A t \in Rejecting!Threads : epc'[t] = "pushing" <=> epc[t] = "pushing",
               UNCHANGED <<current, offered, tasks_, accepted, rejected, finished>>
        PROVE  RejectingTypes'
    BY <1>4
  <1>5. ASSUME NEW t \in Rejecting!Threads, Rejecting!NotifyOne(t)
        PROVE  RejectingTypes'
    <2>1. /\ epc' \in [Rejecting!Threads -> {"out", "pushing", "notifying"}]
          /\ \A u \in Rejecting!Threads : epc'[u] = "pushing" <=> epc[u] = "pushing"
          /\ UNCHANGED <<current, offered, tasks_, accepted, rejected, finished>>
      BY <1>5 DEF Rejecting!NotifyOne
    <2>2. CASE Rejecting!Waiting = {}
      BY <1>5, <2>1, <2>2 DEF Rejecting!NotifyOne
    <2>3. CASE Rejecting!Waiting # {}
      <3>1. PICK w \in PoolWorkers :
              wpc[w] = "waiting" /\ wpc' = [wpc EXCEPT ![w] = "ready"]
        BY <1>5, <2>3 DEF Rejecting!NotifyOne, Rejecting!Waiting, Rejecting!WorkersAt
      <3>2. QED  BY <1>4, <2>1, <3>1
    <2>4. QED  BY <2>2, <2>3
  <1>6. ASSUME NEW w \in PoolWorkers,
               \/ Rejecting!SeeIdle(w) \/ Rejecting!Block(w) \/ Rejecting!Exit(w)
               \/ Rejecting!SpuriousWakeup(w)
        PROVE  RejectingTypes'
    BY <1>4, <1>6 DEF Rejecting!SeeIdle, Rejecting!Block, Rejecting!Exit,
                      Rejecting!SpuriousWakeup
  <1>7. ASSUME NEW w \in PoolWorkers, Rejecting!Take(w)
        PROVE  RejectingTypes'
    <2>1. PICK i \in 1..Len(tasks_) : /\ tasks_' = Rejecting!Without(tasks_, i)
                                      /\ current' = [current EXCEPT ![w] = tasks_[i]]
      BY <1>7, TopsAreQueued DEF Rejecting!Take
    <2>2. tasks_' \in Seq(Tasks) /\ tasks_[i] \in Tasks
      BY <2>1, ElementsWithout
    <2>3. QED  BY <1>0, <1>7, <2>1, <2>2 DEF Rejecting!Take
  <1>8. ASSUME NEW w \in PoolWorkers, Rejecting!Finish(w)
        PROVE  RejectingTypes'
    <2>1. current[w] \in Tasks
      BY <1>8 DEF Rejecting!Finish
    <2>2. QED  BY <1>8, <2>1 DEF Rejecting!Finish
  <1>9. CASE Rejecting!StoreStop \/ Rejecting!JoinAll \/ UNCHANGED rejectingVars
    BY <1>9 DEF Rejecting!StoreStop, Rejecting!JoinAll, rejectingVars
  <1>10. CASE Rejecting!NotifyAll
    BY <1>10 DEF Rejecting!NotifyAll, Rejecting!Waiting, Rejecting!WorkersAt
  <1> HIDE DEF RejectingTypes
  <1>11. QED
    BY <1>1, <1>2, <1>3, <1>5, <1>6, <1>7, <1>8, <1>9, <1>10
       DEF Rejecting!Next, Rejecting!Enqueue, Rejecting!Worker

LEMMA RejectingPlacementStep ==
    RejectingTypes /\ RejectingPlacement /\ [Rejecting!Next]_rejectingVars
        => RejectingPlacement'
  <1> SUFFICES ASSUME RejectingTypes, RejectingPlacement, [Rejecting!Next]_rejectingVars
               PROVE  RejectingPlacement'
    OBVIOUS
  <1>0. NoTask \notin Tasks
    BY PartsAssumption DEF Rejecting!RejectingPoolAssumption
  <1>1. CASE /\ UNCHANGED <<current, tasks_, accepted, rejected, finished>>
             /\ \A w \in PoolWorkers : wpc'[w] = "running" <=> wpc[w] = "running"
             /\ \A t \in Rejecting!Threads : offered'[t] \notin rejected
    <2>1. Active' = Active
      BY <1>1 DEF Active, Rejecting!WorkersAt
    <2>2. QED  BY <1>1, <2>1 DEF RejectingPlacement
  <1>2. ASSUME NEW t \in Rejecting!Threads, NEW x \in Tasks, Rejecting!EnterEnqueue(t, x)
        PROVE  RejectingPlacement'
    <2>1. /\ UNCHANGED <<wpc, current, tasks_, accepted, rejected, finished>>
          /\ offered' = [offered EXCEPT ![t] = x] /\ x \notin rejected
      BY <1>2 DEF Rejecting!EnterEnqueue, Rejecting!MayEnqueue
    <2>2. \A u \in Rejecting!Threads : offered'[u] \notin rejected
      BY <2>1 DEF RejectingTypes, RejectingPlacement
    <2>3. QED  BY <1>1, <2>1, <2>2
  <1>3. ASSUME NEW t \in Rejecting!Threads, NEW x \in Tasks, Rejecting!Reject(t, x)
        PROVE  RejectingPlacement'
    <2>1. /\ UNCHANGED <<wpc, current, offered, tasks_, accepted, finished>>
          /\ rejected' = rejected \cup {x} /\ x \notin accepted
          /\ \A u \in Rejecting!Threads : offered[u] # x
      BY <1>3 DEF Rejecting!Reject, Rejecting!MayEnqueue
    <2>2. Active' = Active
      BY <2>1 DEF Active, Rejecting!WorkersAt
    <2>3. QED  BY <2>1, <2>2 DEF RejectingPlacement
  <1>4. ASSUME NEW t \in Rejecting!Threads, Rejecting!Push(t)
        PROVE  RejectingPlacement'
    <2>1. PICK x \in Tasks : x = offered[t]
      BY <1>4 DEF Rejecting!Push, RejectingTypes
    <2>2. /\ UNCHANGED <<wpc, current, rejected, finished>>
          /\ tasks_' = Append(tasks_, x) /\ accepted' = accepted \cup {x}
          /\ offered' = [offered EXCEPT ![t] = NoTask]
      BY <1>4, <2>1 DEF Rejecting!Push
    <2>3. Elements(tasks_') = Elements(tasks_) \cup {x}
      BY <2>2, ElementsAppend DEF RejectingTypes
    <2>4. Active' = Active
      BY <2>2 DEF Active, Rejecting!WorkersAt
    <2>5. x \notin rejected /\ NoTask \notin rejected
      BY <1>0, <2>1 DEF RejectingPlacement, RejectingTypes
    <2>6. \A u \in Rejecting!Threads : offered'[u] \notin rejected'
      BY <2>2, <2>5 DEF RejectingPlacement, RejectingTypes
    <2>7. QED  BY <2>2, <2>3, <2>4, <2>5, <2>6 DEF RejectingPlacement
  <1>5. ASSUME NEW t \in Rejecting!Threads, Rejecting!NotifyOne(t)
        PROVE  RejectingPlacement'
    <2>1. \A w \in PoolWorkers : wpc'[w] = "running" <=> wpc[w] = "running"
      BY <1>5 DEF Rejecting!NotifyOne, Rejecting!Waiting, Rejecting!WorkersAt, RejectingTypes
    <2>2. QED  BY <1>1, <1>5, <2>1 DEF Rejecting!NotifyOne, RejectingPlacement
  <1>6. ASSUME NEW w \in PoolWorkers,
               \/ Rejecting!SeeIdle(w) \/ Rejecting!Block(w) \/ Rejecting!Exit(w)
               \/ Rejecting!SpuriousWakeup(w)
        PROVE  RejectingPlacement'
    BY <1>1, <1>6 DEF Rejecting!SeeIdle, Rejecting!Block, Rejecting!Exit,
                      Rejecting!SpuriousWakeup, RejectingTypes, RejectingPlacement
  <1>7. ASSUME NEW w \in PoolWorkers, Rejecting!Take(w)
        PROVE  RejectingPlacement'
    <2>1. PICK i \in 1..Len(tasks_) : /\ tasks_' = Rejecting!Without(tasks_, i)
                                      /\ current' = [current EXCEPT ![w] = tasks_[i]]
      BY <1>7, TopsAreQueued DEF Rejecting!Take, RejectingTypes
    <2>2. Elements(tasks_) = {tasks_[i]} \cup Elements(tasks_')
      BY <2>1, ElementsWithout DEF RejectingTypes
    <2>3. /\ wpc' = [wpc EXCEPT ![w] = "running"] /\ wpc[w] = "ready"
          /\ UNCHANGED <<offered, accepted, rejected, finished>>
      BY <1>7 DEF Rejecting!Take
    <2>4. Active' = Active \cup {tasks_[i]}
      BY <2>1, <2>3 DEF Active, Rejecting!WorkersAt, RejectingTypes
    <2>5. QED  BY <2>2, <2>3, <2>4 DEF RejectingPlacement
  <1>8. ASSUME NEW w \in PoolWorkers, Rejecting!Finish(w)
        PROVE  RejectingPlacement'
    <2>1. /\ wpc' = [wpc EXCEPT ![w] = "ready"] /\ wpc[w] = "running"
          /\ current' = [current EXCEPT ![w] = NoTask]
          /\ finished' = finished \cup {current[w]}
          /\ UNCHANGED <<offered, tasks_, accepted, rejected>>
      BY <1>8 DEF Rejecting!Finish
    <2>2. Active = Active' \cup {current[w]}
      BY <2>1 DEF Active, Rejecting!WorkersAt, RejectingTypes
    <2>3. QED  BY <2>1, <2>2 DEF RejectingPlacement
  <1>9. CASE Rejecting!StoreStop \/ Rejecting!JoinAll \/ UNCHANGED rejectingVars
    BY <1>1, <1>9 DEF Rejecting!StoreStop, Rejecting!JoinAll, rejectingVars, RejectingPlacement
  <1>10. CASE Rejecting!NotifyAll
    BY <1>1, <1>10 DEF Rejecting!NotifyAll, Rejecting!Waiting, Rejecting!WorkersAt,
                       RejectingPlacement
  <1>11. QED
    BY <1>2, <1>3, <1>4, <1>5, <1>6, <1>7, <1>8, <1>9, <1>10
       DEF Rejecting!Next, Rejecting!Enqueue, Rejecting!Worker

LEMMA RejectingShutdownStep ==
    RejectingTypes /\ RejectingShutdown /\ [Rejecting!Next]_rejectingVars
        => RejectingShutdown'
  <1> SUFFICES ASSUME RejectingTypes, RejectingShutdown, [Rejecting!Next]_rejectingVars
               PROVE  RejectingShutdown'
    OBVIOUS
  <1> USE DEF RejectingTypes, RejectingShutdown
  <1>0. PoolWorkers # {} /\ PoolWorkers \cap Clients = {}
    BY PartsAssumption DEF Rejecting!RejectingPoolAssumption
  <1>1. Rejecting!Threads = PoolWorkers \cup Clients
    BY DEF Rejecting!Threads
  <1>2. ASSUME NEW t \in Rejecting!Threads, epc[t] # "out"
        PROVE  \E w \in PoolWorkers : wpc[w] # "exited"
    BY <1>0, <1>1, <1>2
  <1>3. ASSUME NEW t \in Rejecting!Threads, NEW x \in Tasks, Rejecting!EnterEnqueue(t, x)
        PROVE  RejectingShutdown'
    BY <1>0, <1>1, <1>3 DEF Rejecting!EnterEnqueue, Rejecting!MayEnqueue
  <1>4. ASSUME NEW t \in Rejecting!Threads, NEW x \in Tasks, Rejecting!Reject(t, x)
        PROVE  RejectingShutdown'
    BY <1>4 DEF Rejecting!Reject
  <1>5. ASSUME NEW t \in Rejecting!Threads, Rejecting!Push(t)
        PROVE  RejectingShutdown'
    BY <1>1, <1>2, <1>5 DEF Rejecting!Push
  <1>6. ASSUME NEW t \in Rejecting!Threads, Rejecting!NotifyOne(t)
        PROVE  RejectingShutdown'
    <2>1. \A w \in PoolWorkers : /\ wpc'[w] = "running" <=> wpc[w] = "running"
                                 /\ wpc'[w] = "exited" <=> wpc[w] = "exited"
      BY <1>6 DEF Rejecting!NotifyOne, Rejecting!Waiting, Rejecting!WorkersAt
    <2>2. \A u \in Rejecting!Threads : epc'[u] # "out" => epc[u] # "out"
      BY <1>6 DEF Rejecting!NotifyOne
    <2>3. QED  BY <1>1, <1>6, <2>1, <2>2 DEF Rejecting!NotifyOne
  <1>7. ASSUME NEW w \in PoolWorkers,
               Rejecting!SeeIdle(w) \/ Rejecting!Block(w) \/ Rejecting!SpuriousWakeup(w)
        PROVE  RejectingShutdown'
    BY <1>7 DEF Rejecting!SeeIdle, Rejecting!Block, Rejecting!SpuriousWakeup
  <1>8. ASSUME NEW w \in PoolWorkers, Rejecting!Exit(w)
        PROVE  RejectingShutdown'
    BY <1>8 DEF Rejecting!Exit
  <1>9. ASSUME NEW w \in PoolWorkers, Rejecting!Take(w)
        PROVE  RejectingShutdown'
    BY <1>9 DEF Rejecting!Take
  <1>10. ASSUME NEW w \in PoolWorkers, Rejecting!Finish(w)
        PROVE  RejectingShutdown'
    BY <1>10 DEF Rejecting!Finish
  <1>11. CASE Rejecting!StoreStop
    BY <1>11 DEF Rejecting!StoreStop
  <1>12. CASE Rejecting!JoinAll \/ UNCHANGED rejectingVars
    BY <1>12 DEF Rejecting!JoinAll, rejectingVars
  <1>13. CASE Rejecting!NotifyAll
    BY <1>0, <1>13 DEF Rejecting!NotifyAll, Rejecting!Waiting, Rejecting!WorkersAt
  <1> HIDE DEF RejectingTypes, RejectingShutdown
  <1>14. QED
    BY <1>3, <1>4, <1>5, <1>6, <1>7, <1>8, <1>9, <1>10, <1>11, <1>12, <1>13
       DEF Rejecting!Next, Rejecting!Enqueue, Rejecting!Worker

LEMMA RejectingInit ==
    Rejecting!Init => RejectingTypes /\ RejectingPlacement /\ RejectingShutdown
  <1> SUFFICES ASSUME Rejecting!Init
               PROVE  RejectingTypes /\ RejectingPlacement /\ RejectingShutdown
    OBVIOUS
  <1>0. NoTask \notin Tasks /\ PoolWorkers # {} /\ Rejecting!Threads = PoolWorkers \cup Clients
    BY PartsAssumption DEF Rejecting!RejectingPoolAssumption, Rejecting!Threads
  <1>1. RejectingTypes
    BY DEF Rejecting!Init, RejectingTypes
  <1>2. Elements(tasks_) = {} /\ Active = {}
    BY DEF Rejecting!Init, Elements, Active, Rejecting!WorkersAt
  <1>3. RejectingPlacement
    BY <1>2 DEF Rejecting!Init, RejectingPlacement
  <1>4. RejectingShutdown
    BY <1>0 DEF Rejecting!Init, RejectingShutdown
  <1>5. QED  BY <1>1, <1>3, <1>4

(***************************************************************************)
(* The theorems.                                                           *)
(***************************************************************************)

\* Every part's invariant: the parts that do not run keep theirs as well.
PartsInv ==
    /\ RejectingTypes /\ RejectingPlacement /\ RejectingShutdown
    /\ FixedTypes /\ FixedLate /\ Fixed!RunsInOrder
    /\ ObservedInv
    /\ StealingTypes /\ StealingLate /\ StealingInventory
    /\ DynamicTypes /\ DynamicLate /\ Dynamic!BegunInOrder

\* In every reachable state of the composition each pool's invariant holds, however
\* many threads it has and however its stop interleaves with them.
THEOREM PartsInvariant == Spec => []PartsInv
  <1>1. Init => PartsInv
    BY RejectingInit, FixedInit, ObservedInit, StealingInit, DynamicInit DEF Init, PartsInv
  <1>2. PartsInv /\ [Next]_vars => PartsInv'
    BY StepsOfParts, RejectingTypesStep, RejectingPlacementStep, RejectingShutdownStep,
       FixedLateStep, FixedOrderStep, ObservedStep, StealingInventoryStep,
       StealingLateStep, DynamicLateStep, DynamicOrderStep
       DEF PartsInv
  <1>3. QED  BY <1>1, <1>2, PTL DEF Spec

\* No pool loses a task, runs it twice, runs a rejected one or breaks the order of
\* its queue, whatever the number of threads and tasks.
THEOREM TasksOnceAndInOrder == Spec => []OnceAndInOrder
  <1>1. RejectingPlacement => Rejecting!RejectedNeverRuns
    BY DEF RejectingPlacement, Rejecting!RejectedNeverRuns, Rejecting!Elements, Elements, Active
  <1>2. PartsInv => OnceAndInOrder
    BY <1>1, StealingTakenOnce DEF PartsInv, OnceAndInOrder, ObservedInv
  <1>3. QED  BY <1>2, PartsInvariant, PTL

\* A pool that rejects after its stop has run every task it accepted when its
\* destructor returns, those accepted while stop_ was being stored included.
THEOREM DestructorDrains == Spec => []ShutdownDrains
  <1>1. RejectingTypes /\ RejectingPlacement /\ RejectingShutdown => ShutdownDrains
    <2> SUFFICES ASSUME RejectingTypes, RejectingPlacement, RejectingShutdown,
                        dtor = "destroyed"
                 PROVE  accepted \subseteq finished
      BY DEF ShutdownDrains, Rejecting!ShutdownDrains
    <2>1. tasks_ = <<>> /\ \A w \in PoolWorkers : wpc[w] = "exited"
      BY DEF RejectingShutdown
    <2>2. Elements(tasks_) = {} /\ Active = {}
      BY <2>1 DEF Elements, Active, Rejecting!WorkersAt
    <2>3. QED  BY <2>2 DEF RejectingPlacement
  <1>2. PartsInv => ShutdownDrains
    BY <1>1 DEF PartsInv
  <1>3. QED  BY <1>2, PartsInvariant, PTL

\* Of a pool that drops its queue, a worker begins at most one task after the stop.
THEOREM OneLateTask == Spec => []AtMostOneLateTask
  <1>1. PartsInv => AtMostOneLateTask
    <2> SUFFICES ASSUME PartsInv
                 PROVE  AtMostOneLateTask
      OBVIOUS
    <2>1. Fixed!AtMostOneLateTask
      BY DEF PartsInv, FixedLate, Fixed!AtMostOneLateTask
    <2>2. Stealing!AtMostOneLateTask
      BY DEF PartsInv, StealingLate, Stealing!AtMostOneLateTask
    <2>3. Dynamic!AtMostOneLateTask
      BY DEF PartsInv, DynamicLate, Dynamic!AtMostOneLateTask
    <2>4. QED  BY <2>1, <2>2, <2>3 DEF AtMostOneLateTask
  <1>2. QED  BY <1>1, PartsInvariant, PTL
===============================================================================
