------------------------------ MODULE TimersProofs ------------------------------
(***************************************************************************)
(* What module MCTimers checks on a few tasks and delays, proved for       *)
(* every number of them: no task of a timer is lost, doubled or early, and *)
(* a stop lets one more through at most.                                   *)
(*                                                                         *)
(* Each part has an inductive invariant over its own variables, and a step *)
(* of the composition is, for every part, a step of its own or none.       *)
(***************************************************************************)
EXTENDS MCTimers, FiniteSets, FiniteSetTheorems, SequenceTheorems, TLAPS

LEMMA StepsOfParts ==
    ASSUME [Next]_vars
    PROVE  /\ [Heap!Next]_heapVars
           /\ [Repeating!Next]_repeatingVars
           /\ [InC!PollingNext]_pollingVars
           /\ [InC!TableNext]_tableVars
           /\ [InC!TaskNext]_posixVars
  BY DEF Next, vars, exceptHeap, exceptRepeating, exceptPolling, exceptTable, exceptPosix

-------------------------------------------------------------------------------

(***************************************************************************)
(* The POSIX timer: only the callback says that the result is there, with  *)
(* its last access to the task.                                            *)
(***************************************************************************)

TaskInv ==
    /\ done \in BOOLEAN
    /\ done => callback = "returned"
    /\ caller \in {"got", "destroyed"} => done
    /\ callback # "none" => timer_ \in {"fired", "deleted"}
    /\ caller \in {"starting", "arming"} => timer_ \in {"none", "created"}

LEMMA TaskStep == TaskInv /\ [InC!TaskNext]_posixVars => TaskInv'
  <1> SUFFICES ASSUME TaskInv, [InC!TaskNext]_posixVars
               PROVE  TaskInv'
    OBVIOUS
  <1>1. CASE InC!TaskTick \/ InC!Create \/ InC!SetTime \/ InC!Wait \/ UNCHANGED posixVars
    BY <1>1 DEF TaskInv, posixVars, InC!TaskTick, InC!Create, InC!SetTime, InC!Wait
  <1>2. CASE InC!Fire
    BY <1>2 DEF TaskInv, InC!Fire
  <1>3. CASE InC!Publish
    BY <1>3 DEF TaskInv, InC!Publish
  <1>4. CASE InC!GetResult \/ InC!Destroy
    BY <1>4 DEF TaskInv, InC!GetResult, InC!Destroy
  <1>5. QED  BY <1>1, <1>2, <1>3, <1>4 DEF InC!TaskNext, InC!Caller

-------------------------------------------------------------------------------

(***************************************************************************)
(* The table: an entry's age and the time to its next trigger add up to    *)
(* its interval less what the clock lagged behind at its last trigger,     *)
(* unless the age has come to the end of what is told apart.               *)
(***************************************************************************)

TableEntry == [interval : TableIntervals, next_trigger : Int]

OldEnough(e, a) ==
    a >= InC!LongestInterval \/ a + e.next_trigger >= e.interval - MaxBehind

TableInv ==
    /\ lag \in 0..MaxBehind
    /\ timer_tasks \in Seq(TableEntry)
    /\ age \in Seq(Nat) /\ Len(age) = Len(timer_tasks)
    /\ \A i \in 1..Len(timer_tasks) : OldEnough(timer_tasks[i], age[i])

LEMMA LongestIsLongest ==
    /\ InC!LongestInterval \in TableIntervals /\ InC!LongestInterval \in Nat
    /\ \A n \in TableIntervals : n \in Nat \ {0} /\ n <= InC!LongestInterval
  BY TimersAssumption DEF InC!TableTimerAssumption, InC!LongestInterval

LEMMA StaysOldEnough ==
    ASSUME NEW e, NEW a \in Nat, NEW f, NEW b \in Nat,
           e.interval \in Nat, e.next_trigger \in Int, f.next_trigger \in Int,
           f.interval = e.interval, f.next_trigger >= e.next_trigger - 1,
           b >= InC!LongestInterval \/ b = a + 1,
           OldEnough(e, a)
    PROVE  OldEnough(f, b)
  <1>1. InC!LongestInterval \in Nat /\ MaxBehind \in Nat
    BY TimersAssumption, LongestIsLongest DEF InC!TableTimerAssumption
  <1>2. QED  BY <1>1 DEF OldEnough

LEMMA TableStep == TableInv /\ [InC!TableNext]_tableVars => TableInv'
  <1> SUFFICES ASSUME TableInv, [InC!TableNext]_tableVars
               PROVE  TableInv'
    OBVIOUS
  <1>1. /\ lag \in 0..MaxBehind /\ MaxBehind \in Nat
        /\ timer_tasks \in Seq(TableEntry)
        /\ age \in Seq(Nat) /\ Len(age) = Len(timer_tasks)
        /\ \A i \in 1..Len(timer_tasks) : OldEnough(timer_tasks[i], age[i])
    BY TimersAssumption DEF TableInv, InC!TableTimerAssumption
  <1>2. /\ Len(timer_tasks) \in Nat
        /\ DOMAIN timer_tasks = 1..Len(timer_tasks) /\ DOMAIN age = 1..Len(timer_tasks)
        /\ \A i \in 1..Len(timer_tasks) : timer_tasks[i] \in TableEntry /\ age[i] \in Nat
    BY <1>1
  <1> DEFINE n == Len(timer_tasks)
  <1>3. ASSUME timer_tasks' \in [1..n -> TableEntry], age' \in [1..n -> Nat],
               lag' \in 0..MaxBehind,
               \A i \in 1..n : OldEnough(timer_tasks'[i], age'[i])
        PROVE  TableInv'
    <2>1. /\ timer_tasks' \in Seq(TableEntry) /\ Len(timer_tasks') = n
          /\ age' \in Seq(Nat) /\ Len(age') = n
      BY SMTT(30), <1>2, <1>3
    <2>2. \A i \in 1..n : OldEnough(timer_tasks[i], age[i])'
      BY <1>3 DEF OldEnough, InC!LongestInterval
    <2>3. QED  BY <1>1, <1>3, <2>1, <2>2 DEF TableInv, TableEntry
  <1>4. CASE InC!TableTick
    <2>1. lag' \in 0..MaxBehind
      BY <1>1, <1>4 DEF InC!TableTick
    <2> DEFINE e(i) == [timer_tasks[i] EXCEPT !.next_trigger = InC!AtLeast(@ - 1, -MaxBehind)]
               a(i) == IF age[i] < InC!LongestInterval THEN age[i] + 1 ELSE age[i]
    <2>2. timer_tasks' = [i \in 1..n |-> e(i)] /\ age' = [i \in 1..n |-> a(i)]
      BY <1>2, <1>4 DEF InC!TableTick
    <2>3. \A i \in 1..n : e(i) \in TableEntry /\ a(i) \in Nat /\ OldEnough(e(i), a(i))
      <3>1. TAKE i \in 1..n
      <3>2. timer_tasks[i] \in TableEntry /\ age[i] \in Nat /\ OldEnough(timer_tasks[i], age[i])
        BY <1>1, <1>2
      <3>3. /\ e(i).interval = timer_tasks[i].interval
            /\ e(i).next_trigger = InC!AtLeast(timer_tasks[i].next_trigger - 1, -MaxBehind)
            /\ timer_tasks[i].next_trigger \in Int /\ timer_tasks[i].interval \in TableIntervals
        BY <3>2 DEF TableEntry
      <3>4. /\ e(i).next_trigger \in Int
            /\ e(i).next_trigger >= timer_tasks[i].next_trigger - 1
        BY <1>1, <3>3 DEF InC!AtLeast
      <3>5. e(i) \in TableEntry
        <4> DEFINE next_ == InC!AtLeast(timer_tasks[i].next_trigger - 1, -MaxBehind)
        <4>1. e(i) = [timer_tasks[i] EXCEPT !.next_trigger = next_] /\ next_ \in Int
          BY <3>3, <3>4
        <4> HIDE DEF next_, e
        <4>2. QED  BY <3>2, <4>1 DEF TableEntry
      <3>6. a(i) \in Nat /\ (a(i) >= InC!LongestInterval \/ a(i) = age[i] + 1)
        BY <3>2, LongestIsLongest
      <3>7. timer_tasks[i].interval \in Nat /\ InC!LongestInterval \in Nat
        BY <3>3, LongestIsLongest
      <3> HIDE DEF e, a
      <3>8. OldEnough(e(i), a(i))
        BY <3>2, <3>3, <3>4, <3>6, <3>7, StaysOldEnough
      <3>9. QED  BY <3>5, <3>6, <3>8
    <2> HIDE DEF e, a, n
    <2>4. QED  BY <1>3, <2>1, <2>2, <2>3
  <1>5. ASSUME NEW m \in TableIntervals, InC!Register(m)
        PROVE  TableInv'
    <2> DEFINE new == [interval |-> m, next_trigger |-> m]
    <2>1. /\ timer_tasks' = Append(timer_tasks, new) /\ age' = Append(age, 0)
          /\ lag' = lag
      BY <1>5 DEF InC!Register
    <2>2. new \in TableEntry /\ OldEnough(new, 0)
      BY <1>1, LongestIsLongest DEF TableEntry, OldEnough
    <2> HIDE DEF new
    <2>3. /\ timer_tasks' \in Seq(TableEntry) /\ Len(timer_tasks') = n + 1
          /\ age' \in Seq(Nat) /\ Len(age') = n + 1
          /\ \A i \in 1..n : timer_tasks'[i] = timer_tasks[i] /\ age'[i] = age[i]
          /\ timer_tasks'[n + 1] = new /\ age'[n + 1] = 0
      BY <1>1, <2>1, <2>2
    <2>4. \A i \in 1..n + 1 : OldEnough(timer_tasks'[i], age'[i])
      BY <1>1, <1>2, <2>2, <2>3
    <2>5. \A i \in 1..n + 1 : OldEnough(timer_tasks[i], age[i])'
      BY <2>4 DEF OldEnough, InC!LongestInterval
    <2>6. QED  BY <1>1, <2>1, <2>3, <2>5 DEF TableInv, TableEntry
  <1>6. CASE InC!ReadClock \/ UNCHANGED tableVars
    BY <1>6 DEF InC!ReadClock, tableVars, TableInv, TableEntry, OldEnough, InC!LongestInterval
  <1>7. CASE InC!LookThrough
    <2>1. lag' \in 0..MaxBehind
      BY <1>1, <1>7 DEF InC!LookThrough
    <2> DEFINE e(i) == IF InC!IsDue(timer_tasks[i]) THEN InC!Triggered(timer_tasks[i])
                       ELSE timer_tasks[i]
               a(i) == IF InC!IsDue(timer_tasks[i]) THEN 0 ELSE age[i]
    <2>2. timer_tasks' = [i \in 1..n |-> e(i)] /\ age' = [i \in 1..n |-> a(i)]
      BY <1>2, <1>7 DEF InC!LookThrough
    <2>3. \A i \in 1..n : e(i) \in TableEntry /\ a(i) \in Nat /\ OldEnough(e(i), a(i))
      <3>1. TAKE i \in 1..n
      <3>2. timer_tasks[i] \in TableEntry /\ age[i] \in Nat /\ OldEnough(timer_tasks[i], age[i])
        BY <1>1, <1>2
      <3>3. CASE InC!IsDue(timer_tasks[i])
        <4>1. /\ e(i) = [timer_tasks[i] EXCEPT !.next_trigger = timer_tasks[i].interval - lag]
              /\ a(i) = 0
          BY <3>3 DEF InC!Triggered
        <4>2. /\ timer_tasks[i].interval \in TableIntervals
              /\ timer_tasks[i].interval \in Nat
              /\ timer_tasks[i].interval - lag \in Int
          <5>1. timer_tasks[i].interval \in TableIntervals /\ lag \in Int
            BY <1>1, <3>2 DEF TableEntry
          <5>2. timer_tasks[i].interval \in Nat
            BY <5>1, LongestIsLongest
          <5>3. QED  BY <5>1, <5>2
        <4> HIDE DEF e
        <4>3. /\ e(i) \in TableEntry /\ e(i).interval \in Nat
              /\ e(i).next_trigger = e(i).interval - lag
          BY <3>2, <4>1, <4>2 DEF TableEntry
        <4>4. QED  BY <1>1, <4>1, <4>3 DEF OldEnough
      <3>4. CASE ~InC!IsDue(timer_tasks[i])
        BY <3>2, <3>4
      <3>5. QED  BY <3>3, <3>4
    <2> HIDE DEF e, a, n
    <2>4. QED  BY <1>3, <2>1, <2>2, <2>3
  <1>8. QED  BY <1>4, <1>5, <1>6, <1>7 DEF InC!TableNext

\* What TriggersAreApart says of a step.
Apart ==
    \A i \in DOMAIN timer_tasks :
        age'[i] < age[i] => age[i] >= timer_tasks[i].interval - MaxBehind

LEMMA TableIsApart == TableInv /\ [InC!TableNext]_tableVars => [Apart]_tableVars
  <1> SUFFICES ASSUME TableInv, InC!TableNext, NEW i \in DOMAIN timer_tasks, age'[i] < age[i]
               PROVE  age[i] >= timer_tasks[i].interval - MaxBehind
    BY DEF Apart
  <1>1. /\ i \in 1..Len(timer_tasks) /\ DOMAIN age = 1..Len(timer_tasks)
        /\ timer_tasks[i] \in TableEntry /\ age[i] \in Nat
        /\ OldEnough(timer_tasks[i], age[i])
        /\ lag \in 0..MaxBehind /\ MaxBehind \in Nat
    BY TimersAssumption DEF TableInv, InC!TableTimerAssumption
  <1>2. timer_tasks[i].next_trigger \in Int /\ timer_tasks[i].interval \in TableIntervals
    BY <1>1 DEF TableEntry
  <1>3. CASE InC!LookThrough
    <2>1. InC!IsDue(timer_tasks[i])
      BY <1>1, <1>3 DEF InC!LookThrough
    <2>2. /\ timer_tasks[i].interval \in Nat /\ InC!LongestInterval \in Nat
          /\ timer_tasks[i].interval <= InC!LongestInterval
      BY <1>2, LongestIsLongest
    <2>3. QED  BY <1>1, <1>2, <2>1, <2>2 DEF InC!IsDue, OldEnough
  <1>4. CASE InC!TableTick
    BY <1>1, <1>4, LongestIsLongest DEF InC!TableTick
  <1>5. ASSUME NEW m \in TableIntervals, InC!Register(m)
        PROVE  FALSE
    <2>1. age' = Append(age, 0) /\ age \in Seq(Nat)
      BY <1>5 DEF InC!Register, TableInv
    <2>2. age'[i] = age[i]
      BY <1>1, <2>1
    <2>3. QED  BY <1>1, <2>2
  <1>6. CASE InC!ReadClock
    BY <1>1, <1>6 DEF InC!ReadClock
  <1>7. QED  BY <1>3, <1>4, <1>5, <1>6 DEF InC!TableNext

-------------------------------------------------------------------------------

(***************************************************************************)
(* The queue of 444.cpp: entries of different calls, sorted by the time    *)
(* left to them.  An entry is put at a place that keeps it sorted.         *)
(***************************************************************************)

Elements(q) == {q[i] : i \in 1..Len(q)}
ByTime(q) == \A i \in 2..Len(q) : q[i - 1].left <= q[i].left
OfDifferentCalls(q) == \A i, j \in 1..Len(q) : q[i].id = q[j].id => i = j

Into(q, e, k) == SubSeq(q, 1, k) \o <<e>> \o SubSeq(q, k + 1, Len(q))

RepeatingEntry == [id : Timers, left : 0..Repeating!Longest]

LEMMA Inserted ==
    ASSUME NEW q \in Seq(RepeatingEntry), NEW e \in RepeatingEntry, NEW k \in 0..Len(q)
    PROVE  /\ Into(q, e, k) \in Seq(RepeatingEntry) /\ Len(Into(q, e, k)) = Len(q) + 1
           /\ \A i \in 1..k : Into(q, e, k)[i] = q[i]
           /\ Into(q, e, k)[k + 1] = e
           /\ \A i \in k + 1..Len(q) : Into(q, e, k)[i + 1] = q[i]
  <1> DEFINE p == Into(q, e, k)
  <1> HIDE DEF p
  <1>1. Len(q) \in Nat /\ k \in Nat /\ k <= Len(q) /\ \A i \in 1..Len(q) : q[i] \in RepeatingEntry
    OBVIOUS
  <1> DEFINE a == SubSeq(q, 1, k)
             b == SubSeq(q, k + 1, Len(q))
  <1>2. /\ a \in Seq(RepeatingEntry) /\ Len(a) = k /\ \A i \in 1..k : a[i] = q[i]
    <2>1. \A i \in 1..k : q[i] \in RepeatingEntry
      BY <1>1
    <2>2. /\ a \in Seq(RepeatingEntry) /\ Len(a) = IF 1 <= k THEN k - 1 + 1 ELSE 0
          /\ \A i \in 1..k - 1 + 1 : a[i] = q[1 + i - 1]
      BY ONLY <1>1, <2>1, SubSeqProperties
    <2>3. k - 1 + 1 = k /\ \A i \in 1..k : 1 + i - 1 = i
      BY <1>1
    <2> HIDE DEF a
    <2>4. Len(a) = k
      <3>1. k \in Nat /\ Len(a) = IF 1 <= k THEN k - 1 + 1 ELSE 0
        BY <1>1, <2>2
      <3>2. QED  BY ONLY <3>1
    <2>5. \A i \in 1..k : a[i] = q[i]
      BY ONLY <2>2, <2>3
    <2>6. QED  BY <2>2, <2>4, <2>5
  <1>3. /\ b \in Seq(RepeatingEntry) /\ Len(b) = Len(q) - k
        /\ \A i \in 1..Len(q) - k : b[i] = q[k + i]
    <2>1. \A i \in k + 1..Len(q) : q[i] \in RepeatingEntry
      BY <1>1
    <2>2. k + 1 \in Int /\ Len(q) \in Int
      BY <1>1
    <2>3. /\ b \in Seq(RepeatingEntry)
          /\ Len(b) = IF k + 1 <= Len(q) THEN Len(q) - (k + 1) + 1 ELSE 0
          /\ \A i \in 1..Len(q) - (k + 1) + 1 : b[i] = q[k + 1 + i - 1]
      BY ONLY <2>1, <2>2, SubSeqProperties
    <2>4. Len(q) - (k + 1) + 1 = Len(q) - k /\ \A i \in 1..Len(q) - k : k + 1 + i - 1 = k + i
      BY <1>1
    <2> HIDE DEF b
    <2>5. Len(b) = Len(q) - k
      <3>1. k \in Nat /\ Len(q) \in Nat /\ k <= Len(q)
            /\ Len(b) = IF k + 1 <= Len(q) THEN Len(q) - (k + 1) + 1 ELSE 0
        BY <1>1, <2>3
      <3>2. QED  BY ONLY <3>1
    <2>6. ASSUME NEW i \in 1..Len(q) - k
          PROVE  b[i] = q[k + i]
      BY ONLY <2>3, <2>4, <2>6
    <2>7. QED  BY <2>3, <2>5, <2>6
  <1> HIDE DEF a, b
  <1>4. /\ a \o <<e>> \in Seq(RepeatingEntry) /\ Len(a \o <<e>>) = k + 1
        /\ \A i \in 1..k : (a \o <<e>>)[i] = a[i]
        /\ (a \o <<e>>)[k + 1] = e
    BY <1>1, <1>2
  <1> DEFINE c == a \o <<e>>
  <1> HIDE DEF c
  <1>5. c \in Seq(RepeatingEntry) /\ Len(c) = k + 1 /\ p = c \o b
    BY <1>4 DEF a, b, c, p, Into
  <1>6. /\ p \in Seq(RepeatingEntry) /\ Len(p) = Len(q) + 1
        /\ \A i \in 1..k + 1 : p[i] = c[i]
        /\ \A i \in 1..Len(q) - k : p[k + 1 + i] = b[i]
    <2>1. /\ p \in Seq(RepeatingEntry) /\ Len(p) = (k + 1) + (Len(q) - k)
          /\ \A i \in 1..(k + 1) + (Len(q) - k) :
                 p[i] = IF i <= k + 1 THEN c[i] ELSE b[i - (k + 1)]
      <3>1. c \in Seq(RepeatingEntry) /\ b \in Seq(RepeatingEntry)
        BY <1>3, <1>5
      <3>2. /\ c \o b \in Seq(RepeatingEntry) /\ Len(c \o b) = Len(c) + Len(b)
            /\ \A i \in 1..Len(c) + Len(b) :
                   (c \o b)[i] = IF i <= Len(c) THEN c[i] ELSE b[i - Len(c)]
        BY ONLY <3>1, ConcatProperties
      <3>3. p = c \o b /\ Len(c) = k + 1 /\ Len(b) = Len(q) - k
        BY <1>3, <1>5
      <3>4. QED  BY ONLY <3>2, <3>3
    <2>2. \A i \in 1..k + 1 : i \in 1..(k + 1) + (Len(q) - k) /\ i <= k + 1
      BY <1>1
    <2>3. \A i \in 1..Len(q) - k :
              /\ k + 1 + i \in 1..(k + 1) + (Len(q) - k)
              /\ ~(k + 1 + i <= k + 1) /\ k + 1 + i - (k + 1) = i
      BY <1>1
    <2>4. (k + 1) + (Len(q) - k) = Len(q) + 1
      BY <1>1
    <2>5. QED  BY ONLY <2>1, <2>2, <2>3, <2>4, SMTT(30)
  <1>7. ASSUME NEW i \in k + 1..Len(q)
        PROVE  p[i + 1] = q[i]
    <2>1. PICK j \in 1..Len(q) - k : k + 1 + j = i + 1 /\ k + j = i
      <3>1. i - k \in 1..Len(q) - k /\ k + 1 + (i - k) = i + 1 /\ k + (i - k) = i
        BY <1>1
      <3>2. QED  BY <3>1
    <2>2. p[k + 1 + j] = b[j] /\ b[j] = q[k + j]
      BY <1>3, <1>6
    <2>3. QED  BY <2>1, <2>2
  <1>8. \A i \in 1..k : i \in 1..k + 1 /\ k + 1 \in 1..k + 1
    BY <1>1
  <1>9. p[k + 1] = e
    <2>1. k + 1 \in 1..k + 1
      BY <1>1
    <2>2. QED  BY <1>4, <1>6, <2>1 DEF c
  <1>10. \A i \in 1..k : p[i] = q[i]
    BY <1>2, <1>4, <1>6, <1>8 DEF c
  <1>11. QED  BY <1>6, <1>7, <1>9, <1>10 DEF p

LEMMA DelaysAreNumbers ==
    /\ Repeating!Longest \in Delays /\ Repeating!Longest \in Nat
    /\ Repeating!NoCall \in Nat /\ Repeating!NoCall > Repeating!Longest
    /\ \A d \in Delays : d \in 0..Repeating!Longest /\ d # Repeating!NoCall
  <1>1. /\ Delays \subseteq Nat /\ Repeating!Longest \in Delays
        /\ \A d \in Delays : d <= Repeating!Longest
    BY TimersAssumption DEF Repeating!TimerSchedulerAssumption, Repeating!Longest
  <1>2. QED  BY <1>1 DEF Repeating!NoCall

LEMMA EntryOfQueue ==
    ASSUME NEW q \in Seq(RepeatingEntry), NEW e \in Elements(q)
    PROVE  e \in RepeatingEntry /\ e.id \in Timers /\ e.left \in 0..Repeating!Longest
  <1>1. PICK i \in 1..Len(q) : e = q[i]
    BY DEF Elements
  <1>2. e \in RepeatingEntry
    BY <1>1
  <1>3. QED  BY <1>2 DEF RepeatingEntry

LEMMA PushedQueue ==
    ASSUME NEW q \in Seq(RepeatingEntry), NEW e \in RepeatingEntry,
           ByTime(q), OfDifferentCalls(q), \A f \in Elements(q) : f.id # e.id,
           NEW p \in Repeating!Pushed(q, e)
    PROVE  /\ p \in Seq(RepeatingEntry) /\ ByTime(p) /\ OfDifferentCalls(p)
           /\ Elements(p) = Elements(q) \cup {e}
  <1>1. PICK k \in 0..Len(q) :
            /\ \A i \in 1..k : q[i].left <= e.left
            /\ \A i \in k + 1..Len(q) : q[i].left >= e.left
            /\ p = SubSeq(q, 1, k) \o <<e>> \o SubSeq(q, k + 1, Len(q))
    BY DEF Repeating!Pushed
  <1>2. /\ p \in Seq(RepeatingEntry) /\ Len(p) = Len(q) + 1
        /\ \A i \in 1..k : p[i] = q[i]
        /\ p[k + 1] = e
        /\ \A i \in k + 1..Len(q) : p[i + 1] = q[i]
    <2>1. /\ q \in Seq(RepeatingEntry) /\ e \in RepeatingEntry /\ k \in 0..Len(q)
          /\ p = Into(q, e, k)
      BY <1>1 DEF Into
    <2>2. /\ Into(q, e, k) \in Seq(RepeatingEntry) /\ Len(Into(q, e, k)) = Len(q) + 1
          /\ \A i \in 1..k : Into(q, e, k)[i] = q[i]
          /\ Into(q, e, k)[k + 1] = e
          /\ \A i \in k + 1..Len(q) : Into(q, e, k)[i + 1] = q[i]
      BY ONLY <2>1, Inserted
    <2>3. QED  BY ONLY <2>1, <2>2
  <1>3. /\ Len(q) \in Nat /\ k \in 0..Len(q)
        /\ \A i \in 1..Len(q) : q[i] \in RepeatingEntry /\ q[i] \in Elements(q)
    BY DEF Elements
  <1>4. \A i \in 1..Len(p) : \/ i \in 1..k /\ p[i] = q[i]
                             \/ i = k + 1 /\ p[i] = e
                             \/ i - 1 \in k + 1..Len(q) /\ p[i] = q[i - 1]
    <2>1. TAKE i \in 1..Len(p)
    <2>2. i \in 1..k \/ i = k + 1 \/ (i - 1 \in k + 1..Len(q) /\ (i - 1) + 1 = i)
      BY <1>2, <1>3
    <2>3. QED  BY <1>2, <2>2
  <1>5. ByTime(p)
    <2> SUFFICES ASSUME NEW i \in 2..Len(p)
                 PROVE  p[i - 1].left <= p[i].left
      BY DEF ByTime
    <2>1. CASE i \in 1..k
      BY <1>2, <1>3, <2>1 DEF ByTime
    <2>2. CASE i = k + 1
      <3>1. i - 1 \in 1..k /\ i - 1 = k
        BY <1>3, <2>2
      <3>2. QED  BY <1>1, <1>2, <2>2, <3>1
    <2>3. CASE i = k + 2
      <3>1. i - 1 = k + 1 /\ (k + 1) + 1 = i /\ k + 1 \in k + 1..Len(q)
        BY <1>2, <1>3, <2>3
      <3>2. QED  BY <1>1, <1>2, <3>1
    <2>4. CASE i > k + 2
      <3>1. /\ i - 1 \in k + 1..Len(q) /\ i - 2 \in k + 1..Len(q) /\ i - 1 \in 2..Len(q)
            /\ (i - 1) + 1 = i /\ (i - 2) + 1 = i - 1 /\ (i - 1) - 1 = i - 2
        BY <1>2, <1>3, <2>4
      <3>2. p[i] = q[i - 1] /\ p[i - 1] = q[i - 2]
        BY <1>2, <3>1
      <3>3. QED  BY <3>1, <3>2 DEF ByTime
    <2>5. QED  BY <1>2, <1>3, <2>1, <2>2, <2>3, <2>4
  <1>6. OfDifferentCalls(p)
    <2> SUFFICES ASSUME NEW i \in 1..Len(p), NEW j \in 1..Len(p), p[i].id = p[j].id
                 PROVE  i = j
      BY DEF OfDifferentCalls
    <2>1. \A m \in 1..Len(q) : q[m].id # e.id
      BY <1>3
    <2>2. CASE i = k + 1 \/ j = k + 1
      <3>1. \A m \in 1..Len(p) : m = k + 1 \/ p[m].id # e.id
        <4>1. \A m \in 1..Len(p) : m = k + 1 \/ \E n \in 1..Len(q) : p[m] = q[n]
          BY <1>3, <1>4
        <4>2. QED  BY <2>1, <4>1
      <3>2. QED  BY <1>2, <2>2, <3>1
    <2>3. CASE i # k + 1 /\ j # k + 1
      <3>1. \A m \in 1..Len(p) : m # k + 1 =>
                \E n \in 1..Len(q) : p[m] = q[n] /\ ((m = n /\ n <= k) \/ (m = n + 1 /\ n > k))
        <4>1. TAKE m \in 1..Len(p)
        <4>2. HAVE m # k + 1
        <4>3. CASE m \in 1..k /\ p[m] = q[m]
          <5>1. m \in 1..Len(q) /\ m <= k
            BY <1>3, <4>3
          <5>2. QED  BY <4>3, <5>1
        <4>4. CASE m - 1 \in k + 1..Len(q) /\ p[m] = q[m - 1]
          <5>1. m - 1 \in 1..Len(q) /\ m - 1 > k /\ m = (m - 1) + 1
            BY <1>3, <4>4
          <5>2. QED  BY <4>4, <5>1
        <4>5. QED  BY <1>4, <4>2, <4>3, <4>4
      <3>2. PICK m \in 1..Len(q) : p[i] = q[m] /\ ((i = m /\ m <= k) \/ (i = m + 1 /\ m > k))
        BY <2>3, <3>1
      <3>3. PICK n \in 1..Len(q) : p[j] = q[n] /\ ((j = n /\ n <= k) \/ (j = n + 1 /\ n > k))
        BY <2>3, <3>1
      <3>4. m = n
        BY <3>2, <3>3 DEF OfDifferentCalls
      <3>5. QED  BY <1>3, <3>2, <3>3, <3>4
    <2>4. QED  BY <2>2, <2>3
  <1>7. Elements(p) = Elements(q) \cup {e}
    <2>1. \A x \in Elements(p) : x \in Elements(q) \cup {e}
      BY <1>3, <1>4 DEF Elements
    <2>2. \A i \in 1..Len(q) : q[i] \in Elements(p)
      <3>1. TAKE i \in 1..Len(q)
      <3>2. i \in 1..k \/ i \in k + 1..Len(q)
        BY <1>3
      <3>3. i \in 1..Len(p) /\ i + 1 \in 1..Len(p)
        BY <1>2, <1>3
      <3>4. QED  BY <1>2, <3>2, <3>3 DEF Elements
    <2>3. e \in Elements(p)
      BY <1>2, <1>3 DEF Elements
    <2>4. QED  BY <2>1, <2>2, <2>3 DEF Elements
  <1>8. QED  BY <1>2, <1>5, <1>6, <1>7

LEMMA QueueWithoutTop ==
    ASSUME NEW q \in Seq(RepeatingEntry), q # <<>>, ByTime(q), OfDifferentCalls(q)
    PROVE  /\ Tail(q) \in Seq(RepeatingEntry) /\ ByTime(Tail(q)) /\ OfDifferentCalls(Tail(q))
           /\ Head(q) \in RepeatingEntry
           /\ Elements(q) = Elements(Tail(q)) \cup {Head(q)}
           /\ \A e \in Elements(Tail(q)) : e.id # Head(q).id
  <1>1. /\ Len(q) \in Nat \ {0} /\ Head(q) = q[1] /\ q[1] \in RepeatingEntry
        /\ Tail(q) \in Seq(RepeatingEntry) /\ Len(Tail(q)) = Len(q) - 1
        /\ \A i \in 1..Len(q) - 1 : Tail(q)[i] = q[i + 1]
    OBVIOUS
  <1>2. \A i \in 1..Len(q) : i = 1 \/ (i - 1 \in 1..Len(q) - 1 /\ q[i] = Tail(q)[i - 1])
    BY <1>1
  <1>3. ByTime(Tail(q))
    <2> SUFFICES ASSUME NEW i \in 2..Len(q) - 1
                 PROVE  Tail(q)[i - 1].left <= Tail(q)[i].left
      BY <1>1 DEF ByTime
    <2>1. /\ i \in 1..Len(q) - 1 /\ i - 1 \in 1..Len(q) - 1 /\ (i - 1) + 1 = (i + 1) - 1
          /\ i + 1 \in 2..Len(q)
      BY <1>1
    <2>2. QED  BY <1>1, <2>1 DEF ByTime
  <1>4. OfDifferentCalls(Tail(q))
    BY <1>1 DEF OfDifferentCalls
  <1>5. Elements(q) = Elements(Tail(q)) \cup {Head(q)}
    <2>1. \A i \in 1..Len(q) : q[i] \in Elements(Tail(q)) \cup {Head(q)}
      BY <1>1, <1>2 DEF Elements
    <2>2. \A i \in 1..Len(q) - 1 : Tail(q)[i] \in Elements(q)
      BY <1>1 DEF Elements
    <2>3. Head(q) \in Elements(q)
      BY <1>1 DEF Elements
    <2>4. QED  BY <1>1, <2>1, <2>2, <2>3 DEF Elements
  <1>6. \A e \in Elements(Tail(q)) : e.id # Head(q).id
    BY <1>1 DEF Elements, OfDifferentCalls
  <1>7. QED  BY <1>1, <1>3, <1>4, <1>5, <1>6

(***************************************************************************)
(* 444.cpp.  A queued call is owed its next run in exactly the time its    *)
(* entry has left.  That a task was dispatched after the stop says where   *)
(* the thread is: it will read running before it takes another one.        *)
(***************************************************************************)

RepeatingQueue ==
    /\ taskQueue \in Seq(RepeatingEntry)
    /\ ByTime(taskQueue) /\ OfDifferentCalls(taskQueue)
    /\ interval \in [Timers -> Delays \cup {Repeating!NoCall}]
    /\ owed \in [Timers -> Nat]
    /\ \A e \in Elements(taskQueue) :
           interval[e.id] # Repeating!NoCall /\ owed[e.id] = e.left
    /\ \A id \in Timers : interval[id] \notin {0, Repeating!NoCall} =>
           \E e \in Elements(taskQueue) : e.id = id

RepeatingLate ==
    /\ running_ \in BOOLEAN
    /\ lateRuns = 0 \/ (lateRuns = 1 /\ ~running_ /\ wait \in {"loop", "done"})

LEMMA RepeatingLateStep ==
    RepeatingLate /\ [Repeating!Next]_repeatingVars => RepeatingLate'
  <1> SUFFICES ASSUME RepeatingLate, [Repeating!Next]_repeatingVars
               PROVE  RepeatingLate'
    OBVIOUS
  <1>1. CASE Repeating!Tick \/ UNCHANGED repeatingVars
    BY <1>1 DEF RepeatingLate, repeatingVars, Repeating!Tick
  <1>2. ASSUME NEW id \in Timers, NEW d \in Delays, NEW i \in Delays,
               Repeating!AddTask(id, d, i)
        PROVE  RepeatingLate'
    BY <1>2 DEF RepeatingLate, Repeating!AddTask
  <1>3. CASE Repeating!TestRunning
    BY <1>3 DEF RepeatingLate, Repeating!TestRunning
  <1>4. CASE Repeating!WaitForTask \/ Repeating!WaitUntilDue \/ Repeating!WakeUp
             \/ Repeating!SpuriousWakeup
    BY <1>4 DEF RepeatingLate, Repeating!WaitForTask, Repeating!WaitUntilDue,
                Repeating!WakeUp, Repeating!SpuriousWakeup
  <1>5. CASE Repeating!Dispatch
    BY <1>5 DEF RepeatingLate, Repeating!Dispatch
  <1>6. CASE Repeating!StopRunning
    BY <1>6 DEF RepeatingLate, Repeating!StopRunning
  <1>7. CASE Repeating!Others
    BY <1>7 DEF RepeatingLate, Repeating!Others, Repeating!NotifyStop, Repeating!Join,
                Repeating!NotifyAdded, Repeating!Notified
  <1>8. QED  BY <1>1, <1>2, <1>3, <1>4, <1>5, <1>6, <1>7 DEF Repeating!Next, Repeating!Run

LEMMA RepeatingQueueStep ==
    RepeatingQueue /\ [Repeating!Next]_repeatingVars => RepeatingQueue'
  <1> SUFFICES ASSUME RepeatingQueue, [Repeating!Next]_repeatingVars
               PROVE  RepeatingQueue'
    OBVIOUS
  <1> USE DEF RepeatingQueue
  <1>2. ASSUME taskQueue' \in Seq(RepeatingEntry), ByTime(taskQueue'),
               OfDifferentCalls(taskQueue'),
               interval' \in [Timers -> Delays \cup {Repeating!NoCall}],
               owed' \in [Timers -> Nat],
               \A e \in Elements(taskQueue') :
                   interval'[e.id] # Repeating!NoCall /\ owed'[e.id] = e.left,
               \A id \in Timers : interval'[id] \notin {0, Repeating!NoCall} =>
                   \E e \in Elements(taskQueue') : e.id = id
        PROVE  RepeatingQueue'
    BY <1>2 DEF RepeatingEntry, ByTime, OfDifferentCalls, Elements, Repeating!NoCall,
                Repeating!Longest
  <1>1. CASE UNCHANGED <<taskQueue, interval, owed>>
    BY <1>1, <1>2
  <1>3. CASE Repeating!Tick
    <2> DEFINE n == Len(taskQueue)
               e(i) == [taskQueue[i] EXCEPT !.left = Repeating!Less(@)]
    <2>1. /\ taskQueue' = [i \in 1..n |-> e(i)] /\ UNCHANGED interval
          /\ owed' = [id \in Timers |-> IF owed[id] = Repeating!NoCall THEN Repeating!NoCall
                                        ELSE Repeating!Less(owed[id])]
      BY <1>3 DEF Repeating!Tick
    <2>2. n \in Nat /\ \A i \in 1..n : taskQueue[i] \in RepeatingEntry
                                       /\ taskQueue[i] \in Elements(taskQueue)
      BY DEF Elements
    <2>3. \A i \in 1..n : /\ e(i) \in RepeatingEntry
                          /\ e(i).id = taskQueue[i].id
                          /\ e(i).left = Repeating!Less(taskQueue[i].left)
      BY SMTT(30), <2>2, DelaysAreNumbers DEF RepeatingEntry, Repeating!Less
    <2> HIDE DEF e
    <2>4. /\ taskQueue' \in Seq(RepeatingEntry) /\ Len(taskQueue') = n
          /\ \A i \in 1..n : taskQueue'[i] = e(i)
      BY <2>1, <2>2, <2>3
    <2>5. ByTime(taskQueue')
      <3> SUFFICES ASSUME NEW i \in 2..n
                   PROVE  taskQueue'[i - 1].left <= taskQueue'[i].left
        BY <2>4 DEF ByTime
      <3>1. i \in 1..n /\ i - 1 \in 1..n
        BY <2>2
      <3>2. /\ taskQueue[i - 1].left <= taskQueue[i].left
            /\ taskQueue[i - 1].left \in Nat /\ taskQueue[i].left \in Nat
        BY <2>2, <3>1, DelaysAreNumbers DEF ByTime, RepeatingEntry
      <3> DEFINE a == taskQueue[i - 1].left
                 b == taskQueue[i].left
      <3>3. taskQueue'[i - 1].left = Repeating!Less(a) /\ taskQueue'[i].left = Repeating!Less(b)
        BY <2>3, <2>4, <3>1
      <3>4. a \in Nat /\ b \in Nat /\ a <= b
        BY <3>2
      <3> HIDE DEF a, b
      <3>5. Repeating!Less(a) <= Repeating!Less(b)
        BY ONLY <3>4 DEF Repeating!Less
      <3>6. QED  BY <3>3, <3>5
    <2>6. OfDifferentCalls(taskQueue')
      BY <2>3, <2>4 DEF OfDifferentCalls
    <2>7. owed' \in [Timers -> Nat]
      BY <2>1, DelaysAreNumbers DEF Repeating!Less
    <2>8. ASSUME NEW f \in Elements(taskQueue')
          PROVE  interval'[f.id] # Repeating!NoCall /\ owed'[f.id] = f.left
      <3>1. PICK i \in 1..n : f = e(i)
        BY <2>4 DEF Elements
      <3>2. /\ f.id = taskQueue[i].id /\ f.left = Repeating!Less(taskQueue[i].left)
            /\ taskQueue[i].id \in Timers /\ taskQueue[i].left # Repeating!NoCall
            /\ interval[f.id] # Repeating!NoCall /\ owed[f.id] = taskQueue[i].left
        BY <2>2, <2>3, <3>1, DelaysAreNumbers DEF RepeatingEntry
      <3>3. QED  BY <2>1, <3>2
    <2>9. ASSUME NEW id \in Timers, interval'[id] \notin {0, Repeating!NoCall}
          PROVE  \E f \in Elements(taskQueue') : f.id = id
      <3>1. PICK i \in 1..n : taskQueue[i].id = id
        BY <2>1, <2>9 DEF Elements
      <3>2. QED  BY <2>3, <2>4, <3>1 DEF Elements
    <2>10. QED  BY <1>2, <2>1, <2>4, <2>5, <2>6, <2>7, <2>8, <2>9
  <1>4. ASSUME NEW id \in Timers, NEW d \in Delays, NEW i \in Delays,
               Repeating!AddTask(id, d, i)
        PROVE  RepeatingQueue'
    <2>0. PICK left_ \in 0..d :
              /\ owed' = [owed EXCEPT ![id] = left_]
              /\ taskQueue' \in Repeating!Pushed(taskQueue, [id |-> id, left |-> left_])
      BY <1>4 DEF Repeating!AddTask
    <2> DEFINE new == [id |-> id, left |-> left_]
    <2>1. /\ interval[id] = Repeating!NoCall
          /\ interval' = [interval EXCEPT ![id] = i]
          /\ owed' = [owed EXCEPT ![id] = left_]
          /\ taskQueue' \in Repeating!Pushed(taskQueue, new)
      BY <1>4, <2>0 DEF Repeating!AddTask
    <2>2. /\ left_ \in Nat /\ left_ # Repeating!NoCall
          /\ new \in RepeatingEntry /\ new.id = id /\ new.left = left_
      BY DelaysAreNumbers DEF RepeatingEntry
    <2>3. \A f \in Elements(taskQueue) : f.id # id
      BY <2>1
    <2> HIDE DEF new
    <2>4. /\ taskQueue' \in Seq(RepeatingEntry) /\ ByTime(taskQueue')
          /\ OfDifferentCalls(taskQueue')
          /\ Elements(taskQueue') = Elements(taskQueue) \cup {new}
      BY <2>1, <2>2, <2>3, PushedQueue
    <2>5. /\ interval' \in [Timers -> Delays \cup {Repeating!NoCall}]
          /\ owed' \in [Timers -> Nat]
          /\ interval'[id] # Repeating!NoCall /\ owed'[id] = left_
          /\ \A t \in Timers : t # id => interval'[t] = interval[t] /\ owed'[t] = owed[t]
      BY <2>1, DelaysAreNumbers
    <2>6. \A f \in Elements(taskQueue) : f.id \in Timers
      BY EntryOfQueue
    <2>7. QED  BY <1>2, <2>2, <2>3, <2>4, <2>5, <2>6
  <1>5. CASE Repeating!Dispatch
    <2> DEFINE top == Head(taskQueue)
               again == [id |-> top.id, left |-> interval[top.id]]
    <2>1. /\ taskQueue # <<>> /\ UNCHANGED interval
          /\ owed' = [owed EXCEPT ![top.id] = IF interval[top.id] = 0 THEN Repeating!NoCall
                                              ELSE interval[top.id]]
          /\ taskQueue' \in IF interval[top.id] = 0 THEN {Tail(taskQueue)}
                            ELSE Repeating!Pushed(Tail(taskQueue), again)
      BY <1>5 DEF Repeating!Dispatch
    <2>2. /\ Tail(taskQueue) \in Seq(RepeatingEntry) /\ ByTime(Tail(taskQueue))
          /\ OfDifferentCalls(Tail(taskQueue)) /\ top \in RepeatingEntry
          /\ Elements(taskQueue) = Elements(Tail(taskQueue)) \cup {top}
          /\ \A f \in Elements(Tail(taskQueue)) : f.id # top.id
      BY <2>1, QueueWithoutTop
    <2>3. /\ top.id \in Timers /\ interval[top.id] # Repeating!NoCall
          /\ interval[top.id] \in Delays
          /\ \A f \in Elements(taskQueue) : f.id \in Timers
      <3>1. top \in Elements(taskQueue) /\ \A f \in Elements(taskQueue) : f.id \in Timers
        BY <2>2, EntryOfQueue
      <3>2. QED  BY <3>1
    <2>4. again \in RepeatingEntry /\ again.id = top.id /\ again.left = interval[top.id]
      BY <2>3, DelaysAreNumbers DEF RepeatingEntry
    <2>5. /\ owed' \in [Timers -> Nat]
          /\ interval[top.id] # 0 => owed'[top.id] = interval[top.id]
          /\ \A t \in Timers : t # top.id => owed'[t] = owed[t]
      <3> DEFINE v == IF interval[top.id] = 0 THEN Repeating!NoCall ELSE interval[top.id]
      <3>1. v \in Nat /\ (interval[top.id] # 0 => v = interval[top.id])
        <4>1. Repeating!NoCall \in Nat /\ Delays \subseteq Nat
          BY DelaysAreNumbers
        <4>2. QED  BY <2>3, <4>1
      <3>2. owed' = [owed EXCEPT ![top.id] = v] /\ owed \in [Timers -> Nat]
            /\ top.id \in Timers
        BY <2>1, <2>3
      <3> HIDE DEF v, top
      <3>3. QED  BY <3>1, <3>2
    <2> HIDE DEF top, again
    <2>6. CASE interval[top.id] = 0
      <3>1. taskQueue' = Tail(taskQueue)
        BY <2>1, <2>6
      <3>2. QED  BY <1>2, <2>1, <2>2, <2>3, <2>5, <2>6, <3>1
    <2>7. CASE interval[top.id] # 0
      <3>1. /\ taskQueue' \in Seq(RepeatingEntry) /\ ByTime(taskQueue')
            /\ OfDifferentCalls(taskQueue')
            /\ Elements(taskQueue') = Elements(Tail(taskQueue)) \cup {again}
        <4>1. /\ taskQueue' \in Repeating!Pushed(Tail(taskQueue), again)
              /\ \A f \in Elements(Tail(taskQueue)) : f.id # again.id
          BY <2>1, <2>2, <2>4, <2>7
        <4>2. QED  BY ONLY <2>2, <2>4, <4>1, PushedQueue
      <3>2. QED  BY <1>2, <2>1, <2>2, <2>3, <2>4, <2>5, <2>7, <3>1
    <2>8. QED  BY <2>6, <2>7
  <1>6. CASE Repeating!TestRunning \/ Repeating!WaitForTask \/ Repeating!WaitUntilDue
             \/ Repeating!WakeUp \/ Repeating!SpuriousWakeup \/ Repeating!StopRunning
             \/ Repeating!Others
    <2>1. UNCHANGED <<taskQueue, interval, owed>>
      BY <1>6 DEF Repeating!TestRunning, Repeating!WaitForTask, Repeating!WaitUntilDue,
                  Repeating!WakeUp, Repeating!SpuriousWakeup, Repeating!StopRunning,
                  Repeating!Others, Repeating!NotifyStop, Repeating!Join,
                  Repeating!NotifyAdded
    <2>2. QED  BY <1>1, <2>1
  <1>7. CASE UNCHANGED repeatingVars
    BY <1>1, <1>7 DEF repeatingVars
  <1>8. QED  BY <1>3, <1>4, <1>5, <1>6, <1>7 DEF Repeating!Next, Repeating!Run

\* What NeverEarly says of a step of 444.cpp.
RepeatingOnTime ==
    \A id \in Repeating!Queued : owed'[id] > owed[id] => owed[id] = 0

LEMMA RepeatingIsNeverEarly ==
    RepeatingQueue /\ [Repeating!Next]_repeatingVars => [RepeatingOnTime]_repeatingVars
  <1> SUFFICES ASSUME RepeatingQueue, Repeating!Next,
                      NEW id \in Repeating!Queued, owed'[id] > owed[id]
               PROVE  owed[id] = 0
    BY DEF RepeatingOnTime
  <1>1. PICK e \in Elements(taskQueue) : e.id = id
    BY DEF Repeating!Queued, Elements, RepeatingQueue
  <1>2. /\ e \in RepeatingEntry /\ id \in Timers /\ owed \in [Timers -> Nat]
        /\ owed[id] \in Nat /\ owed[id] = e.left /\ interval[id] # Repeating!NoCall
    <2>1. e \in RepeatingEntry /\ e.id \in Timers /\ e.left \in 0..Repeating!Longest
      BY EntryOfQueue DEF RepeatingQueue
    <2>2. QED  BY <1>1, <2>1 DEF RepeatingQueue
  <1>3. CASE Repeating!Tick
    BY <1>2, <1>3, DelaysAreNumbers DEF Repeating!Tick, Repeating!Less
  <1>4. ASSUME NEW t \in Timers, NEW d \in Delays, NEW i \in Delays,
               Repeating!AddTask(t, d, i)
        PROVE  FALSE
    BY <1>2, <1>4 DEF Repeating!AddTask
  <1>5. CASE Repeating!Dispatch
    <2>1. /\ taskQueue # <<>> /\ Head(taskQueue).left = 0
          /\ owed' = [owed EXCEPT ![Head(taskQueue).id] =
                          IF interval[Head(taskQueue).id] = 0 THEN Repeating!NoCall
                          ELSE interval[Head(taskQueue).id]]
      BY <1>5 DEF Repeating!Dispatch
    <2>2. CASE Head(taskQueue).id = id
      <3>1. Head(taskQueue) \in Elements(taskQueue)
        BY <2>1, QueueWithoutTop DEF RepeatingQueue
      <3>2. QED  BY <2>1, <2>2, <3>1 DEF RepeatingQueue
    <2>3. CASE Head(taskQueue).id # id
      BY <1>2, <2>1, <2>3
    <2>4. QED  BY <2>2, <2>3
  <1>6. CASE Repeating!TestRunning \/ Repeating!WaitForTask \/ Repeating!WaitUntilDue
             \/ Repeating!WakeUp \/ Repeating!SpuriousWakeup \/ Repeating!StopRunning
             \/ Repeating!Others
    BY <1>2, <1>6 DEF Repeating!TestRunning, Repeating!WaitForTask, Repeating!WaitUntilDue,
                      Repeating!WakeUp, Repeating!SpuriousWakeup, Repeating!StopRunning,
                      Repeating!Others, Repeating!NotifyStop, Repeating!Join,
                      Repeating!NotifyAdded
  <1>7. QED  BY <1>3, <1>4, <1>5, <1>6 DEF Repeating!Next, Repeating!Run

-------------------------------------------------------------------------------

(***************************************************************************)
(* scheduler.hpp.  The pool first: whatever its workers do, it knows the   *)
(* runs that were submitted.                                               *)
(***************************************************************************)

Runs == Ids \X (1..MaxTime)

PoolTypes ==
    /\ pending \in Seq(Runs)
    /\ active \in [Slots -> Runs \cup {Nothing}]
    /\ finished \subseteq Runs

poolVars == <<pending, active, finished>>

LEMMA NothingIsNoRun == Nothing \notin Runs
  <1>1. MaxTime \in Nat /\ Nothing \notin Ids \X Nat
    BY TimersAssumption DEF Heap!SchedulerAssumption
  <1>2. Runs \subseteq Ids \X Nat
    BY <1>1 DEF Runs
  <1>3. QED  BY <1>1, <1>2

LEMMA PoolKeepsRuns ==
    ASSUME PoolTypes, Heap!PoolStep
    PROVE  PoolTypes' /\ Heap!Dispatched' = Heap!Dispatched
  <1>1. /\ pending \in Seq(Runs) /\ active \in [Slots -> Runs \cup {Nothing}]
        /\ finished \subseteq Runs
        /\ Heap!Dispatched = ({pending[i] : i \in 1..Len(pending)} \cup finished
                                 \cup {active[s] : s \in Slots}) \ {Nothing}
        /\ Heap!Dispatched' = ({pending'[i] : i \in 1..Len(pending')} \cup finished'
                                 \cup {active'[s] : s \in Slots}) \ {Nothing}
    BY DEF PoolTypes, Heap!Dispatched, Heap!Pool!Known
  <1>2. ASSUME NEW s \in Slots, Heap!Pool!Start(s)
        PROVE  PoolTypes' /\ Heap!Dispatched' = Heap!Dispatched
    <2>1. /\ pending # <<>> /\ active[s] = Nothing
          /\ active' = [active EXCEPT ![s] = Head(pending)]
          /\ pending' = Tail(pending) /\ finished' = finished
      BY <1>2 DEF Heap!Pool!Start
    <2>2. /\ Len(pending) \in Nat \ {0} /\ Head(pending) = pending[1] /\ Head(pending) \in Runs
          /\ Tail(pending) \in Seq(Runs) /\ Len(Tail(pending)) = Len(pending) - 1
          /\ \A i \in 1..Len(pending) - 1 : Tail(pending)[i] = pending[i + 1]
      BY <1>1, <2>1
    <2>3. {pending[i] : i \in 1..Len(pending)} =
              {Tail(pending)[i] : i \in 1..Len(pending) - 1} \cup {Head(pending)}
      <3>1. \A i \in 1..Len(pending) :
                i = 1 \/ (i - 1 \in 1..Len(pending) - 1 /\ pending[i] = Tail(pending)[i - 1])
        BY <2>2
      <3>2. \A i \in 1..Len(pending) - 1 : i + 1 \in 1..Len(pending)
        BY <2>2
      <3>3. 1 \in 1..Len(pending)
        BY <2>2
      <3> DEFINE all == {pending[i] : i \in 1..Len(pending)}
                 rest == {Tail(pending)[i] : i \in 1..Len(pending) - 1}
      <3>4. \A i \in 1..Len(pending) : pending[i] \in rest \cup {Head(pending)}
        BY <2>2, <3>1
      <3>5. \A i \in 1..Len(pending) - 1 : Tail(pending)[i] \in all
        BY <2>2, <3>2
      <3>6. Head(pending) \in all
        BY <2>2, <3>3
      <3>7. QED  BY <3>4, <3>5, <3>6
    <2>4. /\ active' \in [Slots -> Runs \cup {Nothing}] /\ active'[s] = Head(pending)
          /\ \A t \in Slots : t # s => active'[t] = active[t]
      BY <1>1, <2>1, <2>2
    <2>5. {active'[t] : t \in Slots} \ {Nothing} =
              ({active[t] : t \in Slots} \ {Nothing}) \cup {Head(pending)}
      BY <2>1, <2>2, <2>4, NothingIsNoRun
    <2>6. Heap!Dispatched' = Heap!Dispatched
      <3> DEFINE rest == {Tail(pending)[i] : i \in 1..Len(pending) - 1}
                 old == {active[t] : t \in Slots}
                 new == {active'[t] : t \in Slots}
                 all == {pending[i] : i \in 1..Len(pending)}
                 all2 == {pending'[i] : i \in 1..Len(pending')}
      <3>1. all = rest \cup {Head(pending)}
        BY <2>3
      <3>2. all2 = rest
        <4>1. pending' = Tail(pending) /\ Len(pending') = Len(pending) - 1
          BY <2>1, <2>2
        <4>2. QED  BY <4>1
      <3>3. /\ Heap!Dispatched = (all \cup finished \cup old) \ {Nothing}
            /\ Heap!Dispatched' = (all2 \cup finished \cup new) \ {Nothing}
        BY <1>1, <2>1
      <3>4. new \ {Nothing} = (old \ {Nothing}) \cup {Head(pending)} /\ Head(pending) # Nothing
        BY <2>2, <2>5, NothingIsNoRun
      <3> HIDE DEF rest, old, new, all, all2
      <3>5. QED  BY <3>1, <3>2, <3>3, <3>4
    <2>7. PoolTypes'
      <3>1. /\ pending' \in Seq(Runs) /\ active' \in [Slots -> Runs \cup {Nothing}]
            /\ finished' \subseteq Runs
        BY <1>1, <2>1, <2>2, <2>4
      <3>2. QED  BY <3>1 DEF PoolTypes, Runs
    <2>8. QED  BY <2>6, <2>7
  <1>3. ASSUME NEW s \in Slots, Heap!Pool!Finish(s)
        PROVE  PoolTypes' /\ Heap!Dispatched' = Heap!Dispatched
    <2>1. /\ active[s] # Nothing /\ finished' = finished \cup {active[s]}
          /\ active' = [active EXCEPT ![s] = Nothing] /\ pending' = pending
      BY <1>3 DEF Heap!Pool!Finish
    <2>2. /\ active' \in [Slots -> Runs \cup {Nothing}] /\ active'[s] = Nothing
          /\ active[s] \in Runs
          /\ \A t \in Slots : t # s => active'[t] = active[t]
      BY <1>1, <2>1
    <2>3. {active[t] : t \in Slots} \ {Nothing} =
              ({active'[t] : t \in Slots} \ {Nothing}) \cup {active[s]}
      BY <2>1, <2>2
    <2>4. Heap!Dispatched' = Heap!Dispatched
      <3> DEFINE old == {active[t] : t \in Slots}
                 new == {active'[t] : t \in Slots}
                 queued == {pending[i] : i \in 1..Len(pending)}
      <3>1. /\ Heap!Dispatched = (queued \cup finished \cup old) \ {Nothing}
            /\ Heap!Dispatched' = (queued \cup (finished \cup {active[s]}) \cup new) \ {Nothing}
        BY <1>1, <2>1
      <3>2. old \ {Nothing} = (new \ {Nothing}) \cup {active[s]}
        BY <2>3
      <3> HIDE DEF queued, old, new
      <3>3. QED  BY <2>1, <3>1, <3>2
    <2>5. PoolTypes'
      <3>1. /\ pending' \in Seq(Runs) /\ active' \in [Slots -> Runs \cup {Nothing}]
            /\ finished' \subseteq Runs
        BY <1>1, <2>1, <2>2
      <3>2. QED  BY <3>1 DEF PoolTypes, Runs
    <2>6. QED  BY <2>4, <2>5
  <1>4. CASE Heap!Pool!Close
    BY <1>1, <1>4 DEF Heap!Pool!Close, PoolTypes, Runs
  <1>5. QED  BY <1>2, <1>3, <1>4 DEF Heap!PoolStep

LEMMA SubmitAddsRun ==
    ASSUME PoolTypes, NEW x \in Runs, Heap!Pool!Submit(x)
    PROVE  /\ PoolTypes' /\ x \notin Heap!Dispatched
           /\ Heap!Dispatched' = Heap!Dispatched \cup {x}
  <1>1. /\ pending \in Seq(Runs) /\ pending' = Append(pending, x)
        /\ active' = active /\ finished' = finished
        /\ x \notin Heap!Dispatched
    BY DEF PoolTypes, Heap!Pool!Submit, Heap!Dispatched
  <1>2. /\ pending' \in Seq(Runs) /\ Len(pending') = Len(pending) + 1 /\ Len(pending) \in Nat
        /\ \A i \in 1..Len(pending) : pending'[i] = pending[i]
        /\ pending'[Len(pending) + 1] = x
    BY <1>1
  <1>3. {pending'[i] : i \in 1..Len(pending')} = {pending[i] : i \in 1..Len(pending)} \cup {x}
    BY <1>2
  <1>4. x # Nothing
    BY NothingIsNoRun
  <1>5. Heap!Dispatched' = Heap!Dispatched \cup {x}
    <2>1. /\ Heap!Dispatched = ({pending[i] : i \in 1..Len(pending)} \cup finished
                                   \cup {active[s] : s \in Slots}) \ {Nothing}
          /\ Heap!Dispatched' = ({pending'[i] : i \in 1..Len(pending')} \cup finished
                                   \cup {active[s] : s \in Slots}) \ {Nothing}
      BY <1>1 DEF Heap!Dispatched, Heap!Pool!Known
    <2>2. QED  BY <1>3, <1>4, <2>1
  <1>6. PoolTypes'
    BY <1>1, <1>2 DEF PoolTypes, Runs
  <1>7. QED  BY <1>1, <1>5, <1>6

(***************************************************************************)
(* A call c that has had the runs in the set runs and has the entries in   *)
(* the set mine, in the queue or in the thread's hands.  The run that an   *)
(* entry stands for comes before the last one, or there would be none.     *)
(***************************************************************************)

Calls == [time : Nat, interval : Intervals, count : Counts]
HeapEntry == [id : Ids, run : Nat \ {0}, next : Nat, interval : Intervals, remaining : Int]

Waiting(c, e, m) ==
    /\ e.run = m + 1
    /\ e.next = c.time + (m + 1) * c.interval
    /\ e.interval = c.interval
    /\ e.remaining = (IF c.count > 0 THEN c.count - m ELSE c.count)
    /\ c.count > 0 => m < c.count
    /\ c.count = 0 => m = 0

Kept(c, runs, mine) ==
    \E m \in 0..MaxTime :
        /\ runs = 1..m
        /\ \/ c.count >= 0 /\ mine = {} /\ m = (IF c.count = 0 THEN 1 ELSE c.count)
           \/ \E e \in HeapEntry : mine = {e} /\ Waiting(c, e, m)

LEMMA SchedulerConstants ==
    /\ MaxTime \in Nat
    /\ \A i \in Intervals : i \in Nat \ {0}
    /\ \A n \in Counts : n \in Int /\ (n >= 0 \/ n = -1)
    /\ Nothing \notin Calls /\ Nothing \notin HeapEntry
  <1>1. /\ MaxTime \in Nat /\ Intervals \subseteq Nat \ {0} /\ Counts \subseteq Nat \cup {-1}
        /\ Nothing \notin [time : Nat, interval : Nat, count : Int]
        /\ Nothing \notin [id : Ids, run : Nat, next : Nat, interval : Nat, remaining : Int]
    BY TimersAssumption DEF Heap!SchedulerAssumption
  <1>2. Nothing \notin Calls
    <2>1. Calls \subseteq [time : Nat, interval : Nat, count : Int]
      <3>1. Intervals \subseteq Nat /\ Counts \subseteq Int
        BY <1>1
      <3>2. QED  BY <3>1 DEF Calls
    <2>2. QED  BY <1>1, <2>1
  <1>3. Nothing \notin HeapEntry
    <2>1. HeapEntry \subseteq
              [id : Ids, run : Nat, next : Nat, interval : Nat, remaining : Int]
      BY <1>1 DEF HeapEntry
    <2>2. QED  BY <1>1, <2>1
  <1>4. QED  BY <1>1, <1>2, <1>3

LEMMA KeptWhenCalled ==
    ASSUME NEW c \in Calls, NEW e \in HeapEntry,
           e.run = 1, e.next = c.time + c.interval, e.interval = c.interval,
           e.remaining = c.count
    PROVE  Kept(c, {}, {e})
  <1>1. c.interval \in Nat /\ c.time \in Nat /\ c.count \in Int /\ MaxTime \in Nat
    BY SchedulerConstants DEF Calls
  <1>2. Waiting(c, e, 0)
    BY <1>1 DEF Waiting
  <1>3. 0 \in 0..MaxTime /\ 1..0 = {}
    BY <1>1
  <1>4. QED  BY <1>2, <1>3 DEF Kept

\* The run of an entry whose time has come lies within the bound of time.
LEMMA KeptWhenRun ==
    ASSUME NEW c \in Calls, NEW runs, NEW e \in HeapEntry, Kept(c, runs, {e}),
           e.next <= MaxTime
    PROVE  /\ e.run \in 1..MaxTime
           /\ Heap!Rescheduled(e) \in HeapEntry /\ Heap!Rescheduled(e).id = e.id
           /\ IF e.remaining # 0 /\ Heap!Rescheduled(e).remaining # 0
              THEN Kept(c, runs \cup {e.run}, {Heap!Rescheduled(e)})
              ELSE Kept(c, runs \cup {e.run}, {})
  <1>1. /\ c.interval \in Nat \ {0} /\ c.time \in Nat /\ c.count \in Int /\ MaxTime \in Nat
        /\ c.count >= 0 \/ c.count = -1
        /\ e.id \in Ids /\ e.run \in Nat \ {0} /\ e.next \in Nat /\ e.interval \in Intervals
        /\ e.interval \in Nat \ {0} /\ e.remaining \in Int
    BY SchedulerConstants DEF Calls, HeapEntry
  <1>2. PICK m \in 0..MaxTime : runs = 1..m /\ Waiting(c, e, m)
    BY DEF Kept
  <1>3. m \in Nat /\ e.run = m + 1 /\ e.next = c.time + (m + 1) * c.interval
    BY <1>2 DEF Waiting
  <1>4. (m + 1) * c.interval >= m + 1 /\ (m + 1) * c.interval \in Nat
        /\ ((m + 1) + 1) * c.interval = (m + 1) * c.interval + c.interval
    BY <1>1, <1>3
  <1>5. e.run \in 1..MaxTime /\ m + 1 \in 0..MaxTime
    BY <1>1, <1>3, <1>4
  <1>6. runs \cup {e.run} = 1..m + 1
    BY <1>2, <1>3
  <1> DEFINE f == Heap!Rescheduled(e)
  <1>7. /\ f.id = e.id /\ f.run = e.run + 1 /\ f.next = e.next + e.interval
        /\ f.interval = e.interval
        /\ f.remaining = (IF e.remaining > 0 THEN e.remaining - 1 ELSE e.remaining)
        /\ f \in HeapEntry
    <2> DEFINE left_ == IF e.remaining > 0 THEN e.remaining - 1 ELSE e.remaining
    <2>1. /\ f = [e EXCEPT !.run = e.run + 1, !.next = e.next + e.interval,
                         !.remaining = left_]
          /\ left_ \in Int /\ e.run + 1 \in Nat \ {0} /\ e.next + e.interval \in Nat
      BY <1>1 DEF Heap!Rescheduled
    <2> HIDE DEF f, left_
    <2>2. /\ f.id = e.id /\ f.run = e.run + 1 /\ f.next = e.next + e.interval
          /\ f.interval = e.interval /\ f.remaining = left_ /\ f \in HeapEntry
      BY <2>1 DEF HeapEntry
    <2>3. QED  BY <2>2 DEF left_
  <1> HIDE DEF f
  <1>8. CASE e.remaining # 0 /\ f.remaining # 0
    <2>1. /\ e.interval = c.interval
          /\ e.remaining = (IF c.count > 0 THEN c.count - m ELSE c.count)
          /\ c.count > 0 => m < c.count
          /\ c.count = 0 => m = 0
      BY <1>2 DEF Waiting
    <2>2. f.run = (m + 1) + 1 /\ f.interval = c.interval
      BY <1>3, <1>7, <2>1
    <2>3. f.next = c.time + ((m + 1) + 1) * c.interval
      <3> DEFINE p == (m + 1) * c.interval
                 r == ((m + 1) + 1) * c.interval
      <3>1. /\ p \in Nat /\ r = p + c.interval /\ c.interval \in Nat /\ c.time \in Nat
            /\ f.next = (c.time + p) + c.interval
        BY <1>1, <1>3, <1>4, <1>7, <2>1
      <3> HIDE DEF p, r
      <3>2. f.next = c.time + r
        BY <3>1
      <3>3. QED  BY <3>2 DEF r
    <2>4. /\ f.remaining = (IF c.count > 0 THEN c.count - (m + 1) ELSE c.count)
          /\ c.count > 0 => m + 1 < c.count
          /\ c.count = 0 => m + 1 = 0
      <3>1. m \in Nat /\ c.count \in Int /\ e.remaining # 0 /\ f.remaining # 0
            /\ f.remaining = (IF e.remaining > 0 THEN e.remaining - 1 ELSE e.remaining)
        BY <1>1, <1>3, <1>7, <1>8
      <3>2. QED  BY ONLY <2>1, <3>1
    <2>5. Waiting(c, f, m + 1)
      BY <2>2, <2>3, <2>4 DEF Waiting
    <2>6. QED  BY <1>5, <1>6, <1>7, <1>8, <2>5 DEF Kept, f
  <1>9. CASE ~(e.remaining # 0 /\ f.remaining # 0)
    <2>1. c.count >= 0 /\ m + 1 = (IF c.count = 0 THEN 1 ELSE c.count)
      BY <1>1, <1>2, <1>3, <1>7, <1>9 DEF Waiting
    <2>2. QED  BY <1>5, <1>6, <1>7, <1>9, <2>1 DEF Kept, f
  <1>10. QED  BY <1>8, <1>9

(***************************************************************************)
(* The invariant of scheduler.hpp.  Calls, runs and entries belong         *)
(* together; what the thread holds is not in the queue as well, and was    *)
(* due when it was copied.                                                 *)
(***************************************************************************)

Mine(id) == {e \in Heap!Entries : e.id = id}
RunsOf(id) == {k \in 1..MaxTime : <<id, k>> \in Heap!Dispatched}

HeapTypes ==
    /\ now \in 0..MaxTime
    /\ call \in [Ids -> Calls \cup {Nothing}]
    /\ queue \subseteq HeapEntry
    /\ held \in HeapEntry \cup {Nothing}
    /\ PoolTypes

HeapHands ==
    /\ held # Nothing <=> spc \in {"adding", "pushing"}
    /\ held \notin queue
    /\ spc = "adding" => held.next <= now

HeapRuns ==
    \A id \in Ids : IF call[id] = Nothing THEN RunsOf(id) = {} /\ Mine(id) = {}
                    ELSE Kept(call[id], RunsOf(id), Mine(id))

HeapLate ==
    /\ running \in BOOLEAN
    /\ late = 0 \/ (late = 1 /\ ~running /\ spc \in {"pushing", "loop", "done"})

HeapInv == HeapTypes /\ HeapHands /\ HeapRuns

\* Steps of which neither calls, nor entries, nor runs are seen.
LEMMA HeapRunsFrame ==
    ASSUME HeapRuns, UNCHANGED call, Heap!Entries' = Heap!Entries,
           Heap!Dispatched' = Heap!Dispatched
    PROVE  HeapRuns'
  BY DEF HeapRuns, RunsOf, Mine

LEMMA HeapStep == HeapInv /\ [Heap!Next]_heapVars => HeapInv'
  <1> SUFFICES ASSUME HeapInv, [Heap!Next]_heapVars
               PROVE  HeapInv'
    OBVIOUS
  <1>1. /\ now \in 0..MaxTime /\ call \in [Ids -> Calls \cup {Nothing}]
        /\ queue \subseteq HeapEntry /\ held \in HeapEntry \cup {Nothing}
        /\ PoolTypes /\ HeapTypes /\ HeapHands /\ HeapRuns
        /\ held # Nothing <=> spc \in {"adding", "pushing"}
        /\ held \notin queue
        /\ spc = "adding" => held.next <= now
    BY DEF HeapInv, HeapTypes, HeapHands
  <1>2. MaxTime \in Nat /\ Nothing \notin HeapEntry /\ Nothing \notin Calls
        /\ \A i \in Intervals : i \in Nat \ {0}
    BY SchedulerConstants
  <1>3. ASSUME UNCHANGED <<queue, held>>
        PROVE  Heap!Entries' = Heap!Entries
    BY <1>3 DEF Heap!Entries
  <1>4. ASSUME UNCHANGED <<pending, active, finished>>
        PROVE  Heap!Dispatched' = Heap!Dispatched /\ PoolTypes'
    BY <1>1, <1>4 DEF Heap!Dispatched, Heap!Pool!Known, PoolTypes, Runs
  <1>5. ASSUME now' \in 0..MaxTime, now' >= now, UNCHANGED <<call, queue, held>>,
               PoolTypes', Heap!Dispatched' = Heap!Dispatched,
               spc' = spc \/ (spc \notin {"adding", "pushing"} /\ spc' \notin {"adding", "pushing"})
        PROVE  HeapInv'
    <2>1. HeapRuns'
      BY <1>1, <1>3, <1>5, HeapRunsFrame
    <2>2. HeapTypes'
      BY <1>1, <1>5 DEF HeapTypes, Calls, HeapEntry
    <2>3. HeapHands'
      <3>1. spc = "adding" => held.next \in Nat
        BY <1>1, <1>2 DEF HeapEntry
      <3>2. now \in Nat /\ now' \in Nat
        BY <1>1, <1>2, <1>5
      <3>3. spc' = "adding" => held'.next <= now'
        BY <1>1, <1>5, <3>1, <3>2
      <3>4. (held' # Nothing <=> spc' \in {"adding", "pushing"}) /\ held' \notin queue'
        BY <1>1, <1>5
      <3>5. QED  BY <3>3, <3>4 DEF HeapHands
    <2>4. QED  BY <2>1, <2>2, <2>3 DEF HeapInv
  <1>6. CASE Heap!Tick
    <2>1. now' \in 0..MaxTime /\ now' >= now
      BY <1>1, <1>2, <1>6 DEF Heap!Tick
    <2>2. /\ UNCHANGED <<call, queue, held, spc>> /\ UNCHANGED <<pending, active, finished>>
      BY <1>6 DEF Heap!Tick, Heap!svars, Heap!pvars
    <2>3. QED  BY <1>4, <1>5, <2>1, <2>2
  <1>7. CASE \/ Heap!TestRunning \/ Heap!WaitForTask \/ Heap!WaitUntilDue \/ Heap!Timeout
             \/ Heap!NotYet \/ Heap!ReadFreed \/ Heap!SpuriousWakeup
             \/ Heap!StopRunning \/ Heap!NotifyAll \/ Heap!Join \/ UNCHANGED heapVars
    <2>1. /\ UNCHANGED <<now, call, queue, held>> /\ UNCHANGED <<pending, active, finished>>
          /\ spc' = spc \/ (spc \notin {"adding", "pushing"} /\ spc' \notin {"adding", "pushing"})
      BY <1>7 DEF Heap!TestRunning, Heap!WaitForTask, Heap!WaitUntilDue, Heap!Timeout,
                  Heap!NotYet, Heap!ReadFreed, Heap!SpuriousWakeup, Heap!StopRunning,
                  Heap!NotifyAll, Heap!Join, Heap!Notified, Heap!svars, Heap!pvars, heapVars
    <2>2. now' \in 0..MaxTime /\ now' >= now
      BY <1>1, <1>2, <2>1
    <2>3. QED  BY <1>4, <1>5, <2>1, <2>2
  <1>8. CASE Heap!PoolStep
    <2>1. UNCHANGED <<now, call, queue, held, spc>>
      BY <1>8 DEF Heap!PoolStep, Heap!svars
    <2>2. now' \in 0..MaxTime /\ now' >= now
      BY <1>1, <1>2, <2>1
    <2>3. PoolTypes' /\ Heap!Dispatched' = Heap!Dispatched
      BY <1>1, <1>8, PoolKeepsRuns
    <2>4. QED  BY <1>5, <2>1, <2>2, <2>3
  <1>9. ASSUME NEW id \in Ids, NEW i \in Intervals, NEW n \in Counts, Heap!Schedule(id, i, n)
        PROVE  HeapInv'
    <2> DEFINE c == [time |-> now, interval |-> i, count |-> n]
               e == [id |-> id, run |-> 1, next |-> now + i, interval |-> i, remaining |-> n]
    <2>1. /\ call[id] = Nothing /\ call' = [call EXCEPT ![id] = c]
          /\ queue' = queue \cup {e} /\ UNCHANGED <<now, held>>
          /\ UNCHANGED <<pending, active, finished>>
          /\ spc' = spc \/ (spc \notin {"adding", "pushing"} /\ spc' \notin {"adding", "pushing"})
      BY <1>9 DEF Heap!Schedule, Heap!Notified, Heap!svars, Heap!pvars
    <2>2. c \in Calls /\ c.time = now /\ c.interval = i /\ c.count = n
      BY <1>1, <1>2 DEF Calls
    <2>3. e \in HeapEntry /\ e.id = id /\ e.run = 1 /\ e.next = now + i /\ e.interval = i
          /\ e.remaining = n
      BY <1>1, <1>2, SchedulerConstants DEF HeapEntry
    <2> HIDE DEF c, e
    <2>4. RunsOf(id) = {} /\ Mine(id) = {}
      BY <1>1, <2>1 DEF HeapRuns
    <2>5. e # held
      BY <1>2, <2>3, <2>4 DEF Mine, Heap!Entries
    <2>6. Heap!Entries' = Heap!Entries \cup {e}
      BY <2>1 DEF Heap!Entries
    <2>7. Heap!Dispatched' = Heap!Dispatched /\ PoolTypes'
      BY <1>4, <2>1
    <2>8. call' \in [Ids -> Calls \cup {Nothing}] /\ call'[id] = c
          /\ \A j \in Ids : j # id => call'[j] = call[j]
      BY <1>1, <2>1, <2>2
    <2>9. HeapTypes'
      BY <1>1, <2>1, <2>3, <2>7, <2>8 DEF HeapTypes, Calls, HeapEntry
    <2>10. HeapHands'
      BY <1>1, <2>1, <2>5 DEF HeapHands
    <2>11. Kept(c, {}, {e})
      BY <2>2, <2>3, KeptWhenCalled
    <2>12. HeapRuns'
      <3> SUFFICES ASSUME NEW j \in Ids
                   PROVE  IF call'[j] = Nothing THEN RunsOf(j)' = {} /\ Mine(j)' = {}
                          ELSE Kept(call'[j], RunsOf(j)', Mine(j)')
        BY DEF HeapRuns, Kept, HeapEntry
      <3>1. RunsOf(j)' = RunsOf(j)
        BY <2>7 DEF RunsOf
      <3>2. CASE j = id
        <4>1. Mine(j)' = {e}
          BY <2>3, <2>4, <2>6, <3>2 DEF Mine
        <4>2. QED  BY <1>2, <2>2, <2>4, <2>8, <2>11, <3>1, <3>2, <4>1
      <3>3. CASE j # id
        <4>1. Mine(j)' = Mine(j)
          BY <2>3, <2>6, <3>3 DEF Mine
        <4>2. QED  BY <1>1, <2>8, <3>1, <3>3, <4>1 DEF HeapRuns
      <3>4. QED  BY <3>2, <3>3
    <2>13. QED  BY <2>9, <2>10, <2>12 DEF HeapInv
  <1>10. CASE Heap!Copy
    <2>1. PICK e \in Heap!Tops : now >= e.next /\ held' = e /\ queue' = queue \ {e}
      BY <1>10 DEF Heap!Copy
    <2>2. /\ spc = "woken" /\ spc' = "adding" /\ UNCHANGED <<now, call>>
          /\ UNCHANGED <<pending, active, finished>>
      BY <1>10 DEF Heap!Copy, Heap!pvars
    <2>3. e \in queue /\ e \in HeapEntry /\ e # Nothing /\ held = Nothing
          /\ e.next \in Nat /\ now \in Nat
      BY <1>1, <1>2, <2>1, <2>2 DEF Heap!Tops, HeapEntry
    <2>4. Heap!Entries' = Heap!Entries
      BY <2>1, <2>3 DEF Heap!Entries
    <2>5. Heap!Dispatched' = Heap!Dispatched /\ PoolTypes'
      BY <1>4, <2>2
    <2>6. HeapTypes'
      BY <1>1, <2>1, <2>2, <2>3, <2>5 DEF HeapTypes, Calls, HeapEntry
    <2>7. HeapHands'
      BY <2>1, <2>2, <2>3 DEF HeapHands
    <2>8. HeapRuns'
      BY <1>1, <2>2, <2>4, <2>5, HeapRunsFrame
    <2>9. QED  BY <2>6, <2>7, <2>8 DEF HeapInv
  <1>11. CASE Heap!PushBack
    <2>1. /\ spc = "pushing" /\ spc' = "loop" /\ UNCHANGED <<now, call>>
          /\ UNCHANGED <<pending, active, finished>>
          /\ queue' = queue \cup {held} /\ held' = Nothing
      BY <1>11 DEF Heap!PushBack, Heap!pvars
    <2>2. held # Nothing /\ held \in HeapEntry
      BY <1>1, <2>1
    <2>3. Heap!Entries' = Heap!Entries
      BY <2>1, <2>2 DEF Heap!Entries
    <2>4. Heap!Dispatched' = Heap!Dispatched /\ PoolTypes'
      BY <1>4, <2>1
    <2>5. HeapTypes'
      BY <1>1, <2>1, <2>2, <2>4 DEF HeapTypes, Calls, HeapEntry
    <2>6. HeapHands'
      BY <1>1, <1>2, <2>1, <2>2 DEF HeapHands
    <2>7. HeapRuns'
      BY <1>1, <2>1, <2>3, <2>4, HeapRunsFrame
    <2>8. QED  BY <2>5, <2>6, <2>7 DEF HeapInv
  <1>12. CASE Heap!AddTask
    <2> DEFINE x == <<held.id, held.run>>
               f == Heap!Rescheduled(held)
               again == held.remaining # 0 /\ f.remaining # 0
    <2>1. /\ spc = "adding" /\ Heap!Pool!Submit(x) /\ UNCHANGED <<now, call, queue>>
          /\ IF again THEN held' = f /\ spc' = "pushing" ELSE held' = Nothing /\ spc' = "loop"
      BY <1>12 DEF Heap!AddTask
    <2>2. /\ held # Nothing /\ held \in HeapEntry /\ held \in Heap!Entries
          /\ held.id \in Ids /\ held \in Mine(held.id)
          /\ held.next <= now /\ held.next \in Nat /\ now \in Nat /\ now <= MaxTime
      BY <1>1, <1>2, <2>1 DEF Heap!Entries, HeapEntry, Mine
    <2> DEFINE c == call[held.id]
    <2>3. c \in Calls /\ Kept(c, RunsOf(held.id), Mine(held.id))
      BY <1>1, <2>2 DEF HeapRuns
    <2>4. Mine(held.id) = {held}
      BY <2>2, <2>3 DEF Kept
    <2>5. held.next <= MaxTime
      BY <1>2, <2>2
    <2>6. /\ held.run \in 1..MaxTime /\ f \in HeapEntry /\ f.id = held.id
          /\ IF again THEN Kept(c, RunsOf(held.id) \cup {held.run}, {f})
             ELSE Kept(c, RunsOf(held.id) \cup {held.run}, {})
      BY <2>2, <2>3, <2>4, <2>5, KeptWhenRun
    <2> HIDE DEF f
    <2>7. x \in Runs
      BY <2>2, <2>6 DEF Runs
    <2>8. PoolTypes' /\ Heap!Dispatched' = Heap!Dispatched \cup {x}
      BY <1>1, <2>1, <2>7, SubmitAddsRun
    <2>9. HeapTypes'
      BY <1>1, <2>1, <2>6, <2>8 DEF HeapTypes, Calls, HeapEntry
    <2>10. \A e \in queue : e.id # held.id
      BY <1>1, <2>4 DEF Mine, Heap!Entries
    <2>11. HeapHands'
      BY <1>1, <1>2, <2>1, <2>6, <2>10 DEF HeapHands
    <2>12. HeapRuns'
      <3> SUFFICES ASSUME NEW j \in Ids
                   PROVE  IF call'[j] = Nothing THEN RunsOf(j)' = {} /\ Mine(j)' = {}
                          ELSE Kept(call'[j], RunsOf(j)', Mine(j)')
        BY DEF HeapRuns, Kept, HeapEntry
      <3>1. CASE j = held.id
        <4>1. RunsOf(j)' = RunsOf(j) \cup {held.run}
          BY <2>6, <2>8, <3>1 DEF RunsOf
        <4>2. Mine(j)' = (IF again THEN {f} ELSE {})
          BY <1>2, <2>1, <2>6, <2>10, <3>1 DEF Mine, Heap!Entries
        <4>3. Kept(c, RunsOf(j)', Mine(j)')
          BY <2>6, <3>1, <4>1, <4>2
        <4>4. call'[j] = c /\ c # Nothing
          BY <1>2, <2>1, <2>3, <3>1
        <4>5. QED  BY <4>3, <4>4
      <3>2. CASE j # held.id
        <4>1. RunsOf(j)' = RunsOf(j)
          BY <2>8, <3>2 DEF RunsOf
        <4>2. Mine(j)' = Mine(j)
          BY <2>1, <2>6, <3>2 DEF Mine, Heap!Entries
        <4>3. QED  BY <1>1, <2>1, <4>1, <4>2 DEF HeapRuns
      <3>3. QED  BY <3>1, <3>2
    <2>13. QED  BY <2>9, <2>11, <2>12 DEF HeapInv
  <1>13. QED  BY <1>6, <1>7, <1>8, <1>9, <1>10, <1>11, <1>12 DEF Heap!Next, Heap!Scheduling

\* Once running is false the thread comes to its test without another task.
LEMMA HeapLateStep == HeapLate /\ [Heap!Next]_heapVars => HeapLate'
  <1> SUFFICES ASSUME HeapLate, [Heap!Next]_heapVars
               PROVE  HeapLate'
    OBVIOUS
  <1>1. CASE Heap!AddTask
    BY <1>1 DEF HeapLate, Heap!AddTask
  <1>2. CASE Heap!TestRunning
    BY <1>2 DEF HeapLate, Heap!TestRunning, Heap!hvars
  <1>3. CASE \/ Heap!WaitForTask \/ Heap!WaitUntilDue \/ Heap!Timeout \/ Heap!NotYet
             \/ Heap!Copy \/ Heap!ReadFreed \/ Heap!PushBack \/ Heap!SpuriousWakeup
    BY <1>3 DEF HeapLate, Heap!WaitForTask, Heap!WaitUntilDue, Heap!Timeout, Heap!NotYet,
                Heap!Copy, Heap!ReadFreed, Heap!PushBack, Heap!SpuriousWakeup,
                Heap!Notified, Heap!hvars
  <1>4. CASE Heap!Tick \/ Heap!StopRunning \/ Heap!NotifyAll \/ Heap!Join
    <2>1. \/ late' = late /\ spc' = spc /\ (running' = running \/ running' = FALSE)
          \/ late' = late /\ running' = running /\ spc' = Heap!Notified
      BY <1>4 DEF Heap!Tick, Heap!StopRunning, Heap!NotifyAll, Heap!Join,
                  Heap!svars, Heap!hvars
    <2>2. spc \in {"pushing", "loop", "done"} => Heap!Notified = spc
      BY Zenon DEF Heap!Notified
    <2>3. late' = late /\ running' \in BOOLEAN /\ (~running => ~running')
      <3>1. CASE running' = running
        BY <2>1, <3>1 DEF HeapLate
      <3>2. CASE running' = FALSE
        BY <2>1, <3>2, Zenon
      <3>3. QED  BY <2>1, <3>1, <3>2
    <2>4. spc \in {"pushing", "loop", "done"} => spc' = spc
      BY <2>1, <2>2, Zenon
    <2>5. QED  BY <2>3, <2>4, Zenon DEF HeapLate
  <1>5. CASE Heap!PoolStep \/ UNCHANGED heapVars
    BY <1>5 DEF HeapLate, Heap!PoolStep, Heap!svars, Heap!hvars, heapVars
  <1>6. ASSUME NEW id \in Ids, NEW i \in Intervals, NEW n \in Counts, Heap!Schedule(id, i, n)
        PROVE  HeapLate'
    BY <1>6 DEF HeapLate, Heap!Schedule, Heap!Notified, Heap!hvars
  <1>7. QED  BY <1>1, <1>2, <1>3, <1>4, <1>5, <1>6 DEF Heap!Next, Heap!Scheduling

\* What NeverEarly says of a step of scheduler.hpp.
HeapOnTime ==
    \A x \in Heap!Dispatched' \ Heap!Dispatched : now >= Heap!Due(x[1], x[2])

LEMMA HeapIsNeverEarly == HeapInv /\ [Heap!Next]_heapVars => [HeapOnTime]_heapVars
  <1> SUFFICES ASSUME HeapInv, Heap!Next,
                      NEW x \in Heap!Dispatched' \ Heap!Dispatched
               PROVE  now >= Heap!Due(x[1], x[2])
    BY DEF HeapOnTime
  <1>1. HeapTypes /\ HeapHands /\ HeapRuns
    BY DEF HeapInv
  <1>2. ASSUME UNCHANGED <<pending, active, finished>>
        PROVE  FALSE
    BY <1>2 DEF Heap!Dispatched, Heap!Pool!Known
  <1>3. CASE Heap!AddTask
    <2>1. spc = "adding" /\ Heap!Pool!Submit(<<held.id, held.run>>)
      BY <1>3 DEF Heap!AddTask
    <2>2. /\ held # Nothing /\ held \in HeapEntry /\ held.id \in Ids /\ held.run \in Nat
          /\ held \in Mine(held.id) /\ held.next <= now /\ held.next \in Nat
          /\ now \in Nat /\ now <= MaxTime
      BY <1>1, <2>1, SchedulerConstants DEF HeapTypes, HeapHands, HeapEntry, Mine, Heap!Entries
    <2> DEFINE c == call[held.id]
    <2>3. c \in Calls /\ Kept(c, RunsOf(held.id), Mine(held.id))
      BY <1>1, <2>2 DEF HeapRuns, HeapTypes
    <2>4. Mine(held.id) = {held} /\ held.next <= MaxTime
      BY <2>2, <2>3, SchedulerConstants DEF Kept
    <2>5. held.run \in 1..MaxTime
      BY <2>2, <2>3, <2>4, KeptWhenRun
    <2>6. held.next = c.time + held.run * c.interval
      BY <2>3, <2>4 DEF Kept, Waiting
    <2>7. <<held.id, held.run>> \in Runs
      BY <2>2, <2>5 DEF Runs
    <2>8. x = <<held.id, held.run>>
      BY <1>1, <2>1, <2>7, SubmitAddsRun DEF HeapTypes
    <2>9. QED  BY <2>2, <2>6, <2>8 DEF Heap!Due
  <1>4. CASE Heap!PoolStep
    BY <1>1, <1>4, PoolKeepsRuns DEF HeapTypes
  <1>5. CASE \/ Heap!Tick \/ Heap!TestRunning \/ Heap!WaitForTask \/ Heap!WaitUntilDue
             \/ Heap!Timeout \/ Heap!NotYet \/ Heap!Copy \/ Heap!ReadFreed \/ Heap!PushBack
             \/ Heap!SpuriousWakeup \/ Heap!StopRunning \/ Heap!NotifyAll \/ Heap!Join
    BY <1>2, <1>5 DEF Heap!Tick, Heap!TestRunning, Heap!WaitForTask, Heap!WaitUntilDue,
                Heap!Timeout, Heap!NotYet, Heap!Copy, Heap!ReadFreed, Heap!PushBack,
                Heap!SpuriousWakeup, Heap!StopRunning, Heap!NotifyAll, Heap!Join, Heap!pvars
  <1>6. ASSUME NEW id \in Ids, NEW i \in Intervals, NEW n \in Counts, Heap!Schedule(id, i, n)
        PROVE  FALSE
    BY <1>2, <1>6 DEF Heap!Schedule, Heap!pvars
  <1>7. QED  BY <1>3, <1>4, <1>5, <1>6 DEF Heap!Next, Heap!Scheduling

LEMMA SameCardinality ==
    ASSUME NEW S
    PROVE  Heap!Cardinality(S) = Cardinality(S)
  BY DEF Heap!Cardinality, Cardinality

LEMMA HeapKeepsCounts == HeapInv => Heap!CountsAreKept
  <1> SUFFICES ASSUME HeapInv, NEW id \in Heap!Called
               PROVE  /\ RunsOf(id) = 1..Cardinality(RunsOf(id))
                      /\ \/ /\ call[id].count >= 0 /\ Mine(id) = {}
                            /\ Cardinality(RunsOf(id)) =
                                   (IF call[id].count = 0 THEN 1 ELSE call[id].count)
                         \/ \E f \in Mine(id) :
                                /\ Mine(id) = {f}
                                /\ f.run = Cardinality(RunsOf(id)) + 1
                                /\ f.next = Heap!Due(id, f.run)
                                /\ f.remaining = (IF call[id].count > 0
                                                  THEN call[id].count - Cardinality(RunsOf(id))
                                                  ELSE call[id].count)
    BY SameCardinality DEF Heap!CountsAreKept, RunsOf, Mine
  <1>1. Kept(call[id], RunsOf(id), Mine(id)) /\ id \in Ids
    BY DEF HeapInv, HeapRuns, Heap!Called
  <1>2. PICK m \in 0..MaxTime :
            /\ RunsOf(id) = 1..m
            /\ LET c == call[id] IN
               \/ c.count >= 0 /\ Mine(id) = {} /\ m = (IF c.count = 0 THEN 1 ELSE c.count)
               \/ \E e \in HeapEntry : Mine(id) = {e} /\ Waiting(c, e, m)
    BY <1>1 DEF Kept
  <1>3. m \in Nat /\ Cardinality(1..m) = m
    <2>1. m \in Nat
      BY <1>2, SchedulerConstants
    <2>2. Cardinality(1..m) = (IF 1 > m THEN 0 ELSE m - 1 + 1)
      BY <2>1, FS_Interval
    <2>3. QED  BY <2>1, <2>2
  <1>4. Cardinality(RunsOf(id)) = m
    BY <1>2, <1>3
  <1>5. RunsOf(id) = 1..Cardinality(RunsOf(id))
    BY <1>2, <1>4
  <1>6. ASSUME NEW e \in HeapEntry, Mine(id) = {e}, Waiting(call[id], e, m)
        PROVE  \E f \in Mine(id) :
                   /\ Mine(id) = {f}
                   /\ f.run = Cardinality(RunsOf(id)) + 1
                   /\ f.next = Heap!Due(id, f.run)
                   /\ f.remaining = (IF call[id].count > 0
                                     THEN call[id].count - Cardinality(RunsOf(id))
                                     ELSE call[id].count)
    BY <1>4, <1>6 DEF Waiting, Heap!Due
  <1>7. QED  BY <1>2, <1>4, <1>5, <1>6

-------------------------------------------------------------------------------

(***************************************************************************)
(* The linked queues of 222.c.  What a pointer h leads to along the fields *)
(* nx is the least set that has h and what its members point at.           *)
(***************************************************************************)

Closed(S, nx) == \A u \in S : nx[u] \in S \cup {NULL}

Reached(h, nx) ==
    {t \in Tasks : h # NULL /\ \A S \in SUBSET Tasks : h \in S /\ Closed(S, nx) => t \in S}

Links == [Tasks -> Tasks \cup {NULL}]

LEMMA NullIsNoTask == NULL \notin Tasks
  BY TimersAssumption DEF InC!PollingTimerAssumption

LEMMA ReachedIsClosed ==
    ASSUME NEW h \in Tasks, NEW nx \in Links
    PROVE  h \in Reached(h, nx) /\ Closed(Reached(h, nx), nx)
  <1>1. h # NULL
    BY NullIsNoTask
  <1>2. h \in Reached(h, nx)
    BY <1>1 DEF Reached
  <1>3. ASSUME NEW u \in Reached(h, nx), nx[u] # NULL
        PROVE  nx[u] \in Reached(h, nx)
    <2>1. u \in Tasks /\ nx[u] \in Tasks
      BY <1>3 DEF Reached, Links
    <2>2. ASSUME NEW S \in SUBSET Tasks, h \in S, Closed(S, nx)
          PROVE  nx[u] \in S
      <3>1. u \in S
        BY <2>2 DEF Reached
      <3>2. QED  BY <1>3, <2>2, <3>1 DEF Closed
    <2>3. QED  BY <1>1, <2>1, <2>2 DEF Reached
  <1>4. QED  BY <1>2, <1>3 DEF Closed

LEMMA ReachedIsLeast ==
    ASSUME NEW h, NEW nx, NEW S \in SUBSET Tasks, h \in S, Closed(S, nx)
    PROVE  Reached(h, nx) \subseteq S
  BY DEF Reached

LEMMA NullReachesNothing ==
    ASSUME NEW nx
    PROVE  Reached(NULL, nx) = {}
  BY DEF Reached

\* Fields of other tasks do not matter.
LEMMA ReachedFrame ==
    ASSUME NEW h \in Tasks \cup {NULL}, NEW nx \in Links, NEW ny \in Links,
           \A u \in Reached(h, nx) : ny[u] = nx[u]
    PROVE  Reached(h, ny) = Reached(h, nx)
  <1>1. CASE h = NULL
    BY <1>1, NullReachesNothing
  <1>2. CASE h \in Tasks
    <2>1. /\ h \in Reached(h, nx) /\ Closed(Reached(h, nx), nx)
          /\ h \in Reached(h, ny) /\ Closed(Reached(h, ny), ny)
      BY <1>2, ReachedIsClosed
    <2>2. Reached(h, nx) \in SUBSET Tasks /\ Reached(h, ny) \in SUBSET Tasks
      BY DEF Reached
    <2>3. Closed(Reached(h, nx), ny)
      BY <2>1 DEF Closed
    <2>4. Reached(h, ny) \subseteq Reached(h, nx)
      BY <2>1, <2>2, <2>3, ReachedIsLeast
    <2>5. Closed(Reached(h, ny), nx)
      BY <2>1, <2>4 DEF Closed
    <2>6. Reached(h, nx) \subseteq Reached(h, ny)
      BY <2>1, <2>2, <2>5, ReachedIsLeast
    <2>7. QED  BY <2>4, <2>6
  <1>3. QED  BY <1>1, <1>2

\* A queue as a whole: nothing in it points at its head, no two tasks point at the
\* same one, and its tail is an end.
IsQueue(h, tl, nx) ==
    /\ h = NULL <=> tl = NULL
    /\ h # NULL => tl \in Reached(h, nx) /\ nx[tl] = NULL
    /\ \A u \in Reached(h, nx) : nx[u] # h
    /\ \A u, v \in Reached(h, nx) : nx[u] = nx[v] /\ nx[u] # NULL => u = v

LEMMA QueueFrame ==
    ASSUME NEW h \in Tasks \cup {NULL}, NEW tl, NEW nx \in Links, NEW ny \in Links,
           \A u \in Reached(h, nx) : ny[u] = nx[u],
           IsQueue(h, tl, nx)
    PROVE  IsQueue(h, tl, ny)
  BY ReachedFrame DEF IsQueue

LEMMA QueueOfOne ==
    ASSUME NEW t \in Tasks, NEW nx \in Links, nx[t] = NULL
    PROVE  Reached(t, nx) = {t} /\ IsQueue(t, t, nx)
  <1>1. Closed({t}, nx)
    BY DEF Closed
  <1>2. Reached(t, nx) = {t}
    BY <1>1, ReachedIsClosed, ReachedIsLeast
  <1>3. QED  BY <1>2, NullIsNoTask DEF IsQueue

LEMMA Enqueued ==
    ASSUME NEW h \in Tasks, NEW tl, NEW nx \in Links, IsQueue(h, tl, nx),
           NEW t \in Tasks, t \notin Reached(h, nx),
           NEW ny \in Links, ny[t] = NULL, ny[tl] = t,
           \A u \in Tasks \ {t, tl} : ny[u] = nx[u]
    PROVE  Reached(h, ny) = Reached(h, nx) \cup {t} /\ IsQueue(h, t, ny)
  <1> DEFINE R == Reached(h, nx)
             R2 == Reached(h, ny)
  <1>1. /\ h # NULL /\ t # NULL /\ R \in SUBSET Tasks /\ R2 \in SUBSET Tasks
        /\ tl \in R /\ nx[tl] = NULL
        /\ \A u \in R : nx[u] # h
        /\ \A u, v \in R : nx[u] = nx[v] /\ nx[u] # NULL => u = v
    BY NullIsNoTask DEF IsQueue, Reached
  <1>2. h \in R /\ Closed(R, nx) /\ h \in R2 /\ Closed(R2, ny)
    BY ReachedIsClosed
  <1> HIDE DEF R, R2
  <1>3. Closed(R \cup {t}, ny)
    BY <1>1, <1>2 DEF Closed
  <1>4. R2 \subseteq R \cup {t}
    <2>1. R \cup {t} \in SUBSET Tasks /\ h \in R \cup {t}
      BY <1>1, <1>2
    <2>2. QED  BY <1>3, <2>1, ReachedIsLeast DEF R2
  <1>5. t \notin R
    BY DEF R
  <1>6. Closed(R2 \ {t}, nx)
    <2> SUFFICES ASSUME NEW u \in R2 \ {t}, nx[u] # NULL
                 PROVE  nx[u] \in R2 \ {t}
      BY DEF Closed
    <2>1. u \in R /\ u \in Tasks /\ u # tl
      BY <1>1, <1>4
    <2>2. ny[u] = nx[u] /\ nx[u] \in R
      BY <1>2, <2>1 DEF Closed
    <2>3. QED  BY <1>2, <1>5, <2>2 DEF Closed
  <1>7. R \subseteq R2
    <2>1. R2 \ {t} \in SUBSET Tasks /\ h \in R2 \ {t}
      BY <1>1, <1>2, <1>5
    <2>2. R \subseteq R2 \ {t}
      BY <1>6, <2>1, ReachedIsLeast DEF R
    <2>3. QED  BY <2>2
  <1>8. t \in R2
    BY <1>1, <1>2, <1>7 DEF Closed
  <1>9. R2 = R \cup {t}
    BY <1>4, <1>7, <1>8
  <1>10. \A u \in R : u # tl => ny[u] = nx[u] /\ nx[u] # t
    BY <1>1, <1>2, <1>5 DEF Closed
  <1>11. \A u \in R2 : ny[u] # h
    BY <1>1, <1>2, <1>5, <1>9, <1>10
  <1>12. \A u, v \in R2 : ny[u] = ny[v] /\ ny[u] # NULL => u = v
    BY <1>1, <1>9, <1>10
  <1>13. QED  BY <1>1, <1>8, <1>9, <1>11, <1>12 DEF IsQueue, R, R2

LEMMA Dequeued ==
    ASSUME NEW h \in Tasks, NEW tl, NEW nx \in Links, IsQueue(h, tl, nx)
    PROVE  /\ Reached(nx[h], nx) = Reached(h, nx) \ {h} /\ h \in Reached(h, nx)
           /\ IsQueue(nx[h], IF nx[h] = NULL THEN NULL ELSE tl, nx)
  <1> DEFINE R == Reached(h, nx)
             k == nx[h]
             R2 == Reached(k, nx)
  <1>1. /\ h # NULL /\ R \in SUBSET Tasks /\ R2 \in SUBSET Tasks
        /\ tl \in R /\ nx[tl] = NULL
        /\ \A u \in R : nx[u] # h
        /\ \A u, v \in R : nx[u] = nx[v] /\ nx[u] # NULL => u = v
        /\ k \in Tasks \cup {NULL}
    BY NullIsNoTask DEF IsQueue, Reached, Links
  <1>2. h \in R /\ Closed(R, nx)
    BY ReachedIsClosed
  <1>3. CASE k = NULL
    <2>1. R2 = {}
      BY <1>3, NullReachesNothing
    <2>2. R = {h}
      <3>1. Closed({h}, nx)
        BY <1>3 DEF Closed
      <3>2. QED  BY <1>2, <3>1, ReachedIsLeast
    <2>3. QED  BY <1>2, <1>3, <2>1, <2>2 DEF IsQueue
  <1>4. CASE k # NULL
    <2>1. k \in Tasks /\ k \in R2 /\ Closed(R2, nx)
      BY <1>1, <1>4, ReachedIsClosed
    <2>2. k \in R
      BY <1>2, <1>4 DEF Closed
    <2> HIDE DEF R, k, R2
    <2>3. R2 \subseteq R
      BY <1>1, <1>2, <2>2, ReachedIsLeast DEF R2
    <2>4. h \notin R2
      <3>1. k # h
        BY <1>1, <1>2 DEF k
      <3>2. Closed(R2 \ {h}, nx)
        BY <1>1, <2>1, <2>3 DEF Closed
      <3>3. R2 \ {h} \in SUBSET Tasks /\ k \in R2 \ {h}
        BY <1>1, <2>1, <3>1
      <3>4. R2 \subseteq R2 \ {h}
        BY <3>2, <3>3, ReachedIsLeast DEF R2
      <3>5. QED  BY <3>4
    <2>5. R \subseteq R2 \cup {h}
      <3>1. Closed(R2 \cup {h}, nx)
        BY <2>1 DEF Closed, k
      <3>2. R2 \cup {h} \in SUBSET Tasks /\ h \in R2 \cup {h}
        BY <1>1
      <3>3. QED  BY <3>1, <3>2, ReachedIsLeast DEF R
    <2>6. R2 = R \ {h}
      BY <2>3, <2>4, <2>5
    <2>7. tl \in R2
      BY <1>1, <1>4, <2>6 DEF k
    <2>8. \A u \in R2 : nx[u] # k
      BY <1>1, <1>2, <1>4, <2>6 DEF k
    <2>9. \A u, v \in R2 : nx[u] = nx[v] /\ nx[u] # NULL => u = v
      BY <1>1, <2>6
    <2>10. tl # NULL
      BY <1>1, NullIsNoTask
    <2>11. IsQueue(k, tl, nx)
      BY <1>1, <1>4, <2>7, <2>8, <2>9, <2>10 DEF IsQueue, R2
    <2>12. QED  BY <1>2, <1>4, <2>6, <2>11 DEF R, k, R2
  <1>5. QED  BY <1>3, <1>4

Queue(i) == Reached(head[i], next)
W == InC!Workers
Pointer == Tasks \cup {NULL}

InQueues == UNION {Queue(i) : i \in W}

PollingTypes ==
    /\ head \in [W -> Pointer] /\ tail \in [W -> Pointer] /\ task \in [W -> Pointer]
    /\ next \in Links
    /\ worker \in [W -> {"locking", "waiting", "executing"}]
    /\ timer \in 0..THREAD_COUNT

PollingPlaces ==
    /\ allocated = InC!Held \cup InQueues
    /\ \A i \in W : /\ IsQueue(head[i], tail[i], next)
                    /\ Queue(i) \cap InC!Held = {}
                    /\ worker[i] = "executing" <=> task[i] # NULL
    /\ \A i, j \in W : i # j => /\ Queue(i) \cap Queue(j) = {}
                                /\ task[i] = task[j] => task[i] = NULL

PollingInv == PollingTypes /\ PollingPlaces

LEMMA InAQueue == \A x : x \in InQueues <=> \E i \in W : x \in Queue(i)
  BY DEF InQueues

LEMMA QueuedIsReached ==
    ASSUME NEW i
    PROVE  InC!Queued(i) = Queue(i)
  BY DEF InC!Queued, Queue, Reached, Closed

LEMMA PollingStep == PollingInv /\ [InC!PollingNext]_pollingVars => PollingInv'
  <1> SUFFICES ASSUME PollingInv, [InC!PollingNext]_pollingVars
               PROVE  PollingInv'
    OBVIOUS
  <1>1. /\ head \in [W -> Pointer] /\ tail \in [W -> Pointer] /\ task \in [W -> Pointer]
        /\ next \in Links
        /\ worker \in [W -> {"locking", "waiting", "executing"}]
        /\ timer \in 0..THREAD_COUNT
    BY DEF PollingInv, PollingTypes
  <1>2. /\ allocated = InC!Held \cup InQueues
        /\ \A i \in W : /\ IsQueue(head[i], tail[i], next)
                        /\ Queue(i) \cap InC!Held = {}
                        /\ worker[i] = "executing" <=> task[i] # NULL
        /\ \A i, j \in W : i # j => /\ Queue(i) \cap Queue(j) = {}
                                    /\ task[i] = task[j] => task[i] = NULL
    BY DEF PollingInv, PollingPlaces
  <1>3. W = 1..THREAD_COUNT /\ THREAD_COUNT \in Nat
    BY TimersAssumption DEF W, InC!Workers, InC!PollingTimerAssumption
  <1>4. InC!Held = {task[i] : i \in W} \ {NULL}
    BY DEF InC!Held, W
  <1>5. \A i \in W : head[i] \in Pointer /\ Queue(i) \subseteq Tasks
    BY <1>1 DEF Queue, Reached
  \* Steps that touch neither a queue nor a task.
  <1>6. ASSUME UNCHANGED <<head, tail, next, allocated, task>>, timer' \in 0..THREAD_COUNT,
               worker' \in [W -> {"locking", "waiting", "executing"}],
               \A i \in W : (worker'[i] = "executing" <=> worker[i] = "executing")
        PROVE  PollingInv'
    <2>1. PollingTypes'
      BY <1>1, <1>6 DEF PollingTypes, Pointer, Links, W, InC!Workers
    <2>2. PollingPlaces'
      BY <1>2, <1>6 DEF PollingPlaces, InQueues, Queue, Reached, Closed, IsQueue, InC!Held, W,
                        InC!Workers
    <2>3. QED  BY <2>1, <2>2 DEF PollingInv
  <1>7. CASE InC!PollingTick \/ InC!PollClock \/ InC!Skip \/ UNCHANGED pollingVars
    <2>1. /\ UNCHANGED <<head, tail, next, allocated, task, worker>>
          /\ timer' = timer \/ timer' = 1 \/ timer' = InC!NextIndex
      BY <1>7 DEF InC!PollingTick, InC!PollClock, InC!Skip, pollingVars
    <2>2. THREAD_COUNT \in Nat \ {0}
      BY TimersAssumption DEF InC!PollingTimerAssumption
    <2>3. timer' \in 0..THREAD_COUNT
      BY <1>1, <1>3, <2>1, <2>2 DEF InC!NextIndex, W
    <2>4. QED  BY <1>1, <1>6, <2>1, <2>3
  <1>8. ASSUME NEW i \in W, InC!WaitForTask(i) \/ InC!SpuriousWakeup(i)
        PROVE  PollingInv'
    BY <1>1, <1>6, <1>8 DEF InC!WaitForTask, InC!SpuriousWakeup
  <1>9. CASE InC!Trigger
    <2>1. PICK t \in Tasks \ allocated :
              /\ allocated' = allocated \cup {t}
              /\ tail' = [tail EXCEPT ![timer] = t]
              /\ IF tail[timer] = NULL
                 THEN head' = [head EXCEPT ![timer] = t] /\ next' = [next EXCEPT ![t] = NULL]
                 ELSE head' = head
                      /\ next' = [next EXCEPT ![tail[timer]] = t, ![t] = NULL]
      BY <1>9 DEF InC!Trigger
    <2>2. /\ timer # 0 /\ task' = task /\ timer' = InC!NextIndex
          /\ worker' = [worker EXCEPT ![timer] = IF @ = "waiting" THEN "locking" ELSE @]
      BY <1>9 DEF InC!Trigger
    <2>3. timer \in W
      BY <1>1, <1>3, <2>2
    <2>4. timer' \in 0..THREAD_COUNT
      BY <1>1, <1>3, <2>2 DEF InC!NextIndex, W
    <2> DEFINE i == timer
    <2>5. t # NULL /\ t \in Tasks /\ t \notin InC!Held /\ \A j \in W : t \notin Queue(j)
      BY <1>2, <2>1, NullIsNoTask, InAQueue
    <2>6. /\ head' \in [W -> Pointer] /\ tail' \in [W -> Pointer] /\ tail'[i] = t
          /\ \A j \in W : j # i => head'[j] = head[j] /\ tail'[j] = tail[j]
          /\ worker' \in [W -> {"locking", "waiting", "executing"}]
          /\ \A j \in W : (worker'[j] = "executing" <=> worker[j] = "executing")
      BY <1>1, <2>1, <2>2, <2>3 DEF Pointer
    <2>7. next' \in Links /\ next'[t] = NULL
      BY <1>1, <2>1 DEF Links
    <2>8. InC!Held' = InC!Held
      BY <2>2 DEF InC!Held, InC!Workers
    <2> HIDE DEF i
    <2>9. Reached(head'[i], next') = Queue(i) \cup {t} /\ IsQueue(head'[i], t, next')
      <3>1. CASE tail[i] = NULL
        <4>1. head'[i] = t
          BY <1>1, <2>1, <2>3, <3>1 DEF i
        <4>2. head[i] = NULL
          BY <1>2, <2>3, <3>1 DEF IsQueue, i
        <4>3. Queue(i) = {}
          BY <4>2, NullReachesNothing DEF Queue
        <4>4. QED  BY <2>5, <2>7, <4>1, <4>3, QueueOfOne
      <3>2. CASE tail[i] # NULL
        <4>1. /\ head'[i] = head[i] /\ head[i] # NULL /\ head[i] \in Tasks
              /\ IsQueue(head[i], tail[i], next) /\ tail[i] \in Queue(i)
          BY <1>1, <1>2, <2>1, <2>3, <3>2 DEF IsQueue, i, Pointer, Queue
        <4>2. tail[i] # t /\ tail[i] \in Tasks /\ t \notin Reached(head[i], next)
          BY <1>5, <2>3, <2>5, <4>1 DEF i, Queue
        <4>3. next'[tail[i]] = t /\ \A u \in Tasks \ {t, tail[i]} : next'[u] = next[u]
          BY <1>1, <2>1, <3>2, <4>2 DEF Links, i
        <4>4. QED  BY <1>1, <2>5, <2>7, <4>1, <4>2, <4>3, Enqueued DEF Queue
      <3>3. QED  BY <3>1, <3>2
    <2>10. ASSUME NEW j \in W, j # i
           PROVE  Reached(head'[j], next') = Queue(j) /\ IsQueue(head'[j], tail'[j], next')
      <3>1. \A u \in Queue(j) : next'[u] = next[u]
        <4>1. t \notin Queue(j) /\ (tail[i] # NULL => tail[i] \notin Queue(j))
          BY <1>2, <2>3, <2>5, <2>10 DEF IsQueue, i, Queue
        <4>2. QED  BY <1>1, <1>5, <2>1, <2>10, <4>1 DEF Links, i
      <3>2. head'[j] = head[j] /\ tail'[j] = tail[j] /\ head[j] \in Pointer
        BY <1>1, <2>6, <2>10
      <3>3. QED  BY <1>1, <1>2, <2>7, <3>1, <3>2, ReachedFrame, QueueFrame DEF Queue, Pointer
    <2> DEFINE Q2(j) == IF j = i THEN Queue(i) \cup {t} ELSE Queue(j)
    <2>11. \A j \in W : Queue(j)' = Q2(j) /\ IsQueue(head'[j], tail'[j], next')
      BY <2>6, <2>9, <2>10 DEF Queue, Reached, Closed
    <2>12. allocated' = InC!Held' \cup InQueues'
      <3>1. InQueues' = InQueues \cup {t}
        <4>1. \A x : x \in InQueues' <=> (\E j \in W : x \in Q2(j))
          BY <2>11 DEF InQueues, W, InC!Workers
        <4>2. i \in W
          BY <2>3 DEF i
        <4>3. \A x : (\E j \in W : x \in Q2(j)) <=> (x = t \/ \E j \in W : x \in Queue(j))
          BY <4>2
        <4>4. \A x : x \in InQueues' <=> x \in InQueues \cup {t}
          BY <4>1, <4>3, InAQueue
        <4>5. QED  BY <4>4
      <3>2. QED  BY <1>2, <2>1, <2>8, <3>1
    <2>13. \A j \in W : Queue(j)' \cap InC!Held' = {}
      BY <1>2, <2>5, <2>8, <2>11
    <2>14. \A j, k \in W : j # k => Queue(j)' \cap Queue(k)' = {}
      BY <1>2, <2>5, <2>11
    <2>15. PollingTypes'
      BY <1>1, <2>2, <2>4, <2>6, <2>7
         DEF PollingTypes, Pointer, Links, W, InC!Workers
    <2>16. PollingPlaces'
      <3>1. \A j \in W : IsQueue(head[j], tail[j], next)'
        BY <2>11 DEF IsQueue, Reached, Closed
      <3>2. W' = W
        BY DEF W, InC!Workers
      <3>3. QED  BY <1>2, <2>2, <2>6, <2>12, <2>13, <2>14, <3>1, <3>2 DEF PollingPlaces
    <2>17. QED  BY <2>15, <2>16 DEF PollingInv
  <1>10. ASSUME NEW i \in W, InC!Dequeue(i)
         PROVE  PollingInv'
    <2>1. /\ worker[i] = "locking" /\ head[i] # NULL
          /\ task' = [task EXCEPT ![i] = head[i]]
          /\ head' = [head EXCEPT ![i] = next[head[i]]]
          /\ tail' = [tail EXCEPT ![i] = IF next[head[i]] = NULL THEN NULL ELSE @]
          /\ worker' = [worker EXCEPT ![i] = "executing"]
          /\ UNCHANGED <<next, allocated, timer>>
      BY <1>10 DEF InC!Dequeue
    <2> DEFINE h == head[i]
    <2>2. h \in Tasks /\ task[i] = NULL /\ IsQueue(h, tail[i], next)
      BY <1>1, <1>2, <2>1 DEF Pointer
    <2>3. /\ Reached(next[h], next) = Queue(i) \ {h} /\ h \in Queue(i)
          /\ IsQueue(next[h], IF next[h] = NULL THEN NULL ELSE tail[i], next)
      BY <1>1, <2>2, Dequeued DEF Queue
    <2>4. /\ head' \in [W -> Pointer] /\ tail' \in [W -> Pointer] /\ task' \in [W -> Pointer]
          /\ worker' \in [W -> {"locking", "waiting", "executing"}]
          /\ head'[i] = next[h] /\ task'[i] = h /\ worker'[i] = "executing"
          /\ tail'[i] = (IF next[h] = NULL THEN NULL ELSE tail[i])
          /\ \A j \in W : j # i => /\ head'[j] = head[j] /\ tail'[j] = tail[j]
                                   /\ task'[j] = task[j] /\ worker'[j] = worker[j]
      <3>1. next[h] \in Pointer /\ h \in Pointer /\ NULL \in Pointer
        BY <1>1, <2>2 DEF Links, Pointer
      <3>2. QED  BY <1>1, <2>1, <3>1
    <2> DEFINE Q2(j) == IF j = i THEN Queue(i) \ {h} ELSE Queue(j)
    <2>5. \A j \in W : Queue(j)' = Q2(j) /\ IsQueue(head'[j], tail'[j], next')
      BY <1>2, <2>1, <2>3, <2>4 DEF Queue, Reached, Closed
    <2> HIDE DEF h
    <2>6. h # NULL /\ h \notin InC!Held
      BY <1>2, <2>2, <2>3, NullIsNoTask
    <2>7. InC!Held' = InC!Held \cup {h}
      <3>1. InC!Held' = {task'[j] : j \in W} \ {NULL}
        BY DEF InC!Held, W, InC!Workers
      <3>2. QED  BY <1>4, <2>2, <2>4, <2>6, <3>1
    <2>8. allocated' = InC!Held' \cup InQueues'
      <3>1. InQueues' \cup {h} = InQueues
        <4>1. \A x : x \in InQueues' <=> (\E j \in W : x \in Q2(j))
          BY <2>5 DEF InQueues, W, InC!Workers
        <4>2. \A x : (x = h \/ \E j \in W : x \in Q2(j)) <=> (\E j \in W : x \in Queue(j))
          BY <1>10, <2>3
        <4>3. \A x : x \in InQueues' \cup {h} <=> x \in InQueues
          BY <4>1, <4>2, InAQueue
        <4>4. QED  BY <4>3
      <3>2. QED  BY <1>2, <2>1, <2>7, <3>1
    <2>9. \A j \in W : Queue(j)' \cap InC!Held' = {}
      BY <1>2, <2>3, <2>5, <2>7
    <2>10. \A j, k \in W : j # k => /\ Queue(j)' \cap Queue(k)' = {}
                                    /\ task'[j] = task'[k] => task'[j] = NULL
      <3> SUFFICES ASSUME NEW j \in W, NEW k \in W, j # k
                   PROVE  /\ Queue(j)' \cap Queue(k)' = {}
                          /\ task'[j] = task'[k] => task'[j] = NULL
        OBVIOUS
      <3>1. Queue(j)' \cap Queue(k)' = {}
        BY <1>2, <2>5
      <3>2. \A l \in W : task[l] # h
        BY <1>4, <2>6
      <3>3. QED  BY <1>2, <2>4, <3>1, <3>2
    <2>11. PollingTypes'
      BY <1>1, <2>1, <2>4 DEF PollingTypes, Pointer, Links, W, InC!Workers
    <2>12. PollingPlaces'
      <3>1. \A j \in W : IsQueue(head[j], tail[j], next)'
        BY <2>5 DEF IsQueue, Reached, Closed
      <3>2. W' = W
        BY DEF W, InC!Workers
      <3>3. \A j \in W : (worker'[j] = "executing" <=> task'[j] # NULL)
        BY <1>2, <2>4, <2>6
      <3>4. QED  BY <2>8, <2>9, <2>10, <3>1, <3>2, <3>3 DEF PollingPlaces
    <2>13. QED  BY <2>11, <2>12 DEF PollingInv
  <1>11. ASSUME NEW i \in W, InC!Execute(i)
         PROVE  PollingInv'
    <2>1. /\ worker[i] = "executing" /\ allocated' = allocated \ {task[i]}
          /\ task' = [task EXCEPT ![i] = NULL]
          /\ worker' = [worker EXCEPT ![i] = "locking"]
          /\ next' = [next EXCEPT ![task[i]] = NULL]
          /\ UNCHANGED <<head, tail, timer>>
      BY <1>11 DEF InC!Execute
    <2> DEFINE t == task[i]
    <2>2. t # NULL /\ t \in InC!Held /\ t \in Tasks
      BY <1>1, <1>2, <1>4, <2>1 DEF Pointer
    <2>3. /\ task' \in [W -> Pointer] /\ next' \in Links
          /\ worker' \in [W -> {"locking", "waiting", "executing"}]
          /\ task'[i] = NULL /\ worker'[i] = "locking"
          /\ \A j \in W : j # i => task'[j] = task[j] /\ worker'[j] = worker[j]
          /\ \A u \in Tasks : u # t => next'[u] = next[u]
      BY <1>1, <2>1 DEF Pointer, Links
    <2>4. \A j \in W : j # i => task[j] # t
      BY <1>2, <2>2
    <2> HIDE DEF t
    <2>5. \A j \in W : t \notin Queue(j)
      BY <1>2, <2>2
    <2>6. \A j \in W : Queue(j)' = Queue(j) /\ IsQueue(head'[j], tail'[j], next')
      <3> SUFFICES ASSUME NEW j \in W
                   PROVE  Queue(j)' = Queue(j) /\ IsQueue(head'[j], tail'[j], next')
        OBVIOUS
      <3>1. \A u \in Reached(head[j], next) : next'[u] = next[u]
        BY <1>5, <2>3, <2>5 DEF Queue
      <3>2. head[j] \in Tasks \cup {NULL} /\ IsQueue(head[j], tail[j], next)
        BY <1>2, <1>5 DEF Pointer
      <3>3. Reached(head[j], next') = Queue(j) /\ IsQueue(head[j], tail[j], next')
        BY <1>1, <2>3, <3>1, <3>2, ReachedFrame, QueueFrame DEF Queue
      <3>4. QED  BY <2>1, <3>3 DEF Queue, Reached, Closed
    <2>7. InC!Held' = InC!Held \ {t}
      <3>1. InC!Held' = {task'[j] : j \in W} \ {NULL}
        BY DEF InC!Held, W, InC!Workers
      <3>2. QED  BY <1>4, <2>3, <2>4, <3>1 DEF t
    <2>8. allocated' = InC!Held' \cup InQueues'
      <3>1. InQueues' = InQueues
        BY <2>6 DEF InQueues, W, InC!Workers
      <3>2. t \notin InQueues
        BY <2>5, InAQueue
      <3>3. QED  BY <1>2, <2>1, <2>7, <3>1, <3>2 DEF t
    <2>9. PollingTypes'
      BY <1>1, <2>1, <2>3 DEF PollingTypes, Pointer, Links, W, InC!Workers
    <2>10. PollingPlaces'
      <3>1. \A j \in W : IsQueue(head[j], tail[j], next)'
        BY <2>6 DEF IsQueue, Reached, Closed
      <3>2. W' = W
        BY DEF W, InC!Workers
      <3>3. \A j \in W : (worker'[j] = "executing" <=> task'[j] # NULL)
        BY <1>2, <2>3
      <3>4. \A j \in W : Queue(j)' \cap InC!Held' = {}
        BY <1>2, <2>6, <2>7
      <3>5. \A j, k \in W : j # k => /\ Queue(j)' \cap Queue(k)' = {}
                                     /\ task'[j] = task'[k] => task'[j] = NULL
        BY <1>2, <2>3, <2>6
      <3>6. QED  BY <2>8, <3>1, <3>2, <3>3, <3>4, <3>5 DEF PollingPlaces
    <2>11. QED  BY <2>9, <2>10 DEF PollingInv
  <1>12. QED  BY <1>7, <1>8, <1>9, <1>10, <1>11
         DEF InC!PollingNext, InC!Poll, InC!Worker, W

LEMMA PollingPlacesTasks == PollingInv => InC!TasksInOnePlace
  <1> SUFFICES ASSUME PollingInv
               PROVE  InC!TasksInOnePlace
    OBVIOUS
  <1>1. PollingPlaces
    BY DEF PollingInv
  <1>2. \A i \in W : InC!Queued(i) = Queue(i)
    BY QueuedIsReached
  <1>3. UNION {InC!Queued(i) : i \in W} = InQueues
    BY <1>2 DEF InQueues
  <1>4. QED  BY <1>1, <1>2, <1>3 DEF PollingPlaces, IsQueue, Queue, W, InC!TasksInOnePlace

-------------------------------------------------------------------------------

(***************************************************************************)
(* The invariants together, and the theorems.                              *)
(***************************************************************************)

TimersInv ==
    /\ HeapInv /\ HeapLate
    /\ RepeatingQueue /\ RepeatingLate
    /\ PollingInv
    /\ TableInv
    /\ TaskInv

LEMMA TimersInit == Init => TimersInv
  <1> SUFFICES ASSUME Heap!Init, Repeating!Init, InC!PollingInit, InC!TableInit, InC!TaskInit
               PROVE  TimersInv
    BY DEF Init
  <1>1. HeapInv /\ HeapLate
    <2>1. /\ now = 0 /\ call = [id \in Ids |-> Nothing] /\ queue = {} /\ held = Nothing
          /\ running = TRUE /\ spc = "loop" /\ late = 0
          /\ pending = <<>> /\ active = [s \in Slots |-> Nothing] /\ finished = {}
      BY DEF Heap!Init, Heap!Pool!Init
    <2>2. Len(pending) = 0 /\ pending \in Seq(Runs)
      BY <2>1
    <2>3. HeapTypes
      BY <2>1, <2>2, SchedulerConstants DEF HeapTypes, PoolTypes
    <2>4. HeapHands
      BY <2>1 DEF HeapHands
    <2>5. Heap!Dispatched = {} /\ Heap!Entries = {}
      <3>1. {pending[i] : i \in 1..Len(pending)} = {}
        BY <2>2
      <3>2. {active[s] : s \in Slots} \subseteq {Nothing}
        BY <2>1
      <3>3. QED  BY <2>1, <3>1, <3>2 DEF Heap!Dispatched, Heap!Pool!Known, Heap!Entries
    <2>6. HeapRuns
      BY <2>1, <2>5 DEF HeapRuns, RunsOf, Mine
    <2>7. HeapLate
      BY <2>1 DEF HeapLate
    <2>8. QED  BY <2>3, <2>4, <2>6, <2>7 DEF HeapInv
  <1>2. RepeatingQueue /\ RepeatingLate
    <2>1. /\ taskQueue = <<>> /\ interval = [id \in Timers |-> Repeating!NoCall]
          /\ owed = [id \in Timers |-> Repeating!NoCall]
          /\ running_ = TRUE /\ lateRuns = 0 /\ Repeating!NoCall \in Nat
      BY DelaysAreNumbers DEF Repeating!Init, Repeating!NoCall
    <2>2. Len(taskQueue) = 0 /\ taskQueue \in Seq(RepeatingEntry)
      BY <2>1
    <2>3. Elements(taskQueue) = {} /\ ByTime(taskQueue) /\ OfDifferentCalls(taskQueue)
      BY <2>2 DEF Elements, ByTime, OfDifferentCalls
    <2>4. QED  BY <2>1, <2>2, <2>3 DEF RepeatingQueue, RepeatingLate
  <1>3. PollingInv
    <2>1. /\ head = [i \in W |-> NULL] /\ tail = [i \in W |-> NULL]
          /\ task = [i \in W |-> NULL] /\ worker = [i \in W |-> "locking"]
          /\ next = [t \in Tasks |-> NULL] /\ allocated = {} /\ timer = 1
      BY DEF InC!PollingInit, W
    <2>2. timer \in 0..THREAD_COUNT
      BY <2>1, TimersAssumption DEF InC!PollingTimerAssumption
    <2>3. PollingTypes
      BY <2>1, <2>2 DEF PollingTypes, Pointer, Links
    <2>4. \A i \in W : Queue(i) = {} /\ IsQueue(head[i], tail[i], next)
      BY <2>1, NullReachesNothing DEF Queue, IsQueue
    <2>5. InQueues = {}
      BY <2>4 DEF InQueues
    <2>6. InC!Held = {}
      BY <2>1 DEF InC!Held, W
    <2>7. PollingPlaces
      BY <2>1, <2>4, <2>5, <2>6 DEF PollingPlaces
    <2>8. QED  BY <2>3, <2>7 DEF PollingInv
  <1>4. TableInv
    <2>1. timer_tasks = <<>> /\ age = <<>> /\ lag = 0 /\ MaxBehind \in Nat
      BY TimersAssumption DEF InC!TableInit, InC!TableTimerAssumption
    <2>2. Len(timer_tasks) = 0 /\ Len(age) = 0
      BY <2>1
    <2>3. QED  BY <2>1, <2>2 DEF TableInv
  <1>5. TaskInv
    BY DEF InC!TaskInit, TaskInv
  <1>6. QED  BY <1>1, <1>2, <1>3, <1>4, <1>5 DEF TimersInv

LEMMA TimersStep == TimersInv /\ [Next]_vars => TimersInv'
  BY StepsOfParts, HeapStep, HeapLateStep, RepeatingQueueStep, RepeatingLateStep,
     PollingStep, TableStep, TaskStep DEF TimersInv

LEMMA TimersInvariant == Spec => []TimersInv
  BY TimersInit, TimersStep, PTL DEF Spec

\* In all the timers a task is where the runs it has left say, and nowhere else:
\* whatever is added, dispatched, put back or freed meanwhile (Schedule, run and
\* reschedule of scheduler.hpp, addTask and run of 444.cpp, enqueue_task,
\* dequeue_task and free of 222.c).
THEOREM TasksAreKept == Spec => []CountsAreKept
  <1>1. RepeatingQueue => Repeating!QueuedOnce
    <2> SUFFICES ASSUME RepeatingQueue
                 PROVE  Repeating!QueuedOnce
      OBVIOUS
    <2>1. /\ taskQueue \in Seq(RepeatingEntry)
          /\ ByTime(taskQueue) /\ OfDifferentCalls(taskQueue)
          /\ \A id \in Timers : interval[id] \notin {0, Repeating!NoCall} =>
                 \E e \in Elements(taskQueue) : e.id = id
      BY DEF RepeatingQueue
    <2>2. DOMAIN taskQueue = 1..Len(taskQueue)
      BY <2>1
    <2>3. \A id \in Timers : interval[id] \notin {0, Repeating!NoCall} => id \in Repeating!Queued
      BY <2>1, <2>2 DEF Elements, Repeating!Queued
    <2>4. QED  BY <2>1, <2>2, <2>3 DEF Repeating!QueuedOnce, ByTime, OfDifferentCalls
  <1>2. TimersInv => CountsAreKept
    BY <1>1, HeapKeepsCounts, PollingPlacesTasks DEF TimersInv, CountsAreKept
  <1>3. QED  BY <1>2, TimersInvariant, PTL

\* Once running is false, scheduler.hpp and 444.cpp dispatch one more task at most;
\* TimerTask_Destroy of example.c comes after the callback's last access.
THEOREM StopLetsOneThrough == Spec => []AtMostOneLate
  <1>1. TimersInv => AtMostOneLate
    BY DEF TimersInv, HeapLate, RepeatingLate, TaskInv, AtMostOneLate, Heap!AtMostOneLate,
           Repeating!AtMostOneLate, InC!CallbackIsOver
  <1>2. QED  BY <1>1, TimersInvariant, PTL

\* No run is handed out before it is due: on the grid of the call in scheduler.hpp,
\* an interval after the run before in 444.cpp, and in 111.c no closer to it than
\* the interval less what the clock lagged behind.
THEOREM NoTaskIsEarly == Spec => NeverEarly
  <1>1. TimersInv /\ [Next]_vars => [HeapOnTime]_(Heap!vars)
    <2>1. TimersInv /\ [Next]_vars => [HeapOnTime]_heapVars
      BY StepsOfParts, HeapIsNeverEarly DEF TimersInv
    <2>2. QED  BY <2>1 DEF heapVars, Heap!vars, Heap!svars, Heap!hvars, Heap!pvars
  <1>2. TimersInv /\ [Next]_vars => [RepeatingOnTime]_(Repeating!vars)
    <2>1. TimersInv /\ [Next]_vars => [RepeatingOnTime]_repeatingVars
      BY StepsOfParts, RepeatingIsNeverEarly DEF TimersInv
    <2>2. QED  BY <2>1 DEF repeatingVars, Repeating!vars
  <1>3. TimersInv /\ [Next]_vars => [Apart]_(InC!tableVars)
    <2>1. TimersInv /\ [Next]_vars => [Apart]_tableVars
      BY StepsOfParts, TableIsApart DEF TimersInv
    <2>2. QED  BY <2>1 DEF tableVars, InC!tableVars
  <1>4. NeverEarly <=> /\ [][HeapOnTime]_(Heap!vars)
                       /\ [][RepeatingOnTime]_(Repeating!vars)
                       /\ [][Apart]_(InC!tableVars)
    BY PTL DEF NeverEarly, Heap!NeverEarly, Repeating!NeverEarly, InC!TriggersAreApart,
               HeapOnTime, RepeatingOnTime, Apart
  <1>5. QED  BY <1>1, <1>2, <1>3, <1>4, TimersInvariant, PTL DEF Spec
===============================================================================
