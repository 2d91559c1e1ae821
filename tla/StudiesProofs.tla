----------------------------- MODULE StudiesProofs -----------------------------
(***************************************************************************)
(* What module MCStudies checks of the process manager, the pointers, the  *)
(* tracked memory, the observers, the state machines and the tournament    *)
(* trees, proved for every number of threads, processes, pointers,         *)
(* observers, bits and leaves.                                             *)
(***************************************************************************)
EXTENDS MCStudies, Integers, FiniteSetTheorems, FunctionTheorems, WellFoundedInduction,
        SequenceTheorems, TLAPS

(***************************************************************************)
(* The process manager.                                                    *)
(***************************************************************************)

\* The process whose entry is being started again is gone.
ProcessInv ==
    /\ configs_ \subseteq Configs
    /\ running_processes_ \in [Processes!Keys -> Configs \cup {NoProcess}]
    /\ process \in [Pids -> Configs \cup {NoProcess}]
    /\ monitor \in {"off", "polling"} \cup Pids
    /\ monitor \in Pids => process[monitor] = NoProcess
    /\ Processes!EntriesMatch

LEMMA ProcessInit == StudiesInit => ProcessInv
  BY StudiesAssumption DEF StudiesInit, Processes!Init, ProcessInv, Processes!Keys,
     Processes!EntriesMatch

LEMMA ProcessStep == ProcessInv /\ [Processes!Next]_processVars => ProcessInv'
  <1> SUFFICES ASSUME ProcessInv, [Processes!Next]_processVars
               PROVE  ProcessInv'
    OBVIOUS
  <1>1. /\ configs_ \subseteq Configs
        /\ running_processes_ \in [Pids \cup {MinusOne} -> Configs \cup {NoProcess}]
        /\ process \in [Pids -> Configs \cup {NoProcess}]
        /\ monitor \in {"off", "polling"} \cup Pids
        /\ monitor \in Pids => process[monitor] = NoProcess
        /\ \A pid \in Pids :
              /\ running_processes_[pid] # NoProcess =>
                     pid = monitor \/ process[pid] = running_processes_[pid]
              /\ process[pid] # NoProcess =>
                     running_processes_[pid] = process[pid] \/ process[pid] \in lost
    BY DEF ProcessInv, Processes!EntriesMatch, Processes!Keys
  <1>2. /\ Restart \subseteq Configs /\ NoProcess \notin Configs /\ MinusOne \notin Pids
        /\ "off" \notin Pids /\ "polling" \notin Pids
    BY StudiesAssumption DEF Processes!ProcessManagerAssumption
  <1>3. CASE UNCHANGED processVars
    BY <1>1, <1>3 DEF processVars, ProcessInv, Processes!EntriesMatch, Processes!Keys
  <1>4. ASSUME NEW config \in configs_, NEW pid \in Processes!Keys,
               Processes!StartAll(config, pid)
        PROVE  ProcessInv'
    <2>1. CASE pid = MinusOne
      BY <1>1, <1>2, <1>4, <2>1
         DEF Processes!StartAll, Processes!Started, Processes!Forked, Processes!Keys,
             ProcessInv, Processes!EntriesMatch
    <2>2. CASE pid # MinusOne
      BY <1>1, <1>2, <1>4, <2>2
         DEF Processes!StartAll, Processes!Started, Processes!Forked, Processes!Keys,
             ProcessInv, Processes!EntriesMatch
    <2>3. QED  BY <2>1, <2>2
  <1>5. CASE Processes!StartMonitor
    BY <1>1, <1>2, <1>5 DEF Processes!StartMonitor, ProcessInv, Processes!EntriesMatch,
       Processes!Keys
  <1>6. ASSUME NEW pid \in Pids, Processes!Exit(pid)
        PROVE  ProcessInv'
    BY <1>1, <1>6 DEF Processes!Exit, ProcessInv, Processes!EntriesMatch, Processes!Keys
  <1>7. ASSUME NEW pid \in Pids, Processes!Reap(pid)
        PROVE  ProcessInv'
    <2>1. CASE running_processes_[pid] \in Restart
      BY <1>1, <1>2, <1>7, <2>1 DEF Processes!Reap, ProcessInv, Processes!EntriesMatch,
         Processes!Keys
    <2>2. CASE running_processes_[pid] \notin Restart
      BY <1>1, <1>2, <1>7, <2>2 DEF Processes!Reap, ProcessInv, Processes!EntriesMatch,
         Processes!Keys
    <2>3. QED  BY <2>1, <2>2
  <1>8. ASSUME NEW pid \in Processes!Keys, Processes!StartAgain(pid)
        PROVE  ProcessInv'
    <2> DEFINE config == running_processes_[monitor]
    <2>1. /\ monitor \in Pids /\ process[monitor] = NoProcess
          /\ config \in Configs \cup {NoProcess}
          /\ monitor' = "polling" /\ configs_' = configs_
          /\ running_processes_' = [running_processes_ EXCEPT ![pid] = config,
                                                              ![monitor] = NoProcess]
          /\ lost' = IF pid \in {monitor, MinusOne} THEN lost \cup {config} ELSE lost
          /\ process' = IF pid = MinusOne THEN process ELSE [process EXCEPT ![pid] = config]
          /\ pid \in Pids \cup {MinusOne}
          /\ pid # MinusOne => process[pid] = NoProcess
      BY <1>1, <1>2, <1>8 DEF Processes!StartAgain, Processes!Started, Processes!Forked,
         Processes!Keys
    <2> HIDE DEF config
    <2>2. /\ running_processes_' \in [Pids \cup {MinusOne} -> Configs \cup {NoProcess}]
          /\ process' \in [Pids -> Configs \cup {NoProcess}]
      BY <1>1, <2>1
    <2>3. ASSUME NEW p \in Pids
          PROVE  /\ running_processes_'[p] # NoProcess => process'[p] = running_processes_'[p]
                 /\ process'[p] # NoProcess =>
                        running_processes_'[p] = process'[p] \/ process'[p] \in lost'
      <3>1. CASE p = monitor
        BY <1>1, <1>2, <2>1, <3>1
      <3>2. CASE p # monitor /\ p = pid
        BY <1>1, <1>2, <2>1, <3>2
      <3>3. CASE p # monitor /\ p # pid
        BY <1>1, <1>2, <2>1, <3>3
      <3>4. QED  BY <3>1, <3>2, <3>3
    <2>4. QED
      BY <1>1, <1>2, <2>1, <2>2, <2>3 DEF ProcessInv, Processes!EntriesMatch, Processes!Keys
  <1>9. QED
    BY <1>3, <1>4, <1>5, <1>6, <1>7, <1>8 DEF Processes!Next, Processes!Monitor

(***************************************************************************)
(* SharedPtr and WeakPtr with atomic counts.                               *)
(***************************************************************************)

\* How many of the threads' pointers hold a block.
Holding(ptrs, b) == Cardinality({t \in ThreeThreads : ptrs[t] = b})

\* The threads that clean up after a block; those of them that found no SharedPtr
\* left; and those of these that have yet to delete the object.
Cleaners(b) == {t \in ThreeThreads : pc[t] \in Pointer!Cleaning /\ ctrl[t] = b}
Destroyers(b) == {t \in Cleaners(b) : pc[t] # "loadStrong"}
Deleters(b) == {t \in Cleaners(b) : pc[t] = "deleteObject"}

PointerTypes ==
    /\ shared \in [ThreeThreads -> Blocks \cup {Null}]
    /\ weak \in [ThreeThreads -> Blocks \cup {Null}]
    /\ strong_count \in [Blocks -> Int] /\ weak_count \in [Blocks -> Int]
    /\ deletes \in [Blocks -> Int]
    /\ block \in [Blocks -> {"free", "live", "deleted"}]
    /\ pc \in [ThreeThreads -> {"idle", "loadAgain", "raise", "deleteObject", "loadWeak",
                               "loadStrong", "deleteBlock"}]
    /\ ctrl \in [ThreeThreads -> Blocks \cup {Null}]

\* A thread that cleans up has a block to clean up after, one that locks a WeakPtr to
\* lock and nothing yet in its SharedPtr.
MidCall ==
    \A t \in ThreeThreads :
        /\ pc[t] \in Pointer!Cleaning => ctrl[t] # Null
        /\ pc[t] \in {"loadAgain", "raise"} => weak[t] # Null /\ shared[t] = Null

CountsAreExact ==
    \A b \in Blocks : /\ strong_count[b] = Holding(shared, b)
                      /\ weak_count[b] = Holding(weak, b)

\* Nothing is left of an earlier use when a block is allocated, and nobody tears down
\* what a SharedPtr holds.
WhileHeld(b) ==
    /\ block[b] = "free" =>
           /\ strong_count[b] = 0 /\ weak_count[b] = 0 /\ deletes[b] = 0
           /\ Cleaners(b) = {}
    /\ strong_count[b] > 0 => deletes[b] = 0 /\ Destroyers(b) = {}

\* Once the last SharedPtr is gone: the object is deleted by one thread, and again
\* with the block; a live block without pointers has someone who is cleaning up.
WhenGone(b) ==
    /\ block[b] = "deleted" => strong_count[b] = 0 /\ weak_count[b] = 0
    /\ \A t, u \in Deleters(b) : t = u
    /\ deletes[b] = IF strong_count[b] > 0 \/ block[b] = "free" THEN 0
                    ELSE (IF Deleters(b) = {} THEN 1 ELSE 0)
                         + (IF block[b] = "deleted" THEN 1 ELSE 0)
    /\ block[b] = "live" /\ strong_count[b] = 0 /\ weak_count[b] = 0 => Cleaners(b) # {}

PointerInv ==
    /\ PointerTypes /\ MidCall
    /\ CountsAreExact
    /\ \A b \in Blocks \ revived : WhileHeld(b)
    /\ \A b \in Blocks \ (revived \cup overlap) : WhenGone(b)

LEMMA PointerCardinality ==
    /\ IsFiniteSet(ThreeThreads) /\ Null \notin Blocks
    /\ IsFiniteSet(SmartPtrs) /\ Null \notin Objects /\ "dead" \notin Objects \cup {Null}
    /\ \A S : Pointer!Cardinality(S) = Cardinality(S)
  BY StudiesAssumption
     DEF Pointer!AtomicAssumption, Pointer!SingleAssumption, Pointer!IsFiniteSet,
         IsFiniteSet, Pointer!Cardinality, Cardinality

LEMMA HoldingSome ==
    ASSUME NEW f, NEW b
    PROVE  /\ Holding(f, b) \in Nat
           /\ Holding(f, b) = 0 <=> \A t \in ThreeThreads : f[t] # b
  <1> DEFINE S == {t \in ThreeThreads : f[t] = b}
  <1>1. IsFiniteSet(S)
    BY PointerCardinality, FS_Subset
  <1>2. Cardinality(S) \in Nat /\ (Cardinality(S) = 0 <=> S = {})
    BY <1>1, FS_CardinalityType, FS_EmptySet
  <1>3. QED  BY <1>2 DEF Holding

\* One pointer gets another value.
LEMMA HoldingChange ==
    ASSUME NEW f, NEW g, NEW t \in ThreeThreads, NEW b,
           \A u \in ThreeThreads \ {t} : g[u] = f[u]
    PROVE  Holding(g, b)
               = Holding(f, b) - (IF f[t] = b THEN 1 ELSE 0) + (IF g[t] = b THEN 1 ELSE 0)
  <1> DEFINE Old == {u \in ThreeThreads : f[u] = b}
             Rest == {u \in ThreeThreads : f[u] = b} \ {t}
             New == {u \in ThreeThreads : g[u] = b}
  <1>1. IsFiniteSet(Old) /\ IsFiniteSet(Rest)
    BY PointerCardinality, FS_Subset
  <1>2. Cardinality(Old) \in Nat /\ Cardinality(Rest) \in Nat
    BY <1>1, FS_CardinalityType
  <1>3. Cardinality(Rest) = IF f[t] = b THEN Cardinality(Old) - 1 ELSE Cardinality(Old)
    <2>1. t \in Old <=> f[t] = b
      OBVIOUS
    <2> HIDE DEF Old
    <2>2. Cardinality(Old \ {t}) = IF t \in Old THEN Cardinality(Old) - 1 ELSE Cardinality(Old)
      BY <1>1, FS_RemoveElement
    <2>3. QED  BY <2>1, <2>2 DEF Old
  <1>4. New = IF g[t] = b THEN Rest \cup {t} ELSE Rest
    OBVIOUS
  <1>5. Cardinality(New) = IF g[t] = b THEN Cardinality(Rest) + 1 ELSE Cardinality(Rest)
    <2>1. t \notin Rest
      OBVIOUS
    <2> HIDE DEF Rest, New
    <2>2. Cardinality(Rest \cup {t}) = Cardinality(Rest) + 1
      BY <1>1, <2>1, FS_AddElement
    <2>3. QED  BY <1>4, <2>2
  <1>6. Holding(f, b) = Cardinality(Old) /\ Holding(g, b) = Cardinality(New)
    BY DEF Holding
  <1> HIDE DEF Old, Rest, New
  <1>7. QED  BY <1>2, <1>3, <1>5, <1>6

\* A thread goes on with the cleaning.
LEMMA CleanersChange ==
    ASSUME NEW t \in ThreeThreads,
           \A u \in ThreeThreads \ {t} : pc'[u] = pc[u] /\ ctrl'[u] = ctrl[u]
    PROVE  \A b :
             /\ Cleaners(b)' = (Cleaners(b) \ {t}) \cup
                    {u \in {t} : pc'[t] \in Pointer!Cleaning /\ ctrl'[t] = b}
             /\ Destroyers(b)' = (Destroyers(b) \ {t}) \cup
                    {u \in {t} : pc'[t] \in Pointer!Cleaning \ {"loadStrong"} /\ ctrl'[t] = b}
             /\ Deleters(b)' = (Deleters(b) \ {t}) \cup
                    {u \in {t} : pc'[t] = "deleteObject" /\ ctrl'[t] = b}
  BY DEF Cleaners, Destroyers, Deleters, Pointer!Cleaning

LEMMA NobodyMoves ==
    ASSUME pc' = pc, ctrl' = ctrl
    PROVE  \A b : /\ Cleaners(b)' = Cleaners(b) /\ Destroyers(b)' = Destroyers(b)
                 /\ Deleters(b)' = Deleters(b)
  BY DEF Cleaners, Destroyers, Deleters

\* A step leaves a block alone.
Untouched(b) ==
    /\ strong_count'[b] = strong_count[b] /\ weak_count'[b] = weak_count[b]
    /\ deletes'[b] = deletes[b] /\ block'[b] = block[b]
    /\ Cleaners(b)' = Cleaners(b) /\ Destroyers(b)' = Destroyers(b)
    /\ Deleters(b)' = Deleters(b)

LEMMA UntouchedBlock ==
    ASSUME NEW b \in Blocks, Untouched(b)
    PROVE  (WhileHeld(b) => WhileHeld(b)') /\ (WhenGone(b) => WhenGone(b)')
  <1>1. /\ strong_count'[b] = strong_count[b] /\ weak_count'[b] = weak_count[b]
        /\ deletes'[b] = deletes[b] /\ block'[b] = block[b]
        /\ Cleaners(b)' = Cleaners(b) /\ Destroyers(b)' = Destroyers(b)
        /\ Deleters(b)' = Deleters(b)
    BY DEF Untouched
  <1>2. WhileHeld(b) => WhileHeld(b)'
    BY ONLY <1>1 DEF WhileHeld
  <1>3. WhenGone(b) => WhenGone(b)'
    BY ONLY <1>1 DEF WhenGone
  <1>4. QED  BY <1>2, <1>3

LEMMA PointerInit == StudiesInit => PointerInv
  <1> SUFFICES ASSUME StudiesInit
               PROVE  PointerInv
    OBVIOUS
  <1>1. /\ shared = [t \in ThreeThreads |-> Null] /\ weak = [t \in ThreeThreads |-> Null]
        /\ strong_count = [b \in Blocks |-> 0] /\ weak_count = [b \in Blocks |-> 0]
        /\ deletes = [b \in Blocks |-> 0]
        /\ block = [b \in Blocks |-> "free"]
        /\ pc = [t \in ThreeThreads |-> "idle"] /\ ctrl = [t \in ThreeThreads |-> Null]
    BY DEF StudiesInit, Pointer!AtomicInit
  <1>2. PointerTypes /\ MidCall
    BY <1>1 DEF PointerTypes, MidCall, Pointer!Cleaning
  <1>3. CountsAreExact
    <2>1. ASSUME NEW b \in Blocks
          PROVE  Holding(shared, b) = 0 /\ Holding(weak, b) = 0
      BY <1>1, PointerCardinality, HoldingSome
    <2>2. QED  BY <1>1, <2>1 DEF CountsAreExact
  <1>4. \A b : Cleaners(b) = {} /\ Destroyers(b) = {} /\ Deleters(b) = {}
    BY <1>1 DEF Cleaners, Destroyers, Deleters, Pointer!Cleaning
  <1>5. ASSUME NEW b \in Blocks
        PROVE  WhileHeld(b) /\ WhenGone(b)
    BY <1>1, <1>4, <1>5 DEF WhileHeld, WhenGone
  <1>6. QED  BY <1>2, <1>3, <1>5 DEF PointerInv

\* What every step starts from.
LEMMA BeforeStep ==
    ASSUME PointerInv, Pointer!AtomicNext
    PROVE  /\ PointerTypes /\ MidCall /\ CountsAreExact /\ Null \notin Blocks
           /\ overlap = {} /\ revived = {}
           /\ \A b \in Blocks : WhileHeld(b) /\ WhenGone(b)
           /\ \A b \in Blocks :
                 /\ strong_count[b] \in Nat /\ weak_count[b] \in Nat
                 /\ strong_count[b] = 0 <=> \A t \in ThreeThreads : shared[t] # b
                 /\ weak_count[b] = 0 <=> \A t \in ThreeThreads : weak[t] # b
           /\ \A t \in ThreeThreads :
                 /\ shared[t] # Null =>
                        /\ shared[t] \in Blocks /\ strong_count[shared[t]] > 0
                        /\ block[shared[t]] = "live"
                 /\ weak[t] # Null =>
                        /\ weak[t] \in Blocks /\ weak_count[weak[t]] > 0
                        /\ block[weak[t]] = "live"
  <1>1. /\ PointerTypes /\ MidCall /\ CountsAreExact /\ Null \notin Blocks
        /\ overlap = {} /\ revived = {}
        /\ \A b \in Blocks : WhileHeld(b) /\ WhenGone(b)
    BY PointerCardinality DEF PointerInv, Pointer!AtomicNext
  <1>2. ASSUME NEW b \in Blocks
        PROVE  /\ strong_count[b] \in Nat /\ weak_count[b] \in Nat
               /\ strong_count[b] = 0 <=> \A t \in ThreeThreads : shared[t] # b
               /\ weak_count[b] = 0 <=> \A t \in ThreeThreads : weak[t] # b
               /\ strong_count[b] > 0 \/ weak_count[b] > 0 => block[b] = "live"
    <2>1. strong_count[b] = Holding(shared, b) /\ weak_count[b] = Holding(weak, b)
      BY <1>1 DEF CountsAreExact
    <2>2. /\ strong_count[b] \in Nat /\ weak_count[b] \in Nat
          /\ strong_count[b] = 0 <=> \A t \in ThreeThreads : shared[t] # b
          /\ weak_count[b] = 0 <=> \A t \in ThreeThreads : weak[t] # b
      BY <2>1, HoldingSome
    <2>3. /\ block[b] \in {"free", "live", "deleted"}
          /\ block[b] = "free" => strong_count[b] = 0 /\ weak_count[b] = 0
          /\ block[b] = "deleted" => strong_count[b] = 0 /\ weak_count[b] = 0
      BY <1>1 DEF PointerTypes, WhileHeld, WhenGone
    <2>4. QED  BY <2>2, <2>3
  <1>3. ASSUME NEW t \in ThreeThreads
        PROVE  /\ shared[t] # Null =>
                      /\ shared[t] \in Blocks /\ strong_count[shared[t]] > 0
                      /\ block[shared[t]] = "live"
               /\ weak[t] # Null =>
                      /\ weak[t] \in Blocks /\ weak_count[weak[t]] > 0
                      /\ block[weak[t]] = "live"
    <2>1. shared[t] \in Blocks \cup {Null} /\ weak[t] \in Blocks \cup {Null}
      BY <1>1 DEF PointerTypes
    <2>2. QED  BY <1>2, <2>1
  <1>4. QED  BY <1>1, <1>2, <1>3

\* A step that leaves all blocks but one alone.
LEMMA OneBlockStep ==
    ASSUME PointerInv, Pointer!AtomicNext, PointerTypes', MidCall', CountsAreExact',
           NEW c, \A b \in Blocks \ {c} : Untouched(b),
           c \in Blocks \ revived' => WhileHeld(c)',
           c \in Blocks \ (revived' \cup overlap') => WhenGone(c)'
    PROVE  PointerInv'
  <1>1. \A b \in Blocks : WhileHeld(b) /\ WhenGone(b)
    BY BeforeStep
  <1>2. ASSUME NEW b \in Blocks \ {c}
        PROVE  WhileHeld(b)' /\ WhenGone(b)'
    BY <1>1, <1>2, UntouchedBlock
  <1>3. /\ \A b \in Blocks \ revived' : WhileHeld(b)'
        /\ \A b \in Blocks \ (revived' \cup overlap') : WhenGone(b)'
    BY <1>2
  <1>4. QED  BY <1>3 DEF PointerInv

\* The counts follow one pointer that was Null and holds a block now, or the other way
\* round.
LEMMA SharedCounts ==
    ASSUME PointerTypes, CountsAreExact, NEW t \in ThreeThreads, NEW c \in Blocks,
           Null \notin Blocks, weak' = weak, weak_count' = weak_count,
           \A u \in ThreeThreads \ {t} : shared'[u] = shared[u],
           \A b \in Blocks \ {c} : strong_count'[b] = strong_count[b],
           \/ shared[t] = Null /\ shared'[t] = c /\ strong_count'[c] = strong_count[c] + 1
           \/ shared[t] = c /\ shared'[t] = Null /\ strong_count'[c] = strong_count[c] - 1
    PROVE  CountsAreExact'
  <1>1. \A b \in Blocks : strong_count[b] = Holding(shared, b) /\ strong_count[b] \in Int
    BY DEF PointerTypes, CountsAreExact
  <1>2. ASSUME NEW b \in Blocks
        PROVE  strong_count'[b] = Holding(shared', b)
    <2>1. Holding(shared', b)
              = Holding(shared, b) - (IF shared[t] = b THEN 1 ELSE 0) + (IF shared'[t] = b THEN 1 ELSE 0)
      BY HoldingChange
    <2>2. QED  BY <1>1, <2>1
  <1>3. \A b \in Blocks : weak_count'[b] = Holding(weak', b)
    BY DEF CountsAreExact
  <1>4. QED  BY <1>2, <1>3 DEF CountsAreExact, Holding

LEMMA WeakCounts ==
    ASSUME PointerTypes, CountsAreExact, NEW t \in ThreeThreads, NEW c \in Blocks,
           Null \notin Blocks, shared' = shared, strong_count' = strong_count,
           \A u \in ThreeThreads \ {t} : weak'[u] = weak[u],
           \A b \in Blocks \ {c} : weak_count'[b] = weak_count[b],
           \/ weak[t] = Null /\ weak'[t] = c /\ weak_count'[c] = weak_count[c] + 1
           \/ weak[t] = c /\ weak'[t] = Null /\ weak_count'[c] = weak_count[c] - 1
    PROVE  CountsAreExact'
  <1>1. \A b \in Blocks : weak_count[b] = Holding(weak, b) /\ weak_count[b] \in Int
    BY DEF PointerTypes, CountsAreExact
  <1>2. ASSUME NEW b \in Blocks
        PROVE  weak_count'[b] = Holding(weak', b)
    <2>1. Holding(weak', b)
              = Holding(weak, b) - (IF weak[t] = b THEN 1 ELSE 0) + (IF weak'[t] = b THEN 1 ELSE 0)
      BY HoldingChange
    <2>2. QED  BY <1>1, <2>1
  <1>3. \A b \in Blocks : strong_count'[b] = Holding(shared', b)
    BY DEF CountsAreExact
  <1>4. QED  BY <1>2, <1>3 DEF CountsAreExact, Holding

\* A pointer moves from one thread to another.
LEMMA HoldingMoved ==
    ASSUME NEW f \in [ThreeThreads -> Blocks \cup {Null}],
           NEW t \in ThreeThreads, NEW u \in ThreeThreads,
           t # u, f[t] = Null, NEW b \in Blocks, Null \notin Blocks,
           NEW h, h = [f EXCEPT ![t] = f[u], ![u] = Null]
    PROVE  Holding(h, b) = Holding(f, b)
  <1> DEFINE g == [f EXCEPT ![t] = f[u]]
  <1>1. \A w \in ThreeThreads \ {t} : g[w] = f[w]
    OBVIOUS
  <1>2. \A w \in ThreeThreads \ {u} : h[w] = g[w]
    OBVIOUS
  <1>3. g[t] = f[u] /\ h[u] = Null /\ g[u] = f[u]
    OBVIOUS
  <1> HIDE DEF g
  <1>4. Holding(g, b)
            = Holding(f, b) - (IF f[t] = b THEN 1 ELSE 0) + (IF g[t] = b THEN 1 ELSE 0)
    BY ONLY <1>1, HoldingChange, t \in ThreeThreads
  <1>5. Holding(h, b)
            = Holding(g, b) - (IF g[u] = b THEN 1 ELSE 0) + (IF h[u] = b THEN 1 ELSE 0)
    BY ONLY <1>2, HoldingChange, u \in ThreeThreads
  <1>6. Holding(f, b) \in Nat /\ Holding(g, b) \in Nat
    BY HoldingSome
  <1>7. QED  BY <1>3, <1>4, <1>5, <1>6

LEMMA MakeStep ==
    ASSUME PointerInv, Pointer!AtomicNext, NEW t \in ThreeThreads, NEW b \in Blocks,
           Pointer!Make(t, b)
    PROVE  PointerInv'
  <1>1. /\ pc[t] = "idle" /\ shared[t] = Null /\ block[b] = "free"
        /\ block' = [block EXCEPT ![b] = "live"]
        /\ strong_count' = [strong_count EXCEPT ![b] = 1]
        /\ shared' = [shared EXCEPT ![t] = b]
        /\ weak' = weak /\ weak_count' = weak_count /\ deletes' = deletes
        /\ pc' = pc /\ ctrl' = ctrl /\ revived' = revived /\ overlap' = overlap
    BY DEF Pointer!Make
  <1>2. /\ PointerTypes /\ MidCall /\ CountsAreExact /\ Null \notin Blocks /\ WhileHeld(b)
    BY BeforeStep
  <1>3. /\ strong_count[b] = 0 /\ weak_count[b] = 0 /\ deletes[b] = 0
        /\ Cleaners(b) = {}
    BY <1>1, <1>2 DEF WhileHeld
  <1>4. /\ strong_count \in [Blocks -> Int] /\ 1 \in Int
        /\ shared \in [ThreeThreads -> Blocks \cup {Null}]
    BY <1>2 DEF PointerTypes
  <1>5. /\ strong_count' \in [Blocks -> Int] /\ strong_count'[b] = 1
        /\ \A d \in Blocks \ {b} : strong_count'[d] = strong_count[d]
    BY <1>1, <1>4
  <1>6. CountsAreExact'
    <2>1. /\ \A v \in ThreeThreads \ {t} : shared'[v] = shared[v]
          /\ shared[t] = Null /\ shared'[t] = b
      BY <1>1, <1>4
    <2>2. strong_count'[b] = strong_count[b] + 1
      BY <1>3, <1>5
    <2>3. QED  BY <1>1, <1>2, <1>5, <2>1, <2>2, SharedCounts
  <1>7. PointerTypes' /\ MidCall'
    <2>1. PointerTypes'
      BY <1>1, <1>2, <1>5 DEF PointerTypes
    <2>2. MidCall'
      BY <1>1, <1>2, <1>3 DEF PointerTypes, MidCall
    <2>3. QED  BY <2>1, <2>2
  <1>8. \A d : /\ Cleaners(d)' = Cleaners(d) /\ Destroyers(d)' = Destroyers(d)
               /\ Deleters(d)' = Deleters(d)
    BY <1>1, NobodyMoves
  <1>9. \A d \in Blocks \ {b} : Untouched(d)
    BY <1>1, <1>2, <1>8 DEF Untouched, PointerTypes
  <1>10. /\ strong_count'[b] = 1 /\ weak_count'[b] = 0 /\ deletes'[b] = 0 /\ block'[b] = "live"
        /\ Destroyers(b)' = {} /\ Deleters(b)' = {}
    BY <1>1, <1>2, <1>3, <1>8 DEF PointerTypes, Destroyers, Deleters
  <1>11. WhileHeld(b)' /\ WhenGone(b)'
    BY ONLY <1>10 DEF WhileHeld, WhenGone
  <1>12. QED  BY <1>6, <1>7, <1>9, <1>11, OneBlockStep

LEMMA CopyStep ==
    ASSUME PointerInv, Pointer!AtomicNext, NEW t \in ThreeThreads,
           NEW u \in ThreeThreads \ {t}, Pointer!Copy(t, u)
    PROVE  PointerInv'
  <1>1. PICK b : b = shared[u]
    OBVIOUS
  <1>2. /\ pc[t] = "idle" /\ shared[t] = Null /\ b # Null
        /\ shared' = [shared EXCEPT ![t] = b]
        /\ strong_count' = [strong_count EXCEPT ![b] = strong_count[b] + 1]
        /\ weak' = weak /\ weak_count' = weak_count /\ deletes' = deletes /\ block' = block
        /\ pc' = pc /\ ctrl' = ctrl /\ revived' = revived /\ overlap' = overlap
    BY <1>1 DEF Pointer!Copy
  <1>3. /\ PointerTypes /\ MidCall /\ CountsAreExact /\ Null \notin Blocks
        /\ b \in Blocks /\ strong_count[b] > 0 /\ block[b] = "live"
    BY <1>1, <1>2, BeforeStep
  <1>4. strong_count[b] \in Nat /\ WhileHeld(b) /\ WhenGone(b)
    BY <1>3, BeforeStep
  <1>5. /\ strong_count \in [Blocks -> Int] /\ strong_count[b] + 1 \in Int
        /\ shared \in [ThreeThreads -> Blocks \cup {Null}]
    BY <1>3, <1>4 DEF PointerTypes
  <1>6. /\ strong_count' \in [Blocks -> Int] /\ strong_count'[b] = strong_count[b] + 1
        /\ \A d \in Blocks \ {b} : strong_count'[d] = strong_count[d]
    BY <1>2, <1>3, <1>4, <1>5
  <1>7. CountsAreExact'
    <2>1. /\ \A v \in ThreeThreads \ {t} : shared'[v] = shared[v]
          /\ shared[t] = Null /\ shared'[t] = b
      BY <1>2, <1>3, <1>4, <1>5
    <2>2. QED  BY <1>2, <1>3, <1>4, <1>6, <2>1, SharedCounts
  <1>8. PointerTypes' /\ MidCall'
    <2>1. PointerTypes'
      BY <1>2, <1>3, <1>4, <1>6 DEF PointerTypes
    <2>2. MidCall'
      BY <1>2, <1>3, <1>4 DEF PointerTypes, MidCall
    <2>3. QED  BY <2>1, <2>2
  <1>9. \A d : /\ Cleaners(d)' = Cleaners(d) /\ Destroyers(d)' = Destroyers(d)
               /\ Deleters(d)' = Deleters(d)
    BY <1>2, NobodyMoves
  <1>10. \A d \in Blocks \ {b} : Untouched(d)
    BY <1>2, <1>3, <1>9 DEF Untouched, PointerTypes
  <1>11. /\ strong_count[b] > 0 /\ strong_count'[b] > 0
        /\ weak_count'[b] = weak_count[b] /\ deletes'[b] = deletes[b]
        /\ block[b] = "live" /\ block'[b] = "live"
        /\ Destroyers(b)' = Destroyers(b) /\ Deleters(b)' = Deleters(b)
    BY <1>2, <1>3, <1>4, <1>9, <1>6
  <1>12. WhileHeld(b)' /\ WhenGone(b)'
    BY ONLY <1>4, <1>11 DEF WhileHeld, WhenGone
  <1>13. QED  BY <1>7, <1>8, <1>10, <1>12, OneBlockStep

LEMMA MoveStep ==
    ASSUME PointerInv, Pointer!AtomicNext, NEW t \in ThreeThreads,
           NEW u \in ThreeThreads \ {t}, Pointer!Move(t, u) \/ Pointer!MoveWeak(t, u)
    PROVE  PointerInv'
  <1>1. /\ pc[t] = "idle" /\ pc[u] = "idle"
        /\ \/ /\ shared[t] = Null /\ shared' = [shared EXCEPT ![t] = shared[u], ![u] = Null]
              /\ weak' = weak
           \/ /\ weak[t] = Null /\ weak' = [weak EXCEPT ![t] = weak[u], ![u] = Null]
              /\ shared' = shared
        /\ strong_count' = strong_count /\ weak_count' = weak_count
        /\ deletes' = deletes /\ block' = block
        /\ pc' = pc /\ ctrl' = ctrl /\ revived' = revived /\ overlap' = overlap
    BY DEF Pointer!Move, Pointer!MoveWeak
  <1>2. PointerTypes /\ MidCall /\ CountsAreExact /\ Null \notin Blocks
    BY BeforeStep
  <1>3. ASSUME NEW b \in Blocks
        PROVE  Holding(shared', b) = Holding(shared, b) /\ Holding(weak', b) = Holding(weak, b)
    <2>1. /\ shared \in [ThreeThreads -> Blocks \cup {Null}]
          /\ weak \in [ThreeThreads -> Blocks \cup {Null}]
      BY <1>2 DEF PointerTypes
    <2>2. QED  BY <1>1, <1>2, <2>1, HoldingMoved
  <1>4. CountsAreExact'
    BY <1>1, <1>2, <1>3 DEF CountsAreExact, Holding
  <1>5. PointerTypes' /\ MidCall'
    <2>1. PointerTypes'
      BY <1>1, <1>2 DEF PointerTypes
    <2>2. MidCall'
      BY <1>1, <1>2 DEF PointerTypes, MidCall
    <2>3. QED  BY <2>1, <2>2
  <1>6. \A d : /\ Cleaners(d)' = Cleaners(d) /\ Destroyers(d)' = Destroyers(d)
               /\ Deleters(d)' = Deleters(d)
    BY <1>1, NobodyMoves
  <1>7. \A d \in Blocks : Untouched(d)
    BY <1>1, <1>6 DEF Untouched
  <1>8. QED  BY <1>2, <1>4, <1>5, <1>7, OneBlockStep

LEMMA MakeWeakStep ==
    ASSUME PointerInv, Pointer!AtomicNext, NEW t \in ThreeThreads, NEW u \in ThreeThreads,
           Pointer!MakeWeak(t, u)
    PROVE  PointerInv'
  <1>1. PICK b \in {shared[u], weak[u]} \ {Null} :
            /\ weak' = [weak EXCEPT ![t] = b]
            /\ weak_count' = [weak_count EXCEPT ![b] = weak_count[b] + 1]
            /\ overlap' = IF block[b] = "live" THEN overlap ELSE overlap \cup {b}
    BY DEF Pointer!MakeWeak, Pointer!Touched
  <1>2. /\ pc[t] = "idle" /\ weak[t] = Null
        /\ shared' = shared /\ strong_count' = strong_count
        /\ deletes' = deletes /\ block' = block
        /\ pc' = pc /\ ctrl' = ctrl /\ revived' = revived
    BY DEF Pointer!MakeWeak
  <1>3. /\ PointerTypes /\ MidCall /\ CountsAreExact /\ Null \notin Blocks
        /\ b \in Blocks /\ block[b] = "live" /\ weak_count[b] \in Nat
        /\ WhileHeld(b) /\ WhenGone(b)
    <2>1. b \in Blocks /\ block[b] = "live"
      BY <1>1, BeforeStep
    <2>2. QED  BY <2>1, BeforeStep
  <1>4. /\ weak_count \in [Blocks -> Int] /\ weak_count[b] + 1 \in Int
        /\ weak \in [ThreeThreads -> Blocks \cup {Null}]
    BY <1>2, <1>3 DEF PointerTypes
  <1>5. /\ weak_count' \in [Blocks -> Int] /\ weak_count'[b] = weak_count[b] + 1
        /\ \A d \in Blocks \ {b} : weak_count'[d] = weak_count[d]
    BY <1>1, <1>2, <1>3, <1>4
  <1>6. CountsAreExact'
    <2>1. /\ \A v \in ThreeThreads \ {t} : weak'[v] = weak[v]
          /\ weak[t] = Null /\ weak'[t] = b
      BY <1>1, <1>2, <1>3, <1>4
    <2>2. QED  BY <1>1, <1>2, <1>3, <1>5, <2>1, WeakCounts
  <1>7. PointerTypes' /\ MidCall'
    <2>1. PointerTypes'
      BY <1>1, <1>2, <1>3, <1>5 DEF PointerTypes
    <2>2. MidCall'
      BY <1>1, <1>2, <1>3 DEF PointerTypes, MidCall
    <2>3. QED  BY <2>1, <2>2
  <1>8. \A d : /\ Cleaners(d)' = Cleaners(d) /\ Destroyers(d)' = Destroyers(d)
               /\ Deleters(d)' = Deleters(d)
    BY <1>2, NobodyMoves
  <1>9. \A d \in Blocks \ {b} : Untouched(d)
    BY <1>1, <1>2, <1>3, <1>8 DEF Untouched, PointerTypes
  <1>10. /\ strong_count'[b] = strong_count[b] /\ weak_count'[b] # 0
        /\ deletes'[b] = deletes[b]
        /\ block[b] = "live" /\ block'[b] = "live"
        /\ Destroyers(b)' = Destroyers(b) /\ Deleters(b)' = Deleters(b)
    BY <1>1, <1>2, <1>3, <1>8, <1>5
  <1>11. WhileHeld(b)' /\ WhenGone(b)'
    BY ONLY <1>3, <1>10 DEF WhileHeld, WhenGone
  <1>12. QED  BY <1>6, <1>7, <1>9, <1>11, OneBlockStep

LEMMA ReleaseStep ==
    ASSUME PointerInv, Pointer!AtomicNext, NEW t \in ThreeThreads, Pointer!Release(t)
    PROVE  PointerInv'
  <1>1. PICK b : b = shared[t]
    OBVIOUS
  <1> DEFINE next_ == IF strong_count[b] = 1 THEN "deleteObject" ELSE "idle"
  <1>2. /\ pc[t] = "idle" /\ b # Null
        /\ strong_count' = [strong_count EXCEPT ![b] = strong_count[b] - 1]
        /\ pc' = [pc EXCEPT ![t] = next_]
        /\ ctrl' = [ctrl EXCEPT ![t] = b]
        /\ shared' = [shared EXCEPT ![t] = Null]
        /\ overlap' = IF block[b] = "live" THEN overlap ELSE overlap \cup {b}
        /\ weak' = weak /\ weak_count' = weak_count /\ deletes' = deletes /\ block' = block
        /\ revived' = revived
    BY <1>1 DEF Pointer!Release, Pointer!Touched
  <1>3. /\ PointerTypes /\ MidCall /\ CountsAreExact /\ Null \notin Blocks
        /\ b \in Blocks /\ strong_count[b] > 0 /\ block[b] = "live"
    BY <1>1, <1>2, BeforeStep
  <1>4. strong_count[b] \in Nat /\ weak_count[b] \in Nat /\ WhileHeld(b) /\ WhenGone(b)
    BY <1>3, BeforeStep
  <1>5. /\ strong_count' \in [Blocks -> Int] /\ strong_count'[b] = strong_count[b] - 1
        /\ \A d \in Blocks \ {b} : strong_count'[d] = strong_count[d]
    BY <1>2, <1>3, <1>4 DEF PointerTypes
  <1>6. CountsAreExact'
    <2>1. /\ \A u \in ThreeThreads \ {t} : shared'[u] = shared[u]
          /\ shared[t] = b /\ shared'[t] = Null
      BY <1>1, <1>2, <1>3 DEF PointerTypes
    <2>2. QED  BY <1>2, <1>3, <1>5, <2>1, SharedCounts
  <1>7. PointerTypes' /\ MidCall'
    <2>1. PointerTypes'
      BY <1>2, <1>3, <1>5 DEF PointerTypes
    <2>2. MidCall'
      BY <1>2, <1>3 DEF PointerTypes, MidCall
    <2>3. QED  BY <2>1, <2>2
  <1>8. \A d : /\ Cleaners(d)' = (Cleaners(d) \ {t}) \cup
                                    {u \in {t} : next_ \in Pointer!Cleaning /\ d = b}
               /\ Destroyers(d)' = (Destroyers(d) \ {t}) \cup
                                    {u \in {t} : next_ \in Pointer!Cleaning \ {"loadStrong"} /\ d = b}
               /\ Deleters(d)' = (Deleters(d) \ {t}) \cup
                                    {u \in {t} : next_ = "deleteObject" /\ d = b}
    <2>1. /\ \A u \in ThreeThreads \ {t} : pc'[u] = pc[u] /\ ctrl'[u] = ctrl[u]
          /\ pc'[t] = next_ /\ ctrl'[t] = b
      BY <1>2, <1>3 DEF PointerTypes
    <2> HIDE DEF next_
    <2>2. QED  BY <2>1, CleanersChange
  <1>9. \A d : t \notin Cleaners(d) /\ t \notin Destroyers(d) /\ t \notin Deleters(d)
    BY <1>2 DEF Cleaners, Destroyers, Deleters, Pointer!Cleaning
  <1>10. \A d \in Blocks \ {b} : Untouched(d)
    BY <1>2, <1>5, <1>8, <1>9 DEF Untouched
  <1>11. /\ weak_count'[b] = weak_count[b] /\ deletes'[b] = deletes[b]
         /\ block[b] = "live" /\ block'[b] = "live"
    BY <1>2, <1>3
  <1>12. WhileHeld(b)' /\ WhenGone(b)'
    <2>1. deletes[b] = 0 /\ Destroyers(b) = {} /\ Deleters(b) = {}
      BY <1>3, <1>4 DEF WhileHeld, Destroyers, Deleters
    <2>2. CASE strong_count[b] = 1
      <3>1. /\ Cleaners(b)' # {} /\ Deleters(b)' = {t}
        BY <1>8, <2>1, <2>2 DEF Pointer!Cleaning
      <3>2. strong_count'[b] = 0
        BY <1>5, <2>2
      <3>3. QED  BY <1>11, <2>1, <3>1, <3>2 DEF WhileHeld, WhenGone
    <2>3. CASE strong_count[b] # 1
      <3>1. /\ Destroyers(b)' = {} /\ Deleters(b)' = {}
        BY <1>8, <2>1, <2>3 DEF Pointer!Cleaning
      <3>2. strong_count'[b] > 0
        BY <1>3, <1>4, <1>5, <2>3
      <3>3. QED  BY <1>11, <2>1, <3>1, <3>2 DEF WhileHeld, WhenGone
    <2>4. QED  BY <2>2, <2>3
  <1>13. QED  BY <1>6, <1>7, <1>10, <1>12, OneBlockStep

LEMMA DeleteObjectStep ==
    ASSUME PointerInv, Pointer!AtomicNext, NEW t \in ThreeThreads, Pointer!DeleteObject(t)
    PROVE  PointerInv'
  <1>1. PICK b : b = ctrl[t]
    OBVIOUS
  <1>2. /\ pc[t] = "deleteObject"
        /\ deletes' = [deletes EXCEPT ![b] = deletes[b] + 1]
        /\ pc' = [pc EXCEPT ![t] = "loadWeak"]
        /\ shared' = shared /\ weak' = weak
        /\ strong_count' = strong_count /\ weak_count' = weak_count /\ block' = block
        /\ ctrl' = ctrl /\ revived' = revived /\ overlap' = overlap
    BY <1>1 DEF Pointer!DeleteObject
  <1>3. PointerTypes /\ MidCall /\ CountsAreExact /\ Null \notin Blocks
    BY BeforeStep
  <1>4. b \in Blocks
    BY <1>1, <1>2, <1>3 DEF PointerTypes, MidCall, Pointer!Cleaning
  <1>5. strong_count[b] \in Nat /\ weak_count[b] \in Nat /\ WhileHeld(b) /\ WhenGone(b)
    BY <1>4, BeforeStep
  <1>6. /\ deletes' \in [Blocks -> Int] /\ deletes'[b] = deletes[b] + 1
        /\ \A d \in Blocks \ {b} : deletes'[d] = deletes[d]
    BY <1>2, <1>3, <1>4 DEF PointerTypes
  <1>7. PointerTypes' /\ MidCall' /\ CountsAreExact'
    <2>1. PointerTypes'
      BY <1>2, <1>3, <1>6 DEF PointerTypes
    <2>2. MidCall'
      BY <1>2, <1>3 DEF PointerTypes, MidCall, Pointer!Cleaning
    <2>3. CountsAreExact'
      BY <1>2, <1>3 DEF CountsAreExact, Holding
    <2>4. QED  BY <2>1, <2>2, <2>3
  <1>8. \A d : /\ Cleaners(d)' = (Cleaners(d) \ {t}) \cup {u \in {t} : d = b}
               /\ Destroyers(d)' = (Destroyers(d) \ {t}) \cup {u \in {t} : d = b}
               /\ Deleters(d)' = Deleters(d) \ {t}
    <2>1. /\ \A u \in ThreeThreads \ {t} : pc'[u] = pc[u] /\ ctrl'[u] = ctrl[u]
          /\ pc'[t] = "loadWeak" /\ ctrl'[t] = b
      BY <1>1, <1>2, <1>3 DEF PointerTypes
    <2>2. QED  BY <2>1, CleanersChange DEF Pointer!Cleaning
  <1>9. /\ t \in Cleaners(b) /\ t \in Destroyers(b) /\ t \in Deleters(b)
        /\ \A d : d # b => t \notin Cleaners(d) /\ t \notin Destroyers(d) /\ t \notin Deleters(d)
    BY <1>1, <1>2 DEF Cleaners, Destroyers, Deleters, Pointer!Cleaning
  <1>10. \A d \in Blocks \ {b} : Untouched(d)
    BY <1>2, <1>6, <1>8, <1>9 DEF Untouched
  <1>11. WhileHeld(b)' /\ WhenGone(b)'
    <2>1. /\ strong_count[b] = 0 /\ block[b] # "free"
          /\ Deleters(b) # {} /\ \A u \in Deleters(b) : u = t
      BY <1>5, <1>9 DEF WhileHeld, WhenGone
    <2>2. /\ Cleaners(b)' # {} /\ Deleters(b)' = {}
          /\ strong_count'[b] = 0 /\ weak_count'[b] = weak_count[b] /\ block'[b] = block[b]
      BY <1>2, <1>8, <2>1
    <2>3. deletes[b] = IF block[b] = "deleted" THEN 1 ELSE 0
      BY <1>5, <2>1 DEF WhenGone
    <2>4. deletes'[b] = 1 + (IF block'[b] = "deleted" THEN 1 ELSE 0)
      BY <1>6, <2>2, <2>3
    <2>5. block[b] = "deleted" => weak_count[b] = 0
      BY <1>5 DEF WhenGone
    <2>6. QED  BY <2>1, <2>2, <2>4, <2>5 DEF WhileHeld, WhenGone
  <1>12. QED  BY <1>7, <1>10, <1>11, OneBlockStep

LEMMA LoadWeakStep ==
    ASSUME PointerInv, Pointer!AtomicNext, NEW t \in ThreeThreads, Pointer!LoadWeak(t)
    PROVE  PointerInv'
  <1>1. PICK b : b = ctrl[t]
    OBVIOUS
  <1> DEFINE next_ == IF weak_count[b] = 0 THEN "deleteBlock" ELSE "idle"
  <1>2. /\ pc[t] = "loadWeak"
        /\ pc' = [pc EXCEPT ![t] = next_]
        /\ overlap' = IF block[b] = "live" THEN overlap ELSE overlap \cup {b}
        /\ shared' = shared /\ weak' = weak /\ deletes' = deletes
        /\ strong_count' = strong_count /\ weak_count' = weak_count /\ block' = block
        /\ ctrl' = ctrl /\ revived' = revived
    BY <1>1 DEF Pointer!LoadWeak, Pointer!Touched
  <1>3. PointerTypes /\ MidCall /\ CountsAreExact /\ Null \notin Blocks
    BY BeforeStep
  <1>4. b \in Blocks
    BY <1>1, <1>2, <1>3 DEF PointerTypes, MidCall, Pointer!Cleaning
  <1>5. strong_count[b] \in Nat /\ weak_count[b] \in Nat /\ WhileHeld(b) /\ WhenGone(b)
    BY <1>4, BeforeStep
  <1>6. PointerTypes' /\ MidCall' /\ CountsAreExact'
    <2>1. PointerTypes'
      BY <1>2, <1>3 DEF PointerTypes
    <2>2. MidCall'
      BY <1>1, <1>2, <1>3, <1>4 DEF PointerTypes, MidCall, Pointer!Cleaning
    <2>3. CountsAreExact'
      BY <1>2, <1>3 DEF CountsAreExact, Holding
    <2>4. QED  BY <2>1, <2>2, <2>3
  <1>7. \A d : /\ Cleaners(d)' = (Cleaners(d) \ {t}) \cup
                                    {u \in {t} : weak_count[b] = 0 /\ d = b}
               /\ Destroyers(d)' = (Destroyers(d) \ {t}) \cup
                                    {u \in {t} : weak_count[b] = 0 /\ d = b}
               /\ Deleters(d)' = Deleters(d) \ {t}
    <2>1. /\ \A u \in ThreeThreads \ {t} : pc'[u] = pc[u] /\ ctrl'[u] = ctrl[u]
          /\ pc'[t] = next_ /\ ctrl'[t] = b
      BY <1>1, <1>2, <1>3 DEF PointerTypes
    <2>2. QED  BY <2>1, CleanersChange DEF Pointer!Cleaning
  <1>8. /\ t \in Cleaners(b) /\ t \in Destroyers(b) /\ t \notin Deleters(b)
        /\ \A d : d # b => t \notin Cleaners(d) /\ t \notin Destroyers(d) /\ t \notin Deleters(d)
    BY <1>1, <1>2 DEF Cleaners, Destroyers, Deleters, Pointer!Cleaning
  <1>9. \A d \in Blocks \ {b} : Untouched(d)
    BY <1>2, <1>7, <1>8 DEF Untouched
  <1>10. /\ strong_count[b] = 0 /\ block[b] # "free"
         /\ strong_count'[b] = 0 /\ weak_count'[b] = weak_count[b]
         /\ deletes'[b] = deletes[b] /\ block'[b] = block[b] /\ Deleters(b)' = Deleters(b)
    <2>1. Cleaners(b) # {} /\ Destroyers(b) # {}
      BY <1>8
    <2>2. block[b] # "free" /\ ~(strong_count[b] > 0)
      BY <1>5, <2>1 DEF WhileHeld
    <2>3. Deleters(b)' = Deleters(b)
      BY <1>7, <1>8
    <2>4. QED  BY <1>2, <1>5, <2>2, <2>3
  <1>11. WhileHeld(b)'
    BY <1>10 DEF WhileHeld
  <1>12. WhenGone(b)'
    <2>1. weak_count[b] = 0 => Cleaners(b)' # {}
      BY <1>7
    <2>2. QED  BY <1>5, <1>10, <2>1 DEF WhenGone
  <1>13. QED  BY <1>6, <1>9, <1>11, <1>12, OneBlockStep

LEMMA ReleaseWeakStep ==
    ASSUME PointerInv, Pointer!AtomicNext, NEW t \in ThreeThreads, Pointer!ReleaseWeak(t)
    PROVE  PointerInv'
  <1>1. PICK b : b = weak[t]
    OBVIOUS
  <1> DEFINE next_ == IF weak_count[b] = 1 THEN "loadStrong" ELSE "idle"
  <1>2. /\ pc[t] = "idle" /\ b # Null
        /\ weak_count' = [weak_count EXCEPT ![b] = weak_count[b] - 1]
        /\ pc' = [pc EXCEPT ![t] = next_]
        /\ ctrl' = [ctrl EXCEPT ![t] = b]
        /\ weak' = [weak EXCEPT ![t] = Null]
        /\ overlap' = IF block[b] = "live" THEN overlap ELSE overlap \cup {b}
        /\ shared' = shared /\ strong_count' = strong_count /\ deletes' = deletes
        /\ block' = block /\ revived' = revived
    BY <1>1 DEF Pointer!ReleaseWeak, Pointer!Touched
  <1>3. /\ PointerTypes /\ MidCall /\ CountsAreExact /\ Null \notin Blocks
        /\ b \in Blocks /\ weak_count[b] > 0 /\ block[b] = "live"
    BY <1>1, <1>2, BeforeStep
  <1>4. strong_count[b] \in Nat /\ weak_count[b] \in Nat /\ WhileHeld(b) /\ WhenGone(b)
    BY <1>3, BeforeStep
  <1>5. /\ weak_count' \in [Blocks -> Int] /\ weak_count'[b] = weak_count[b] - 1
        /\ \A d \in Blocks \ {b} : weak_count'[d] = weak_count[d]
    BY <1>2, <1>3, <1>4 DEF PointerTypes
  <1>6. CountsAreExact'
    <2>1. /\ \A u \in ThreeThreads \ {t} : weak'[u] = weak[u]
          /\ weak[t] = b /\ weak'[t] = Null
      BY <1>1, <1>2, <1>3 DEF PointerTypes
    <2>2. QED  BY <1>2, <1>3, <1>5, <2>1, WeakCounts
  <1>7. PointerTypes' /\ MidCall'
    <2>1. PointerTypes'
      BY <1>2, <1>3, <1>5 DEF PointerTypes
    <2>2. MidCall'
      BY <1>2, <1>3 DEF PointerTypes, MidCall
    <2>3. QED  BY <2>1, <2>2
  <1>8. \A d : /\ Cleaners(d)' = (Cleaners(d) \ {t}) \cup
                                    {u \in {t} : weak_count[b] = 1 /\ d = b}
               /\ Destroyers(d)' = Destroyers(d) \ {t} /\ Deleters(d)' = Deleters(d) \ {t}
    <2>1. /\ \A u \in ThreeThreads \ {t} : pc'[u] = pc[u] /\ ctrl'[u] = ctrl[u]
          /\ pc'[t] = next_ /\ ctrl'[t] = b
      BY <1>2, <1>3 DEF PointerTypes
    <2>2. QED  BY <2>1, CleanersChange DEF Pointer!Cleaning
  <1>9. \A d : t \notin Cleaners(d) /\ t \notin Destroyers(d) /\ t \notin Deleters(d)
    BY <1>2 DEF Cleaners, Destroyers, Deleters, Pointer!Cleaning
  <1>10. \A d \in Blocks \ {b} : Untouched(d)
    BY <1>2, <1>5, <1>8, <1>9 DEF Untouched
  <1>11. /\ strong_count'[b] = strong_count[b] /\ deletes'[b] = deletes[b]
         /\ block[b] = "live" /\ block'[b] = "live"
         /\ Destroyers(b)' = Destroyers(b) /\ Deleters(b)' = Deleters(b)
    BY <1>2, <1>3, <1>8, <1>9
  <1>12. WhileHeld(b)'
    BY <1>4, <1>11 DEF WhileHeld
  <1>13. WhenGone(b)'
    <2>1. weak_count'[b] = 0 => Cleaners(b)' # {}
      <3>1. weak_count'[b] = 0 => weak_count[b] = 1
        BY <1>4, <1>5
      <3>2. QED  BY <1>8, <3>1
    <2>2. QED  BY <1>4, <1>11, <2>1 DEF WhenGone
  <1>14. QED  BY <1>6, <1>7, <1>10, <1>12, <1>13, OneBlockStep

LEMMA LoadStrongStep ==
    ASSUME PointerInv, Pointer!AtomicNext, NEW t \in ThreeThreads, Pointer!LoadStrong(t)
    PROVE  PointerInv'
  <1>1. PICK b : b = ctrl[t]
    OBVIOUS
  <1> DEFINE next_ == IF strong_count[b] = 0 THEN "deleteBlock" ELSE "idle"
  <1>2. /\ pc[t] = "loadStrong"
        /\ pc' = [pc EXCEPT ![t] = next_]
        /\ overlap' = IF block[b] = "live" THEN overlap ELSE overlap \cup {b}
        /\ shared' = shared /\ weak' = weak /\ deletes' = deletes
        /\ strong_count' = strong_count /\ weak_count' = weak_count /\ block' = block
        /\ ctrl' = ctrl /\ revived' = revived
    BY <1>1 DEF Pointer!LoadStrong, Pointer!Touched
  <1>3. PointerTypes /\ MidCall /\ CountsAreExact /\ Null \notin Blocks
    BY BeforeStep
  <1>4. b \in Blocks
    BY <1>1, <1>2, <1>3 DEF PointerTypes, MidCall, Pointer!Cleaning
  <1>5. strong_count[b] \in Nat /\ weak_count[b] \in Nat /\ WhileHeld(b) /\ WhenGone(b)
    BY <1>4, BeforeStep
  <1>6. PointerTypes' /\ MidCall' /\ CountsAreExact'
    <2>1. PointerTypes'
      BY <1>2, <1>3 DEF PointerTypes
    <2>2. MidCall'
      BY <1>1, <1>2, <1>3, <1>4 DEF PointerTypes, MidCall, Pointer!Cleaning
    <2>3. CountsAreExact'
      BY <1>2, <1>3 DEF CountsAreExact, Holding
    <2>4. QED  BY <2>1, <2>2, <2>3
  <1>7. \A d : /\ Cleaners(d)' = (Cleaners(d) \ {t}) \cup
                                    {u \in {t} : strong_count[b] = 0 /\ d = b}
               /\ Destroyers(d)' = (Destroyers(d) \ {t}) \cup
                                    {u \in {t} : strong_count[b] = 0 /\ d = b}
               /\ Deleters(d)' = Deleters(d) \ {t}
    <2>1. /\ \A u \in ThreeThreads \ {t} : pc'[u] = pc[u] /\ ctrl'[u] = ctrl[u]
          /\ pc'[t] = next_ /\ ctrl'[t] = b
      BY <1>1, <1>2, <1>3 DEF PointerTypes
    <2>2. QED  BY <2>1, CleanersChange DEF Pointer!Cleaning
  <1>8. /\ t \in Cleaners(b) /\ t \notin Destroyers(b) /\ t \notin Deleters(b)
        /\ \A d : d # b => t \notin Cleaners(d) /\ t \notin Destroyers(d) /\ t \notin Deleters(d)
    BY <1>1, <1>2 DEF Cleaners, Destroyers, Deleters, Pointer!Cleaning
  <1>9. \A d \in Blocks \ {b} : Untouched(d)
    BY <1>2, <1>7, <1>8 DEF Untouched
  <1>10. /\ block[b] # "free" /\ block'[b] = block[b]
         /\ strong_count'[b] = strong_count[b] /\ weak_count'[b] = weak_count[b]
         /\ deletes'[b] = deletes[b] /\ Deleters(b)' = Deleters(b)
         /\ strong_count[b] > 0 => Destroyers(b)' = Destroyers(b)
         /\ strong_count[b] = 0 => Cleaners(b)' # {}
    <2>1. Cleaners(b) # {}
      BY <1>8
    <2>2. block[b] # "free"
      BY <1>5, <2>1 DEF WhileHeld
    <2>3. /\ Deleters(b)' = Deleters(b)
          /\ strong_count[b] # 0 => Destroyers(b)' = Destroyers(b)
          /\ strong_count[b] = 0 => Cleaners(b)' # {}
      BY <1>7, <1>8
    <2>4. QED  BY <1>2, <1>5, <2>2, <2>3
  <1>11. WhileHeld(b)' /\ WhenGone(b)'
    BY <1>5, <1>10 DEF WhileHeld, WhenGone
  <1>12. QED  BY <1>6, <1>9, <1>11, OneBlockStep

LEMMA DeleteBlockStep ==
    ASSUME PointerInv, Pointer!AtomicNext, NEW t \in ThreeThreads, Pointer!DeleteBlock(t)
    PROVE  PointerInv'
  <1>1. PICK b : b = ctrl[t]
    OBVIOUS
  <1>2. /\ pc[t] = "deleteBlock"
        /\ deletes' = [deletes EXCEPT ![b] = deletes[b] + 1]
        /\ block' = [block EXCEPT ![b] = "deleted"]
        /\ overlap' = IF block[b] = "live" /\ strong_count[b] + weak_count[b] = 0
                      THEN overlap ELSE overlap \cup {b}
        /\ pc' = [pc EXCEPT ![t] = "idle"]
        /\ shared' = shared /\ weak' = weak
        /\ strong_count' = strong_count /\ weak_count' = weak_count
        /\ ctrl' = ctrl /\ revived' = revived
    BY <1>1 DEF Pointer!DeleteBlock
  <1>3. PointerTypes /\ MidCall /\ CountsAreExact /\ Null \notin Blocks
    BY BeforeStep
  <1>4. b \in Blocks
    BY <1>1, <1>2, <1>3 DEF PointerTypes, MidCall, Pointer!Cleaning
  <1>5. strong_count[b] \in Nat /\ weak_count[b] \in Nat /\ WhileHeld(b) /\ WhenGone(b)
    BY <1>4, BeforeStep
  <1>6. /\ deletes' \in [Blocks -> Int] /\ deletes'[b] = deletes[b] + 1
        /\ \A d \in Blocks \ {b} : deletes'[d] = deletes[d]
        /\ block'[b] = "deleted" /\ \A d \in Blocks \ {b} : block'[d] = block[d]
    BY <1>2, <1>3, <1>4 DEF PointerTypes
  <1>7. PointerTypes' /\ MidCall' /\ CountsAreExact'
    <2>1. PointerTypes'
      BY <1>2, <1>3, <1>6 DEF PointerTypes
    <2>2. MidCall'
      BY <1>2, <1>3 DEF PointerTypes, MidCall, Pointer!Cleaning
    <2>3. CountsAreExact'
      BY <1>2, <1>3 DEF CountsAreExact, Holding
    <2>4. QED  BY <2>1, <2>2, <2>3
  <1>8. \A d : /\ Cleaners(d)' = Cleaners(d) \ {t} /\ Destroyers(d)' = Destroyers(d) \ {t}
               /\ Deleters(d)' = Deleters(d) \ {t}
    <2>1. /\ \A u \in ThreeThreads \ {t} : pc'[u] = pc[u] /\ ctrl'[u] = ctrl[u]
          /\ pc'[t] = "idle" /\ ctrl'[t] = b
      BY <1>1, <1>2, <1>3 DEF PointerTypes
    <2>2. QED  BY <2>1, CleanersChange DEF Pointer!Cleaning
  <1>9. /\ t \in Cleaners(b) /\ t \in Destroyers(b) /\ t \notin Deleters(b)
        /\ \A d : d # b => t \notin Cleaners(d) /\ t \notin Destroyers(d) /\ t \notin Deleters(d)
    BY <1>1, <1>2 DEF Cleaners, Destroyers, Deleters, Pointer!Cleaning
  <1>10. \A d \in Blocks \ {b} : Untouched(d)
    <2>1. TAKE d \in Blocks \ {b}
    <2>2. /\ Cleaners(d)' = Cleaners(d) /\ Destroyers(d)' = Destroyers(d)
          /\ Deleters(d)' = Deleters(d)
      BY <1>8, <1>9
    <2>3. deletes'[d] = deletes[d] /\ block'[d] = block[d]
      BY <1>6
    <2>4. QED  BY <1>2, <2>2, <2>3 DEF Untouched
  <1>11. /\ strong_count[b] = 0 /\ block[b] # "free"
         /\ strong_count'[b] = 0 /\ weak_count'[b] = weak_count[b]
         /\ Deleters(b)' = Deleters(b)
    <2>1. Cleaners(b) # {} /\ Destroyers(b) # {}
      BY <1>9
    <2>2. block[b] # "free" /\ ~(strong_count[b] > 0)
      BY <1>5, <2>1 DEF WhileHeld
    <2>3. Deleters(b)' = Deleters(b)
      BY <1>8, <1>9
    <2>4. QED  BY <1>2, <1>5, <2>2, <2>3
  <1>12. WhileHeld(b)'
    BY <1>6, <1>11 DEF WhileHeld
  <1>13. ASSUME b \notin overlap'
         PROVE  WhenGone(b)'
    <2>1. block[b] = "live" /\ weak_count[b] = 0
      BY <1>2, <1>5, <1>11, <1>13
    <2>2. deletes[b] = IF Deleters(b) = {} THEN 1 ELSE 0
      BY <1>5, <1>11, <2>1 DEF WhenGone
    <2>3. deletes'[b] = (IF Deleters(b)' = {} THEN 1 ELSE 0) + 1
      BY <1>6, <1>11, <2>2
    <2>4. \A u, v \in Deleters(b)' : u = v
      BY <1>5, <1>11 DEF WhenGone
    <2>5. QED  BY <1>6, <1>11, <2>1, <2>3, <2>4 DEF WhenGone
  <1>14. QED  BY <1>7, <1>10, <1>12, <1>13, OneBlockStep

LEMMA LockStep ==
    ASSUME PointerInv, Pointer!AtomicNext, NEW t \in ThreeThreads,
           Pointer!Lock(t) \/ Pointer!LoadAgain(t)
    PROVE  PointerInv'
  <1>1. PICK b : b = weak[t]
    OBVIOUS
  <1>2. /\ \/ /\ pc[t] = "idle" /\ b # Null /\ shared[t] = Null
              /\ pc' = [pc EXCEPT ![t] = "loadAgain"]
           \/ /\ pc[t] = "loadAgain"
              /\ pc' = [pc EXCEPT ![t] = IF strong_count[b] > 0 THEN "raise" ELSE "idle"]
        /\ overlap' = IF block[b] = "live" THEN overlap ELSE overlap \cup {b}
        /\ shared' = shared /\ weak' = weak /\ deletes' = deletes
        /\ strong_count' = strong_count /\ weak_count' = weak_count /\ block' = block
        /\ ctrl' = ctrl /\ revived' = revived
    BY <1>1 DEF Pointer!Lock, Pointer!LoadAgain, Pointer!Touched
  <1>3. PointerTypes /\ MidCall /\ CountsAreExact
    BY BeforeStep
  <1>4. PointerTypes' /\ MidCall' /\ CountsAreExact'
    <2>1. PointerTypes'
      BY <1>2, <1>3 DEF PointerTypes
    <2>2. MidCall'
      BY <1>1, <1>2, <1>3 DEF PointerTypes, MidCall, Pointer!Cleaning
    <2>3. CountsAreExact'
      BY <1>2, <1>3 DEF CountsAreExact, Holding
    <2>4. QED  BY <2>1, <2>2, <2>3
  <1>5. \A d : /\ Cleaners(d)' = Cleaners(d) /\ Destroyers(d)' = Destroyers(d)
               /\ Deleters(d)' = Deleters(d)
    BY <1>2, <1>3 DEF Cleaners, Destroyers, Deleters, Pointer!Cleaning, PointerTypes
  <1>6. \A d \in Blocks : Untouched(d)
    BY <1>2, <1>5 DEF Untouched
  <1>7. QED  BY <1>4, <1>6, PointerCardinality, OneBlockStep

LEMMA RaiseStep ==
    ASSUME PointerInv, Pointer!AtomicNext, NEW t \in ThreeThreads, Pointer!Raise(t)
    PROVE  PointerInv'
  <1>1. PICK b : b = weak[t]
    OBVIOUS
  <1>2. /\ pc[t] = "raise"
        /\ strong_count' = [strong_count EXCEPT ![b] = strong_count[b] + 1]
        /\ shared' = [shared EXCEPT ![t] = b]
        /\ revived' = IF strong_count[b] = 0 THEN revived \cup {b} ELSE revived
        /\ pc' = [pc EXCEPT ![t] = "idle"]
        /\ overlap' = IF block[b] = "live" THEN overlap ELSE overlap \cup {b}
        /\ weak' = weak /\ weak_count' = weak_count /\ deletes' = deletes
        /\ block' = block /\ ctrl' = ctrl
    BY <1>1 DEF Pointer!Raise, Pointer!Touched
  <1>3. /\ PointerTypes /\ MidCall /\ CountsAreExact /\ Null \notin Blocks
        /\ b # Null /\ shared[t] = Null
    BY <1>1, <1>2, BeforeStep DEF MidCall
  <1>4. b \in Blocks /\ block[b] = "live"
    BY <1>1, <1>3, BeforeStep
  <1>5. strong_count[b] \in Nat /\ weak_count[b] \in Nat /\ WhileHeld(b) /\ WhenGone(b)
    BY <1>4, BeforeStep
  <1>6. /\ strong_count' \in [Blocks -> Int] /\ strong_count'[b] = strong_count[b] + 1
        /\ \A d \in Blocks \ {b} : strong_count'[d] = strong_count[d]
    BY <1>2, <1>3, <1>4, <1>5 DEF PointerTypes
  <1>7. CountsAreExact'
    <2>1. /\ \A u \in ThreeThreads \ {t} : shared'[u] = shared[u]
          /\ shared[t] = Null /\ shared'[t] = b
      BY <1>2, <1>3 DEF PointerTypes
    <2>2. QED  BY <1>2, <1>3, <1>4, <1>6, <2>1, SharedCounts
  <1>8. PointerTypes' /\ MidCall'
    <2>1. PointerTypes'
      BY <1>2, <1>3, <1>4, <1>6 DEF PointerTypes
    <2>2. MidCall'
      BY <1>2, <1>3 DEF PointerTypes, MidCall, Pointer!Cleaning
    <2>3. QED  BY <2>1, <2>2
  <1>9. \A d : /\ Cleaners(d)' = Cleaners(d) /\ Destroyers(d)' = Destroyers(d)
               /\ Deleters(d)' = Deleters(d)
    BY <1>2, <1>3 DEF Cleaners, Destroyers, Deleters, Pointer!Cleaning, PointerTypes
  <1>10. \A d \in Blocks \ {b} : Untouched(d)
    BY <1>2, <1>6, <1>9 DEF Untouched
  <1>11. ASSUME b \notin revived'
         PROVE  WhileHeld(b)' /\ WhenGone(b)'
    <2>1. /\ strong_count[b] > 0 /\ strong_count'[b] > 0
          /\ weak_count'[b] = weak_count[b] /\ deletes'[b] = deletes[b]
          /\ block[b] = "live" /\ block'[b] = "live"
          /\ Destroyers(b)' = Destroyers(b) /\ Deleters(b)' = Deleters(b)
      BY <1>2, <1>4, <1>5, <1>6, <1>9, <1>11
    <2>2. QED  BY <1>5, <2>1 DEF WhileHeld, WhenGone
  <1>12. QED  BY <1>7, <1>8, <1>10, <1>11, OneBlockStep

LEMMA PointerStep == PointerInv /\ [Pointer!AtomicNext]_pointerVars => PointerInv'
  <1> SUFFICES ASSUME PointerInv, [Pointer!AtomicNext]_pointerVars
               PROVE  PointerInv'
    OBVIOUS
  <1>1. CASE UNCHANGED pointerVars
    BY <1>1 DEF pointerVars, PointerInv, PointerTypes, MidCall, CountsAreExact, Holding,
       WhileHeld, WhenGone, Cleaners, Destroyers, Deleters
  <1>2. CASE Pointer!AtomicNext
    BY <1>2, MakeStep, CopyStep, MoveStep, MakeWeakStep, ReleaseStep, DeleteObjectStep,
       LoadWeakStep, ReleaseWeakStep, LoadStrongStep, DeleteBlockStep, LockStep, RaiseStep
       DEF Pointer!AtomicNext
  <1>3. QED  BY <1>1, <1>2

LEMMA PointersAreSafe == PointerInv => Pointer!SharedIsAlive /\ Pointer!CountsArePointers
  <1> SUFFICES ASSUME PointerInv
               PROVE  Pointer!SharedIsAlive /\ Pointer!CountsArePointers
    OBVIOUS
  <1>1. /\ PointerTypes
        /\ \A b \in Blocks \ revived : WhileHeld(b)
        /\ \A b \in Blocks \ (revived \cup overlap) : WhenGone(b)
    BY DEF PointerInv
  <1>2. ASSUME NEW b \in Blocks
        PROVE  /\ strong_count[b] = Holding(shared, b) /\ weak_count[b] = Holding(weak, b)
               /\ strong_count[b] \in Nat /\ weak_count[b] \in Nat
    BY HoldingSome DEF PointerInv, CountsAreExact
  <1>3. Pointer!SharedIsAlive
    <2>1. ASSUME NEW t \in ThreeThreads, shared[t] # Null, shared[t] \notin revived
          PROVE  deletes[shared[t]] = 0
      <3>1. shared[t] \in Blocks
        BY <1>1, <2>1 DEF PointerTypes
      <3>2. strong_count[shared[t]] # 0
        BY <1>2, <3>1, HoldingSome
      <3>3. strong_count[shared[t]] > 0
        BY <1>2, <3>1, <3>2
      <3>4. QED  BY <1>1, <2>1, <3>1, <3>3 DEF WhileHeld
    <2>2. QED  BY <2>1 DEF Pointer!SharedIsAlive
  <1>4. ASSUME NEW b \in Blocks \ (revived \cup overlap)
        PROVE  /\ strong_count[b] = Pointer!Cardinality({t \in ThreeThreads : shared[t] = b})
               /\ weak_count[b] = Pointer!Cardinality({t \in ThreeThreads : weak[t] = b})
               /\ block[b] # "free" /\ ~(\E t \in ThreeThreads : ctrl[t] = b /\ pc[t] \in Pointer!Cleaning) =>
                      /\ (block[b] = "deleted" <=> strong_count[b] + weak_count[b] = 0)
                      /\ (deletes[b] > 0 <=> strong_count[b] = 0)
    <2>1. /\ strong_count[b] = Pointer!Cardinality({t \in ThreeThreads : shared[t] = b})
          /\ weak_count[b] = Pointer!Cardinality({t \in ThreeThreads : weak[t] = b})
      BY <1>2, PointerCardinality DEF Holding
    <2>2. strong_count[b] \in Nat /\ weak_count[b] \in Nat
      BY <1>2
    <2>3. ASSUME block[b] # "free",
                 ~(\E t \in ThreeThreads : ctrl[t] = b /\ pc[t] \in Pointer!Cleaning)
          PROVE  /\ (block[b] = "deleted" <=> strong_count[b] + weak_count[b] = 0)
                 /\ (deletes[b] > 0 <=> strong_count[b] = 0)
      <3>1. Cleaners(b) = {} /\ Deleters(b) = {}
        BY <2>3 DEF Cleaners, Deleters
      <3>2. block[b] \in {"live", "deleted"}
        BY <1>1, <2>3 DEF PointerTypes
      <3>3. /\ block[b] = "deleted" => strong_count[b] = 0 /\ weak_count[b] = 0
            /\ deletes[b] = IF strong_count[b] > 0 THEN 0
                            ELSE 1 + (IF block[b] = "deleted" THEN 1 ELSE 0)
            /\ ~(block[b] = "live" /\ strong_count[b] = 0 /\ weak_count[b] = 0)
        BY <1>1, <2>3, <3>1 DEF WhenGone
      <3>4. QED  BY ONLY <2>2, <3>2, <3>3
    <2>4. QED  BY <2>1, <2>3
  <1>5. Pointer!CountsArePointers
    BY <1>4 DEF Pointer!CountsArePointers
  <1>6. QED  BY <1>3, <1>5

(***************************************************************************)
(* SharedPtr and UniquePtr of one thread.                                  *)
(***************************************************************************)

HoldersOf(b) == {p \in SmartPtrs : ptr[p] = b}

SingleTypes ==
    /\ skind \in {"shared", "unique"}
    /\ ptr \in [SmartPtrs -> Objects \cup {Null, "dead"}]
    /\ count \in [Objects -> Int] /\ overwritten \in [Objects -> Nat]
    /\ deleted \subseteq Objects /\ raw \subseteq Objects

\* A deleted object has no holder, one in the caller's hands none yet.
OneOwner ==
    \A b \in Objects :
        /\ b \in deleted => HoldersOf(b) = {} /\ b \notin raw
        /\ b \in raw => HoldersOf(b) = {} /\ overwritten[b] = 0
        /\ skind = "unique" => overwritten[b] = 0 /\ count[b] = 0
        /\ skind = "unique" => \A p, q \in HoldersOf(b) : p = q

CountsHolders ==
    skind = "shared" =>
        \A b \in Objects : count[b] = Cardinality(HoldersOf(b)) + overwritten[b]

SingleInv == SingleTypes /\ OneOwner /\ CountsHolders

LEMMA HoldersSome ==
    ASSUME NEW b
    PROVE  /\ IsFiniteSet(HoldersOf(b)) /\ Cardinality(HoldersOf(b)) \in Nat
           /\ Cardinality(HoldersOf(b)) = 0 <=> HoldersOf(b) = {}
  <1>1. IsFiniteSet(HoldersOf(b))
    BY PointerCardinality, FS_Subset DEF HoldersOf
  <1>2. QED  BY <1>1, FS_CardinalityType, FS_EmptySet

LEMMA HoldersChange ==
    ASSUME NEW p \in SmartPtrs, NEW b, \A q \in SmartPtrs \ {p} : ptr'[q] = ptr[q]
    PROVE  Cardinality(HoldersOf(b)')
               = Cardinality(HoldersOf(b)) - (IF ptr[p] = b THEN 1 ELSE 0)
                                           + (IF ptr'[p] = b THEN 1 ELSE 0)
  <1> DEFINE Old == HoldersOf(b)
             Rest == Old \ {p}
             New == {q \in SmartPtrs : ptr'[q] = b}
  <1>1. IsFiniteSet(Old) /\ Cardinality(Old) \in Nat /\ (p \in Old <=> ptr[p] = b)
    BY HoldersSome DEF HoldersOf
  <1>2. New = IF ptr'[p] = b THEN Rest \cup {p} ELSE Rest
    BY DEF HoldersOf
  <1>3. HoldersOf(b)' = New
    BY DEF HoldersOf
  <1> HIDE DEF Old, New
  <1>4. /\ IsFiniteSet(Rest)
        /\ Cardinality(Rest) = IF p \in Old THEN Cardinality(Old) - 1 ELSE Cardinality(Old)
    BY <1>1, FS_RemoveElement
  <1>5. p \notin Rest
    OBVIOUS
  <1> HIDE DEF Rest
  <1>6. Cardinality(Rest \cup {p}) = Cardinality(Rest) + 1
    BY <1>4, <1>5, FS_AddElement
  <1>7. Cardinality(HoldersOf(b)) = Cardinality(Old)
    BY DEF Old
  <1>8. Cardinality(Rest) \in Nat
    BY <1>4, FS_CardinalityType
  <1>9. QED  BY <1>1, <1>2, <1>3, <1>4, <1>6, <1>7, <1>8

LEMMA SingleFacts ==
    ASSUME SingleInv
    PROVE  /\ SingleTypes /\ OneOwner /\ CountsHolders
           /\ "dead" \notin Objects /\ Null \notin Objects /\ Null # "dead"
           /\ \A b \in Objects :
                 /\ count[b] \in Int /\ overwritten[b] \in Nat
                 /\ Cardinality(HoldersOf(b)) \in Nat
                 /\ Cardinality(HoldersOf(b)) = 0 <=> HoldersOf(b) = {}
           /\ \A p \in SmartPtrs : ptr[p] \in Objects =>
                 ptr[p] \notin deleted /\ ptr[p] \notin raw
  <1>1. SingleTypes /\ OneOwner /\ CountsHolders
    BY DEF SingleInv
  <1>2. \A b \in Objects : count[b] \in Int /\ overwritten[b] \in Nat
    BY <1>1 DEF SingleTypes
  <1>3. \A p \in SmartPtrs : ptr[p] \in Objects => ptr[p] \notin deleted /\ ptr[p] \notin raw
    BY <1>1 DEF OneOwner, HoldersOf
  <1>4. QED  BY <1>1, <1>2, <1>3, HoldersSome, PointerCardinality

LEMMA SingleInit == StudiesInit => SingleInv
  <1> SUFFICES ASSUME StudiesInit
               PROVE  SingleInv
    OBVIOUS
  <1>1. /\ skind \in {"shared", "unique"} /\ ptr = [p \in SmartPtrs |-> "dead"]
        /\ count = [b \in Objects |-> 0] /\ deleted = {} /\ raw = {}
        /\ overwritten = [b \in Objects |-> 0]
    BY DEF StudiesInit, Pointer!SingleInit
  <1>2. ASSUME NEW b \in Objects
        PROVE  HoldersOf(b) = {} /\ Cardinality(HoldersOf(b)) = 0
    <2>1. HoldersOf(b) = {}
      BY <1>1, PointerCardinality DEF HoldersOf
    <2>2. QED  BY <2>1, HoldersSome
  <1>3. SingleTypes
    BY <1>1 DEF SingleTypes
  <1>4. OneOwner
    BY <1>1, <1>2 DEF OneOwner
  <1>5. CountsHolders
    BY <1>1, <1>2 DEF CountsHolders
  <1>6. QED  BY <1>3, <1>4, <1>5 DEF SingleInv

\* One SharedPtr lets go of what it held and takes something else.
LEMMA OneSharedPtr ==
    ASSUME SingleInv, skind = "shared", skind' = skind, SingleTypes',
           NEW p \in SmartPtrs, \A q \in SmartPtrs \ {p} : ptr'[q] = ptr[q],
           \A b \in Objects :
               count'[b] - overwritten'[b] = count[b] - overwritten[b]
                   - (IF ptr[p] = b THEN 1 ELSE 0) + (IF ptr'[p] = b THEN 1 ELSE 0),
           \A b \in Objects : b \in deleted' => HoldersOf(b)' = {} /\ b \notin raw',
           \A b \in Objects : b \in raw' => HoldersOf(b)' = {} /\ overwritten'[b] = 0
    PROVE  SingleInv'
  <1>1. OneOwner'
    BY DEF OneOwner
  <1>2. ASSUME NEW b \in Objects
        PROVE  count'[b] = Cardinality(HoldersOf(b)') + overwritten'[b]
    <2>1. Cardinality(HoldersOf(b)')
              = Cardinality(HoldersOf(b)) - (IF ptr[p] = b THEN 1 ELSE 0)
                                          + (IF ptr'[p] = b THEN 1 ELSE 0)
      BY HoldersChange
    <2>2. /\ count[b] = Cardinality(HoldersOf(b)) + overwritten[b]
          /\ count[b] \in Int /\ overwritten[b] \in Nat /\ Cardinality(HoldersOf(b)) \in Nat
      BY SingleFacts DEF CountsHolders
    <2>3. count'[b] \in Int /\ overwritten'[b] \in Nat
      BY DEF SingleTypes
    <2>4. QED  BY <2>1, <2>2, <2>3
  <1>3. CountsHolders'
    BY <1>2 DEF CountsHolders
  <1>4. QED  BY <1>1, <1>3 DEF SingleInv

LEMMA HoldersNow ==
    ASSUME NEW p \in SmartPtrs, NEW b, \A q \in SmartPtrs \ {p} : ptr'[q] = ptr[q]
    PROVE  HoldersOf(b)' = (HoldersOf(b) \ {p}) \cup {q \in {p} : ptr'[p] = b}
  BY DEF HoldersOf

LEMMA SharedSteps ==
    ASSUME SingleInv, NEW p \in SmartPtrs,
           \/ Pointer!SharedDefault(p)
           \/ Pointer!SharedDestroy(p)
           \/ \E b \in raw \ {Null} : Pointer!SharedConstruct(p, b)
           \/ \E other \in SmartPtrs : \/ Pointer!SharedCopy(p, other)
                                       \/ Pointer!SharedAssign(p, other)
    PROVE  SingleInv'
  <1>1. /\ SingleTypes /\ OneOwner /\ CountsHolders
        /\ "dead" \notin Objects /\ Null \notin Objects /\ Null # "dead"
        /\ \A b \in Objects :
              /\ count[b] \in Int /\ overwritten[b] \in Nat
              /\ Cardinality(HoldersOf(b)) \in Nat
              /\ Cardinality(HoldersOf(b)) = 0 <=> HoldersOf(b) = {}
        /\ \A q \in SmartPtrs : ptr[q] \in Objects =>
              ptr[q] \notin deleted /\ ptr[q] \notin raw
    BY SingleFacts
  <1>2. /\ ptr \in [SmartPtrs -> Objects \cup {Null, "dead"}]
        /\ count \in [Objects -> Int] /\ overwritten \in [Objects -> Nat]
        /\ deleted \subseteq Objects /\ raw \subseteq Objects
    BY <1>1 DEF SingleTypes
  <1>3. skind = "shared" /\ skind' = skind
    BY DEF Pointer!SharedDefault, Pointer!SharedDestroy, Pointer!SharedConstruct,
       Pointer!SharedCopy, Pointer!SharedAssign
  <1>4. \A b \in Objects :
            /\ b \in deleted => HoldersOf(b) = {} /\ b \notin raw
            /\ b \in raw => HoldersOf(b) = {} /\ overwritten[b] = 0
    BY <1>1 DEF OneOwner
  <1>5. ASSUME NEW v \in Objects \cup {Null, "dead"}, ptr' = [ptr EXCEPT ![p] = v],
               count' \in [Objects -> Int], overwritten' \in [Objects -> Nat],
               deleted' \subseteq Objects, raw' \subseteq raw, v \notin deleted, v \notin raw',
               \A b \in Objects :
                   count'[b] - overwritten'[b] = count[b] - overwritten[b]
                       - (IF ptr[p] = b THEN 1 ELSE 0) + (IF v = b THEN 1 ELSE 0),
               \A b \in deleted' \ deleted : HoldersOf(b)' = {} /\ b \notin raw',
               \A b \in raw' : overwritten'[b] = overwritten[b]
        PROVE  SingleInv'
    <2>1. ptr'[p] = v /\ \A q \in SmartPtrs \ {p} : ptr'[q] = ptr[q]
      BY <1>2, <1>5
    <2>2. SingleTypes'
      BY <1>2, <1>3, <1>5 DEF SingleTypes
    <2>3. \A b : HoldersOf(b)' = (HoldersOf(b) \ {p}) \cup {q \in {p} : v = b}
      BY <2>1, HoldersNow
    <2>4. \A b \in Objects : b \in deleted' => HoldersOf(b)' = {} /\ b \notin raw'
      BY <1>4, <1>5, <2>3
    <2>5. \A b \in Objects : b \in raw' => HoldersOf(b)' = {} /\ overwritten'[b] = 0
      BY <1>4, <1>5, <2>3
    <2>6. QED  BY <1>3, <1>5, <2>1, <2>2, <2>4, <2>5, OneSharedPtr
  <1>6. CASE Pointer!SharedDefault(p)
    <2>1. /\ ptr[p] = "dead" /\ ptr' = [ptr EXCEPT ![p] = Null]
          /\ count' = count /\ deleted' = deleted /\ raw' = raw /\ overwritten' = overwritten
      BY <1>6 DEF Pointer!SharedDefault, Pointer!Alive
    <2>2. \A b \in Objects :
              count'[b] - overwritten'[b] = count[b] - overwritten[b]
                  - (IF ptr[p] = b THEN 1 ELSE 0) + (IF Null = b THEN 1 ELSE 0)
      BY <1>1, <2>1
    <2>3. Null \notin deleted /\ Null \notin raw'
      BY <1>1, <1>2, <2>1
    <2>4. QED  BY <1>2, <1>5, <2>1, <2>2, <2>3
  <1>7. CASE Pointer!SharedDestroy(p)
    <2>1. /\ ptr[p] # "dead" /\ ptr' = [ptr EXCEPT ![p] = "dead"]
          /\ raw' = raw /\ overwritten' = overwritten
      BY <1>7 DEF Pointer!SharedDestroy, Pointer!Alive
    <2>2. CASE ptr[p] = Null
      <3>1. count' = count /\ deleted' = deleted
        BY <1>7, <2>2 DEF Pointer!SharedDestroy
      <3>2. \A b \in Objects :
                count'[b] - overwritten'[b] = count[b] - overwritten[b]
                    - (IF ptr[p] = b THEN 1 ELSE 0) + (IF "dead" = b THEN 1 ELSE 0)
        BY <1>1, <2>1, <2>2, <3>1
      <3>3. "dead" \notin deleted /\ "dead" \notin raw'
        BY <1>1, <1>2, <2>1
      <3>4. QED  BY <1>2, <1>5, <2>1, <3>1, <3>2, <3>3
    <2>3. CASE ptr[p] # Null
      <3>1. PICK c : c = ptr[p]
        OBVIOUS
      <3>2. /\ count' = [count EXCEPT ![c] = count[c] - 1]
            /\ deleted' = IF count[c] = 1 THEN deleted \cup {c} ELSE deleted
        BY <1>7, <2>3, <3>1 DEF Pointer!SharedDestroy
      <3>3. c \in Objects /\ c \notin raw /\ count[c] \in Int
        BY <1>1, <1>2, <2>1, <2>3, <3>1
      <3>4. /\ count' \in [Objects -> Int] /\ count'[c] = count[c] - 1
            /\ \A b \in Objects \ {c} : count'[b] = count[b]
        BY <1>2, <3>2, <3>3
      <3>5. ASSUME count[c] = 1
            PROVE  HoldersOf(c)' = {}
        <4>1. count[c] = Cardinality(HoldersOf(c)) + overwritten[c]
          BY <1>1, <1>3, <3>3 DEF CountsHolders
        <4>2. p \in HoldersOf(c)
          BY <3>1 DEF HoldersOf
        <4>3. Cardinality(HoldersOf(c)) = 1
          BY <1>1, <3>3, <3>5, <4>1, <4>2
        <4>4. PICK x : HoldersOf(c) = {x}
          BY <4>3, HoldersSome, FS_Singleton
        <4>5. ptr'[p] # c /\ \A q \in SmartPtrs \ {p} : ptr'[q] = ptr[q]
          BY <1>1, <1>2, <2>1, <3>3
        <4>6. QED  BY <4>2, <4>4, <4>5, HoldersNow
      <3>6. \A b \in Objects :
                count'[b] - overwritten'[b] = count[b] - overwritten[b]
                    - (IF ptr[p] = b THEN 1 ELSE 0) + (IF "dead" = b THEN 1 ELSE 0)
        BY <1>1, <2>1, <3>1, <3>3, <3>4
      <3>7. "dead" \notin deleted /\ "dead" \notin raw'
        BY <1>1, <1>2, <2>1
      <3>8. \A b \in deleted' \ deleted : HoldersOf(b)' = {} /\ b \notin raw'
        BY <2>1, <3>2, <3>3, <3>5
      <3>9. deleted' \subseteq Objects
        BY <1>2, <3>2, <3>3
      <3>10. QED  BY <1>2, <1>5, <2>1, <3>4, <3>6, <3>7, <3>8, <3>9
    <2>4. QED  BY <2>2, <2>3
  <1>8. ASSUME NEW c \in raw \ {Null}, Pointer!SharedConstruct(p, c)
        PROVE  SingleInv'
    <2>1. /\ ptr[p] = "dead" /\ ptr' = [ptr EXCEPT ![p] = c]
          /\ count' = [count EXCEPT ![c] = 1] /\ raw' = raw \ {c}
          /\ deleted' = deleted /\ overwritten' = overwritten
      BY <1>8 DEF Pointer!SharedConstruct, Pointer!Alive
    <2>2. c \in Objects /\ c \in raw
      BY <1>2, <1>8
    <2>3. count[c] = 0 /\ overwritten[c] = 0 /\ c \notin deleted
      <3>1. HoldersOf(c) = {} /\ overwritten[c] = 0
        BY <1>4, <2>2
      <3>2. count[c] = Cardinality(HoldersOf(c)) + overwritten[c]
        BY <1>1, <1>3, <2>2 DEF CountsHolders
      <3>3. Cardinality(HoldersOf(c)) = 0
        BY <1>1, <2>2, <3>1
      <3>4. QED  BY <1>4, <2>2, <3>1, <3>2, <3>3
    <2>4. /\ count' \in [Objects -> Int] /\ count'[c] = 1
          /\ \A b \in Objects \ {c} : count'[b] = count[b]
      BY <1>2, <2>1, <2>2
    <2>5. \A b \in Objects :
              count'[b] - overwritten'[b] = count[b] - overwritten[b]
                  - (IF ptr[p] = b THEN 1 ELSE 0) + (IF c = b THEN 1 ELSE 0)
      BY <1>1, <2>1, <2>3, <2>4
    <2>6. QED  BY <1>2, <1>5, <2>1, <2>2, <2>3, <2>4, <2>5
  <1>9. ASSUME NEW other \in SmartPtrs,
               Pointer!SharedCopy(p, other) \/ Pointer!SharedAssign(p, other)
        PROVE  SingleInv'
    <2>1. PICK v, o : v = ptr[other] /\ o = ptr[p]
      OBVIOUS
    <2>2. /\ v # "dead" /\ ptr' = [ptr EXCEPT ![p] = v]
          /\ count' = IF v = Null THEN count ELSE [count EXCEPT ![v] = count[v] + 1]
          /\ deleted' = deleted /\ raw' = raw
          /\ \/ o = "dead" /\ overwritten' = overwritten
             \/ /\ o # "dead"
                /\ overwritten' = IF o = Null THEN overwritten
                                  ELSE [overwritten EXCEPT ![o] = overwritten[o] + 1]
      BY <1>9, <2>1 DEF Pointer!SharedCopy, Pointer!SharedAssign, Pointer!Alive,
         Pointer!Counted
    <2>3. /\ v \in Objects \cup {Null} /\ v \notin deleted /\ v \notin raw
          /\ o \in Objects \cup {Null, "dead"} /\ o \notin raw
      BY <1>1, <1>2, <2>1, <2>2
    <2>4. /\ count' \in [Objects -> Int]
          /\ \A b \in Objects : count'[b] = IF b = v THEN count[b] + 1 ELSE count[b]
      BY <1>1, <1>2, <2>2, <2>3
    <2>5. /\ overwritten' \in [Objects -> Nat]
          /\ \A b \in Objects :
                overwritten'[b] = IF b = o THEN overwritten[b] + 1 ELSE overwritten[b]
      BY <1>1, <1>2, <2>2, <2>3
    <2>6. \A b \in Objects :
              count'[b] - overwritten'[b] = count[b] - overwritten[b]
                  - (IF ptr[p] = b THEN 1 ELSE 0) + (IF v = b THEN 1 ELSE 0)
      BY <1>1, <2>1, <2>4, <2>5
    <2>7. \A b \in raw' : overwritten'[b] = overwritten[b]
      BY <1>2, <2>2, <2>3, <2>5
    <2>8. QED  BY <1>2, <1>5, <2>2, <2>3, <2>4, <2>5, <2>6, <2>7
  <1>10. QED  BY <1>6, <1>7, <1>8, <1>9

LEMMA NewStep ==
    ASSUME SingleInv, NEW b \in Objects, Pointer!New(b)
    PROVE  SingleInv'
  <1>1. /\ b \notin deleted /\ count[b] = 0 /\ Pointer!Holders(b) = {}
        /\ raw' = raw \cup {b}
        /\ skind' = skind /\ ptr' = ptr /\ count' = count /\ deleted' = deleted
        /\ overwritten' = overwritten
    BY DEF Pointer!New
  <1>2. /\ SingleTypes /\ OneOwner /\ CountsHolders
        /\ HoldersOf(b) = {} /\ \A c : HoldersOf(c)' = HoldersOf(c)
    BY <1>1, SingleFacts DEF HoldersOf, Pointer!Holders
  <1>3. overwritten[b] = 0
    <2>1. CASE skind = "unique"
      BY <1>2, <2>1 DEF OneOwner
    <2>2. CASE skind = "shared"
      <3>1. /\ count[b] = Cardinality(HoldersOf(b)) + overwritten[b]
            /\ Cardinality(HoldersOf(b)) = 0 /\ overwritten[b] \in Nat
        BY <1>2, <2>2, SingleFacts DEF CountsHolders
      <3>2. QED  BY <1>1, <3>1
    <2>3. QED  BY <1>2, <2>1, <2>2 DEF SingleTypes
  <1>4. SingleTypes'
    BY <1>1, <1>2 DEF SingleTypes
  <1>5. OneOwner'
    BY <1>1, <1>2, <1>3 DEF OneOwner
  <1>6. CountsHolders'
    BY <1>1, <1>2 DEF CountsHolders
  <1>7. QED  BY <1>4, <1>5, <1>6 DEF SingleInv

\* The holders of an object of UniquePtrs, one by one.
UniqueOwner ==
    \A b \in Objects :
        /\ b \in deleted \/ b \in raw => \A p \in SmartPtrs : ptr[p] # b
        /\ b \in deleted => b \notin raw
        /\ \A p, q \in SmartPtrs : ptr[p] = b /\ ptr[q] = b => p = q

LEMMA UniqueOwnerIsOne ==
    ASSUME skind = "unique", \A b \in Objects : overwritten[b] = 0 /\ count[b] = 0
    PROVE  OneOwner <=> UniqueOwner
  BY DEF OneOwner, UniqueOwner, HoldersOf

LEMMA UniqueSteps ==
    ASSUME SingleInv, NEW p \in SmartPtrs,
           \/ Pointer!UniqueRelease(p)
           \/ Pointer!UniqueDestroy(p)
           \/ \E b \in raw \cup {Null} : \/ Pointer!UniqueConstruct(p, b)
                                         \/ Pointer!UniqueReset(p, b)
           \/ \E other \in SmartPtrs : \/ Pointer!UniqueMove(p, other)
                                       \/ Pointer!UniqueAssign(p, other)
    PROVE  SingleInv'
  <1>1. /\ SingleTypes /\ OneOwner
        /\ "dead" \notin Objects /\ Null \notin Objects /\ Null # "dead"
    BY SingleFacts
  <1>2. /\ ptr \in [SmartPtrs -> Objects \cup {Null, "dead"}]
        /\ deleted \subseteq Objects /\ raw \subseteq Objects
    BY <1>1 DEF SingleTypes
  <1>3. /\ skind = "unique" /\ skind' = skind
        /\ count' = count /\ overwritten' = overwritten
    BY DEF Pointer!UniqueRelease, Pointer!UniqueDestroy, Pointer!UniqueConstruct,
       Pointer!UniqueReset, Pointer!UniqueMove, Pointer!UniqueAssign
  <1>4. /\ \A b \in Objects : overwritten[b] = 0 /\ count[b] = 0
        /\ \A b \in Objects : overwritten'[b] = 0 /\ count'[b] = 0
    BY <1>1, <1>3 DEF OneOwner
  <1>5. UniqueOwner
    BY <1>1, <1>3, <1>4, UniqueOwnerIsOne
  <1>6. ASSUME ptr' \in [SmartPtrs -> Objects \cup {Null, "dead"}],
               deleted' \subseteq Objects, raw' \subseteq Objects, UniqueOwner'
        PROVE  SingleInv'
    <2>1. SingleTypes'
      BY <1>1, <1>3, <1>6 DEF SingleTypes
    <2>2. OneOwner'
      BY <1>3, <1>4, <1>6 DEF OneOwner, UniqueOwner, HoldersOf
    <2>3. CountsHolders'
      BY <1>3 DEF CountsHolders
    <2>4. QED  BY <2>1, <2>2, <2>3 DEF SingleInv
  <1>7. CASE Pointer!UniqueRelease(p)
    <2>1. /\ raw' = raw \cup ({ptr[p]} \ {Null}) /\ ptr[p] # "dead"
          /\ ptr' = [ptr EXCEPT ![p] = Null] /\ deleted' = deleted
      BY <1>7 DEF Pointer!UniqueRelease, Pointer!Alive
    <2>2. /\ ptr' \in [SmartPtrs -> Objects \cup {Null, "dead"}] /\ raw' \subseteq Objects
          /\ ptr'[p] = Null /\ \A q \in SmartPtrs \ {p} : ptr'[q] = ptr[q]
      BY <1>2, <2>1
    <2>3. UniqueOwner'
      BY <1>1, <1>2, <1>5, <2>1, <2>2 DEF UniqueOwner
    <2>4. QED  BY <1>2, <1>6, <2>1, <2>2, <2>3
  <1>8. ASSUME NEW v \in Objects \cup {Null, "dead"},
               ptr' = [ptr EXCEPT ![p] = v], raw' = raw \ {v},
               v \in Objects => v \in raw,
               \/ deleted' = deleted
               \/ deleted' = deleted \cup {ptr[p]} /\ ptr[p] \in Objects
        PROVE  SingleInv'
    <2>1. /\ ptr' \in [SmartPtrs -> Objects \cup {Null, "dead"}] /\ raw' \subseteq Objects
          /\ ptr'[p] = v /\ \A q \in SmartPtrs \ {p} : ptr'[q] = ptr[q]
          /\ deleted' \subseteq Objects
      BY <1>2, <1>8
    <2>2. UniqueOwner'
      BY <1>1, <1>2, <1>5, <1>8, <2>1 DEF UniqueOwner
    <2>3. QED  BY <1>6, <2>1, <2>2
  <1>9. ASSUME ptr[p] # "dead",
                deleted' = IF ptr[p] = Null THEN deleted ELSE deleted \cup {ptr[p]}
         PROVE  \/ deleted' = deleted
                \/ deleted' = deleted \cup {ptr[p]} /\ ptr[p] \in Objects
    <2>1. ptr[p] \in Objects \cup {Null, "dead"}
      BY <1>2
    <2>2. CASE ptr[p] = Null
      BY <1>9, <2>2
    <2>3. CASE ptr[p] # Null
      <3>1. ptr[p] \in Objects
        BY <1>9, <2>1, <2>3
      <3>2. QED  BY <1>9, <2>3, <3>1
    <2>4. QED  BY <2>2, <2>3
  <1>10. CASE Pointer!UniqueDestroy(p)
    <2>1. /\ ptr[p] # "dead" /\ ptr' = [ptr EXCEPT ![p] = "dead"] /\ raw' = raw
          /\ deleted' = IF ptr[p] = Null THEN deleted ELSE deleted \cup {ptr[p]}
      BY <1>10 DEF Pointer!UniqueDestroy, Pointer!Alive, Pointer!WithDeleted
    <2>2. raw' = raw \ {"dead"} /\ "dead" \in Objects \cup {Null, "dead"}
      BY <1>1, <1>2, <2>1
    <2>3. \/ deleted' = deleted
          \/ deleted' = deleted \cup {ptr[p]} /\ ptr[p] \in Objects
      BY <1>9, <2>1
    <2>4. QED  BY <1>1, <1>8, <2>1, <2>2, <2>3
  <1>11. ASSUME NEW b \in raw \cup {Null},
                Pointer!UniqueConstruct(p, b) \/ Pointer!UniqueReset(p, b)
         PROVE  SingleInv'
    <2>1. /\ ptr' = [ptr EXCEPT ![p] = b] /\ raw' = raw \ {b}
          /\ \/ deleted' = deleted
             \/ /\ ptr[p] # "dead"
                /\ deleted' = IF ptr[p] = Null THEN deleted ELSE deleted \cup {ptr[p]}
      BY <1>11 DEF Pointer!UniqueConstruct, Pointer!UniqueReset, Pointer!Alive,
         Pointer!WithDeleted
    <2>2. \/ deleted' = deleted
          \/ deleted' = deleted \cup {ptr[p]} /\ ptr[p] \in Objects
      BY <1>9, <2>1
    <2>3. b \in Objects \cup {Null, "dead"} /\ (b \in Objects => b \in raw)
      BY <1>1, <1>2
    <2>4. QED  BY <1>8, <2>1, <2>2, <2>3
  <1>12. ASSUME NEW other \in SmartPtrs,
                Pointer!UniqueMove(p, other) \/ Pointer!UniqueAssign(p, other)
         PROVE  SingleInv'
    <2>1. /\ ptr' = [ptr EXCEPT ![p] = ptr[other], ![other] = Null] /\ raw' = raw
          /\ ptr[other] # "dead" /\ p # other
          /\ \/ ptr[p] = "dead" /\ deleted' = deleted
             \/ /\ ptr[p] # "dead"
                /\ deleted' = IF ptr[p] = Null THEN deleted ELSE deleted \cup {ptr[p]}
      BY <1>12 DEF Pointer!UniqueMove, Pointer!UniqueAssign, Pointer!Alive,
         Pointer!WithDeleted
    <2>2. /\ ptr' \in [SmartPtrs -> Objects \cup {Null, "dead"}]
          /\ ptr'[p] = ptr[other] /\ ptr'[other] = Null
          /\ \A q \in SmartPtrs \ {p, other} : ptr'[q] = ptr[q]
          /\ deleted' \subseteq Objects /\ raw' \subseteq Objects
      BY <1>2, <2>1
    <2>3. UniqueOwner'
      BY <1>1, <1>2, <1>5, <2>1, <2>2 DEF UniqueOwner
    <2>4. QED  BY <1>6, <2>2, <2>3
  <1>13. QED  BY <1>7, <1>10, <1>11, <1>12

LEMMA SingleStep == SingleInv /\ [Pointer!SingleNext]_smartVars => SingleInv'
  <1> SUFFICES ASSUME SingleInv, [Pointer!SingleNext]_smartVars
               PROVE  SingleInv'
    OBVIOUS
  <1>1. CASE UNCHANGED smartVars
    BY <1>1 DEF smartVars, SingleInv, SingleTypes, OneOwner, CountsHolders, HoldersOf
  <1>2. CASE Pointer!SingleNext
    BY <1>2, NewStep, SharedSteps, UniqueSteps DEF Pointer!SingleNext, Pointer!Given
  <1>3. QED  BY <1>1, <1>2

LEMMA SingleIsSafe == SingleInv => Pointer!HeldIsAlive /\ Pointer!CountsAreHolders
  <1> SUFFICES ASSUME SingleInv
               PROVE  Pointer!HeldIsAlive /\ Pointer!CountsAreHolders
    OBVIOUS
  <1>1. /\ SingleTypes /\ OneOwner /\ CountsHolders
        /\ \A b \in Objects :
              /\ count[b] \in Int /\ overwritten[b] \in Nat
              /\ Cardinality(HoldersOf(b)) \in Nat
              /\ Cardinality(HoldersOf(b)) = 0 <=> HoldersOf(b) = {}
    BY SingleFacts
  <1>2. \A b : Pointer!Holders(b) = HoldersOf(b)
    BY DEF Pointer!Holders, HoldersOf
  <1>3. ASSUME NEW b \in Objects, skind = "unique"
        PROVE  Cardinality(HoldersOf(b)) + Cardinality(raw \cap {b}) <= 1
    <2>1. CASE b \in raw
      <3>1. raw \cap {b} = {b} /\ HoldersOf(b) = {}
        BY <1>1, <2>1 DEF OneOwner
      <3>2. Cardinality({b}) = 1
        BY FS_Singleton
      <3>3. Cardinality({}) = 0
        BY FS_EmptySet
      <3>4. Cardinality(HoldersOf(b)) = 0 /\ Cardinality(raw \cap {b}) = 1
        BY <3>1, <3>2, <3>3
      <3>5. QED  BY <3>4
    <2>2. CASE b \notin raw
      <3>1. raw \cap {b} = {} /\ Cardinality({}) = 0
        BY <2>2, FS_EmptySet
      <3>2. Cardinality(raw \cap {b}) = 0
        BY <3>1
      <3>3. CASE HoldersOf(b) = {}
        <4>1. Cardinality(HoldersOf(b)) = 0
          BY <3>1, <3>3
        <4>2. QED  BY <3>2, <4>1
      <3>4. CASE HoldersOf(b) # {}
        <4>1. PICK p : p \in HoldersOf(b)
          BY <3>4
        <4>2. \A q \in HoldersOf(b) : q = p
          BY <1>1, <1>3, <4>1 DEF OneOwner
        <4>3. HoldersOf(b) = {p}
          BY <4>1, <4>2
        <4>4. Cardinality({p}) = 1
          BY FS_Singleton
        <4>5. Cardinality(HoldersOf(b)) = 1
          BY <4>3, <4>4
        <4>6. QED  BY <3>2, <4>5
      <3>5. QED  BY <3>3, <3>4
    <2>3. QED  BY <2>1, <2>2
  <1>4. Pointer!HeldIsAlive
    BY <1>1, <1>2, <1>3, PointerCardinality DEF Pointer!HeldIsAlive, OneOwner
  <1>5. Pointer!CountsAreHolders
    BY <1>1, <1>2, PointerCardinality DEF Pointer!CountsAreHolders, CountsHolders
  <1>6. QED  BY <1>4, <1>5

-------------------------------------------------------------------------------

(* The tracked memory of trace.cpp.  A thread inside an operation has a pointer to
   itself; a tracked pointer without an entry is being entered, or its deletion is
   stuck. *)

HeldTypes ==
    /\ tpc \in [Threads -> {"idle", "add", "stuck", "remove", "free"}]
    /\ arg \in [Threads -> Pointers \cup {Nobody}]
    /\ allocations \subseteq tracked /\ tracked \subseteq memory

OnePointerEach ==
    \A t \in Threads :
        tpc[t] # "idle" =>
            /\ arg[t] \in memory
            /\ \A u \in Threads \ {t} : tpc[u] # "idle" => arg[u] # arg[t]

InTheMap ==
    /\ \A p \in tracked \ allocations :
          \E t \in Threads : arg[t] = p /\ tpc[t] \in {"add", "stuck"}
    /\ \A t \in Threads : /\ tpc[t] = "add" => arg[t] \in tracked
                          /\ tpc[t] = "free" => arg[t] \notin tracked

HeldInv == HeldTypes /\ OnePointerEach /\ InTheMap

LEMMA HeldInit == Held!MemoryInit => HeldInv
  BY DEF Held!MemoryInit, HeldInv, HeldTypes, OnePointerEach, InTheMap

LEMMA HeldNew ==
    ASSUME HeldInv, NEW t \in Threads, NEW p \in Pointers, NEW how \in {"add", "idle"},
           Held!New(t, p, how)
    PROVE  HeldInv'
  <1>1. HeldTypes /\ OnePointerEach /\ InTheMap
    BY DEF HeldInv
  <1>2. /\ tpc[t] = "idle" /\ p \notin memory /\ allocations' = allocations
        /\ memory' = memory \cup {p}
        /\ tracked' = IF how = "add" THEN tracked \cup {p} ELSE tracked
        /\ tpc' = [tpc EXCEPT ![t] = how] /\ arg' = [arg EXCEPT ![t] = p]
    BY DEF Held!New
  <1>3. /\ tpc'[t] = how /\ arg'[t] = p
        /\ \A u \in Threads \ {t} : tpc'[u] = tpc[u] /\ arg'[u] = arg[u]
    BY <1>1, <1>2 DEF HeldTypes
  <1>4. HeldTypes'
    BY <1>1, <1>2 DEF HeldTypes
  <1>5. OnePointerEach'
    BY <1>1, <1>2, <1>3 DEF OnePointerEach
  <1>6. InTheMap'
    <2>1. ASSUME NEW q \in tracked', q \notin allocations'
          PROVE  \E u \in Threads : arg'[u] = q /\ tpc'[u] \in {"add", "stuck"}
      <3>1. CASE q = p
        <4>1. how = "add"
          BY <1>1, <1>2, <2>1, <3>1 DEF HeldTypes
        <4>2. QED  BY <1>3, <3>1, <4>1
      <3>2. CASE q # p
        <4>1. q \in tracked \ allocations
          BY <1>2, <2>1, <3>2
        <4>2. PICK u \in Threads : arg[u] = q /\ tpc[u] \in {"add", "stuck"}
          BY <1>1, <4>1 DEF InTheMap
        <4>3. u # t
          BY <1>2, <4>2
        <4>4. QED  BY <1>3, <4>2, <4>3
      <3>3. QED  BY <3>1, <3>2
    <2>2. ASSUME NEW u \in Threads
          PROVE  /\ tpc'[u] = "add" => arg'[u] \in tracked'
                 /\ tpc'[u] = "free" => arg'[u] \notin tracked'
      <3>1. CASE u = t
        BY <1>2, <1>3, <3>1
      <3>2. CASE u # t
        <4>1. tpc[u] # "idle" => arg[u] # p
          BY <1>1, <1>2 DEF OnePointerEach
        <4>2. QED  BY <1>1, <1>2, <1>3, <3>2, <4>1 DEF InTheMap
      <3>3. QED  BY <3>1, <3>2
    <2>3. QED  BY <2>1, <2>2 DEF InTheMap
  <1>7. QED  BY <1>4, <1>5, <1>6 DEF HeldInv

LEMMA HeldProceed ==
    ASSUME HeldInv, NEW t \in Threads, Held!Proceed(t)
    PROVE  HeldInv'
  <1>1. HeldTypes /\ OnePointerEach /\ InTheMap
    BY DEF HeldInv
  <1>2. arg' = arg /\ tpc[t] # "idle"
    BY DEF Held!Proceed, Held!Add, Held!Remove, Held!Free
  <1>3. \A u \in Threads : tpc[u] # "idle" /\ arg[u] = arg[t] => u = t
    BY <1>1, <1>2 DEF OnePointerEach
  <1>4. CASE Held!Add(t)
    <2>1. /\ tpc[t] = "add" /\ memory' = memory /\ tracked' = tracked
          /\ allocations' = allocations \cup {arg[t]}
          /\ tpc' = [tpc EXCEPT ![t] = "stuck"] \/ tpc' = [tpc EXCEPT ![t] = "idle"]
      BY <1>4 DEF Held!Add
    <2>2. /\ tpc' \in [Threads -> {"idle", "add", "stuck", "remove", "free"}]
          /\ tpc'[t] \in {"stuck", "idle"} /\ \A u \in Threads \ {t} : tpc'[u] = tpc[u]
      BY <1>1, <2>1 DEF HeldTypes
    <2>3. HeldTypes'
      BY <1>1, <1>2, <2>1, <2>2 DEF HeldTypes, InTheMap
    <2>4. OnePointerEach'
      BY <1>1, <1>2, <2>1, <2>2 DEF OnePointerEach
    <2>5. InTheMap'
      BY <1>1, <1>2, <1>3, <2>1, <2>2 DEF InTheMap
    <2>6. QED  BY <2>3, <2>4, <2>5 DEF HeldInv
  <1>5. CASE Held!Remove(t)
    <2>1. /\ tpc[t] = "remove" /\ memory' = memory /\ tracked' = tracked
          /\ \/ /\ arg[t] \in allocations /\ allocations' = allocations \ {arg[t]}
                /\ tpc' = [tpc EXCEPT ![t] = "stuck"]
             \/ /\ arg[t] \notin allocations /\ allocations' = allocations
                /\ tpc' = [tpc EXCEPT ![t] = "free"]
      BY <1>5 DEF Held!Remove
    <2>2. /\ tpc' \in [Threads -> {"idle", "add", "stuck", "remove", "free"}]
          /\ tpc'[t] = IF arg[t] \in allocations THEN "stuck" ELSE "free"
          /\ \A u \in Threads \ {t} : tpc'[u] = tpc[u]
      BY <1>1, <2>1 DEF HeldTypes
    <2>3. HeldTypes'
      BY <1>1, <1>2, <2>1, <2>2 DEF HeldTypes
    <2>4. OnePointerEach'
      BY <1>1, <1>2, <2>1, <2>2 DEF OnePointerEach
    <2>5. arg[t] \notin allocations => arg[t] \notin tracked
      BY <1>1, <1>3, <2>1 DEF InTheMap
    <2>6. ASSUME NEW q \in tracked \ allocations'
          PROVE  \E u \in Threads : arg[u] = q /\ tpc'[u] \in {"add", "stuck"}
      <3>1. CASE q = arg[t]
        <4>1. arg[t] \in allocations
          BY <2>5, <2>6, <3>1
        <4>2. QED  BY <2>2, <3>1, <4>1
      <3>2. CASE q # arg[t]
        <4>1. q \in tracked \ allocations
          BY <2>1, <2>6, <3>2
        <4>2. PICK u \in Threads : arg[u] = q /\ tpc[u] \in {"add", "stuck"}
          BY <1>1, <4>1 DEF InTheMap
        <4>3. QED  BY <2>2, <3>2, <4>2
      <3>3. QED  BY <3>1, <3>2
    <2>7. InTheMap'
      BY <1>1, <1>2, <2>1, <2>2, <2>5, <2>6 DEF InTheMap
    <2>8. QED  BY <2>3, <2>4, <2>7 DEF HeldInv
  <1>6. CASE Held!Free(t)
    <2>1. /\ tpc[t] = "free" /\ allocations' = allocations
          /\ memory' = memory \ {arg[t]} /\ tracked' = tracked \ {arg[t]}
          /\ tpc' = [tpc EXCEPT ![t] = "idle"]
      BY <1>6 DEF Held!Free
    <2>2. /\ tpc' \in [Threads -> {"idle", "add", "stuck", "remove", "free"}]
          /\ tpc'[t] = "idle" /\ \A u \in Threads \ {t} : tpc'[u] = tpc[u]
      BY <1>1, <2>1 DEF HeldTypes
    <2>3. arg[t] \notin tracked /\ tracked' = tracked
      BY <1>1, <2>1 DEF InTheMap
    <2>4. HeldTypes'
      BY <1>1, <1>2, <2>1, <2>2, <2>3 DEF HeldTypes
    <2>5. OnePointerEach'
      BY <1>1, <1>2, <1>3, <2>1, <2>2 DEF OnePointerEach
    <2>6. InTheMap'
      BY <1>1, <1>2, <2>1, <2>2, <2>3 DEF InTheMap
    <2>7. QED  BY <2>4, <2>5, <2>6 DEF HeldInv
  <1>7. QED  BY <1>4, <1>5, <1>6 DEF Held!Proceed

LEMMA HeldDelete ==
    ASSUME HeldInv, NEW t \in Threads, NEW p \in Pointers, Held!Delete(t, p)
    PROVE  HeldInv'
  <1>1. HeldTypes /\ OnePointerEach /\ InTheMap
    BY DEF HeldInv
  <1>2. /\ tpc[t] = "idle" /\ p \in memory
        /\ \A u \in Threads : tpc[u] # "idle" => arg[u] # p
        /\ tpc' = [tpc EXCEPT ![t] = "remove"] /\ arg' = [arg EXCEPT ![t] = p]
        /\ memory' = memory /\ tracked' = tracked /\ allocations' = allocations
    BY DEF Held!Delete
  <1>3. /\ tpc'[t] = "remove" /\ arg'[t] = p
        /\ \A u \in Threads \ {t} : tpc'[u] = tpc[u] /\ arg'[u] = arg[u]
    BY <1>1, <1>2 DEF HeldTypes
  <1>4. HeldTypes'
    BY <1>1, <1>2 DEF HeldTypes
  <1>5. OnePointerEach'
    BY <1>1, <1>2, <1>3 DEF OnePointerEach
  <1>6. InTheMap'
    <2>1. ASSUME NEW q \in tracked \ allocations
          PROVE  \E u \in Threads : arg'[u] = q /\ tpc'[u] \in {"add", "stuck"}
      <3>1. PICK u \in Threads : arg[u] = q /\ tpc[u] \in {"add", "stuck"}
        BY <1>1, <2>1 DEF InTheMap
      <3>2. u # t
        BY <1>2, <3>1
      <3>3. QED  BY <1>3, <3>1, <3>2
    <2>2. QED  BY <1>1, <1>2, <1>3, <2>1 DEF InTheMap
  <1>7. QED  BY <1>4, <1>5, <1>6 DEF HeldInv

LEMMA HeldStep == HeldInv /\ [Held!MemoryNext]_memoryVars => HeldInv'
  <1> SUFFICES ASSUME HeldInv, [Held!MemoryNext]_memoryVars
               PROVE  HeldInv'
    OBVIOUS
  <1>1. CASE UNCHANGED memoryVars
    BY <1>1 DEF memoryVars, HeldInv, HeldTypes, OnePointerEach, InTheMap
  <1>2. CASE Held!MemoryNext
    BY <1>2, HeldNew, HeldProceed, HeldDelete DEF Held!MemoryNext
  <1>3. QED  BY <1>1, <1>2

LEMMA ReportFollows == HeldInv => Held!ReportIsRight
  <1> SUFFICES ASSUME HeldInv, NEW p \in Pointers,
                      \A t \in Threads : arg[t] = p => tpc[t] = "idle"
               PROVE  p \in allocations <=> p \in tracked
    BY DEF Held!ReportIsRight
  <1>1. HeldTypes /\ InTheMap
    BY DEF HeldInv
  <1>2. p \in allocations => p \in tracked
    BY <1>1 DEF HeldTypes
  <1>3. p \in tracked => p \in allocations
    BY <1>1 DEF InTheMap
  <1>4. QED  BY <1>2, <1>3

-------------------------------------------------------------------------------

(* The subjects and their observers.  The bus takes an observer once.  A position of
   the list whose observer has not seen the latest news is one that a publication
   under way has not come to. *)

BusCalls == [op : {"none", "subscribe", "unsubscribe", "unsubscribeAll", "publish", "reentering"},
             arg : Observers \cup {Nobody}]

BusTypes ==
    /\ kind \in Kinds
    /\ observers \in Seq(Observers)
    /\ call \in [Threads -> BusCalls]
    /\ at \in [Threads -> Nat]
    /\ news \in Threads \cup {Nobody}
    /\ seen \in [Observers -> Threads \cup {Nobody}]
    /\ \A t \in Threads : call[t].op \in {"subscribe", "unsubscribe"} => call[t].arg \in Observers

OnceOnTheBus ==
    kind = "bus" => \A i, j \in 1..Len(observers) : observers[i] = observers[j] => i = j

\* Whoever has come to a place in the list holds the mutex.
PublishersHold ==
    \A t \in Threads :
        /\ call[t].op \notin {"publish", "reentering"} => at[t] = 0
        /\ kind = "news" /\ at[t] # 0 => mutex = t

Publishing(t) == call[t].op \in {"publish", "reentering"}

NewsArrive ==
    kind = "news" =>
        \A i \in 1..Len(observers) :
            \/ seen[observers[i]] \in {Nobody, news}
            \/ \E t \in Threads : Publishing(t) /\ at[t] <= i

BusInv == BusTypes /\ OnceOnTheBus /\ PublishersHold /\ NewsArrive /\ Bus!GoneIsNotCalled

\* A set of natural numbers has a least element.
LEMMA LeastNumber ==
    ASSUME NEW T, T \subseteq Nat, T # {}
    PROVE  \E x \in T : \A y \in T : x <= y
  <1>1. PICK x \in T : \A y \in T : ~ (<<y, x>> \in OpToRel(<, Nat))
    BY NatLessThanWellFounded, WFMin
  <1>2. ASSUME NEW y \in T
        PROVE  x <= y
    <2>1. <<y, x>> \notin OpToRel(<, Nat)
      BY <1>1
    <2>2. ~ (y < x)
      BY <2>1 DEF OpToRel
    <2>3. QED  BY <2>2
  <1>3. QED  BY <1>2

\* Every number up to the size of a set of positions is the rank of one of them.
Upto(K, i) == {j \in K : j <= i}

LEMMA RankIsTaken ==
    ASSUME NEW n \in Nat, NEW K \in SUBSET (1..n), NEW k \in 1..Cardinality(K)
    PROVE  \E i \in K : Cardinality(Upto(K, i)) = k
  <1>1. IsFiniteSet(K) /\ Cardinality(K) \in Nat
    <2>1. IsFiniteSet(1..n)
      BY FS_Interval
    <2>2. QED  BY <2>1, FS_Subset, FS_CardinalityType
  <1>2. ASSUME NEW i \in K
        PROVE  /\ IsFiniteSet(Upto(K, i)) /\ Cardinality(Upto(K, i)) \in 1..Cardinality(K)
    <2>1. Upto(K, i) \in SUBSET K /\ i \in Upto(K, i)
      BY DEF Upto
    <2>2. /\ IsFiniteSet(Upto(K, i)) /\ Cardinality(Upto(K, i)) \in Nat
          /\ Cardinality(Upto(K, i)) <= Cardinality(K)
      BY <1>1, <2>1, FS_Subset, FS_CardinalityType
    <2>3. Cardinality(Upto(K, i)) # 0
      BY <2>1, <2>2, FS_EmptySet
    <2>4. QED  BY <1>1, <2>2, <2>3
  <1>3. ASSUME NEW i \in K, NEW j \in K, i < j
        PROVE  Cardinality(Upto(K, i)) # Cardinality(Upto(K, j))
    <2>1. ASSUME NEW x \in Upto(K, i)
          PROVE  x \in Upto(K, j)
      <3>1. x \in K /\ x <= i /\ x \in Int /\ i \in Int /\ j \in Int
        BY <2>1 DEF Upto
      <3>2. x <= j
        BY <1>3, <3>1
      <3>3. QED  BY <3>1, <3>2 DEF Upto
    <2>2. j \in Upto(K, j) /\ j \notin Upto(K, i)
      BY <1>3 DEF Upto
    <2>3. QED  BY <1>2, <2>1, <2>2, FS_Subset
  <1>4. PICK rank : rank = [i \in K |-> Cardinality(Upto(K, i))]
    OBVIOUS
  <1>5. rank \in [K -> 1..Cardinality(K)]
    BY <1>2, <1>4
  <1>6. ASSUME NEW i \in K, NEW j \in K, rank[i] = rank[j]
        PROVE  i = j
    <2>1. ~ (i < j) /\ ~ (j < i)
      BY <1>3, <1>4, <1>6
    <2>2. QED  BY <2>1
  <1>7. rank \in Injection(K, 1..Cardinality(K))
    BY <1>5, <1>6, Fun_IsInj
  <1>8. /\ IsFiniteSet(1..Cardinality(K))
        /\ Cardinality(1..Cardinality(K)) = Cardinality(K)
    BY <1>1, FS_Interval
  <1>9. rank \in Surjection(K, 1..Cardinality(K))
    BY <1>7, <1>8, FS_Injection
  <1>10. \A m \in 1..Cardinality(K) : \E i \in K : rank[i] = m
    BY <1>9, Fun_SurjectionProperties
  <1>11. QED  BY <1>4, <1>10

LEMMA BusCardinality ==
    /\ Nobody \notin Threads
    /\ \A S : Bus!Cardinality(S) = Cardinality(S)
  BY StudiesAssumption DEF Bus!EventBusAssumption, Bus!Cardinality, Cardinality

\* A list of what is left without o.
Remains(list, o) ==
    /\ list \in Seq(Observers)
    /\ \A k \in 1..Len(list) :
          \E i \in 1..Len(observers) : list[k] = observers[i] /\ observers[i] # o

LEMMA DetachRemoves ==
    ASSUME NEW o, observers \in Seq(Observers)
    PROVE  Remains(Bus!Detach(o), o)
  <1>1. PICK kept : kept = {i \in 1..Len(observers) : observers[i] # o}
    OBVIOUS
  <1>2. Len(observers) \in Nat /\ DOMAIN observers = 1..Len(observers)
    OBVIOUS
  <1>3. IsFiniteSet(kept) /\ Cardinality(kept) \in Nat
    <2>1. IsFiniteSet(1..Len(observers))
      BY <1>2, FS_Interval
    <2>2. kept \in SUBSET (1..Len(observers))
      BY <1>1
    <2>3. QED  BY <2>1, <2>2, FS_Subset, FS_CardinalityType
  <1>4. Bus!Cardinality(kept) = Cardinality(kept)
    BY BusCardinality
  <1>5. PICK Place : Place = [k \in 1..Bus!Cardinality(kept) |->
                                 CHOOSE i \in kept : Bus!Cardinality({j \in kept : j <= i}) = k]
    OBVIOUS
  <1>6. \A k \in 1..Cardinality(kept) : Place[k] \in kept
    <2>1. kept \in SUBSET (1..Len(observers))
      BY <1>1
    <2>2. ASSUME NEW k \in 1..Cardinality(kept)
          PROVE  \E i \in kept : Bus!Cardinality({j \in kept : j <= i}) = k
      <3>1. PICK i \in kept : Cardinality(Upto(kept, i)) = k
        BY <1>2, <2>1, RankIsTaken
      <3>2. Bus!Cardinality(Upto(kept, i)) = k
        BY <3>1, BusCardinality
      <3>3. QED  BY <3>2 DEF Upto
    <2>3. QED  BY <1>4, <1>5, <2>2
  <1>7. Bus!Detach(o) = [k \in 1..Cardinality(kept) |-> observers[Place[k]]]
    <2>1. kept = {i \in DOMAIN observers : observers[i] # o}
      BY <1>1, <1>2
    <2>2. Bus!Detach(o) = [k \in 1..Bus!Cardinality(kept) |->
              observers[CHOOSE i \in kept : Bus!Cardinality({j \in kept : j <= i}) = k]]
      BY <2>1 DEF Bus!Detach
    <2>3. QED  BY <1>4, <1>5, <2>2
  <1>8. Bus!Detach(o) \in Seq(Observers) /\ Len(Bus!Detach(o)) = Cardinality(kept)
    BY <1>1, <1>3, <1>6, <1>7
  <1>9. QED  BY <1>1, <1>3, <1>6, <1>7, <1>8 DEF Remains

OnceInList(list) == \A i, j \in 1..Len(list) : list[i] = list[j] => i = j

LEMMA UnsubscribeRemoves ==
    ASSUME NEW o, observers \in Seq(Observers), OnceInList(observers)
    PROVE  Remains(Bus!UnsubscribeFirst(o), o) /\ OnceInList(Bus!UnsubscribeFirst(o))
  <1>1. PICK n : n = Len(observers)
    OBVIOUS
  <1>2. n \in Nat /\ \A i \in 1..n : observers[i] \in Observers
    BY <1>1
  <1>3. CASE \E i \in 1..n : observers[i] = o
    <2>1. PICK I : I = {i \in 1..n : observers[i] = o}
      OBVIOUS
    <2>2. PICK m : m = Bus!Min(I)
      OBVIOUS
    <2>3. I # {} /\ I \subseteq Nat
      BY <1>2, <1>3, <2>1
    <2>4. m \in I
      <3>1. \E x \in I : \A y \in I : x <= y
        BY <2>3, LeastNumber
      <3>2. QED  BY <2>2, <3>1 DEF Bus!Min
    <2>5. m \in 1..n /\ observers[m] = o
      BY <2>1, <2>4
    <2>6. Bus!UnsubscribeFirst(o) = SubSeq(observers, 1, m - 1) \o SubSeq(observers, m + 1, n)
      <3>1. Bus!UnsubscribeFirst(o) = Bus!RemoveAt(observers, Bus!Min(I))
        BY <1>1, <1>3, <2>1, <2>3
           DEF Bus!UnsubscribeFirst, Bus!RemoveFirst, Bus!SelectInSeq
      <3>2. QED  BY <1>1, <2>2, <3>1 DEF Bus!RemoveAt
    <2>7. PICK before, after : /\ before = SubSeq(observers, 1, m - 1)
                               /\ after = SubSeq(observers, m + 1, n)
      OBVIOUS
    <2>8. /\ before \in Seq(Observers) /\ Len(before) = m - 1
          /\ \A k \in 1..(m - 1) : before[k] = observers[k]
      <3>1. \A k \in 1..(m - 1) : observers[k] \in Observers
        BY <1>2, <2>5
      <3>2. m \in Int /\ m - 1 \in Int /\ 1 \in Int /\ 1 <= m
        BY <1>2, <2>5
      <3>3. /\ before \in Seq(Observers)
            /\ Len(before) = IF 1 <= m - 1 THEN (m - 1) - 1 + 1 ELSE 0
            /\ \A k \in 1..((m - 1) - 1 + 1) : before[k] = observers[1 + k - 1]
        BY ONLY <2>7, <3>1, <3>2, SubSeqProperties
      <3>4. QED  BY <3>2, <3>3
    <2>9. /\ after \in Seq(Observers) /\ Len(after) = n - m
          /\ \A k \in 1..(n - m) : after[k] = observers[m + k]
      <3>1. \A k \in (m + 1)..n : observers[k] \in Observers
        BY <1>2, <2>5
      <3>2. m \in Int /\ m + 1 \in Int /\ n \in Int /\ 1 <= m /\ m <= n
        BY <1>2, <2>5
      <3>3. /\ after \in Seq(Observers)
            /\ Len(after) = IF m + 1 <= n THEN n - (m + 1) + 1 ELSE 0
            /\ \A k \in 1..(n - (m + 1) + 1) : after[k] = observers[(m + 1) + k - 1]
        BY ONLY <2>7, <3>1, <3>2, SubSeqProperties
      <3>4. n - (m + 1) + 1 = n - m /\ Len(after) = n - m
        BY <3>2, <3>3
      <3>5. \A k \in 1..(n - m) : (m + 1) + k - 1 = m + k
        BY <3>2
      <3>6. \A k \in 1..(n - m) : after[k] = observers[m + k]
        BY <3>3, <3>4, <3>5
      <3>7. QED  BY <3>3, <3>4, <3>6
    <2>10. PICK list : list = before \o after
      OBVIOUS
    <2>11. /\ list \in Seq(Observers) /\ Len(list) = n - 1
           /\ \A k \in 1..(n - 1) : list[k] = IF k < m THEN observers[k] ELSE observers[k + 1]
      <3>1. /\ list \in Seq(Observers)
            /\ Len(list) = Len(before) + Len(after)
            /\ \A k \in 1..(Len(before) + Len(after)) :
                  list[k] = IF k <= Len(before) THEN before[k] ELSE after[k - Len(before)]
        BY ONLY <2>8, <2>9, <2>10, ConcatProperties
      <3>2. Len(list) = n - 1
        BY <1>2, <2>5, <2>8, <2>9, <3>1
      <3>3. ASSUME NEW k \in 1..(n - 1)
            PROVE  list[k] = IF k < m THEN observers[k] ELSE observers[k + 1]
        <4>1. CASE k < m
          BY <1>2, <2>5, <2>8, <2>9, <3>1, <4>1
        <4>2. CASE ~ (k < m)
          <5>1. k - (m - 1) \in 1..(n - m) /\ m + (k - (m - 1)) = k + 1
            BY <1>2, <2>5, <4>2
          <5>2. list[k] = after[k - (m - 1)]
            BY <1>2, <2>5, <2>8, <2>9, <3>1, <4>2
          <5>3. QED  BY <2>9, <4>2, <5>1, <5>2
        <4>3. QED  BY <4>1, <4>2
      <3>4. QED  BY <3>1, <3>2, <3>3
    <2>12. PICK was : was = [k \in 1..(n - 1) |-> IF k < m THEN k ELSE k + 1]
      OBVIOUS
    <2>13. /\ \A k \in 1..(n - 1) : was[k] \in 1..n /\ was[k] # m /\ list[k] = observers[was[k]]
           /\ \A k, l \in 1..(n - 1) : was[k] = was[l] => k = l
      BY <1>2, <2>5, <2>11, <2>12
    <2>14. Remains(list, o)
      <3>1. ASSUME NEW k \in 1..Len(list)
            PROVE  \E i \in 1..n : list[k] = observers[i] /\ observers[i] # o
        <4>1. was[k] \in 1..n /\ was[k] # m /\ list[k] = observers[was[k]]
          BY <2>11, <2>13
        <4>2. observers[was[k]] # o
          BY <1>1, <2>5, <4>1 DEF OnceInList
        <4>3. QED  BY <4>1, <4>2
      <3>2. QED  BY <1>1, <2>11, <3>1 DEF Remains
    <2>15. ASSUME NEW k \in 1..Len(list), NEW l \in 1..Len(list), list[k] = list[l]
           PROVE  k = l
      <3>1. k \in 1..(n - 1) /\ l \in 1..(n - 1)
        BY <2>11
      <3>2. /\ was[k] \in 1..n /\ list[k] = observers[was[k]]
            /\ was[l] \in 1..n /\ list[l] = observers[was[l]]
        BY <2>13, <3>1
      <3>3. was[k] = was[l]
        BY <1>1, <2>15, <3>2 DEF OnceInList
      <3>4. QED  BY <2>13, <3>1, <3>3
    <2>16. OnceInList(list)
      BY <2>15 DEF OnceInList
    <2>17. QED  BY <2>6, <2>7, <2>10, <2>14, <2>16
  <1>4. CASE ~ \E i \in 1..n : observers[i] = o
    <2>1. Bus!UnsubscribeFirst(o) = observers
      BY <1>1, <1>4 DEF Bus!UnsubscribeFirst, Bus!RemoveFirst
    <2>2. QED  BY <1>1, <1>4, <2>1 DEF Remains
  <1>5. QED  BY <1>3, <1>4

LEMMA BusInit == StudiesInit => BusInv
  <1> SUFFICES ASSUME StudiesInit
               PROVE  BusInv
    OBVIOUS
  <1>1. /\ kind \in Kinds /\ observers = <<>>
        /\ call = [t \in Threads |-> [op |-> "none", arg |-> Nobody]]
        /\ at = [t \in Threads |-> 0] /\ news = Nobody
        /\ seen = [o \in Observers |-> Nobody] /\ gone = {}
    BY DEF StudiesInit, Bus!Init, Bus!Idle
  <1>2. Len(observers) = 0 /\ observers \in Seq(Observers)
    BY <1>1
  <1>3. BusTypes
    BY <1>1, <1>2 DEF BusTypes, BusCalls
  <1>4. OnceOnTheBus /\ NewsArrive /\ Bus!GoneIsNotCalled
    BY <1>1, <1>2 DEF OnceOnTheBus, NewsArrive, Bus!GoneIsNotCalled
  <1>5. PublishersHold
    BY <1>1 DEF PublishersHold
  <1>6. QED  BY <1>3, <1>4, <1>5 DEF BusInv

\* The list is the same, and the thread t takes a step.
LEMMA SameListStep ==
    ASSUME BusInv, NEW t \in Threads, BusTypes', PublishersHold', NewsArrive',
           kind' = kind, observers' = observers, gone' = gone
    PROVE  BusInv'
  <1>1. OnceOnTheBus' /\ Bus!GoneIsNotCalled'
    BY DEF BusInv, OnceOnTheBus, Bus!GoneIsNotCalled
  <1>2. QED  BY <1>1 DEF BusInv

LEMMA CallStep ==
    ASSUME BusInv, NEW t \in Threads, NEW o \in Observers,
           NEW op \in {"subscribe", "unsubscribe", "unsubscribeAll", "publish"},
           Bus!Call(t, op, o)
    PROVE  BusInv'
  <1>1. BusTypes /\ PublishersHold /\ NewsArrive
    BY DEF BusInv
  <1>2. PICK c : c = [op |-> op, arg |-> IF op \in {"subscribe", "unsubscribe"}
                                         THEN o ELSE Nobody]
    OBVIOUS
  <1>3. /\ call[t] = [op |-> "none", arg |-> Nobody] /\ call' = [call EXCEPT ![t] = c]
        /\ kind' = kind /\ observers' = observers /\ mutex' = mutex /\ at' = at
        /\ seen' = seen /\ gone' = gone
        /\ news' \in {news, t}
        /\ kind = "news" /\ op # "publish" => news' = news
    BY <1>2 DEF Bus!Call, Bus!Idle, Bus!StoreNews
  <1>4. /\ c \in BusCalls /\ c.op = op
        /\ c.op \in {"subscribe", "unsubscribe"} => c.arg \in Observers
    BY <1>2 DEF BusCalls
  <1>5. /\ call' \in [Threads -> BusCalls] /\ call'[t] = c
        /\ \A u \in Threads \ {t} : call'[u] = call[u]
    BY <1>1, <1>3, <1>4 DEF BusTypes
  <1>6. BusTypes'
    BY <1>1, <1>3, <1>4, <1>5 DEF BusTypes
  <1>7. at[t] = 0
    BY <1>1, <1>3 DEF PublishersHold
  <1>8. PublishersHold'
    BY <1>1, <1>3, <1>4, <1>5, <1>7 DEF PublishersHold
  <1>9. NewsArrive'
    <2>1. \A u \in Threads : Publishing(u) => Publishing(u)'
      BY <1>3, <1>5 DEF Publishing
    <2>2. CASE op = "publish"
      <3>1. Publishing(t)' /\ at'[t] = 0
        BY <1>3, <1>4, <1>5, <1>7, <2>2 DEF Publishing
      <3>2. \A i \in 1..Len(observers') : at'[t] <= i
        BY <1>1, <1>3, <3>1 DEF BusTypes
      <3>3. QED  BY <3>1, <3>2 DEF NewsArrive
    <2>3. CASE op # "publish"
      BY <1>1, <1>3, <2>1, <2>3 DEF NewsArrive
    <2>4. QED  BY <2>2, <2>3
  <1>10. QED  BY <1>3, <1>6, <1>8, <1>9, SameListStep

\* With the mutex free no publication of the news has come to a place of its list.
LEMMA NobodyInTheList ==
    ASSUME BusInv, kind = "news", mutex = Nobody, NEW t \in Threads
    PROVE  at[t] = 0
  BY BusCardinality DEF BusInv, PublishersHold

\* The call of t ends and the list becomes another one.
LEMMA ListStep ==
    ASSUME BusInv, NEW t \in Threads, mutex = Nobody,
           call[t].op \in {"subscribe", "unsubscribe", "unsubscribeAll"},
           Bus!Return(t), kind' = kind, mutex' = mutex, at' = at, news' = news,
           observers' \in Seq(Observers),
           seen' \in [Observers -> Threads \cup {Nobody}],
           \A o \in Observers : seen'[o] \in {seen[o], Nobody},
           kind = "news" =>
               \A k \in 1..Len(observers') :
                   \/ seen'[observers'[k]] = Nobody
                   \/ \E i \in 1..Len(observers) : observers'[k] = observers[i],
           OnceOnTheBus', Bus!GoneIsNotCalled'
    PROVE  BusInv'
  <1>1. BusTypes /\ PublishersHold /\ NewsArrive
    BY DEF BusInv
  <1>2. /\ call' \in [Threads -> BusCalls] /\ call'[t].op = "none"
        /\ \A u \in Threads \ {t} : call'[u] = call[u]
    BY <1>1 DEF BusTypes, BusCalls, Bus!Return, Bus!Idle
  <1>3. BusTypes'
    <2>1. \A u \in Threads : call'[u].op \in {"subscribe", "unsubscribe"} =>
                                 call'[u].arg \in Observers
      BY <1>1, <1>2 DEF BusTypes
    <2>2. QED  BY <1>1, <1>2, <2>1 DEF BusTypes
  <1>4. PublishersHold'
    BY <1>1, <1>2 DEF PublishersHold
  <1>5. NewsArrive'
    <2>1. SUFFICES ASSUME kind = "news", NEW k \in 1..Len(observers')
                   PROVE  \/ seen'[observers'[k]] \in {Nobody, news}
                          \/ \E u \in Threads : Publishing(u)' /\ at[u] <= k
      BY DEF NewsArrive
    <2>2. CASE seen'[observers'[k]] = Nobody
      BY <2>2
    <2>3. CASE \E i \in 1..Len(observers) : observers'[k] = observers[i]
      <3>1. PICK i \in 1..Len(observers) : observers'[k] = observers[i]
        BY <2>3
      <3>2. CASE seen[observers[i]] \in {Nobody, news}
        <4>1. observers'[k] \in Observers
          OBVIOUS
        <4>2. QED  BY <3>1, <3>2, <4>1
      <3>3. CASE \E u \in Threads : Publishing(u) /\ at[u] <= i
        <4>1. PICK u \in Threads : Publishing(u)
          BY <3>3
        <4>2. u # t
          BY <4>1 DEF Publishing
        <4>3. Publishing(u)'
          BY <1>2, <4>1, <4>2 DEF Publishing
        <4>4. at[u] = 0
          BY <2>1, NobodyInTheList
        <4>5. QED  BY <4>3, <4>4
      <3>4. QED  BY <1>1, <2>1, <3>2, <3>3 DEF NewsArrive
    <2>4. QED  BY <2>1, <2>2, <2>3
  <1>6. QED  BY <1>3, <1>4, <1>5 DEF BusInv

\* What Subscribe makes of the list: it ends with the observer, or had it.
LEMMA AddedIs ==
    ASSUME BusInv, NEW o \in Observers
    PROVE  \/ /\ Bus!Added(o) = Append(observers, o)
              /\ kind = "bus" => \A i \in 1..Len(observers) : observers[i] # o
           \/ Bus!Added(o) = <<o>>
           \/ Bus!Added(o) = observers
  <1>1. kind \in {"bus", "module", "news", "dispatcher", "manager"}
    BY DEF BusInv, BusTypes, Kinds
  <1>2. CASE kind \in {"bus", "module"}
    <2>1. Bus!Added(o) = Bus!SubscribeOnce(o)
      BY <1>2 DEF Bus!Added
    <2>2. QED  BY <2>1 DEF Bus!SubscribeOnce, Bus!Contains
  <1>3. CASE kind \in {"news", "manager"}
    <2>1. Bus!Added(o) = Bus!Attach(o)
      BY <1>3 DEF Bus!Added
    <2>2. QED  BY <1>3, <2>1 DEF Bus!Attach
  <1>4. CASE kind = "dispatcher"
    <2>1. Bus!Added(o) = Bus!RegisterHandler(o)
      BY <1>4 DEF Bus!Added
    <2>2. QED  BY <2>1 DEF Bus!RegisterHandler
  <1>5. QED  BY <1>1, <1>2, <1>3, <1>4

LEMMA SubscribeStep ==
    ASSUME BusInv, NEW t \in Threads, Bus!Subscribe(t)
    PROVE  BusInv'
  <1>1. PICK o : o = call[t].arg
    OBVIOUS
  <1>2. /\ mutex = Nobody /\ call[t].op = "subscribe"
        /\ observers' = Bus!Added(o) /\ seen' = [seen EXCEPT ![o] = Nobody]
        /\ gone' = gone \ {o} /\ Bus!Return(t)
        /\ kind' = kind /\ mutex' = mutex /\ at' = at /\ news' = news
    BY <1>1 DEF Bus!Subscribe
  <1>3. BusTypes /\ OnceOnTheBus /\ Bus!GoneIsNotCalled /\ o \in Observers
    BY <1>1, <1>2 DEF BusInv, BusTypes
  <1>4. /\ observers \in Seq(Observers) /\ DOMAIN observers = 1..Len(observers)
        /\ seen \in [Observers -> Threads \cup {Nobody}]
    BY <1>3 DEF BusTypes
  <1>5. /\ seen' \in [Observers -> Threads \cup {Nobody}] /\ seen'[o] = Nobody
        /\ \A p \in Observers : seen'[p] \in {seen[p], Nobody}
    BY <1>2, <1>3, <1>4
  <1>6. /\ observers' \in Seq(Observers) /\ DOMAIN observers' = 1..Len(observers')
        /\ \A k \in 1..Len(observers') :
              \/ observers'[k] = o
              \/ \E i \in 1..Len(observers) : observers'[k] = observers[i]
        /\ OnceOnTheBus'
    <2>1. CASE /\ observers' = Append(observers, o)
               /\ kind = "bus" => \A i \in 1..Len(observers) : observers[i] # o
      <3>1. /\ observers' \in Seq(Observers) /\ Len(observers') = Len(observers) + 1
            /\ \A i \in 1..Len(observers) : observers'[i] = observers[i]
            /\ observers'[Len(observers) + 1] = o /\ Len(observers) \in Nat
        BY <1>3, <1>4, <2>1, AppendProperties
      <3>2. OnceOnTheBus'
        BY <1>2, <1>3, <2>1, <3>1 DEF OnceOnTheBus
      <3>3. QED  BY <3>1, <3>2
    <2>2. CASE observers' = <<o>>
      <3>1. observers' \in Seq(Observers) /\ Len(observers') = 1 /\ observers'[1] = o
        BY <1>3, <2>2
      <3>2. QED  BY <3>1 DEF OnceOnTheBus
    <2>3. CASE observers' = observers
      BY <1>2, <1>3, <1>4, <2>3 DEF OnceOnTheBus
    <2>4. \/ /\ Bus!Added(o) = Append(observers, o)
             /\ kind = "bus" => \A i \in 1..Len(observers) : observers[i] # o
          \/ Bus!Added(o) = <<o>>
          \/ Bus!Added(o) = observers
      BY <1>3, AddedIs
    <2>5. QED  BY <1>2, <2>1, <2>2, <2>3, <2>4
  <1>7. Bus!GoneIsNotCalled'
    BY <1>2, <1>3, <1>4, <1>6 DEF Bus!GoneIsNotCalled
  <1>8. \A k \in 1..Len(observers') :
            \/ seen'[observers'[k]] = Nobody
            \/ \E i \in 1..Len(observers) : observers'[k] = observers[i]
    BY <1>5, <1>6
  <1>9. QED  BY <1>2, <1>5, <1>6, <1>7, <1>8, ListStep

LEMMA UnsubscribeStep ==
    ASSUME BusInv, NEW t \in Threads, Bus!Unsubscribe(t)
    PROVE  BusInv'
  <1>1. PICK o : o = call[t].arg
    OBVIOUS
  <1>2. /\ mutex = Nobody /\ call[t].op = "unsubscribe"
        /\ observers' = Bus!Removed(o) /\ gone' = gone \cup {o} /\ Bus!Return(t)
        /\ kind' = kind /\ mutex' = mutex /\ at' = at /\ news' = news /\ seen' = seen
    BY <1>1 DEF Bus!Unsubscribe
  <1>3. BusTypes /\ OnceOnTheBus /\ Bus!GoneIsNotCalled
    BY DEF BusInv
  <1>4. /\ observers \in Seq(Observers) /\ DOMAIN observers = 1..Len(observers)
        /\ seen \in [Observers -> Threads \cup {Nobody}]
    BY <1>3 DEF BusTypes
  <1>5. Remains(observers', o) /\ OnceOnTheBus'
    <2>1. CASE kind = "bus"
      <3>1. OnceInList(observers)
        BY <1>3, <2>1 DEF OnceOnTheBus, OnceInList
      <3>2. observers' = Bus!UnsubscribeFirst(o)
        BY <1>2, <2>1 DEF Bus!Removed
      <3>3. Remains(observers', o) /\ OnceInList(observers')
        BY <1>4, <3>1, <3>2, UnsubscribeRemoves
      <3>4. QED  BY <3>3 DEF OnceOnTheBus, OnceInList
    <2>2. CASE kind # "bus"
      <3>1. observers' = Bus!Detach(o)
        BY <1>2, <2>2 DEF Bus!Removed
      <3>2. QED  BY <1>2, <1>4, <2>2, <3>1, DetachRemoves DEF OnceOnTheBus
    <2>3. QED  BY <2>1, <2>2
  <1>6. /\ observers' \in Seq(Observers) /\ DOMAIN observers' = 1..Len(observers')
        /\ \A k \in 1..Len(observers') :
              \E i \in 1..Len(observers) : observers'[k] = observers[i] /\ observers[i] # o
    BY <1>5 DEF Remains
  <1>7. Bus!GoneIsNotCalled'
    BY <1>2, <1>3, <1>4, <1>6 DEF Bus!GoneIsNotCalled
  <1>8. QED  BY <1>2, <1>4, <1>5, <1>6, <1>7, ListStep

LEMMA UnregisterAllStep ==
    ASSUME BusInv, NEW t \in Threads, Bus!UnregisterAll(t)
    PROVE  BusInv'
  <1>1. /\ mutex = Nobody /\ call[t].op = "unsubscribeAll" /\ observers' = <<>>
        /\ Bus!Return(t)
        /\ kind' = kind /\ mutex' = mutex /\ at' = at /\ news' = news /\ seen' = seen
    BY DEF Bus!UnregisterAll
  <1>2. seen \in [Observers -> Threads \cup {Nobody}]
    BY DEF BusInv, BusTypes
  <1>3. observers' \in Seq(Observers) /\ Len(observers') = 0 /\ DOMAIN observers' = {}
    BY <1>1
  <1>4. OnceOnTheBus' /\ Bus!GoneIsNotCalled'
    BY <1>3 DEF OnceOnTheBus, Bus!GoneIsNotCalled
  <1>5. QED  BY <1>1, <1>2, <1>3, <1>4, ListStep

LEMMA BeginPublishStep ==
    ASSUME BusInv, NEW t \in Threads, Bus!BeginPublish(t)
    PROVE  BusInv'
  <1>1. BusTypes /\ PublishersHold /\ NewsArrive
    BY DEF BusInv
  <1>2. /\ call[t].op = "publish" /\ at[t] = 0 /\ at' = [at EXCEPT ![t] = 1]
        /\ kind = "news" => mutex = Nobody /\ mutex' = t
        /\ kind' = kind /\ observers' = observers /\ call' = call /\ news' = news
        /\ seen' = seen /\ gone' = gone
    BY DEF Bus!BeginPublish
  <1>3. at' \in [Threads -> Nat] /\ at'[t] = 1 /\ \A u \in Threads \ {t} : at'[u] = at[u]
    BY <1>1, <1>2 DEF BusTypes
  <1>4. BusTypes'
    BY <1>1, <1>2, <1>3 DEF BusTypes
  <1>5. PublishersHold'
    <2>1. kind = "news" => \A u \in Threads : at[u] = 0
      BY <1>2, NobodyInTheList
    <2>2. QED  BY <1>1, <1>2, <1>3, <2>1 DEF PublishersHold
  <1>6. NewsArrive'
    <2>1. \A i \in 1..Len(observers), u \in Threads : at[u] <= i => at'[u] <= i
      BY <1>3
    <2>2. \A u \in Threads : Publishing(u)' <=> Publishing(u)
      BY <1>2 DEF Publishing
    <2>3. QED  BY <1>1, <1>2, <2>1, <2>2 DEF NewsArrive
  <1>7. QED  BY <1>2, <1>4, <1>5, <1>6, SameListStep

LEMMA NotifyStep ==
    ASSUME BusInv, NEW t \in Threads, Bus!Notify(t)
    PROVE  BusInv'
  <1>1. BusTypes /\ PublishersHold /\ NewsArrive
    BY DEF BusInv
  <1>2. PICK k : k = at[t]
    OBVIOUS
  <1>3. /\ call[t].op = "publish" /\ k \in DOMAIN observers
        /\ seen' = [seen EXCEPT ![observers[k]] = news] /\ at' = [at EXCEPT ![t] = at[t] + 1]
        /\ kind' = kind /\ observers' = observers /\ call' = call /\ news' = news
        /\ mutex' = mutex /\ gone' = gone
    BY <1>2 DEF Bus!Notify
  <1>4. /\ observers \in Seq(Observers) /\ DOMAIN observers = 1..Len(observers)
        /\ seen \in [Observers -> Threads \cup {Nobody}] /\ news \in Threads \cup {Nobody}
    BY <1>1 DEF BusTypes
  <1>5. /\ at' \in [Threads -> Nat] /\ at'[t] = at[t] + 1 /\ at[t] = k /\ at[t] # 0
        /\ \A u \in Threads \ {t} : at'[u] = at[u]
    BY <1>1, <1>2, <1>3, <1>4 DEF BusTypes
  <1>6. PICK o \in Observers : o = observers[k]
    BY <1>3, <1>4
  <1>7. /\ seen' \in [Observers -> Threads \cup {Nobody}] /\ seen'[o] = news
        /\ \A p \in Observers \ {o} : seen'[p] = seen[p]
    BY <1>3, <1>4, <1>6
  <1>8. BusTypes'
    BY <1>1, <1>3, <1>5, <1>7 DEF BusTypes
  <1>9. PublishersHold'
    BY <1>1, <1>3, <1>5 DEF PublishersHold
  <1>10. NewsArrive'
    <2>1. \A u \in Threads : Publishing(u)' <=> Publishing(u)
      BY <1>3 DEF Publishing
    <2>2. SUFFICES ASSUME kind = "news", NEW i \in 1..Len(observers)
                   PROVE  \/ seen'[observers[i]] \in {Nobody, news}
                          \/ \E u \in Threads : Publishing(u) /\ at'[u] <= i
      BY <1>3, <2>1 DEF NewsArrive
    <2>3. observers[i] \in Observers
      BY <1>4
    <2>4. CASE seen[observers[i]] \in {Nobody, news}
      BY <1>7, <2>3, <2>4
    <2>5. CASE \E u \in Threads : Publishing(u) /\ at[u] <= i
      <3>1. PICK u \in Threads : Publishing(u) /\ at[u] <= i
        BY <2>5
      <3>2. CASE u # t
        BY <1>5, <3>1, <3>2
      <3>3. CASE u = t
        <4>1. i = k \/ at'[t] <= i
          BY <1>1, <1>5, <3>1, <3>3 DEF BusTypes
        <4>2. i = k => seen'[observers[i]] = news
          BY <1>6, <1>7
        <4>3. QED  BY <3>1, <3>3, <4>1, <4>2
      <3>4. QED  BY <3>2, <3>3
    <2>6. QED  BY <1>1, <2>2, <2>4, <2>5 DEF NewsArrive
  <1>11. QED  BY <1>3, <1>8, <1>9, <1>10, SameListStep

LEMMA NotifyCallsBackStep ==
    ASSUME BusInv, NEW t \in Threads, Bus!NotifyCallsBack(t)
    PROVE  BusInv'
  <1>1. BusTypes /\ PublishersHold /\ NewsArrive
    BY DEF BusInv
  <1>2. PICK op : op = IF kind = "manager" THEN "publish" ELSE "reentering"
    OBVIOUS
  <1>3. /\ call[t].op = "publish" /\ call' = [call EXCEPT ![t].op = op]
        /\ kind' = kind /\ observers' = observers /\ mutex' = mutex /\ at' = at
        /\ news' = news /\ seen' = seen /\ gone' = gone
    BY <1>2 DEF Bus!NotifyCallsBack
  <1>4. /\ call' \in [Threads -> BusCalls] /\ call'[t].op = op
        /\ \A u \in Threads \ {t} : call'[u] = call[u]
    BY <1>1, <1>2, <1>3 DEF BusTypes, BusCalls
  <1>5. BusTypes'
    BY <1>1, <1>2, <1>3, <1>4 DEF BusTypes
  <1>6. PublishersHold'
    BY <1>1, <1>2, <1>3, <1>4 DEF PublishersHold
  <1>7. \A u \in Threads : Publishing(u)' <=> Publishing(u)
    BY <1>2, <1>3, <1>4 DEF Publishing
  <1>8. NewsArrive'
    BY <1>1, <1>3, <1>7 DEF NewsArrive
  <1>9. QED  BY <1>3, <1>5, <1>6, <1>8, SameListStep

LEMMA EndPublishStep ==
    ASSUME BusInv, NEW t \in Threads, Bus!EndPublish(t)
    PROVE  BusInv'
  <1>1. BusTypes /\ PublishersHold /\ NewsArrive
    BY DEF BusInv
  <1>2. /\ call[t].op = "publish" /\ at[t] > Len(observers)
        /\ call' = [call EXCEPT ![t] = [op |-> "none", arg |-> Nobody]]
        /\ at' = [at EXCEPT ![t] = 0]
        /\ kind' = kind /\ observers' = observers
        /\ news' = news /\ seen' = seen /\ gone' = gone
    BY DEF Bus!EndPublish, Bus!Return, Bus!Idle
  <1>3. /\ call' \in [Threads -> BusCalls] /\ call'[t] = [op |-> "none", arg |-> Nobody]
        /\ \A u \in Threads \ {t} : call'[u] = call[u]
    BY <1>1, <1>2 DEF BusTypes, BusCalls
  <1>4. /\ at' \in [Threads -> Nat] /\ at'[t] = 0 /\ \A u \in Threads \ {t} : at'[u] = at[u]
    BY <1>1, <1>2 DEF BusTypes
  <1>5. BusTypes'
    BY <1>1, <1>2, <1>3, <1>4 DEF BusTypes
  <1>6. Len(observers) \in Nat /\ at[t] \in Nat
    BY <1>1 DEF BusTypes
  <1>7. at[t] # 0
    BY <1>2, <1>6
  <1>8. kind = "news" => \A u \in Threads \ {t} : at[u] = 0
    BY <1>1, <1>7 DEF PublishersHold
  <1>9. PublishersHold'
    BY <1>1, <1>2, <1>3, <1>4, <1>8 DEF PublishersHold
  <1>10. NewsArrive'
    <2>1. \A u \in Threads \ {t} : Publishing(u)' <=> Publishing(u)
      BY <1>3 DEF Publishing
    <2>2. \A i \in 1..Len(observers) : ~ (at[t] <= i)
      BY <1>2, <1>6
    <2>3. QED  BY <1>1, <1>2, <1>4, <2>1, <2>2 DEF NewsArrive
  <1>11. QED  BY <1>2, <1>5, <1>9, <1>10, SameListStep

LEMMA BusStep == BusInv /\ [Bus!Next]_busVars => BusInv'
  <1> SUFFICES ASSUME BusInv, [Bus!Next]_busVars
               PROVE  BusInv'
    OBVIOUS
  <1>1. CASE UNCHANGED busVars
    BY <1>1 DEF busVars, BusInv, BusTypes, OnceOnTheBus, PublishersHold, Publishing,
       NewsArrive, Bus!GoneIsNotCalled
  <1>2. CASE Bus!Next
    <2>1. PICK t \in Threads :
              \/ Bus!Proceed(t) \/ Bus!NotifyCallsBack(t)
              \/ \E op \in {"subscribe", "unsubscribe", "unsubscribeAll", "publish"},
                    o \in Observers : Bus!Call(t, op, o)
      BY <1>2 DEF Bus!Next
    <2>2. CASE Bus!Proceed(t)
      BY <2>2, SubscribeStep, UnsubscribeStep, UnregisterAllStep, BeginPublishStep,
         NotifyStep, EndPublishStep DEF Bus!Proceed
    <2>3. QED  BY <2>1, <2>2, NotifyCallsBackStep, CallStep
  <1>3. QED  BY <1>1, <1>2

LEMMA LatestFollows == BusInv => Bus!LatestIsSeen
  <1> SUFFICES ASSUME BusInv, kind = "news", \A t \in Threads : ~ Publishing(t)
               PROVE  \A i \in DOMAIN observers : seen[observers[i]] \in {Nobody, news}
    BY DEF Bus!LatestIsSeen, Publishing
  <1>1. DOMAIN observers = 1..Len(observers)
    BY DEF BusInv, BusTypes
  <1>2. QED  BY <1>1 DEF BusInv, NewsArrive

-------------------------------------------------------------------------------

(***************************************************************************)
(* The mask machine: what the observers heard and what the mask is.        *)
(***************************************************************************)

\* Those who changed the mask and are about to report it, and at one end of their
\* change (f is oldv or newv) had it at x.
Reporting(p, f, x) == {t \in Threads : p[t] = "notify" /\ f[t] = x}
Ends(p, f, x) == Cardinality(Reporting(p, f, x))
Same(x, y) == IF x = y THEN 1 ELSE 0

MaskTypes ==
    /\ mcall \in [Threads -> Calls \cup {Mask!NoCall}]
    /\ oldv \in [Threads -> SUBSET Bits] /\ newv \in [Threads -> SUBSET Bits]
    /\ mpc \in [Threads -> {"idle", "cas", "notify"}]
    /\ mask \in SUBSET Bits /\ untold \in BOOLEAN

\* The changes that are not reported yet lead from what the observers heard to the
\* mask: each value is left as often as it is entered.
ReportsLead ==
    ~untold => \A x : Ends(mpc, oldv, x) + Same(x, mask) = Ends(mpc, newv, x) + Same(x, view)

MaskInv == MaskTypes /\ ReportsLead

LEMMA MaskFinite ==
    /\ IsFiniteSet(Threads)
    /\ Calls \subseteq [field : SUBSET Bits, value : SUBSET Bits, valid : BOOLEAN]
    /\ \A c \in Calls : c.value \subseteq c.field
  BY StudiesAssumption DEF Mask!MaskAssumption, Mask!IsFiniteSet, IsFiniteSet

LEMMA ReportingIsFinite ==
    \A p, f, x : IsFiniteSet(Reporting(p, f, x)) /\ Ends(p, f, x) \in Nat
  <1> TAKE p, f, x
  <1>1. IsFiniteSet(Threads)
    BY MaskFinite
  <1>2. Reporting(p, f, x) \in SUBSET Threads
    BY DEF Reporting
  <1>3. QED  BY <1>1, <1>2, FS_Subset, FS_CardinalityType DEF Ends

LEMMA ReportersStay ==
    ASSUME NEW p, NEW q, NEW f, NEW g, NEW x,
           \A t \in Threads : /\ p[t] = "notify" <=> q[t] = "notify"
                              /\ p[t] = "notify" => f[t] = g[t]
    PROVE  Ends(p, f, x) = Ends(q, g, x)
  <1>1. Reporting(p, f, x) = Reporting(q, g, x)
    BY DEF Reporting
  <1>2. QED  BY <1>1 DEF Ends

LEMMA OneReports ==
    ASSUME NEW p, NEW q, NEW f, NEW g, NEW t \in Threads, NEW x,
           p[t] # "notify", q[t] = "notify",
           \A u \in Threads \ {t} : p[u] = q[u] /\ f[u] = g[u]
    PROVE  Ends(q, g, x) = Ends(p, f, x) + Same(x, g[t])
  <1>1. CASE x = g[t]
    <2>1. \A u \in Threads \ {t} : u \in Reporting(q, g, x) <=> u \in Reporting(p, f, x)
      BY DEF Reporting
    <2>2. t \in Reporting(q, g, x) /\ t \notin Reporting(p, f, x)
      BY <1>1 DEF Reporting
    <2>3. Reporting(q, g, x) \subseteq Threads /\ Reporting(p, f, x) \subseteq Threads
      BY DEF Reporting
    <2>4. Reporting(q, g, x) = Reporting(p, f, x) \cup {t} /\ t \notin Reporting(p, f, x)
      BY <2>1, <2>2, <2>3
    <2>5. QED  BY <1>1, <2>4, ReportingIsFinite, FS_AddElement, ZenonT(30) DEF Ends, Same
  <1>2. CASE x # g[t]
    <2>1. Reporting(q, g, x) = Reporting(p, f, x)
      BY <1>2 DEF Reporting
    <2>2. QED  BY <1>2, <2>1, ReportingIsFinite DEF Ends, Same
  <1>3. QED  BY <1>1, <1>2

LEMMA MaskInit == StudiesInit => MaskInv
  <1> SUFFICES ASSUME Mask!Init
               PROVE  MaskInv
    BY DEF StudiesInit
  <1>1. MaskTypes
    BY DEF Mask!Init, MaskTypes
  <1>2. \A f, x : Reporting(mpc, f, x) = {}
    BY DEF Mask!Init, Reporting
  <1>3. \A f, x : Ends(mpc, f, x) = 0
    BY <1>2, FS_EmptySet DEF Ends
  <1>4. mask = view
    BY DEF Mask!Init
  <1>5. QED  BY <1>1, <1>3, <1>4 DEF MaskInv, ReportsLead

\* A call that returns without a change, a failed exchange and a first load change
\* nothing that is about to be reported.
LEMMA NoNewReport ==
    ASSUME ReportsLead, mask' = mask, view' = view, untold' = untold,
           \A t \in Threads : /\ mpc[t] = "notify" <=> mpc'[t] = "notify"
                              /\ mpc[t] = "notify" => oldv[t] = oldv'[t] /\ newv[t] = newv'[t]
    PROVE  ReportsLead'
  <1>1. \A x : Ends(mpc, oldv, x) = Ends(mpc', oldv', x)
    BY ReportersStay
  <1>2. \A x : Ends(mpc, newv, x) = Ends(mpc', newv', x)
    BY ReportersStay
  <1>3. QED  BY <1>1, <1>2 DEF ReportsLead

LEMMA StoreStep ==
    ASSUME MaskInv, NEW t \in Threads, Mask!Store(t)
    PROVE  MaskInv'
  <1>1. /\ mask' \in SUBSET Bits /\ untold' = (untold \/ mask' # mask)
        /\ mpc' = mpc /\ mcall' = mcall /\ oldv' = oldv /\ newv' = newv /\ view' = view
    <2>1. mask \in SUBSET Bits
      BY DEF MaskInv, MaskTypes
    <2>2. PICK bits \in SUBSET Bits : mask' \in {bits, mask \cup bits, mask \cap bits}
      BY DEF Mask!Store
    <2>3. mask' \in SUBSET Bits
      BY <2>1, <2>2
    <2>4. QED  BY <2>3 DEF Mask!Store
  <1>2. MaskTypes'
    BY <1>1 DEF MaskInv, MaskTypes
  <1>3. ReportsLead'
    BY <1>1 DEF MaskInv, ReportsLead
  <1>4. QED  BY <1>2, <1>3 DEF MaskInv

LEMMA SetFieldStep ==
    ASSUME MaskInv, NEW t \in Threads, NEW c \in Calls, Mask!SetField(t, c)
    PROVE  MaskInv'
  <1>1. MaskTypes /\ ReportsLead
    BY DEF MaskInv
  <1>2. /\ mpc[t] = "idle" /\ mcall' = [mcall EXCEPT ![t] = c]
        /\ oldv' = [oldv EXCEPT ![t] = mask] /\ mpc' = [mpc EXCEPT ![t] = "cas"]
        /\ mask' = mask /\ newv' = newv /\ view' = view /\ untold' = untold
    BY DEF Mask!SetField
  <1>3. MaskTypes'
    BY <1>1, <1>2 DEF MaskTypes
  <1>4. \A u \in Threads : /\ mpc[u] = "notify" <=> mpc'[u] = "notify"
                           /\ mpc[u] = "notify" => oldv[u] = oldv'[u] /\ newv[u] = newv'[u]
    BY <1>1, <1>2 DEF MaskTypes
  <1>5. QED  BY <1>1, <1>2, <1>3, <1>4, NoNewReport DEF MaskInv

LEMMA ExchangeStep ==
    ASSUME MaskInv, NEW t \in Threads, NEW new \in SUBSET Bits,
           mpc[t] = "cas", mask = oldv[t], Mask!Exchange(t, new),
           view' = view, untold' = untold
    PROVE  MaskInv'
  <1>1. MaskTypes /\ ReportsLead
    BY DEF MaskInv
  <1>2. /\ mask' = new /\ newv' = [newv EXCEPT ![t] = new]
        /\ mpc' = [mpc EXCEPT ![t] = "notify"] /\ mcall' = mcall /\ oldv' = oldv
    BY DEF Mask!Exchange
  <1>3. MaskTypes'
    BY <1>1, <1>2 DEF MaskTypes
  <1>4. /\ mpc'[t] = "notify" /\ newv'[t] = mask' /\ oldv'[t] = mask
        /\ \A u \in Threads \ {t} : /\ mpc[u] = mpc'[u]
                                    /\ oldv[u] = oldv'[u] /\ newv[u] = newv'[u]
    BY <1>1, <1>2 DEF MaskTypes
  <1>5. \A x : Ends(mpc', oldv', x) = Ends(mpc, oldv, x) + Same(x, mask)
    <2>1. mpc[t] # "notify" /\ mpc'[t] = "notify"
      BY <1>4
    <2>2. \A u \in Threads \ {t} : mpc[u] = mpc'[u] /\ oldv[u] = oldv'[u]
      BY <1>4
    <2>3. ASSUME NEW x
          PROVE  Ends(mpc', oldv', x) = Ends(mpc, oldv, x) + Same(x, oldv'[t])
      BY <2>1, <2>2, OneReports
    <2>4. QED  BY <1>4, <2>3
  <1>6. \A x : Ends(mpc', newv', x) = Ends(mpc, newv, x) + Same(x, mask')
    <2>1. mpc[t] # "notify" /\ mpc'[t] = "notify"
      BY <1>4
    <2>2. \A u \in Threads \ {t} : mpc[u] = mpc'[u] /\ newv[u] = newv'[u]
      BY <1>4
    <2>3. ASSUME NEW x
          PROVE  Ends(mpc', newv', x) = Ends(mpc, newv, x) + Same(x, newv'[t])
      BY <2>1, <2>2, OneReports
    <2>4. QED  BY <1>4, <2>3
  <1>7. ASSUME ~untold', NEW x
        PROVE  Ends(mpc', oldv', x) + Same(x, mask') = Ends(mpc', newv', x) + Same(x, view')
    <2>1. Ends(mpc, oldv, x) + Same(x, mask) = Ends(mpc, newv, x) + Same(x, view)
      BY <1>1, <1>7 DEF ReportsLead
    <2>2. /\ Ends(mpc, oldv, x) \in Nat /\ Ends(mpc, newv, x) \in Nat
          /\ Same(x, mask) \in Nat /\ Same(x, mask') \in Nat /\ Same(x, view) \in Nat
      BY ReportingIsFinite DEF Same
    <2>3. QED  BY <1>5, <1>6, <2>1, <2>2
  <1>8. ReportsLead'
    BY <1>7 DEF ReportsLead
  <1>9. QED  BY <1>3, <1>8 DEF MaskInv

LEMMA CancelOne ==
    ASSUME NEW a \in Nat, NEW b \in Nat, NEW c, NEW d, NEW m \in Nat, NEW v \in Nat,
           NEW n \in Nat, c + m = d + v, c = a + v, d = b + n
    PROVE  a + m = b + n
  OBVIOUS

LEMMA ReportStep ==
    ASSUME MaskInv, NEW t \in Threads, Mask!Notify(t)
    PROVE  MaskInv'
  <1>1. MaskTypes /\ ReportsLead
    BY DEF MaskInv
  <1>2. /\ mpc[t] = "notify" /\ view' = newv[t] /\ untold' = (untold \/ view # oldv[t])
        /\ mpc' = [mpc EXCEPT ![t] = "idle"] /\ mcall' = [mcall EXCEPT ![t] = Mask!NoCall]
        /\ oldv' = [oldv EXCEPT ![t] = {}] /\ newv' = [newv EXCEPT ![t] = {}]
        /\ mask' = mask
    BY DEF Mask!Notify, Mask!Return
  <1>3. MaskTypes'
    BY <1>1, <1>2 DEF MaskTypes
  <1>4. /\ mpc'[t] # "notify"
        /\ \A u \in Threads \ {t} : /\ mpc'[u] = mpc[u]
                                    /\ oldv'[u] = oldv[u] /\ newv'[u] = newv[u]
    BY <1>1, <1>2 DEF MaskTypes
  <1>5. \A x : Ends(mpc, oldv, x) = Ends(mpc', oldv', x) + Same(x, oldv[t])
    <2>1. mpc'[t] # "notify" /\ mpc[t] = "notify"
      BY <1>2, <1>4
    <2>2. \A u \in Threads \ {t} : mpc'[u] = mpc[u] /\ oldv'[u] = oldv[u]
      BY <1>4
    <2>3. ASSUME NEW x
          PROVE  Ends(mpc, oldv, x) = Ends(mpc', oldv', x) + Same(x, oldv[t])
      BY <2>1, <2>2, OneReports
    <2>4. QED  BY <2>3
  <1>6. \A x : Ends(mpc, newv, x) = Ends(mpc', newv', x) + Same(x, newv[t])
    <2>1. mpc'[t] # "notify" /\ mpc[t] = "notify"
      BY <1>2, <1>4
    <2>2. \A u \in Threads \ {t} : mpc'[u] = mpc[u] /\ newv'[u] = newv[u]
      BY <1>4
    <2>3. ASSUME NEW x
          PROVE  Ends(mpc, newv, x) = Ends(mpc', newv', x) + Same(x, newv[t])
      BY <2>1, <2>2, OneReports
    <2>4. QED  BY <2>3
  <1>7. ASSUME ~untold', NEW x
        PROVE  Ends(mpc', oldv', x) + Same(x, mask') = Ends(mpc', newv', x) + Same(x, view')
    <2>1. ~untold /\ view = oldv[t]
      BY <1>2, <1>7
    <2>2. Ends(mpc, oldv, x) + Same(x, mask) = Ends(mpc, newv, x) + Same(x, view)
      BY <1>1, <2>1 DEF ReportsLead
    <2>3. /\ Ends(mpc', oldv', x) \in Nat /\ Ends(mpc', newv', x) \in Nat
          /\ Same(x, mask) \in Nat /\ Same(x, view) \in Nat /\ Same(x, newv[t]) \in Nat
      BY ReportingIsFinite DEF Same
    <2>4. /\ Ends(mpc, oldv, x) = Ends(mpc', oldv', x) + Same(x, view)
          /\ Ends(mpc, newv, x) = Ends(mpc', newv', x) + Same(x, newv[t])
      BY <1>5, <1>6, <2>1
    <2>5. mask' = mask /\ view' = newv[t]
      BY <1>2
    <2>6. Ends(mpc', oldv', x) + Same(x, mask) = Ends(mpc', newv', x) + Same(x, newv[t])
      BY <2>2, <2>3, <2>4, CancelOne
    <2>7. QED  BY <2>5, <2>6
  <1>8. ReportsLead'
    BY <1>7 DEF ReportsLead
  <1>9. QED  BY <1>3, <1>8 DEF MaskInv

\* Whatever call is under way, a new mask is one of its bits.
LEMMA ComputedIsAMask ==
    ASSUME MaskTypes, NEW t \in Threads, mpc[t] = "cas",
           NEW new \in Mask!Computed(oldv[t], mcall[t])
    PROVE  new \in SUBSET Bits /\ new \ mcall[t].field = oldv[t] \ mcall[t].field
  <1>1. Calls \subseteq [field : SUBSET Bits, value : SUBSET Bits, valid : BOOLEAN]
        /\ \A c \in Calls : c.value \subseteq c.field
    BY MaskFinite
  <1>2. /\ mcall[t].field \in SUBSET Bits
        /\ mcall[t].value \subseteq mcall[t].field
    <2>1. mcall[t] \in Calls \cup {Mask!NoCall}
      BY DEF MaskTypes
    <2>2. CASE mcall[t] = Mask!NoCall
      BY <2>2 DEF Mask!NoCall
    <2>3. CASE mcall[t] \in Calls
      BY <1>1, <2>3
    <2>4. QED  BY <2>1, <2>2, <2>3
  <1>3. oldv[t] \in SUBSET Bits
    BY DEF MaskTypes
  <1>4. PICK v \in {mcall[t].value, {}} : new = (oldv[t] \ mcall[t].field) \cup v
    BY DEF Mask!Computed
  <1>5. v \subseteq mcall[t].field /\ mcall[t].field \subseteq Bits
    BY <1>2, <1>4
  <1>6. QED  BY <1>3, <1>4, <1>5

LEMMA CasStep ==
    ASSUME MaskInv, NEW t \in Threads, Mask!Cas(t)
    PROVE  MaskInv'
  <1>1. MaskTypes /\ ReportsLead
    BY DEF MaskInv
  <1>2. mpc[t] = "cas" /\ view' = view /\ untold' = untold
    BY DEF Mask!Cas
  <1>3. PICK new \in Mask!Computed(oldv[t], mcall[t]) :
            IF Mask!Refused(t, new) THEN Mask!Return(t) /\ mask' = mask
            ELSE \/ mask = oldv[t] /\ Mask!Exchange(t, new)
                 \/ /\ oldv' = [oldv EXCEPT ![t] = mask]
                    /\ mask' = mask /\ mpc' = mpc /\ mcall' = mcall /\ newv' = newv
    BY DEF Mask!Cas
  <1>4. CASE Mask!Return(t) /\ mask' = mask
    <2>1. /\ mpc' = [mpc EXCEPT ![t] = "idle"] /\ mcall' = [mcall EXCEPT ![t] = Mask!NoCall]
          /\ oldv' = [oldv EXCEPT ![t] = {}] /\ newv' = [newv EXCEPT ![t] = {}]
          /\ mask' = mask
      BY <1>4 DEF Mask!Return
    <2>2. MaskTypes'
      BY <1>1, <1>2, <2>1 DEF MaskTypes
    <2>3. \A u \in Threads : /\ mpc[u] = "notify" <=> mpc'[u] = "notify"
                             /\ mpc[u] = "notify" => oldv[u] = oldv'[u] /\ newv[u] = newv'[u]
      BY <1>1, <1>2, <2>1 DEF MaskTypes
    <2>4. QED  BY <1>1, <1>2, <2>1, <2>2, <2>3, NoNewReport DEF MaskInv
  <1>5. CASE mask = oldv[t] /\ Mask!Exchange(t, new)
    <2>1. new \in SUBSET Bits
      BY <1>1, <1>2, ComputedIsAMask
    <2>2. QED  BY <1>2, <1>5, <2>1, ExchangeStep
  <1>6. CASE /\ oldv' = [oldv EXCEPT ![t] = mask]
             /\ mask' = mask /\ mpc' = mpc /\ mcall' = mcall /\ newv' = newv
    <2>1. MaskTypes'
      BY <1>1, <1>2, <1>6 DEF MaskTypes
    <2>2. \A u \in Threads : /\ mpc[u] = "notify" <=> mpc'[u] = "notify"
                             /\ mpc[u] = "notify" => oldv[u] = oldv'[u] /\ newv[u] = newv'[u]
      BY <1>1, <1>2, <1>6 DEF MaskTypes
    <2>3. QED  BY <1>1, <1>2, <1>6, <2>1, <2>2, NoNewReport DEF MaskInv
  <1>7. QED  BY <1>3, <1>4, <1>5, <1>6

LEMMA MaskStep == MaskInv /\ [Mask!Next]_maskVars => MaskInv'
  <1> SUFFICES ASSUME MaskInv, [Mask!Next]_maskVars
               PROVE  MaskInv'
    OBVIOUS
  <1>1. CASE UNCHANGED maskVars
    BY <1>1 DEF maskVars, MaskInv, MaskTypes, ReportsLead
  <1>2. CASE Mask!Next
    BY <1>2, StoreStep, CasStep, ReportStep, SetFieldStep DEF Mask!Next
  <1>3. QED  BY <1>1, <1>2

LEMMA ViewFollows == MaskInv => Mask!ViewIsState
  <1> SUFFICES ASSUME MaskInv, \A t \in Threads : mpc[t] = "idle", ~untold
               PROVE  view = mask
    BY DEF Mask!ViewIsState
  <1>1. \A f, x : Reporting(mpc, f, x) = {}
    BY DEF Reporting
  <1>2. \A f, x : Ends(mpc, f, x) = 0
    BY <1>1, FS_EmptySet DEF Ends
  <1>3. 0 + Same(mask, mask) = 0 + Same(mask, view)
    BY <1>2 DEF MaskInv, ReportsLead
  <1>4. QED  BY <1>3 DEF Same

\* What UpdatesAreValid says of one step.
ValidUpdate ==
    \A t \in Threads : mpc[t] = "cas" /\ mpc'[t] = "notify" =>
        /\ mask' \ mcall[t].field = mask \ mcall[t].field
        /\ mcall[t].valid => <<mask, mask'>> \notin Forbidden

LEMMA UpdateIsValid == MaskInv /\ [Mask!Next]_maskVars => [ValidUpdate]_(Mask!vars)
  <1> SUFFICES ASSUME MaskInv, Mask!Next, NEW t \in Threads,
                      mpc[t] = "cas", mpc'[t] = "notify"
               PROVE  /\ mask' \ mcall[t].field = mask \ mcall[t].field
                      /\ mcall[t].valid => <<mask, mask'>> \notin Forbidden
    BY DEF ValidUpdate, maskVars, Mask!vars
  <1>1. MaskTypes
    BY DEF MaskInv
  <1>2. PICK u \in Threads : \/ Mask!Store(u) \/ Mask!Cas(u) \/ Mask!Notify(u)
                             \/ \E c \in Calls : Mask!SetField(u, c)
    BY DEF Mask!Next
  <1>3. u = t /\ Mask!Cas(t)
    <2>1. CASE Mask!Store(u)
      BY <2>1 DEF Mask!Store
    <2>2. CASE Mask!Cas(u)
      <3>1. \A w \in Threads \ {u} : mpc'[w] = mpc[w]
        BY <1>1, <2>2 DEF Mask!Cas, Mask!Return, Mask!Exchange, MaskTypes
      <3>2. QED  BY <2>2, <3>1
    <2>3. CASE Mask!Notify(u)
      BY <1>1, <2>3 DEF Mask!Notify, Mask!Return, MaskTypes
    <2>4. CASE \E c \in Calls : Mask!SetField(u, c)
      BY <1>1, <2>4 DEF Mask!SetField, MaskTypes
    <2>5. QED  BY <1>2, <2>1, <2>2, <2>3, <2>4
  <1>4. PICK new \in Mask!Computed(oldv[t], mcall[t]) :
            ~ Mask!Refused(t, new) /\ mask = oldv[t] /\ Mask!Exchange(t, new)
    BY <1>1, <1>3 DEF Mask!Cas, Mask!Return, MaskTypes
  <1>5. mask' = new
    BY <1>4 DEF Mask!Exchange
  <1>6. new \ mcall[t].field = oldv[t] \ mcall[t].field
    BY <1>1, ComputedIsAMask
  <1>7. QED  BY <1>4, <1>5, <1>6 DEF Mask!Refused

-------------------------------------------------------------------------------

(***************************************************************************)
(* The final states: the name that was reported last.                      *)
(***************************************************************************)

FinalInv ==
    /\ fpc \in [Threads -> {"idle", "set", "evaluating"}]
    /\ finals_ \in Seq(States!ToSet(Finals))
    /\ States!FinalIsCurrent

LEMMA FinalInitially == StudiesInit => FinalInv
  <1> SUFFICES ASSUME States!FinalInit  PROVE FinalInv
    BY DEF StudiesInit
  <1>1. finals_ \in Seq(States!ToSet(Finals))
    BY DEF States!FinalInit
  <1>2. QED  BY <1>1 DEF States!FinalInit, FinalInv, States!FinalIsCurrent,
                         States!NewFinal, States!Matches

LEMMA FinalsAreThere ==
    /\ Finals \in Seq(States!ToSet(Finals)) /\ Subsystems # {}
    /\ \A f \in States!ToSet(Finals) : f.priority \in Int
  BY StudiesAssumption DEF States!FinalStatesAssumption, States!ToSet

LEMMA FinalStep == FinalInv /\ [States!FinalNext]_finalVars => FinalInv'
  <1> SUFFICES ASSUME FinalInv, [States!FinalNext]_finalVars
               PROVE  FinalInv'
    OBVIOUS
  <1>1. CASE UNCHANGED finalVars
    BY <1>1 DEF finalVars, FinalInv, States!FinalIsCurrent, States!NewFinal
  <1>2. CASE States!FinalNext
    <2>1. PICK t \in Threads :
              \/ States!AddFinalState(t) \/ States!BeginEvaluate(t) \/ States!EndEvaluate(t)
              \/ \E s \in Subsystems : States!SetSubsystemState(t, s)
      BY <1>2 DEF States!FinalNext
    <2>2. CASE States!AddFinalState(t)
      <3>1. /\ Len(finals_) + 1 \in 1..Len(Finals)
            /\ finals_' = Append(finals_, Finals[Len(finals_) + 1])
            /\ added' /\ fpc' = fpc
        BY <2>2, FinalsAreThere DEF States!AddFinalState, FinalInv
      <3>2. Finals[Len(finals_) + 1] \in States!ToSet(Finals)
        BY <3>1, FinalsAreThere DEF States!ToSet
      <3>3. finals_' \in Seq(States!ToSet(Finals))
        BY <3>1, <3>2 DEF FinalInv
      <3>4. QED  BY <3>1, <3>3 DEF FinalInv, States!FinalIsCurrent
    <2>3. CASE States!BeginEvaluate(t)
      <3>1. /\ fpc'[t] = "evaluating" /\ fpc' \in [Threads -> {"idle", "set", "evaluating"}]
            /\ finals_' = finals_
        BY <2>3 DEF States!BeginEvaluate, FinalInv
      <3>2. QED  BY <3>1 DEF FinalInv, States!FinalIsCurrent
    <2>4. CASE States!EndEvaluate(t)
      <3>1. /\ fpc' \in [Threads -> {"idle", "set", "evaluating"}]
            /\ lastFinal_' = States!NewFinal
            /\ finals_' = finals_ /\ current_' = current_
        BY <2>4 DEF States!EndEvaluate, FinalInv
      <3>2. States!NewFinal' = States!NewFinal
        BY <3>1 DEF States!NewFinal
      <3>3. QED  BY <3>1, <3>2 DEF FinalInv, States!FinalIsCurrent
    <2>5. CASE \E s \in Subsystems : States!SetSubsystemState(t, s)
      <3>1. /\ fpc'[t] = "set" /\ fpc' \in [Threads -> {"idle", "set", "evaluating"}]
            /\ finals_' = finals_
        BY <2>5 DEF States!SetSubsystemState, FinalInv
      <3>2. QED  BY <3>1 DEF FinalInv, States!FinalIsCurrent
    <2>6. QED  BY <2>1, <2>2, <2>3, <2>4, <2>5
  <1>3. QED  BY <1>1, <1>2

(* The queries of the final states. *)

Above(K, key, i) == {j \in K : key[i] < key[j]}

LEMMA GreatestKey ==
    ASSUME NEW n \in Nat, NEW K \in SUBSET (1..n), K # {},
           NEW key, \A i \in K : key[i] \in Int
    PROVE  \E i \in K : \A j \in K : key[j] <= key[i]
  <1>1. IsFiniteSet(K)
    <2>1. IsFiniteSet(1..n)
      BY FS_Interval
    <2>2. QED  BY <2>1, FS_Subset
  <1>2. \A i \in K : IsFiniteSet(Above(K, key, i)) /\ Cardinality(Above(K, key, i)) \in Nat
    <2>1. \A i \in K : Above(K, key, i) \in SUBSET K
      BY DEF Above
    <2>2. QED  BY <1>1, <2>1, FS_Subset, FS_CardinalityType
  <1>3. PICK T : T = {Cardinality(Above(K, key, i)) : i \in K}
    OBVIOUS
  <1>4. PICK m \in T : \A y \in T : m <= y
    <2>1. T \subseteq Nat /\ T # {}
      BY <1>2, <1>3
    <2>2. QED  BY <2>1, LeastNumber
  <1>5. PICK i \in K : m = Cardinality(Above(K, key, i))
    BY <1>3, <1>4
  <1>6. ASSUME NEW j \in K, key[i] < key[j]
        PROVE  FALSE
    <2>1. \A k \in Above(K, key, j) : k \in Above(K, key, i)
      BY <1>6 DEF Above
    <2>2. j \in Above(K, key, i) /\ j \notin Above(K, key, j)
      BY <1>6 DEF Above
    <2>3. m <= Cardinality(Above(K, key, j))
      BY <1>3, <1>4
    <2>4. Above(K, key, j) \in SUBSET Above(K, key, i)
      BY <2>1
    <2>5. /\ Cardinality(Above(K, key, j)) <= Cardinality(Above(K, key, i))
          /\ Cardinality(Above(K, key, j)) = Cardinality(Above(K, key, i))
                => Above(K, key, j) = Above(K, key, i)
      BY <1>2, <2>4, FS_Subset
    <2>6. Cardinality(Above(K, key, j)) \in Nat /\ m \in Nat
      BY <1>2, <1>5
    <2>7. QED  BY <1>5, <2>2, <2>3, <2>5, <2>6
  <1>7. \A j \in K : key[j] <= key[i]
    BY <1>6
  <1>8. QED  BY <1>7

LEMMA MinIsLeast ==
    ASSUME NEW T, T \subseteq Nat, T # {}
    PROVE  States!Min(T) \in T /\ \A y \in T : States!Min(T) <= y
  BY LeastNumber DEF States!Min

Fits(i) == States!MatchesBut(finals_[i], current_)
Contained(i) == States!Accepts("contains", current_, finals_[i].required)

LEMMA FitsIsContained ==
    ASSUME NEW i
    PROVE  Fits(i) <=> Contained(i) /\ ~States!Excluded(finals_[i], current_)
  BY DEF Fits, Contained, States!MatchesBut, States!Matches, States!Accepts, States!Excluded

LEMMA FinalsHavePriorities ==
    ASSUME FinalInv
    PROVE  /\ Len(finals_) \in Nat /\ DOMAIN finals_ = 1..Len(finals_)
           /\ \A i \in DOMAIN finals_ : finals_[i].priority \in Int
  <1>1. finals_ \in Seq(States!ToSet(Finals))
    BY DEF FinalInv
  <1>2. /\ Len(finals_) \in Nat /\ DOMAIN finals_ = 1..Len(finals_)
        /\ \A i \in DOMAIN finals_ : finals_[i] \in States!ToSet(Finals)
    BY <1>1
  <1>3. QED  BY <1>2, FinalsAreThere

LEMMA BestIsHighest ==
    ASSUME FinalInv
    PROVE  LET best == States!BestMatch(finals_, current_) IN
           IF \E i \in DOMAIN finals_ : Fits(i)
           THEN /\ best \in DOMAIN finals_ /\ best # 0 /\ Fits(best)
                /\ \A i \in DOMAIN finals_ :
                       Fits(i) => finals_[i].priority <= finals_[best].priority
           ELSE best = 0
  <1>1. PICK n, K, key : /\ n = Len(finals_) /\ K = {i \in DOMAIN finals_ : Fits(i)}
                         /\ key = [i \in DOMAIN finals_ |-> finals_[i].priority]
    OBVIOUS
  <1>2. /\ n \in Nat /\ K \in SUBSET (1..n) /\ DOMAIN finals_ = 1..n
        /\ \A i \in K : key[i] \in Int /\ key[i] = finals_[i].priority
    BY <1>1, FinalsHavePriorities
  <1>3. PICK H : H = {i \in K : \A j \in K : finals_[j].priority <= finals_[i].priority}
    OBVIOUS
  <1>4. States!BestMatch(finals_, current_) = IF K = {} THEN 0 ELSE States!Min(H)
    BY <1>1, <1>3 DEF States!BestMatch, Fits
  <1>5. CASE K = {}
    BY <1>1, <1>4, <1>5
  <1>6. CASE K # {}
    <2>1. PICK i \in K : \A j \in K : key[j] <= key[i]
      BY <1>2, <1>6, GreatestKey
    <2>2. \A j \in K : finals_[j].priority <= finals_[i].priority
      BY <1>2, <2>1
    <2>3. i \in H /\ H \subseteq K /\ K \subseteq Nat
      BY <1>2, <1>3, <2>2
    <2>4. PICK best : best = States!BestMatch(finals_, current_)
      OBVIOUS
    <2>5. best \in H
      BY <1>4, <1>6, <2>3, <2>4, MinIsLeast
    <2>6. best \in K /\ \A j \in K : finals_[j].priority <= finals_[best].priority
      BY <1>3, <2>5
    <2>7. best \in DOMAIN finals_ /\ best # 0 /\ Fits(best)
      BY <1>1, <1>2, <2>6
    <2>8. \A j \in DOMAIN finals_ :
              Fits(j) => finals_[j].priority <= finals_[best].priority
      BY <1>1, <2>6
    <2>9. \E j \in DOMAIN finals_ : Fits(j)
      BY <2>7
    <2> HIDE DEF Fits
    <2>10. QED  BY <2>4, <2>7, <2>8, <2>9
  <1>7. QED  BY <1>5, <1>6

\* An order in which the query may return what it found names each of them, and goes
\* down in priority.
LEMMA OrdersNameAll ==
    ASSUME NEW mode, NEW order \in States!Matched(finals_, current_, mode)
    PROVE  /\ \E c : DOMAIN order = 1..c
           /\ \A k \in DOMAIN order :
                 /\ order[k] \in DOMAIN finals_
                 /\ States!Accepts(mode, current_, finals_[order[k]].required)
           /\ \A i \in DOMAIN finals_ :
                 States!Accepts(mode, current_, finals_[i].required) =>
                     \E k \in DOMAIN order : order[k] = i
           /\ \A i, j \in DOMAIN order :
                 i < j => finals_[order[j]].priority <= finals_[order[i]].priority
  <1>1. PICK found : found = {i \in DOMAIN finals_ :
                                 States!Accepts(mode, current_, finals_[i].required)}
    OBVIOUS
  <1>2. PICK c : c = States!Cardinality(found)
    OBVIOUS
  <1>3. /\ order \in States!Bijection(1..c, found)
        /\ \A i, j \in DOMAIN order :
               i < j => finals_[order[j]].priority <= finals_[order[i]].priority
    BY <1>1, <1>2 DEF States!Matched
  <1>4. order \in [1..c -> found] /\ \A i \in found : \E k \in 1..c : order[k] = i
    BY <1>3 DEF States!Bijection, States!Surjection
  <1>5. QED  BY <1>1, <1>3, <1>4

LEMMA BestIsFirst ==
    ASSUME FinalInv, NEW order \in States!Matched(finals_, current_, "contains"),
           NEW best, best = States!BestMatch(finals_, current_),
           NEW kept, kept = {k \in DOMAIN order : ~States!Excluded(finals_[order[k]], current_)}
    PROVE  IF best = 0 THEN kept = {}
           ELSE /\ kept # {}
                /\ finals_[order[States!Min(kept)]].priority = finals_[best].priority
  <1>1. /\ \E c : DOMAIN order = 1..c
        /\ \A k \in DOMAIN order : order[k] \in DOMAIN finals_ /\ Contained(order[k])
        /\ \A i \in DOMAIN finals_ : Contained(i) => \E k \in DOMAIN order : order[k] = i
        /\ \A i, j \in DOMAIN order :
               i < j => finals_[order[j]].priority <= finals_[order[i]].priority
    BY OrdersNameAll DEF Contained
  <1>2. \A k \in DOMAIN order : k \in kept <=> Fits(order[k])
    BY <1>1, FitsIsContained
  <1>3. CASE best = 0
    <2>1. \A i \in DOMAIN finals_ : ~Fits(i)
      BY <1>3, BestIsHighest
    <2>2. QED  BY <1>1, <1>2, <1>3, <2>1
  <1>4. CASE best # 0
    <2>1. /\ best \in DOMAIN finals_ /\ Fits(best)
          /\ \A i \in DOMAIN finals_ :
                 Fits(i) => finals_[i].priority <= finals_[best].priority
      BY <1>4, BestIsHighest
    <2>2. PICK k \in DOMAIN order : order[k] = best
      BY <1>1, <2>1, FitsIsContained
    <2>3. k \in kept /\ kept # {} /\ kept \subseteq Nat
      BY <1>1, <1>2, <2>1, <2>2
    <2>4. PICK m : m = States!Min(kept)
      OBVIOUS
    <2>5. m \in kept /\ m <= k /\ m \in Nat /\ k \in Nat
      BY <2>3, <2>4, MinIsLeast
    <2>6. finals_[order[m]].priority <= finals_[best].priority
      BY <1>1, <1>2, <2>1, <2>5
    <2>7. finals_[best].priority <= finals_[order[m]].priority
      <3>1. m = k \/ m < k
        BY <2>5
      <3>2. finals_[best].priority \in Int
        BY <2>1, FinalsHavePriorities
      <3>3. QED  BY <1>1, <2>2, <2>3, <2>5, <3>1, <3>2
    <2>8. finals_[best].priority \in Int /\ finals_[order[m]].priority \in Int
      BY <1>1, <2>1, <2>5, FinalsHavePriorities
    <2>9. QED  BY <1>4, <2>3, <2>4, <2>6, <2>7, <2>8
  <1>5. QED  BY <1>3, <1>4

LEMMA QueriesDoAgree == FinalInv => States!QueriesAgree
  <1> SUFFICES ASSUME FinalInv
               PROVE  States!QueriesAgree
    OBVIOUS
  <1>1. ASSUME NEW some \in States!Matched(finals_, current_, "OverlapsAny"),
               NEW i \in DOMAIN finals_,
               \/ States!OverlapsAllSubsystems(current_, finals_[i].required)
               \/ /\ States!ContainsAll(current_, finals_[i].required)
                  /\ \E s \in Subsystems : finals_[i].required[s] # {}
        PROVE  \E k \in DOMAIN some : some[k] = i
    <2>1. States!OverlapsAny(current_, finals_[i].required)
      <3>1. CASE States!OverlapsAllSubsystems(current_, finals_[i].required)
        BY <3>1, FinalsAreThere DEF States!OverlapsAllSubsystems, States!OverlapsAny
      <3>2. CASE /\ States!ContainsAll(current_, finals_[i].required)
                 /\ \E s \in Subsystems : finals_[i].required[s] # {}
        BY <3>2 DEF States!ContainsAll, States!OverlapsAny
      <3>3. QED  BY <1>1, <3>1, <3>2
    <2>2. States!Accepts("OverlapsAny", current_, finals_[i].required)
      BY <2>1 DEF States!Accepts
    <2>3. QED  BY <2>2, OrdersNameAll
  <1>2. PICK best : best = States!BestMatch(finals_, current_)
    OBVIOUS
  <1>3. ASSUME NEW order \in States!Matched(finals_, current_, "contains")
        PROVE  LET kept == {k \in DOMAIN order :
                               ~States!Excluded(finals_[order[k]], current_)} IN
               IF best = 0 THEN kept = {}
               ELSE /\ kept # {}
                    /\ finals_[order[States!Min(kept)]].priority = finals_[best].priority
    BY <1>2, BestIsFirst, Zenon
  <1>4. QED  BY <1>1, <1>2, <1>3, Zenon DEF States!QueriesAgree

-------------------------------------------------------------------------------

(***************************************************************************)
(* The events that are collected for a transition.                         *)
(***************************************************************************)

FiredInTime == fired.window > 0 => \A a \in fired.ages : a <= fired.window

EventInv ==
    /\ collected \in SUBSET Events /\ left \in SUBSET collected
    /\ elapsed \in 0..MaxAge /\ age \in [Events -> 0..MaxAge]
    \* what no earlier transition left over is younger than the round
    /\ \A b \in collected \ left : age[b] <= elapsed
    /\ FiredInTime

LEMMA RulesHaveWindows ==
    /\ MaxAge \in Nat /\ DOMAIN Rules \subseteq Nat
    /\ \A i \in DOMAIN Rules : Rules[i].window \in Nat /\ Rules[i].required \subseteq Events
  <1>1. /\ MaxAge \in Nat /\ Rules \in Seq(States!ToSet(Rules))
        /\ \A i \in DOMAIN Rules :
              /\ Rules[i].window \in 0..MaxAge - 1
              /\ Rules[i].required \subseteq Events
    BY StudiesAssumption DEF States!EventCollectorAssumption
  <1>2. DOMAIN Rules = 1..Len(Rules)
    BY <1>1
  <1>3. QED  BY <1>1, <1>2

LEMMA EventInitially == StudiesInit => EventInv
  <1> SUFFICES ASSUME States!EventInit  PROVE EventInv
    BY DEF StudiesInit
  <1>1. 0 \in 0..MaxAge /\ MaxAge \in 0..MaxAge
    BY RulesHaveWindows
  <1>2. QED  BY <1>1 DEF States!EventInit, States!NotFired, EventInv, FiredInTime

\* What a rule in time finds is in time, and what it leaves is left over.
LEMMA ApplyInTime ==
    ASSUME NEW rule, rule.window \in Nat, NEW all \in SUBSET Events, NEW old,
           age' \in [Events -> 0..MaxAge],
           \A b \in rule.required \ old : rule.window > 0 => age'[b] <= rule.window,
           States!Apply(rule, all, old)
    PROVE  EventInv'
  <1>1. /\ collected' \in SUBSET all /\ left' = collected' /\ elapsed' = 0
        /\ fired'.window = rule.window
        /\ fired'.ages = {age'[b] : b \in rule.required \ old}
    BY DEF States!Apply
  <1>2. FiredInTime'
    BY <1>1 DEF FiredInTime
  <1>3. 0 \in 0..MaxAge
    BY RulesHaveWindows
  <1>4. QED  BY <1>1, <1>2, <1>3 DEF EventInv

LEMMA KeepInTime ==
    ASSUME FiredInTime, NEW all \in SUBSET Events, NEW old, NEW since \in 0..MaxAge,
           age' \in [Events -> 0..MaxAge],
           \A b \in all \ old : age'[b] <= since,
           States!Keep(all, since, old)
    PROVE  EventInv'
  <1>1. /\ collected' = all /\ left' = old \cap all /\ elapsed' = since /\ fired' = fired
    BY DEF States!Keep
  <1>2. FiredInTime'
    BY <1>1 DEF FiredInTime
  <1>3. QED  BY <1>1, <1>2 DEF EventInv

LEMMA PostInTime ==
    ASSUME EventInv, NEW events \in SUBSET Events, States!Post(events)
    PROVE  EventInv'
  <1>1. PICK all, since, old :
            /\ all = collected \cup events
            /\ since = IF collected = {} THEN 0 ELSE elapsed
            /\ old = left \ events
    OBVIOUS
  <1>2. PICK mine : mine = {i \in DOMAIN Rules : Rules[i].from = state_}
    OBVIOUS
  <1>3. PICK found : found = {i \in mine : \/ States!Late(Rules[i], since)
                                          \/ Rules[i].required \subseteq all}
    OBVIOUS
  <1>4. PICK m : m = States!Min(found)
    OBVIOUS
  <1>5. PICK rest : rest = {i \in mine : i > m /\ Rules[i].required = {}}
    OBVIOUS
  <1>6. /\ age' = [b \in Events |-> IF b \in events THEN 0 ELSE age[b]]
        /\ IF found = {} THEN States!Keep(all, since, old)
           ELSE IF ~States!Late(Rules[m], since) THEN States!Apply(Rules[m], all, old)
           ELSE IF rest = {} THEN States!Keep({}, 0, old)
           ELSE States!Apply(Rules[States!Min(rest)], {}, old)
    BY <1>1, <1>2, <1>3, <1>4, <1>5 DEF States!Post
  <1>7. /\ 0 \in 0..MaxAge /\ since \in 0..MaxAge /\ all \in SUBSET Events
        /\ age' \in [Events -> 0..MaxAge]
    BY <1>1, <1>6, RulesHaveWindows DEF EventInv
  <1>8. ASSUME NEW b \in all \ old
        PROVE  age'[b] <= since
    <2>1. CASE b \in events
      BY <1>6, <1>7, <2>1
    <2>2. CASE b \notin events
      <3>1. b \in collected \ left /\ since = elapsed /\ b \in Events
        BY <1>1, <1>8, <2>2 DEF EventInv
      <3>2. age'[b] = age[b]
        BY <1>6, <2>2, <3>1
      <3>3. QED  BY <3>1, <3>2 DEF EventInv
    <2>3. QED  BY <2>1, <2>2
  <1>9. mine \subseteq DOMAIN Rules /\ found \subseteq mine /\ rest \subseteq mine
    BY <1>2, <1>3, <1>5
  <1>10. CASE found = {}
    BY <1>6, <1>7, <1>8, <1>10, KeepInTime DEF EventInv
  <1>11. CASE found # {} /\ ~States!Late(Rules[m], since)
    <2>1. m \in found /\ m \in DOMAIN Rules
      BY <1>4, <1>9, <1>11, RulesHaveWindows, MinIsLeast
    <2>2. Rules[m].window \in Nat /\ Rules[m].required \subseteq all
      BY <1>3, <1>11, <2>1, RulesHaveWindows
    <2>3. Rules[m].window > 0 => since <= Rules[m].window
      BY <1>7, <1>11, <2>2 DEF States!Late
    <2>4. ASSUME NEW b \in Rules[m].required \ old, Rules[m].window > 0
          PROVE  age'[b] <= Rules[m].window
      <3>1. b \in all \ old /\ b \in Events
        BY <1>7, <2>2, <2>4
      <3>2. age'[b] <= since /\ age'[b] \in 0..MaxAge
        BY <1>7, <1>8, <3>1
      <3>3. QED  BY <1>7, <2>2, <2>3, <2>4, <3>2
    <2>5. States!Apply(Rules[m], all, old)
      BY <1>6, <1>11
    <2>6. QED  BY <1>7, <2>2, <2>4, <2>5, ApplyInTime
  <1>12. CASE found # {} /\ States!Late(Rules[m], since) /\ rest = {}
    <2>1. States!Keep({}, 0, old) /\ FiredInTime /\ {} \in SUBSET Events
      BY <1>6, <1>12 DEF EventInv
    <2>2. QED  BY <1>7, <2>1, KeepInTime
  <1>13. CASE found # {} /\ States!Late(Rules[m], since) /\ rest # {}
    <2>1. PICK k : k = States!Min(rest)
      OBVIOUS
    <2>2. k \in rest /\ k \in DOMAIN Rules
      BY <1>9, <1>13, <2>1, RulesHaveWindows, MinIsLeast
    <2>3. Rules[k].required = {} /\ Rules[k].window \in Nat
      BY <1>5, <2>2, RulesHaveWindows
    <2>4. States!Apply(Rules[k], {}, old) /\ {} \in SUBSET Events
      BY <1>6, <1>13, <2>1
    <2>5. QED  BY <1>7, <2>3, <2>4, ApplyInTime
  <1>14. QED  BY <1>10, <1>11, <1>12, <1>13

LEMMA EventStep == EventInv /\ [States!EventNext]_eventVars => EventInv'
  <1> SUFFICES ASSUME EventInv, [States!EventNext]_eventVars
               PROVE  EventInv'
    OBVIOUS
  <1>1. CASE UNCHANGED eventVars
    BY <1>1 DEF eventVars, EventInv, FiredInTime
  <1>2. CASE States!Tick
    <2>1. /\ elapsed' = States!Older(elapsed)
          /\ age' = [b \in Events |-> States!Older(age[b])]
          /\ collected' = collected /\ left' = left /\ fired' = fired
      BY <1>2 DEF States!Tick
    <2>2. \A n \in 0..MaxAge : States!Older(n) \in 0..MaxAge
      BY RulesHaveWindows DEF States!Older
    <2>3. \A m, n \in 0..MaxAge : m <= n => States!Older(m) <= States!Older(n)
      BY RulesHaveWindows DEF States!Older
    <2>4. elapsed' \in 0..MaxAge /\ age' \in [Events -> 0..MaxAge]
      BY <2>1, <2>2 DEF EventInv
    <2>5. ASSUME NEW b \in collected \ left
          PROVE  age'[b] <= elapsed'
      BY <2>1, <2>3, <2>5 DEF EventInv
    <2>6. QED  BY <2>1, <2>4, <2>5 DEF EventInv, FiredInTime
  <1>3. CASE States!TickCall
    BY <1>3 DEF States!TickCall, EventInv, FiredInTime
  <1>4. ASSUME NEW events \in SUBSET Events, States!Post(events)
        PROVE  EventInv'
    BY <1>4, PostInTime
  <1>5. QED  BY <1>1, <1>2, <1>3, <1>4 DEF States!EventNext

LEMMA EventsDoComeInTime ==
    ASSUME EventInv, [States!EventNext]_eventVars
    PROVE  fired'.window > 0 => \A a \in fired'.ages : a <= fired'.window
  <1>1. EventInv'
    BY EventStep
  <1>2. QED  BY <1>1 DEF EventInv, FiredInTime

-------------------------------------------------------------------------------

(***************************************************************************)
(* The fields of the devices and subsystems in one mask.                   *)
(***************************************************************************)

Place(i, b) == i * Width + b
AllBits == {Place(i, b) : i \in Devices, b \in Mask!FieldBits}

TableInv == deviceMask \in SUBSET AllBits

LEMMA Multiples ==
    ASSUME NEW i \in Nat, NEW j \in Nat, NEW w \in Nat, i < j
    PROVE  i * w + w <= j * w
  <1>1. PICK d \in Nat : j = i + 1 + d
    <2>1. j - i - 1 \in Nat /\ j = i + 1 + (j - i - 1)
      OBVIOUS
    <2>2. QED  BY <2>1
  <1>2. j * w = i * w + w + d * w
    BY <1>1
  <1>3. d * w \in Nat /\ i * w \in Nat
    OBVIOUS
  <1>4. QED  BY <1>2, <1>3

LEMMA FieldsApart ==
    ASSUME NEW i \in Devices, NEW j \in Devices,
           NEW b \in Mask!FieldBits, NEW c \in Mask!FieldBits, Place(i, b) = Place(j, c)
    PROVE  i = j /\ b = c
  <1>1. i \in Nat /\ j \in Nat /\ Width \in Nat /\ b \in 0..Width - 1 /\ c \in 0..Width - 1
    BY StudiesAssumption DEF Mask!MaskAssumption, Mask!FieldBits
  <1>2. i * Width \in Nat /\ j * Width \in Nat /\ i * Width + b = j * Width + c
    BY <1>1 DEF Place
  <1>3. ~ (i < j)
    <2>1. i < j => i * Width + Width <= j * Width
      BY <1>1, Multiples
    <2>2. QED  BY <1>1, <1>2, <2>1
  <1>4. ~ (j < i)
    <2>1. j < i => j * Width + Width <= i * Width
      BY <1>1, Multiples
    <2>2. QED  BY <1>1, <1>2, <2>1
  <1>5. i = j
    BY <1>1, <1>3, <1>4
  <1>6. QED  BY <1>1, <1>2, <1>5

LEMMA FieldOf ==
    ASSUME NEW m, NEW i, NEW b \in Mask!FieldBits
    PROVE  b \in Mask!GetDeviceState(m, i) <=> Place(i, b) \in m
  BY DEF Mask!GetDeviceState, Place

\* Of two different numbers one is less.
LEMMA OneIsLess ==
    ASSUME NEW a \in SUBSET Mask!FieldBits, NEW b \in SUBSET Mask!FieldBits,
           ~Mask!Less(a, b), ~Mask!Less(b, a)
    PROVE  a = b
  <1>1. Width \in Nat /\ a \subseteq 0..Width - 1 /\ b \subseteq 0..Width - 1
    BY StudiesAssumption DEF Mask!MaskAssumption, Mask!FieldBits
  <1>2. PICK D : D = (a \ b) \cup (b \ a)
    OBVIOUS
  <1>3. D = (b \ a) \cup (a \ b)
    BY <1>2
  <1>4. SUFFICES ASSUME D # {}
                 PROVE  FALSE
    BY <1>2
  <1>5. PICK K : K = {Width - x : x \in D}
    OBVIOUS
  <1>6. D \subseteq 0..Width - 1
    BY <1>1, <1>2
  <1>7. K \subseteq Nat /\ K # {}
    <2>1. \A x \in D : Width - x \in Nat
      BY <1>1, <1>6
    <2>2. QED  BY <1>4, <1>5, <2>1
  <1>8. PICK k \in K : \A y \in K : k <= y
    BY <1>7, LeastNumber
  <1>9. PICK x \in D : k = Width - x
    BY <1>5, <1>8
  <1>10. \A y \in D : x >= y
    <2>1. \A y \in D : Width - x <= Width - y
      BY <1>5, <1>8, <1>9
    <2>2. QED  BY <1>1, <1>6, <1>9, <2>1
  <1>11. Mask!Max(D) \in D
    BY <1>9, <1>10 DEF Mask!Max
  <1>12. Mask!Max(D) \notin a /\ Mask!Max(D) \notin b
    <2>1. Mask!Less(a, b) <=> D # {} /\ Mask!Max(D) \in b
      BY <1>2 DEF Mask!Less
    <2>2. Mask!Less(b, a) <=> D # {} /\ Mask!Max(D) \in a
      BY <1>3 DEF Mask!Less
    <2>3. QED  BY <1>4, <2>1, <2>2
  <1>13. QED  BY <1>2, <1>11, <1>12

LEMMA NotLessThanItself ==
    ASSUME NEW a
    PROVE  ~Mask!Less(a, a)
  BY DEF Mask!Less

\* What each device gets when a mask is clamped.
Given(from, desired, i) ==
    Mask!Clamped(Mask!GetDeviceState(from, i), Mask!GetDeviceState(desired, i))

LEMMA GivenIsAState ==
    ASSUME NEW from, NEW desired, NEW i
    PROVE  Given(from, desired, i) \in SUBSET Mask!FieldBits
  BY DEF Given, Mask!Clamped, Mask!GetDeviceState

LEMMA ClampHas ==
    ASSUME NEW from, NEW desired
    PROVE  \A x : x \in Mask!ClampNoDowngrade(from, desired) <=>
                      \E i \in Devices : \E b \in Given(from, desired, i) : x = Place(i, b)
  <1>1. \A i \in Devices : Mask!SetDeviceState({}, i, Given(from, desired, i))
                              = {Place(i, b) : b \in Given(from, desired, i)}
    BY DEF Mask!SetDeviceState, Place
  <1>2. Mask!ClampNoDowngrade(from, desired)
            = UNION {Mask!SetDeviceState({}, i, Given(from, desired, i)) : i \in Devices}
    BY DEF Mask!ClampNoDowngrade, Given
  <1>3. QED  BY <1>1, <1>2

LEMMA ClampGives ==
    ASSUME NEW from, NEW desired, NEW j \in Devices
    PROVE  Mask!GetDeviceState(Mask!ClampNoDowngrade(from, desired), j) = Given(from, desired, j)
  <1>1. PICK m : m = Mask!ClampNoDowngrade(from, desired)
    OBVIOUS
  <1>2. ASSUME NEW b \in Mask!FieldBits
        PROVE  Place(j, b) \in m <=> b \in Given(from, desired, j)
    <2>1. Place(j, b) \in m <=> \E i \in Devices : \E c \in Given(from, desired, i) :
                                   Place(j, b) = Place(i, c)
      BY <1>1, ClampHas
    <2>2. ASSUME NEW i \in Devices, NEW c \in Given(from, desired, i), Place(j, b) = Place(i, c)
          PROVE  b \in Given(from, desired, j)
      <3>1. c \in Mask!FieldBits
        BY <2>2, GivenIsAState
      <3>2. j = i /\ b = c
        BY <1>2, <2>2, <3>1, FieldsApart
      <3>3. QED  BY <2>2, <3>2
    <2>3. QED  BY <2>1, <2>2
  <1>3. /\ Mask!GetDeviceState(m, j) \subseteq Mask!FieldBits
        /\ \A b \in Mask!FieldBits : b \in Mask!GetDeviceState(m, j) <=> Place(j, b) \in m
    BY FieldOf DEF Mask!GetDeviceState
  <1>4. Given(from, desired, j) \subseteq Mask!FieldBits
    BY GivenIsAState
  <1>5. QED  BY <1>1, <1>2, <1>3, <1>4

\* A clamped mask takes no device down and is clamped already.
LEMMA ClampGoesUp ==
    ASSUME NEW from, NEW desired, NEW to, to = Mask!ClampNoDowngrade(from, desired)
    PROVE  /\ Mask!CanTransitionNoDowngrade(from, to)
           /\ Mask!ClampNoDowngrade(to, from) = to
  <1>1. \A i \in Devices : Mask!GetDeviceState(to, i) = Given(from, desired, i)
    BY ClampGives
  <1>2. ASSUME NEW i \in Devices
        PROVE  ~Mask!Less(Mask!GetDeviceState(to, i), Mask!GetDeviceState(from, i))
    BY <1>1, NotLessThanItself DEF Given, Mask!Clamped
  <1>3. ASSUME NEW i \in Devices
        PROVE  Given(to, from, i) = Given(from, desired, i)
    <2>1. PICK a, b : a = Mask!GetDeviceState(to, i) /\ b = Mask!GetDeviceState(from, i)
      OBVIOUS
    <2>2. Given(to, from, i) = IF Mask!Less(b, a) THEN a ELSE b
      BY <2>1 DEF Given, Mask!Clamped
    <2>3. ~Mask!Less(a, b)
      BY <1>2, <2>1
    <2>4. a \in SUBSET Mask!FieldBits /\ b \in SUBSET Mask!FieldBits
      BY <2>1 DEF Mask!GetDeviceState
    <2>5. ~Mask!Less(b, a) => a = b
      BY <2>3, <2>4, OneIsLess
    <2>6. Given(to, from, i) = a
      BY <2>2, <2>5
    <2>7. QED  BY <1>1, <2>1, <2>6
  <1>4. \A x : x \in Mask!ClampNoDowngrade(to, from) <=> x \in to
    <2>1. \A x : x \in Mask!ClampNoDowngrade(to, from) <=>
                     \E i \in Devices : \E b \in Given(to, from, i) : x = Place(i, b)
      BY ClampHas
    <2>2. \A x : x \in to <=>
                     \E i \in Devices : \E b \in Given(from, desired, i) : x = Place(i, b)
      BY ClampHas
    <2>3. QED  BY <1>3, <2>1, <2>2
  <1>5. Mask!ClampNoDowngrade(to, from) = to
    <2>1. PICK again : again = Mask!ClampNoDowngrade(to, from)
      OBVIOUS
    <2>2. \A x : x \in again <=> x \in to
      BY <1>4, <2>1
    <2>3. again = to
      <3>1. again \subseteq to /\ to \subseteq again
        BY <2>2
      <3>2. QED  BY <3>1, <2>2
    <2>4. QED  BY <2>1, <2>3
  <1>6. QED  BY <1>2, <1>5 DEF Mask!CanTransitionNoDowngrade

LEMMA ClampIsAMask ==
    ASSUME NEW from, NEW desired
    PROVE  Mask!ClampNoDowngrade(from, desired) \in SUBSET AllBits
  <1>1. ASSUME NEW x \in Mask!ClampNoDowngrade(from, desired)
        PROVE  x \in AllBits
    <2>1. PICK i \in Devices : \E b \in Given(from, desired, i) : x = Place(i, b)
      BY <1>1, ClampHas
    <2>2. PICK b \in Given(from, desired, i) : x = Place(i, b)
      BY <2>1
    <2>3. b \in Mask!FieldBits
      BY <2>2, GivenIsAState
    <2>4. QED  BY <2>1, <2>2, <2>3 DEF AllBits
  <1>2. QED  BY <1>1

LEMMA MaskIsClamped ==
    ASSUME NEW m \in SUBSET AllBits
    PROVE  /\ Mask!CanTransitionNoDowngrade(m, m)
           /\ Mask!ClampNoDowngrade(m, m) = m
  <1>1. Mask!CanTransitionNoDowngrade(m, m)
    BY NotLessThanItself DEF Mask!CanTransitionNoDowngrade
  <1>2. \A i \in Devices : Given(m, m, i) = Mask!GetDeviceState(m, i)
    BY DEF Given, Mask!Clamped
  <1>3. PICK again : again = Mask!ClampNoDowngrade(m, m)
    OBVIOUS
  <1>4. ASSUME NEW x \in again
        PROVE  x \in m
    <2>1. PICK i \in Devices : \E b \in Given(m, m, i) : x = Place(i, b)
      BY <1>3, <1>4, ClampHas
    <2>2. PICK b \in Mask!GetDeviceState(m, i) : x = Place(i, b)
      BY <1>2, <2>1
    <2>3. QED  BY <2>2, FieldOf DEF Mask!GetDeviceState
  <1>5. ASSUME NEW x \in m
        PROVE  x \in again
    <2>1. PICK i \in Devices, b \in Mask!FieldBits : x = Place(i, b)
      BY <1>5 DEF AllBits
    <2>2. b \in Given(m, m, i)
      BY <1>2, <1>5, <2>1, FieldOf
    <2>3. QED  BY <1>3, <2>1, <2>2, ClampHas
  <1>6. again = m
    BY <1>4, <1>5
  <1>7. QED  BY <1>1, <1>3, <1>6

\* What SetSubsystemState leaves: the other fields, and of its own what it neither
\* clears nor sets.
LEMMA SetKeepsOthers ==
    ASSUME NEW m, NEW i \in Devices, NEW state \in Mask!States,
           NEW n, n = Mask!SetSubsystemState(m, i, state)
    PROVE  /\ \A j \in Devices \ {i} : Mask!GetDeviceState(n, j) = Mask!GetDeviceState(m, j)
           /\ Mask!GetSubsystemState(n, i) = state \cap (0..(Cleared - 1))
           /\ Mask!GetDeviceState(n, i) \ state
                  \subseteq Mask!GetDeviceState(m, i) \ (0..(Cleared - 1))
  <1>1. PICK low : low = 0..(Cleared - 1)
    OBVIOUS
  <1>2. low \subseteq Mask!FieldBits /\ state \subseteq Mask!FieldBits
    BY <1>1, StudiesAssumption DEF Mask!MaskAssumption, Mask!FieldBits, Mask!States
  <1>3. PICK C, S : C = {Place(i, b) : b \in low} /\ S = {Place(i, b) : b \in state}
    OBVIOUS
  <1>4. ASSUME NEW j \in Devices, NEW c \in Mask!FieldBits
        PROVE  /\ j = i => (Place(j, c) \in n <=>
                    c \in state \/ (Place(j, c) \in m /\ c \notin low))
               /\ j # i => (Place(j, c) \in n <=> Place(j, c) \in m)
    <2>1. n = (m \ C) \cup S
      BY <1>1, <1>3 DEF Mask!SetSubsystemState, Place
    <2>2. \A b \in Mask!FieldBits : Place(j, c) = Place(i, b) <=> j = i /\ c = b
      BY <1>4, FieldsApart
    <2>3. Place(j, c) \in C <=> j = i /\ c \in low
      BY <1>2, <1>3, <2>2
    <2>4. Place(j, c) \in S <=> j = i /\ c \in state
      BY <1>2, <1>3, <2>2
    <2>5. PICK p : p = Place(j, c)
      OBVIOUS
    <2>6. p \in n <=> p \in S \/ (p \in m /\ p \notin C)
      BY <2>1
    <2>7. QED  BY <2>3, <2>4, <2>5, <2>6
  <1>5. ASSUME NEW j \in Devices \ {i}
        PROVE  Mask!GetDeviceState(n, j) = Mask!GetDeviceState(m, j)
    <2>1. ASSUME NEW c \in Mask!FieldBits
          PROVE  c \in Mask!GetDeviceState(n, j) <=> c \in Mask!GetDeviceState(m, j)
      <3>1. Place(j, c) \in n <=> Place(j, c) \in m
        <4>1. j \in Devices /\ j # i
          BY <1>5
        <4>2. QED  BY <1>4, <2>1, <4>1
      <3>2. QED  BY <3>1, FieldOf
    <2>2. /\ Mask!GetDeviceState(n, j) \subseteq Mask!FieldBits
          /\ Mask!GetDeviceState(m, j) \subseteq Mask!FieldBits
      BY DEF Mask!GetDeviceState
    <2>3. QED  BY <2>1, <2>2
  <1>6. Mask!GetSubsystemState(n, i) = state \cap low
    <2>1. Mask!GetSubsystemState(n, i) = {b \in low : Place(i, b) \in n}
      BY <1>1 DEF Mask!GetSubsystemState, Place
    <2>2. \A b \in low : Place(i, b) \in n <=> b \in state
      BY <1>2, <1>4
    <2>3. QED  BY <2>1, <2>2
  <1>7. ASSUME NEW b \in Mask!GetDeviceState(n, i), b \notin state
        PROVE  b \in Mask!GetDeviceState(m, i) /\ b \notin low
    <2>1. b \in Mask!FieldBits /\ Place(i, b) \in n
      BY <1>7 DEF Mask!GetDeviceState, Place
    <2>2. Place(i, b) \in m /\ b \notin low
      BY <1>4, <1>7, <2>1
    <2>3. QED  BY <2>1, <2>2, FieldOf
  <1>8. QED  BY <1>1, <1>5, <1>6, <1>7

LEMMA TableInitially == StudiesInit => TableInv
  BY DEF StudiesInit, Mask!TableInit, TableInv

LEMMA TableStep == TableInv /\ [Mask!TableNext]_tableVars => TableInv'
  <1> SUFFICES ASSUME TableInv, [Mask!TableNext]_tableVars
               PROVE  TableInv'
    OBVIOUS
  <1>1. deviceMask' = deviceMask \/ \E desired : Mask!GetNextMask(desired)
    BY DEF Mask!TableNext, Mask!Set, tableVars
  <1>2. ASSUME NEW desired, Mask!GetNextMask(desired)
        PROVE  TableInv'
    <2>1. deviceMask' = Mask!ClampNoDowngrade(deviceMask, desired)
      BY <1>2 DEF Mask!GetNextMask
    <2>2. QED  BY <2>1, ClampIsAMask DEF TableInv
  <1>3. QED  BY <1>1, <1>2 DEF TableInv

FieldsKept ==
    /\ Mask!CanTransitionNoDowngrade(deviceMask, deviceMask')
    /\ Mask!ClampNoDowngrade(deviceMask', deviceMask) = deviceMask'
    /\ \A i \in Devices :
          Mask!GetDeviceState(subMask', i) # Mask!GetDeviceState(subMask, i) =>
              /\ \A j \in Devices \ {i} :
                     Mask!GetDeviceState(subMask', j) = Mask!GetDeviceState(subMask, j)
              /\ \E state \in Mask!States :
                    /\ Mask!GetSubsystemState(subMask', i) = state \cap (0..(Cleared - 1))
                    /\ Mask!GetDeviceState(subMask', i) \ state
                           \subseteq Mask!GetDeviceState(subMask, i) \ (0..(Cleared - 1))

LEMMA FieldsAreKept ==
    ASSUME TableInv, [Mask!TableNext]_tableVars
    PROVE  [FieldsKept]_tableVars
  <1>1. CASE UNCHANGED tableVars
    BY <1>1
  <1>2. ASSUME NEW desired, Mask!GetNextMask(desired)
        PROVE  FieldsKept
    <2>1. deviceMask' = Mask!ClampNoDowngrade(deviceMask, desired) /\ subMask' = subMask
      BY <1>2 DEF Mask!GetNextMask
    <2>2. /\ Mask!CanTransitionNoDowngrade(deviceMask, deviceMask')
          /\ Mask!ClampNoDowngrade(deviceMask', deviceMask) = deviceMask'
      BY <2>1, ClampGoesUp
    <2>3. QED  BY <2>1, <2>2 DEF FieldsKept
  <1>3. ASSUME NEW i \in Devices, NEW state \in Mask!States, Mask!Set(i, state)
        PROVE  FieldsKept
    <2>1. subMask' = Mask!SetSubsystemState(subMask, i, state) /\ deviceMask' = deviceMask
      BY <1>3 DEF Mask!Set
    <2>2. /\ Mask!CanTransitionNoDowngrade(deviceMask, deviceMask')
          /\ Mask!ClampNoDowngrade(deviceMask', deviceMask) = deviceMask'
      BY <2>1, MaskIsClamped DEF TableInv
    <2>3. /\ \A j \in Devices \ {i} :
                 Mask!GetDeviceState(subMask', j) = Mask!GetDeviceState(subMask, j)
          /\ Mask!GetSubsystemState(subMask', i) = state \cap (0..(Cleared - 1))
          /\ Mask!GetDeviceState(subMask', i) \ state
                 \subseteq Mask!GetDeviceState(subMask, i) \ (0..(Cleared - 1))
      BY <2>1, SetKeepsOthers
    <2>4. \A j \in Devices :
              Mask!GetDeviceState(subMask', j) # Mask!GetDeviceState(subMask, j) => j = i
      BY <2>3
    <2>5. QED  BY <1>3, <2>2, <2>3, <2>4 DEF FieldsKept
  <1>4. QED  BY <1>1, <1>2, <1>3 DEF Mask!TableNext

(***************************************************************************)
(* TournamentTree.  A tree of n leaves has its matches at 1 .. n-1 and     *)
(* leaf i at n+i.                                                          *)
(***************************************************************************)

\* Induction up to a number, for a property given as the set of those that have it.
LEMMA Induction ==
    ASSUME NEW n \in Nat, NEW G, 0 \in G,
           \A m \in 0..n - 1 : m \in G => m + 1 \in G
    PROVE  \A m \in 0..n : m \in G
  <1>1. PICK T : T = {m \in 0..n : m \notin G}
    OBVIOUS
  <1>2. ASSUME T # {}
        PROVE  FALSE
    <2>1. T \subseteq Nat
      BY <1>1
    <2>2. PICK m \in T : \A y \in T : m <= y
      BY <1>2, <2>1, LeastNumber
    <2>3. m \in 0..n /\ m # 0 /\ m \notin G
      BY <1>1, <2>2
    <2>4. m - 1 \in 0..n - 1 /\ m - 1 \in 0..n /\ m - 1 \notin T /\ (m - 1) + 1 = m
      BY <2>2, <2>3
    <2>5. QED  BY <1>1, <2>3, <2>4
  <1>3. QED  BY <1>1, <1>2

LEMMA HalfIs ==
    \A c \in Nat : c \div 2 \in Nat /\ (c = 2 * (c \div 2) \/ c = 2 * (c \div 2) + 1)
  OBVIOUS

Iterated(n, S, base, step, w) ==
    w \in [0..n -> S] /\ w[0] = base /\ \A i \in 1..n : w[i] = step[i][w[i - 1]]

\* A recursion over an interval whose steps stay in a set has a solution.
LEMMA Iterates ==
    ASSUME NEW n \in Nat, NEW S, NEW base \in S, NEW step \in [1..n -> [S -> S]]
    PROVE  \E w : Iterated(n, S, base, step, w)
  <1> DEFINE Ok(m) == \E w \in [0..m -> S] :
                         w[0] = base /\ \A i \in 1..m : w[i] = step[i][w[i - 1]]
  <1>1. PICK G : G = {m \in 0..n : Ok(m)}
    OBVIOUS
  <1>2. 0 \in G
    <2>1. PICK w : w = [i \in 0..0 |-> base]
      OBVIOUS
    <2>2. w \in [0..0 -> S] /\ w[0] = base /\ \A i \in 1..0 : w[i] = step[i][w[i - 1]]
      BY <2>1
    <2>3. Ok(0)
      BY <2>2
    <2>4. QED  BY <1>1, <2>3
  <1>3. ASSUME NEW m \in 0..n - 1, m \in G
        PROVE  m + 1 \in G
    <2>1. PICK w \in [0..m -> S] : w[0] = base /\ \A i \in 1..m : w[i] = step[i][w[i - 1]]
      BY <1>1, <1>3
    <2>2. w[m] \in S /\ m + 1 \in 1..n
      <3>1. m \in 0..m
        OBVIOUS
      <3>2. QED  BY <3>1
    <2>3. step[m + 1][w[m]] \in S
      <3>1. step[m + 1] \in [S -> S]
        BY <2>2
      <3>2. QED  BY <2>2, <3>1
    <2>4. PICK g : g = [i \in 0..m + 1 |-> IF i = m + 1 THEN step[m + 1][w[m]] ELSE w[i]]
      OBVIOUS
    <2>5. g \in [0..m + 1 -> S] /\ g[0] = base
      BY <2>1, <2>3, <2>4
    <2>6. ASSUME NEW i \in 1..m + 1
          PROVE  g[i] = step[i][g[i - 1]]
      <3>1. CASE i = m + 1
        BY <2>4, <3>1
      <3>2. CASE i # m + 1
        BY <2>1, <2>4, <3>2
      <3>3. QED  BY <3>1, <3>2
    <2>7. Ok(m + 1) /\ m + 1 \in 0..n
      BY <2>5, <2>6
    <2>8. QED  BY <1>1, <2>7
  <1>4. \A m \in 0..n : m \in G
    BY <1>2, <1>3, Induction
  <1>5. n \in 0..n
    OBVIOUS
  <1>6. Ok(n)
    BY <1>1, <1>4, <1>5
  <1>7. QED  BY <1>6 DEF Iterated

\* What goes from each node to its children goes from the root to all nodes.
LEMMA FromRoot ==
    ASSUME NEW m \in Nat \ {0}, NEW G, 1 \in G,
           \A c \in 2..m : c \div 2 \in G => c \in G
    PROVE  \A c \in 1..m : c \in G
  <1>1. PICK H : H = {i \in 0..m : \A c \in 1..i : c \in G}
    OBVIOUS
  <1>2. 0 \in H
    BY <1>1
  <1>3. ASSUME NEW i \in 0..m - 1, i \in H
        PROVE  i + 1 \in H
    <2>1. i + 1 \in G
      <3>1. CASE i = 0
        BY <3>1
      <3>2. CASE i # 0
        <4>1. (i + 1) \div 2 \in 1..i /\ i + 1 \in 2..m
          BY <3>2, HalfIs
        <4>2. QED  BY <1>1, <1>3, <4>1
      <3>3. QED  BY <3>1, <3>2
    <2>2. \A c \in 1..i + 1 : c \in G
      <3>1. \A c \in 1..i + 1 : c \in 1..i \/ c = i + 1
        OBVIOUS
      <3>2. QED  BY <1>1, <1>3, <2>1, <3>1
    <2>3. i + 1 \in 0..m
      OBVIOUS
    <2>4. QED  BY <1>1, <2>2, <2>3
  <1>4. \A i \in 0..m : i \in H
    BY <1>2, <1>3, Induction
  <1>5. m \in 0..m
    OBVIOUS
  <1>6. QED  BY <1>1, <1>4, <1>5

\* What goes from two children to their node goes from the leaves to all nodes.
LEMMA FromLeaves ==
    ASSUME NEW n \in Nat \ {0}, NEW G, \A c \in n..2 * n - 1 : c \in G,
           \A c \in 1..n - 1 : 2 * c \in G /\ 2 * c + 1 \in G => c \in G
    PROVE  \A c \in 1..2 * n - 1 : c \in G
  <1>1. PICK H : H = {i \in 0..n - 1 : \A c \in n - i..2 * n - 1 : c \in G}
    OBVIOUS
  <1>2. 0 \in H
    BY <1>1
  <1>3. ASSUME NEW i \in 0..(n - 1) - 1, i \in H
        PROVE  i + 1 \in H
    <2>1. /\ n - (i + 1) \in 1..n - 1
          /\ 2 * (n - (i + 1)) \in n - i..2 * n - 1
          /\ 2 * (n - (i + 1)) + 1 \in n - i..2 * n - 1
      OBVIOUS
    <2>2. n - (i + 1) \in G
      BY <1>1, <1>3, <2>1
    <2>3. ASSUME NEW c \in n - (i + 1)..2 * n - 1
          PROVE  c \in G
      <3>1. c \in n - i..2 * n - 1 \/ c = n - (i + 1)
        OBVIOUS
      <3>2. QED  BY <1>1, <1>3, <2>2, <3>1
    <2>4. i + 1 \in 0..n - 1
      OBVIOUS
    <2>5. QED  BY <1>1, <2>3, <2>4
  <1>4. \A i \in 0..n - 1 : i \in H
    <2>1. n - 1 \in Nat
      OBVIOUS
    <2>2. QED  BY <1>2, <1>3, <2>1, Induction
  <1>5. n - 1 \in 0..n - 1 /\ n - (n - 1) = 1
    OBVIOUS
  <1>6. QED  BY <1>1, <1>4, <1>5

\* The nodes on the way from node c to the root.
IsPath(P, c) ==
    /\ P \subseteq 1..c /\ c \in P
    /\ \A a \in P : a > 1 => a \div 2 \in P
    /\ \A a, b \in P : a < b => a <= b \div 2

LEMMA PathExists ==
    ASSUME NEW m \in Nat \ {0}
    PROVE  \E P : IsPath(P, m)
  <1>1. PICK G : G = {c \in 1..m : \E P : IsPath(P, c)}
    OBVIOUS
  <1>2. 1 \in G
    <2>1. IsPath({1}, 1)
      BY DEF IsPath
    <2>2. 1 \in 1..m
      OBVIOUS
    <2>3. QED  BY <1>1, <2>1, <2>2
  <1>3. ASSUME NEW c \in 2..m, c \div 2 \in G
        PROVE  c \in G
    <2>1. PICK P : IsPath(P, c \div 2)
      BY <1>1, <1>3
    <2>2. PICK h \in Nat : h = c \div 2 /\ h < c /\ c \in Nat /\ c > 1
      BY HalfIs
    <2>3. P \subseteq 1..h /\ h \in P
      BY <2>1, <2>2 DEF IsPath
    <2>4. PICK Q : Q = P \cup {c}
      OBVIOUS
    <2>5. Q \subseteq 1..c /\ c \in Q
      BY <2>2, <2>3, <2>4
    <2>6. \A a \in Q : a > 1 => a \div 2 \in Q
      BY <2>1, <2>2, <2>3, <2>4 DEF IsPath
    <2>7. ASSUME NEW a \in Q, NEW b \in Q, a < b
          PROVE  a <= b \div 2
      <3>1. a \in P
        BY <2>2, <2>3, <2>4, <2>7
      <3>2. CASE b = c
        BY <2>2, <2>3, <3>1, <3>2
      <3>3. CASE b \in P
        BY <2>1, <2>7, <3>1, <3>3 DEF IsPath
      <3>4. QED  BY <2>4, <3>2, <3>3
    <2>8. IsPath(Q, c)
      BY <2>5, <2>6, <2>7 DEF IsPath
    <2>9. QED  BY <1>1, <2>8
  <1>4. \A c \in 1..m : c \in G
    BY <1>2, <1>3, FromRoot
  <1>5. m \in 1..m
    OBVIOUS
  <1>6. QED  BY <1>1, <1>4, <1>5

\* A way goes through one child only.
LEMMA OneChildOnPath ==
    ASSUME NEW m \in Nat, NEW P, IsPath(P, m), NEW j \in Nat \ {0}
    PROVE  ~ (2 * j \in P /\ 2 * j + 1 \in P)
  <1>1. ASSUME 2 * j \in P, 2 * j + 1 \in P
        PROVE  FALSE
    <2>1. 2 * j <= (2 * j + 1) \div 2
      BY <1>1 DEF IsPath
    <2>2. (2 * j + 1) \div 2 = j
      OBVIOUS
    <2>3. QED  BY <2>1, <2>2
  <1>2. QED  BY <1>1

LEMMA SameCardinalities ==
    ASSUME NEW S
    PROVE  Tournament!Cardinality(S) = Cardinality(S)
  BY DEF Tournament!Cardinality, Cardinality

Vector(n, l) == n \in Nat \ {0} /\ l \in [0..n - 1 -> Int]

LEMMA kIs ==
    ASSUME NEW n, NEW l, Vector(n, l)
    PROVE  Tournament!k(l) = n
  <1>1. n \in Nat \ {0} /\ DOMAIN l = 0..n - 1
    BY DEF Vector
  <1>2. Cardinality(0..n - 1) = IF 0 > n - 1 THEN 0 ELSE (n - 1) - 0 + 1
    BY <1>1, FS_Interval
  <1>3. QED  BY <1>1, <1>2, SameCardinalities DEF Tournament!k

\* The tree once all matches but those at E are decided.
Played(n, l, t, E) ==
    /\ Vector(n, l) /\ t \in [0..2 * n - 1 -> -1..n - 1]
    /\ \A j \in n..2 * n - 1 : t[j] = j - n
    /\ \A j \in 1..n - 1 : j \notin E =>
           t[j] \in 0..n - 1 /\ t[j] = Tournament!Winning(l, t, j)

Play(l, t, i) == [t EXCEPT ![i] = Tournament!Winning(l, t, i)]

\* The match at i is decided after those of its children and before its parent's.
LEMMA PlayOne ==
    ASSUME NEW n, NEW l, NEW t, NEW E, Played(n, l, t, E), NEW i \in 1..n - 1,
           2 * i \notin E, 2 * i + 1 \notin E, i = 1 \/ i \div 2 \in E,
           NEW F, F = E \ {i}
    PROVE  Played(n, l, Play(l, t, i), F)
  <1>1. /\ n \in Nat \ {0} /\ l \in [0..n - 1 -> Int] /\ t \in [0..2 * n - 1 -> -1..n - 1]
        /\ \A j \in n..2 * n - 1 : t[j] = j - n
    BY DEF Played, Vector
  <1>2. PICK w : w = Tournament!Winning(l, t, i)
    OBVIOUS
  <1>3. PICK u : u = [t EXCEPT ![i] = w]
    OBVIOUS
  <1>4. ASSUME NEW c \in {2 * i, 2 * i + 1}
        PROVE  t[c] \in 0..n - 1
    <2>1. c \in 1..2 * n - 1 /\ c \notin E
      <3>1. c = 2 * i \/ c = 2 * i + 1
        OBVIOUS
      <3>2. c \in 1..2 * n - 1
        BY <1>1, <3>1
      <3>3. QED  BY <3>1, <3>2
    <2>2. CASE c \in n..2 * n - 1
      BY <1>1, <2>2
    <2>3. CASE c \in 1..n - 1
      BY <2>1, <2>3 DEF Played
    <2>4. QED  BY <1>1, <2>1, <2>2, <2>3
  <1>5. w \in 0..n - 1
    BY <1>2, <1>4 DEF Tournament!Winning
  <1>6. u \in [0..2 * n - 1 -> -1..n - 1] /\ u[i] = w /\ \A j \in 0..2 * n - 1 : j # i => u[j] = t[j]
    <2>1. i \in 0..2 * n - 1 /\ w \in -1..n - 1
      BY <1>1, <1>5
    <2>2. QED  BY <1>1, <1>3, <2>1
  <1>7. \A j \in n..2 * n - 1 : u[j] = j - n
    <2>1. \A j \in n..2 * n - 1 : j # i /\ j \in 0..2 * n - 1
      BY <1>1
    <2>2. QED  BY <1>1, <1>6, <2>1
  <1>8. ASSUME NEW j \in 1..n - 1, j \notin F
        PROVE  u[j] \in 0..n - 1 /\ u[j] = Tournament!Winning(l, u, j)
    <2>1. j \in 0..2 * n - 1 /\ 2 * j \in 0..2 * n - 1 /\ 2 * j + 1 \in 0..2 * n - 1
      BY <1>1
    <2>2. CASE j = i
      <3>1. u[2 * i] = t[2 * i] /\ u[2 * i + 1] = t[2 * i + 1]
        BY <1>6, <2>1, <2>2
      <3>2. QED  BY <1>2, <1>5, <1>6, <2>2, <3>1 DEF Tournament!Winning
    <2>3. CASE j # i
      <3>1. j \notin E
        BY <1>8, <2>3
      <3>2. 2 * j # i /\ 2 * j + 1 # i
        <4>1. \A m \in Nat : (2 * m) \div 2 = m /\ (2 * m + 1) \div 2 = m
          OBVIOUS
        <4>2. 2 * j = i \/ 2 * j + 1 = i => i # 1 /\ i \div 2 = j
          BY <4>1
        <4>3. QED  BY <3>1, <4>2
      <3>3. u[2 * j] = t[2 * j] /\ u[2 * j + 1] = t[2 * j + 1] /\ u[j] = t[j]
        BY <1>6, <2>1, <2>3, <3>2
      <3>4. t[j] \in 0..n - 1 /\ t[j] = Tournament!Winning(l, t, j)
        BY <3>1 DEF Played
      <3>5. QED  BY <3>3, <3>4 DEF Tournament!Winning
    <2>4. QED  BY <2>2, <2>3
  <1>9. QED  BY <1>1, <1>2, <1>3, <1>6, <1>7, <1>8 DEF Played, Play, Vector

WinnerTree(n, l, t) == Played(n, l, t, {}) /\ t[0] = t[1]

\* The root's place is no node of the matches.
LEMMA WinnerOnTop ==
    ASSUME NEW n, NEW l, NEW t, Played(n, l, t, {})
    PROVE  WinnerTree(n, l, [t EXCEPT ![0] = t[1]])
  <1>1. n \in Nat \ {0} /\ t \in [0..2 * n - 1 -> -1..n - 1]
    BY DEF Played, Vector
  <1>2. PICK u : u = [t EXCEPT ![0] = t[1]]
    OBVIOUS
  <1>3. /\ u \in [0..2 * n - 1 -> -1..n - 1] /\ u[0] = t[1]
        /\ \A j \in 1..2 * n - 1 : u[j] = t[j]
    <2>1. 0 \in 0..2 * n - 1 /\ 1 \in 0..2 * n - 1
      BY <1>1
    <2>2. \A j \in 1..2 * n - 1 : j \in 0..2 * n - 1 /\ j # 0
      BY <1>1
    <2>3. t[1] \in -1..n - 1
      BY <1>1, <2>1
    <2>4. QED  BY <1>1, <1>2, <2>1, <2>2, <2>3
  <1>4. \A j \in n..2 * n - 1 : u[j] = j - n
    <2>1. \A j \in n..2 * n - 1 : j \in 1..2 * n - 1
      BY <1>1
    <2>2. QED  BY <1>3, <2>1 DEF Played
  <1>5. ASSUME NEW j \in 1..n - 1
        PROVE  u[j] \in 0..n - 1 /\ u[j] = Tournament!Winning(l, u, j)
    <2>1. j \in 1..2 * n - 1 /\ 2 * j \in 1..2 * n - 1 /\ 2 * j + 1 \in 1..2 * n - 1
      BY <1>1
    <2>2. u[2 * j] = t[2 * j] /\ u[2 * j + 1] = t[2 * j + 1] /\ u[j] = t[j]
      BY <1>3, <2>1
    <2>3. t[j] \in 0..n - 1 /\ t[j] = Tournament!Winning(l, t, j)
      BY DEF Played
    <2>4. QED  BY <2>2, <2>3 DEF Tournament!Winning
  <1>6. u[1] = t[1]
    BY <1>1, <1>3
  <1>7. QED  BY <1>2, <1>3, <1>4, <1>5, <1>6 DEF Played, WinnerTree

\* Vacant's value is less than the winner's.
LEMMA WinnerIsLeast ==
    ASSUME NEW n, NEW l, NEW t, WinnerTree(n, l, t)
    PROVE  \A i \in 0..n - 1 : l[t[0]] <= l[i]
  <1>1. /\ n \in Nat \ {0} /\ l \in [0..n - 1 -> Int] /\ t \in [0..2 * n - 1 -> -1..n - 1]
        /\ \A j \in n..2 * n - 1 : t[j] = j - n
    BY DEF WinnerTree, Played, Vector
  <1>2. ASSUME NEW j \in 1..2 * n - 1
        PROVE  t[j] \in 0..n - 1 /\ l[t[j]] \in Int
    <2>1. CASE j \in n..2 * n - 1
      BY <1>1, <2>1
    <2>2. CASE j \in 1..n - 1
      <3>1. t[j] \in 0..n - 1
        BY <2>2 DEF WinnerTree, Played
      <3>2. QED  BY <1>1, <3>1
    <2>3. QED  BY <1>1, <2>1, <2>2
  <1>3. PICK G : G = {j \in 1..2 * n - 1 : l[t[1]] <= l[t[j]]}
    OBVIOUS
  <1>4. 1 \in G
    <2>1. 1 \in 1..2 * n - 1
      BY <1>1
    <2>2. QED  BY <1>2, <1>3, <2>1
  <1>5. ASSUME NEW c \in 2..2 * n - 1, c \div 2 \in G
        PROVE  c \in G
    <2>1. PICK p \in Nat : p = c \div 2 /\ (c = 2 * p \/ c = 2 * p + 1)
      BY HalfIs
    <2>2. /\ p \in 1..n - 1 /\ p \in 1..2 * n - 1 /\ c \in 1..2 * n - 1
          /\ 2 * p \in 1..2 * n - 1 /\ 2 * p + 1 \in 1..2 * n - 1 /\ 1 \in 1..2 * n - 1
      BY <1>1, <2>1
    <2>3. t[p] = Tournament!Winning(l, t, p)
      BY <2>2 DEF WinnerTree, Played
    <2>4. l[t[p]] <= l[t[2 * p]] /\ l[t[p]] <= l[t[2 * p + 1]]
      BY <1>2, <2>2, <2>3 DEF Tournament!Winning
    <2>5. l[t[1]] <= l[t[p]]
      BY <1>3, <1>5, <2>1
    <2>6. l[t[1]] <= l[t[c]]
      BY <1>2, <2>1, <2>2, <2>4, <2>5
    <2>7. QED  BY <1>3, <2>2, <2>6
  <1>6. \A j \in 1..2 * n - 1 : j \in G
    <2>1. 2 * n - 1 \in Nat \ {0}
      BY <1>1
    <2>2. QED  BY <1>4, <1>5, <2>1, FromRoot
  <1>7. ASSUME NEW i \in 0..n - 1
        PROVE  l[t[0]] <= l[i]
    <2>1. n + i \in 1..2 * n - 1 /\ n + i \in n..2 * n - 1
      BY <1>1
    <2>2. t[n + i] = i
      BY <1>1, <2>1
    <2>3. l[t[1]] <= l[t[n + i]]
      BY <1>3, <1>6, <2>1
    <2>4. QED  BY <2>2, <2>3 DEF WinnerTree
  <1>8. QED  BY <1>7

\* The node before the last match decided.
Undecided(n) == [j \in 0..2 * n - 1 |-> IF j >= n THEN j - n ELSE -1]

LEMMA PlayStays ==
    ASSUME NEW n, NEW l, Vector(n, l), NEW t \in [0..2 * n - 1 -> -1..n - 1], NEW i \in 1..n - 1
    PROVE  Play(l, t, i) \in [0..2 * n - 1 -> -1..n - 1]
  <1>1. n \in Nat \ {0}
    BY DEF Vector
  <1>2. 2 * i \in 0..2 * n - 1 /\ 2 * i + 1 \in 0..2 * n - 1
    BY <1>1
  <1>3. t[2 * i] \in -1..n - 1 /\ t[2 * i + 1] \in -1..n - 1
    BY <1>2
  <1>4. Tournament!Winning(l, t, i) \in -1..n - 1
    BY <1>3 DEF Tournament!Winning
  <1>5. QED  BY <1>4 DEF Play

\* build's loop, from the last match to the first.
LEMMA BuildingPlays ==
    ASSUME NEW n, NEW l, Vector(n, l)
    PROVE  \E g : /\ \A i \in 1..n : g[i] = IF i = n THEN Undecided(n) ELSE Play(l, g[i + 1], i)
                  /\ Tournament!WinnerBuilt(l) = [g[1] EXCEPT ![0] = g[1][1]]
  <1>0. n \in Nat \ {0} /\ Tournament!k(l) = n
    BY kIs DEF Vector
  <1>1. PICK S : S = [0..2 * n - 1 -> -1..n - 1]
    OBVIOUS
  <1>2. PICK step : step = [m \in 1..n - 1 |-> [t \in S |-> Play(l, t, n - m)]]
    OBVIOUS
  <1>3. ASSUME NEW m \in 1..n - 1, NEW t \in S
        PROVE  Play(l, t, n - m) \in S
    <2>1. n - m \in 1..n - 1
      BY <1>0
    <2>2. QED  BY <1>1, <2>1, PlayStays
  <1>4. step \in [1..n - 1 -> [S -> S]]
    BY <1>2, <1>3
  <1>5. Undecided(n) \in S
    BY <1>0, <1>1 DEF Undecided
  <1>6. PICK w \in [0..n - 1 -> S] :
            w[0] = Undecided(n) /\ \A m \in 1..n - 1 : w[m] = step[m][w[m - 1]]
    <2>1. PICK h \in Nat : h = n - 1
      BY <1>0
    <2>2. step \in [1..h -> [S -> S]]
      BY <1>4, <2>1
    <2>3. \E w : Iterated(h, S, Undecided(n), step, w)
      BY <1>5, <2>2, Iterates
    <2>4. QED  BY <2>1, <2>3 DEF Iterated
  <1>7. PICK f : f = [i \in 1..n |-> w[n - i]]
    OBVIOUS
  <1>8. ASSUME NEW i \in 1..n
        PROVE  f[i] = IF i = n THEN Undecided(n) ELSE Play(l, f[i + 1], i)
    <2>1. CASE i = n
      BY <1>0, <1>6, <1>7, <2>1
    <2>2. CASE i # n
      <3>1. /\ n - i \in 1..n - 1 /\ (n - i) - 1 \in 0..n - 1 /\ n - (n - i) = i
            /\ i + 1 \in 1..n /\ n - (i + 1) = (n - i) - 1
        BY <1>0, <2>2
      <3>2. f[i + 1] = w[(n - i) - 1] /\ f[i] = w[n - i] /\ w[(n - i) - 1] \in S
        BY <1>7, <3>1
      <3>3. w[n - i] = step[n - i][w[(n - i) - 1]]
        BY <1>6, <3>1
      <3>4. step[n - i][w[(n - i) - 1]] = Play(l, w[(n - i) - 1], n - (n - i))
        BY <1>2, <3>1, <3>2
      <3>5. QED  BY <2>2, <3>1, <3>2, <3>3, <3>4
    <2>3. QED  BY <2>1, <2>2
  <1>9. f = [i \in 1..n |-> IF i = n THEN Undecided(n) ELSE Play(l, f[i + 1], i)]
    BY <1>7, <1>8
  <1>10. PICK g : g = CHOOSE h : h = [i \in 1..n |-> IF i = n THEN Undecided(n)
                                                     ELSE Play(l, h[i + 1], i)]
    OBVIOUS
  <1>11. g = [i \in 1..n |-> IF i = n THEN Undecided(n) ELSE Play(l, g[i + 1], i)]
    BY <1>9, <1>10
  <1>12. Tournament!WinnerBuilt(l) = [g[1] EXCEPT ![0] = g[1][1]]
    BY <1>0, <1>10 DEF Tournament!WinnerBuilt, Undecided, Play
  <1>13. \A i \in 1..n : g[i] = IF i = n THEN Undecided(n) ELSE Play(l, g[i + 1], i)
    BY <1>11
  <1>14. QED  BY <1>12, <1>13

LEMMA WinnerBuiltIs ==
    ASSUME NEW n, NEW l, Vector(n, l)
    PROVE  WinnerTree(n, l, Tournament!WinnerBuilt(l))
  <1>0. n \in Nat \ {0}
    BY DEF Vector
  <1>1. PICK g : /\ \A i \in 1..n : g[i] = IF i = n THEN Undecided(n) ELSE Play(l, g[i + 1], i)
                 /\ Tournament!WinnerBuilt(l) = [g[1] EXCEPT ![0] = g[1][1]]
    BY BuildingPlays
  <1>2. PICK G : G = {m \in 0..n - 1 : Played(n, l, g[n - m], 1..n - m - 1)}
    OBVIOUS
  <1>3. 0 \in G
    <2>1. g[n] = Undecided(n)
      BY <1>0, <1>1
    <2>2. Played(n, l, Undecided(n), 1..n - 1)
      BY <1>0 DEF Played, Undecided
    <2>3. 0 \in 0..n - 1 /\ n - 0 = n
      BY <1>0
    <2>4. QED  BY <1>2, <2>1, <2>2, <2>3
  <1>4. ASSUME NEW m \in 0..(n - 1) - 1, m \in G
        PROVE  m + 1 \in G
    <2>1. PICK i \in 1..n - 1 : i = n - (m + 1)
      BY <1>0
    <2>2. i + 1 = n - m /\ i = n - m - 1 /\ i \in 1..n /\ i # n /\ m + 1 \in 0..n - 1 /\ i - 1 = n - (m + 1) - 1
      BY <1>0, <2>1
    <2>3. g[i] = Play(l, g[i + 1], i)
      BY <1>1, <2>2
    <2>4. Played(n, l, g[i + 1], 1..i)
      BY <1>2, <1>4, <2>2
    <2>5. /\ 2 * i \notin 1..i /\ 2 * i + 1 \notin 1..i /\ 1..i - 1 = (1..i) \ {i}
          /\ i = 1 \/ i \div 2 \in 1..i
      BY HalfIs
    <2>6. Played(n, l, g[i], 1..i - 1)
      BY <2>3, <2>4, <2>5, PlayOne
    <2>7. QED  BY <1>2, <2>1, <2>2, <2>6
  <1>5. n - 1 \in G
    <2>1. PICK h \in Nat : h = n - 1
      BY <1>0
    <2>2. \A m \in 0..h : m \in G
      BY <1>3, <1>4, <2>1, Induction
    <2>3. QED  BY <2>1, <2>2
  <1>6. Played(n, l, g[1], {})
    <2>1. n - (n - 1) = 1 /\ 1..n - (n - 1) - 1 = {}
      BY <1>0
    <2>2. QED  BY <1>2, <1>5, <2>1
  <1>7. QED  BY <1>1, <1>6, WinnerOnTop

\* adjust's loop: node goes up, and the matches on the way are played.
Adjusting(n, l, t, leaf, node, g) ==
    /\ node[0] = n + leaf /\ \A i \in 1..n : node[i] = node[i - 1] \div 2
    /\ g[0] = t
    /\ \A i \in 1..n : g[i] = IF node[i] < 1 THEN g[i - 1] ELSE Play(l, g[i - 1], node[i])

\* The way up is at its end after as many turns as there are leaves.
LEMMA WayUp ==
    ASSUME NEW n \in Nat \ {0}, NEW leaf \in 0..n - 1,
           NEW node, node[0] = n + leaf, \A i \in 1..n : node[i] = node[i - 1] \div 2
    PROVE  \A i \in 1..n : node[i] \in Nat /\ node[i] <= n - i
  <1>1. PICK G : G = {i \in 0..n : node[i] \in Nat /\ (i > 0 => node[i] <= n - i) /\ node[i] <= 2 * n - 1}
    OBVIOUS
  <1>2. 0 \in G
    BY <1>1
  <1>3. ASSUME NEW m \in 0..n - 1, m \in G
        PROVE  m + 1 \in G
    <2>1. m + 1 \in 1..n /\ (m + 1) - 1 = m /\ m + 1 \in 0..n
      OBVIOUS
    <2>2. node[m + 1] = node[m] \div 2 /\ node[m] \in Nat
      BY <1>1, <1>3, <2>1
    <2>3. PICK h \in Nat : h = node[m + 1] /\ (node[m] = 2 * h \/ node[m] = 2 * h + 1)
      BY <2>2, HalfIs
    <2>4. h <= n - (m + 1) /\ h <= 2 * n - 1
      <3>1. CASE m = 0
        BY <1>1, <1>3, <2>2, <2>3, <3>1
      <3>2. CASE m > 0
        BY <1>1, <1>3, <2>2, <2>3, <3>2
      <3>3. QED  BY <3>1, <3>2
    <2>5. QED  BY <1>1, <2>1, <2>3, <2>4
  <1>4. \A i \in 0..n : i \in G
    BY <1>2, <1>3, Induction
  <1>5. QED  BY <1>1, <1>4

LEMMA AdjustingExists ==
    ASSUME NEW n, NEW l, Vector(n, l), NEW t \in [0..2 * n - 1 -> -1..n - 1], NEW leaf \in 0..n - 1
    PROVE  \E node, g : /\ Adjusting(n, l, t, leaf, node, g)
                        /\ Tournament!WinnerAdjusted(l, t, leaf) = [g[n] EXCEPT ![0] = g[n][1]]
  <1>0. n \in Nat \ {0} /\ n \in Nat /\ Tournament!k(l) = n
    BY kIs DEF Vector
  <1>1. PICK halve : halve = [m \in 1..n |-> [c \in Nat |-> c \div 2]]
    OBVIOUS
  <1>2. halve \in [1..n -> [Nat -> Nat]] /\ n + leaf \in Nat
    BY <1>0, <1>1, HalfIs
  <1>3. PICK up : Iterated(n, Nat, n + leaf, halve, up)
    BY <1>0, <1>2, Iterates
  <1>4. up \in [0..n -> Nat] /\ up[0] = n + leaf /\ \A i \in 1..n : up[i] = up[i - 1] \div 2
    <2>1. up \in [0..n -> Nat] /\ up[0] = n + leaf /\ \A i \in 1..n : up[i] = halve[i][up[i - 1]]
      BY <1>3 DEF Iterated
    <2>2. \A i \in 1..n : i - 1 \in 0..n
      BY <1>0
    <2>3. QED  BY <1>1, <2>1, <2>2
  <1>5. up = [i \in 0..n |-> IF i = 0 THEN n + leaf ELSE up[i - 1] \div 2]
    <2>1. \A i \in 0..n : i = 0 \/ i \in 1..n
      BY <1>0
    <2>2. QED  BY <1>4, <2>1
  <1>6. PICK node : node = CHOOSE h : h = [i \in 0..n |-> IF i = 0 THEN n + leaf ELSE h[i - 1] \div 2]
    OBVIOUS
  <1>7. node = [i \in 0..n |-> IF i = 0 THEN n + leaf ELSE node[i - 1] \div 2]
    BY <1>5, <1>6
  <1>8. node[0] = n + leaf /\ \A i \in 1..n : node[i] = node[i - 1] \div 2
    BY <1>0, <1>7
  <1>9. \A i \in 1..n : node[i] \in Nat /\ node[i] <= n - i
    BY <1>0, <1>8, WayUp
  <1>10. PICK S : S = [0..2 * n - 1 -> -1..n - 1]
    OBVIOUS
  <1>11. PICK step : step = [m \in 1..n |-> [u \in S |-> IF node[m] < 1 THEN u ELSE Play(l, u, node[m])]]
    OBVIOUS
  <1>12. step \in [1..n -> [S -> S]]
    <2>1. ASSUME NEW m \in 1..n, NEW u \in S, ~ (node[m] < 1)
          PROVE  Play(l, u, node[m]) \in S
      <3>1. node[m] \in 1..n - 1
        BY <1>0, <1>9, <2>1
      <3>2. QED  BY <1>10, <3>1, PlayStays
    <2>2. QED  BY <1>11, <2>1
  <1>13. PICK w : Iterated(n, S, t, step, w)
    BY <1>0, <1>10, <1>12, Iterates
  <1>14. w = [i \in 0..n |-> IF i = 0 THEN t
                             ELSE IF node[i] < 1 THEN w[i - 1] ELSE Play(l, w[i - 1], node[i])]
    <2>1. w \in [0..n -> S] /\ w[0] = t /\ \A i \in 1..n : w[i] = step[i][w[i - 1]]
      BY <1>13 DEF Iterated
    <2>2. \A i \in 0..n : i = 0 \/ (i \in 1..n /\ i - 1 \in 0..n)
      BY <1>0
    <2>3. QED  BY <1>11, <2>1, <2>2
  <1>15. PICK g : g = CHOOSE h : h = [i \in 0..n |-> IF i = 0 THEN t
                             ELSE IF node[i] < 1 THEN h[i - 1] ELSE Play(l, h[i - 1], node[i])]
    OBVIOUS
  <1>16. g = [i \in 0..n |-> IF i = 0 THEN t
                             ELSE IF node[i] < 1 THEN g[i - 1] ELSE Play(l, g[i - 1], node[i])]
    BY <1>14, <1>15
  <1>17. g[0] = t /\ \A i \in 1..n : g[i] = IF node[i] < 1 THEN g[i - 1] ELSE Play(l, g[i - 1], node[i])
    BY <1>0, <1>16
  <1>18. Tournament!WinnerAdjusted(l, t, leaf) = [g[n] EXCEPT ![0] = g[n][1]]
    BY <1>0, <1>6, <1>15 DEF Tournament!WinnerAdjusted, Play
  <1>19. QED  BY <1>8, <1>17, <1>18 DEF Adjusting

\* Who won somewhere came that way.
LEMMA WinnersWay ==
    ASSUME NEW n, NEW l, NEW t, Played(n, l, t, {}), NEW s \in 0..n - 1,
           NEW P, IsPath(P, n + s)
    PROVE  \A j \in 1..2 * n - 1 : t[j] = s => j \in P
  <1>0. n \in Nat \ {0}
    BY DEF Played, Vector
  <1>1. PICK G : G = {j \in 1..2 * n - 1 : t[j] = s => j \in P}
    OBVIOUS
  <1>2. ASSUME NEW j \in n..2 * n - 1
        PROVE  j \in G
    <2>1. t[j] = j - n /\ j \in 1..2 * n - 1
      BY <1>0 DEF Played
    <2>2. t[j] = s => j = n + s
      BY <1>0, <2>1
    <2>3. QED  BY <1>1, <2>1, <2>2 DEF IsPath
  <1>3. ASSUME NEW j \in 1..n - 1, 2 * j \in G, 2 * j + 1 \in G
        PROVE  j \in G
    <2>1. t[j] = Tournament!Winning(l, t, j)
      BY DEF Played
    <2>2. t[j] = t[2 * j] \/ t[j] = t[2 * j + 1]
      BY <2>1 DEF Tournament!Winning
    <2>3. t[j] = s => 2 * j \in P \/ 2 * j + 1 \in P
      BY <1>1, <1>3, <2>2
    <2>4. (2 * j) \div 2 = j /\ (2 * j + 1) \div 2 = j /\ 2 * j > 1 /\ 2 * j + 1 > 1
      OBVIOUS
    <2>5. j \in 1..2 * n - 1
      BY <1>0
    <2>6. QED  BY <1>1, <2>3, <2>4, <2>5 DEF IsPath
  <1>4. \A j \in 1..2 * n - 1 : j \in G
    BY <1>0, <1>2, <1>3, FromLeaves
  <1>5. QED  BY <1>1, <1>4

\* A leaf with another value: the matches it did not come through stand.
LEMMA OthersStand ==
    ASSUME NEW n, NEW l, NEW t, Played(n, l, t, {}), NEW s \in 0..n - 1, NEW v \in Int,
           NEW P, IsPath(P, n + s), NEW m, m = [l EXCEPT ![s] = v],
           NEW E, E = {j \in P : j <= (n + s) \div 2}
    PROVE  Played(n, m, t, E)
  <1>1. /\ n \in Nat \ {0} /\ l \in [0..n - 1 -> Int] /\ t \in [0..2 * n - 1 -> -1..n - 1]
        /\ \A j \in n..2 * n - 1 : t[j] = j - n
    BY DEF Played, Vector
  <1>2. m \in [0..n - 1 -> Int] /\ \A i \in 0..n - 1 : i # s => m[i] = l[i]
    BY <1>1
  <1>3. ASSUME NEW j \in 1..n - 1, j \notin E
        PROVE  t[j] \in 0..n - 1 /\ t[j] = Tournament!Winning(m, t, j)
    <2>1. t[j] \in 0..n - 1 /\ t[j] = Tournament!Winning(l, t, j)
      BY DEF Played
    <2>2. 2 * j \in 1..2 * n - 1 /\ 2 * j + 1 \in 1..2 * n - 1
      BY <1>1
    <2>3. \A c \in {2 * j, 2 * j + 1} : c \notin P
      <3>1. ASSUME NEW c \in {2 * j, 2 * j + 1}, c \in P
            PROVE  FALSE
        <4>1. c \div 2 = j /\ c > 1
          OBVIOUS
        <4>2. j \in P
          BY <3>1, <4>1 DEF IsPath
        <4>3. j < n + s
          BY <1>1
        <4>4. j <= (n + s) \div 2
          BY <4>2, <4>3 DEF IsPath
        <4>5. QED  BY <1>3, <4>2, <4>4
      <3>2. QED  BY <3>1
    <2>4. t[2 * j] # s /\ t[2 * j + 1] # s
      BY <2>2, <2>3, WinnersWay
    <2>5. ASSUME NEW c \in 1..2 * n - 1
          PROVE  t[c] \in 0..n - 1
      <3>1. c \in n..2 * n - 1 \/ c \in 1..n - 1
        BY <1>1
      <3>2. c \in 1..n - 1 => t[c] \in 0..n - 1
        BY DEF Played
      <3>3. c \in n..2 * n - 1 => t[c] \in 0..n - 1
        BY <1>1
      <3>4. QED  BY <3>1, <3>2, <3>3
    <2>6. m[t[2 * j]] = l[t[2 * j]] /\ m[t[2 * j + 1]] = l[t[2 * j + 1]]
      BY <1>2, <2>2, <2>4, <2>5
    <2>7. QED  BY <2>1, <2>6 DEF Tournament!Winning
  <1>4. QED  BY <1>1, <1>2, <1>3 DEF Played, Vector

LEMMA WinnerAdjustedIs ==
    ASSUME NEW n, NEW l, NEW t, WinnerTree(n, l, t), NEW s \in 0..n - 1, NEW v \in Int,
           NEW m, m = [l EXCEPT ![s] = v]
    PROVE  WinnerTree(n, m, Tournament!WinnerAdjusted(m, t, s))
  <1>1. n \in Nat \ {0} /\ Vector(n, l) /\ t \in [0..2 * n - 1 -> -1..n - 1] /\ Played(n, l, t, {})
    BY DEF WinnerTree, Played, Vector
  <1>2. Vector(n, m)
    BY <1>1 DEF Vector
  <1>3. PICK node, g : /\ Adjusting(n, m, t, s, node, g)
                       /\ Tournament!WinnerAdjusted(m, t, s) = [g[n] EXCEPT ![0] = g[n][1]]
    <2>1. Vector(n, m) /\ t \in [0..2 * n - 1 -> -1..n - 1] /\ s \in 0..n - 1
      BY <1>1, <1>2
    <2>2. QED  BY ONLY <2>1, AdjustingExists
  <1>4. /\ node[0] = n + s /\ \A i \in 1..n : node[i] = node[i - 1] \div 2
        /\ g[0] = t
        /\ \A i \in 1..n : g[i] = IF node[i] < 1 THEN g[i - 1] ELSE Play(m, g[i - 1], node[i])
    BY <1>3 DEF Adjusting
  <1>5. \A i \in 1..n : node[i] \in Nat /\ node[i] <= n - i
    BY <1>1, <1>4, WayUp
  <1>6. PICK P : IsPath(P, n + s)
    <2>1. n + s \in Nat \ {0}
      BY <1>1
    <2>2. QED  BY <2>1, PathExists
  <1>7. P \subseteq 1..n + s /\ \A a, b \in P : a < b => a <= b \div 2
    BY <1>6 DEF IsPath
  <1>8. PICK G : G = {i \in 0..n : /\ node[i] \in P \cup {0}
                                   /\ Played(n, m, g[i], {j \in P : j <= node[i] \div 2})}
    OBVIOUS
  <1>9. 0 \in G
    <2>1. Played(n, m, t, {j \in P : j <= (n + s) \div 2})
      BY <1>1, <1>6, OthersStand
    <2>2. n + s \in P /\ 0 \in 0..n
      BY <1>1, <1>6 DEF IsPath
    <2>3. QED  BY <1>4, <1>8, <2>1, <2>2
  <1>10. ASSUME NEW i \in 0..n - 1, i \in G
         PROVE  i + 1 \in G
    <2>1. i + 1 \in 1..n /\ (i + 1) - 1 = i /\ i + 1 \in 0..n
      BY <1>1
    <2>2. PICK p \in Nat : p = node[i + 1] /\ p = node[i] \div 2 /\ p <= n - (i + 1)
      BY <1>4, <1>5, <2>1
    <2>3. Played(n, m, g[i], {j \in P : j <= p}) /\ node[i] \in P \cup {0}
      BY <1>8, <1>10, <2>2
    <2>4. CASE p = 0
      <3>1. g[i + 1] = g[i]
        BY <1>4, <2>1, <2>2, <2>4
      <3>2. {j \in P : j <= p} = {j \in P : j <= p \div 2}
        BY <1>7, <2>4
      <3>3. QED  BY <1>8, <2>1, <2>2, <2>3, <2>4, <3>1, <3>2
    <2>5. CASE p # 0
      <3>1. g[i + 1] = Play(m, g[i], p)
        <4>1. ~ (p < 1)
          BY <2>5
        <4>2. g[i + 1] = IF p < 1 THEN g[i] ELSE Play(m, g[i], p)
          BY <1>4, <2>1, <2>2
        <4>3. QED  BY <4>1, <4>2
      <3>2. p \in 1..n - 1
        BY <1>1, <2>2, <2>5
      <3>3. p \in P
        <4>1. node[i] \in P /\ node[i] > 1
          <5>1. node[i] # 0
            BY <2>2, <2>5
          <5>2. node[i] \in P
            BY <2>3, <5>1
          <5>3. node[i] \in Nat /\ node[i] # 1
            <6>1. 1 \div 2 = 0
              OBVIOUS
            <6>2. node[i] \in 1..n + s
              BY <1>7, <5>2
            <6>3. node[i] = 1 => p = 1 \div 2
              BY <2>2
            <6>4. QED  BY <1>1, <2>5, <6>1, <6>2, <6>3
          <5>4. QED  BY <5>1, <5>2, <5>3
        <4>2. QED  BY <1>6, <2>2, <4>1 DEF IsPath
      <3>4. PICK E : E = {j \in P : j <= p}
        OBVIOUS
      <3>5. 2 * p \notin E /\ 2 * p + 1 \notin E
        BY <3>2, <3>4
      <3>6. p = 1 \/ p \div 2 \in E
        <4>1. p > 1 => p \div 2 \in P /\ p \div 2 <= p
          BY <1>6, <3>2, <3>3 DEF IsPath
        <4>2. QED  BY <3>2, <3>4, <4>1
      <3>7. {j \in P : j <= p \div 2} = E \ {p}
        <4>1. \A j \in P : j <= p \div 2 <=> j <= p /\ j # p
          <5>1. ASSUME NEW j \in P
                PROVE  j <= p \div 2 <=> j <= p /\ j # p
            <6>1. j \in Nat /\ p \div 2 \in Nat /\ p \div 2 < p
              BY <1>7, <3>2, HalfIs
            <6>2. j < p => j <= p \div 2
              BY <1>7, <3>3
            <6>3. QED  BY <3>2, <6>1, <6>2
          <5>2. QED  BY <5>1
        <4>2. QED  BY <3>4, <4>1
      <3>8. Played(n, m, Play(m, g[i], p), E \ {p})
        BY <2>3, <3>2, <3>4, <3>5, <3>6, PlayOne
      <3>9. QED  BY <1>8, <2>1, <2>2, <3>1, <3>3, <3>7, <3>8
    <2>6. QED  BY <2>4, <2>5
  <1>11. n \in G
    <2>1. \A i \in 0..n : i \in G
      BY <1>1, <1>9, <1>10, Induction
    <2>2. QED  BY <1>1, <2>1
  <1>12. Played(n, m, g[n], {})
    <2>1. node[n] = 0
      <3>1. n \in 1..n /\ n - n = 0
        BY <1>1
      <3>2. QED  BY <1>5, <3>1
    <2>2. {j \in P : j <= 0 \div 2} = {}
      <3>1. 0 \div 2 = 0 /\ \A j \in P : ~ (j <= 0)
        BY <1>1, <1>7
      <3>2. QED  BY <3>1
    <2>3. QED  BY <1>8, <1>11, <2>1, <2>2
  <1>13. QED  BY <1>3, <1>12, WinnerOnTop

LoserValue(l, before, i) == IF i = -1 THEN before ELSE l[i]

\* One turn of the loser tree's adjust: u is <<tree, t, parent, read>>.
Swaps(l, before, z, y) == y = -1 \/ LoserValue(l, before, z) < LoserValue(l, before, y)

\* leaves[-1] is compared, or was.
ReadsNobody(y, z, r) == r \/ (y # -1 /\ z = -1)

LoserTurn(l, before, u) ==
    IF u[3] = 0 THEN u
    ELSE <<IF Swaps(l, before, u[2], u[1][u[3]]) THEN [u[1] EXCEPT ![u[3]] = u[2]] ELSE u[1],
           IF Swaps(l, before, u[2], u[1][u[3]]) THEN u[1][u[3]] ELSE u[2],
           u[3] \div 2,
           ReadsNobody(u[1][u[3]], u[2], u[4])>>

LoserStates(n) == [0..n - 1 -> -1..n - 1] \X (-1..n - 1) \X (0..n - 1) \X BOOLEAN

State(u, t, z, p, r) == u = <<t, z, p, r>>

StateTypes(n, t, z, p, r) ==
    t \in [0..n - 1 -> -1..n - 1] /\ z \in -1..n - 1 /\ p \in 0..n - 1 /\ r \in BOOLEAN

LEMMA StatesAre ==
    ASSUME NEW n, NEW u
    PROVE  /\ u \in LoserStates(n) => \E t, z, p, r : State(u, t, z, p, r) /\ StateTypes(n, t, z, p, r)
           /\ \A t, z, p, r : State(u, t, z, p, r) /\ StateTypes(n, t, z, p, r) => u \in LoserStates(n)
  BY DEF State, StateTypes, LoserStates

LEMMA LoserTurnIs ==
    ASSUME NEW l, NEW before, NEW u, NEW t, NEW z, NEW p, NEW r, State(u, t, z, p, r),
           NEW y, y = t[p]
    PROVE  /\ p = 0 => LoserTurn(l, before, u) = u
           /\ p # 0 /\ Swaps(l, before, z, y) =>
                 State(LoserTurn(l, before, u), [t EXCEPT ![p] = z], y, p \div 2, ReadsNobody(y, z, r))
           /\ p # 0 /\ ~ Swaps(l, before, z, y) =>
                 State(LoserTurn(l, before, u), t, z, p \div 2, ReadsNobody(y, z, r))
  <1>1. u[1] = t /\ u[2] = z /\ u[3] = p /\ u[4] = r
    BY DEF State
  <1>2. CASE p = 0
    BY <1>1, <1>2 DEF LoserTurn
  <1>3. CASE p # 0 /\ Swaps(l, before, z, y)
    BY <1>1, <1>3 DEF LoserTurn, State
  <1>4. CASE p # 0 /\ ~ Swaps(l, before, z, y)
    BY <1>1, <1>4 DEF LoserTurn, State
  <1>5. QED  BY <1>2, <1>3, <1>4

LEMMA LoserTurnStays ==
    ASSUME NEW n \in Nat \ {0}, NEW l, NEW before, NEW u \in LoserStates(n)
    PROVE  LoserTurn(l, before, u) \in LoserStates(n)
  <1>1. PICK t, z, p, r : State(u, t, z, p, r) /\ StateTypes(n, t, z, p, r)
    BY StatesAre
  <1>2. CASE p = 0
    BY <1>1, <1>2, LoserTurnIs
  <1>3. CASE p # 0
    <2>1. /\ t \in [0..n - 1 -> -1..n - 1] /\ z \in -1..n - 1
          /\ p \in 1..n - 1 /\ p \div 2 \in 0..n - 1
      BY <1>1, <1>3, HalfIs DEF StateTypes
    <2>2. PICK y : y = t[p] /\ y \in -1..n - 1
      BY <2>1
    <2>3. [t EXCEPT ![p] = z] \in [0..n - 1 -> -1..n - 1]
      BY <2>1
    <2>4. ReadsNobody(y, z, r) \in BOOLEAN
      BY <1>1 DEF StateTypes, ReadsNobody
    <2>5. CASE Swaps(l, before, z, y)
      <3>1. State(LoserTurn(l, before, u), [t EXCEPT ![p] = z], y, p \div 2, ReadsNobody(y, z, r))
        BY <1>1, <1>3, <2>2, <2>5, LoserTurnIs
      <3>2. StateTypes(n, [t EXCEPT ![p] = z], y, p \div 2, ReadsNobody(y, z, r))
        BY <2>1, <2>2, <2>3, <2>4 DEF StateTypes
      <3>3. QED  BY <3>1, <3>2, StatesAre
    <2>6. CASE ~ Swaps(l, before, z, y)
      <3>1. State(LoserTurn(l, before, u), t, z, p \div 2, ReadsNobody(y, z, r))
        BY <1>1, <1>3, <2>2, <2>6, LoserTurnIs
      <3>2. StateTypes(n, t, z, p \div 2, ReadsNobody(y, z, r))
        BY <2>1, <2>4 DEF StateTypes
      <3>3. QED  BY <3>1, <3>2, StatesAre
    <2>7. QED  BY <2>5, <2>6
  <1>4. QED  BY <1>2, <1>3

\* What adjust yields of its last turn.
Outcome(u) == <<[u[1] EXCEPT ![0] = u[2]], u[4]>>

Climbing(n, l, tr, s, before, up) ==
    /\ up[0] = <<tr, s, (s + n) \div 2, FALSE>>
    /\ \A i \in 0..n : up[i] \in LoserStates(n)
    /\ \A i \in 1..n : up[i] = LoserTurn(l, before, up[i - 1])

LEMMA ClimbingExists ==
    ASSUME NEW n, NEW l, Vector(n, l), NEW tr \in [0..n - 1 -> -1..n - 1],
           NEW s \in 0..n - 1, NEW before
    PROVE  \E up : /\ Climbing(n, l, tr, s, before, up)
                   /\ Tournament!LoserAdjusted(l, tr, s, before) = Outcome(up[n])
  <1>0. n \in Nat \ {0} /\ n \in Nat /\ Tournament!k(l) = n
    BY kIs DEF Vector
  <1>1. PICK base : base = <<tr, s, (s + n) \div 2, FALSE>>
    OBVIOUS
  <1>2. base \in LoserStates(n)
    <2>1. (s + n) \div 2 \in 0..n - 1
      <3>1. s + n \in Nat /\ s + n < 2 * n
        BY <1>0
      <3>2. QED  BY <1>0, <3>1, HalfIs
    <2>2. s \in -1..n - 1
      OBVIOUS
    <2>3. QED  BY <1>1, <2>1, <2>2 DEF LoserStates
  <1>3. PICK S : S = LoserStates(n)
    OBVIOUS
  <1>4. PICK step : step = [i \in 1..n |-> [u \in S |-> LoserTurn(l, before, u)]]
    OBVIOUS
  <1>5. step \in [1..n -> [S -> S]]
    BY <1>0, <1>3, <1>4, LoserTurnStays
  <1>6. PICK w : Iterated(n, S, base, step, w)
    BY <1>0, <1>2, <1>3, <1>5, Iterates
  <1>7. /\ w \in [0..n -> S] /\ w[0] = base
        /\ \A i \in 1..n : w[i] = LoserTurn(l, before, w[i - 1])
    <2>1. w \in [0..n -> S] /\ w[0] = base /\ \A i \in 1..n : w[i] = step[i][w[i - 1]]
      BY <1>6 DEF Iterated
    <2>2. \A i \in 1..n : i - 1 \in 0..n
      BY <1>0
    <2>3. QED  BY <1>4, <2>1, <2>2
  <1>8. w = [i \in 0..n |-> IF i = 0 THEN base ELSE LoserTurn(l, before, w[i - 1])]
    <2>1. \A i \in 0..n : i = 0 \/ i \in 1..n
      BY <1>0
    <2>2. QED  BY <1>7, <2>1
  <1>9. PICK up : up = CHOOSE h : h = [i \in 0..n |-> IF i = 0 THEN <<tr, s, (s + n) \div 2, FALSE>>
                                                      ELSE LoserTurn(l, before, h[i - 1])]
    OBVIOUS
  <1>10. up = [i \in 0..n |-> IF i = 0 THEN base ELSE LoserTurn(l, before, up[i - 1])]
    BY <1>1, <1>8, <1>9
  <1>11. up[0] = base /\ \A i \in 1..n : up[i] = LoserTurn(l, before, up[i - 1])
    BY <1>0, <1>10
  <1>12. PICK G : G = {i \in 0..n : up[i] \in S}
    OBVIOUS
  <1>13. 0 \in G
    BY <1>0, <1>2, <1>3, <1>11, <1>12
  <1>14. ASSUME NEW m \in 0..n - 1, m \in G
         PROVE  m + 1 \in G
    <2>1. m + 1 \in 1..n /\ (m + 1) - 1 = m /\ m + 1 \in 0..n
      BY <1>0
    <2>2. up[m + 1] = LoserTurn(l, before, up[m]) /\ up[m] \in S
      BY <1>11, <1>12, <1>14, <2>1
    <2>3. QED  BY <1>0, <1>3, <1>12, <2>1, <2>2, LoserTurnStays
  <1>15. \A i \in 0..n : i \in G
    BY <1>0, <1>13, <1>14, Induction
  <1>16. \A i \in 0..n : up[i] \in LoserStates(n)
    BY <1>3, <1>12, <1>15
  <1>17. Tournament!LoserAdjusted(l, tr, s, before) = Outcome(up[n])
    BY <1>0, <1>9 DEF Tournament!LoserAdjusted, LoserTurn, Swaps, LoserValue, ReadsNobody, Outcome
  <1>18. QED  BY <1>1, <1>11, <1>16, <1>17 DEF Climbing

\* W[j] is the leaf that node j has handed up, -1 before: a node that one child has
\* handed a leaf keeps it, and when both have it keeps the loser.
Met(l, a, b, y, w) ==
    \/ a = -1 /\ b = -1 /\ y = -1 /\ w = -1
    \/ a # -1 /\ b = -1 /\ y = a /\ w = -1
    \/ a = -1 /\ b # -1 /\ y = b /\ w = -1
    \/ a # -1 /\ b # -1 /\ ((y = a /\ w = b) \/ (y = b /\ w = a)) /\ l[w] >= l[y]

LoserNodes(n, l, t, W, E) ==
    /\ Vector(n, l) /\ t \in [0..n - 1 -> -1..n - 1] /\ W \in [1..2 * n - 1 -> -1..n - 1]
    /\ \A j \in 1..n - 1 : j \notin E => Met(l, W[2 * j], W[2 * j + 1], t[j], W[j])

\* The leaves of S are there.
ThereAre(n, W, S) == \A i \in 0..n - 1 : W[n + i] = IF i \in S THEN i ELSE -1

Sibling(c) == IF c = 2 * (c \div 2) THEN c + 1 ELSE c - 1

\* On the way P, below the first node that nobody has come to there is none that someone
\* has come to, and a -1 is below all of these: it will be compared with nobody.
Quiet(P, t, z, m) ==
    /\ z = -1 => \A b \in P : b <= m => t[b] = -1
    /\ \A a, b \in P : b < a /\ a <= m /\ t[a] = -1 => t[b] = -1

\* z has come out of node c.
Climb(n, l, t, z, c, W, P, S, quiet) ==
    /\ LoserNodes(n, l, t, W, {c \div 2}) /\ ThereAre(n, W, S)
    /\ c \in P /\ W[c] = z
    /\ c > 1 => W[c \div 2] = -1 /\ t[c \div 2] = W[Sibling(c)]
    /\ quiet => Quiet(P, t, z, c \div 2)

LEMMA SiblingIs ==
    ASSUME NEW c \in Nat, c > 1
    PROVE  /\ c \div 2 \in Nat /\ c \div 2 >= 1 /\ c \div 2 < c
           /\ \/ c = 2 * (c \div 2) /\ Sibling(c) = 2 * (c \div 2) + 1
              \/ c = 2 * (c \div 2) + 1 /\ Sibling(c) = 2 * (c \div 2)
           /\ Sibling(c) # c
  <1>1. PICK p \in Nat : p = c \div 2 /\ (c = 2 * p \/ c = 2 * p + 1)
    BY HalfIs
  <1>2. p >= 1 /\ p < c
    BY <1>1
  <1>3. QED  BY <1>1, <1>2 DEF Sibling

LEMMA MetSwap ==
    ASSUME NEW l, NEW a, NEW b, NEW y, NEW w, Met(l, a, b, y, w)
    PROVE  Met(l, b, a, y, w)
  BY DEF Met

LEMMA ClimbOn ==
    ASSUME NEW n, NEW l, NEW t, NEW z, NEW c, NEW W, NEW P, NEW S, NEW quiet,
           Climb(n, l, t, z, c, W, P, S, quiet), NEW s \in 0..n - 1, IsPath(P, n + s),
           NEW p, p = c \div 2, c > 1,
           NEW loser \in -1..n - 1, NEW w \in -1..n - 1, Met(l, z, t[p], loser, w)
    PROVE  Climb(n, l, [t EXCEPT ![p] = loser], w, p, [W EXCEPT ![p] = w], P, S, quiet)
  <1>1. /\ n \in Nat \ {0} /\ Vector(n, l) /\ t \in [0..n - 1 -> -1..n - 1]
        /\ W \in [1..2 * n - 1 -> -1..n - 1]
        /\ \A j \in 1..n - 1 : j # p => Met(l, W[2 * j], W[2 * j + 1], t[j], W[j])
        /\ ThereAre(n, W, S) /\ c \in P /\ W[c] = z /\ W[p] = -1 /\ t[p] = W[Sibling(c)]
        /\ quiet => Quiet(P, t, z, p)
    BY DEF Climb, LoserNodes, Vector
  <1>2. P \subseteq 1..n + s /\ \A a \in P : a > 1 => a \div 2 \in P
    BY DEF IsPath
  <1>3. c \in 1..2 * n - 1 /\ c \in Nat
    BY <1>1, <1>2
  <1>4. /\ p \in 1..n - 1 /\ p \in P
        /\ \/ c = 2 * p /\ Sibling(c) = 2 * p + 1
           \/ c = 2 * p + 1 /\ Sibling(c) = 2 * p
    <2>1. p \in P
      BY <1>1, <1>2
    <2>2. c \in Nat /\ c > 1
      BY <1>3
    <2>3. /\ p \in Nat /\ p >= 1 /\ p < c
          /\ \/ c = 2 * p /\ Sibling(c) = 2 * p + 1
             \/ c = 2 * p + 1 /\ Sibling(c) = 2 * p
      BY <2>2, SiblingIs
    <2>4. p \in 1..n - 1
      BY <1>1, <1>3, <2>3
    <2>5. QED  BY <2>1, <2>3, <2>4
  <1>5. PICK u : u = [t EXCEPT ![p] = loser]
    OBVIOUS
  <1>6. /\ u \in [0..n - 1 -> -1..n - 1] /\ u[p] = loser
        /\ \A j \in 1..n - 1 : j # p => u[j] = t[j]
    <2>1. p \in 0..n - 1 /\ \A j \in 1..n - 1 : j \in 0..n - 1
      BY <1>1, <1>4
    <2>2. QED  BY <1>1, <1>5, <2>1
  <1>7. PICK V : V = [W EXCEPT ![p] = w]
    OBVIOUS
  <1>8. /\ V \in [1..2 * n - 1 -> -1..n - 1] /\ V[p] = w
        /\ \A j \in 1..2 * n - 1 : j # p => V[j] = W[j]
    <2>1. p \in 1..2 * n - 1
      BY <1>1, <1>4
    <2>2. QED  BY <1>1, <1>7, <2>1
  <1>9. ASSUME NEW j \in 1..n - 1, j # p \div 2
        PROVE  Met(l, V[2 * j], V[2 * j + 1], u[j], V[j])
    <2>1. 2 * j \in 1..2 * n - 1 /\ 2 * j + 1 \in 1..2 * n - 1 /\ j \in 1..2 * n - 1
      BY <1>1
    <2>2. (2 * j) \div 2 = j /\ (2 * j + 1) \div 2 = j
      OBVIOUS
    <2>3. 2 * j # p /\ 2 * j + 1 # p
      BY <1>9, <2>2
    <2>4. V[2 * j] = W[2 * j] /\ V[2 * j + 1] = W[2 * j + 1]
      BY <1>8, <2>1, <2>3
    <2>5. CASE j = p
      <3>1. Met(l, z, t[p], loser, w) /\ Met(l, t[p], z, loser, w)
        BY MetSwap
      <3>2. u[j] = loser /\ V[j] = w
        BY <1>6, <1>8, <2>5
      <3>3. CASE c = 2 * p /\ Sibling(c) = 2 * p + 1
        BY <1>1, <2>4, <2>5, <3>1, <3>2, <3>3
      <3>4. CASE c = 2 * p + 1 /\ Sibling(c) = 2 * p
        BY <1>1, <2>4, <2>5, <3>1, <3>2, <3>4
      <3>5. QED  BY <1>4, <3>3, <3>4
    <2>6. CASE j # p
      <3>1. u[j] = t[j] /\ V[j] = W[j]
        BY <1>6, <1>8, <2>1, <2>6
      <3>2. Met(l, W[2 * j], W[2 * j + 1], t[j], W[j])
        BY <1>1, <2>6
      <3>3. QED  BY <2>4, <3>1, <3>2
    <2>7. QED  BY <2>5, <2>6
  <1>10. ThereAre(n, V, S)
    <2>1. \A i \in 0..n - 1 : n + i \in 1..2 * n - 1 /\ n + i # p
      BY <1>1, <1>4
    <2>2. QED  BY <1>1, <1>8, <2>1 DEF ThereAre
  <1>11. ASSUME p > 1
         PROVE  V[p \div 2] = -1 /\ u[p \div 2] = V[Sibling(p)]
    <2>1. PICK q : q = p \div 2
      OBVIOUS
    <2>2. /\ q \in 1..n - 1 /\ q # p /\ q \in 1..2 * n - 1
          /\ \/ p = 2 * q /\ Sibling(p) = 2 * q + 1
             \/ p = 2 * q + 1 /\ Sibling(p) = 2 * q
          /\ Sibling(p) # p /\ Sibling(p) \in 1..2 * n - 1
      <3>1. p \in Nat /\ p > 1
        BY <1>4, <1>11
      <3>2. /\ q \in Nat /\ q >= 1 /\ q < p
            /\ \/ p = 2 * q /\ Sibling(p) = 2 * q + 1
               \/ p = 2 * q + 1 /\ Sibling(p) = 2 * q
            /\ Sibling(p) # p
        BY <2>1, <3>1, SiblingIs
      <3>3. q \in 1..n - 1 /\ q \in 1..2 * n - 1 /\ 2 * q \in 1..2 * n - 1 /\ 2 * q + 1 \in 1..2 * n - 1
        BY <1>1, <1>4, <3>2
      <3>4. QED  BY <3>2, <3>3
    <2>3. Met(l, W[2 * q], W[2 * q + 1], t[q], W[q])
      BY <1>1, <2>2
    <2>4. W[q] = -1 /\ t[q] = W[Sibling(p)]
      <3>1. CASE p = 2 * q /\ Sibling(p) = 2 * q + 1
        BY <1>1, <2>3, <3>1 DEF Met
      <3>2. CASE p = 2 * q + 1 /\ Sibling(p) = 2 * q
        BY <1>1, <2>3, <3>2 DEF Met
      <3>3. QED  BY <2>2, <3>1, <3>2
    <2>5. QED  BY <1>6, <1>8, <2>1, <2>2, <2>4
  <1>12. ASSUME quiet
         PROVE  Quiet(P, u, w, p \div 2)
    <2>1. p \div 2 < p /\ p \div 2 \in Nat /\ p \in Nat
      BY <1>4, HalfIs
    <2>2. \A b \in P : b \in Nat \ {0}
      BY <1>1, <1>2
    <2>3. \A b \in P : b <= p \div 2 => b <= p /\ b < p /\ u[b] = t[b]
      <3>1. ASSUME NEW b \in P, b <= p \div 2
            PROVE  b <= p /\ b < p /\ u[b] = t[b]
        <4>1. b \in Nat \ {0} /\ b < p
          BY <2>1, <2>2, <3>1
        <4>2. b \in 1..n - 1 /\ b # p
          BY <1>1, <1>4, <4>1
        <4>3. QED  BY <1>6, <4>1, <4>2
      <3>2. QED  BY <3>1
    <2>4. Quiet(P, t, z, p)
      BY <1>1, <1>12
    <2>5. w = -1 => z = -1 \/ t[p] = -1
      BY DEF Met
    <2>6. \A a, b \in P : b < a /\ a <= p \div 2 => b <= p \div 2
      BY <2>1, <2>2
    <2>7. p <= p
      BY <2>1
    <2>8. w = -1 => \A b \in P : b <= p \div 2 => u[b] = -1
      BY <1>4, <2>3, <2>4, <2>5, <2>7 DEF Quiet
    <2>9. ASSUME NEW a \in P, NEW b \in P, b < a, a <= p \div 2, u[a] = -1
          PROVE  u[b] = -1
      <3>1. b <= p \div 2 /\ u[a] = t[a] /\ u[b] = t[b] /\ a <= p
        BY <2>3, <2>6, <2>9
      <3>2. t[b] = -1
        BY <2>4, <2>9, <3>1 DEF Quiet
      <3>3. QED  BY <3>1, <3>2
    <2>10. QED  BY <2>8, <2>9 DEF Quiet
  <1>13. LoserNodes(n, l, u, V, {p \div 2})
    BY <1>1, <1>6, <1>8, <1>9 DEF LoserNodes
  <1>14. Climb(n, l, u, w, p, V, P, S, quiet)
    BY <1>4, <1>8, <1>10, <1>11, <1>12, <1>13 DEF Climb
  <1>15. QED  BY <1>5, <1>7, <1>14

\* A turn that compares no missing leaf goes on with the climb; on a quiet way none does.
LEMMA TurnClimbs ==
    ASSUME NEW n, NEW l, NEW t, NEW z, NEW c, NEW W, NEW P, NEW S, NEW quiet,
           Climb(n, l, t, z, c, W, P, S, quiet), NEW s \in 0..n - 1, IsPath(P, n + s),
           NEW before, NEW u, NEW r, r = FALSE, State(u, t, z, c \div 2, r), c > 1,
           NEW y, y = t[c \div 2], quiet \/ ~ (y # -1 /\ z = -1)
    PROVE  \E t2, w, W2 : /\ State(LoserTurn(l, before, u), t2, w, (c \div 2) \div 2, r)
                          /\ Climb(n, l, t2, w, c \div 2, W2, P, S, quiet)
  <1>0. PICK p : p = c \div 2
    OBVIOUS
  <1>1. /\ n \in Nat \ {0} /\ l \in [0..n - 1 -> Int] /\ t \in [0..n - 1 -> -1..n - 1]
        /\ W \in [1..2 * n - 1 -> -1..n - 1] /\ c \in P /\ W[c] = z /\ y = W[Sibling(c)]
        /\ quiet => Quiet(P, t, z, p)
    BY <1>0 DEF Climb, LoserNodes, Vector
  <1>2. P \subseteq 1..n + s /\ c \in P
    BY <1>1 DEF IsPath
  <1>3. c \in 1..2 * n - 1 /\ c \in Nat /\ n + s \in Nat
    BY <1>1, <1>2
  <1>4. /\ p \in Nat \ {0} /\ p \in 1..n - 1 /\ Sibling(c) \in 1..2 * n - 1
        /\ \/ c = 2 * p /\ Sibling(c) = 2 * p + 1
           \/ c = 2 * p + 1 /\ Sibling(c) = 2 * p
    <2>1. c \in Nat /\ c > 1
      BY <1>3
    <2>2. /\ p \in Nat /\ p >= 1 /\ p < c
          /\ \/ c = 2 * p /\ Sibling(c) = 2 * p + 1
             \/ c = 2 * p + 1 /\ Sibling(c) = 2 * p
      BY <1>0, <2>1, SiblingIs
    <2>3. p \in 1..n - 1 /\ 2 * p \in 1..2 * n - 1 /\ 2 * p + 1 \in 1..2 * n - 1
      BY <1>1, <1>3, <2>2
    <2>4. QED  BY <2>2, <2>3
  <1>5. z \in -1..n - 1 /\ y \in -1..n - 1
    BY <1>1, <1>3, <1>4
  <1>6. quiet => ~ (y # -1 /\ z = -1)
    <2>1. p \in P /\ p <= p
      BY <1>0, <1>1, <1>4 DEF IsPath
    <2>2. quiet /\ z = -1 => t[p] = -1
      BY <1>1, <2>1 DEF Quiet
    <2>3. QED  BY <1>0, <2>2
  <1>7. ~ (y # -1 /\ z = -1)
    BY <1>6
  <1>8. ReadsNobody(y, z, r) = r
    BY <1>7 DEF ReadsNobody
  <1>9. State(u, t, z, p, r) /\ p # 0 /\ y = t[p]
    BY <1>0, <1>4
  <1>10. CASE Swaps(l, before, z, y)
    <2>1. State(LoserTurn(l, before, u), [t EXCEPT ![p] = z], y, p \div 2, r)
      BY <1>8, <1>9, <1>10, LoserTurnIs
    <2>2. Met(l, z, t[p], z, y)
      <3>1. CASE y = -1
        BY <1>9, <3>1 DEF Met
      <3>2. CASE y # -1
        <4>1. z # -1 /\ y # -1 /\ z \in 0..n - 1 /\ y \in 0..n - 1
          BY <1>5, <1>7, <3>2
        <4>2. l[z] < l[y]
          BY <1>10, <4>1 DEF Swaps, LoserValue
        <4>3. l[z] \in Int /\ l[y] \in Int
          BY <1>1, <4>1
        <4>4. l[y] >= l[z]
          BY <4>2, <4>3
        <4>5. QED  BY <1>9, <4>1, <4>4 DEF Met
      <3>3. QED  BY <3>1, <3>2
    <2>3. Climb(n, l, [t EXCEPT ![p] = z], y, p, [W EXCEPT ![p] = y], P, S, quiet)
      BY <1>0, <1>5, <2>2, ClimbOn
    <2>4. QED  BY <1>0, <2>1, <2>3
  <1>11. CASE ~ Swaps(l, before, z, y)
    <2>1. State(LoserTurn(l, before, u), t, z, p \div 2, r)
      <3>1. State(LoserTurn(l, before, u), t, z, p \div 2, ReadsNobody(y, z, r))
        BY <1>9, <1>11, LoserTurnIs
      <3>2. QED  BY <1>8, <3>1
    <2>2. z # -1 /\ y # -1 /\ z \in 0..n - 1 /\ y \in 0..n - 1
      <3>1. y # -1
        BY <1>11 DEF Swaps
      <3>2. QED  BY <1>5, <1>7, <3>1
    <2>3. l[z] >= l[y]
      <3>1. ~ (l[z] < l[y])
        BY <1>11, <2>2 DEF Swaps, LoserValue
      <3>2. l[z] \in Int /\ l[y] \in Int
        BY <1>1, <2>2
      <3>3. QED  BY <3>1, <3>2
    <2>4. Met(l, z, t[p], y, z)
      BY <1>9, <2>2, <2>3 DEF Met
    <2>5. Climb(n, l, [t EXCEPT ![p] = y], z, p, [W EXCEPT ![p] = z], P, S, quiet)
      BY <1>0, <1>5, <2>4, ClimbOn
    <2>6. [t EXCEPT ![p] = y] = t
      BY <1>1, <1>9
    <2>7. QED  BY <1>0, <2>1, <2>5, <2>6
  <1>12. QED  BY <1>10, <1>11

LoserTree(n, l, t, W, S) == LoserNodes(n, l, t, W, {}) /\ ThereAre(n, W, S)

\* A leaf that was missing sets out.
LEMMA SetsOut ==
    ASSUME NEW n, NEW l, NEW t, NEW W, NEW S, LoserTree(n, l, t, W, S), NEW s \in 0..n - 1, s \notin S,
           NEW P, IsPath(P, n + s), NEW quiet,
           quiet => Quiet(P, t, s, (n + s) \div 2)
    PROVE  Climb(n, l, t, s, n + s, [W EXCEPT ![n + s] = s], P, S \cup {s}, quiet)
  <1>1. /\ n \in Nat \ {0} /\ Vector(n, l) /\ t \in [0..n - 1 -> -1..n - 1]
        /\ W \in [1..2 * n - 1 -> -1..n - 1]
        /\ \A j \in 1..n - 1 : Met(l, W[2 * j], W[2 * j + 1], t[j], W[j])
        /\ \A i \in 0..n - 1 : W[n + i] = IF i \in S THEN i ELSE -1
    BY DEF LoserTree, LoserNodes, ThereAre, Vector
  <1>2. PICK c : c = n + s
    OBVIOUS
  <1>3. c \in Nat /\ c \in n..2 * n - 1 /\ c \in 1..2 * n - 1 /\ c \in P /\ W[c] = -1
    <2>1. c \in Nat /\ c \in n..2 * n - 1 /\ c \in 1..2 * n - 1
      BY <1>1, <1>2
    <2>2. c \in P
      BY <1>2 DEF IsPath
    <2>3. QED  BY <1>1, <1>2, <2>1, <2>2
  <1>4. PICK V : V = [W EXCEPT ![c] = s]
    OBVIOUS
  <1>5. /\ V \in [1..2 * n - 1 -> -1..n - 1] /\ V[c] = s
        /\ \A j \in 1..2 * n - 1 : j # c => V[j] = W[j]
    <2>1. s \in -1..n - 1
      OBVIOUS
    <2>2. QED  BY <1>1, <1>3, <1>4, <2>1
  <1>6. ASSUME NEW j \in 1..n - 1, j # c \div 2
        PROVE  Met(l, V[2 * j], V[2 * j + 1], t[j], V[j])
    <2>1. 2 * j \in 1..2 * n - 1 /\ 2 * j + 1 \in 1..2 * n - 1 /\ j \in 1..2 * n - 1 /\ j # c
      BY <1>1, <1>3
    <2>2. (2 * j) \div 2 = j /\ (2 * j + 1) \div 2 = j
      OBVIOUS
    <2>3. 2 * j # c /\ 2 * j + 1 # c
      BY <1>6, <2>2
    <2>4. V[2 * j] = W[2 * j] /\ V[2 * j + 1] = W[2 * j + 1] /\ V[j] = W[j]
      BY <1>5, <2>1, <2>3
    <2>5. QED  BY <1>1, <2>4
  <1>7. ThereAre(n, V, S \cup {s})
    <2>1. ASSUME NEW i \in 0..n - 1
          PROVE  V[n + i] = IF i \in S \cup {s} THEN i ELSE -1
      <3>1. CASE i = s
        BY <1>2, <1>5, <3>1
      <3>2. CASE i # s
        <4>1. n + i \in 1..2 * n - 1 /\ n + i # c
          BY <1>1, <1>2, <3>2
        <4>2. V[n + i] = W[n + i]
          BY <1>5, <4>1
        <4>3. QED  BY <1>1, <3>2, <4>2
      <3>3. QED  BY <3>1, <3>2
    <2>2. QED  BY <2>1 DEF ThereAre
  <1>8. ASSUME c > 1
        PROVE  V[c \div 2] = -1 /\ t[c \div 2] = V[Sibling(c)]
    <2>1. PICK q : q = c \div 2
      OBVIOUS
    <2>2. /\ q \in Nat /\ q >= 1 /\ q < c
          /\ \/ c = 2 * q /\ Sibling(c) = 2 * q + 1
             \/ c = 2 * q + 1 /\ Sibling(c) = 2 * q
          /\ Sibling(c) # c
      BY <1>3, <1>8, <2>1, SiblingIs
    <2>3. q \in 1..n - 1 /\ q \in 1..2 * n - 1 /\ 2 * q \in 1..2 * n - 1 /\ 2 * q + 1 \in 1..2 * n - 1
      <3>1. c <= 2 * n - 1 /\ (c = 2 * q \/ c = 2 * q + 1) /\ q \in Nat /\ q >= 1
        BY <1>3, <2>2
      <3>2. q <= n - 1
        BY <1>1, <3>1
      <3>3. QED  BY <1>1, <3>1, <3>2
    <2>4. Met(l, W[2 * q], W[2 * q + 1], t[q], W[q])
      BY <1>1, <2>3
    <2>5. W[q] = -1 /\ t[q] = W[Sibling(c)]
      <3>1. CASE c = 2 * q /\ Sibling(c) = 2 * q + 1
        BY <1>3, <2>4, <3>1 DEF Met
      <3>2. CASE c = 2 * q + 1 /\ Sibling(c) = 2 * q
        BY <1>3, <2>4, <3>2 DEF Met
      <3>3. QED  BY <2>2, <3>1, <3>2
    <2>6. V[q] = W[q] /\ V[Sibling(c)] = W[Sibling(c)]
      BY <1>5, <2>2, <2>3
    <2>7. QED  BY <2>1, <2>5, <2>6
  <1>9. quiet => Quiet(P, t, s, c \div 2)
    BY <1>2
  <1>10. LoserNodes(n, l, t, V, {c \div 2})
    BY <1>1, <1>5, <1>6 DEF LoserNodes
  <1>11. Climb(n, l, t, s, c, V, P, S \cup {s}, quiet)
    BY <1>3, <1>5, <1>7, <1>8, <1>9, <1>10 DEF Climb
  <1>12. QED  BY <1>2, <1>4, <1>11

\* The turn after turn: a missing leaf was compared, or the climb goes on, at most m from
\* the top.
IsRead(u) == \E t, z, p, r : State(u, t, z, p, r) /\ r = TRUE

GoesOn(n, l, u, P, S, quiet, m) ==
    \E t, z, c, W, r : /\ r = FALSE /\ State(u, t, z, c \div 2, r)
                       /\ Climb(n, l, t, z, c, W, P, S, quiet) /\ c \div 2 <= m

LEMMA ReadStays ==
    ASSUME NEW l, NEW before, NEW u, IsRead(u)
    PROVE  IsRead(LoserTurn(l, before, u))
  <1>1. PICK t, z, p, r : State(u, t, z, p, r) /\ r = TRUE
    BY DEF IsRead
  <1>2. PICK y : y = t[p]
    OBVIOUS
  <1>3. ReadsNobody(y, z, r) = TRUE
    BY <1>1 DEF ReadsNobody
  <1>4. CASE p = 0
    BY <1>1, <1>4, LoserTurnIs
  <1>5. CASE p # 0 /\ Swaps(l, before, z, y)
    <2>1. State(LoserTurn(l, before, u), [t EXCEPT ![p] = z], y, p \div 2, ReadsNobody(y, z, r))
      BY <1>1, <1>2, <1>5, LoserTurnIs
    <2>2. QED  BY <1>3, <2>1 DEF IsRead
  <1>6. CASE p # 0 /\ ~ Swaps(l, before, z, y)
    <2>1. State(LoserTurn(l, before, u), t, z, p \div 2, ReadsNobody(y, z, r))
      BY <1>1, <1>2, <1>6, LoserTurnIs
    <2>2. QED  BY <1>3, <2>1 DEF IsRead
  <1>7. QED  BY <1>4, <1>5, <1>6

\* A -1 that comes up to a node with a leaf is compared.
LEMMA ReadHere ==
    ASSUME NEW l, NEW before, NEW u, NEW t, NEW z, NEW p, NEW r, State(u, t, z, p, r),
           p # 0, z = -1, t[p] # -1
    PROVE  IsRead(LoserTurn(l, before, u))
  <1>1. PICK y : y = t[p]
    OBVIOUS
  <1>2. ReadsNobody(y, z, r) = TRUE
    BY <1>1 DEF ReadsNobody
  <1>3. CASE Swaps(l, before, z, y)
    <2>1. State(LoserTurn(l, before, u), [t EXCEPT ![p] = z], y, p \div 2, ReadsNobody(y, z, r))
      BY <1>1, <1>3, LoserTurnIs
    <2>2. QED  BY <1>2, <2>1 DEF IsRead
  <1>4. CASE ~ Swaps(l, before, z, y)
    <2>1. State(LoserTurn(l, before, u), t, z, p \div 2, ReadsNobody(y, z, r))
      BY <1>1, <1>4, LoserTurnIs
    <2>2. QED  BY <1>2, <2>1 DEF IsRead
  <1>5. QED  BY <1>3, <1>4

LEMMA TurnGoesOn ==
    ASSUME NEW n, NEW l, NEW u, NEW P, NEW S, NEW quiet, NEW m \in Nat,
           GoesOn(n, l, u, P, S, quiet, m + 1), NEW s \in 0..n - 1, IsPath(P, n + s), NEW before
    PROVE  \/ ~ quiet /\ IsRead(LoserTurn(l, before, u))
           \/ GoesOn(n, l, LoserTurn(l, before, u), P, S, quiet, m)
  <1>1. PICK t, z, c, W, r : /\ r = FALSE /\ State(u, t, z, c \div 2, r)
                             /\ Climb(n, l, t, z, c, W, P, S, quiet) /\ c \div 2 <= m + 1
    BY DEF GoesOn
  <1>2. c \in Nat /\ c # 0
    <2>1. n \in Nat \ {0} /\ P \subseteq 1..n + s /\ c \in P
      BY <1>1 DEF Climb, LoserNodes, Vector, IsPath
    <2>2. QED  BY <2>1
  <1>3. PICK p \in Nat : p = c \div 2 /\ (c > 1 => p >= 1) /\ (c = 1 => p = 0)
    <2>1. 1 \div 2 = 0 /\ c \div 2 \in Nat
      BY <1>2, HalfIs
    <2>2. c > 1 => c \div 2 >= 1
      BY <1>2, SiblingIs
    <2>3. QED  BY <2>1, <2>2
  <1>4. CASE c = 1
    <2>1. LoserTurn(l, before, u) = u
      <3>1. PICK y : y = t[p]
        OBVIOUS
      <3>2. State(u, t, z, p, r) /\ p = 0
        BY <1>1, <1>3, <1>4
      <3>3. QED  BY <3>1, <3>2, LoserTurnIs
    <2>2. c \div 2 <= m
      BY <1>3, <1>4
    <2>3. QED  BY <1>1, <2>1, <2>2 DEF GoesOn
  <1>5. CASE c > 1 /\ ~ quiet /\ t[p] # -1 /\ z = -1
    <2>1. State(u, t, z, p, r) /\ p # 0
      BY <1>1, <1>3, <1>5
    <2>2. QED  BY <1>5, <2>1, ReadHere
  <1>6. CASE c > 1 /\ (quiet \/ ~ (t[p] # -1 /\ z = -1))
    <2>1. PICK t2, w, W2 : /\ State(LoserTurn(l, before, u), t2, w, p \div 2, r)
                           /\ Climb(n, l, t2, w, p, W2, P, S, quiet)
      <3>1. PICK y : y = t[c \div 2]
        OBVIOUS
      <3>2. c > 1 /\ (quiet \/ ~ (y # -1 /\ z = -1))
        BY <1>3, <1>6, <3>1
      <3>3. \E t2, w, W2 : /\ State(LoserTurn(l, before, u), t2, w, (c \div 2) \div 2, r)
                           /\ Climb(n, l, t2, w, c \div 2, W2, P, S, quiet)
        BY <1>1, <3>1, <3>2, TurnClimbs
      <3>4. QED  BY <1>3, <3>3
    <2>2. p \div 2 <= m
      <3>1. p >= 1 /\ p <= m + 1 /\ p \div 2 \in Nat
        BY <1>1, <1>3, <1>6, HalfIs
      <3>2. p \div 2 < p
        BY <3>1, HalfIs
      <3>3. QED  BY <3>1, <3>2
    <2>3. QED  BY <1>1, <2>1, <2>2 DEF GoesOn
  <1>7. QED  BY <1>2, <1>4, <1>5, <1>6

\* a is what adjust yields: the tree with the leaves of S, unless a missing leaf was compared.
AdjustedTo(n, l, a, S, quiet) ==
    \E t, r : /\ a = <<t, r>> /\ t \in [0..n - 1 -> -1..n - 1] /\ r \in BOOLEAN
              /\ quiet => r = FALSE
              /\ r = FALSE => \E W : LoserTree(n, l, t, W, S) /\ t[0] = W[1]

LEMMA TopIsReached ==
    ASSUME NEW n, NEW l, NEW u, NEW P, NEW S, NEW quiet, GoesOn(n, l, u, P, S, quiet, 0),
           NEW s \in 0..n - 1, IsPath(P, n + s), u \in LoserStates(n)
    PROVE  AdjustedTo(n, l, Outcome(u), S, quiet)
  <1>1. PICK t, z, c, W, r : /\ r = FALSE /\ State(u, t, z, c \div 2, r)
                             /\ Climb(n, l, t, z, c, W, P, S, quiet) /\ c \div 2 <= 0
    BY DEF GoesOn
  <1>2. /\ n \in Nat \ {0} /\ t \in [0..n - 1 -> -1..n - 1] /\ W \in [1..2 * n - 1 -> -1..n - 1]
        /\ Vector(n, l) /\ c \in P /\ P \subseteq 1..n + s /\ W[c] = z /\ ThereAre(n, W, S)
    BY <1>1 DEF Climb, LoserNodes, Vector, IsPath
  <1>3. c = 1
    <2>1. c \in Nat \ {0}
      BY <1>2
    <2>2. c \in Nat /\ c > 1 => c \div 2 >= 1
      BY SiblingIs
    <2>3. c > 1 => ~ (c \div 2 <= 0)
      BY <2>1, <2>2, HalfIs
    <2>4. QED  BY <1>1, <2>1, <2>3
  <1>4. c \div 2 = 0
    BY <1>3
  <1>5. z = W[1] /\ z \in -1..n - 1
    <2>1. 1 \in 1..2 * n - 1
      BY <1>2
    <2>2. QED  BY <1>2, <1>3, <2>1
  <1>6. PICK t2 : t2 = [t EXCEPT ![0] = z]
    OBVIOUS
  <1>7. /\ t2 \in [0..n - 1 -> -1..n - 1] /\ t2[0] = z
        /\ \A j \in 1..n - 1 : t2[j] = t[j]
    <2>1. 0 \in 0..n - 1 /\ \A j \in 1..n - 1 : j \in 0..n - 1 /\ j # 0
      BY <1>2
    <2>2. QED  BY <1>2, <1>5, <1>6, <2>1
  <1>8. \A j \in 1..n - 1 : Met(l, W[2 * j], W[2 * j + 1], t[j], W[j])
    <2>1. \A j \in 1..n - 1 : j \notin {c \div 2}
      BY <1>4
    <2>2. LoserNodes(n, l, t, W, {c \div 2})
      BY <1>1 DEF Climb
    <2>3. QED  BY <2>1, <2>2 DEF LoserNodes
  <1>9. LoserTree(n, l, t2, W, S) /\ t2[0] = W[1]
    BY <1>2, <1>5, <1>7, <1>8 DEF LoserTree, LoserNodes
  <1>10. u[1] = t /\ u[2] = z /\ u[4] = r
    BY <1>1 DEF State
  <1>11. Outcome(u) = <<t2, r>>
    BY <1>6, <1>10 DEF Outcome
  <1>12. r \in BOOLEAN
    BY <1>1
  <1>13. QED  BY <1>1, <1>7, <1>9, <1>11, <1>12 DEF AdjustedTo

\* Whatever was read stays read.
LEMMA ReadToTheEnd ==
    ASSUME NEW n \in Nat \ {0}, NEW l, NEW tr, NEW s, NEW before, NEW up,
           Climbing(n, l, tr, s, before, up), NEW i \in 0..n, IsRead(up[i])
    PROVE  IsRead(up[n])
  <1>1. PICK h \in Nat : h = n - i
    OBVIOUS
  <1>2. PICK G : G = {m \in 0..h : IsRead(up[i + m])}
    OBVIOUS
  <1>3. 0 \in G
    <2>1. i + 0 = i /\ 0 \in 0..h
      OBVIOUS
    <2>2. QED  BY <1>2, <2>1
  <1>4. ASSUME NEW m \in 0..h - 1, m \in G
        PROVE  m + 1 \in G
    <2>1. i + (m + 1) \in 1..n /\ (i + (m + 1)) - 1 = i + m /\ m + 1 \in 0..h
      BY <1>1
    <2>2. up[i + (m + 1)] = LoserTurn(l, before, up[i + m])
      BY <2>1 DEF Climbing
    <2>3. IsRead(up[i + m])
      BY <1>2, <1>4
    <2>4. QED  BY <1>2, <2>1, <2>2, <2>3, ReadStays
  <1>5. \A m \in 0..h : m \in G
    BY <1>3, <1>4, Induction
  <1>6. h \in 0..h /\ i + h = n
    BY <1>1
  <1>7. QED  BY <1>2, <1>5, <1>6

ReadTold(n, a) == \E t : t \in [0..n - 1 -> -1..n - 1] /\ a = <<t, TRUE>>

LEMMA ReadIsTold ==
    ASSUME NEW n, NEW l, NEW u, IsRead(u), u \in LoserStates(n), n \in Nat \ {0}
    PROVE  ReadTold(n, Outcome(u))
  <1>1. PICK t, z, p, r : State(u, t, z, p, r) /\ r = TRUE
    BY DEF IsRead
  <1>2. u[1] = t /\ u[2] = z /\ u[4] = r
    BY <1>1 DEF State
  <1>3. u[1] \in [0..n - 1 -> -1..n - 1] /\ u[2] \in -1..n - 1
    BY DEF LoserStates
  <1>4. [t EXCEPT ![0] = z] \in [0..n - 1 -> -1..n - 1]
    <2>1. 0 \in 0..n - 1
      OBVIOUS
    <2>2. QED  BY <1>2, <1>3, <2>1
  <1>5. QED  BY <1>1, <1>2, <1>4 DEF Outcome, ReadTold

LEMMA LoserAdjustedIs ==
    ASSUME NEW n, NEW l, NEW t, NEW W, NEW S, LoserTree(n, l, t, W, S), NEW s \in 0..n - 1, s \notin S,
           NEW P, IsPath(P, n + s), NEW quiet, quiet => Quiet(P, t, s, (n + s) \div 2), NEW before
    PROVE  AdjustedTo(n, l, Tournament!LoserAdjusted(l, t, s, before), S \cup {s}, quiet)
  <1>1. n \in Nat \ {0} /\ Vector(n, l) /\ t \in [0..n - 1 -> -1..n - 1]
    BY DEF LoserTree, LoserNodes, Vector
  <1>2. PICK up : /\ Climbing(n, l, t, s, before, up)
                  /\ Tournament!LoserAdjusted(l, t, s, before) = Outcome(up[n])
    BY <1>1, ClimbingExists
  <1>3. PICK T : T = S \cup {s}
    OBVIOUS
  <1>4. PICK G : G = {i \in 0..n : \/ ~ quiet /\ IsRead(up[i])
                                   \/ GoesOn(n, l, up[i], P, T, quiet, n - i)}
    OBVIOUS
  <1>5. 0 \in G
    <2>1. Climb(n, l, t, s, n + s, [W EXCEPT ![n + s] = s], P, T, quiet)
      BY <1>3, SetsOut
    <2>2. PICK r : r = FALSE
      OBVIOUS
    <2>3. n + s = s + n
      BY <1>1
    <2>4. State(up[0], t, s, (n + s) \div 2, r)
      BY <1>2, <2>2, <2>3 DEF Climbing, State
    <2>5. (n + s) \div 2 <= n - 0
      <3>1. n + s \in Nat /\ n + s < 2 * n
        BY <1>1
      <3>2. QED  BY <1>1, <3>1, HalfIs
    <2>6. GoesOn(n, l, up[0], P, T, quiet, n - 0)
      BY <2>1, <2>2, <2>4, <2>5 DEF GoesOn
    <2>7. 0 \in 0..n
      BY <1>1
    <2>8. QED  BY <1>4, <2>6, <2>7
  <1>6. ASSUME NEW i \in 0..n - 1, i \in G
        PROVE  i + 1 \in G
    <2>1. i + 1 \in 1..n /\ (i + 1) - 1 = i /\ i + 1 \in 0..n /\ i \in 0..n
      BY <1>1
    <2>2. up[i + 1] = LoserTurn(l, before, up[i])
      BY <1>2, <2>1 DEF Climbing
    <2>3. CASE ~ quiet /\ IsRead(up[i])
      BY <1>4, <2>1, <2>2, <2>3, ReadStays
    <2>4. CASE GoesOn(n, l, up[i], P, T, quiet, n - i)
      <3>1. PICK m \in Nat : m = n - (i + 1) /\ m + 1 = n - i
        BY <1>1
      <3>2. GoesOn(n, l, up[i], P, T, quiet, m + 1)
        BY <2>4, <3>1
      <3>3. \/ ~ quiet /\ IsRead(up[i + 1])
            \/ GoesOn(n, l, up[i + 1], P, T, quiet, m)
        BY <2>2, <3>2, TurnGoesOn
      <3>4. QED  BY <1>4, <2>1, <3>1, <3>3
    <2>5. QED  BY <1>4, <1>6, <2>3, <2>4
  <1>7. n \in G
    <2>1. \A i \in 0..n : i \in G
      BY <1>1, <1>5, <1>6, Induction
    <2>2. QED  BY <1>1, <2>1
  <1>8. up[n] \in LoserStates(n)
    <2>1. n \in 0..n
      BY <1>1
    <2>2. QED  BY <1>2, <2>1 DEF Climbing
  <1>9. CASE ~ quiet /\ IsRead(up[n])
    <2>1. PICK t2 : /\ t2 \in [0..n - 1 -> -1..n - 1]
                    /\ Tournament!LoserAdjusted(l, t, s, before) = <<t2, TRUE>>
      BY <1>1, <1>2, <1>8, <1>9, ReadIsTold DEF ReadTold
    <2>2. TRUE \in BOOLEAN /\ TRUE # FALSE
      OBVIOUS
    <2>3. QED  BY <1>9, <2>1, <2>2 DEF AdjustedTo
  <1>10. CASE GoesOn(n, l, up[n], P, T, quiet, n - n)
    <2>1. n - n = 0
      BY <1>1
    <2>2. GoesOn(n, l, up[n], P, T, quiet, 0)
      BY <1>10, <2>1
    <2>3. QED  BY <1>2, <1>3, <1>8, <2>2, TopIsReached
  <1>11. QED  BY <1>4, <1>7, <1>9, <1>10

\* One turn of the loser tree's build.
BuildTurn(l, before, b, i) ==
    <<Tournament!LoserAdjusted(l, b[1], i, before)[1],
      b[2] \/ Tournament!LoserAdjusted(l, b[1], i, before)[2]>>

BuildStates(n) == [0..n - 1 -> -1..n - 1] \X BOOLEAN

Vacant(n) == <<[j \in 0..n - 1 |-> -1], FALSE>>

Building(n, l, before, g) ==
    /\ g[n] = Vacant(n)
    /\ \A i \in 0..n - 1 : g[i] = BuildTurn(l, before, g[i + 1], i)

LEMMA AdjustedStays ==
    ASSUME NEW n, NEW l, Vector(n, l), NEW tr \in [0..n - 1 -> -1..n - 1],
           NEW s \in 0..n - 1, NEW before
    PROVE  /\ Tournament!LoserAdjusted(l, tr, s, before)[1] \in [0..n - 1 -> -1..n - 1]
           /\ Tournament!LoserAdjusted(l, tr, s, before)[2] \in BOOLEAN
  <1>1. PICK up : /\ Climbing(n, l, tr, s, before, up)
                  /\ Tournament!LoserAdjusted(l, tr, s, before) = Outcome(up[n])
    BY ClimbingExists
  <1>2. n \in Nat \ {0}
    BY DEF Vector
  <1>3. PICK u : u = up[n] /\ u \in LoserStates(n)
    <2>1. n \in 0..n
      BY <1>2
    <2>2. QED  BY <1>1, <2>1 DEF Climbing
  <1>4. u[1] \in [0..n - 1 -> -1..n - 1] /\ u[2] \in -1..n - 1 /\ u[4] \in BOOLEAN
    BY <1>3 DEF LoserStates
  <1>5. [u[1] EXCEPT ![0] = u[2]] \in [0..n - 1 -> -1..n - 1]
    <2>1. 0 \in 0..n - 1
      BY <1>2
    <2>2. QED  BY <1>4, <2>1
  <1>6. QED  BY <1>1, <1>3, <1>4, <1>5 DEF Outcome

LEMMA BuildTurnStays ==
    ASSUME NEW n, NEW l, Vector(n, l), NEW before, NEW b \in BuildStates(n), NEW i \in 0..n - 1
    PROVE  BuildTurn(l, before, b, i) \in BuildStates(n)
  <1>1. b[1] \in [0..n - 1 -> -1..n - 1] /\ b[2] \in BOOLEAN
    BY DEF BuildStates
  <1>2. /\ Tournament!LoserAdjusted(l, b[1], i, before)[1] \in [0..n - 1 -> -1..n - 1]
        /\ Tournament!LoserAdjusted(l, b[1], i, before)[2] \in BOOLEAN
    BY <1>1, AdjustedStays
  <1>3. (b[2] \/ Tournament!LoserAdjusted(l, b[1], i, before)[2]) \in BOOLEAN
    OBVIOUS
  <1>4. QED  BY <1>2, <1>3 DEF BuildTurn, BuildStates

LEMMA BuildingExists ==
    ASSUME NEW n, NEW l, Vector(n, l), NEW before
    PROVE  \E g : Building(n, l, before, g) /\ Tournament!LoserBuilt(l, before) = g[0]
  <1>0. n \in Nat \ {0} /\ n \in Nat /\ Tournament!k(l) = n
    BY kIs DEF Vector
  <1>1. PICK S : S = BuildStates(n)
    OBVIOUS
  <1>2. PICK step : step = [m \in 1..n |-> [b \in S |-> BuildTurn(l, before, b, n - m)]]
    OBVIOUS
  <1>3. step \in [1..n -> [S -> S]]
    <2>1. ASSUME NEW m \in 1..n, NEW b \in S
          PROVE  BuildTurn(l, before, b, n - m) \in S
      <3>1. n - m \in 0..n - 1
        BY <1>0
      <3>2. QED  BY <1>1, <3>1, BuildTurnStays
    <2>2. QED  BY <1>2, <2>1
  <1>4. Vacant(n) \in S
    <2>1. [j \in 0..n - 1 |-> -1] \in [0..n - 1 -> -1..n - 1]
      BY <1>0
    <2>2. FALSE \in BOOLEAN
      OBVIOUS
    <2>3. QED  BY <1>1, <2>1, <2>2 DEF Vacant, BuildStates
  <1>5. PICK w : Iterated(n, S, Vacant(n), step, w)
    BY <1>0, <1>3, <1>4, Iterates
  <1>6. PICK f : f = [i \in 0..n |-> w[n - i]]
    OBVIOUS
  <1>7. ASSUME NEW i \in 0..n
        PROVE  f[i] = IF i = n THEN Vacant(n) ELSE BuildTurn(l, before, f[i + 1], i)
    <2>1. CASE i = n
      <3>1. n - i = 0
        BY <1>0, <2>1
      <3>2. QED  BY <1>5, <1>6, <2>1, <3>1 DEF Iterated
    <2>2. CASE i # n
      <3>1. /\ n - i \in 1..n /\ (n - i) - 1 \in 0..n /\ n - (n - i) = i
            /\ i + 1 \in 0..n /\ n - (i + 1) = (n - i) - 1
        BY <1>0, <2>2
      <3>2. f[i + 1] = w[(n - i) - 1] /\ f[i] = w[n - i] /\ w[(n - i) - 1] \in S
        BY <1>5, <1>6, <3>1 DEF Iterated
      <3>3. w[n - i] = step[n - i][w[(n - i) - 1]]
        BY <1>5, <3>1 DEF Iterated
      <3>4. step[n - i][w[(n - i) - 1]] = BuildTurn(l, before, w[(n - i) - 1], n - (n - i))
        BY <1>2, <3>1, <3>2
      <3>5. QED  BY <2>2, <3>1, <3>2, <3>3, <3>4
    <2>3. QED  BY <2>1, <2>2
  <1>8. f = [i \in 0..n |-> IF i = n THEN Vacant(n) ELSE BuildTurn(l, before, f[i + 1], i)]
    BY <1>6, <1>7
  <1>9. PICK g : g = CHOOSE h : h = [i \in 0..n |-> IF i = n THEN Vacant(n)
                                                    ELSE BuildTurn(l, before, h[i + 1], i)]
    OBVIOUS
  <1>10. g = [i \in 0..n |-> IF i = n THEN Vacant(n) ELSE BuildTurn(l, before, g[i + 1], i)]
    BY <1>8, <1>9
  <1>11. Tournament!LoserBuilt(l, before) = g[0]
    BY <1>0, <1>9 DEF Tournament!LoserBuilt, BuildTurn, Vacant
  <1>12. Building(n, l, before, g)
    BY <1>0, <1>10 DEF Building
  <1>13. QED  BY <1>11, <1>12

\* A leaf whose brother is missing and whose cousins are there sends a -1 to them.
LEMMA MustRead ==
    ASSUME NEW n, NEW l, NEW t, NEW W, NEW S, LoserTree(n, l, t, W, S),
           NEW s \in 0..n - 1, S = s + 1..n - 1, NEW q \in Nat \ {0}, n + s = 4 * q + 1,
           s >= 1, s + 2 <= n - 1, NEW before
    PROVE  ReadTold(n, Tournament!LoserAdjusted(l, t, s, before))
  <1>1. /\ n \in Nat \ {0} /\ Vector(n, l) /\ t \in [0..n - 1 -> -1..n - 1]
        /\ \A j \in 1..n - 1 : Met(l, W[2 * j], W[2 * j + 1], t[j], W[j])
        /\ \A i \in 0..n - 1 : W[n + i] = IF i \in S THEN i ELSE -1
    BY DEF LoserTree, LoserNodes, ThereAre, Vector
  <1>2. PICK p \in Nat : p = 2 * q
    OBVIOUS
  <1>3. /\ p \in 1..n - 1 /\ p + 1 \in 1..n - 1 /\ q \in 1..n - 1 /\ p # q
        /\ (s + n) \div 2 = p /\ p \div 2 = q
    <2>1. s + n = 2 * p + 1 /\ s <= n - 3
      BY <1>1, <1>2
    <2>2. (2 * p + 1) \div 2 = p /\ (2 * q) \div 2 = q
      OBVIOUS
    <2>3. QED  BY <1>1, <1>2, <2>1, <2>2
  <1>4. /\ W[2 * p] = -1 /\ W[2 * p + 1] = -1
        /\ W[2 * (p + 1)] # -1 /\ W[2 * (p + 1) + 1] # -1
    <2>1. /\ 2 * p = n + (s - 1) /\ 2 * p + 1 = n + s
          /\ 2 * (p + 1) = n + (s + 1) /\ 2 * (p + 1) + 1 = n + (s + 2)
      BY <1>1, <1>2
    <2>2. /\ s - 1 \in 0..n - 1 /\ s - 1 \notin S /\ s \notin S
          /\ s + 1 \in 0..n - 1 /\ s + 1 \in S /\ s + 2 \in 0..n - 1 /\ s + 2 \in S
          /\ s + 1 # -1 /\ s + 2 # -1
      BY <1>1
    <2>3. QED  BY <1>1, <2>1, <2>2
  <1>5. t[p] = -1 /\ W[p] = -1
    BY <1>1, <1>3, <1>4 DEF Met
  <1>6. W[p + 1] # -1
    <2>1. Met(l, W[2 * (p + 1)], W[2 * (p + 1) + 1], t[p + 1], W[p + 1])
      BY <1>1, <1>3
    <2>2. QED  BY <1>4, <2>1 DEF Met
  <1>7. t[q] # -1
    <2>1. Met(l, W[p], W[p + 1], t[q], W[q])
      BY <1>1, <1>2, <1>3
    <2>2. QED  BY <1>5, <1>6, <2>1 DEF Met
  <1>8. PICK up : /\ Climbing(n, l, t, s, before, up)
                  /\ Tournament!LoserAdjusted(l, t, s, before) = Outcome(up[n])
    <2>1. Vector(n, l) /\ t \in [0..n - 1 -> -1..n - 1]
      BY <1>1
    <2>2. QED  BY <2>1, ClimbingExists
  <1>9. PICK r : State(up[0], t, s, p, r)
    BY <1>3, <1>8 DEF Climbing, State
  <1>10. PICK y : y = t[p] /\ y = -1
    BY <1>5
  <1>11. PICK t2 : t2 = [t EXCEPT ![p] = s]
    OBVIOUS
  <1>12. State(LoserTurn(l, before, up[0]), t2, y, q, ReadsNobody(y, s, r))
    <2>1. Swaps(l, before, s, y) /\ p # 0
      BY <1>3, <1>10 DEF Swaps
    <2>2. State(LoserTurn(l, before, up[0]), [t EXCEPT ![p] = s], y, p \div 2, ReadsNobody(y, s, r))
      BY <1>9, <1>10, <2>1, LoserTurnIs
    <2>3. QED  BY <1>3, <1>11, <2>2
  <1>13. t2[q] # -1
    BY <1>1, <1>3, <1>7, <1>11
  <1>14. up[1] = LoserTurn(l, before, up[0]) /\ up[2] = LoserTurn(l, before, up[1])
    <2>1. 1 \in 1..n /\ 2 \in 1..n /\ 1 - 1 = 0 /\ 2 - 1 = 1
      BY <1>1
    <2>2. QED  BY <1>8, <2>1 DEF Climbing
  <1>15. IsRead(up[2])
    <2>1. q # 0
      OBVIOUS
    <2>2. QED  BY <1>10, <1>12, <1>13, <1>14, <2>1, ReadHere
  <1>16. IsRead(up[n]) /\ up[n] \in LoserStates(n)
    <2>1. 2 \in 0..n /\ n \in 0..n
      BY <1>1
    <2>2. n \in Nat \ {0}
      BY <1>1
    <2>3. IsRead(up[n])
      BY <1>8, <1>15, <2>1, <2>2, ReadToTheEnd
    <2>4. QED  BY <1>8, <2>1, <2>3 DEF Climbing
  <1>17. QED  BY <1>1, <1>8, <1>16, ReadIsTold

\* The trees whose build compares no missing leaf.
LEMMA QuietBuild ==
    ASSUME NEW n \in {1, 2, 3, 5}, NEW l, NEW t, NEW W, NEW S, LoserTree(n, l, t, W, S),
           NEW s \in 0..n - 1, S = s + 1..n - 1, NEW P, IsPath(P, n + s)
    PROVE  Quiet(P, t, s, (n + s) \div 2)
  <1>1. /\ \A j \in 1..n - 1 : Met(l, W[2 * j], W[2 * j + 1], t[j], W[j])
        /\ \A i \in 0..n - 1 : W[n + i] = IF i \in S THEN i ELSE -1
    BY DEF LoserTree, LoserNodes, ThereAre
  <1>2. P \subseteq 1..n + s /\ \A a, b \in P : a < b => a <= b \div 2
    BY DEF IsPath
  <1>3. (n + s) \div 2 <= n - 1
    <2>1. n + s \in Nat /\ n + s < 2 * n
      OBVIOUS
    <2>2. QED  BY <2>1, HalfIs
  <1>4. W[n] = -1
    <2>1. 0 \in 0..n - 1 /\ 0 \notin S /\ n + 0 = n
      OBVIOUS
    <2>2. QED  BY <1>1, <2>1
  <1>5. n = 3 => (t[2] = -1 => t[1] = -1)
    <2>1. ASSUME n = 3, t[2] = -1
          PROVE  t[1] = -1
      <3>1. Met(l, W[2], W[3], t[1], W[1]) /\ Met(l, W[4], W[5], t[2], W[2])
        <4>1. 1 \in 1..n - 1 /\ 2 \in 1..n - 1 /\ 2 * 1 = 2 /\ 2 * 1 + 1 = 3 /\ 2 * 2 = 4 /\ 2 * 2 + 1 = 5
          BY <2>1
        <4>2. QED  BY <1>1, <4>1
      <3>2. W[2] = -1
        BY <2>1, <3>1 DEF Met
      <3>3. QED  BY <1>4, <2>1, <3>1, <3>2 DEF Met
    <2>2. QED  BY <2>1
  <1>6. n = 5 => /\ t[2] = -1 => t[1] = -1
                 /\ t[3] = -1 => t[1] = -1
                 /\ t[4] = -1 => t[1] = -1 /\ t[2] = -1
    <2>1. ASSUME n = 5
          PROVE  /\ t[2] = -1 => t[1] = -1
                 /\ t[3] = -1 => t[1] = -1
                 /\ t[4] = -1 => t[1] = -1 /\ t[2] = -1
      <3>1. /\ Met(l, W[2], W[3], t[1], W[1]) /\ Met(l, W[4], W[5], t[2], W[2])
            /\ Met(l, W[6], W[7], t[3], W[3]) /\ Met(l, W[8], W[9], t[4], W[4])
        <4>1. /\ 1 \in 1..n - 1 /\ 2 \in 1..n - 1 /\ 3 \in 1..n - 1 /\ 4 \in 1..n - 1
              /\ 2 * 1 = 2 /\ 2 * 1 + 1 = 3 /\ 2 * 2 = 4 /\ 2 * 2 + 1 = 5
              /\ 2 * 3 = 6 /\ 2 * 3 + 1 = 7 /\ 2 * 4 = 8 /\ 2 * 4 + 1 = 9
          BY <2>1
        <4>2. QED  BY <1>1, <4>1
      <3>2. /\ W[6] = IF s < 1 THEN 1 ELSE -1
            /\ W[7] = IF s < 2 THEN 2 ELSE -1
            /\ W[8] = IF s < 3 THEN 3 ELSE -1
            /\ W[9] = IF s < 4 THEN 4 ELSE -1
        <4>1. /\ n + 1 = 6 /\ n + 2 = 7 /\ n + 3 = 8 /\ n + 4 = 9
              /\ 1 \in 0..n - 1 /\ 2 \in 0..n - 1 /\ 3 \in 0..n - 1 /\ 4 \in 0..n - 1
              /\ 1 \in S <=> s < 1
              /\ 2 \in S <=> s < 2
              /\ 3 \in S <=> s < 3
              /\ 4 \in S <=> s < 4
          BY <2>1
        <4>2. QED  BY <1>1, <4>1
      <3>3. W[5] = -1 /\ s \in Nat
        BY <1>4, <2>1
      <3>4. W[2] = -1
        BY <3>1, <3>3 DEF Met
      <3>5. ASSUME t[2] = -1
            PROVE  t[1] = -1
        <4>1. W[4] = -1
          BY <3>1, <3>5 DEF Met
        <4>2. ~ (s < 3)
          BY <3>1, <3>2, <3>3, <4>1 DEF Met
        <4>3. W[6] = -1
          BY <3>2, <3>3, <4>2
        <4>4. W[3] = -1
          BY <3>1, <4>3 DEF Met
        <4>5. QED  BY <3>1, <3>4, <4>4 DEF Met
      <3>6. ASSUME t[3] = -1
            PROVE  t[1] = -1
        <4>1. W[3] = -1
          BY <3>1, <3>6 DEF Met
        <4>2. QED  BY <3>1, <3>4, <4>1 DEF Met
      <3>7. ASSUME t[4] = -1
            PROVE  t[1] = -1 /\ t[2] = -1
        <4>1. W[4] = -1
          BY <3>1, <3>7 DEF Met
        <4>2. t[2] = -1
          BY <3>1, <3>3, <4>1 DEF Met
        <4>3. QED  BY <3>5, <4>2
      <3>8. QED  BY <3>5, <3>6, <3>7
    <2>2. QED  BY <2>1
  <1>7. ASSUME NEW a \in P, NEW b \in P, b < a, a <= (n + s) \div 2, t[a] = -1
        PROVE  t[b] = -1
    <2>1. a \in 1..n - 1 /\ b \in Nat \ {0} /\ b <= a \div 2
      BY <1>2, <1>3, <1>7
    <2>2. PICK h \in Nat : h = a \div 2 /\ (a = 2 * h \/ a = 2 * h + 1)
      BY <2>1, HalfIs
    <2>3. CASE n = 1 \/ n = 2
      BY <1>7, <2>1, <2>3
    <2>4. CASE n = 3
      <3>1. a = 2 /\ b = 1
        BY <1>7, <2>1, <2>4
      <3>2. QED  BY <1>5, <1>7, <2>4, <3>1
    <2>5. CASE n = 5
      <3>1. \/ a = 2 /\ b = 1
            \/ a = 3 /\ b = 1
            \/ a = 4 /\ (b = 1 \/ b = 2)
        BY <1>7, <2>1, <2>2, <2>5
      <3>2. QED  BY <1>6, <1>7, <2>5, <3>1
    <2>6. QED  BY <2>3, <2>4, <2>5
  <1>8. s # -1
    OBVIOUS
  <1>9. QED  BY <1>7, <1>8 DEF Quiet

\* The turn at which build compares a missing leaf at the latest, unless it is quiet.
FirstRead(n) == IF n = 2 * (n \div 2) THEN n - 3 ELSE n - 5

BuiltFrom(n, l, b, i) ==
    \E t, r : /\ b = <<t, r>> /\ t \in [0..n - 1 -> -1..n - 1] /\ r \in BOOLEAN
              /\ n \in {1, 2, 3, 5} => r = FALSE
              /\ n \notin {1, 2, 3, 5} /\ i <= FirstRead(n) => r = TRUE
              /\ r = FALSE => \E W : LoserTree(n, l, t, W, i..n - 1) /\ t[0] = W[1]

LEMMA FirstReadIs ==
    ASSUME NEW n \in Nat \ {0}, n \notin {1, 2, 3, 5}, NEW s, s = FirstRead(n)
    PROVE  /\ s \in 1..n - 1 /\ s + 2 <= n - 1
           /\ \E q \in Nat \ {0} : n + s = 4 * q + 1
  <1>1. PICK h \in Nat : h = n \div 2 /\ (n = 2 * h \/ n = 2 * h + 1)
    BY HalfIs
  <1>2. PICK q : q = h - 1
    OBVIOUS
  <1>3. CASE n = 2 * h
    <2>1. h >= 2 /\ s = n - 3
      BY <1>1, <1>3 DEF FirstRead
    <2>2. q \in Nat \ {0} /\ n + s = 4 * q + 1
      BY <1>1, <1>2, <1>3, <2>1
    <2>3. QED  BY <1>1, <1>3, <2>1, <2>2
  <1>4. CASE n = 2 * h + 1
    <2>1. h >= 3 /\ s = n - 5
      BY <1>1, <1>4 DEF FirstRead
    <2>2. q \in Nat \ {0} /\ n + s = 4 * q + 1
      BY <1>1, <1>2, <1>4, <2>1
    <2>3. QED  BY <1>1, <1>4, <2>1, <2>2
  <1>5. QED  BY <1>1, <1>3, <1>4

\* What was compared stays compared.
LEMMA TurnAfterRead ==
    ASSUME NEW n \in Nat \ {0}, NEW l, Vector(n, l), NEW before, NEW i \in 0..n - 1, NEW b, NEW t,
           b = <<t, TRUE>>, t \in [0..n - 1 -> -1..n - 1], n \notin {1, 2, 3, 5}
    PROVE  BuiltFrom(n, l, BuildTurn(l, before, b, i), i)
  <1>1. b[1] = t /\ b[2] = TRUE
    OBVIOUS
  <1>2. PICK t2 : t2 = Tournament!LoserAdjusted(l, t, i, before)[1] /\ t2 \in [0..n - 1 -> -1..n - 1]
    BY AdjustedStays
  <1>3. BuildTurn(l, before, b, i) = <<t2, TRUE>>
    BY <1>1, <1>2 DEF BuildTurn
  <1>4. TRUE \in BOOLEAN /\ TRUE # FALSE
    OBVIOUS
  <1>5. QED  BY <1>2, <1>3, <1>4 DEF BuiltFrom

LEMMA TurnOfNobody ==
    ASSUME NEW l, NEW before, NEW i, NEW b, NEW t, b = <<t, FALSE>>, NEW t2, NEW r, r \in BOOLEAN,
           Tournament!LoserAdjusted(l, t, i, before) = <<t2, r>>
    PROVE  BuildTurn(l, before, b, i) = <<t2, r>>
  <1>1. b[1] = t /\ b[2] = FALSE
    OBVIOUS
  <1>2. PICK a : a = Tournament!LoserAdjusted(l, b[1], i, before) /\ a[1] = t2 /\ a[2] = r
    BY <1>1
  <1>3. BuildTurn(l, before, b, i) = <<a[1], b[2] \/ a[2]>>
    BY <1>2 DEF BuildTurn
  <1>4. (b[2] \/ a[2]) = r
    BY <1>1, <1>2
  <1>5. QED  BY <1>2, <1>3, <1>4

LEMMA BuildTurnIs ==
    ASSUME NEW n \in Nat \ {0}, NEW l, Vector(n, l), NEW before, NEW i \in 0..n - 1, NEW b,
           BuiltFrom(n, l, b, i + 1)
    PROVE  BuiltFrom(n, l, BuildTurn(l, before, b, i), i)
  <1>1. PICK t, r : /\ b = <<t, r>> /\ t \in [0..n - 1 -> -1..n - 1] /\ r \in BOOLEAN
                    /\ n \in {1, 2, 3, 5} => r = FALSE
                    /\ n \notin {1, 2, 3, 5} /\ i + 1 <= FirstRead(n) => r = TRUE
                    /\ r = FALSE => \E W : LoserTree(n, l, t, W, i + 1..n - 1) /\ t[0] = W[1]
    BY DEF BuiltFrom
  <1>2. CASE r = TRUE
    <2>1. n \notin {1, 2, 3, 5}
      BY <1>1, <1>2
    <2>2. b = <<t, TRUE>>
      BY <1>1, <1>2
    <2>3. QED  BY <1>1, <2>1, <2>2, TurnAfterRead
  <1>3. CASE r = FALSE
    <2>1. PICK W : LoserTree(n, l, t, W, i + 1..n - 1)
      BY <1>1, <1>3
    <2>2. PICK P : IsPath(P, n + i)
      <3>1. n + i \in Nat \ {0}
        OBVIOUS
      <3>2. QED  BY <3>1, PathExists
    <2>3. PICK S : S = i + 1..n - 1
      OBVIOUS
    <2>4. LoserTree(n, l, t, W, S) /\ i \notin S /\ S \cup {i} = i..n - 1
      BY <2>1, <2>3
    <2>5. b = <<t, FALSE>>
      BY <1>1, <1>3
    <2>6. CASE n \in {1, 2, 3, 5}
      <3>1. PICK quiet : quiet = TRUE
        OBVIOUS
      <3>2. Quiet(P, t, i, (n + i) \div 2)
        BY <2>2, <2>3, <2>4, <2>6, QuietBuild
      <3>3. AdjustedTo(n, l, Tournament!LoserAdjusted(l, t, i, before), S \cup {i}, quiet)
        BY <2>2, <2>4, <3>2, LoserAdjustedIs
      <3>4. PICK t2, r2 : /\ Tournament!LoserAdjusted(l, t, i, before) = <<t2, r2>>
                          /\ t2 \in [0..n - 1 -> -1..n - 1] /\ r2 \in BOOLEAN
                          /\ r2 = FALSE
                          /\ \E V : LoserTree(n, l, t2, V, S \cup {i}) /\ t2[0] = V[1]
        BY <3>1, <3>3 DEF AdjustedTo
      <3>5. BuildTurn(l, before, b, i) = <<t2, r2>>
        BY <2>5, <3>4, TurnOfNobody
      <3>6. QED  BY <2>4, <2>6, <3>4, <3>5 DEF BuiltFrom
    <2>7. CASE n \notin {1, 2, 3, 5}
      <3>1. PICK quiet : quiet = FALSE
        OBVIOUS
      <3>2. AdjustedTo(n, l, Tournament!LoserAdjusted(l, t, i, before), S \cup {i}, quiet)
        BY <2>2, <2>4, <3>1, LoserAdjustedIs
      <3>3. PICK t2, r2 : /\ Tournament!LoserAdjusted(l, t, i, before) = <<t2, r2>>
                          /\ t2 \in [0..n - 1 -> -1..n - 1] /\ r2 \in BOOLEAN
                          /\ r2 = FALSE => \E V : LoserTree(n, l, t2, V, S \cup {i}) /\ t2[0] = V[1]
        BY <3>2 DEF AdjustedTo
      <3>4. BuildTurn(l, before, b, i) = <<t2, r2>>
        BY <2>5, <3>3, TurnOfNobody
      <3>5. ASSUME i <= FirstRead(n)
            PROVE  r2 = TRUE
        <4>1. PICK f : f = FirstRead(n)
          OBVIOUS
        <4>2. f \in 1..n - 1 /\ f + 2 <= n - 1 /\ \E q \in Nat \ {0} : n + f = 4 * q + 1
          BY <2>7, <4>1, FirstReadIs
        <4>3. i = f
          <5>1. ~ (i + 1 <= f)
            BY <1>1, <1>3, <2>7, <4>1
          <5>2. i <= f
            BY <3>5, <4>1
          <5>3. QED  BY <4>2, <5>1, <5>2
        <4>4. PICK q \in Nat \ {0} : n + i = 4 * q + 1
          BY <4>2, <4>3
        <4>5. i >= 1 /\ i + 2 <= n - 1
          BY <4>2, <4>3
        <4>6. ReadTold(n, Tournament!LoserAdjusted(l, t, i, before))
          BY <2>3, <2>4, <4>4, <4>5, MustRead
        <4>7. PICK t3 : Tournament!LoserAdjusted(l, t, i, before) = <<t3, TRUE>>
          BY <4>6 DEF ReadTold
        <4>8. <<t2, r2>> = <<t3, TRUE>>
          BY <3>3, <4>7
        <4>9. QED  BY <4>8
      <3>6. QED  BY <2>4, <2>7, <3>3, <3>4, <3>5 DEF BuiltFrom
    <2>8. QED  BY <2>6, <2>7
  <1>4. QED  BY <1>1, <1>2, <1>3

LEMMA NobodyBuilt ==
    ASSUME NEW n \in Nat \ {0}, NEW l, Vector(n, l)
    PROVE  BuiltFrom(n, l, Vacant(n), n)
  <1>1. PICK t : t = [j \in 0..n - 1 |-> -1]
    OBVIOUS
  <1>2. t \in [0..n - 1 -> -1..n - 1]
    BY <1>1
  <1>3. PICK W : W = [j \in 1..2 * n - 1 |-> -1]
    OBVIOUS
  <1>4. W \in [1..2 * n - 1 -> -1..n - 1]
    BY <1>3
  <1>5. \A j \in 1..n - 1 : Met(l, W[2 * j], W[2 * j + 1], t[j], W[j])
    <2>1. ASSUME NEW j \in 1..n - 1
          PROVE  Met(l, W[2 * j], W[2 * j + 1], t[j], W[j])
      <3>1. /\ 2 * j \in 1..2 * n - 1 /\ 2 * j + 1 \in 1..2 * n - 1 /\ j \in 1..2 * n - 1
            /\ j \in 0..n - 1
        OBVIOUS
      <3>2. QED  BY <1>1, <1>3, <3>1 DEF Met
    <2>2. QED  BY <2>1
  <1>6. ThereAre(n, W, n..n - 1)
    <2>1. \A i \in 0..n - 1 : n + i \in 1..2 * n - 1 /\ i \notin n..n - 1
      OBVIOUS
    <2>2. QED  BY <1>3, <2>1 DEF ThereAre
  <1>7. t[0] = W[1]
    BY <1>1, <1>3
  <1>8. LoserTree(n, l, t, W, n..n - 1)
    BY <1>2, <1>4, <1>5, <1>6 DEF LoserTree, LoserNodes
  <1>9. PICK r : r = FALSE
    OBVIOUS
  <1>10. Vacant(n) = <<t, r>>
    BY <1>1, <1>9 DEF Vacant
  <1>11. n \notin {1, 2, 3, 5} => ~ (n <= FirstRead(n))
    <2>1. ASSUME n \notin {1, 2, 3, 5}
          PROVE  ~ (n <= FirstRead(n))
      <3>1. PICK f : f = FirstRead(n)
        OBVIOUS
      <3>2. f \in 1..n - 1
        BY <2>1, <3>1, FirstReadIs
      <3>3. QED  BY <3>1, <3>2
    <2>2. QED  BY <2>1
  <1>12. r \in BOOLEAN
    BY <1>9
  <1>13. QED  BY <1>2, <1>7, <1>8, <1>9, <1>10, <1>11, <1>12 DEF BuiltFrom

\* What the constructor leaves: a tree of all leaves, or leaves[-1] was read.
Constructed(n, l, b) ==
    \E t, r : /\ b = <<t, r>> /\ t \in [0..n - 1 -> -1..n - 1] /\ r \in BOOLEAN
              /\ r = TRUE <=> n = 4 \/ n >= 6
              /\ r = FALSE => \E W : LoserTree(n, l, t, W, 0..n - 1) /\ t[0] = W[1]

LEMMA LoserBuiltIs ==
    ASSUME NEW n, NEW l, Vector(n, l), NEW before
    PROVE  Constructed(n, l, Tournament!LoserBuilt(l, before))
  <1>1. PICK g : Building(n, l, before, g) /\ Tournament!LoserBuilt(l, before) = g[0]
    BY BuildingExists
  <1>2. n \in Nat \ {0}
    BY DEF Vector
  <1>3. PICK G : G = {m \in 0..n : BuiltFrom(n, l, g[n - m], n - m)}
    OBVIOUS
  <1>4. 0 \in G
    <2>1. 0 \in 0..n /\ n - 0 = n
      BY <1>2
    <2>2. BuiltFrom(n, l, g[n], n)
      BY <1>1, <1>2, NobodyBuilt DEF Building
    <2>3. QED  BY <1>3, <2>1, <2>2
  <1>5. ASSUME NEW m \in 0..n - 1, m \in G
        PROVE  m + 1 \in G
    <2>1. PICK i \in 0..n - 1 : i = n - (m + 1)
      BY <1>2
    <2>2. i + 1 = n - m /\ m + 1 \in 0..n
      BY <1>2, <2>1
    <2>3. BuiltFrom(n, l, g[i + 1], i + 1)
      BY <1>3, <1>5, <2>2
    <2>4. g[i] = BuildTurn(l, before, g[i + 1], i)
      BY <1>1 DEF Building
    <2>5. BuiltFrom(n, l, g[i], i)
      BY <1>2, <2>3, <2>4, BuildTurnIs
    <2>6. QED  BY <1>3, <2>1, <2>2, <2>5
  <1>6. n \in G
    <2>1. \A m \in 0..n : m \in G
      BY <1>2, <1>4, <1>5, Induction
    <2>2. QED  BY <1>2, <2>1
  <1>7. BuiltFrom(n, l, g[0], 0)
    <2>1. n - n = 0
      BY <1>2
    <2>2. QED  BY <1>3, <1>6, <2>1
  <1>8. PICK t, r : /\ g[0] = <<t, r>> /\ t \in [0..n - 1 -> -1..n - 1] /\ r \in BOOLEAN
                    /\ n \in {1, 2, 3, 5} => r = FALSE
                    /\ n \notin {1, 2, 3, 5} /\ 0 <= FirstRead(n) => r = TRUE
                    /\ r = FALSE => \E W : LoserTree(n, l, t, W, 0..n - 1) /\ t[0] = W[1]
    BY <1>7 DEF BuiltFrom
  <1>9. r = TRUE <=> n = 4 \/ n >= 6
    <2>1. CASE n \in {1, 2, 3, 5}
      <3>1. r # TRUE
        BY <1>8, <2>1
      <3>2. ~ (n = 4 \/ n >= 6)
        BY <2>1
      <3>3. QED  BY <3>1, <3>2, Zenon
    <2>2. CASE n \notin {1, 2, 3, 5}
      <3>1. PICK f : f = FirstRead(n)
        OBVIOUS
      <3>2. f \in 1..n - 1
        BY <1>2, <2>2, <3>1, FirstReadIs
      <3>3. 0 <= FirstRead(n)
        BY <3>1, <3>2
      <3>4. n = 4 \/ n >= 6
        BY <1>2, <2>2
      <3>5. QED  BY <1>8, <2>2, <3>3, <3>4
    <2>3. QED  BY <2>1, <2>2
  <1>10. QED  BY <1>1, <1>8, <1>9 DEF Constructed

LEMMA AllThere ==
    ASSUME NEW n, NEW l, NEW t, NEW W, LoserTree(n, l, t, W, 0..n - 1)
    PROVE  /\ \A j \in 1..2 * n - 1 : W[j] \in 0..n - 1
           /\ \A j \in 1..n - 1 : /\ t[j] \in 0..n - 1
                                  /\ \/ t[j] = W[2 * j] /\ W[j] = W[2 * j + 1]
                                     \/ t[j] = W[2 * j + 1] /\ W[j] = W[2 * j]
                                  /\ l[W[j]] >= l[t[j]]
  <1>1. /\ n \in Nat \ {0} /\ W \in [1..2 * n - 1 -> -1..n - 1]
        /\ \A j \in 1..n - 1 : Met(l, W[2 * j], W[2 * j + 1], t[j], W[j])
        /\ \A i \in 0..n - 1 : W[n + i] = i
    BY DEF LoserTree, LoserNodes, ThereAre, Vector
  <1>2. PICK G : G = {j \in 1..2 * n - 1 : W[j] # -1}
    OBVIOUS
  <1>3. ASSUME NEW c \in n..2 * n - 1
        PROVE  c \in G
    <2>1. PICK i \in 0..n - 1 : i = c - n /\ c = n + i /\ c \in 1..2 * n - 1 /\ i # -1
      BY <1>1
    <2>2. QED  BY <1>1, <1>2, <2>1
  <1>4. ASSUME NEW c \in 1..n - 1, 2 * c \in G, 2 * c + 1 \in G
        PROVE  c \in G
    <2>1. W[2 * c] # -1 /\ W[2 * c + 1] # -1
      BY <1>2, <1>4
    <2>2. W[c] # -1
      BY <1>1, <2>1 DEF Met
    <2>3. c \in 1..2 * n - 1
      BY <1>1
    <2>4. QED  BY <1>2, <2>2, <2>3
  <1>5. \A c \in 1..2 * n - 1 : c \in G
    BY <1>1, <1>3, <1>4, FromLeaves
  <1>6. \A j \in 1..2 * n - 1 : W[j] \in 0..n - 1
    <2>1. ASSUME NEW j \in 1..2 * n - 1
          PROVE  W[j] \in 0..n - 1
      <3>1. W[j] \in -1..n - 1 /\ W[j] # -1
        BY <1>1, <1>2, <1>5
      <3>2. QED  BY <1>1, <3>1
    <2>2. QED  BY <2>1
  <1>7. ASSUME NEW j \in 1..n - 1
        PROVE  /\ t[j] \in 0..n - 1
               /\ \/ t[j] = W[2 * j] /\ W[j] = W[2 * j + 1]
                  \/ t[j] = W[2 * j + 1] /\ W[j] = W[2 * j]
               /\ l[W[j]] >= l[t[j]]
    <2>1. 2 * j \in 1..2 * n - 1 /\ 2 * j + 1 \in 1..2 * n - 1
      BY <1>1
    <2>2. /\ W[2 * j] \in 0..n - 1 /\ W[2 * j + 1] \in 0..n - 1
          /\ W[2 * j] # -1 /\ W[2 * j + 1] # -1
      <3>1. W[2 * j] \in 0..n - 1 /\ W[2 * j + 1] \in 0..n - 1
        BY <1>6, <2>1
      <3>2. \A v \in 0..n - 1 : v # -1
        OBVIOUS
      <3>3. QED  BY <3>1, <3>2
    <2>3. Met(l, W[2 * j], W[2 * j + 1], t[j], W[j])
      BY <1>1
    <2>4. QED  BY <2>2, <2>3 DEF Met
  <1>8. QED  BY <1>6, <1>7

\* Vacant's value is greater than the winner's.
LEMMA WinnerIsGreatest ==
    ASSUME NEW n, NEW l, NEW t, NEW W, LoserTree(n, l, t, W, 0..n - 1), t[0] = W[1]
    PROVE  \A i \in 0..n - 1 : l[t[0]] >= l[i]
  <1>1. /\ n \in Nat \ {0} /\ l \in [0..n - 1 -> Int]
        /\ \A i \in 0..n - 1 : W[n + i] = i
    BY DEF LoserTree, LoserNodes, ThereAre, Vector
  <1>2. \A j \in 1..2 * n - 1 : l[W[j]] \in Int
    BY <1>1, AllThere
  <1>3. PICK G : G = {j \in 1..2 * n - 1 : l[W[1]] >= l[W[j]]}
    OBVIOUS
  <1>4. 1 \in G
    <2>1. 1 \in 1..2 * n - 1
      BY <1>1
    <2>2. QED  BY <1>2, <1>3, <2>1
  <1>5. ASSUME NEW c \in 2..2 * n - 1, c \div 2 \in G
        PROVE  c \in G
    <2>1. PICK p \in Nat : p = c \div 2 /\ (c = 2 * p \/ c = 2 * p + 1)
      BY HalfIs
    <2>2. p \in 1..n - 1 /\ p \in 1..2 * n - 1 /\ c \in 1..2 * n - 1 /\ 1 \in 1..2 * n - 1
      BY <1>1, <2>1
    <2>3. /\ W[c] = t[p] \/ W[c] = W[p]
          /\ l[W[p]] >= l[t[p]]
      <3>1. /\ \/ t[p] = W[2 * p] /\ W[p] = W[2 * p + 1]
               \/ t[p] = W[2 * p + 1] /\ W[p] = W[2 * p]
            /\ l[W[p]] >= l[t[p]]
        BY <2>2, AllThere
      <3>2. QED  BY <2>1, <3>1
    <2>4. l[W[1]] \in Int /\ l[W[p]] \in Int /\ l[W[c]] \in Int
      BY <1>2, <2>2
    <2>5. l[W[p]] >= l[W[c]]
      BY <2>3, <2>4
    <2>6. l[W[1]] >= l[W[p]]
      BY <1>3, <1>5, <2>1
    <2>7. l[W[1]] >= l[W[c]]
      BY <2>4, <2>5, <2>6
    <2>8. QED  BY <1>3, <2>2, <2>7
  <1>6. \A j \in 1..2 * n - 1 : j \in G
    <2>1. 2 * n - 1 \in Nat \ {0}
      BY <1>1
    <2>2. QED  BY <1>4, <1>5, <2>1, FromRoot
  <1>7. ASSUME NEW i \in 0..n - 1
        PROVE  l[t[0]] >= l[i]
    <2>1. n + i \in 1..2 * n - 1
      BY <1>1
    <2>2. W[n + i] = i /\ l[W[1]] >= l[W[n + i]]
      BY <1>1, <1>3, <1>6, <2>1
    <2>3. QED  BY <2>2
  <1>8. QED  BY <1>7

\* The winner has come all the way, and only it has.
LEMMA WinnersPath ==
    ASSUME NEW n, NEW l, NEW t, NEW W, LoserTree(n, l, t, W, 0..n - 1),
           NEW s, s = W[1], NEW P, IsPath(P, n + s)
    PROVE  \A j \in 1..2 * n - 1 : W[j] = s <=> j \in P
  <1>1. n \in Nat \ {0} /\ \A i \in 0..n - 1 : W[n + i] = i
    BY DEF LoserTree, LoserNodes, ThereAre, Vector
  <1>2. s \in 0..n - 1
    <2>1. 1 \in 1..2 * n - 1
      BY <1>1
    <2>2. QED  BY <2>1, AllThere
  <1>3. n + s \in P /\ \A a \in P : a > 1 => a \div 2 \in P
    BY DEF IsPath
  <1>4. PICK G : G = {j \in 1..2 * n - 1 : W[j] = s => j \in P}
    OBVIOUS
  <1>5. ASSUME NEW c \in n..2 * n - 1
        PROVE  c \in G
    <2>1. PICK i \in 0..n - 1 : i = c - n /\ c = n + i /\ c \in 1..2 * n - 1
      BY <1>1
    <2>2. W[c] = i
      BY <1>1, <2>1
    <2>3. QED  BY <1>3, <1>4, <2>1, <2>2
  <1>6. ASSUME NEW c \in 1..n - 1, 2 * c \in G, 2 * c + 1 \in G
        PROVE  c \in G
    <2>1. W[c] = W[2 * c] \/ W[c] = W[2 * c + 1]
      BY AllThere
    <2>2. W[c] = s => 2 * c \in P \/ 2 * c + 1 \in P
      BY <1>4, <1>6, <2>1
    <2>3. (2 * c) \div 2 = c /\ (2 * c + 1) \div 2 = c /\ 2 * c > 1 /\ 2 * c + 1 > 1
      OBVIOUS
    <2>4. W[c] = s => c \in P
      BY <1>3, <2>2, <2>3
    <2>5. c \in 1..2 * n - 1
      BY <1>1
    <2>6. QED  BY <1>4, <2>4, <2>5
  <1>7. \A j \in 1..2 * n - 1 : j \in G
    BY <1>1, <1>5, <1>6, FromLeaves
  <1>8. PICK H : H = {j \in 1..2 * n - 1 : j \in P => W[j] = s}
    OBVIOUS
  <1>9. 1 \in H
    <2>1. 1 \in 1..2 * n - 1
      BY <1>1
    <2>2. QED  BY <1>8, <2>1
  <1>10. ASSUME NEW c \in 2..2 * n - 1, c \div 2 \in H
         PROVE  c \in H
    <2>1. PICK p \in Nat : p = c \div 2 /\ (c = 2 * p \/ c = 2 * p + 1)
      BY HalfIs
    <2>2. p \in 1..n - 1 /\ p \in Nat \ {0} /\ c \in 1..2 * n - 1 /\ c > 1
      BY <1>1, <2>1
    <2>3. ASSUME c \in P
          PROVE  W[c] = s
      <3>1. p \in P
        BY <1>3, <2>1, <2>2, <2>3
      <3>2. W[p] = s
        BY <1>8, <1>10, <2>1, <3>1
      <3>3. W[2 * p] = s \/ W[2 * p + 1] = s
        BY <2>2, <3>2, AllThere
      <3>4. 2 * p \in 1..2 * n - 1 /\ 2 * p + 1 \in 1..2 * n - 1
        BY <1>1, <2>2
      <3>5. /\ W[2 * p] = s => 2 * p \in P
            /\ W[2 * p + 1] = s => 2 * p + 1 \in P
        BY <1>4, <1>7, <3>4
      <3>6. n + s \in Nat
        BY <1>1, <1>2
      <3>7. ~ (2 * p \in P /\ 2 * p + 1 \in P)
        BY <2>2, <3>6, OneChildOnPath
      <3>8. QED  BY <2>1, <2>3, <3>3, <3>5, <3>7
    <2>4. QED  BY <1>8, <2>2, <2>3
  <1>11. \A j \in 1..2 * n - 1 : j \in H
    <2>1. 2 * n - 1 \in Nat \ {0}
      BY <1>1
    <2>2. QED  BY <1>9, <1>10, <2>1, FromRoot
  <1>12. QED  BY <1>4, <1>7, <1>8, <1>11

\* With another value at the winner, the winner is as if it had not come: every node it
\* won at has its other child's leaf, and keeps it.
Taken(n, W, s) == [j \in 1..2 * n - 1 |-> IF W[j] = s THEN -1 ELSE W[j]]
Replaced(l, s, v) == [l EXCEPT ![s] = v]

LEMMA WinnerTaken ==
    ASSUME NEW n, NEW l, NEW t, NEW W, LoserTree(n, l, t, W, 0..n - 1),
           NEW s, s = W[1], NEW v \in Int, NEW P, IsPath(P, n + s)
    PROVE  LoserTree(n, Replaced(l, s, v), t, Taken(n, W, s), (0..n - 1) \ {s})
  <1>0. PICK m, V : m = Replaced(l, s, v) /\ V = Taken(n, W, s)
    OBVIOUS
  <1>1. /\ n \in Nat \ {0} /\ l \in [0..n - 1 -> Int] /\ t \in [0..n - 1 -> -1..n - 1]
        /\ W \in [1..2 * n - 1 -> -1..n - 1] /\ \A i \in 0..n - 1 : W[n + i] = i
    BY DEF LoserTree, LoserNodes, ThereAre, Vector
  <1>2. s \in 0..n - 1
    <2>1. 1 \in 1..2 * n - 1
      BY <1>1
    <2>2. QED  BY <2>1, AllThere
  <1>3. m \in [0..n - 1 -> Int] /\ \A i \in 0..n - 1 : i # s => m[i] = l[i]
    BY <1>0, <1>1, <1>2 DEF Replaced
  <1>4. V \in [1..2 * n - 1 -> -1..n - 1]
    <2>1. -1 \in -1..n - 1
      BY <1>1
    <2>2. QED  BY <1>0, <1>1, <2>1 DEF Taken
  <1>5. ThereAre(n, V, (0..n - 1) \ {s})
    <2>1. \A i \in 0..n - 1 : n + i \in 1..2 * n - 1
      BY <1>1
    <2>2. \A i \in 0..n - 1 : V[n + i] = IF i = s THEN -1 ELSE i
      BY <1>0, <1>1, <2>1 DEF Taken
    <2>3. QED  BY <2>2 DEF ThereAre
  <1>6. \A j \in 1..2 * n - 1 : W[j] = s <=> j \in P
    BY WinnersPath
  <1>7. n \in Nat \ {0}
    BY <1>1
  <1>8. ASSUME NEW j \in 1..n - 1
        PROVE  Met(m, V[2 * j], V[2 * j + 1], t[j], V[j])
    <2>1. j \in 1..2 * n - 1 /\ 2 * j \in 1..2 * n - 1 /\ 2 * j + 1 \in 1..2 * n - 1
      BY <1>1
    <2>2. PICK a, b, w, y : a = W[2 * j] /\ b = W[2 * j + 1] /\ w = W[j] /\ y = t[j]
      OBVIOUS
    <2>3. /\ a \in 0..n - 1 /\ b \in 0..n - 1 /\ w \in 0..n - 1 /\ y \in 0..n - 1
          /\ (y = a /\ w = b) \/ (y = b /\ w = a)
          /\ l[w] >= l[y]
      BY <2>1, <2>2, AllThere
    <2>4. a # -1 /\ b # -1
      <3>1. \A i \in 0..n - 1 : i # -1
        OBVIOUS
      <3>2. QED  BY <2>3, <3>1
    <2>5. /\ V[2 * j] = IF a = s THEN -1 ELSE a
          /\ V[2 * j + 1] = IF b = s THEN -1 ELSE b
          /\ V[j] = IF w = s THEN -1 ELSE w
      BY <1>0, <2>1, <2>2 DEF Taken
    <2>6. ~ (a = s /\ b = s)
      <3>1. a = s => 2 * j \in P
        BY <1>6, <2>1, <2>2
      <3>2. b = s => 2 * j + 1 \in P
        BY <1>6, <2>1, <2>2
      <3>3. n + s \in Nat
        BY <1>7, <1>2
      <3>4. ~ (2 * j \in P /\ 2 * j + 1 \in P)
        BY <3>3, OneChildOnPath
      <3>5. QED  BY <3>1, <3>2, <3>4
    <2>7. a = s \/ b = s => w = s
      <3>1. ASSUME a = s \/ b = s
            PROVE  w = s
        <4>1. 2 * j \in P \/ 2 * j + 1 \in P
          BY <1>6, <2>1, <2>2, <3>1
        <4>2. (2 * j) \div 2 = j /\ (2 * j + 1) \div 2 = j /\ 2 * j > 1 /\ 2 * j + 1 > 1
          OBVIOUS
        <4>3. j \in P
          BY <4>1, <4>2 DEF IsPath
        <4>4. QED  BY <1>6, <2>1, <2>2, <4>3
      <3>2. QED  BY <3>1
    <2>8. CASE a = s
      <3>1. w = s /\ b # s /\ y = b
        BY <2>3, <2>6, <2>7, <2>8
      <3>2. V[2 * j] = -1 /\ V[2 * j + 1] = b /\ V[j] = -1
        BY <2>5, <2>8, <3>1
      <3>3. QED  BY <2>2, <2>4, <3>1, <3>2 DEF Met
    <2>9. CASE b = s
      <3>1. w = s /\ a # s /\ y = a
        BY <2>3, <2>6, <2>7, <2>9
      <3>2. V[2 * j] = a /\ V[2 * j + 1] = -1 /\ V[j] = -1
        BY <2>5, <2>9, <3>1
      <3>3. QED  BY <2>2, <2>4, <3>1, <3>2 DEF Met
    <2>10. CASE a # s /\ b # s
      <3>1. w # s /\ y # s
        BY <2>3, <2>10
      <3>2. V[2 * j] = a /\ V[2 * j + 1] = b /\ V[j] = w
        BY <2>5, <2>10, <3>1
      <3>3. m[w] >= m[y]
        <4>1. m[w] = l[w] /\ m[y] = l[y]
          BY <1>3, <2>3, <3>1
        <4>2. QED  BY <2>3, <4>1
      <3>4. QED  BY <2>2, <2>3, <2>4, <3>2, <3>3 DEF Met
    <2>11. QED  BY <2>8, <2>9, <2>10
  <1>9. QED  BY <1>0, <1>1, <1>3, <1>4, <1>5, <1>8 DEF LoserTree, LoserNodes, Vector

\* A loser tree with everyone in it and the winner on top.
Standing(n, l, t) == \E W : LoserTree(n, l, t, W, 0..n - 1) /\ t[0] = W[1]

\* The winner is replaced: everyone is there again.
LEMMA LoserReplaced ==
    ASSUME NEW n, NEW l, NEW t, NEW W, LoserTree(n, l, t, W, 0..n - 1), t[0] = W[1],
           NEW v \in Int, NEW m, m = Replaced(l, t[0], v)
    PROVE  Standing(n, m, Tournament!LoserAdjusted(m, t, t[0], v)[1])
  <1>1. PICK s : s = W[1] /\ s = t[0]
    OBVIOUS
  <1>2. n \in Nat \ {0}
    BY DEF LoserTree, LoserNodes, Vector
  <1>3. s \in 0..n - 1
    <2>1. 1 \in 1..2 * n - 1
      BY <1>2
    <2>2. QED  BY <1>1, <2>1, AllThere
  <1>4. PICK P : IsPath(P, n + s)
    <2>1. n + s \in Nat \ {0}
      BY <1>2, <1>3
    <2>2. QED  BY <2>1, PathExists
  <1>5. PICK V : V = Taken(n, W, s)
    OBVIOUS
  <1>6. PICK S : S = (0..n - 1) \ {s}
    OBVIOUS
  <1>7. m = Replaced(l, s, v) /\ m = [l EXCEPT ![s] = v]
    BY <1>1 DEF Replaced
  <1>8. LoserTree(n, m, t, V, S) /\ s \notin S /\ S \cup {s} = 0..n - 1
    <2>1. LoserTree(n, m, t, V, (0..n - 1) \ {s})
      <3>1. s = W[1]
        BY <1>1
      <3>2. LoserTree(n, l, t, W, 0..n - 1) /\ IsPath(P, n + s) /\ v \in Int
        BY <1>4
      <3>3. LoserTree(n, Replaced(l, s, v), t, Taken(n, W, s), (0..n - 1) \ {s})
        BY ONLY <3>1, <3>2, WinnerTaken
      <3>4. QED  BY <1>5, <1>7, <3>3
    <2>2. QED  BY <1>3, <1>6, <2>1
  <1>9. Quiet(P, t, s, (n + s) \div 2)
    <2>1. P \subseteq 1..n + s
      BY <1>4 DEF IsPath
    <2>2. (n + s) \div 2 <= n - 1
      <3>1. n + s \in Nat /\ n + s < 2 * n
        BY <1>2, <1>3
      <3>2. QED  BY <1>2, <3>1, HalfIs
    <2>3. ASSUME NEW a \in P, a <= (n + s) \div 2
          PROVE  t[a] # -1
      <3>1. a \in 1..n - 1
        <4>1. a \in Nat \ {0}
          BY <1>2, <1>3, <2>1
        <4>2. (n + s) \div 2 \in Nat
          BY <1>2, <1>3, HalfIs
        <4>3. QED  BY <1>2, <2>2, <2>3, <4>1, <4>2
      <3>2. t[a] \in 0..n - 1
        BY <3>1, AllThere
      <3>3. QED  BY <1>2, <3>2
    <2>4. s # -1
      BY <1>2, <1>3
    <2>5. QED  BY <2>3, <2>4 DEF Quiet
  <1>10. PICK quiet : quiet = TRUE
    OBVIOUS
  <1>11. AdjustedTo(n, m, Tournament!LoserAdjusted(m, t, s, v), S \cup {s}, quiet)
    BY <1>3, <1>4, <1>8, <1>9, LoserAdjustedIs
  <1>12. PICK t2, r : /\ Tournament!LoserAdjusted(m, t, s, v) = <<t2, r>>
                      /\ \E X : LoserTree(n, m, t2, X, S \cup {s}) /\ t2[0] = X[1]
    BY <1>10, <1>11 DEF AdjustedTo
  <1>13. Tournament!LoserAdjusted(m, t, t[0], v)[1] = t2
    BY <1>1, <1>12
  <1>14. Standing(n, m, t2)
    BY <1>8, <1>12 DEF Standing
  <1>15. QED  BY <1>13, <1>14

\* What stays true of a tournament: its tree is one that its matches can leave, unless
\* leaves[-1] was read or a leaf that is not the winner was replaced, and the read
\* happens with four leaves and from six on.
Placed(kd, l, t, und, mis) ==
    /\ kd \in {"none", "winner", "loser"}
    /\ und \in BOOLEAN
    /\ kd = "winner" => \E n : WinnerTree(n, l, t)
    /\ kd = "loser" => \E n : Vector(n, l) /\ (und = TRUE <=> n = 4 \/ n >= 6)
    /\ kd = "loser" /\ und = FALSE /\ mis = FALSE => \E n : Standing(n, l, t)

TournamentIsSound == Placed(tkind, leaves, tree, readBefore, misused)

LEMMA TournamentValues == MaxLeaves \in Nat /\ LeafValues \subseteq Int
  BY StudiesAssumption DEF Tournament!TournamentTreeAssumption

LEMMA TournamentInitIsSound ==
    ASSUME Tournament!Init
    PROVE  TournamentIsSound
  BY DEF Tournament!Init, TournamentIsSound, Placed

LEMMA InputsAreVectors ==
    ASSUME NEW l \in Tournament!Inputs
    PROVE  \E n : Vector(n, l)
  <1>1. PICK m \in 0..MaxLeaves - 1 : l \in [0..m -> LeafValues]
    BY DEF Tournament!Inputs
  <1>2. m + 1 \in Nat \ {0} /\ (m + 1) - 1 = m
    BY TournamentValues
  <1>3. l \in [0..m -> Int]
    BY <1>1, TournamentValues
  <1>4. Vector(m + 1, l)
    BY <1>2, <1>3 DEF Vector
  <1>5. QED  BY <1>4

LEMMA ConstructWinnerIsSound ==
    ASSUME NEW l \in Tournament!Inputs, TournamentIsSound, Tournament!ConstructWinner(l)
    PROVE  TournamentIsSound'
  <1>1. PICK n : Vector(n, l)
    BY InputsAreVectors
  <1>2. WinnerTree(n, l, Tournament!WinnerBuilt(l))
    BY <1>1, WinnerBuiltIs
  <1>3. /\ tkind' = "winner" /\ leaves' = l /\ tree' = Tournament!WinnerBuilt(l)
        /\ readBefore' = readBefore
    BY DEF Tournament!ConstructWinner
  <1>4. WinnerTree(n, leaves', tree')
    BY <1>2, <1>3
  <1>5. readBefore' \in BOOLEAN
    BY <1>3 DEF TournamentIsSound, Placed
  <1>6. QED  BY <1>3, <1>4, <1>5 DEF TournamentIsSound, Placed

LEMMA ConstructLoserIsSound ==
    ASSUME NEW l \in Tournament!Inputs, TournamentIsSound, Tournament!ConstructLoser(l)
    PROVE  TournamentIsSound'
  <1>1. PICK n : Vector(n, l)
    BY InputsAreVectors
  <1>2. PICK before : /\ tkind' = "loser" /\ leaves' = l
                      /\ tree' = Tournament!LoserBuilt(l, before)[1]
                      /\ readBefore' = Tournament!LoserBuilt(l, before)[2]
    BY DEF Tournament!ConstructLoser
  <1>3. Constructed(n, l, Tournament!LoserBuilt(l, before))
    BY <1>1, LoserBuiltIs
  <1>4. PICK t, r : /\ Tournament!LoserBuilt(l, before) = <<t, r>> /\ r \in BOOLEAN
                    /\ r = TRUE <=> n = 4 \/ n >= 6
                    /\ r = FALSE => \E W : LoserTree(n, l, t, W, 0..n - 1) /\ t[0] = W[1]
    BY <1>3 DEF Constructed
  <1>5. tree' = t /\ readBefore' = r
    BY <1>2, <1>4
  <1>6. Vector(n, leaves') /\ (readBefore' = TRUE <=> n = 4 \/ n >= 6)
    BY <1>1, <1>2, <1>4, <1>5
  <1>7. readBefore' = FALSE => Standing(n, leaves', tree')
    <2>1. r = FALSE => Standing(n, l, t)
      BY <1>4 DEF Standing
    <2>2. QED  BY <1>2, <1>5, <2>1
  <1>8. readBefore' \in BOOLEAN
    BY <1>4, <1>5
  <1>9. QED  BY <1>2, <1>6, <1>7, <1>8 DEF TournamentIsSound, Placed

LEMMA ReplaceWinnerIsSound ==
    ASSUME NEW leaf \in DOMAIN leaves, NEW v \in LeafValues, TournamentIsSound,
           Tournament!popAndReplaceWinner(leaf, v)
    PROVE  TournamentIsSound'
  <1>1. /\ tkind = "winner" /\ tkind' = tkind /\ readBefore' = readBefore
        /\ leaves' = [leaves EXCEPT ![leaf] = v]
        /\ tree' = Tournament!WinnerAdjusted(leaves', tree, leaf)
    BY DEF Tournament!popAndReplaceWinner
  <1>2. PICK n : WinnerTree(n, leaves, tree)
    BY <1>1 DEF TournamentIsSound, Placed
  <1>3. leaf \in 0..n - 1
    BY <1>2 DEF WinnerTree, Played, Vector
  <1>4. v \in Int
    BY TournamentValues
  <1>5. PICK m : m = [leaves EXCEPT ![leaf] = v]
    OBVIOUS
  <1>6. WinnerTree(n, m, Tournament!WinnerAdjusted(m, tree, leaf))
    BY <1>2, <1>3, <1>4, <1>5, WinnerAdjustedIs
  <1>7. leaves' = m /\ tree' = Tournament!WinnerAdjusted(m, tree, leaf)
    BY <1>1, <1>5
  <1>8. WinnerTree(n, leaves', tree')
    BY <1>6, <1>7
  <1>9. readBefore' \in BOOLEAN
    BY <1>1 DEF TournamentIsSound, Placed
  <1>10. QED  BY <1>1, <1>8, <1>9 DEF TournamentIsSound, Placed

LEMMA ReplaceLoserIsSound ==
    ASSUME NEW leaf \in DOMAIN leaves, NEW v \in LeafValues, TournamentIsSound,
           Tournament!popAndReplaceLoser(leaf, v)
    PROVE  TournamentIsSound'
  <1>1. /\ tkind = "loser" /\ tkind' = tkind /\ readBefore' = readBefore /\ ~readBefore
        /\ ~misused /\ misused' = (leaf # tree[0])
        /\ leaves' = [leaves EXCEPT ![leaf] = v]
        /\ tree' = Tournament!LoserAdjusted(leaves', tree, leaf, v)[1]
    BY DEF Tournament!popAndReplaceLoser, Tournament!winner
  <1>2. PICK n : Vector(n, leaves) /\ (readBefore = TRUE <=> n = 4 \/ n >= 6)
    BY <1>1 DEF TournamentIsSound, Placed
  <1>3. Vector(n, leaves')
    <2>1. leaf \in 0..n - 1 /\ v \in Int
      BY <1>2, TournamentValues DEF Vector
    <2>2. QED  BY <1>1, <1>2, <2>1 DEF Vector
  <1>4. readBefore' \in BOOLEAN
    BY <1>1 DEF TournamentIsSound, Placed
  <1>5. ASSUME misused' = FALSE
        PROVE  \E a : Standing(a, leaves', tree')
    <2>1. leaf = tree[0]
      BY <1>1, <1>5
    <2>2. readBefore = FALSE /\ misused = FALSE
      BY <1>1, <1>4
    <2>3. PICK a : Standing(a, leaves, tree)
      BY <1>1, <2>2 DEF TournamentIsSound, Placed
    <2>4. PICK W : LoserTree(a, leaves, tree, W, 0..a - 1) /\ tree[0] = W[1]
      BY <2>3 DEF Standing
    <2>5. PICK m : m = Replaced(leaves, tree[0], v)
      OBVIOUS
    <2>6. v \in Int
      BY TournamentValues
    <2>7. Standing(a, m, Tournament!LoserAdjusted(m, tree, tree[0], v)[1])
      BY ONLY <2>4, <2>5, <2>6, LoserReplaced
    <2>8. leaves' = m
      BY <1>1, <2>1, <2>5 DEF Replaced
    <2>9. tree' = Tournament!LoserAdjusted(m, tree, tree[0], v)[1]
      BY <1>1, <2>1, <2>8
    <2>10. QED  BY <2>7, <2>8, <2>9
  <1>6. QED  BY <1>1, <1>2, <1>3, <1>4, <1>5 DEF TournamentIsSound, Placed

LEMMA TournamentStepIsSound ==
    ASSUME TournamentIsSound, [Tournament!Next]_tournamentVars
    PROVE  TournamentIsSound'
  <1>1. CASE UNCHANGED tournamentVars
    BY <1>1 DEF tournamentVars, TournamentIsSound
  <1>2. ASSUME NEW l \in Tournament!Inputs, Tournament!ConstructWinner(l)
        PROVE  TournamentIsSound'
    BY <1>2, ConstructWinnerIsSound
  <1>3. ASSUME NEW l \in Tournament!Inputs, Tournament!ConstructLoser(l)
        PROVE  TournamentIsSound'
    BY <1>3, ConstructLoserIsSound
  <1>4. ASSUME NEW leaf \in DOMAIN leaves, NEW v \in LeafValues,
               Tournament!popAndReplaceWinner(leaf, v)
        PROVE  TournamentIsSound'
    BY <1>4, ReplaceWinnerIsSound
  <1>5. ASSUME NEW leaf \in DOMAIN leaves, NEW v \in LeafValues,
               Tournament!popAndReplaceLoser(leaf, v)
        PROVE  TournamentIsSound'
    BY <1>5, ReplaceLoserIsSound
  <1>6. QED  BY <1>1, <1>2, <1>3, <1>4, <1>5 DEF Tournament!Next

\* The winner of such trees is right, and the read is where it is said to be.
LEMMA TournamentIsRight ==
    ASSUME TournamentIsSound
    PROVE  Tournament!WinnerIsRight /\ Tournament!ReadsBeforeItsLeaves
  <1>1. ASSUME tkind = "winner"
        PROVE  \A i \in DOMAIN leaves : leaves[tree[0]] <= leaves[i]
    <2>1. PICK n : WinnerTree(n, leaves, tree)
      BY <1>1 DEF TournamentIsSound, Placed
    <2>2. DOMAIN leaves = 0..n - 1
      BY <2>1 DEF WinnerTree, Played, Vector
    <2>3. \A i \in 0..n - 1 : leaves[tree[0]] <= leaves[i]
      BY <2>1, WinnerIsLeast
    <2>4. QED  BY <2>2, <2>3
  <1>2. ASSUME tkind = "loser", ~readBefore, ~misused
        PROVE  \A i \in DOMAIN leaves : leaves[tree[0]] >= leaves[i]
    <2>1. readBefore = FALSE /\ misused = FALSE
      BY <1>2 DEF TournamentIsSound, Placed
    <2>2. PICK n : Standing(n, leaves, tree)
      BY <1>2, <2>1 DEF TournamentIsSound, Placed
    <2>3. PICK W : LoserTree(n, leaves, tree, W, 0..n - 1) /\ tree[0] = W[1]
      BY <2>2 DEF Standing
    <2>4. DOMAIN leaves = 0..n - 1
      BY <2>3 DEF LoserTree, LoserNodes, Vector
    <2>5. \A i \in 0..n - 1 : leaves[tree[0]] >= leaves[i]
      BY <2>3, WinnerIsGreatest
    <2>6. QED  BY <2>4, <2>5
  <1>3. Tournament!WinnerIsRight
    BY <1>1, <1>2 DEF Tournament!WinnerIsRight, Tournament!winner
  <1>4. ASSUME tkind = "loser"
        PROVE  readBefore <=> Tournament!k(leaves) = 4 \/ Tournament!k(leaves) >= 6
    <2>1. PICK n : Vector(n, leaves) /\ (readBefore = TRUE <=> n = 4 \/ n >= 6)
      BY <1>4 DEF TournamentIsSound, Placed
    <2>2. Tournament!k(leaves) = n
      BY <2>1, kIs
    <2>3. readBefore \in BOOLEAN
      BY DEF TournamentIsSound, Placed
    <2>4. QED  BY <2>1, <2>2, <2>3
  <1>5. QED  BY <1>3, <1>4 DEF Tournament!ReadsBeforeItsLeaves

-------------------------------------------------------------------------------

(* The studies together: whichever runs, a step of the whole is a step of each or
   leaves it alone. *)

LEMMA StepsOfParts ==
    [StudiesNext]_studiesVars =>
        /\ [Bus!Next]_busVars
        /\ [Processes!Next]_processVars
        /\ [Pointer!AtomicNext]_pointerVars
        /\ [Pointer!SingleNext]_smartVars
        /\ [Held!MemoryNext]_memoryVars
        /\ [Mask!Next]_maskVars
        /\ [Mask!TableNext]_tableVars
        /\ [States!FinalNext]_finalVars
        /\ [States!EventNext]_eventVars
        /\ [Tournament!Next]_tournamentVars
  BY DEF StudiesNext, studiesVars, exceptBus, exceptProcess, exceptPointer, exceptMask, exceptFinal,
     exceptTable, exceptEvent, exceptMemory, exceptLock, exceptSmart, exceptTournament

StudiesInv == /\ BusInv /\ ProcessInv /\ PointerInv /\ SingleInv /\ HeldInv
              /\ MaskInv /\ TableInv /\ FinalInv /\ EventInv /\ TournamentIsSound

LEMMA StudiesInitially == StudiesInit => StudiesInv
  BY BusInit, ProcessInit, PointerInit, SingleInit, HeldInit, MaskInit, TableInitially,
     FinalInitially, EventInitially, TournamentInitIsSound DEF StudiesInit, StudiesInv

LEMMA StudiesStep == StudiesInv /\ [StudiesNext]_studiesVars => StudiesInv'
  BY StepsOfParts, BusStep, ProcessStep, PointerStep, SingleStep, HeldStep, MaskStep,
     TableStep, FinalStep, EventStep, TournamentStepIsSound DEF StudiesInv

LEMMA StudiesInvariant == StudiesSpec => []StudiesInv
  BY StudiesInitially, StudiesStep, PTL DEF StudiesSpec

\* Whoever may be called or held is alive: an observer is not called once the call
\* that unsubscribes it has returned, by any thread and however often it had been
\* subscribed (example_3.cpp, example_2.cpp, news_publisher.hpp, command_dispatch.hpp,
\* event_mgr.hpp); an object is not deleted while a SharedPtr of advanced_craft.cpp,
\* self_shared_ptr.cpp or a UniquePtr of self_unique_ptr.cpp holds it.
THEOREM ReferencesStayAlive == StudiesSpec => []ReferencesAreSafe
  <1>1. StudiesInv => ReferencesAreSafe
    BY PointersAreSafe, SingleIsSafe DEF StudiesInv, BusInv, ReferencesAreSafe
  <1>2. QED  BY <1>1, StudiesInvariant, PTL

\* The records are those of what there is: the entries of process_manager.cpp of the
\* processes, the counts of the smart pointers of the pointers, the report of
\* trace.cpp of the tracked allocations, but for what is being changed; and the winner
\* in win_tree.cpp is a leaf with the least value, whatever leaf was replaced, in
\* loser_tree.cpp one with the greatest, while only winners were replaced and its
\* constructor did not read leaves[-1], which it does with four leaves and from six on.
THEOREM RecordsAreTrue == StudiesSpec => []RecordsMatch
  <1>1. ProcessInv => Processes!EntriesMatch
    BY DEF ProcessInv
  <1>2. StudiesInv => RecordsMatch
    BY <1>1, PointersAreSafe, SingleIsSafe, ReportFollows, TournamentIsRight
       DEF StudiesInv, RecordsMatch
  <1>3. QED  BY <1>2, StudiesInvariant, PTL

\* Who observes knows the latest when nobody is about to tell it.  NewsPublisher:
\* whoever was attached since the last publication began has seen the latest news, in
\* whatever order the publishers stored and notified.  ex_ver_3: the observers know the
\* mask, unless two updates reported in the other order or one did not report.
\* ex_ver2: the name that was reported last is that of the first final state that
\* holds, whichever of the evaluations under the shared lock ended last; and the two
\* queries of ver2.cpp and ex_combine_0825 agree on it.
THEOREM ObserversAreCurrent == StudiesSpec => []ViewsAreCurrent
  <1>1. StudiesInv => ViewsAreCurrent
    BY LatestFollows, ViewFollows, QueriesDoAgree DEF StudiesInv, FinalInv, ViewsAreCurrent
  <1>2. QED  BY <1>1, StudiesInvariant, PTL

LEMMA UpdatesKeepOtherFields == StudiesSpec => Mask!UpdatesAreValid
  <1>1. StudiesInv /\ [StudiesNext]_studiesVars => [ValidUpdate]_(Mask!vars)
    BY StepsOfParts, UpdateIsValid DEF StudiesInv
  <1>2. Mask!UpdatesAreValid <=> [][ValidUpdate]_(Mask!vars)
    BY PTL DEF Mask!UpdatesAreValid, ValidUpdate
  <1>3. QED  BY <1>1, <1>2, StudiesInvariant, PTL DEF StudiesSpec

LEMMA FieldsFollow == StudiesSpec => Mask!FieldsFollowTheRules
  <1>1. StudiesInv /\ [StudiesNext]_studiesVars => [FieldsKept]_(Mask!tableVars)
    BY StepsOfParts, FieldsAreKept DEF StudiesInv, tableVars, Mask!tableVars
  <1>2. Mask!FieldsFollowTheRules <=> [][FieldsKept]_(Mask!tableVars)
    BY PTL DEF Mask!FieldsFollowTheRules, FieldsKept
  <1>3. QED  BY <1>1, <1>2, StudiesInvariant, PTL DEF StudiesSpec

FiresInTime == fired'.window > 0 => \A a \in fired'.ages : a <= fired'.window

LEMMA EventsAreTimely == StudiesSpec => States!EventsAreInTime
  <1>1. StudiesInv /\ [StudiesNext]_studiesVars => [FiresInTime]_(States!eventVars)
    BY StepsOfParts, EventsDoComeInTime DEF StudiesInv, FiresInTime
  <1>2. States!EventsAreInTime <=> [][FiresInTime]_(States!eventVars)
    BY PTL DEF States!EventsAreInTime, FiresInTime
  <1>3. QED  BY <1>1, <1>2, StudiesInvariant, PTL DEF StudiesSpec

\* ex_ver_3: an update leaves the bits of the other fields as they were at its exchange
\* and makes no change its validator refuses, however often it was retried.
\* ex_combine_v3: no device goes down, and clamping twice is clamping once.
\* ex_mask_state_machine_v2: a setter changes its own field only, and of an earlier
\* state nothing stays but bits above those that it clears.  multi_event: a transition
\* with a window finds each event it needs inside the window, or left over from the
\* transition before.
THEOREM TransitionsFollowTheRules == StudiesSpec => TransitionsByTheRules
  BY UpdatesKeepOtherFields, FieldsFollow, EventsAreTimely, PTL DEF TransitionsByTheRules

================================================================================
