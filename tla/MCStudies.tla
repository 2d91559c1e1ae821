------------------------------- MODULE MCStudies -------------------------------
(* The studies of craft, design and process and the tournament trees, one at a time:
   studyPart says which of them runs, the others stay as they are initially.  With
   "none", others than the studies run. *)
EXTENDS Integers, Sequences

CONSTANTS Threads, ThreeThreads, Observers, MaxObservers, Nobody,
          Configs, Restart, Pids, MinusOne, NoProcess,
          Blocks, Null, Pointers, Buckets,
          Bits, Calls, Forbidden, Wide, Devices, Width, Cleared,
          Subsystems, Finals, NoName, Events, Rules, Start, MaxAge,
          Objects, SmartPtrs, MaxLost,
          MaxLeaves, LeafValues, Garbage

Kinds == {"bus", "module", "news", "dispatcher", "manager"}

\* The pairs of masks the validator of main refuses, and updates of fields of one bit
\* and of all, with the validator and without.
ForbiddenPairs == {<<{0}, {1}>>, <<{0, 1}, {1}>>}
SomeCalls == {[field |-> {0}, value |-> {}, valid |-> TRUE],
              [field |-> {0}, value |-> {0}, valid |-> TRUE],
              [field |-> {1}, value |-> {1}, valid |-> FALSE],
              [field |-> {0, 1}, value |-> {0, 1}, valid |-> FALSE]}

\* Two final states that overlap; the second is also excluded by a bit, and by the
\* state that the first one describes.
TwoFinals ==
    <<[name |-> "A", priority |-> 1, required |-> [s \in Subsystems |-> {0}],
       forbidden |-> [s \in Subsystems |-> {}], except |-> {}],
      [name |-> "B", priority |-> 2,
       required |-> [s \in Subsystems |-> IF s = 1 THEN {0} ELSE {}],
       forbidden |-> [s \in Subsystems |-> IF s = 2 THEN {1} ELSE {}],
       except |-> {[s \in Subsystems |-> {0}]}]>>

\* The two rules of main with the window cut to 2, and one that keeps its events.
SomeRules ==
    <<[from |-> "Idle", to |-> "Arming", required |-> {"A", "B"}, window |-> 2, clear |-> TRUE],
      [from |-> "Arming", to |-> "Active", required |-> {"B", "C"}, window |-> 0, clear |-> TRUE],
      [from |-> "Active", to |-> "Idle", required |-> {"A"}, window |-> 1, clear |-> FALSE]>>

VARIABLES studyPart,
          kind, observers, mutex, call, at, news, seen, gone, undefined,
          configs_, running_processes_, process, exited, monitor, lost,
          shared, weak, strong_count, weak_count, deletes, block, pc, ctrl, revived,
          overlap,
          mask, mpc, mcall, oldv, newv, view, untold,
          current_, finals_, lastFinal_, fpc, race, added,
          deviceMask, subMask,
          state_, collected, elapsed, age, left, fired,
          memory, tracked, allocations, tmutex, tpc, arg,
          version, owner, lpc,
          skind, ptr, count, deleted, raw, overwritten,
          tkind, leaves, tree, readBefore, misused

Bus == INSTANCE EventBus WITH Publishers <- Threads
Processes == INSTANCE ProcessManager
Pointer == INSTANCE SmartPointers WITH Threads <- ThreeThreads, Pointers <- SmartPtrs,
                                       kind <- skind, lost <- overwritten
Mask == INSTANCE MaskMachine WITH pc <- mpc, call <- mcall
States == INSTANCE StateStudies WITH None <- NoName, pc <- fpc
Tournament == INSTANCE TournamentTree WITH kind <- tkind, Values <- LeafValues,
                                           undefined <- readBefore
Held == INSTANCE HeldMutexes WITH mutex <- tmutex, pc <- tpc, step <- lpc

ASSUME StudiesAssumption ==
    /\ Bus!EventBusAssumption
    /\ Processes!ProcessManagerAssumption
    /\ Pointer!AtomicAssumption /\ Pointer!SingleAssumption
    /\ Mask!MaskAssumption
    /\ States!FinalStatesAssumption /\ States!EventCollectorAssumption
    /\ Tournament!TournamentTreeAssumption

busVars == <<kind, observers, mutex, call, at, news, seen, gone, undefined>>
processVars == <<configs_, running_processes_, process, exited, monitor, lost>>
pointerVars == <<shared, weak, strong_count, weak_count, deletes, block, pc, ctrl,
                 revived, overlap>>
maskVars == <<mask, mpc, mcall, oldv, newv, view, untold>>
finalVars == <<current_, finals_, lastFinal_, fpc, race, added>>
tableVars == <<deviceMask, subMask>>
eventVars == <<state_, collected, elapsed, age, left, fired>>
memoryVars == <<memory, tracked, allocations, tmutex, tpc, arg>>
lockVars == <<version, owner, lpc>>
smartVars == <<skind, ptr, count, deleted, raw, overwritten>>
tournamentVars == <<tkind, leaves, tree, readBefore, misused>>
studiesVars == <<studyPart, busVars, processVars, pointerVars, maskVars, finalVars, tableVars,
          eventVars, memoryVars, lockVars, smartVars, tournamentVars>>

\* What stays unchanged when one part takes a step.
exceptBus == <<studyPart, processVars, pointerVars, maskVars, finalVars, tableVars,
               eventVars, memoryVars, lockVars, smartVars, tournamentVars>>
exceptProcess == <<studyPart, busVars, pointerVars, maskVars, finalVars, tableVars,
                   eventVars, memoryVars, lockVars, smartVars, tournamentVars>>
exceptPointer == <<studyPart, busVars, processVars, maskVars, finalVars, tableVars,
                   eventVars, memoryVars, lockVars, smartVars, tournamentVars>>
exceptMask == <<studyPart, busVars, processVars, pointerVars, finalVars, tableVars,
                eventVars, memoryVars, lockVars, smartVars, tournamentVars>>
exceptFinal == <<studyPart, busVars, processVars, pointerVars, maskVars, tableVars,
                 eventVars, memoryVars, lockVars, smartVars, tournamentVars>>
exceptTable == <<studyPart, busVars, processVars, pointerVars, maskVars, finalVars,
                 eventVars, memoryVars, lockVars, smartVars, tournamentVars>>
exceptEvent == <<studyPart, busVars, processVars, pointerVars, maskVars, finalVars,
                 tableVars, memoryVars, lockVars, smartVars, tournamentVars>>
exceptMemory == <<studyPart, busVars, processVars, pointerVars, maskVars, finalVars,
                  tableVars, eventVars, lockVars, smartVars, tournamentVars>>
exceptLock == <<studyPart, busVars, processVars, pointerVars, maskVars, finalVars,
                tableVars, eventVars, memoryVars, smartVars, tournamentVars>>
exceptSmart == <<studyPart, busVars, processVars, pointerVars, maskVars, finalVars,
                 tableVars, eventVars, memoryVars, lockVars, tournamentVars>>
exceptTournament == <<studyPart, busVars, processVars, pointerVars, maskVars, finalVars,
                      tableVars, eventVars, memoryVars, lockVars, smartVars>>

StudiesInit ==
    /\ studyPart \in {"bus", "process", "pointer", "mask", "final", "table", "events",
                 "memory", "locks", "smart", "tournament", "none"}
    /\ Bus!Init /\ Processes!Init /\ Pointer!AtomicInit /\ Mask!Init /\ States!FinalInit
    /\ Mask!TableInit /\ States!EventInit /\ Held!MemoryInit /\ Held!LocksInit
    /\ Pointer!SingleInit /\ Tournament!Init
    /\ studyPart # "bus" => kind = "bus"
    /\ studyPart # "locks" => version = "deadlock"
    /\ studyPart # "smart" => skind = "shared"

StudiesNext ==
    \/ studyPart = "bus" /\ Bus!Next /\ UNCHANGED exceptBus
    \/ studyPart = "process" /\ Processes!Next /\ UNCHANGED exceptProcess
    \/ studyPart = "pointer" /\ Pointer!AtomicNext /\ UNCHANGED exceptPointer
    \/ studyPart = "mask" /\ Mask!Next /\ UNCHANGED exceptMask
    \/ studyPart = "final" /\ States!FinalNext /\ UNCHANGED exceptFinal
    \/ studyPart = "table" /\ Mask!TableNext /\ UNCHANGED exceptTable
    \/ studyPart = "events" /\ States!EventNext /\ UNCHANGED exceptEvent
    \/ studyPart = "memory" /\ Held!MemoryNext /\ UNCHANGED exceptMemory
    \/ studyPart = "locks" /\ Held!LocksNext /\ UNCHANGED exceptLock
    \/ studyPart = "smart" /\ Pointer!SingleNext /\ UNCHANGED exceptSmart
    \/ studyPart = "tournament" /\ Tournament!Next /\ UNCHANGED exceptTournament

\* A thread of the code, inside a call of the bus or of the tracked memory, or one of
\* the two of the lock example, which are numbered.
Thread(t) ==
    \/ studyPart = "bus" /\ Bus!Proceed(t) /\ UNCHANGED exceptBus
    \/ studyPart = "memory" /\ Held!Proceed(t) /\ UNCHANGED exceptMemory
    \/ studyPart = "locks" /\ Held!LocksNext /\ UNCHANGED exceptLock

Monitor == studyPart = "process" /\ Processes!Monitor /\ UNCHANGED exceptProcess

Reap(pid) == studyPart = "process" /\ Processes!Reap(pid) /\ UNCHANGED exceptProcess

\* Threads that can run do; a process that exited is found by one of the monitor's
\* polls, whatever else exits meanwhile.  Nobody has to call anything.
StudiesFairness == /\ \A t \in Threads : WF_studiesVars(Thread(t))
            /\ WF_studiesVars(Monitor)
            /\ \A pid \in Pids : SF_studiesVars(Reap(pid))

StudiesSpec == StudiesInit /\ [][StudiesNext]_studiesVars /\ StudiesFairness

-------------------------------------------------------------------------------

\* observer and dispatch: an observer whose unsubscription returned is not called;
\* advanced_craft.cpp, self_shared_ptr.cpp and self_unique_ptr.cpp: an object is not
\* deleted while a pointer holds it.
ReferencesAreSafe == Bus!GoneIsNotCalled /\ Pointer!SharedIsAlive /\ Pointer!HeldIsAlive

\* process_manager.cpp, the smart pointers, trace.cpp, win_tree.cpp and loser_tree.cpp:
\* the entries, the counts, the report and the winner are those of the processes,
\* pointers, allocations and leaves there are, but for the loser tree's exceptions, the
\* counts after the two races, and the objects whose pointer was assigned over.
RecordsMatch ==
    /\ Processes!EntriesMatch
    /\ Pointer!CountsArePointers /\ Pointer!CountsAreHolders
    /\ Held!ReportIsRight
    /\ Tournament!WinnerIsRight /\ Tournament!ReadsBeforeItsLeaves

\* advanced_craft.cpp: an object is deleted once.
ObjectDeletedOnce == Pointer!ObjectDeletedOnce

\* self_shared_ptr.cpp: an assignment releases what it overwrites.
UseCountIsHolders == Pointer!UseCountIsHolders

\* news_publisher.hpp, ex_ver_3 and ex_ver2: whoever observes has been told the
\* latest when nobody is about to tell; the queries of the final states agree.
ViewsAreCurrent ==
    /\ Bus!LatestIsSeen
    /\ Mask!ViewIsState
    /\ States!FinalIsCurrent /\ States!QueriesAgree

\* ex_ver_3, ex_combine_v3, ex_mask_state_machine_v2 and multi_event: transitions
\* respect the validator, the other fields, the order of the states and the windows.
TransitionsByTheRules ==
    /\ Mask!UpdatesAreValid
    /\ Mask!FieldsFollowTheRules
    /\ States!EventsAreInTime

\* A publication lets go of its mutex, a process that exits is started again, a
\* deletion and the joins return, each but for the exceptions its module names.
EverythingGoesOn ==
    /\ Bus!PublishEndsUnlessReentered
    /\ Processes!RestartsUnlessLost
    /\ Held!DeletesEndUnlessTracked
    /\ studyPart = "locks" => Held!JoinsReturnUnlessCrossed
===============================================================================
