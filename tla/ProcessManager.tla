---------------------------- MODULE ProcessManager ----------------------------
(***************************************************************************)
(* process/ex_start: a launcher starts the configured processes and a      *)
(* monitoring thread reaps those that exit, one a second, and starts them  *)
(* again if their configuration says so.  fork may fail, and the system    *)
(* may give the number of a process that was reaped to the next one.       *)
(***************************************************************************)
EXTENDS Naturals, FiniteSets

CONSTANTS Configs,
          Restart,     \* the configurations with restart set
          Pids,
          MinusOne,    \* what fork returns when it fails
          NoProcess

ProcessManagerAssumption ==
    /\ Restart \subseteq Configs /\ NoProcess \notin Configs
    /\ MinusOne \notin Pids /\ {"off", "polling"} \cap Pids = {}

VARIABLES
    configs_,            \* the configurations startAll has yet to start
    running_processes_,  \* running_processes_[pid], NoProcess if there is no entry
    process,             \* process[pid]: the configuration of the system's process
    exited,              \* the processes that exited and are not reaped
    monitor,             \* "off", "polling", or the entry it starts again
    lost                 \* history: the configurations that were erased or not forked

vars == <<configs_, running_processes_, process, exited, monitor, lost>>

Keys == Pids \cup {MinusOne}

\* Mutant: a process that is not started again keeps its entry.
ReapKeepsEntry(pid) ==
    /\ monitor = "polling" /\ pid \in exited
    /\ exited' = exited \ {pid}
    /\ process' = [process EXCEPT ![pid] = NoProcess]
    /\ monitor' = IF running_processes_[pid] \in Restart THEN pid ELSE monitor
    /\ UNCHANGED <<configs_, running_processes_, lost>>

-------------------------------------------------------------------------------

Init == /\ configs_ = Configs
        /\ running_processes_ = [k \in Keys |-> NoProcess]
        /\ process = [pid \in Pids |-> NoProcess]
        /\ exited = {}
        /\ monitor = "off"
        /\ lost = {}

\* fork: a number that no process has, or a failure.
Forked == {pid \in Pids : process[pid] = NoProcess} \cup {MinusOne}

\* The system's side of startProcess; a failed exec is a process that exits.
Started(pid, config) ==
    process' = IF pid = MinusOne THEN process ELSE [process EXCEPT ![pid] = config]

\* startAll, before the monitor runs.
StartAll(config, pid) ==
    /\ monitor = "off"
    /\ config \in configs_ /\ pid \in Forked
    /\ configs_' = configs_ \ {config}
    /\ Started(pid, config)
    /\ running_processes_' = [running_processes_ EXCEPT ![pid] = config]
    /\ lost' = IF pid = MinusOne THEN lost \cup {config} ELSE lost
    /\ UNCHANGED <<exited, monitor>>

StartMonitor == /\ monitor = "off" /\ configs_ = {}
                /\ monitor' = "polling"
                /\ UNCHANGED <<configs_, running_processes_, process, exited, lost>>

Exit(pid) == /\ process[pid] # NoProcess /\ pid \notin exited
             /\ exited' = exited \cup {pid}
             /\ UNCHANGED <<configs_, running_processes_, process, monitor, lost>>

\* waitpid and the search for the entry; one that is not restarted is erased.
Reap(pid) ==
    /\ monitor = "polling" /\ pid \in exited
    /\ exited' = exited \ {pid}
    /\ process' = [process EXCEPT ![pid] = NoProcess]
    /\ IF running_processes_[pid] \in Restart
       THEN monitor' = pid /\ UNCHANGED running_processes_
       ELSE /\ monitor' = monitor
            /\ running_processes_' = [running_processes_ EXCEPT ![pid] = NoProcess]
    /\ UNCHANGED <<configs_, lost>>

\* startProcess with the entry's configuration, and the erasure of the entry: the
\* new process's own when it was given the same number.
StartAgain(pid) ==
    LET config == running_processes_[monitor] IN
    /\ monitor \in Pids /\ pid \in Forked
    /\ Started(pid, config)
    /\ running_processes_' = [running_processes_ EXCEPT ![pid] = config,
                                                        ![monitor] = NoProcess]
    /\ lost' = IF pid \in {monitor, MinusOne} THEN lost \cup {config} ELSE lost
    /\ monitor' = "polling"
    /\ UNCHANGED <<configs_, exited>>

Monitor == StartMonitor \/ \E pid \in Keys : StartAgain(pid)

Next == \/ Monitor
        \/ \E pid \in Pids : Exit(pid) \/ Reap(pid)
        \/ \E pid \in Keys, config \in configs_ : StartAll(config, pid)

-------------------------------------------------------------------------------

\* Every entry stands for the process that runs its configuration (or the one that
\* is being started again), and every process has its entry, unless it was given
\* the number of the process it replaces.
EntriesMatch ==
    \A pid \in Pids :
        /\ running_processes_[pid] # NoProcess =>
               pid = monitor \/ process[pid] = running_processes_[pid]
        /\ process[pid] # NoProcess =>
               running_processes_[pid] = process[pid] \/ process[pid] \in lost

\* A configuration with restart runs again after each exit, unless a fork failed or
\* its entry was erased with the process it replaced.
RestartsUnlessLost ==
    \A c \in Restart :
        monitor # "off" /\ (\E pid \in exited : process[pid] = c)
            ~> c \in lost \/ \E pid \in Pids \ exited : process[pid] = c
===============================================================================
