------------------------------ MODULE SimpleLogs ------------------------------
(***************************************************************************)
(* data_struct/buffer/async_logger_system.cpp: a thread that logs pushes   *)
(* into RingLogBuffer, or loses the entry when it is full, and the logger's*)
(* thread empties the ring every 100 ms and prints the batch.              *)
(*                                                                         *)
(* _head is a plain variable that flush reads while push stores it, a data *)
(* race.  With one thread that logs, what a build produces is a flush that *)
(* sees one value of _head or the next; the entry's strings are copied by  *)
(* calls that stay before the store.  The levels all pass the filter.      *)
(*                                                                         *)
(* utility/log/log_rotate.hpp: log appends a line and rotates the files    *)
(* when the current one is big enough: file i is renamed to i + 1, from    *)
(* the oldest down, and the current one to 1.  The process may end between *)
(* any two operations on files and be started again.                       *)
(*                                                                         *)
(* File 0 is the current one.  A file is the sequence of its lines, which  *)
(* are numbered, and lines are all of one size.                            *)
(***************************************************************************)
EXTENDS Integers, Sequences, SequencesExt, FiniteSetsExt

CONSTANTS BufferSize,  \* LOG_BUFFER_SIZE
          MaxEntries   \* bound: the number of entries logged; entries are 1, 2, ...

BatchLoggerAssumption == BufferSize \in Nat /\ BufferSize > 1 /\ MaxEntries \in Nat

VARIABLES
    _buffer, _head, _tail,
    pushing,   \* the steps of push: "out", "writing" or "publishing"
    entry,     \* the number of the last entry logged
    refused,   \* history: the entries that met a full ring
    rpc,       \* run: "loop", "flushing" or "done"
    batch, printed, _running

batchVars == <<_buffer, _head, _tail, pushing, entry, refused, rpc, batch, printed, _running>>

Slots == 0..BufferSize - 1
After(i) == (i + 1) % BufferSize
Pending == [i \in 1..(_head + BufferSize - _tail) % BufferSize |->
               _buffer[(_tail + i - 1) % BufferSize]]

BatchInit == /\ _buffer = [i \in Slots |-> 0]
             /\ _head = 0 /\ _tail = 0
             /\ pushing = "out"
             /\ entry = 0
             /\ refused = {}
             /\ rpc = "loop"
             /\ batch = <<>> /\ printed = <<>>
             /\ _running = TRUE

\* The ring is full, or there is room for the entry.
Log ==
    /\ pushing = "out" /\ _running /\ entry < MaxEntries
    /\ entry' = entry + 1
    /\ IF After(_head) = _tail
       THEN refused' = refused \cup {entry + 1} /\ UNCHANGED pushing
       ELSE pushing' = "writing" /\ UNCHANGED refused
    /\ UNCHANGED <<_buffer, _head, _tail, rpc, batch, printed, _running>>

WriteEntry ==
    /\ pushing = "writing"
    /\ _buffer' = [_buffer EXCEPT ![_head] = entry]
    /\ pushing' = "publishing"
    /\ UNCHANGED <<_head, _tail, entry, refused, rpc, batch, printed, _running>>

StoreHead ==
    /\ pushing = "publishing"
    /\ _head' = After(_head)
    /\ pushing' = "out"
    /\ UNCHANGED <<_buffer, _tail, entry, refused, rpc, batch, printed, _running>>

\* while (_running), and the sleep.
Loop ==
    /\ rpc = "loop"
    /\ rpc' = IF _running THEN "flushing" ELSE "done"
    /\ UNCHANGED <<_buffer, _head, _tail, pushing, entry, refused, batch, printed, _running>>

\* One iteration of the loop of flush; push sees the new _tail only afterwards.
FlushOne ==
    /\ rpc = "flushing" /\ _tail # _head
    /\ batch' = Append(batch, _buffer[_tail])
    /\ _tail' = After(_tail)
    /\ UNCHANGED <<_buffer, _head, pushing, entry, refused, rpc, printed, _running>>

PrintBatch ==
    /\ rpc = "flushing" /\ _tail = _head
    /\ printed' = printed \o batch
    /\ batch' = <<>>
    /\ rpc' = "loop"
    /\ UNCHANGED <<_buffer, _head, _tail, pushing, entry, refused, _running>>

\* The destructor; its join ends when run is done.
Stop ==
    /\ _running /\ pushing = "out"
    /\ _running' = FALSE
    /\ UNCHANGED <<_buffer, _head, _tail, pushing, entry, refused, rpc, batch, printed>>

Push == WriteEntry \/ StoreHead
Run == Loop \/ FlushOne \/ PrintBatch
BatchNext == Log \/ Push \/ Run \/ Stop

-------------------------------------------------------------------------------

\* The entries that were not refused, but for the one being pushed.
Taken == (1..(IF pushing = "out" THEN entry ELSE entry - 1)) \ refused

\* They are printed, in the batch or in the ring, each once and in order.
PrintedInOrder ==
    LET all == printed \o batch \o Pending
    IN  ToSet(all) = Taken /\ \A i, j \in DOMAIN all : i < j => all[i] < all[j]

\* Entries in the ring are printed unless the logger stops, which drops what came
\* after its last flush, and the logger's thread ends.
EntriesArePrinted ==
    /\ _tail # _head ~> _tail = _head \/ ~_running
    /\ ~_running ~> rpc = "done"

-------------------------------------------------------------------------------

CONSTANTS MaxSizes,   \* the values of maxSize, in lines
          MaxFiles,   \* the values of maxFiles
          Lines,      \* bound: the number of lines logged
          NoFile      \* what is at a name that no file has

LogRotatorAssumption ==
    /\ MaxSizes \subseteq Nat \ {0} /\ Lines \in Nat
    /\ MaxFiles \subseteq Nat /\ \E m \in MaxFiles : \A n \in MaxFiles : n <= m
    /\ NoFile \notin Seq(Nat)

VARIABLES
    maxSize, maxFiles,
    files,    \* files[i]: the lines of file i, or NoFile
    lines,    \* the number of lines logged
    index,    \* rotateLogs: the next i of its loop, -1 outside of it
    restarted \* history: did the process end and start again?

rotatorVars == <<maxSize, maxFiles, files, lines, index, restarted>>

Oldest == Max(MaxFiles) + 1
Names == 0..Oldest

RotatorInit == /\ maxSize \in MaxSizes /\ maxFiles \in MaxFiles
               /\ files = [i \in Names |-> IF i = 0 THEN <<>> ELSE NoFile]
               /\ lines = 0
               /\ index = -1
               /\ restarted = FALSE

\* fs::rename replaces a file that is there.
Renamed(i, j) == files' = [files EXCEPT ![j] = files[i], ![i] = NoFile]

\* Mutant: the loop goes from the newest file up.
ShiftUpwards ==
    /\ index > 0
    /\ LET i == maxFiles - index
       IN IF files[i] = NoFile THEN UNCHANGED files ELSE Renamed(i, i + 1)
    /\ index' = index - 1
    /\ UNCHANGED <<maxSize, maxFiles, lines, restarted>>

\* log: the line, and the start of a rotation.
LogLine ==
    /\ index = -1 /\ files[0] # NoFile
    /\ lines < Lines
    /\ lines' = lines + 1
    /\ files' = [files EXCEPT ![0] = Append(@, lines + 1)]
    /\ index' = IF Len(files[0]) + 1 >= maxSize
                THEN IF maxFiles = 0 THEN 0 ELSE maxFiles - 1
                ELSE -1
    /\ UNCHANGED <<maxSize, maxFiles, restarted>>

\* fs::remove(newLog)
RemoveNew ==
    /\ index > 0
    /\ files[index] # NoFile /\ files[index + 1] # NoFile
    /\ files' = [files EXCEPT ![index + 1] = NoFile]
    /\ UNCHANGED <<maxSize, maxFiles, lines, index, restarted>>

\* One iteration of the loop, after the removal where there is one.
Shift ==
    /\ index > 0
    /\ IF files[index] = NoFile THEN UNCHANGED files
       ELSE files[index + 1] = NoFile /\ Renamed(index, index + 1)
    /\ index' = index - 1
    /\ UNCHANGED <<maxSize, maxFiles, lines, restarted>>

\* After the loop the current file becomes file 1, and openLogFile makes a new one.
RenameCurrent ==
    /\ index = 0 /\ files[0] # NoFile
    /\ Renamed(0, 1)
    /\ UNCHANGED <<maxSize, maxFiles, lines, index, restarted>>

OpenLogFile ==
    /\ index = 0 /\ files[0] = NoFile
    /\ files' = [files EXCEPT ![0] = <<>>]
    /\ index' = -1
    /\ UNCHANGED <<maxSize, maxFiles, lines, restarted>>

\* The process ends, perhaps in the middle of a rotation, and is started again: the
\* constructor opens the file, to append, or makes one.
CrashAndRestart ==
    /\ files' = [files EXCEPT ![0] = IF @ = NoFile THEN <<>> ELSE @]
    /\ index' = -1
    /\ restarted' = TRUE
    /\ UNCHANGED <<maxSize, maxFiles, lines>>

RotateLogs == RemoveNew \/ Shift \/ RenameCurrent \/ OpenLogFile
RotatorNext == LogLine \/ RotateLogs \/ CrashAndRestart

-------------------------------------------------------------------------------

\* The lines of a file, and those of all files.
Content(i) == IF files[i] = NoFile THEN <<>> ELSE files[i]
Kept == UNION {ToSet(Content(i)) : i \in Names}

Backups == {i \in Names \ {0} : files[i] # NoFile}

\* Wherever the process ended, the files hold the last lines logged without a gap,
\* each once and in order from the oldest file to the current one.  A process that
\* was never interrupted keeps maxFiles backups, or one if maxFiles is 0, before it
\* removes any line.
KeepsTheLastLines ==
    /\ Kept \subseteq 1..lines
    /\ \A m \in Kept : m..lines \subseteq Kept
    /\ \A i, j \in Names : \A k \in DOMAIN Content(i), n \in DOMAIN Content(j) :
          i > j \/ (i = j /\ k < n) => Content(i)[k] < Content(j)[n]
    /\ ~restarted /\ index = -1 /\ Kept # 1..lines => Backups = 1..Max({1, maxFiles})
===============================================================================
