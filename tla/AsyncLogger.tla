------------------------------ MODULE AsyncLogger ------------------------------
(***************************************************************************)
(* craft/middleware/async_logger: Logger::Log hands a message to           *)
(* LogWorker::submitLog, which pushes it into MPSCRingBuffer according to  *)
(* the configured strategy.  The worker thread pops messages into a flush  *)
(* buffer and writes the buffer to the file when the ring is empty;        *)
(* Logger::Stop clears running_ and joins it.                              *)
(*                                                                         *)
(* Push loads head_, loads tail_, writes the slot and stores head_: four   *)
(* steps that other producers may interleave with.  A message is a pair of *)
(* its producer and its number; formatting, levels and the file are left   *)
(* out.  Block and Yield differ in how they wait and are both "Wait".      *)
(***************************************************************************)
EXTENDS Naturals, Sequences

CONSTANTS Producers,    \* the threads that log
          RingSize,     \* N, the slots of the ring
          MaxMessages,  \* bound: the messages each producer logs
          Strategies,   \* the configured strategies, a subset of {"Drop", "Wait"}
          Nothing       \* an empty slot or variable

AsyncLoggerAssumption ==
    /\ Producers # {}
    /\ RingSize \in Nat /\ RingSize > 1
    /\ Strategies \subseteq {"Drop", "Wait"} /\ Strategies # {}

VARIABLES
    strategy,
    ring, head_, tail_,
    ppc,        \* "out" of Push, or in it: "loaded", "writing", "storing"
    phead,      \* phead[p]: the value of head_ that Push loaded
    logged,     \* logged[p]: the messages p has handed to Log so far
    running_,
    wpc,        \* the worker: "loop", "popping", "popped", "flushing", "last",
                \* "done"
    msg,        \* the worker's local variable msg
    flush,      \* FlushBuffer's buffer_
    file,       \* the messages written, in order
    accepted,   \* history: the messages whose Push returned true, in order
    dropped     \* history: the messages given up

vars == <<strategy, ring, head_, tail_, ppc, phead, logged, running_, wpc, msg,
          flush, file, accepted, dropped>>

pvars == <<ppc, phead, logged, accepted, dropped>>
wvars == <<wpc, msg, flush, file>>

Slots == 0..RingSize - 1
After(i) == (i + 1) % RingSize
Messages == Producers \X (1..MaxMessages)
Elements(s) == {s[i] : i \in 1..Len(s)}

\* The message p is logging.
Message(p) == <<p, logged[p]>>

\* The unread slots, oldest first.
InRing == [i \in 1..(head_ + RingSize - tail_) % RingSize |->
              ring[(tail_ + i - 1) % RingSize]]

Init == /\ strategy \in Strategies
        /\ ring = [i \in Slots |-> Nothing]
        /\ head_ = 0 /\ tail_ = 0
        /\ ppc = [p \in Producers |-> "out"]
        /\ phead = [p \in Producers |-> 0]
        /\ logged = [p \in Producers |-> 0]
        /\ running_ = TRUE
        /\ wpc = "loop"
        /\ msg = Nothing
        /\ flush = <<>> /\ file = <<>>
        /\ accepted = <<>>
        /\ dropped = {}

-------------------------------------------------------------------------------

(***************************************************************************)
(* Bugs this code could plausibly have, each in the place of one action.   *)
(***************************************************************************)

\* Push forgets that one slot stays free.
AcceptSlotUnchecked(p) ==
    /\ ppc[p] = "loaded"
    /\ ppc' = [ppc EXCEPT ![p] = "writing"]
    /\ UNCHANGED <<strategy, ring, head_, tail_, phead, logged, running_,
                   accepted, dropped>>
    /\ UNCHANGED wvars

\* The worker only flushes when it stops.
FlushNever ==
    /\ wpc = "flushing"
    /\ wpc' = "loop"
    /\ UNCHANGED <<strategy, ring, head_, tail_, running_, msg, flush, file>>
    /\ UNCHANGED pvars

-------------------------------------------------------------------------------

\* Logger::Log of the next message, up to Push's load of head_.  Nobody logs
\* after Stop: the program joins its producers first.
Log(p) ==
    /\ ppc[p] = "out" /\ running_
    /\ logged[p] < MaxMessages
    /\ logged' = [logged EXCEPT ![p] = @ + 1]
    /\ phead' = [phead EXCEPT ![p] = head_]
    /\ ppc' = [ppc EXCEPT ![p] = "loaded"]
    /\ UNCHANGED <<strategy, ring, head_, tail_, running_, accepted, dropped>>
    /\ UNCHANGED wvars

\* next == tail_: Push returns false.  Drop gives the message up, the other
\* strategies call Push again.
Full(p) ==
    /\ ppc[p] = "loaded"
    /\ After(phead[p]) = tail_
    /\ IF strategy = "Drop"
       THEN /\ dropped' = dropped \cup {Message(p)}
            /\ ppc' = [ppc EXCEPT ![p] = "out"]
            /\ UNCHANGED phead
       ELSE /\ phead' = [phead EXCEPT ![p] = head_]
            /\ UNCHANGED <<dropped, ppc>>
    /\ UNCHANGED <<strategy, ring, head_, tail_, logged, running_, accepted>>
    /\ UNCHANGED wvars

\* There is room as seen from the loaded head.
AcceptSlot(p) ==
    /\ ppc[p] = "loaded"
    /\ After(phead[p]) # tail_
    /\ ppc' = [ppc EXCEPT ![p] = "writing"]
    /\ UNCHANGED <<strategy, ring, head_, tail_, phead, logged, running_,
                   accepted, dropped>>
    /\ UNCHANGED wvars

\* buffer_[head] = item.
WriteSlot(p) ==
    /\ ppc[p] = "writing"
    /\ ring' = [ring EXCEPT ![phead[p]] = Message(p)]
    /\ ppc' = [ppc EXCEPT ![p] = "storing"]
    /\ UNCHANGED <<strategy, head_, tail_, phead, logged, running_, accepted, dropped>>
    /\ UNCHANGED wvars

\* head_.store(next), not a compare-and-swap, and return true.
StoreHead(p) ==
    /\ ppc[p] = "storing"
    /\ head_' = After(phead[p])
    /\ accepted' = Append(accepted, Message(p))
    /\ ppc' = [ppc EXCEPT ![p] = "out"]
    /\ UNCHANGED <<strategy, ring, tail_, phead, logged, running_, dropped>>
    /\ UNCHANGED wvars

\* while (running_)
Loop ==
    /\ wpc = "loop"
    /\ wpc' = IF running_ THEN "popping" ELSE "last"
    /\ UNCHANGED <<strategy, ring, head_, tail_, running_, msg, flush, file>>
    /\ UNCHANGED pvars

\* Pop finds a message and copies it, or finds the ring empty.
Pop ==
    /\ wpc = "popping"
    /\ IF tail_ # head_ THEN msg' = ring[tail_] /\ wpc' = "popped"
       ELSE UNCHANGED msg /\ wpc' = "flushing"
    /\ UNCHANGED <<strategy, ring, head_, tail_, running_, flush, file>>
    /\ UNCHANGED pvars

\* tail_.store and FlushBuffer::Add.
PopStore ==
    /\ wpc = "popped"
    /\ tail_' = After(tail_)
    /\ flush' = Append(flush, msg)
    /\ msg' = Nothing
    /\ wpc' = "loop"
    /\ UNCHANGED <<strategy, ring, head_, running_, file>>
    /\ UNCHANGED pvars

\* CollectAndReset, Write, sleep.
Flush ==
    /\ wpc = "flushing"
    /\ file' = file \o flush
    /\ flush' = <<>>
    /\ wpc' = "loop"
    /\ UNCHANGED <<strategy, ring, head_, tail_, running_, msg>>
    /\ UNCHANGED pvars

\* After the loop: what the flush buffer holds is written, the ring is not read.
LastFlush ==
    /\ wpc = "last"
    /\ file' = file \o flush
    /\ flush' = <<>>
    /\ wpc' = "done"
    /\ UNCHANGED <<strategy, ring, head_, tail_, running_, msg>>
    /\ UNCHANGED pvars

\* Logger::Stop, once the producers are out of Log; its join ends when the
\* worker is done.
Stop ==
    /\ running_
    /\ \A p \in Producers : ppc[p] = "out"
    /\ running_' = FALSE
    /\ UNCHANGED <<strategy, ring, head_, tail_>>
    /\ UNCHANGED pvars /\ UNCHANGED wvars

Producer(p) == Full(p) \/ AcceptSlot(p) \/ WriteSlot(p) \/ StoreHead(p)
Worker == Loop \/ Pop \/ PopStore \/ Flush \/ LastFlush

Next == \/ \E p \in Producers : Log(p) \/ Producer(p)
        \/ Worker
        \/ Stop

Spec == Init /\ [][Next]_vars

\* Threads run; nobody has to log or to stop.
FairSpec == /\ Spec
            /\ \A p \in Producers : WF_vars(Producer(p))
            /\ WF_vars(Worker)

-------------------------------------------------------------------------------

TypeOK ==
    /\ strategy \in Strategies
    /\ ring \in [Slots -> Messages \cup {Nothing}]
    /\ head_ \in Slots /\ tail_ \in Slots
    /\ ppc \in [Producers -> {"out", "loaded", "writing", "storing"}]
    /\ phead \in [Producers -> Slots]
    /\ logged \in [Producers -> 0..MaxMessages]
    /\ running_ \in BOOLEAN
    /\ wpc \in {"loop", "popping", "popped", "flushing", "last", "done"}
    /\ msg \in Messages \cup {Nothing} /\ (msg # Nothing <=> wpc = "popped")
    /\ flush \in Seq(Messages) /\ file \in Seq(Messages)
    /\ accepted \in Seq(Messages) /\ dropped \subseteq Messages

\* Every message that Push accepted is in the file, the flush buffer or the
\* ring, once and in the order of acceptance.
NothingLost == file \o flush \o InRing = accepted

\* While the logger runs, an accepted message reaches the file once the producers
\* pause, which MaxMessages makes them do: the worker writes only when it finds
\* the ring empty, and an endless stream of messages could postpone that for ever.
AcceptedIsWritten ==
    \A m \in Messages : m \in Elements(accepted) ~> m \in Elements(file) \/ ~running_

===============================================================================
