------------------------------ MODULE MCBuffers ------------------------------
(* The buffers between a thread that produces and one that consumes, the files
   that logs end up in and the messages of a stream, one at a time: bufferPart says
   which of them runs, the others stay as they are initially.  With "none", others
   than these run. *)
EXTENDS Naturals, Sequences

CONSTANTS Capacity, WordMod, Counts, MaxItems,
          Producers, RingSize, MaxMessages, Strategies, Nothing,
          BufferSize, MaxEntries,
          MaxSizes, MaxFiles, Lines, NoFile,
          Byte, LengthBytes, Payloads, MaxSent

VARIABLES bufferPart,
          buffer, read_ptr, write_ptr, pcount, pdone, ccount, cdone, sent, received,
          strategy, ring, head_, tail_, ppc, phead, logged, running_, wpc, msg,
          flush, file, accepted, dropped,
          _buffer, _head, _tail, pushing, entry, refused, rpc, batch, printed, _running,
          maxSize, maxFiles, files, lines, index, restarted,
          codec, csent, wire, arrived, creceived

\* Up to two bytes, among them those of a type and of lengths.
SomePayloads == UNION {[1..n -> 0..1] : n \in 0..2}

Ring == INSTANCE RingBuffer
Logger == INSTANCE AsyncLogger
Logs == INSTANCE SimpleLogs
Frames == INSTANCE FrameCodec WITH sent <- csent, received <- creceived

ASSUME BuffersAssumption ==
    /\ Ring!RingBufferAssumption
    /\ Logger!AsyncLoggerAssumption
    /\ Logs!BatchLoggerAssumption
    /\ Logs!LogRotatorAssumption
    /\ Frames!FrameCodecAssumption

ringVars == <<buffer, read_ptr, write_ptr, pcount, pdone, ccount, cdone, sent, received>>
loggerVars == <<strategy, ring, head_, tail_, ppc, phead, logged, running_, wpc, msg,
                flush, file, accepted, dropped>>
batchVars == <<_buffer, _head, _tail, pushing, entry, refused, rpc, batch, printed, _running>>
rotatorVars == <<maxSize, maxFiles, files, lines, index, restarted>>
frameVars == <<codec, csent, wire, arrived, creceived>>
buffersVars == <<bufferPart, ringVars, loggerVars, batchVars, rotatorVars, frameVars>>

\* What stays unchanged when one part takes a step.
exceptRing == <<bufferPart, loggerVars, batchVars, rotatorVars, frameVars>>
exceptLogger == <<bufferPart, ringVars, batchVars, rotatorVars, frameVars>>
exceptBatch == <<bufferPart, ringVars, loggerVars, rotatorVars, frameVars>>
exceptRotator == <<bufferPart, ringVars, loggerVars, batchVars, frameVars>>
exceptFrames == <<bufferPart, ringVars, loggerVars, batchVars, rotatorVars>>

BuffersInit ==
    /\ bufferPart \in {"ring", "logger", "batch", "rotator", "frames", "none"}
    /\ Ring!Init /\ Logger!Init /\ Logs!BatchInit /\ Logs!RotatorInit /\ Frames!Init
    /\ bufferPart # "logger" => strategy = "Drop"
    /\ bufferPart # "rotator" => maxSize = 1 /\ maxFiles = 0
    /\ bufferPart # "frames" => codec = "length"

BuffersNext ==
    \/ bufferPart = "ring" /\ Ring!NextUnwrapped /\ UNCHANGED exceptRing
    \/ bufferPart = "logger" /\ Logger!Next /\ UNCHANGED exceptLogger
    \/ bufferPart = "batch" /\ Logs!BatchNext /\ UNCHANGED exceptBatch
    \/ bufferPart = "rotator" /\ Logs!RotatorNext /\ UNCHANGED exceptRotator
    \/ bufferPart = "frames" /\ Frames!Next /\ UNCHANGED exceptFrames

\* Both sides of the ring call again until they succeed, as main's threads do;
\* the threads of the loggers run; nobody has to log, to stop or to restart.
BuffersFairness ==
    /\ WF_buffersVars(bufferPart = "ring" /\ (Ring!Push \/ Ring!CopyIn \/ Ring!Publish)
               /\ UNCHANGED exceptRing)
    /\ WF_buffersVars(bufferPart = "ring" /\ (Ring!Pop \/ Ring!CopyOut \/ Ring!Release)
               /\ UNCHANGED exceptRing)
    /\ \A p \in Producers : WF_buffersVars(bufferPart = "logger" /\ Logger!Producer(p)
                                    /\ UNCHANGED exceptLogger)
    /\ WF_buffersVars(bufferPart = "logger" /\ Logger!Worker /\ UNCHANGED exceptLogger)
    /\ WF_buffersVars(bufferPart = "batch" /\ Logs!Push /\ UNCHANGED exceptBatch)
    /\ WF_buffersVars(bufferPart = "batch" /\ Logs!Run /\ UNCHANGED exceptBatch)

BuffersSpec == BuffersInit /\ [][BuffersNext]_buffersVars /\ BuffersFairness

-------------------------------------------------------------------------------

\* ring_buffer.cpp: producer and consumer never copy the same slot.
NoDataRace == Ring!NoDataRace

\* ring_buffer.cpp, without bulk calls while it is wrapped, is a bounded queue.
ImplementsBoundedFifo == Ring!ImplementsBoundedFifo

\* Neither of its sides spins for ever: as a queue it is fair to both.
SpinsEnd == bufferPart = "ring" => Ring!SpinsEnd

\* Both loggers: what the ring took is in it, on its way or written, in order; the
\* codecs: what was sent is decoded, in order, whatever pieces it arrives in.
NothingLost == Logger!NothingLost /\ Logs!PrintedInOrder /\ Frames!FramesAreKept

\* Both loggers: what the ring took is written unless the logger stops.
AcceptedIsWritten == Logger!AcceptedIsWritten /\ Logs!EntriesArePrinted

\* log_rotate.hpp: the files hold the last lines, also after a crash.
KeepsTheLastLines == Logs!KeepsTheLastLines
=============================================================================
