------------------------- MODULE MCBuffersAndStudies --------------------------
(* The parts of MCBuffers and of MCStudies, one at a time.  A behavior of Spec is one
   of BuffersSpec and one of StudiesSpec. *)
EXTENDS MCBuffers, MCStudies

\* One part of one of the two modules runs.
Init == /\ BuffersInit /\ StudiesInit
        /\ (bufferPart = "none") # (studyPart = "none")

Next == \/ BuffersNext /\ UNCHANGED studiesVars
        \/ StudiesNext /\ UNCHANGED buffersVars

Spec == /\ Init /\ [][Next]_<<buffersVars, studiesVars>>
        /\ BuffersFairness /\ StudiesFairness
===============================================================================
