------------------------- MODULE MCPoolsAndStructures -------------------------
(* The parts of MCMemoryPools and of MCDataStructures, one at a time.  A behavior of
   BothSpec is one of PoolsSpec and one of SumSpec. *)
EXTENDS MCMemoryPools, MCDataStructures

\* One part of one of the two modules runs.
BothInit == /\ PoolsInit /\ SumInit
            /\ (poolPart = "none") # (part = "none")

BothNext == \/ PoolsNext /\ UNCHANGED allVars
            \/ SumNext /\ UNCHANGED poolsVars

BothSpec == /\ BothInit /\ [][BothNext]_<<poolsVars, allVars>>
            /\ PoolsFairness /\ WF_allVars(GoOn)
===============================================================================
