---------------------------- MODULE MCDataStructures ----------------------------
(* The data structures, one at a time: part says which of them runs, the others stay
   as they are initially.  With "none", others than these run.  RBTree and its drafts have seven nodes, two of them with the
   same key. *)
EXTENDS RBTree

CONSTANTS QueueElements, N, MaxLength, Values, Byte, Widths, Items, BloomSize, HashCnt

MCNodes == 1..7
MCKeyOf == <<1, 2, 3, 3, 4, 5, 6>>

\* Two of the elements are equal in the order.
MCPriority == [e \in QueueElements |-> e \div 2]

VARIABLES part,
          order, heap, hpc, index,
          uversion, parent, rank, cnt, blocks,
          call, result

Queue == INSTANCE PriorityQueue WITH
    Elements <- QueueElements, Priority <- MCPriority, pc <- hpc
Sets == INSTANCE UnionFind WITH version <- uversion
Pure == INSTANCE Algorithms

ASSUME QueueAssumption == Queue!PriorityQueueAssumption
ASSUME SetsAssumption == N \in Nat

queueVars == <<order, heap, hpc, index>>
setVars == <<uversion, parent, rank, cnt, blocks>>
pureVars == <<call, result>>
allVars == <<part, vars, draftVars, queueVars, setVars, pureVars>>

\* What stays unchanged when one part takes a step.
exceptTree == <<part, queueVars, setVars, pureVars>>
exceptQueue == <<part, vars, draftVars, setVars, pureVars>>
exceptSets == <<part, vars, draftVars, queueVars, pureVars>>
exceptPure == <<part, vars, draftVars, queueVars, setVars>>

SumInit ==
    /\ part \in {"tree", "queue", "sets", "pure", "none"}
    /\ DraftInit /\ Queue!Init /\ Sets!Init /\ Pure!Init
    /\ part # "tree" => draft = "none"
    /\ part # "queue" => order = "less"
    /\ part # "sets" => uversion = "counted"

SumNext ==
    \/ part = "tree" /\ DraftNext /\ UNCHANGED exceptTree
    \/ part = "queue" /\ Queue!Next /\ UNCHANGED exceptQueue
    \/ part = "sets" /\ Sets!Next /\ UNCHANGED exceptSets
    \/ part = "pure" /\ Pure!Next /\ UNCHANGED exceptPure

\* A call that has started goes on.
GoOn == \/ part = "tree" /\ draft = "none" /\ Fixup /\ UNCHANGED <<draftVars, exceptTree>>
        \/ part = "queue" /\ Queue!Heapify /\ UNCHANGED exceptQueue

SumSpec == SumInit /\ [][SumNext]_allVars /\ WF_allVars(GoOn)

-------------------------------------------------------------------------------

\* rb_tree.hpp and its drafts, priority_queue.hpp, union_find: the colors and links, the
\* order of the heap, the counts and the ranks are what the operations rely on, and so
\* searches, tops and connections are right.
StructuresAreSound ==
    /\ part = "tree" => RedBlack /\ SearchFinds /\ EndsWhere
    /\ part = "queue" => Queue!HeapOrder /\ Queue!TopIsGreatest
    /\ part = "sets" => /\ Sets!ConnectedIsRight /\ Sets!CountIsRight
                        /\ Sets!RanksBoundPaths

\* Sorts, bounds and filters are right; the third Bloom filter but for the exception
\* its module names.
AnswersAreRight == part = "pure" => Pure!ResultIsRight

CallsReturn == draft = "none" => []<>(pc = "idle")

\* The tree and the queue are bags of what was inserted and not removed, and their
\* calls return.
ImplementBags == ImplementsKeyBag /\ CallsReturn /\ Queue!ImplementsKeyBag
===============================================================================
