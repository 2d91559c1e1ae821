----------------------------- MODULE PriorityQueue -----------------------------
(***************************************************************************)
(* queue/priority_queue.hpp: a binary heap in a vector, with the greatest  *)
(* element of its order at the front.  Push and Pop are one action up to   *)
(* their Heapify; then each turn of its loop, or each of its recursive     *)
(* calls, is an action.  The vector's index i is heap[i + 1].              *)
(***************************************************************************)
EXTENDS Naturals, Sequences, FiniteSets

CONSTANTS Elements,  \* the values that can be pushed, each once
          Priority   \* what the order compares of each

PriorityQueueAssumption ==
    IsFiniteSet(Elements) /\ Priority \in [Elements -> Nat]

Orders == {"less", "greater"}

VARIABLES order,  \* Compare: std::less or std::greater
          heap,
          pc,     \* "idle", or the loop that is running: "up" or "down"
          index   \* the loop's index; 0 when idle

vars == <<order, heap, pc, index>>

comp(a, b) == IF order = "less" THEN Priority[a] < Priority[b]
              ELSE Priority[a] > Priority[b]

Parent(i) == (i - 1) \div 2

At(i) == heap[i + 1]

Swapped(h, i, j) == [h EXCEPT ![i + 1] = h[j + 1], ![j + 1] = h[i + 1]]

Held == {heap[i] : i \in DOMAIN heap}

-------------------------------------------------------------------------------

Init == order \in Orders /\ heap = <<>> /\ pc = "idle" /\ index = 0

Push(e) ==
    /\ pc = "idle"
    /\ heap' = Append(heap, e)
    /\ pc' = "up" /\ index' = Len(heap)
    /\ UNCHANGED order

UpSwaps == index > 0 /\ comp(At(Parent(index)), At(index))

\* One turn of HeapifyUp's loop; when it swaps nothing, Push returns.
HeapifyUp ==
    /\ pc = "up"
    /\ IF UpSwaps THEN /\ heap' = Swapped(heap, Parent(index), index)
                       /\ index' = Parent(index)
                       /\ UNCHANGED pc
       ELSE pc' = "idle" /\ index' = 0 /\ UNCHANGED heap
    /\ UNCHANGED order

\* Pop of an empty queue throws: no step.
Pop ==
    /\ pc = "idle" /\ heap # <<>>
    /\ LET n == Len(heap)
       IN heap' = SubSeq([heap EXCEPT ![1] = heap[n]], 1, n - 1)
    /\ pc' = IF Len(heap) = 1 THEN "idle" ELSE "down"
    /\ UNCHANGED <<order, index>>

\* The greatest of i and its children.
Largest(i) ==
    LET left == 2 * i + 1
        right == 2 * i + 2
        l == IF left < Len(heap) /\ comp(At(i), At(left)) THEN left ELSE i
    IN IF right < Len(heap) /\ comp(At(l), At(right)) THEN right ELSE l

HeapifyDown ==
    /\ pc = "down"
    /\ IF Largest(index) # index
       THEN /\ heap' = Swapped(heap, Largest(index), index)
            /\ index' = Largest(index)
            /\ UNCHANGED pc
       ELSE pc' = "idle" /\ index' = 0 /\ UNCHANGED heap
    /\ UNCHANGED order

Heapify == HeapifyUp \/ HeapifyDown

Next == (\E e \in Elements \ Held : Push(e)) \/ Pop \/ Heapify

Spec == Init /\ [][Next]_vars /\ WF_vars(Heapify)

-------------------------------------------------------------------------------

\* No element is above its parent, but for the one that HeapifyUp moves and the
\* children of the one that HeapifyDown moves; and those are in order with the
\* element above.
HeapOrder ==
    \A i \in 1..(Len(heap) - 1) :
        /\ comp(At(Parent(i)), At(i)) =>
               \/ pc = "up" /\ i = index
               \/ pc = "down" /\ Parent(i) = index
        /\ Parent(i) = index /\ index > 0 => ~comp(At(Parent(index)), At(i))

\* Between two calls Top is an element that no other precedes.
TopIsGreatest ==
    pc = "idle" => \A e \in Held : ~comp(At(0), e)

\* The queue is a bag of its elements, and every call returns.
KB == INSTANCE KeyBag WITH Copies <- Elements, bag <- Held, busy <- (pc # "idle")
ImplementsKeyBag == KB!Spec
===============================================================================
