------------------------------ MODULE BoundedFifo ------------------------------
(***************************************************************************)
(* What a bounded queue between one sender and one receiver promises: the  *)
(* receiver gets the items 1, 2, 3, ... in the order they were sent, each  *)
(* once, and at most Size of them are under way.  Items may be sent and    *)
(* received several at a time.  RingBuffer implements this with a circular *)
(* array and two indices.                                                  *)
(***************************************************************************)
EXTENDS Naturals, Sequences

CONSTANTS Size,     \* how many items fit
          MaxItems  \* bound: how many items are sent

VARIABLES sent,      \* the items sent so far are 1..sent
          content,   \* sent and not received, oldest first
          received   \* how many items were received

vars == <<sent, content, received>>

Init == sent = 0 /\ content = <<>> /\ received = 0

Send(n) == /\ sent + n <= MaxItems
           /\ Len(content) + n <= Size
           /\ sent' = sent + n
           /\ content' = content \o [i \in 1..n |-> sent + i]
           /\ UNCHANGED received

Receive(n) == /\ n <= Len(content)
              /\ SubSeq(content, 1, n) = [i \in 1..n |-> received + i]
              /\ content' = SubSeq(content, n + 1, Len(content))
              /\ received' = received + n
              /\ UNCHANGED sent

Next == \E n \in 1..Size : Send(n) \/ Receive(n)

\* Whoever can send sends, whoever can receive receives.
Fairness == /\ WF_vars(\E n \in 1..Size : Send(n))
            /\ WF_vars(\E n \in 1..Size : Receive(n))

SafeSpec == Init /\ [][Next]_vars
Spec == SafeSpec /\ Fairness
===============================================================================
