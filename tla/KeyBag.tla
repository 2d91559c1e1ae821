-------------------------------- MODULE KeyBag --------------------------------
(***************************************************************************)
(* What a container of keys that may be equal promises: a call adds a copy *)
(* of a key, or takes one it holds, and every call returns.  RBTree        *)
(* implements it with a balanced search tree.                              *)
(***************************************************************************)

CONSTANT Copies  \* each is a copy of some key

VARIABLES bag,   \* the copies held
          busy   \* a call is under way

vars == <<bag, busy>>

Init == bag = {} /\ busy = FALSE

Insert == /\ ~busy /\ busy' = TRUE
          /\ \E c \in Copies \ bag : bag' = bag \cup {c}

\* The call may already have returned when its effect is seen.
Remove == /\ ~busy /\ busy' \in BOOLEAN
          /\ \E c \in bag : bag' = bag \ {c}

Return == busy /\ busy' = FALSE /\ UNCHANGED bag

Next == Insert \/ Remove \/ Return

Safe == Init /\ [][Next]_vars

Spec == Safe /\ WF_vars(Return)
===============================================================================
