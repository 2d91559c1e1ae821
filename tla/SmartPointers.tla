---------------------------- MODULE SmartPointers -----------------------------
(***************************************************************************)
(* craft/smart_ptr/advanced_craft.cpp: SharedPtr and WeakPtr with a        *)
(* control block of two atomic counters.  Every thread has one pointer of  *)
(* each kind and copies them from threads that are between two calls, as   *)
(* the standard's pointers allow; each access of a counter is a step.      *)
(*                                                                         *)
(* SharedPtr of self_shared_ptr.cpp and UniquePtr of self_unique_ptr.cpp,  *)
(* used by one thread: an object of theirs comes with the ControlBlock of  *)
(* a SharedPtr and is not allocated again once deleted.                    *)
(* (self_weak_ptr.cpp does not compile: weak_count stays 0.)               *)
(***************************************************************************)
EXTENDS Naturals, FiniteSets

CONSTANTS Threads, Blocks, Null

AtomicAssumption == IsFiniteSet(Threads) /\ Null \notin Blocks

VARIABLES
    shared, weak,     \* each thread's ctrl_ of its SharedPtr and its WeakPtr
    strong_count, weak_count,
    deletes,          \* how often the object of a block has been deleted
    block,            \* "free", "live" or "deleted"
    pc, ctrl,         \* what the thread is doing, and with which block
    revived,          \* history: the blocks whose count was raised from 0
    overlap           \* history: the blocks touched after their deletion, or deleted
                      \* though a pointer was made after the test of the counts

atomicVars == <<shared, weak, strong_count, weak_count, deletes, block, pc, ctrl,
                revived, overlap>>

-------------------------------------------------------------------------------

AtomicInit == /\ shared = [t \in Threads |-> Null] /\ weak = [t \in Threads |-> Null]
              /\ strong_count = [b \in Blocks |-> 0] /\ weak_count = [b \in Blocks |-> 0]
              /\ deletes = [b \in Blocks |-> 0]
              /\ block = [b \in Blocks |-> "free"]
              /\ pc = [t \in Threads |-> "idle"] /\ ctrl = [t \in Threads |-> Null]
              /\ revived = {} /\ overlap = {}

Touched(b) == overlap' = IF block[b] = "live" THEN overlap ELSE overlap \cup {b}

\* SharedPtr(T*), make_shared and the second half of reset(T*).
Make(t, b) ==
    /\ pc[t] = "idle" /\ shared[t] = Null /\ block[b] = "free"
    /\ block' = [block EXCEPT ![b] = "live"]
    /\ strong_count' = [strong_count EXCEPT ![b] = 1]
    /\ shared' = [shared EXCEPT ![t] = b]
    /\ UNCHANGED <<weak, weak_count, deletes, pc, ctrl, revived, overlap>>

\* The copy constructor and the second half of the copy assignment.
Copy(t, u) ==
    /\ pc[t] = "idle" /\ pc[u] = "idle" /\ shared[t] = Null /\ shared[u] # Null
    /\ shared' = [shared EXCEPT ![t] = shared[u]]
    /\ strong_count' = [strong_count EXCEPT ![shared[u]] = @ + 1]
    /\ UNCHANGED <<weak, weak_count, deletes, block, pc, ctrl, revived, overlap>>

\* The move constructor, the second half of the move assignment, swap with an
\* empty pointer.
Move(t, u) ==
    /\ pc[t] = "idle" /\ pc[u] = "idle" /\ shared[t] = Null /\ shared[u] # Null
    /\ shared' = [shared EXCEPT ![t] = shared[u], ![u] = Null]
    /\ UNCHANGED <<weak, strong_count, weak_count, deletes, block, pc, ctrl, revived, overlap>>

\* WeakPtr from a SharedPtr or from a WeakPtr.
MakeWeak(t, u) ==
    /\ pc[t] = "idle" /\ pc[u] = "idle" /\ weak[t] = Null
    /\ \E b \in {shared[u], weak[u]} \ {Null} :
          /\ weak' = [weak EXCEPT ![t] = b]
          /\ weak_count' = [weak_count EXCEPT ![b] = @ + 1]
          /\ Touched(b)
    /\ UNCHANGED <<shared, strong_count, deletes, block, pc, ctrl, revived>>

\* The move constructor of WeakPtr and the second half of its move assignment.
MoveWeak(t, u) ==
    /\ pc[t] = "idle" /\ pc[u] = "idle" /\ weak[t] = Null /\ weak[u] # Null
    /\ weak' = [weak EXCEPT ![t] = weak[u], ![u] = Null]
    /\ UNCHANGED <<shared, strong_count, weak_count, deletes, block, pc, ctrl, revived, overlap>>

\* decrement_and_cleanup: the destructor, reset and the assignments start with it.
Release(t) ==
    LET b == shared[t] IN
    /\ pc[t] = "idle" /\ b # Null
    /\ strong_count' = [strong_count EXCEPT ![b] = @ - 1]
    /\ pc' = [pc EXCEPT ![t] = IF strong_count[b] = 1 THEN "deleteObject" ELSE "idle"]
    /\ ctrl' = [ctrl EXCEPT ![t] = b]
    /\ shared' = [shared EXCEPT ![t] = Null]
    /\ Touched(b)
    /\ UNCHANGED <<weak, weak_count, deletes, block, revived>>

DeleteObject(t) ==
    /\ pc[t] = "deleteObject"
    /\ deletes' = [deletes EXCEPT ![ctrl[t]] = @ + 1]
    /\ pc' = [pc EXCEPT ![t] = "loadWeak"]
    /\ UNCHANGED <<shared, weak, strong_count, weak_count, block, ctrl, revived, overlap>>

LoadWeak(t) ==
    /\ pc[t] = "loadWeak"
    /\ pc' = [pc EXCEPT ![t] = IF weak_count[ctrl[t]] = 0 THEN "deleteBlock" ELSE "idle"]
    /\ Touched(ctrl[t])
    /\ UNCHANGED <<shared, weak, strong_count, weak_count, deletes, block, ctrl, revived>>

\* WeakPtr::release.
ReleaseWeak(t) ==
    LET b == weak[t] IN
    /\ pc[t] = "idle" /\ b # Null
    /\ weak_count' = [weak_count EXCEPT ![b] = @ - 1]
    /\ pc' = [pc EXCEPT ![t] = IF weak_count[b] = 1 THEN "loadStrong" ELSE "idle"]
    /\ ctrl' = [ctrl EXCEPT ![t] = b]
    /\ weak' = [weak EXCEPT ![t] = Null]
    /\ Touched(b)
    /\ UNCHANGED <<shared, strong_count, deletes, block, revived>>

LoadStrong(t) ==
    /\ pc[t] = "loadStrong"
    /\ pc' = [pc EXCEPT ![t] = IF strong_count[ctrl[t]] = 0 THEN "deleteBlock" ELSE "idle"]
    /\ Touched(ctrl[t])
    /\ UNCHANGED <<shared, weak, strong_count, weak_count, deletes, block, ctrl, revived>>

\* delete ctrl_, whose destructor deletes the object again.
DeleteBlock(t) ==
    LET b == ctrl[t] IN
    /\ pc[t] = "deleteBlock"
    /\ deletes' = [deletes EXCEPT ![b] = @ + 1]
    /\ block' = [block EXCEPT ![b] = "deleted"]
    /\ overlap' = IF block[b] = "live" /\ strong_count[b] + weak_count[b] = 0
                  THEN overlap ELSE overlap \cup {b}
    /\ pc' = [pc EXCEPT ![t] = "idle"]
    /\ UNCHANGED <<shared, weak, strong_count, weak_count, ctrl, revived>>

\* WeakPtr::lock and SharedPtr(const WeakPtr&): the count is read, read again and
\* only then raised.
Lock(t) ==
    LET b == weak[t] IN
    /\ pc[t] = "idle" /\ b # Null /\ shared[t] = Null
    /\ strong_count[b] > 0
    /\ pc' = [pc EXCEPT ![t] = "loadAgain"]
    /\ Touched(b)
    /\ UNCHANGED <<shared, weak, strong_count, weak_count, deletes, block, ctrl, revived>>

LoadAgain(t) ==
    /\ pc[t] = "loadAgain"
    /\ pc' = [pc EXCEPT ![t] = IF strong_count[weak[t]] > 0 THEN "raise" ELSE "idle"]
    /\ Touched(weak[t])
    /\ UNCHANGED <<shared, weak, strong_count, weak_count, deletes, block, ctrl, revived>>

Raise(t) ==
    LET b == weak[t] IN
    /\ pc[t] = "raise"
    /\ strong_count' = [strong_count EXCEPT ![b] = @ + 1]
    /\ shared' = [shared EXCEPT ![t] = b]
    /\ revived' = IF strong_count[b] = 0 THEN revived \cup {b} ELSE revived
    /\ pc' = [pc EXCEPT ![t] = "idle"]
    /\ Touched(b)
    /\ UNCHANGED <<weak, weak_count, deletes, block, ctrl>>

AtomicNext == /\ overlap = {} /\ revived = {}
              /\ \E t \in Threads :
                    \/ \E b \in Blocks : Make(t, b)
                    \/ \E u \in Threads \ {t} : Copy(t, u) \/ Move(t, u) \/ MoveWeak(t, u)
                    \/ \E u \in Threads : MakeWeak(t, u)
                    \/ Release(t) \/ DeleteObject(t) \/ LoadWeak(t) \/ ReleaseWeak(t)
                    \/ LoadStrong(t) \/ DeleteBlock(t) \/ Lock(t) \/ LoadAgain(t) \/ Raise(t)

-------------------------------------------------------------------------------

\* While a SharedPtr holds an object it is not deleted, unless lock raised a count
\* that had gone to 0 after its test.
SharedIsAlive == \A t \in Threads : shared[t] \in {Null} \cup revived \/ deletes[shared[t]] = 0

Cleaning == {"deleteObject", "loadWeak", "loadStrong", "deleteBlock"}

\* The counts are the numbers of pointers.  When nobody is cleaning up, the object is
\* gone if and only if its last SharedPtr is, and the block if and only if its last
\* pointer of either kind is: unless two threads released and made pointers between
\* each other's tests, or lock raised a count from 0.
CountsArePointers ==
    \A b \in Blocks \ (revived \cup overlap) :
        /\ strong_count[b] = Cardinality({t \in Threads : shared[t] = b})
        /\ weak_count[b] = Cardinality({t \in Threads : weak[t] = b})
        /\ block[b] # "free" /\ ~(\E t \in Threads : ctrl[t] = b /\ pc[t] \in Cleaning) =>
               /\ block[b] = "deleted" <=> strong_count[b] + weak_count[b] = 0
               /\ deletes[b] > 0 <=> strong_count[b] = 0

\* What craft/smart_ptr/README.md says (236-239): the object is deleted when the strong
\* count is 0; when both counts are, it is the control block that is.
ObjectDeletedOnce == \A b \in Blocks : deletes[b] <= 1

-------------------------------------------------------------------------------

CONSTANTS Objects, Pointers,
          MaxLost  \* bounds the references of a block that assignments lose

SingleAssumption == IsFiniteSet(Pointers) /\ Null \notin Objects /\ "dead" \notin Objects \cup {Null}

VARIABLES kind,    \* "shared" or "unique"
          ptr,     \* of each pointer: the block it holds, or Null; "dead" if there is none
          count,   \* strong_count of each block
          deleted, \* the blocks deleted
          raw,     \* the blocks in the hands of the caller
          lost     \* of each block: the references an assignment overwrote

singleVars == <<kind, ptr, count, deleted, raw, lost>>

SingleInit == /\ kind \in {"shared", "unique"}
              /\ ptr = [p \in Pointers |-> "dead"]
              /\ count = [b \in Objects |-> 0]
              /\ deleted = {} /\ raw = {}
              /\ lost = [b \in Objects |-> 0]

Alive(p) == ptr[p] # "dead"

Holders(b) == {p \in Pointers : ptr[p] = b}

\* The caller's `new`.
New(b) == /\ b \notin raw \cup deleted
          /\ count[b] = 0 /\ Holders(b) = {}
          /\ raw' = raw \cup {b}
          /\ UNCHANGED <<kind, ptr, count, deleted, lost>>

-------------------------------------------------------------------------------

SharedConstruct(p, b) ==
    /\ kind = "shared" /\ ~Alive(p) /\ b \in raw
    /\ ptr' = [ptr EXCEPT ![p] = b]
    /\ count' = [count EXCEPT ![b] = 1]
    /\ raw' = raw \ {b}
    /\ UNCHANGED <<kind, deleted, lost>>

Counted(b) == IF b = Null THEN count ELSE [count EXCEPT ![b] = @ + 1]

SharedCopy(p, other) ==
    /\ kind = "shared" /\ ~Alive(p) /\ Alive(other)
    /\ ptr' = [ptr EXCEPT ![p] = ptr[other]]
    /\ count' = Counted(ptr[other])
    /\ UNCHANGED <<kind, deleted, raw, lost>>

\* operator= does not release what the pointer held.
SharedAssign(p, other) ==
    /\ kind = "shared" /\ Alive(p) /\ Alive(other) /\ p # other
    /\ ptr[p] # Null => lost[ptr[p]] < MaxLost
    /\ ptr' = [ptr EXCEPT ![p] = ptr[other]]
    /\ count' = Counted(ptr[other])
    /\ lost' = IF ptr[p] = Null THEN lost ELSE [lost EXCEPT ![ptr[p]] = @ + 1]
    /\ UNCHANGED <<kind, deleted, raw>>

\* The destructor with release.
SharedDestroy(p) ==
    /\ kind = "shared" /\ Alive(p)
    /\ LET b == ptr[p]
       IN IF b = Null THEN UNCHANGED <<count, deleted>>
          ELSE /\ count' = [count EXCEPT ![b] = @ - 1]
               /\ deleted' = IF count[b] = 1 THEN deleted \cup {b} ELSE deleted
    /\ ptr' = [ptr EXCEPT ![p] = "dead"]
    /\ UNCHANGED <<kind, raw, lost>>

SharedDefault(p) ==
    /\ kind = "shared" /\ ~Alive(p)
    /\ ptr' = [ptr EXCEPT ![p] = Null]
    /\ UNCHANGED <<kind, count, deleted, raw, lost>>

-------------------------------------------------------------------------------

\* A raw pointer the caller gives away, or nullptr.
Given == raw \cup {Null}

\* `delete` of a null pointer does nothing.
WithDeleted(b) == IF b = Null THEN deleted ELSE deleted \cup {b}

UniqueConstruct(p, b) ==
    /\ kind = "unique" /\ ~Alive(p) /\ b \in Given
    /\ ptr' = [ptr EXCEPT ![p] = b]
    /\ raw' = raw \ {b}
    /\ UNCHANGED <<kind, count, deleted, lost>>

UniqueMove(p, other) ==
    /\ kind = "unique" /\ ~Alive(p) /\ Alive(other)
    /\ ptr' = [ptr EXCEPT ![p] = ptr[other], ![other] = Null]
    /\ UNCHANGED <<kind, count, deleted, raw, lost>>

UniqueAssign(p, other) ==
    /\ kind = "unique" /\ Alive(p) /\ Alive(other) /\ p # other
    /\ deleted' = WithDeleted(ptr[p])
    /\ ptr' = [ptr EXCEPT ![p] = ptr[other], ![other] = Null]
    /\ UNCHANGED <<kind, count, raw, lost>>

UniqueRelease(p) ==
    /\ kind = "unique" /\ Alive(p)
    /\ raw' = raw \cup ({ptr[p]} \ {Null})
    /\ ptr' = [ptr EXCEPT ![p] = Null]
    /\ UNCHANGED <<kind, count, deleted, lost>>

UniqueReset(p, b) ==
    /\ kind = "unique" /\ Alive(p) /\ b \in Given
    /\ deleted' = WithDeleted(ptr[p])
    /\ ptr' = [ptr EXCEPT ![p] = b]
    /\ raw' = raw \ {b}
    /\ UNCHANGED <<kind, count, lost>>

UniqueDestroy(p) ==
    /\ kind = "unique" /\ Alive(p)
    /\ deleted' = WithDeleted(ptr[p])
    /\ ptr' = [ptr EXCEPT ![p] = "dead"]
    /\ UNCHANGED <<kind, count, raw, lost>>

SingleNext ==
    \/ \E b \in Objects : New(b)
    \/ \E p \in Pointers :
          \/ SharedDefault(p) \/ SharedDestroy(p) \/ UniqueRelease(p) \/ UniqueDestroy(p)
          \/ \E b \in Given : \/ b # Null /\ SharedConstruct(p, b)
                              \/ UniqueConstruct(p, b) \/ UniqueReset(p, b)
          \/ \E other \in Pointers : \/ SharedCopy(p, other) \/ SharedAssign(p, other)
                                     \/ UniqueMove(p, other) \/ UniqueAssign(p, other)

-------------------------------------------------------------------------------

\* Nobody holds a deleted object, and nobody deletes one twice: a UniquePtr's object
\* has no other owner.
HeldIsAlive ==
    \A b \in Objects :
        /\ b \in deleted => Holders(b) = {} /\ b \notin raw
        /\ kind = "unique" => Cardinality(Holders(b)) + Cardinality(raw \cap {b}) <= 1

\* use_count() of an object is the number of its SharedPtrs until one of these is
\* assigned over; only then may an object outlive its last pointer.
CountsAreHolders ==
    \A b \in Objects : kind = "shared" /\ lost[b] = 0 => count[b] = Cardinality(Holders(b))

\* What craft/smart_ptr/README.md says (105-127): operator= releases what the pointer
\* held, so that use_count() is the number of SharedPtrs whatever is assigned.
UseCountIsHolders ==
    kind = "shared" => \A b \in Objects : count[b] = Cardinality(Holders(b))
===============================================================================
