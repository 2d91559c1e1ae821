------------------------------ MODULE RingBuffer ------------------------------
(***************************************************************************)
(* data_struct/buffer/ring_buffer.cpp: a lock-free ring buffer between one *)
(* producer thread (push, push_bulk) and one consumer thread (pop,         *)
(* pop_bulk).  Each side owns one index, loads the other one when it       *)
(* starts, copies its items slot by slot, and publishes its index last.    *)
(*                                                                         *)
(* The items are numbered: the producer's k-th item is k.  The acquire and *)
(* release orders of the loads and stores of the two indices make a slot's *)
(* copy visible before the index that covers it, so that steps may be      *)
(* interleaved as in sequential consistency.  MaxItems bounds the items.   *)
(***************************************************************************)
EXTENDS Integers, Sequences

CONSTANTS Capacity,  \* a power of two (the constructor's static_assert)
          WordMod,   \* 2^w, the modulus of size_t arithmetic
          Counts,    \* the counts push_bulk and pop_bulk are called with
          MaxItems

RingBufferAssumption ==
    /\ Capacity \in Nat /\ \E k \in 1..Capacity : Capacity = 2^k
    /\ WordMod \in Nat /\ WordMod > 2 * Capacity
    /\ Counts \subseteq Nat \ {0}
    /\ MaxItems \in Nat

VARIABLES
    buffer,
    read_ptr, write_ptr,
    pcount, pdone,   \* the producer is copying pcount items, pdone are done;
                     \* pcount = 0 outside push and push_bulk
    ccount, cdone,   \* the same for the consumer
    sent,            \* history: items whose push has published them
    received         \* history: what the consumer copied out, in order

vars == <<buffer, read_ptr, write_ptr, pcount, pdone, ccount, cdone,
          sent, received>>

Slots == 0..Capacity - 1
Slot(i) == i % Capacity          \* i & (Capacity - 1)
Empty == 0                       \* what make_unique<T[]> puts into the slots

Init == /\ buffer = [i \in Slots |-> Empty]
        /\ read_ptr = 0 /\ write_ptr = 0
        /\ pcount = 0 /\ pdone = 0
        /\ ccount = 0 /\ cdone = 0
        /\ sent = 0
        /\ received = <<>>

Smaller(a, b) == IF a < b THEN a ELSE b

\* The items pop has finished with.
Released == Len(received) - cdone

-------------------------------------------------------------------------------

(***************************************************************************)
(* Bugs this code could plausibly have, each in the place of one action.   *)
(***************************************************************************)

\* push does not test for a full buffer.
PushUnchecked ==
    /\ pcount = 0 /\ sent < MaxItems
    /\ pcount' = 1
    /\ UNCHANGED <<buffer, read_ptr, write_ptr, pdone, ccount, cdone,
                   sent, received>>

\* push_bulk forgets that one slot stays free.
PushBulkOneTooMany(n) ==
    /\ pcount = 0 /\ sent + n <= MaxItems
    /\ LET used == (write_ptr - read_ptr) % WordMod
       IN pcount' = Smaller(n, (Capacity - used) % WordMod)
    /\ UNCHANGED <<buffer, read_ptr, write_ptr, pdone, ccount, cdone, sent, received>>

\* pop takes a single item for none.
PopKeepsOne == /\ ccount = 0
               /\ read_ptr # write_ptr /\ Slot(read_ptr + 1) # write_ptr
               /\ ccount' = 1
               /\ UNCHANGED <<buffer, read_ptr, write_ptr, pcount, pdone, cdone,
                              sent, received>>

-------------------------------------------------------------------------------

\* push: the buffer is not full.  A push that returns false changes nothing.
Push == /\ pcount = 0 /\ sent < MaxItems
        /\ Slot(write_ptr + 1) # read_ptr
        /\ pcount' = 1
        /\ UNCHANGED <<buffer, read_ptr, write_ptr, pdone, ccount, cdone,
                       sent, received>>

\* push_bulk computes the free slots in size_t arithmetic.
PushBulk(n) ==
    /\ pcount = 0 /\ sent + n <= MaxItems
    /\ LET used == (write_ptr - read_ptr) % WordMod
           available == (Capacity - used - 1) % WordMod
       IN pcount' = Smaller(n, available)
    /\ UNCHANGED <<buffer, read_ptr, write_ptr, pdone, ccount, cdone, sent, received>>

\* One assignment to a slot.
CopyIn == /\ pdone < pcount
          /\ buffer' = [buffer EXCEPT ![Slot(write_ptr + pdone)] = sent + pdone + 1]
          /\ pdone' = pdone + 1
          /\ UNCHANGED <<read_ptr, write_ptr, pcount, ccount, cdone,
                         sent, received>>

\* write_ptr.store and return.
Publish == /\ pcount > 0 /\ pdone = pcount
           /\ write_ptr' = Slot(write_ptr + pcount)
           /\ sent' = sent + pcount
           /\ pcount' = 0 /\ pdone' = 0
           /\ UNCHANGED <<buffer, read_ptr, ccount, cdone, received>>

\* pop: the buffer is not empty.
Pop == /\ ccount = 0
       /\ read_ptr # write_ptr
       /\ ccount' = 1
       /\ UNCHANGED <<buffer, read_ptr, write_ptr, pcount, pdone, cdone,
                      sent, received>>

\* pop_bulk computes the filled slots in size_t arithmetic.
PopBulk(n) ==
    /\ ccount = 0 /\ Len(received) + n <= MaxItems
    /\ ccount' = Smaller(n, (write_ptr - read_ptr) % WordMod)
    /\ UNCHANGED <<buffer, read_ptr, write_ptr, pcount, pdone, cdone, sent, received>>

\* One assignment from a slot.
CopyOut == /\ cdone < ccount
           /\ received' = Append(received, buffer[Slot(read_ptr + cdone)])
           /\ cdone' = cdone + 1
           /\ UNCHANGED <<buffer, read_ptr, write_ptr, pcount, pdone, ccount,
                          sent>>

\* read_ptr.store and return.
Release == /\ ccount > 0 /\ cdone = ccount
           /\ read_ptr' = Slot(read_ptr + ccount)
           /\ ccount' = 0 /\ cdone' = 0
           /\ UNCHANGED <<buffer, write_ptr, pcount, pdone, sent, received>>

Copying == CopyIn \/ Publish \/ CopyOut \/ Release

Single == Push \/ Pop
Bulk(n) == PushBulk(n) \/ PopBulk(n)

\* Any mixture of calls ...
Next == Single \/ Copying \/ \E n \in Counts : Bulk(n)
Spec == Init /\ [][Next]_vars

\* ... and one that leaves out the bulk calls while write_ptr is behind read_ptr.
NextUnwrapped ==
    Single \/ Copying \/ \E n \in Counts : read_ptr <= write_ptr /\ Bulk(n)

-------------------------------------------------------------------------------

TypeOK == /\ buffer \in [Slots -> 0..MaxItems]
          /\ read_ptr \in Slots /\ write_ptr \in Slots
          /\ pcount \in Nat /\ pdone \in 0..pcount
          /\ ccount \in Nat /\ cdone \in 0..ccount
          /\ sent \in 0..MaxItems
          /\ received \in Seq(0..MaxItems)

\* The slots one side is copying are never among those the other side is: the
\* program has no data race on the array.
NoDataRace ==
    {Slot(write_ptr + i) : i \in pdone..pcount - 1} \cap
    {Slot(read_ptr + i) : i \in cdone..ccount - 1} = {}

\* "Keep one slot free" (the comment at push_bulk's available): without a free
\* slot a full buffer looks empty.
OneSlotFree == sent - Released <= Capacity - 1

\* The buffer is a queue of Capacity - 1 items: items are sent when the index
\* that covers them is published and received when their slots are released.
FIFO == INSTANCE BoundedFifo WITH
            Size     <- Capacity - 1,
            content  <- [i \in 1..sent - Released |-> buffer[Slot(read_ptr + i - 1)]],
            received <- Released

ImplementsBoundedFifo == FIFO!SafeSpec

\* ... and it can be sent to and received from again and again.
SpinsEnd == FIFO!Fairness
===============================================================================
