----------------------------- MODULE BuffersProofs -----------------------------
(***************************************************************************)
(* What module MCBuffers checks on a ring of four slots, proved for every  *)
(* capacity and for every number of items and bulk calls of every size.    *)
(***************************************************************************)
EXTENDS MCBuffers, Integers, SequenceTheorems, NaturalsInduction, WellFoundedInduction, TLAPS

(***************************************************************************)
(* The arithmetic of the indices.                                          *)
(***************************************************************************)

\* A remainder is the number itself, or the number less the modulus.
LEMMA Remainder ==
    ASSUME NEW m \in Nat \ {0}, NEW x \in 0..2 * m - 1
    PROVE  x % m = IF x < m THEN x ELSE x - m
  OBVIOUS

LEMMA Sizes ==
    /\ Capacity \in Nat \ {0} /\ WordMod \in Nat /\ WordMod > 2 * Capacity
    /\ Counts \subseteq Nat \ {0} /\ MaxItems \in Nat
  BY BuffersAssumption DEF Ring!RingBufferAssumption

\* Going round from slot r, the first Capacity slots are all different, and going on
\* from where one stopped is going on from r.
LEMMA RoundTheRing ==
    ASSUME NEW r \in 0..Capacity - 1, NEW i \in 0..Capacity - 1
    PROVE  /\ Ring!Slot(r) = r
           /\ Ring!Slot(r + i) \in 0..Capacity - 1
           /\ \A j \in 0..Capacity - 1 : Ring!Slot(r + i) = Ring!Slot(r + j) => i = j
           /\ \A j \in 0..Capacity - i : Ring!Slot(Ring!Slot(r + i) + j) = Ring!Slot(r + (i + j))
           /\ r <= Ring!Slot(r + i) => Ring!Slot(r + i) - r = i
  <1>1. Capacity \in Nat \ {0}
    BY Sizes
  <1>2. \A x \in 0..2 * Capacity - 1 :
            Ring!Slot(x) = IF x < Capacity THEN x ELSE x - Capacity
    BY <1>1, Remainder DEF Ring!Slot
  <1>3. /\ r \in 0..2 * Capacity - 1
        /\ \A j \in 0..Capacity - 1 : r + j \in 0..2 * Capacity - 1
        /\ \A j \in 0..Capacity - i : r + (i + j) \in 0..2 * Capacity - 1
    BY <1>1
  <1>4. Ring!Slot(r) = r /\ Ring!Slot(r + i) \in 0..Capacity - 1
    BY <1>1, <1>2, <1>3
  <1>5. \A j \in 0..Capacity - 1 : Ring!Slot(r + i) = Ring!Slot(r + j) => i = j
    BY <1>1, <1>2, <1>3
  <1>6. ASSUME NEW j \in 0..Capacity - i
        PROVE  Ring!Slot(Ring!Slot(r + i) + j) = Ring!Slot(r + (i + j))
    <2>1. Ring!Slot(r + i) + j \in 0..2 * Capacity - 1
      BY <1>1, <1>4
    <2>2. QED  BY <1>1, <1>2, <1>3, <2>1
  <1>7. r <= Ring!Slot(r + i) => Ring!Slot(r + i) - r = i
    BY <1>1, <1>2, <1>3
  <1>8. QED  BY <1>4, <1>5, <1>6, <1>7

(***************************************************************************)
(* The ring buffer.                                                        *)
(***************************************************************************)

\* What is published and not released.
Used == sent - Ring!Released

RingTypes ==
    /\ read_ptr \in 0..Capacity - 1 /\ write_ptr \in 0..Capacity - 1
    /\ buffer \in [0..Capacity - 1 -> Nat]
    /\ pcount \in Nat /\ pdone \in 0..pcount
    /\ ccount \in Nat /\ cdone \in 0..ccount
    /\ sent \in Nat /\ sent + pcount <= MaxItems
    /\ received \in Seq(Nat) /\ cdone <= Len(received)

\* The producer has reserved no more than what is free beyond one slot, the consumer
\* no more than what is used, and the two indices are that much apart.
RingRoom ==
    /\ Used \in Nat /\ Used + pcount <= Capacity - 1
    /\ ccount <= Used
    /\ write_ptr = Ring!Slot(read_ptr + Used)

\* The used slots hold the items after the released ones, the reserved ones those
\* after the items sent.
RingContent ==
    /\ \A i \in 0..Used - 1 : buffer[Ring!Slot(read_ptr + i)] = Ring!Released + 1 + i
    /\ \A i \in 0..pdone - 1 : buffer[Ring!Slot(write_ptr + i)] = sent + 1 + i

RingInv == RingTypes /\ RingRoom /\ RingContent

LEMMA RingInitially == Ring!Init => RingInv
  <1> SUFFICES ASSUME Ring!Init  PROVE RingInv
    OBVIOUS
  <1>1. /\ Capacity \in Nat \ {0} /\ MaxItems \in Nat
        /\ buffer = [i \in 0..Capacity - 1 |-> 0]
        /\ read_ptr = 0 /\ write_ptr = 0 /\ pcount = 0 /\ pdone = 0
        /\ ccount = 0 /\ cdone = 0 /\ sent = 0 /\ received = <<>>
    BY Sizes DEF Ring!Init, Ring!Slots, Ring!Empty
  <1>2. Len(received) = 0 /\ received \in Seq(Nat)
    BY <1>1
  <1>3. RingTypes
    BY <1>1, <1>2 DEF RingTypes
  <1>4. Ring!Released = 0 /\ Used = 0
    <2>1. Len(received) = 0 /\ cdone = 0 /\ sent = 0
      BY <1>1, <1>2
    <2>2. QED  BY ONLY <2>1 DEF Ring!Released, Used
  <1>5. Ring!Slot(0) = 0
    BY <1>1, RoundTheRing
  <1>6. QED  BY <1>1, <1>3, <1>4, <1>5 DEF RingInv, RingRoom, RingContent

\* A call reserves room or items: the slots and what was sent and released stay.
LEMMA RingReserves ==
    ASSUME RingInv,
           UNCHANGED <<buffer, read_ptr, write_ptr, pdone, cdone, sent, received>>,
           pcount' \in Nat, pdone <= pcount', sent + pcount' <= MaxItems,
           Used + pcount' <= Capacity - 1,
           ccount' \in Nat, cdone <= ccount', ccount' <= Used
    PROVE  RingInv'
  <1>1. Ring!Released' = Ring!Released /\ Used' = Used
    BY DEF Ring!Released, Used
  <1>2. \A i : Ring!Slot(i)' = Ring!Slot(i)
    BY DEF Ring!Slot
  <1>3. RingTypes'
    BY DEF RingInv, RingTypes
  <1>4. RingRoom'
    BY <1>1 DEF RingInv, RingRoom, Ring!Slot
  <1>5. RingContent'
    BY <1>1 DEF RingInv, RingContent, Ring!Slot
  <1>6. QED  BY <1>3, <1>4, <1>5 DEF RingInv

\* Where the indices are not wrapped, their difference is what is used.
LEMMA Unwrapped ==
    ASSUME RingInv, read_ptr <= write_ptr
    PROVE  (write_ptr - read_ptr) % WordMod = Used
           /\ (Capacity - Used - 1) % WordMod = Capacity - 1 - Used
  <1>1. Capacity \in Nat \ {0} /\ WordMod \in Nat /\ WordMod > 2 * Capacity
    BY Sizes
  <1>2. Used \in 0..Capacity - 1 /\ read_ptr \in 0..Capacity - 1
        /\ write_ptr = Ring!Slot(read_ptr + Used)
    BY <1>1 DEF RingInv, RingTypes, RingRoom
  <1>3. write_ptr - read_ptr = Used
    BY <1>2, RoundTheRing
  <1>4. Used % WordMod = Used
    <2>1. WordMod \in Nat \ {0} /\ Used \in 0..2 * WordMod - 1 /\ Used < WordMod
      BY <1>1, <1>2
    <2>2. QED  BY <2>1, Remainder
  <1>5. (Capacity - Used - 1) % WordMod = Capacity - 1 - Used
    <2>1. Capacity - Used - 1 \in 0..2 * WordMod - 1 /\ Capacity - Used - 1 < WordMod
          /\ Capacity - Used - 1 = Capacity - 1 - Used /\ WordMod \in Nat \ {0}
      BY <1>1, <1>2
    <2>2. QED  BY <2>1, Remainder
  <1>6. QED  BY <1>3, <1>4, <1>5

LEMMA RingPush == RingInv /\ Ring!Push => RingInv'
  <1> SUFFICES ASSUME RingInv, Ring!Push  PROVE RingInv'
    OBVIOUS
  <1>1. /\ pcount = 0 /\ pcount' = 1 /\ sent < MaxItems
        /\ Ring!Slot(write_ptr + 1) # read_ptr
        /\ UNCHANGED <<buffer, read_ptr, write_ptr, pdone, ccount, cdone, sent, received>>
    BY DEF Ring!Push
  <1>2. RingTypes /\ RingRoom /\ Capacity \in Nat \ {0} /\ MaxItems \in Nat
    BY Sizes DEF RingInv
  <1>3. Used # Capacity - 1
    <2> SUFFICES ASSUME Used = Capacity - 1  PROVE FALSE
      OBVIOUS
    <2>1. read_ptr \in 0..Capacity - 1 /\ Used \in 0..Capacity - 1 /\ 1 \in 0..Capacity - Used
          /\ write_ptr = Ring!Slot(read_ptr + Used)
      BY <1>2 DEF RingTypes, RingRoom
    <2>2. Ring!Slot(write_ptr + 1) = Ring!Slot(read_ptr + (Used + 1))
      BY <2>1, RoundTheRing
    <2>3. Ring!Slot(read_ptr + (Used + 1)) = read_ptr
      <3>1. read_ptr + (Used + 1) = read_ptr + Capacity /\ read_ptr + Capacity \in 0..2 * Capacity - 1
        BY <1>2, <2>1
      <3>2. QED  BY <1>2, <2>1, <3>1, Remainder DEF Ring!Slot
    <2>4. QED  BY <1>1, <2>2, <2>3
  <1>4. QED  BY <1>1, <1>2, <1>3, RingReserves DEF RingTypes, RingRoom

LEMMA RingPushBulk ==
    ASSUME RingInv, NEW n \in Counts, read_ptr <= write_ptr, Ring!PushBulk(n)
    PROVE  RingInv'
  <1>1. /\ pcount = 0 /\ sent + n <= MaxItems /\ n \in Nat
        /\ pcount' = Ring!Smaller(n, Capacity - 1 - Used)
        /\ UNCHANGED <<buffer, read_ptr, write_ptr, pdone, ccount, cdone, sent, received>>
    BY Unwrapped, Sizes DEF Ring!PushBulk
  <1>2. RingTypes /\ RingRoom /\ Capacity \in Nat \ {0} /\ MaxItems \in Nat
    BY Sizes DEF RingInv
  <1>3. /\ pcount' \in Nat /\ pcount' <= n /\ pcount' <= Capacity - 1 - Used
        /\ pdone = 0
    BY <1>1, <1>2 DEF Ring!Smaller, RingTypes, RingRoom
  <1>4. QED  BY <1>1, <1>2, <1>3, RingReserves, SMTT(30) DEF RingTypes, RingRoom

LEMMA RingPop == RingInv /\ Ring!Pop => RingInv'
  <1> SUFFICES ASSUME RingInv, Ring!Pop  PROVE RingInv'
    OBVIOUS
  <1>1. /\ ccount = 0 /\ ccount' = 1 /\ read_ptr # write_ptr
        /\ UNCHANGED <<buffer, read_ptr, write_ptr, pcount, pdone, cdone, sent, received>>
    BY DEF Ring!Pop
  <1>2. RingTypes /\ RingRoom
    BY DEF RingInv
  <1>3. Used # 0
    BY <1>1, <1>2, RoundTheRing DEF RingTypes, RingRoom
  <1>4. QED  BY <1>1, <1>2, <1>3, RingReserves DEF RingTypes, RingRoom

LEMMA RingPopBulk ==
    ASSUME RingInv, NEW n \in Counts, read_ptr <= write_ptr, Ring!PopBulk(n)
    PROVE  RingInv'
  <1>1. /\ ccount = 0 /\ n \in Nat /\ ccount' = Ring!Smaller(n, Used)
        /\ UNCHANGED <<buffer, read_ptr, write_ptr, pcount, pdone, cdone, sent, received>>
    BY Unwrapped, Sizes DEF Ring!PopBulk
  <1>2. RingTypes /\ RingRoom
    BY DEF RingInv
  <1>3. ccount' \in Nat /\ ccount' <= Used /\ cdone = 0
    BY <1>1, <1>2 DEF Ring!Smaller, RingTypes, RingRoom
  <1>4. QED  BY <1>1, <1>2, <1>3, RingReserves DEF RingTypes, RingRoom

\* A copy to a reserved slot does not touch the used slots or those already written.
LEMMA RingCopyIn == RingInv /\ Ring!CopyIn => RingInv'
  <1> SUFFICES ASSUME RingInv, Ring!CopyIn  PROVE RingInv'
    OBVIOUS
  <1>1. /\ pdone < pcount /\ pdone' = pdone + 1
        /\ buffer' = [buffer EXCEPT ![Ring!Slot(write_ptr + pdone)] = sent + pdone + 1]
        /\ UNCHANGED <<read_ptr, write_ptr, pcount, ccount, cdone, sent, received>>
    BY DEF Ring!CopyIn
  <1>2. RingTypes /\ RingRoom /\ RingContent /\ Capacity \in Nat \ {0}
    BY Sizes DEF RingInv
  <1>3. /\ Ring!Released' = Ring!Released /\ Used' = Used
        /\ \A i : Ring!Slot(i)' = Ring!Slot(i)
    BY <1>1 DEF Ring!Released, Used, Ring!Slot
  <1>4. /\ pdone \in 0..Capacity - 1 /\ write_ptr \in 0..Capacity - 1
        /\ read_ptr \in 0..Capacity - 1 /\ Used \in 0..Capacity - 1
        /\ pdone + 1 <= Capacity - 1 /\ Used + pdone \in 0..Capacity - 1
        /\ write_ptr = Ring!Slot(read_ptr + Used)
    BY <1>1, <1>2 DEF RingTypes, RingRoom
  <1>5. Ring!Slot(write_ptr + pdone) \in 0..Capacity - 1
    BY <1>4, RoundTheRing
  <1>6. RingTypes'
    <2>1. buffer' \in [0..Capacity - 1 -> Nat]
      BY <1>1, <1>2, <1>5 DEF RingTypes
    <2>2. QED  BY <1>1, <1>2, <2>1 DEF RingTypes
  <1>7. RingRoom'
    BY <1>1, <1>2, <1>3 DEF RingRoom, Ring!Slot
  <1>8. ASSUME NEW i \in 0..Used - 1
        PROVE  buffer'[Ring!Slot(read_ptr + i)] = buffer[Ring!Slot(read_ptr + i)]
    <2>1. i \in 0..Capacity - 1 /\ i # Used + pdone
      BY <1>2, <1>4
    <2>2. Ring!Slot(write_ptr + pdone) = Ring!Slot(read_ptr + (Used + pdone))
      <3>1. pdone \in 0..Capacity - Used
        BY <1>2, <1>4
      <3>2. QED  BY <1>4, <3>1, RoundTheRing
    <2>3. Ring!Slot(read_ptr + i) # Ring!Slot(write_ptr + pdone)
      BY <1>4, <2>1, <2>2, RoundTheRing
    <2>4. QED  BY <1>1, <1>2, <1>4, <2>1, <2>3, RoundTheRing DEF RingTypes
  <1>9. ASSUME NEW i \in 0..pdone
        PROVE  buffer'[Ring!Slot(write_ptr + i)] = sent + 1 + i
    <2>1. i \in 0..Capacity - 1
      BY <1>2, <1>4
    <2>2. CASE i = pdone
      <3>1. sent \in Nat /\ sent + pdone + 1 = sent + 1 + pdone
        BY <1>2, <1>4 DEF RingTypes
      <3>2. buffer'[Ring!Slot(write_ptr + pdone)] = sent + pdone + 1
        BY <1>1, <1>2, <1>5 DEF RingTypes
      <3>3. QED  BY <2>2, <3>1, <3>2
    <2>3. CASE i # pdone
      <3>1. Ring!Slot(write_ptr + i) # Ring!Slot(write_ptr + pdone)
        BY <1>4, <2>1, <2>3, RoundTheRing
      <3>2. Ring!Slot(write_ptr + i) \in 0..Capacity - 1
        BY <1>4, <2>1, RoundTheRing
      <3>3. i \in 0..pdone - 1
        BY <1>4, <2>3
      <3>4. QED  BY <1>1, <1>2, <3>1, <3>2, <3>3 DEF RingTypes, RingContent
    <2>4. QED  BY <2>2, <2>3
  <1>10. RingContent'
    <2>1. \A i \in 0..Used - 1 :
              buffer'[Ring!Slot(read_ptr + i)] = Ring!Released + 1 + i
      BY <1>2, <1>8 DEF RingContent
    <2>2. 0..pdone' - 1 = 0..pdone
      BY <1>1, <1>4
    <2>3. QED  BY <1>1, <1>3, <1>9, <2>1, <2>2 DEF RingContent, Ring!Slot
  <1>11. QED  BY <1>6, <1>7, <1>10 DEF RingInv

\* The reserved slots become used ones.
LEMMA RingPublish == RingInv /\ Ring!Publish => RingInv'
  <1> SUFFICES ASSUME RingInv, Ring!Publish  PROVE RingInv'
    OBVIOUS
  <1>1. /\ pcount > 0 /\ pdone = pcount /\ pcount' = 0 /\ pdone' = 0
        /\ write_ptr' = Ring!Slot(write_ptr + pcount)
        /\ sent' = sent + pcount
        /\ UNCHANGED <<buffer, read_ptr, ccount, cdone, received>>
    BY DEF Ring!Publish
  <1>2. RingTypes /\ RingRoom /\ RingContent /\ Capacity \in Nat \ {0}
    BY Sizes DEF RingInv
  <1>3. /\ Ring!Released' = Ring!Released /\ Ring!Released \in Nat
        /\ Ring!Released = sent - Used
        /\ Used' = Used + pcount
    <2>1. Ring!Released' = Ring!Released
      BY <1>1 DEF Ring!Released
    <2>2. Ring!Released \in Nat
      <3>1. Len(received) \in Nat /\ cdone \in Nat /\ cdone <= Len(received)
        BY <1>2 DEF RingTypes
      <3>2. QED  BY <3>1 DEF Ring!Released
    <2>3. QED  BY <1>1, <1>2, <2>1, <2>2 DEF Used, RingTypes
  <1>4. /\ pcount \in 0..Capacity - Used /\ write_ptr \in 0..Capacity - 1
        /\ read_ptr \in 0..Capacity - 1 /\ Used \in 0..Capacity - 1
        /\ pcount \in 0..Capacity - 1 /\ Used + pcount \in 0..Capacity - 1
        /\ write_ptr = Ring!Slot(read_ptr + Used) /\ sent \in Nat
    BY <1>1, <1>2 DEF RingTypes, RingRoom
  <1>5. /\ write_ptr' \in 0..Capacity - 1
        /\ write_ptr' = Ring!Slot(read_ptr + (Used + pcount))
    BY <1>1, <1>4, RoundTheRing
  <1>6. RingTypes'
    BY <1>1, <1>2, <1>5 DEF RingTypes
  <1>7. RingRoom'
    <2>1. /\ Used' \in Nat /\ Used' + pcount' <= Capacity - 1 /\ ccount' <= Used'
      BY <1>1, <1>2, <1>3, <1>4 DEF RingRoom, RingTypes
    <2>2. write_ptr' = Ring!Slot(read_ptr' + Used')
      BY <1>1, <1>3, <1>5
    <2>3. QED  BY <2>1, <2>2 DEF RingRoom, Ring!Slot
  <1>8. ASSUME NEW i \in 0..(Used + pcount) - 1
        PROVE  buffer[Ring!Slot(read_ptr + i)] = Ring!Released + 1 + i
    <2>1. CASE i < Used
      <3>1. i \in 0..Used - 1
        BY <1>4, <2>1
      <3>2. QED  BY <1>2, <3>1 DEF RingContent
    <2>2. CASE i >= Used
      <3>1. i - Used \in 0..pdone - 1 /\ i - Used \in 0..Capacity - Used /\ i = Used + (i - Used)
        BY <1>1, <1>2, <1>4, <2>2
      <3>2. Ring!Slot(write_ptr + (i - Used)) = Ring!Slot(read_ptr + i)
        BY <1>4, <3>1, RoundTheRing
      <3>3. buffer[Ring!Slot(write_ptr + (i - Used))] = sent + 1 + (i - Used)
        BY <1>2, <3>1 DEF RingContent
      <3>4. sent + 1 + (i - Used) = Ring!Released + 1 + i
        BY <1>3, <1>4
      <3>5. QED  BY <3>2, <3>3, <3>4
    <2>3. QED  BY <1>4, <2>1, <2>2
  <1>9. RingContent'
    <2>1. 0..pdone' - 1 = {} /\ 0..Used' - 1 = 0..(Used + pcount) - 1
      BY <1>1, <1>3
    <2>2. QED  BY <1>1, <1>3, <1>8, <2>1 DEF RingContent, Ring!Slot
  <1>10. QED  BY <1>6, <1>7, <1>9 DEF RingInv

\* What the consumer copies out is the next item.
LEMMA RingCopyOut == RingInv /\ Ring!CopyOut => RingInv'
  <1> SUFFICES ASSUME RingInv, Ring!CopyOut  PROVE RingInv'
    OBVIOUS
  <1>1. /\ cdone < ccount /\ cdone' = cdone + 1
        /\ received' = Append(received, buffer[Ring!Slot(read_ptr + cdone)])
        /\ UNCHANGED <<buffer, read_ptr, write_ptr, pcount, pdone, ccount, sent>>
    BY DEF Ring!CopyOut
  <1>2. RingTypes /\ RingRoom /\ RingContent /\ Capacity \in Nat \ {0}
    BY Sizes DEF RingInv
  <1>3. cdone \in 0..Capacity - 1 /\ read_ptr \in 0..Capacity - 1
    BY <1>1, <1>2 DEF RingTypes, RingRoom
  <1>4. buffer[Ring!Slot(read_ptr + cdone)] \in Nat
    BY <1>2, <1>3, RoundTheRing DEF RingTypes
  <1>5. /\ received' \in Seq(Nat) /\ Len(received') = Len(received) + 1
        /\ Len(received) \in Nat
    BY <1>1, <1>2, <1>4 DEF RingTypes
  <1>6. Ring!Released' = Ring!Released /\ Used' = Used
    BY <1>1, <1>2, <1>5 DEF RingTypes, Ring!Released, Used
  <1>7. RingTypes'
    BY <1>1, <1>2, <1>5 DEF RingTypes
  <1>8. RingRoom'
    BY <1>1, <1>2, <1>6 DEF RingRoom, Ring!Slot
  <1>9. RingContent'
    BY <1>1, <1>2, <1>6 DEF RingContent, Ring!Slot
  <1>10. QED  BY <1>7, <1>8, <1>9 DEF RingInv

\* The released slots are free again.
LEMMA RingRelease == RingInv /\ Ring!Release => RingInv'
  <1> SUFFICES ASSUME RingInv, Ring!Release  PROVE RingInv'
    OBVIOUS
  <1>1. /\ ccount > 0 /\ cdone = ccount /\ ccount' = 0 /\ cdone' = 0
        /\ read_ptr' = Ring!Slot(read_ptr + ccount)
        /\ UNCHANGED <<buffer, write_ptr, pcount, pdone, sent, received>>
    BY DEF Ring!Release
  <1>2. RingTypes /\ RingRoom /\ RingContent /\ Capacity \in Nat \ {0}
    BY Sizes DEF RingInv
  <1>3. /\ Ring!Released' = Ring!Released + ccount /\ Ring!Released \in Nat
        /\ Used' = Used - ccount
    <2>1. Len(received) \in Nat /\ cdone \in Nat /\ cdone <= Len(received) /\ sent \in Nat
      BY <1>2 DEF RingTypes
    <2>2. QED  BY <1>1, <2>1 DEF Ring!Released, Used
  <1>4. /\ ccount \in 0..Capacity - 1 /\ read_ptr \in 0..Capacity - 1
        /\ Used \in 0..Capacity - 1 /\ ccount <= Used
        /\ write_ptr = Ring!Slot(read_ptr + Used)
    BY <1>1, <1>2 DEF RingTypes, RingRoom
  <1>5. \A j \in 0..Used - ccount :
            Ring!Slot(read_ptr' + j) = Ring!Slot(read_ptr + (ccount + j))
    <2>1. \A j \in 0..Used - ccount : j \in 0..Capacity - ccount
      BY <1>2, <1>4
    <2>2. QED  BY <1>1, <1>4, <2>1, RoundTheRing
  <1>6. RingTypes'
    <2>1. read_ptr' \in 0..Capacity - 1
      BY <1>1, <1>4, RoundTheRing
    <2>2. QED  BY <1>1, <1>2, <2>1 DEF RingTypes
  <1>7. RingRoom'
    <2>1. Used - ccount \in 0..Used - ccount /\ ccount + (Used - ccount) = Used
      BY <1>4
    <2>2. write_ptr = Ring!Slot(read_ptr' + (Used - ccount))
      BY <1>4, <1>5, <2>1
    <2>3. Used' \in Nat /\ Used' + pcount' <= Capacity - 1 /\ ccount' <= Used'
      BY <1>1, <1>2, <1>3, <1>4 DEF RingRoom, RingTypes
    <2>4. write_ptr' = Ring!Slot(read_ptr' + Used')
      BY <1>1, <1>3, <2>2
    <2>5. QED  BY <2>3, <2>4 DEF RingRoom, Ring!Slot
  <1>8. RingContent'
    <2>1. ASSUME NEW i \in 0..(Used - ccount) - 1
          PROVE  buffer[Ring!Slot(read_ptr' + i)] = (Ring!Released + ccount) + 1 + i
      <3>1. i \in 0..Used - ccount /\ ccount + i \in 0..Used - 1
        BY <1>4
      <3>2. buffer[Ring!Slot(read_ptr + (ccount + i))] = Ring!Released + 1 + (ccount + i)
        BY <1>2, <3>1 DEF RingContent
      <3>3. Ring!Released + 1 + (ccount + i) = (Ring!Released + ccount) + 1 + i
        BY <1>3, <1>4, <3>1
      <3>4. QED  BY <1>5, <3>1, <3>2, <3>3
    <2>2. QED  BY <1>1, <1>2, <1>3, <2>1 DEF RingContent, Ring!Slot
  <1>9. QED  BY <1>6, <1>7, <1>8 DEF RingInv

LEMMA RingStep == RingInv /\ [Ring!NextUnwrapped]_ringVars => RingInv'
  <1> SUFFICES ASSUME RingInv, [Ring!NextUnwrapped]_ringVars  PROVE RingInv'
    OBVIOUS
  <1>1. CASE Ring!Push
    BY <1>1, RingPush
  <1>2. CASE Ring!Pop
    BY <1>2, RingPop
  <1>3. CASE Ring!CopyIn
    BY <1>3, RingCopyIn
  <1>4. CASE Ring!Publish
    BY <1>4, RingPublish
  <1>5. CASE Ring!CopyOut
    BY <1>5, RingCopyOut
  <1>6. CASE Ring!Release
    BY <1>6, RingRelease
  <1>7. ASSUME NEW n \in Counts, read_ptr <= write_ptr, Ring!Bulk(n)
        PROVE  RingInv'
    <2>1. CASE Ring!PushBulk(n)
      BY <1>7, <2>1, RingPushBulk
    <2>2. CASE Ring!PopBulk(n)
      BY <1>7, <2>2, RingPopBulk
    <2>3. QED  BY <1>7, <2>1, <2>2 DEF Ring!Bulk
  <1>8. CASE UNCHANGED ringVars
    BY <1>8 DEF ringVars, RingInv, RingTypes, RingRoom, RingContent, Used, Ring!Released, Ring!Slot
  <1>9. QED  BY <1>1, <1>2, <1>3, <1>4, <1>5, <1>6, <1>7, <1>8
             DEF Ring!NextUnwrapped, Ring!Single, Ring!Copying

-------------------------------------------------------------------------------

(***************************************************************************)
(* The ring is a bounded queue.  Its content is the items from the one     *)
(* after the last released to the last sent; publishing an index sends,    *)
(* storing the other one receives, every other step stutters.              *)
(***************************************************************************)

Content == [i \in 1..sent - Ring!Released |-> buffer[Ring!Slot(read_ptr + i - 1)]]

\* The items from the one after a to the b-th.
Items(a, b) == [i \in 1..b - a |-> a + i]

\* The n items after b.
Following(b, n) == [i \in 1..n |-> b + i]

LEMMA ContentIsItems ==
    ASSUME RingInv
    PROVE  /\ Content = Items(Ring!Released, sent)
           /\ Ring!Released \in Nat /\ sent \in Nat /\ Ring!Released <= sent
           /\ Capacity \in Nat \ {0} /\ sent - Ring!Released <= Capacity - 1
  <1>1. RingTypes /\ RingRoom /\ RingContent /\ Capacity \in Nat \ {0}
    BY Sizes DEF RingInv
  <1>2. Ring!Released \in Nat
    <2>1. Len(received) \in Nat /\ cdone \in Nat /\ cdone <= Len(received)
      BY <1>1 DEF RingTypes
    <2>2. QED  BY <2>1 DEF Ring!Released
  <1>3. sent \in Nat /\ read_ptr \in Nat /\ Used = sent - Ring!Released
    BY <1>1 DEF RingTypes, Used
  <1>4. Ring!Released <= sent /\ sent - Ring!Released <= Capacity - 1
    <2>1. Used \in Nat /\ Used <= Capacity - 1
      BY <1>1 DEF RingRoom, RingTypes
    <2>2. QED  BY <1>2, <1>3, <2>1
  <1>5. ASSUME NEW i \in 1..sent - Ring!Released
        PROVE  buffer[Ring!Slot(read_ptr + i - 1)] = Ring!Released + i
    <2>1. i - 1 \in 0..Used - 1 /\ read_ptr + (i - 1) = read_ptr + i - 1
          /\ Ring!Released + 1 + (i - 1) = Ring!Released + i
      BY <1>2, <1>3
    <2>2. buffer[Ring!Slot(read_ptr + (i - 1))] = Ring!Released + 1 + (i - 1)
      BY <1>1, <2>1 DEF RingContent
    <2>3. QED  BY <2>1, <2>2
  <1>6. Content = Items(Ring!Released, sent)
    BY <1>5 DEF Content, Items
  <1>7. QED  BY <1>1, <1>2, <1>3, <1>4, <1>6

LEMMA ItemsFollow ==
    ASSUME NEW a \in Nat, NEW b \in Nat, a <= b, NEW n \in Nat
    PROVE  /\ Items(a, b) \in Seq(Nat) /\ Len(Items(a, b)) = b - a
           /\ Items(a, b) \o Following(b, n) = Items(a, b + n)
           /\ n <= b - a => /\ SubSeq(Items(a, b), 1, n) = Following(a, n)
                            /\ SubSeq(Items(a, b), n + 1, b - a) = Items(a + n, b)
  <1>1. b - a \in Nat /\ \A i \in 1..b - a : a + i \in Nat
    OBVIOUS
  <1>2. Items(a, b) \in Seq(Nat) /\ Len(Items(a, b)) = b - a
        /\ \A i \in 1..b - a : Items(a, b)[i] = a + i
    BY <1>1 DEF Items
  <1> DEFINE more == Following(b, n)
             all == Items(a, b) \o more
  <1>3. more \in Seq(Nat) /\ Len(more) = n /\ \A i \in 1..n : more[i] = b + i
    BY DEF Following
  <1> HIDE DEF more
  <1>4. /\ all \in Seq(Nat) /\ Len(all) = (b - a) + n
        /\ \A i \in 1..(b - a) + n :
               all[i] = IF i <= b - a THEN Items(a, b)[i] ELSE more[i - (b - a)]
    <2>1. Items(a, b) \in Seq(Nat) /\ more \in Seq(Nat)
      BY <1>2, <1>3
    <2>2. /\ all \in Seq(Nat) /\ Len(all) = Len(Items(a, b)) + Len(more)
          /\ \A i \in 1..Len(Items(a, b)) + Len(more) :
                 all[i] = IF i <= Len(Items(a, b)) THEN Items(a, b)[i]
                          ELSE more[i - Len(Items(a, b))]
      BY ONLY <2>1, ConcatProperties
    <2>3. QED  BY <1>2, <1>3, <2>2
  <1> HIDE DEF all
  <1>5. all = Items(a, b + n)
    <2>1. (b + n) - a = (b - a) + n
      BY <1>1
    <2>2. \A i \in 1..(b - a) + n :
             (IF i <= b - a THEN Items(a, b)[i] ELSE more[i - (b - a)]) = a + i
      BY <1>1, <1>2, <1>3
    <2>3. all = [i \in 1..(b - a) + n |-> all[i]]
      BY <1>4
    <2>4. QED  BY <1>4, <2>1, <2>2, <2>3 DEF Items
  <1>6. ASSUME n <= b - a
        PROVE  /\ SubSeq(Items(a, b), 1, n) = Following(a, n)
               /\ SubSeq(Items(a, b), n + 1, b - a) = Items(a + n, b)
    <2>1. SubSeq(Items(a, b), 1, n) = [i \in 1..n |-> Items(a, b)[i]]
      BY <1>1, <1>2, <1>6
    <2>2. \A i \in 1..n : Items(a, b)[i] = a + i
      BY <1>1, <1>2, <1>6
    <2>3. SubSeq(Items(a, b), n + 1, b - a) = [i \in 1..(b - a) - n |-> Items(a, b)[i + n]]
      BY <1>1, <1>2, <1>6
    <2>4. /\ b - (a + n) = (b - a) - n
          /\ \A i \in 1..(b - a) - n : Items(a, b)[i + n] = (a + n) + i
      BY <1>1, <1>2, <1>6
    <2>5. QED  BY <2>1, <2>2, <2>3, <2>4 DEF Items, Following
  <1>7. QED  BY <1>2, <1>5, <1>6 DEF all, more

\* The same after a step.
LEMMA ContentIsItemsAfter == RingInv' => Content' = Items(Ring!Released', sent')
  <1>1. RingInv => Content = Items(Ring!Released, sent)
    BY ContentIsItems
  <1>2. RingInv' => (Content = Items(Ring!Released, sent))'
    BY <1>1, PTL
  <1>3. QED  BY <1>2 DEF Items

LEMMA FifoInitially == Ring!Init => Ring!FIFO!Init
  <1> SUFFICES ASSUME Ring!Init  PROVE Ring!FIFO!Init
    OBVIOUS
  <1>1. RingInv /\ sent = 0 /\ received = <<>> /\ cdone = 0
    BY RingInitially DEF Ring!Init
  <1>2. Len(received) = 0
    BY <1>1
  <1>3. Ring!Released = 0
    BY ONLY <1>1, <1>2 DEF Ring!Released
  <1>4. Content = <<>>
    <2>1. Content = Items(0, 0)
      BY <1>1, <1>3, ContentIsItems
    <2>2. QED  BY <2>1 DEF Items
  <1>5. QED  BY <1>1, <1>3, <1>4 DEF Ring!FIFO!Init, Content

LEMMA FifoPublish == RingInv /\ Ring!Publish => Ring!FIFO!Next
  <1> SUFFICES ASSUME RingInv, Ring!Publish  PROVE Ring!FIFO!Next
    OBVIOUS
  <1>1. RingInv'
    BY RingPublish
  <1>2. /\ pcount > 0 /\ sent' = sent + pcount
        /\ UNCHANGED <<received, cdone>>
    BY DEF Ring!Publish
  <1>3. /\ pcount \in Nat /\ sent + pcount <= MaxItems /\ Used \in Nat
        /\ Used + pcount <= Capacity - 1
    BY DEF RingInv, RingTypes, RingRoom
  <1>4. Ring!Released' = Ring!Released
    BY <1>2 DEF Ring!Released
  <1>5. /\ Content = Items(Ring!Released, sent)
        /\ Ring!Released \in Nat /\ sent \in Nat /\ Ring!Released <= sent
        /\ Capacity \in Nat \ {0}
    BY ContentIsItems
  <1>6. Content' = Items(Ring!Released, sent + pcount)
    <2>1. Content' = Items(Ring!Released', sent')
      BY <1>1, ContentIsItemsAfter
    <2>2. QED  BY <1>2, <1>4, <2>1
  <1>7. /\ Content' = Content \o [i \in 1..pcount |-> sent + i]
        /\ Len(Content) = sent - Ring!Released
    <2>1. /\ Ring!Released \in Nat /\ sent \in Nat /\ pcount \in Nat
          /\ Ring!Released <= sent
      BY <1>3, <1>5
    <2>2. Len(Items(Ring!Released, sent)) = sent - Ring!Released
      BY ONLY <2>1, ItemsFollow, ZenonT(30)
    <2>3. Items(Ring!Released, sent) \o Following(sent, pcount)
              = Items(Ring!Released, sent + pcount)
      BY ONLY <2>1, ItemsFollow, ZenonT(30)
    <2>4. QED  BY <1>5, <1>6, <2>2, <2>3 DEF Following
  <1>8. Len(Content) + pcount <= Capacity - 1
    BY <1>3, <1>5, <1>7 DEF Used
  <1>9. pcount \in 1..Capacity - 1
    BY <1>2, <1>3, <1>5
  <1>10. Ring!FIFO!Send(pcount)
    BY <1>2, <1>3, <1>4, <1>7, <1>8 DEF Ring!FIFO!Send, Content
  <1>11. QED  BY <1>9, <1>10 DEF Ring!FIFO!Next

LEMMA FifoRelease == RingInv /\ Ring!Release => Ring!FIFO!Next
  <1> SUFFICES ASSUME RingInv, Ring!Release  PROVE Ring!FIFO!Next
    OBVIOUS
  <1>1. RingInv'
    BY RingRelease
  <1>2. /\ ccount > 0 /\ cdone = ccount /\ cdone' = 0
        /\ UNCHANGED <<received, sent>>
    BY DEF Ring!Release
  <1>3. /\ ccount \in Nat /\ ccount <= Used /\ Len(received) \in Nat
    BY DEF RingInv, RingTypes, RingRoom
  <1>4. Ring!Released' = Ring!Released + ccount
    BY <1>2, <1>3 DEF Ring!Released
  <1>5. /\ Content = Items(Ring!Released, sent)
        /\ Ring!Released \in Nat /\ sent \in Nat /\ Ring!Released <= sent
        /\ Capacity \in Nat \ {0} /\ sent - Ring!Released <= Capacity - 1
    BY ContentIsItems
  <1>6. Content' = Items(Ring!Released + ccount, sent)
    <2>1. Content' = Items(Ring!Released', sent')
      BY <1>1, ContentIsItemsAfter
    <2>2. QED  BY <1>2, <1>4, <2>1
  <1>7. ccount <= sent - Ring!Released
    BY <1>3 DEF Used
  <1>8. /\ Len(Content) = sent - Ring!Released
        /\ SubSeq(Content, 1, ccount) = [i \in 1..ccount |-> Ring!Released + i]
        /\ SubSeq(Content, ccount + 1, sent - Ring!Released) = Items(Ring!Released + ccount, sent)
    <2>1. \A a, b, n \in Nat : a <= b /\ n <= b - a =>
              /\ Len(Items(a, b)) = b - a
              /\ SubSeq(Items(a, b), 1, n) = Following(a, n)
              /\ SubSeq(Items(a, b), n + 1, b - a) = Items(a + n, b)
      BY ItemsFollow
    <2>2. /\ Len(Items(Ring!Released, sent)) = sent - Ring!Released
          /\ SubSeq(Items(Ring!Released, sent), 1, ccount) = Following(Ring!Released, ccount)
          /\ SubSeq(Items(Ring!Released, sent), ccount + 1, sent - Ring!Released)
                = Items(Ring!Released + ccount, sent)
      BY ONLY <1>3, <1>5, <1>7, <2>1
    <2>3. QED  BY <1>5, <2>2 DEF Following
  <1>9. Content' = SubSeq(Content, ccount + 1, Len(Content))
    BY <1>6, <1>8
  <1>10. ccount \in 1..Capacity - 1
    BY <1>2, <1>3, <1>5, <1>7
  <1>11. Ring!FIFO!Receive(ccount)
    BY <1>2, <1>4, <1>7, <1>8, <1>9 DEF Ring!FIFO!Receive, Content
  <1>12. QED  BY <1>10, <1>11 DEF Ring!FIFO!Next

\* A step that stores no index changes nothing of the queue.
LEMMA FifoStutter ==
    ASSUME RingInv, RingInv', sent' = sent, Ring!Released' = Ring!Released
    PROVE  UNCHANGED Ring!FIFO!vars
  <1>1. Content = Items(Ring!Released, sent)
    BY ContentIsItems
  <1>2. Content' = Items(Ring!Released', sent')
    BY ContentIsItemsAfter
  <1>3. Content' = Content
    BY <1>1, <1>2
  <1>4. QED  BY <1>3 DEF Ring!FIFO!vars, Content

LEMMA FifoStep ==
    RingInv /\ [Ring!NextUnwrapped]_ringVars => [Ring!FIFO!Next]_(Ring!FIFO!vars)
  <1> SUFFICES ASSUME RingInv, [Ring!NextUnwrapped]_ringVars
               PROVE  [Ring!FIFO!Next]_(Ring!FIFO!vars)
    OBVIOUS
  <1>1. RingInv'
    BY RingStep
  <1>2. CASE Ring!Publish
    BY <1>2, FifoPublish
  <1>3. CASE Ring!Release
    BY <1>3, FifoRelease
  <1>4. CASE Ring!CopyOut
    <2>1. /\ sent' = sent /\ cdone' = cdone + 1
          /\ received' = Append(received, buffer[Ring!Slot(read_ptr + cdone)])
      BY <1>4 DEF Ring!CopyOut
    <2>2. received \in Seq(Nat) /\ received' \in Seq(Nat) /\ cdone \in Nat
      BY <1>1 DEF RingInv, RingTypes
    <2>3. Len(received') = Len(received) + 1 /\ Len(received) \in Nat
      BY <2>1, <2>2
    <2>4. Ring!Released' = Ring!Released
      BY <2>1, <2>2, <2>3 DEF Ring!Released
    <2>5. QED  BY <1>1, <2>1, <2>4, FifoStutter
  <1>5. CASE UNCHANGED <<sent, received, cdone>>
    <2>1. Ring!Released' = Ring!Released
      BY <1>5 DEF Ring!Released
    <2>2. QED  BY <1>1, <1>5, <2>1, FifoStutter
  <1>6. Ring!Push \/ Ring!Pop \/ Ring!CopyIn \/ (\E n \in Counts : Ring!Bulk(n))
            \/ UNCHANGED ringVars => UNCHANGED <<sent, received, cdone>>
    BY DEF Ring!Push, Ring!Pop, Ring!CopyIn, Ring!Bulk, Ring!PushBulk, Ring!PopBulk, ringVars
  <1>7. QED  BY <1>2, <1>3, <1>4, <1>5, <1>6
             DEF Ring!NextUnwrapped, Ring!Single, Ring!Copying

-------------------------------------------------------------------------------

\* The inductive invariant of the ring while bulk calls are made unwrapped only.
THEOREM RingInvariant == BuffersSpec => []RingInv
  <1>1. BuffersInit => RingInv
    BY RingInitially DEF BuffersInit
  <1>2. [BuffersNext]_buffersVars => [Ring!NextUnwrapped]_ringVars
    BY DEF BuffersNext, buffersVars, exceptLogger, exceptBatch, exceptRotator, exceptFrames
  <1>3. RingInv /\ [BuffersNext]_buffersVars => RingInv'
    BY <1>2, RingStep
  <1>4. QED  BY <1>1, <1>3, PTL DEF BuffersSpec

\* Producer and consumer never copy the same slot: the array of ring_buffer.cpp is
\* free of data races though nobody holds a lock, while bulk calls are made unwrapped.
THEOREM NoSlotIsShared == BuffersSpec => []NoDataRace
  <1>1. RingInv => NoDataRace
    <2> SUFFICES ASSUME RingInv, NEW i \in pdone..pcount - 1, NEW j \in cdone..ccount - 1
                 PROVE  Ring!Slot(write_ptr + i) # Ring!Slot(read_ptr + j)
      BY DEF NoDataRace, Ring!NoDataRace
    <2>1. RingTypes /\ RingRoom /\ Capacity \in Nat \ {0}
      BY Sizes DEF RingInv
    <2>2. /\ read_ptr \in 0..Capacity - 1 /\ Used \in 0..Capacity - 1
          /\ i \in 0..Capacity - Used /\ Used + i \in 0..Capacity - 1
          /\ j \in 0..Capacity - 1 /\ j # Used + i
          /\ write_ptr = Ring!Slot(read_ptr + Used)
      BY <2>1 DEF RingTypes, RingRoom
    <2>3. Ring!Slot(write_ptr + i) = Ring!Slot(read_ptr + (Used + i))
      BY <2>2, RoundTheRing
    <2>4. QED  BY <2>2, <2>3, RoundTheRing
  <1>2. QED  BY <1>1, RingInvariant, PTL

\* The comment at push_bulk, that one slot stays free, is right of single calls at any
\* time and of bulk calls that begin while write_ptr is not behind read_ptr.  Of other
\* bulk calls it is false.
THEOREM OneSlotStaysFree ==
    Ring!Init /\ [][Ring!NextUnwrapped]_ringVars => []Ring!OneSlotFree
  <1>1. RingInv => Ring!OneSlotFree
    BY ContentIsItems DEF Ring!OneSlotFree
  <1>2. QED  BY <1>1, RingInitially, RingStep, PTL

\* ring_buffer.cpp implements a bounded first-in first-out queue of Capacity - 1 items,
\* while bulk calls are made unwrapped.
THEOREM RingIsBoundedFifo == BuffersSpec => ImplementsBoundedFifo
  <1>1. BuffersInit => Ring!FIFO!Init
    BY FifoInitially DEF BuffersInit
  <1>2. RingInv /\ [BuffersNext]_buffersVars => [Ring!FIFO!Next]_(Ring!FIFO!vars)
    <2>1. [BuffersNext]_buffersVars => [Ring!NextUnwrapped]_ringVars
      BY DEF BuffersNext, buffersVars, exceptLogger, exceptBatch, exceptRotator, exceptFrames
    <2>2. QED  BY <2>1, FifoStep
  <1>3. QED  BY <1>1, <1>2, RingInvariant, PTL
             DEF BuffersSpec, ImplementsBoundedFifo, Ring!ImplementsBoundedFifo, Ring!FIFO!SafeSpec

-------------------------------------------------------------------------------

(***************************************************************************)
(* The rings of the two loggers: size slots, of which those from tail to   *)
(* the one before head are unread.                                         *)
(***************************************************************************)

Unread(size, slots, head, tail) ==
    [i \in 1..(head + size - tail) % size |-> slots[(tail + i - 1) % size]]

LEMMA UnreadSlots ==
    ASSUME NEW size \in Nat \ {0}, NEW head \in 0..size - 1, NEW tail \in 0..size - 1
    PROVE  /\ (head + size - tail) % size \in 0..size - 1
           /\ ((head + size - tail) % size = 0) <=> (head = tail)
           /\ (tail + ((head + size - tail) % size)) % size = head
           /\ (head + 1) % size \in 0..size - 1
           /\ \A i \in 1..(head + size - tail) % size :
                  /\ (tail + i - 1) % size \in 0..size - 1
                  /\ (tail + i - 1) % size # head
  <1> DEFINE count == (head + size - tail) % size
  <1>1. head + size - tail \in 0..2 * size - 1 /\ head + 1 \in 0..2 * size - 1
    OBVIOUS
  <1>2. count = IF head + size - tail < size THEN head + size - tail ELSE (head + size - tail) - size
    BY <1>1, Remainder
  <1>3. (head + 1) % size = IF head + 1 < size THEN head + 1 ELSE (head + 1) - size
    BY <1>1, Remainder
  <1> HIDE DEF count
  <1>4. count \in 0..size - 1 /\ (count = 0 <=> head = tail) /\ tail + count \in 0..2 * size - 1
    BY <1>1, <1>2
  <1>5. (tail + count) % size = IF tail + count < size THEN tail + count ELSE (tail + count) - size
    BY <1>4, Remainder
  <1>6. ASSUME NEW i \in 1..count
        PROVE  (tail + i - 1) % size \in 0..size - 1 /\ (tail + i - 1) % size # head
    <2>1. tail + i - 1 \in 0..2 * size - 1
      BY <1>4
    <2>2. (tail + i - 1) % size = IF tail + i - 1 < size THEN tail + i - 1 ELSE (tail + i - 1) - size
      BY <2>1, Remainder
    <2>3. QED  BY <1>2, <1>4, <2>1, <2>2
  <1>7. (tail + count) % size = head
    BY <1>2, <1>4, <1>5
  <1>8. (head + 1) % size \in 0..size - 1
    BY <1>3
  <1>9. QED  BY <1>4, <1>6, <1>7, <1>8 DEF count

LEMMA UnreadIsASequence ==
    ASSUME NEW V, NEW size \in Nat \ {0}, NEW slots \in [0..size - 1 -> V],
           NEW head \in 0..size - 1, NEW tail \in 0..size - 1
    PROVE  /\ Unread(size, slots, head, tail) \in Seq(V)
           /\ Len(Unread(size, slots, head, tail)) = (head + size - tail) % size
  <1> DEFINE count == (head + size - tail) % size
  <1>1. count \in Nat /\ \A i \in 1..count : (tail + i - 1) % size \in 0..size - 1
    BY UnreadSlots
  <1> HIDE DEF count
  <1>2. [i \in 1..count |-> slots[(tail + i - 1) % size]] \in Seq(V)
    BY <1>1
  <1>3. QED  BY <1>1, <1>2 DEF Unread, count

\* The slot at head may be written.
LEMMA WriteFreeSlot ==
    ASSUME NEW V, NEW size \in Nat \ {0}, NEW slots \in [0..size - 1 -> V],
           NEW head \in 0..size - 1, NEW tail \in 0..size - 1, NEW x
    PROVE  Unread(size, [slots EXCEPT ![head] = x], head, tail) = Unread(size, slots, head, tail)
  <1>1. \A i \in 1..(head + size - tail) % size :
            [slots EXCEPT ![head] = x][(tail + i - 1) % size] = slots[(tail + i - 1) % size]
    BY UnreadSlots
  <1>2. QED  BY <1>1 DEF Unread

\* Head moves on, when there is room.
LEMMA PublishSlot ==
    ASSUME NEW V, NEW size \in Nat \ {0}, NEW slots \in [0..size - 1 -> V],
           NEW head \in 0..size - 1, NEW tail \in 0..size - 1, (head + 1) % size # tail
    PROVE  Unread(size, slots, (head + 1) % size, tail)
              = Append(Unread(size, slots, head, tail), slots[head])
  <1> DEFINE count == (head + size - tail) % size
             next == (head + 1) % size
             old == Unread(size, slots, head, tail)
             new == Unread(size, slots, next, tail)
  <1>1. /\ count \in 0..size - 1 /\ (tail + count) % size = head /\ next \in 0..size - 1
        /\ old \in Seq(V) /\ Len(old) = count /\ slots[head] \in V
    <2>1. /\ size \in Nat \ {0} /\ head \in 0..size - 1 /\ tail \in 0..size - 1
          /\ slots \in [0..size - 1 -> V]
      OBVIOUS
    <2>2. count \in 0..size - 1 /\ next \in 0..size - 1
      BY ONLY <2>1, UnreadSlots
    <2>3. (tail + count) % size = head
      BY ONLY <2>1, UnreadSlots
    <2>4. old \in Seq(V) /\ Len(old) = count
      BY ONLY <2>1, UnreadIsASequence, ZenonT(30)
    <2>5. QED  BY <2>1, <2>2, <2>3, <2>4
  <1>2. (next + size - tail) % size = count + 1
    <2>1. head + size - tail \in 0..2 * size - 1 /\ head + 1 \in 0..2 * size - 1
          /\ next + size - tail \in 0..2 * size - 1
      BY <1>1
    <2>2. count = IF head + size - tail < size THEN head + size - tail ELSE (head + size - tail) - size
      BY <2>1, Remainder
    <2>3. next = IF head + 1 < size THEN head + 1 ELSE (head + 1) - size
      BY <2>1, Remainder
    <2>4. (next + size - tail) % size
             = IF next + size - tail < size THEN next + size - tail ELSE (next + size - tail) - size
      BY <2>1, Remainder
    <2> HIDE DEF count, next
    <2>5. next # tail
      BY DEF next
    <2>6. QED  BY <1>1, <2>2, <2>3, <2>4, <2>5
  <1>3. new \in Seq(V) /\ Len(new) = count + 1
    BY <1>1, <1>2, UnreadIsASequence
  <1>4. ASSUME NEW i \in 1..count + 1
        PROVE  new[i] = IF i <= count THEN old[i] ELSE slots[head]
    <2>1. new[i] = slots[(tail + i - 1) % size]
      BY <1>2 DEF Unread
    <2>2. CASE i <= count
      BY <1>1, <2>1, <2>2 DEF Unread
    <2>3. CASE i > count
      <3>1. i - 1 = count /\ tail + i - 1 = tail + (i - 1)
        BY <1>1, <2>3
      <3>2. (tail + i - 1) % size = head
        BY <1>1, <3>1
      <3>3. i > count => ~(i <= count)
        BY <1>1
      <3>4. QED  BY <2>1, <2>3, <3>2, <3>3
    <2>4. QED  BY <1>1, <2>2, <2>3
  <1> HIDE DEF count, next, old, new
  <1>5. Append(old, slots[head]) \in Seq(V) /\ Len(Append(old, slots[head])) = count + 1
        /\ \A i \in 1..count + 1 :
              Append(old, slots[head])[i] = IF i <= count THEN old[i] ELSE slots[head]
    BY <1>1
  <1>6. new = Append(old, slots[head])
    BY <1>1, <1>3, <1>4, <1>5, SeqEqual
  <1>7. QED  BY <1>6 DEF new, old, next

\* Tail moves on, when something is unread.
LEMMA TakeSlot ==
    ASSUME NEW V, NEW size \in Nat \ {0}, NEW slots \in [0..size - 1 -> V],
           NEW head \in 0..size - 1, NEW tail \in 0..size - 1, head # tail
    PROVE  Unread(size, slots, head, tail)
              = <<slots[tail]>> \o Unread(size, slots, head, (tail + 1) % size)
  <1> DEFINE count == (head + size - tail) % size
             next == (tail + 1) % size
             old == Unread(size, slots, head, tail)
             new == Unread(size, slots, head, next)
             first == slots[tail]
  <1>1. /\ count \in 1..size - 1 /\ next \in 0..size - 1
        /\ old \in Seq(V) /\ Len(old) = count /\ first \in V
    <2>1. count \in 0..size - 1 /\ count # 0
      BY UnreadSlots
    <2>2. next \in 0..size - 1
      BY UnreadSlots
    <2>3. old \in Seq(V) /\ Len(old) = count
      BY UnreadIsASequence, ZenonT(30)
    <2>4. QED  BY <2>1, <2>2, <2>3
  <1>2. \A i \in 1..count : (tail + i - 1) % size
             = IF tail + i - 1 < size THEN tail + i - 1 ELSE (tail + i - 1) - size
    <2>1. \A i \in 1..count : tail + i - 1 \in 0..2 * size - 1
      BY <1>1
    <2>2. QED  BY <2>1, Remainder
  <1>3. next = IF tail + 1 < size THEN tail + 1 ELSE (tail + 1) - size
    <2>1. tail + 1 \in 0..2 * size - 1
      OBVIOUS
    <2>2. QED  BY <2>1, Remainder
  <1>4. (head + size - next) % size = count - 1
    <2>1. head + size - tail \in 0..2 * size - 1 /\ head + size - next \in 0..2 * size - 1
      BY <1>1
    <2>2. count = IF head + size - tail < size THEN head + size - tail ELSE (head + size - tail) - size
      BY <2>1, Remainder
    <2>3. (head + size - next) % size
             = IF head + size - next < size THEN head + size - next ELSE (head + size - next) - size
      BY <2>1, Remainder
    <2> HIDE DEF count, next
    <2>4. QED  BY <1>1, <1>3, <2>2, <2>3, SMTT(30)
  <1>5. new \in Seq(V) /\ Len(new) = count - 1
    BY <1>1, <1>4, UnreadIsASequence
  <1>6. ASSUME NEW i \in 1..count
        PROVE  old[i] = IF i = 1 THEN first ELSE new[i - 1]
    <2>1. old[i] = slots[(tail + i - 1) % size]
      BY DEF Unread
    <2>2. CASE i = 1
      <3>1. (tail + i - 1) % size = tail
        BY <1>2, <2>2
      <3>2. QED  BY <2>1, <2>2, <3>1
    <2>3. CASE i # 1
      <3>1. i - 1 \in 1..count - 1
        BY <1>1, <2>3
      <3>2. new[i - 1] = slots[(next + (i - 1) - 1) % size]
        BY <1>4, <3>1 DEF Unread
      <3>3. (next + (i - 1) - 1) % size = (tail + i - 1) % size
        <4>1. next + (i - 1) - 1 \in 0..2 * size - 1
          BY <1>1, <3>1
        <4>2. (next + (i - 1) - 1) % size = IF next + (i - 1) - 1 < size THEN next + (i - 1) - 1
                                            ELSE (next + (i - 1) - 1) - size
          BY <4>1, Remainder
        <4> HIDE DEF count, next
        <4>3. QED  BY <1>1, <1>2, <1>3, <2>3, <4>1, <4>2
      <3>4. QED  BY <2>1, <2>3, <3>2, <3>3
    <2>4. QED  BY <2>2, <2>3
  <1> HIDE DEF count, next, old, new, first
  <1>7. /\ <<first>> \o new \in Seq(V) /\ Len(<<first>> \o new) = count
        /\ \A i \in 1..count : (<<first>> \o new)[i] = IF i = 1 THEN first ELSE new[i - 1]
    <2>1. <<first>> \in Seq(V) /\ Len(<<first>>) = 1 /\ <<first>>[1] = first
      BY <1>1
    <2>2. QED  BY <1>1, <1>5, <2>1, ConcatProperties
  <1>8. old = <<first>> \o new
    BY <1>1, <1>6, <1>7, SeqEqual
  <1>9. QED  BY <1>8 DEF old, new, next, first

\* What is taken from the front of one list goes to the end of the one before it.
LEMMA PassOn ==
    ASSUME NEW V, NEW a \in Seq(V), NEW b \in Seq(V), NEW c \in Seq(V), NEW x \in V
    PROVE  (a \o b) \o (<<x>> \o c) = (a \o Append(b, x)) \o c
  <1>1. <<x>> \in Seq(V) /\ a \o b \in Seq(V) /\ Append(b, x) = b \o <<x>>
        /\ a \o (b \o <<x>>) = (a \o b) \o <<x>>
    BY ConcatAssociative, AppendIsConcat
  <1>2. (a \o b) \o (<<x>> \o c) = ((a \o b) \o <<x>>) \o c
    BY ONLY <1>1, ConcatAssociative, SMTT(30)
  <1>3. QED  BY <1>1, <1>2

-------------------------------------------------------------------------------

(***************************************************************************)
(* The asynchronous logger, used by a single thread.                       *)
(***************************************************************************)

Values == (Producers \X Nat) \cup {Nothing}

LoggerTypes ==
    /\ ring \in [0..RingSize - 1 -> Values]
    /\ head_ \in 0..RingSize - 1 /\ tail_ \in 0..RingSize - 1
    /\ ppc \in [Producers -> {"out", "loaded", "writing", "storing"}]
    /\ phead \in [Producers -> 0..RingSize - 1]
    /\ logged \in [Producers -> Nat]
    /\ file \in Seq(Values) /\ flush \in Seq(Values)

\* While the only producer is in Push nobody else moves head_, so that what it loaded
\* is still true; the slot it writes is free, and stays so while the worker moves
\* tail_.  The message the worker has copied is still in its slot.
LoggerInv(p) ==
    /\ LoggerTypes
    /\ ppc[p] # "out" => phead[p] = head_
    /\ ppc[p] \in {"writing", "storing"} => Logger!After(head_) # tail_
    /\ ppc[p] = "storing" => ring[head_] = Logger!Message(p)
    /\ wpc = "popped" => tail_ # head_ /\ msg = ring[tail_]
    /\ Logger!NothingLost

LEMMA LoggerSizes == RingSize \in Nat \ {0} /\ RingSize > 1
  BY BuffersAssumption DEF Logger!AsyncLoggerAssumption

LEMMA AfterIsASlot ==
    /\ \A i \in 0..RingSize - 1 : Logger!After(i) \in 0..RingSize - 1 /\ Logger!After(i) # i
    /\ \A i, j \in 0..RingSize - 1 : Logger!After(i) = Logger!After(j) => i = j
  <1>1. \A i \in 0..RingSize - 1 : i + 1 \in 0..2 * RingSize - 1
    BY LoggerSizes
  <1>2. \A i \in 0..RingSize - 1 :
            (i + 1) % RingSize = IF i + 1 < RingSize THEN i + 1 ELSE (i + 1) - RingSize
    BY <1>1, LoggerSizes, Remainder
  <1>3. QED  BY <1>2, LoggerSizes DEF Logger!After

LEMMA LoggerInitially == \A p : Producers = {p} /\ Logger!Init => LoggerInv(p)
  <1> SUFFICES ASSUME NEW p, Producers = {p}, Logger!Init  PROVE LoggerInv(p)
    OBVIOUS
  <1>1. /\ ring = [i \in 0..RingSize - 1 |-> Nothing] /\ head_ = 0 /\ tail_ = 0
        /\ ppc = [q \in Producers |-> "out"] /\ phead = [q \in Producers |-> 0]
        /\ logged = [q \in Producers |-> 0] /\ wpc = "loop"
        /\ file = <<>> /\ flush = <<>> /\ accepted = <<>>
        /\ RingSize \in Nat \ {0} /\ p \in Producers
    BY LoggerSizes DEF Logger!Init, Logger!Slots
  <1>2. LoggerTypes
    BY <1>1 DEF LoggerTypes, Values
  <1>3. Logger!InRing = <<>>
    <2>1. (0 + RingSize - 0) % RingSize = 0
      BY <1>1, UnreadSlots
    <2>2. Logger!InRing = [i \in 1..0 |-> ring[(tail_ + i - 1) % RingSize]]
      BY <1>1, <2>1 DEF Logger!InRing
    <2>3. QED  BY <2>2
  <1>4. Logger!NothingLost
    <2>1. <<>> \o <<>> \o <<>> = <<>>
      OBVIOUS
    <2>2. QED  BY <1>1, <1>3, <2>1 DEF Logger!NothingLost
  <1>5. QED  BY <1>1, <1>2, <1>4 DEF LoggerInv

\* The producer's steps.
LEMMA LoggerProduces ==
    ASSUME NEW p, Producers = {p}, LoggerInv(p), Logger!Log(p) \/ Logger!Producer(p)
    PROVE  LoggerInv(p)'
  <1> DEFINE inRing == Unread(RingSize, ring, head_, tail_)
  <1>1. /\ LoggerTypes /\ p \in Producers /\ RingSize \in Nat \ {0}
        /\ Logger!InRing = inRing
    BY LoggerSizes DEF LoggerInv, Logger!InRing, Unread
  <1>2. UNCHANGED <<tail_, wpc, msg, flush, file>>
    BY DEF Logger!Log, Logger!Producer, Logger!Full, Logger!AcceptSlot, Logger!WriteSlot,
           Logger!StoreHead, Logger!wvars
  <1>3. CASE Logger!Log(p)
    <2>1. /\ ppc' = [ppc EXCEPT ![p] = "loaded"] /\ phead' = [phead EXCEPT ![p] = head_]
          /\ logged' = [logged EXCEPT ![p] = @ + 1]
          /\ UNCHANGED <<ring, head_, accepted>>
      BY <1>3 DEF Logger!Log
    <2>2. LoggerTypes'
      BY <1>1, <1>2, <2>1 DEF LoggerTypes
    <2>3. Logger!NothingLost'
      BY <1>2, <2>1 DEF LoggerInv, Logger!NothingLost, Logger!InRing
    <2>4. ppc'[p] = "loaded" /\ phead'[p] = head_
      BY <1>1, <2>1 DEF LoggerTypes
    <2>5. QED  BY <1>2, <2>1, <2>2, <2>3, <2>4 DEF LoggerInv
  <1>4. CASE Logger!Full(p)
    <2>1. /\ ppc[p] = "loaded" /\ UNCHANGED <<ring, head_, accepted, logged>>
          /\ \/ ppc' = [ppc EXCEPT ![p] = "out"] /\ phead' = phead
             \/ ppc' = ppc /\ phead' = [phead EXCEPT ![p] = head_]
      BY <1>4 DEF Logger!Full
    <2>2. LoggerTypes'
      BY <1>1, <1>2, <2>1 DEF LoggerTypes
    <2>3. Logger!NothingLost'
      BY <1>2, <2>1 DEF LoggerInv, Logger!NothingLost, Logger!InRing
    <2>4. ppc'[p] = "out" \/ (ppc'[p] = "loaded" /\ phead'[p] = head_)
      BY <1>1, <2>1 DEF LoggerTypes
    <2>5. QED  BY <1>2, <2>1, <2>2, <2>3, <2>4 DEF LoggerInv
  <1>5. CASE Logger!AcceptSlot(p)
    <2>1. /\ ppc[p] = "loaded" /\ Logger!After(phead[p]) # tail_
          /\ ppc' = [ppc EXCEPT ![p] = "writing"]
          /\ UNCHANGED <<ring, head_, phead, accepted, logged>>
      BY <1>5 DEF Logger!AcceptSlot
    <2>2. LoggerTypes'
      BY <1>1, <1>2, <2>1 DEF LoggerTypes
    <2>3. Logger!NothingLost'
      BY <1>2, <2>1 DEF LoggerInv, Logger!NothingLost, Logger!InRing
    <2>4. ppc'[p] = "writing" /\ phead[p] = head_ /\ Logger!After(head_) # tail_
      BY <1>1, <2>1 DEF LoggerTypes, LoggerInv
    <2>5. QED  BY <1>2, <2>1, <2>2, <2>3, <2>4 DEF LoggerInv, Logger!After
  <1>6. CASE Logger!WriteSlot(p)
    <2>1. /\ ppc[p] = "writing" /\ ppc' = [ppc EXCEPT ![p] = "storing"]
          /\ ring' = [ring EXCEPT ![phead[p]] = Logger!Message(p)]
          /\ UNCHANGED <<head_, phead, accepted, logged>>
      BY <1>6 DEF Logger!WriteSlot
    <2>2. phead[p] = head_ /\ Logger!After(head_) # tail_ /\ ppc'[p] = "storing"
      BY <1>1, <2>1 DEF LoggerTypes, LoggerInv
    <2>3. Logger!Message(p) \in Values /\ Logger!Message(p)' = Logger!Message(p)
      BY <1>1, <2>1 DEF Logger!Message, Values, LoggerTypes
    <2>4. LoggerTypes'
      BY <1>1, <1>2, <2>1, <2>2, <2>3 DEF LoggerTypes
    <2>5. /\ ring'[head_] = Logger!Message(p)
          /\ \A i \in 0..RingSize - 1 : i # head_ => ring'[i] = ring[i]
      BY <1>1, <2>1, <2>2 DEF LoggerTypes
    <2>6. Logger!InRing' = Logger!InRing
      <3>1. Unread(RingSize, [ring EXCEPT ![head_] = Logger!Message(p)], head_, tail_) = inRing
        <4>1. /\ ring \in [0..RingSize - 1 -> Values]
              /\ head_ \in 0..RingSize - 1 /\ tail_ \in 0..RingSize - 1
          BY <1>1 DEF LoggerTypes
        <4>2. QED  BY ONLY <1>1, <4>1, WriteFreeSlot, ZenonT(30)
      <3>2. Logger!InRing' = Unread(RingSize, ring', head_, tail_)
        BY <1>2, <2>1 DEF Logger!InRing, Unread
      <3>3. QED  BY <1>1, <2>1, <2>2, <3>1, <3>2
    <2>7. Logger!NothingLost'
      BY <1>2, <2>1, <2>6 DEF LoggerInv, Logger!NothingLost
    <2>8. wpc = "popped" => ring'[tail_] = ring[tail_]
      BY <1>1, <2>5 DEF LoggerInv, LoggerTypes
    <2>9. QED  BY <1>2, <2>1, <2>2, <2>3, <2>4, <2>5, <2>7, <2>8 DEF LoggerInv, Logger!After
  <1>7. CASE Logger!StoreHead(p)
    <2>1. /\ ppc[p] = "storing" /\ ppc' = [ppc EXCEPT ![p] = "out"]
          /\ head_' = Logger!After(phead[p]) /\ accepted' = Append(accepted, Logger!Message(p))
          /\ UNCHANGED <<ring, phead, logged>>
      BY <1>7 DEF Logger!StoreHead
    <2>2. /\ phead[p] = head_ /\ Logger!After(head_) # tail_
          /\ ring[head_] = Logger!Message(p) /\ ppc'[p] = "out"
          /\ head_' = Logger!After(head_) /\ head_' \in 0..RingSize - 1
      BY <1>1, <2>1, AfterIsASlot DEF LoggerTypes, LoggerInv
    <2>3. LoggerTypes'
      BY <1>1, <1>2, <2>1, <2>2 DEF LoggerTypes
    <2>4. /\ ring \in [0..RingSize - 1 -> Values] /\ ring[head_] \in Values
          /\ head_ \in 0..RingSize - 1 /\ tail_ \in 0..RingSize - 1
          /\ (head_ + 1) % RingSize # tail_ /\ head_' = (head_ + 1) % RingSize
      BY <1>1, <2>2 DEF LoggerTypes, Logger!After
    <2>5. /\ inRing \in Seq(Values)
          /\ Unread(RingSize, ring, (head_ + 1) % RingSize, tail_) = Append(inRing, ring[head_])
      BY ONLY <1>1, <2>4, PublishSlot, UnreadIsASequence
    <2>6. Logger!InRing' = Unread(RingSize, ring, head_', tail_)
      BY <1>2, <2>1 DEF Logger!InRing, Unread
    <2>7. Logger!InRing' = Append(Logger!InRing, ring[head_])
      BY <1>1, <2>4, <2>5, <2>6
    <2> HIDE DEF inRing
    <2>8. file \o flush \in Seq(Values)
      BY <1>1 DEF LoggerTypes
    <2>9. (file \o flush) \o Append(inRing, ring[head_])
             = Append((file \o flush) \o inRing, ring[head_])
      <3> DEFINE all == file \o flush
                 last == ring[head_]
      <3>1. all \in Seq(Values) /\ inRing \in Seq(Values) /\ last \in Values
        BY <2>4, <2>5, <2>8
      <3> HIDE DEF all, last
      <3>2. Append(inRing, last) = inRing \o <<last>> /\ all \o inRing \in Seq(Values)
            /\ <<last>> \in Seq(Values)
        BY <3>1, AppendIsConcat
      <3>3. Append(all \o inRing, last) = (all \o inRing) \o <<last>>
        BY <3>1, <3>2, AppendIsConcat
      <3>4. (all \o inRing) \o <<last>> = all \o (inRing \o <<last>>)
        BY <3>1, <3>2, ConcatAssociative
      <3>5. all \o Append(inRing, last) = Append(all \o inRing, last)
        BY <3>2, <3>3, <3>4
      <3>6. QED  BY <3>5 DEF all, last
    <2>10. Logger!NothingLost'
      BY <1>1, <1>2, <2>1, <2>2, <2>7, <2>9 DEF LoggerInv, Logger!NothingLost
    <2>11. QED  BY <1>2, <2>1, <2>2, <2>3, <2>10 DEF LoggerInv
  <1>8. QED  BY <1>3, <1>4, <1>5, <1>6, <1>7 DEF Logger!Producer

\* The worker's steps, and Stop.
LEMMA LoggerConsumes ==
    ASSUME NEW p, Producers = {p}, LoggerInv(p), Logger!Worker \/ Logger!Stop
    PROVE  LoggerInv(p)'
  <1> DEFINE inRing == Unread(RingSize, ring, head_, tail_)
  <1>1. /\ LoggerTypes /\ p \in Producers /\ RingSize \in Nat \ {0}
        /\ Logger!InRing = inRing
        /\ file \in Seq(Values) /\ flush \in Seq(Values) /\ (file \o flush) \o inRing = accepted
    BY LoggerSizes DEF LoggerInv, LoggerTypes, Logger!InRing, Unread, Logger!NothingLost
  <1>2. UNCHANGED <<ring, head_, ppc, phead, logged, accepted>>
    BY DEF Logger!Worker, Logger!Stop, Logger!Loop, Logger!Pop, Logger!PopStore, Logger!Flush,
           Logger!LastFlush, Logger!pvars
  <1>3. inRing \in Seq(Values)
    <2>1. /\ ring \in [0..RingSize - 1 -> Values]
          /\ head_ \in 0..RingSize - 1 /\ tail_ \in 0..RingSize - 1
      BY <1>1 DEF LoggerTypes
    <2>2. QED  BY ONLY <1>1, <2>1, UnreadIsASequence
  <1>4. CASE Logger!Loop \/ Logger!Pop \/ Logger!Stop
    <2>1. /\ UNCHANGED <<tail_, file, flush>>
          /\ wpc' = "popped" => \/ UNCHANGED <<wpc, msg>>
                                \/ tail_ # head_ /\ msg' = ring[tail_]
      BY <1>4 DEF Logger!Loop, Logger!Pop, Logger!Stop, Logger!wvars
    <2>2. LoggerTypes'
      BY <1>1, <1>2, <2>1 DEF LoggerTypes
    <2>3. Logger!NothingLost'
      BY <1>2, <2>1 DEF LoggerInv, Logger!NothingLost, Logger!InRing
    <2>4. QED  BY <1>2, <2>1, <2>2, <2>3 DEF LoggerInv, Logger!After, Logger!Message
  <1>5. CASE Logger!PopStore
    <2>1. /\ wpc = "popped" /\ wpc' = "loop" /\ tail_' = Logger!After(tail_)
          /\ flush' = Append(flush, msg) /\ UNCHANGED file
      BY <1>5 DEF Logger!PopStore
    <2>2. /\ tail_ # head_ /\ msg = ring[tail_]
          /\ ring \in [0..RingSize - 1 -> Values] /\ msg \in Values
          /\ head_ \in 0..RingSize - 1 /\ tail_ \in 0..RingSize - 1
          /\ tail_' \in 0..RingSize - 1
      BY <1>1, <2>1, AfterIsASlot DEF LoggerInv, LoggerTypes
    <2>3. LoggerTypes'
      BY <1>1, <1>2, <2>1, <2>2 DEF LoggerTypes
    <2>4. inRing = <<ring[tail_]>> \o Unread(RingSize, ring, head_, (tail_ + 1) % RingSize)
      BY ONLY <1>1, <2>2, TakeSlot
    <2> DEFINE rest == Unread(RingSize, ring, head_, (tail_ + 1) % RingSize)
    <2>5. rest \in Seq(Values) /\ Logger!InRing' = rest
      <3>1. (tail_ + 1) % RingSize \in 0..RingSize - 1 /\ tail_' = (tail_ + 1) % RingSize
        BY <2>1, <2>2 DEF Logger!After
      <3>2. rest \in Seq(Values)
        BY ONLY <1>1, <2>2, <3>1, UnreadIsASequence
      <3>3. Logger!InRing' = Unread(RingSize, ring, head_, tail_')
        BY <1>2 DEF Logger!InRing, Unread
      <3>4. QED  BY <3>1, <3>2, <3>3
    <2> HIDE DEF inRing, rest
    <2>6. inRing = <<msg>> \o rest
      BY <2>2, <2>4 DEF rest
    <2>7. (file \o flush) \o (<<msg>> \o rest) = (file \o Append(flush, msg)) \o rest
      <3>1. /\ file \in Seq(Values) /\ flush \in Seq(Values) /\ rest \in Seq(Values)
            /\ msg \in Values
        BY ONLY <1>1, <2>2, <2>5
      <3>2. \A a, b, c \in Seq(Values), x \in Values :
                (a \o b) \o (<<x>> \o c) = (a \o Append(b, x)) \o c
        BY PassOn
      <3> HIDE DEF Values
      <3>3. QED  BY ONLY <3>1, <3>2, ZenonT(30)
    <2>8. Logger!NothingLost'
      BY <1>1, <1>2, <2>1, <2>5, <2>6, <2>7 DEF Logger!NothingLost
    <2>9. Logger!After(head_) # tail_'
      BY <2>1, <2>2, AfterIsASlot
    <2>10. QED  BY <1>2, <2>1, <2>3, <2>8, <2>9 DEF LoggerInv, Logger!After, Logger!Message
  <1>6. CASE Logger!Flush \/ Logger!LastFlush
    <2>1. /\ wpc' \in {"loop", "done"} /\ file' = file \o flush /\ flush' = <<>>
          /\ UNCHANGED tail_
      BY <1>6 DEF Logger!Flush, Logger!LastFlush
    <2>2. LoggerTypes'
      BY <1>1, <1>2, <2>1 DEF LoggerTypes
    <2>3. Logger!InRing' = inRing
      BY <1>1, <1>2, <2>1 DEF Logger!InRing
    <2> HIDE DEF inRing
    <2>4. (file \o flush) \o <<>> = file \o flush
      BY <1>1
    <2>5. Logger!NothingLost'
      BY <1>1, <1>2, <2>1, <2>3, <2>4 DEF Logger!NothingLost
    <2>6. QED  BY <1>2, <2>1, <2>2, <2>5 DEF LoggerInv, Logger!After, Logger!Message
  <1>7. QED  BY <1>4, <1>5, <1>6 DEF Logger!Worker

LEMMA LoggerStep ==
    \A p : Producers = {p} /\ LoggerInv(p) /\ [Logger!Next]_loggerVars => LoggerInv(p)'
  <1> SUFFICES ASSUME NEW p, Producers = {p}, LoggerInv(p), [Logger!Next]_loggerVars
               PROVE  LoggerInv(p)'
    OBVIOUS
  <1>1. CASE Logger!Next
    <2>1. Logger!Log(p) \/ Logger!Producer(p) \/ Logger!Worker \/ Logger!Stop
      BY <1>1 DEF Logger!Next
    <2>2. QED  BY <2>1, LoggerProduces, LoggerConsumes
  <1>2. CASE UNCHANGED loggerVars
    BY <1>2 DEF loggerVars, LoggerInv, LoggerTypes, Logger!After, Logger!Message,
                Logger!NothingLost, Logger!InRing
  <1>3. QED  BY <1>1, <1>2

\* With one thread that logs, every message that submitLog accepted is in the file, in
\* the flush buffer or in the ring, once and in order.  With two this is false.
THEOREM OneProducerLosesNothing ==
    ASSUME NEW CONSTANT p, Producers = {p}
    PROVE  BuffersSpec => []Logger!NothingLost
  <1>1. BuffersInit => LoggerInv(p)
    BY LoggerInitially DEF BuffersInit
  <1>2. LoggerInv(p) /\ [BuffersNext]_buffersVars => LoggerInv(p)'
    <2>1. [BuffersNext]_buffersVars => [Logger!Next]_loggerVars
      BY DEF BuffersNext, buffersVars, exceptRing, exceptBatch, exceptRotator, exceptFrames
    <2>2. QED  BY <2>1, LoggerStep
  <1>3. LoggerInv(p) => Logger!NothingLost
    BY DEF LoggerInv
  <1>4. QED  BY <1>1, <1>2, <1>3, PTL DEF BuffersSpec

-------------------------------------------------------------------------------

(***************************************************************************)
(* The batch logger.  What is in the ring, in the batch or printed is what *)
(* the thread that logs has pushed.                                        *)
(***************************************************************************)

BatchTypes ==
    /\ _buffer \in [0..BufferSize - 1 -> Nat]
    /\ _head \in 0..BufferSize - 1 /\ _tail \in 0..BufferSize - 1
    /\ pushing \in {"out", "writing", "publishing"}
    /\ entry \in Nat /\ refused \subseteq 1..entry
    /\ batch \in Seq(Nat) /\ printed \in Seq(Nat)

\* The slot of an entry being pushed is free and stays so while the other thread moves
\* _tail.
BatchPush ==
    /\ pushing # "out" => /\ entry \in (1..entry) \ refused
                          /\ Logs!After(_head) # _tail
    /\ pushing = "publishing" => _buffer[_head] = entry

Lined(s, S) == /\ \A x : x \in S <=> \E i \in 1..Len(s) : x = s[i]
               /\ \A i, j \in 1..Len(s) : i < j => s[i] < s[j]

InTheRing == Unread(BufferSize, _buffer, _head, _tail)

BatchInv == BatchTypes /\ BatchPush /\ Lined((printed \o batch) \o InTheRing, Logs!Taken)

LEMMA BatchSizes == BufferSize \in Nat \ {0} /\ BufferSize > 1
  BY BuffersAssumption DEF Logs!BatchLoggerAssumption

LEMMA BatchSlots ==
    /\ \A i \in 0..BufferSize - 1 :
          Logs!After(i) \in 0..BufferSize - 1 /\ Logs!After(i) = (i + 1) % BufferSize
    /\ \A i, j \in 0..BufferSize - 1 : Logs!After(i) = Logs!After(j) => i = j
  <1>1. \A i \in 0..BufferSize - 1 : i + 1 \in 0..2 * BufferSize - 1
    BY BatchSizes
  <1>2. \A i \in 0..BufferSize - 1 :
            (i + 1) % BufferSize = IF i + 1 < BufferSize THEN i + 1 ELSE (i + 1) - BufferSize
    BY <1>1, BatchSizes, Remainder
  <1>3. QED  BY <1>2, BatchSizes DEF Logs!After

LEMMA RingOfNumbers == BatchTypes => InTheRing \in Seq(Nat) /\ Logs!Pending = InTheRing
  <1> SUFFICES ASSUME BatchTypes  PROVE InTheRing \in Seq(Nat) /\ Logs!Pending = InTheRing
    OBVIOUS
  <1>1. /\ BufferSize \in Nat \ {0} /\ _buffer \in [0..BufferSize - 1 -> Nat]
        /\ _head \in 0..BufferSize - 1 /\ _tail \in 0..BufferSize - 1
    BY BatchSizes DEF BatchTypes
  <1>2. InTheRing \in Seq(Nat)
    BY ONLY <1>1, UnreadIsASequence DEF InTheRing
  <1>3. QED  BY <1>2 DEF InTheRing, Unread, Logs!Pending

LEMMA BatchInitially == Logs!BatchInit => BatchInv
  <1> SUFFICES ASSUME Logs!BatchInit  PROVE BatchInv
    OBVIOUS
  <1>1. /\ _buffer = [i \in 0..BufferSize - 1 |-> 0] /\ _head = 0 /\ _tail = 0
        /\ pushing = "out" /\ entry = 0 /\ refused = {} /\ batch = <<>> /\ printed = <<>>
        /\ BufferSize \in Nat \ {0}
    BY BatchSizes DEF Logs!BatchInit, Logs!Slots
  <1>2. BatchTypes /\ BatchPush
    BY <1>1 DEF BatchTypes, BatchPush
  <1>3. InTheRing = <<>>
    <2>1. (0 + BufferSize - 0) % BufferSize = 0
      BY <1>1, UnreadSlots
    <2>2. InTheRing = [i \in 1..0 |-> _buffer[(_tail + i - 1) % BufferSize]]
      BY <1>1, <2>1 DEF InTheRing, Unread
    <2>3. QED  BY <2>2
  <1>4. (printed \o batch) \o InTheRing = <<>> /\ Logs!Taken = {}
    BY <1>1, <1>3 DEF Logs!Taken
  <1>5. Lined(<<>>, {})
    BY DEF Lined
  <1>6. QED  BY <1>2, <1>4, <1>5 DEF BatchInv

\* An entry that is greater than all is the last one.
LEMMA LinedAppend ==
    ASSUME NEW s \in Seq(Nat), NEW S, NEW e \in Nat, Lined(s, S), \A x \in S : x < e
    PROVE  Lined(Append(s, e), S \cup {e})
  <1>1. /\ Len(Append(s, e)) = Len(s) + 1 /\ Append(s, e)[Len(s) + 1] = e
        /\ \A i \in 1..Len(s) : Append(s, e)[i] = s[i] /\ s[i] \in S
    BY DEF Lined
  <1>2. \A i \in 1..Len(s) + 1 : i \in 1..Len(s) \/ i = Len(s) + 1
    OBVIOUS
  <1>3. \A x : x \in S \cup {e} <=> \E i \in 1..Len(Append(s, e)) : x = Append(s, e)[i]
    <2>1. ASSUME NEW x \in S
          PROVE  \E i \in 1..Len(Append(s, e)) : x = Append(s, e)[i]
      <3>1. PICK i \in 1..Len(s) : x = s[i]
        BY DEF Lined
      <3>2. QED  BY <1>1, <3>1
    <2>2. Len(s) + 1 \in 1..Len(Append(s, e))
      BY <1>1
    <2>3. QED  BY <1>1, <1>2, <2>1, <2>2
  <1>4. ASSUME NEW i \in 1..Len(Append(s, e)), NEW j \in 1..Len(Append(s, e)), i < j
        PROVE  Append(s, e)[i] < Append(s, e)[j]
    <2>1. i \in 1..Len(s)
      BY <1>1, <1>4
    <2>2. CASE j = Len(s) + 1
      BY <1>1, <2>1, <2>2
    <2>3. CASE j \in 1..Len(s)
      BY <1>1, <1>4, <2>1, <2>3 DEF Lined
    <2>4. QED  BY <1>1, <1>2, <2>2, <2>3
  <1>5. QED  BY <1>3, <1>4 DEF Lined

LEMMA AppendLast ==
    ASSUME NEW V, NEW a \in Seq(V), NEW b \in Seq(V), NEW x \in V
    PROVE  a \o Append(b, x) = Append(a \o b, x)
  <1>1. /\ Append(b, x) = b \o <<x>> /\ a \o b \in Seq(V) /\ <<x>> \in Seq(V)
        /\ Append(a \o b, x) = (a \o b) \o <<x>>
    BY AppendIsConcat
  <1>2. QED  BY <1>1, ConcatAssociative

LEMMA BatchLogStep ==
    ASSUME BatchInv, Logs!Log
    PROVE  BatchInv'
  <1>1. BatchTypes /\ pushing = "out"
    BY DEF BatchInv, Logs!Log
  <1>2. /\ entry' = entry + 1
        /\ UNCHANGED <<_buffer, _head, _tail, batch, printed>>
        /\ \/ pushing' = "out" /\ refused' = refused \cup {entry + 1}
           \/ pushing' = "writing" /\ refused' = refused /\ Logs!After(_head) # _tail
    BY <1>1 DEF Logs!Log
  <1>3. BatchTypes'
    <2>1. entry + 1 \in Nat /\ 1..entry \subseteq 1..entry + 1 /\ entry + 1 \in 1..entry + 1
      BY <1>1 DEF BatchTypes
    <2>2. refused' \subseteq 1..entry'
      BY <1>1, <1>2, <2>1 DEF BatchTypes
    <2>3. pushing' \in {"out", "writing", "publishing"}
      BY <1>2
    <2>4. QED  BY <1>1, <1>2, <2>1, <2>2, <2>3 DEF BatchTypes
  <1>4. BatchPush'
    BY <1>1, <1>2 DEF BatchTypes, BatchPush, Logs!After
  <1>5. Logs!Taken' = Logs!Taken
    BY <1>1, <1>2 DEF BatchTypes, Logs!Taken
  <1>6. InTheRing' = InTheRing
    BY <1>2 DEF InTheRing
  <1>7. QED  BY <1>2, <1>3, <1>4, <1>5, <1>6 DEF BatchInv

LEMMA WriteEntryStep ==
    ASSUME BatchInv, Logs!WriteEntry
    PROVE  BatchInv'
  <1>1. /\ BatchTypes /\ BatchPush /\ pushing = "writing"
        /\ _buffer' = [_buffer EXCEPT ![_head] = entry] /\ pushing' = "publishing"
        /\ UNCHANGED <<_head, _tail, entry, refused, batch, printed>>
    BY DEF BatchInv, Logs!WriteEntry
  <1>2. BatchTypes' /\ BatchPush'
    BY <1>1 DEF BatchTypes, BatchPush, Logs!After
  <1>3. InTheRing' = InTheRing
    <2>1. /\ BufferSize \in Nat \ {0} /\ _buffer \in [0..BufferSize - 1 -> Nat]
          /\ _head \in 0..BufferSize - 1 /\ _tail \in 0..BufferSize - 1
      BY <1>1, BatchSizes DEF BatchTypes
    <2>2. Unread(BufferSize, [_buffer EXCEPT ![_head] = entry], _head, _tail) = InTheRing
      BY ONLY <2>1, <1>1, WriteFreeSlot, ZenonT(30) DEF InTheRing, BatchTypes
    <2>3. InTheRing' = Unread(BufferSize, _buffer', _head, _tail)
      BY <1>1 DEF InTheRing, Unread
    <2>4. QED  BY <1>1, <2>2, <2>3
  <1>4. Logs!Taken' = Logs!Taken
    BY <1>1 DEF Logs!Taken
  <1>5. QED  BY <1>1, <1>2, <1>3, <1>4 DEF BatchInv

LEMMA BatchStoreStep ==
    ASSUME BatchInv, Logs!StoreHead
    PROVE  BatchInv'
  <1>1. /\ BatchTypes /\ BatchPush /\ pushing = "publishing"
        /\ _head' = Logs!After(_head) /\ pushing' = "out"
        /\ UNCHANGED <<_buffer, _tail, entry, refused, batch, printed>>
    BY DEF BatchInv, Logs!StoreHead
  <1>2. /\ _buffer[_head] = entry /\ Logs!After(_head) # _tail
        /\ _head' = (_head + 1) % BufferSize /\ _head' \in 0..BufferSize - 1
        /\ entry \in 1..entry /\ entry \notin refused
    BY <1>1, BatchSlots DEF BatchTypes, BatchPush
  <1>3. BatchTypes' /\ BatchPush'
    BY <1>1, <1>2 DEF BatchTypes, BatchPush
  <1>4. InTheRing' = Append(InTheRing, entry)
    <2>1. /\ BufferSize \in Nat \ {0} /\ _buffer \in [0..BufferSize - 1 -> Nat]
          /\ _head \in 0..BufferSize - 1 /\ _tail \in 0..BufferSize - 1
          /\ (_head + 1) % BufferSize # _tail
      BY <1>1, <1>2, BatchSizes DEF BatchTypes
    <2>2. Unread(BufferSize, _buffer, (_head + 1) % BufferSize, _tail)
             = Append(InTheRing, _buffer[_head])
      BY ONLY <2>1, PublishSlot DEF InTheRing
    <2>3. InTheRing' = Unread(BufferSize, _buffer, _head', _tail)
      BY <1>1 DEF InTheRing, Unread
    <2>4. QED  BY <1>2, <2>2, <2>3
  <1>5. PICK before : before = (printed \o batch) \o InTheRing
    OBVIOUS
  <1>6. /\ printed \o batch \in Seq(Nat) /\ InTheRing \in Seq(Nat) /\ entry \in Nat
        /\ before \in Seq(Nat) /\ Lined(before, Logs!Taken)
    BY <1>1, <1>5, RingOfNumbers DEF BatchInv, BatchTypes
  <1>7. (printed \o batch) \o Append(InTheRing, entry) = Append(before, entry)
    BY <1>5, <1>6, AppendLast
  <1>8. Logs!Taken' = Logs!Taken \cup {entry} /\ \A x \in Logs!Taken : x < entry
    <2>1. Logs!Taken = (1..entry - 1) \ refused
      BY <1>1 DEF Logs!Taken
    <2>2. Logs!Taken' = (1..entry) \ refused
      BY <1>1 DEF Logs!Taken
    <2>3. QED  BY <1>2, <1>6, <2>1, <2>2
  <1>9. Lined(Append(before, entry), Logs!Taken \cup {entry})
    BY <1>6, <1>8, LinedAppend
  <1>10. (printed \o batch)' = printed \o batch
    BY <1>1
  <1>11. QED  BY <1>3, <1>4, <1>7, <1>8, <1>9, <1>10 DEF BatchInv

LEMMA FlushOneStep ==
    ASSUME BatchInv, Logs!FlushOne
    PROVE  BatchInv'
  <1>1. /\ BatchTypes /\ BatchPush /\ _tail # _head
        /\ batch' = Append(batch, _buffer[_tail]) /\ _tail' = Logs!After(_tail)
        /\ UNCHANGED <<_buffer, _head, pushing, entry, refused, printed>>
    BY DEF BatchInv, Logs!FlushOne
  <1>2. /\ BufferSize \in Nat \ {0} /\ _buffer \in [0..BufferSize - 1 -> Nat]
        /\ _head \in 0..BufferSize - 1 /\ _tail \in 0..BufferSize - 1 /\ _head # _tail
    BY <1>1, BatchSizes DEF BatchTypes
  <1>3. /\ _tail' = (_tail + 1) % BufferSize /\ _tail' \in 0..BufferSize - 1
        /\ Logs!After(_head) # _tail'
    BY <1>1, <1>2, BatchSlots
  <1>4. BatchTypes'
    BY <1>1, <1>2, <1>3 DEF BatchTypes
  <1>5. BatchPush'
    BY <1>1, <1>3 DEF BatchPush, Logs!After
  <1>6. InTheRing = <<_buffer[_tail]>> \o InTheRing'
    <2>1. InTheRing = <<_buffer[_tail]>>
              \o Unread(BufferSize, _buffer, _head, (_tail + 1) % BufferSize)
      BY ONLY <1>2, TakeSlot DEF InTheRing
    <2>2. InTheRing' = Unread(BufferSize, _buffer, _head, _tail')
      BY <1>1 DEF InTheRing, Unread
    <2>3. QED  BY <1>3, <2>1, <2>2
  <1>7. PICK rest, first : rest = InTheRing' /\ first = _buffer[_tail]
    OBVIOUS
  <1>8. /\ printed \in Seq(Nat) /\ batch \in Seq(Nat) /\ first \in Nat
        /\ rest \in Seq(Nat)
    <2>1. rest \in Seq(Nat)
      <3>1. rest = Unread(BufferSize, _buffer, _head, _tail')
        BY <1>1, <1>7 DEF InTheRing, Unread
      <3>2. QED  BY ONLY <1>2, <1>3, <3>1, UnreadIsASequence
    <2>2. QED  BY <1>1, <1>2, <1>7, <2>1 DEF BatchTypes
  <1>9. (printed \o batch) \o (<<first>> \o rest) = (printed \o Append(batch, first)) \o rest
    <2>1. \A a, b, c \in Seq(Nat), x \in Nat :
              (a \o b) \o (<<x>> \o c) = (a \o Append(b, x)) \o c
      BY PassOn, SMTT(30)
    <2>2. QED  BY ONLY <1>8, <2>1, ZenonT(30)
  <1>10. (printed \o batch) \o InTheRing = ((printed \o batch) \o InTheRing)'
    BY <1>1, <1>6, <1>7, <1>9
  <1>11. Logs!Taken' = Logs!Taken
    BY <1>1 DEF Logs!Taken
  <1>12. QED  BY <1>4, <1>5, <1>10, <1>11 DEF BatchInv

LEMMA PrintStep ==
    ASSUME BatchInv, Logs!PrintBatch
    PROVE  BatchInv'
  <1>1. /\ BatchTypes /\ BatchPush
        /\ printed' = printed \o batch /\ batch' = <<>>
        /\ UNCHANGED <<_buffer, _head, _tail, pushing, entry, refused>>
    BY DEF BatchInv, Logs!PrintBatch
  <1>2. BatchTypes' /\ BatchPush'
    BY <1>1 DEF BatchTypes, BatchPush, Logs!After
  <1>3. InTheRing' = InTheRing /\ Logs!Taken' = Logs!Taken
    BY <1>1 DEF InTheRing, Logs!Taken
  <1>4. (printed \o batch) \o <<>> = printed \o batch
    BY <1>1 DEF BatchTypes
  <1>5. QED  BY <1>1, <1>2, <1>3, <1>4 DEF BatchInv

LEMMA BatchStep == BatchInv /\ [Logs!BatchNext]_batchVars => BatchInv'
  <1> SUFFICES ASSUME BatchInv, [Logs!BatchNext]_batchVars
               PROVE  BatchInv'
    OBVIOUS
  <1>1. CASE Logs!Loop \/ Logs!Stop \/ UNCHANGED batchVars
    <2>1. UNCHANGED <<_buffer, _head, _tail, pushing, entry, refused, batch, printed>>
      BY <1>1 DEF batchVars, Logs!Loop, Logs!Stop
    <2>2. QED  BY <2>1 DEF BatchInv, BatchTypes, BatchPush, InTheRing, Logs!Taken, Logs!After
  <1>2. QED  BY <1>1, BatchLogStep, WriteEntryStep, BatchStoreStep, FlushOneStep, PrintStep
             DEF Logs!BatchNext, Logs!Push, Logs!Run

LEMMA BatchIsPrinted == BatchInv => Logs!PrintedInOrder
  <1> SUFFICES ASSUME BatchInv  PROVE Logs!PrintedInOrder
    OBVIOUS
  <1>1. PICK all : all = (printed \o batch) \o Logs!Pending
    OBVIOUS
  <1>2. /\ all \in Seq(Nat) /\ Lined(all, Logs!Taken)
    BY <1>1, RingOfNumbers DEF BatchInv, BatchTypes
  <1>3. DOMAIN all = 1..Len(all)
    BY <1>2
  <1>4. Logs!ToSet(all) = Logs!Taken
    BY <1>2, <1>3 DEF Lined, Logs!ToSet
  <1>5. \A i, j \in DOMAIN all : i < j => all[i] < all[j]
    BY <1>2, <1>3 DEF Lined
  <1>6. QED  BY <1>1, <1>4, <1>5 DEF Logs!PrintedInOrder

\* However the two threads run, what push did not refuse is printed, in the batch or in
\* the ring, once and in order.
THEOREM BatchesLoseNothing == BuffersSpec => []Logs!PrintedInOrder
  <1>1. BuffersInit => BatchInv
    BY BatchInitially DEF BuffersInit
  <1>2. BatchInv /\ [BuffersNext]_buffersVars => BatchInv'
    <2>1. [BuffersNext]_buffersVars => [Logs!BatchNext]_batchVars
      BY DEF BuffersNext, buffersVars, exceptRing, exceptLogger, exceptRotator, exceptFrames
    <2>2. QED  BY <2>1, BatchStep
  <1>3. QED  BY <1>1, <1>2, BatchIsPrinted, PTL DEF BuffersSpec

-------------------------------------------------------------------------------

(***************************************************************************)
(* The rotated files.  What renames, removals and restarts do to the lines *)
(* is the same for every number of files: a file moves to a name that is   *)
(* free, the oldest file is dropped, or a line is added to the current one.*)
(***************************************************************************)

\* The lines of files 0 .. N, and whether x is one of them.
LinesOf(f) == [i \in DOMAIN f |-> IF f[i] = NoFile THEN <<>> ELSE f[i]]
IsLine(N, g, x) == \E i \in 0..N : \E k \in 1..Len(g[i]) : x = g[i][k]

Ordered(N, g) ==
    \A i, j \in 0..N : \A k \in 1..Len(g[i]), l \in 1..Len(g[j]) :
        i > j \/ (i = j /\ k < l) => g[i][k] < g[j][l]

LastLines(N, g, n) ==
    /\ \A x : IsLine(N, g, x) => x \in 1..n /\ \A y \in x..n : IsLine(N, g, y)
    /\ Ordered(N, g)

LEMMA FilesHaveLines ==
    ASSUME NEW N \in Nat, NEW f \in [0..N -> Seq(Nat) \cup {NoFile}]
    PROVE  /\ LinesOf(f) \in [0..N -> Seq(Nat)]
           /\ \A i \in 0..N : LinesOf(f)[i] = IF f[i] = NoFile THEN <<>> ELSE f[i]
  BY DEF LinesOf

\* The file a moves to a name where there are no lines.
Moved(N, g, h, a, b) ==
    /\ a \in 0..N /\ b \in 0..N /\ b = a + 1
    /\ g[b] = <<>> /\ h[a] = <<>> /\ h[b] = g[a]
    /\ \A i \in 0..N : i # a /\ i # b => h[i] = g[i]

LEMMA MoveFile ==
    ASSUME NEW N \in Nat, NEW g \in [0..N -> Seq(Nat)], NEW h \in [0..N -> Seq(Nat)],
           NEW a, NEW b, Moved(N, g, h, a, b)
    PROVE  /\ \A x : IsLine(N, h, x) <=> IsLine(N, g, x)
           /\ \A n \in Nat : LastLines(N, g, n) => LastLines(N, h, n)
  <1>. /\ a \in 0..N /\ b \in 0..N /\ b = a + 1
       /\ g[b] = <<>> /\ h[a] = <<>> /\ h[b] = g[a]
       /\ \A i \in 0..N : i # a /\ i # b => h[i] = g[i]
    BY DEF Moved
  <1>1. Len(g[b]) = 0 /\ Len(h[a]) = 0
    OBVIOUS
  <1>2. ASSUME NEW x, IsLine(N, h, x)
        PROVE  IsLine(N, g, x)
    <2>1. PICK i \in 0..N, k \in Nat : k \in 1..Len(h[i]) /\ x = h[i][k]
      BY ONLY <1>2 DEF IsLine
    <2>2. CASE i = b
      BY <2>1, <2>2 DEF IsLine
    <2>3. CASE i # b
      <3>1. i # a
        BY <1>1, <2>1
      <3>2. h[i] = g[i]
        BY <2>3, <3>1
      <3>3. QED  BY <2>1, <3>2 DEF IsLine
    <2>4. QED  BY <2>2, <2>3
  <1>3. ASSUME NEW x, IsLine(N, g, x)
        PROVE  IsLine(N, h, x)
    <2>1. PICK i \in 0..N, k \in Nat : k \in 1..Len(g[i]) /\ x = g[i][k]
      BY ONLY <1>3 DEF IsLine
    <2>2. CASE i = a
      BY <2>1, <2>2 DEF IsLine
    <2>3. CASE i # a
      <3>1. i # b
        BY <1>1, <2>1
      <3>2. h[i] = g[i]
        BY <2>3, <3>1
      <3>3. QED  BY <2>1, <3>2 DEF IsLine
    <2>4. QED  BY <2>2, <2>3
  <1>4. ASSUME Ordered(N, g)  PROVE Ordered(N, h)
    <2> SUFFICES ASSUME NEW i \in 0..N, NEW j \in 0..N,
                        NEW k \in 1..Len(h[i]), NEW l \in 1..Len(h[j]),
                        i > j \/ (i = j /\ k < l)
                 PROVE  h[i][k] < h[j][l]
      BY DEF Ordered
    <2>1. i # a /\ j # a
      <3>1. ASSUME i = a PROVE FALSE
        <4>1. k \in 1..Len(h[a])
          BY <3>1
        <4>2. QED BY <1>1, <4>1
      <3>2. ASSUME j = a PROVE FALSE
        <4>1. l \in 1..Len(h[j])
          OBVIOUS
        <4>2. Len(h[j]) = 0
          BY <1>1, <3>2
        <4>3. QED BY ONLY <4>1, <4>2
      <3>3. QED BY <3>1, <3>2
    <2>2. PICK i2 \in 0..N : (i = b => i2 = a) /\ (i # b => i2 = i)
      OBVIOUS
    <2>3. PICK j2 \in 0..N : (j = b => j2 = a) /\ (j # b => j2 = j)
      OBVIOUS
    <2>4. h[i] = g[i2] /\ h[j] = g[j2]
      BY <2>1, <2>2, <2>3
    <2>5. i2 > j2 \/ (i2 = j2 /\ k < l)
      <3>1. CASE i = j
        <4>1. k < l
          BY <3>1
        <4>2. i2 = j2
          <5>1. CASE i = b
            BY <2>2, <2>3, <3>1, <5>1
          <5>2. CASE i # b
            BY <2>2, <2>3, <3>1, <5>2
          <5>3. QED  BY <5>1, <5>2
        <4>3. QED  BY <4>1, <4>2
      <3>2. CASE i > j
        <4>1. /\ i \in Int /\ j \in Int /\ a \in Int /\ i > j /\ b = a + 1 /\ j # a
          BY <2>1, <3>2
        <4>2. CASE i = b
          BY <2>2, <2>3, <4>1, <4>2
        <4>3. CASE j = b /\ i # b
          BY <2>2, <2>3, <4>1, <4>3
        <4>4. QED  BY <2>2, <2>3, <4>1, <4>2, <4>3
      <3>3. QED  BY <3>1, <3>2
    <2>6. k \in 1..Len(g[i2]) /\ l \in 1..Len(g[j2])
      BY <2>4
    <2>7. g[i2][k] < g[j2][l]
      BY <1>4, <2>5, <2>6 DEF Ordered
    <2>8. QED  BY <2>4, <2>7
  <1>5. QED  BY <1>2, <1>3, <1>4 DEF LastLines

\* The oldest file that has lines is dropped: what is left are the last lines.
LEMMA DropOldest ==
    ASSUME NEW N \in Nat, NEW g \in [0..N -> Seq(Nat)], NEW h \in [0..N -> Seq(Nat)],
           NEW n \in Nat, NEW a \in 0..N, LastLines(N, g, n),
           \A i \in 0..N : i > a => g[i] = <<>>,
           h[a] = <<>>, \A i \in 0..N : i # a => h[i] = g[i]
    PROVE  LastLines(N, h, n)
  <1>1. Len(h[a]) = 0
    OBVIOUS
  <1>2. ASSUME NEW x, IsLine(N, h, x)
        PROVE  x \in 1..n /\ \A y \in x..n : IsLine(N, h, y)
    <2>1. PICK i \in 0..N, k \in Nat : k \in 1..Len(h[i]) /\ x = h[i][k]
      BY <1>2 DEF IsLine
    <2>2. i # a /\ h[i] = g[i]
      <3>1. ASSUME i = a  PROVE FALSE
        <4>1. Len(h[i]) = 0
          BY <1>1, <3>1
        <4>2. k \in 1..Len(h[i])
          BY <2>1
        <4>3. QED  BY ONLY <4>1, <4>2
      <3>2. QED  BY <3>1
    <2>3. Len(g[i]) # 0 /\ i < a
      <3>1. Len(g[i]) # 0
        BY <2>1, <2>2
      <3>2. QED  BY <2>2, <3>1
    <2>4. IsLine(N, g, x)
      BY <2>1, <2>2 DEF IsLine
    <2>5. ASSUME NEW y \in x..n
          PROVE  IsLine(N, h, y)
      <3>1. IsLine(N, g, y)
        BY <2>4, <2>5 DEF LastLines
      <3>2. PICK j \in 0..N, l \in Nat : l \in 1..Len(g[j]) /\ y = g[j][l]
        BY <3>1 DEF IsLine
      <3>3. j # a
        <4>1. ASSUME j = a  PROVE FALSE
          <5>1. k \in 1..Len(g[i]) /\ g[j][l] < g[i][k]
            BY <2>1, <2>2, <2>3, <3>2, <4>1 DEF LastLines, Ordered
          <5>2. x \in 1..n
            BY <2>4 DEF LastLines
          <5>3. y < x
            <6>1. x = g[i][k] /\ y = g[j][l]
              BY <2>1, <2>2, <3>2
            <6>2. QED  BY <5>1, <6>1
          <5>4. QED  BY <2>5, <5>2, <5>3
        <4>2. QED  BY <4>1
      <3>4. h[j] = g[j]
        BY <3>3
      <3>5. QED  BY <3>2, <3>4 DEF IsLine
    <2>6. QED  BY <2>4, <2>5 DEF LastLines
  <1>3. Ordered(N, h)
    <2> SUFFICES ASSUME NEW i \in 0..N, NEW j \in 0..N,
                        NEW k \in 1..Len(h[i]), NEW l \in 1..Len(h[j]),
                        i > j \/ (i = j /\ k < l)
                 PROVE  h[i][k] < h[j][l]
      BY DEF Ordered
    <2>1. ASSUME i = a  PROVE FALSE
      <3>1. k \in 1..Len(h[a])
        BY <2>1
      <3>2. QED  BY <1>1, <3>1
    <2>2. ASSUME j = a  PROVE FALSE
      <3>1. l \in 1..Len(h[j])
        OBVIOUS
      <3>2. Len(h[j]) = 0
        BY <1>1, <2>2
      <3>3. QED  BY ONLY <3>1, <3>2
    <2>3. h[i] = g[i] /\ h[j] = g[j]
      BY <2>1, <2>2
    <2>4. QED  BY <2>3 DEF LastLines, Ordered
  <1>4. QED  BY <1>2, <1>3 DEF LastLines

\* The next line is added to the current file.
LEMMA AddLine ==
    ASSUME NEW N \in Nat, NEW g \in [0..N -> Seq(Nat)], NEW h \in [0..N -> Seq(Nat)],
           NEW n \in Nat, LastLines(N, g, n), h[0] = Append(g[0], n + 1),
           \A i \in 0..N : i # 0 => h[i] = g[i]
    PROVE  /\ \A x : IsLine(N, h, x) <=> IsLine(N, g, x) \/ x = n + 1
           /\ LastLines(N, h, n + 1)
  <1>0. 0 \in 0..N
    OBVIOUS
  <1>1. /\ Len(h[0]) = Len(g[0]) + 1 /\ h[0][Len(g[0]) + 1] = n + 1
        /\ \A k \in 1..Len(g[0]) : h[0][k] = g[0][k]
    <2>1. g[0] \in Seq(Nat) /\ n + 1 \in Nat
      BY <1>0
    <2>2. QED  BY <2>1
  <1>2. \A i \in 0..N : \A k \in 1..Len(h[i]) :
            \/ k \in 1..Len(g[i]) /\ h[i][k] = g[i][k]
            \/ i = 0 /\ k = Len(g[0]) + 1 /\ h[i][k] = n + 1
    <2>1. Len(g[0]) \in Nat
      BY <1>0
    <2>2. ASSUME NEW k \in 1..Len(h[0])
          PROVE  \/ k \in 1..Len(g[0]) /\ h[0][k] = g[0][k]
                 \/ k = Len(g[0]) + 1 /\ h[0][k] = n + 1
      BY <1>1, <2>1
    <2>3. QED  BY <2>2
  <1>3. \A i \in 0..N : \A k \in 1..Len(g[i]) : k \in 1..Len(h[i]) /\ h[i][k] = g[i][k]
    <2>1. Len(g[0]) \in Nat
      BY <1>0
    <2>2. \A k \in 1..Len(g[0]) : k \in 1..Len(h[0])
      BY <1>1, <2>1
    <2>3. QED  BY <1>1, <2>2
  <1>4. \A x : IsLine(N, h, x) => IsLine(N, g, x) \/ x = n + 1
    BY <1>2 DEF IsLine
  <1>5. \A x : IsLine(N, g, x) => IsLine(N, h, x)
    BY <1>3 DEF IsLine
  <1>6. IsLine(N, h, n + 1)
    <2>1. Len(g[0]) + 1 \in 1..Len(h[0])
      BY <1>0, <1>1
    <2>2. QED  BY <1>0, <1>1, <2>1 DEF IsLine
  <1>7. ASSUME NEW x, IsLine(N, h, x)
        PROVE  x \in 1..n + 1 /\ \A y \in x..n + 1 : IsLine(N, h, y)
    <2>1. CASE x = n + 1
      BY <1>6, <2>1
    <2>2. CASE IsLine(N, g, x)
      <3>1. x \in 1..n /\ \A y \in x..n : IsLine(N, g, y)
        BY <2>2 DEF LastLines
      <3>2. \A y \in x..n + 1 : y \in x..n \/ y = n + 1
        BY <3>1
      <3>3. QED  BY <1>5, <1>6, <3>1, <3>2
    <2>3. QED  BY <1>4, <1>7, <2>1, <2>2
  <1>8. Ordered(N, h)
    <2> SUFFICES ASSUME NEW i \in 0..N, NEW j \in 0..N,
                        NEW k \in 1..Len(h[i]), NEW l \in 1..Len(h[j]),
                        i > j \/ (i = j /\ k < l)
                 PROVE  h[i][k] < h[j][l]
      BY DEF Ordered
    <2>1. k \in 1..Len(g[i]) /\ h[i][k] = g[i][k]
      <3>1. CASE k \in 1..Len(g[i]) /\ h[i][k] = g[i][k]
        BY <3>1
      <3>2. CASE i = 0 /\ k = Len(g[0]) + 1
        <4>1. j = 0 /\ k < l
          BY <3>2
        <4>2. l \in 1..Len(h[0])
          BY <4>1
        <4>3. l \in 1..Len(g[0]) + 1 /\ Len(g[0]) \in Nat
          BY <1>0, <1>1, <4>2
        <4>4. QED  BY ONLY <3>2, <4>1, <4>3
      <3>3. QED  BY <1>2, <3>1, <3>2
    <2>2. CASE l \in 1..Len(g[j]) /\ h[j][l] = g[j][l]
      BY <2>1, <2>2 DEF LastLines, Ordered
    <2>3. CASE h[j][l] = n + 1
      <3>1. g[i][k] \in 1..n
        BY <2>1 DEF LastLines, IsLine
      <3>2. h[i][k] \in 1..n
        BY <2>1, <3>1
      <3>3. \A y \in 1..n : y < n + 1
        OBVIOUS
      <3>4. QED  BY <2>3, <3>2, <3>3
    <2>4. QED  BY <1>2, <2>2, <2>3
  <1>9. QED  BY <1>4, <1>5, <1>6, <1>7, <1>8 DEF LastLines

(***************************************************************************)
(* The invariant of the rotation.  Between two of its steps one name below *)
(* Last is free at most, the one after the loop's i, and what is removed is*)
(* the oldest file.  A restart may leave more names free: RotatorBackups is*)
(* about a process that was never interrupted.                             *)
(***************************************************************************)

\* The number of backups that rotateLogs makes.
Last == IF maxFiles > 1 THEN maxFiles ELSE 1

RotatorTypes ==
    /\ maxFiles \in MaxFiles /\ lines \in Nat
    /\ files \in [0..Logs!Oldest -> Seq(Nat) \cup {NoFile}]
    /\ index \in -1..Last - 1

RotatorFiles ==
    /\ files[0] = NoFile => index = 0 /\ files[1] # NoFile
    /\ \A i \in 0..Logs!Oldest : i > Last => files[i] = NoFile
    /\ index >= 0 /\ index < Last - 1 /\ files[0] # NoFile => files[index + 1] = NoFile

LinesKept == LastLines(Logs!Oldest, LinesOf(files), lines)
Missing == \E y \in 1..lines : ~IsLine(Logs!Oldest, LinesOf(files), y)

RotatorBackups ==
    ~restarted =>
        /\ \A i, j \in 1..Last : i < j /\ files[j] # NoFile =>
              files[i] # NoFile \/ (i = index + 1 /\ index >= 0 /\ files[0] # NoFile)
        /\ Missing => \/ files[Last] # NoFile
                      \/ index = Last - 1 /\ index > 0 /\ files[index] # NoFile

RotatorInv == RotatorTypes /\ RotatorFiles /\ LinesKept /\ RotatorBackups

LEMMA RotatorSizes ==
    /\ Logs!Oldest \in Nat /\ Logs!Oldest' = Logs!Oldest
    /\ MaxFiles \subseteq Nat /\ NoFile \notin Seq(Nat)
    /\ maxFiles \in MaxFiles => Last \in 1..Logs!Oldest /\ Logs!Max({1, maxFiles}) = Last
  <1>1. /\ MaxFiles \subseteq Nat /\ \E m \in MaxFiles : \A n \in MaxFiles : n <= m
        /\ NoFile \notin Seq(Nat)
    BY BuffersAssumption DEF Logs!LogRotatorAssumption
  <1>2. PICK m \in MaxFiles : \A n \in MaxFiles : n <= m
    BY <1>1
  <1>3. Logs!Max(MaxFiles) \in MaxFiles /\ \A n \in MaxFiles : Logs!Max(MaxFiles) >= n
    <2>1. \A n \in MaxFiles : m >= n
      BY <1>1, <1>2
    <2>2. QED  BY <1>2, <2>1 DEF Logs!Max
  <1>4. Logs!Oldest = Logs!Max(MaxFiles) + 1
    BY DEF Logs!Oldest
  <1>5. Logs!Oldest' = Logs!Oldest
    BY DEF Logs!Oldest, Logs!Max
  <1>6. ASSUME maxFiles \in MaxFiles
        PROVE  Last \in 1..Logs!Oldest /\ Logs!Max({1, maxFiles}) = Last
    <2>1. maxFiles \in Nat /\ Logs!Max(MaxFiles) \in Nat /\ Logs!Max(MaxFiles) >= maxFiles
      BY <1>1, <1>3, <1>6
    <2>2. Last \in 1..Logs!Oldest
      BY <1>4, <2>1 DEF Last
    <2>3. \A x \in {1, maxFiles} : (\A y \in {1, maxFiles} : x >= y) <=> x = Last
      BY <2>1 DEF Last
    <2>4. Last \in {1, maxFiles}
      BY DEF Last
    <2>5. QED  BY <2>2, <2>3, <2>4 DEF Logs!Max
  <1>7. Logs!Oldest \in Nat
    <2>1. Logs!Max(MaxFiles) \in Nat
      BY <1>1, <1>3
    <2>2. QED  BY <1>4, <2>1
  <1>8. QED  BY <1>1, <1>5, <1>6, <1>7

LEMMA LinesAfter ==
    /\ LinesKept' <=> LastLines(Logs!Oldest, LinesOf(files'), lines')
    /\ Missing' <=> \E y \in 1..lines' : ~IsLine(Logs!Oldest, LinesOf(files'), y)
  BY RotatorSizes DEF LinesKept, Missing, LastLines, IsLine, Ordered, LinesOf

LEMMA RotatorInitially == Logs!RotatorInit => RotatorInv
  <1> SUFFICES ASSUME Logs!RotatorInit  PROVE RotatorInv
    OBVIOUS
  <1>1. /\ maxFiles \in MaxFiles /\ lines = 0 /\ index = -1
        /\ files = [i \in 0..Logs!Oldest |-> IF i = 0 THEN <<>> ELSE NoFile]
    BY DEF Logs!RotatorInit, Logs!Names
  <1>2. /\ Logs!Oldest \in Nat /\ Last \in 1..Logs!Oldest /\ <<>> \in Seq(Nat)
        /\ <<>> # NoFile
    BY <1>1, RotatorSizes
  <1>3. files \in [0..Logs!Oldest -> Seq(Nat) \cup {NoFile}]
    BY <1>1, <1>2
  <1>4. RotatorTypes /\ RotatorFiles
    BY <1>1, <1>2, <1>3 DEF RotatorTypes, RotatorFiles
  <1>5. \A i \in 0..Logs!Oldest : LinesOf(files)[i] = <<>>
    BY <1>1, <1>2, <1>3, FilesHaveLines
  <1>6. \A x : ~IsLine(Logs!Oldest, LinesOf(files), x)
    <2>1. \A i \in 0..Logs!Oldest : Len(LinesOf(files)[i]) = 0
      BY <1>5
    <2>2. QED  BY <2>1 DEF IsLine
  <1>7. Ordered(Logs!Oldest, LinesOf(files))
    <2>1. \A i \in 0..Logs!Oldest : Len(LinesOf(files)[i]) = 0
      BY <1>5
    <2>2. QED  BY <2>1 DEF Ordered
  <1>8. LinesKept
    BY <1>6, <1>7 DEF LinesKept, LastLines
  <1>9. RotatorBackups
    <2>1. \A i \in 1..Last : files[i] = NoFile
      BY <1>1, <1>2
    <2>2. ~Missing
      BY <1>1 DEF Missing
    <2>3. QED  BY <2>1, <2>2 DEF RotatorBackups
  <1>10. QED  BY <1>4, <1>8, <1>9 DEF RotatorInv

LEMMA LogLineStep ==
    ASSUME RotatorInv, Logs!LogLine
    PROVE  RotatorInv'
  <1>1. /\ RotatorTypes /\ RotatorFiles /\ RotatorBackups
        /\ index = -1 /\ files[0] # NoFile /\ lines' = lines + 1
        /\ files' = [files EXCEPT ![0] = Append(files[0], lines + 1)]
        /\ index' = -1 \/ index' = IF maxFiles = 0 THEN 0 ELSE maxFiles - 1
        /\ UNCHANGED <<maxFiles, restarted>>
    BY DEF RotatorInv, Logs!LogLine
  <1>2. PICK N \in Nat : N = Logs!Oldest
    BY RotatorSizes
  <1>3. /\ maxFiles \in Nat /\ lines \in Nat /\ Last \in 1..N /\ Last' = Last
        /\ files \in [0..N -> Seq(Nat) \cup {NoFile}] /\ 0 \in 0..N
        /\ Logs!Oldest' = N
    BY <1>1, <1>2, RotatorSizes DEF RotatorTypes, Last
  <1>4. files[0] \in Seq(Nat) /\ lines + 1 \in Nat
    BY <1>1, <1>3
  <1>5. Append(files[0], lines + 1) \in Seq(Nat)
    BY <1>4
  <1>6. /\ files' \in [0..N -> Seq(Nat) \cup {NoFile}]
        /\ files'[0] = Append(files[0], lines + 1) /\ files'[0] # NoFile
        /\ \A i \in 0..N : i # 0 => files'[i] = files[i]
    BY <1>1, <1>3, <1>5, RotatorSizes
  <1>7. index' \in {-1, Last - 1}
    BY <1>1, <1>3 DEF Last
  <1>8. RotatorTypes'
    BY <1>1, <1>3, <1>4, <1>6, <1>7 DEF RotatorTypes
  <1>9. RotatorFiles'
    <2>1. \A i \in 0..N : i > Last => files'[i] = NoFile
      BY <1>1, <1>2, <1>3, <1>6 DEF RotatorFiles
    <2>2. ~(index' >= 0 /\ index' < Last - 1)
      BY <1>3, <1>7
    <2>3. QED  BY <1>3, <1>6, <2>1, <2>2 DEF RotatorFiles
  <1>10. PICK g, h : g = LinesOf(files) /\ h = LinesOf(files')
    OBVIOUS
  <1>11. /\ g \in [0..N -> Seq(Nat)] /\ h \in [0..N -> Seq(Nat)]
         /\ h[0] = Append(g[0], lines + 1)
         /\ \A i \in 0..N : i # 0 => h[i] = g[i]
    <2>1. /\ g \in [0..N -> Seq(Nat)]
          /\ \A i \in 0..N : g[i] = IF files[i] = NoFile THEN <<>> ELSE files[i]
      BY <1>3, <1>10, FilesHaveLines
    <2>2. /\ h \in [0..N -> Seq(Nat)]
          /\ \A i \in 0..N : h[i] = IF files'[i] = NoFile THEN <<>> ELSE files'[i]
      BY <1>6, <1>10, FilesHaveLines
    <2>3. g[0] = files[0] /\ h[0] = files'[0]
      BY <1>1, <1>3, <1>6, <2>1, <2>2
    <2>4. \A i \in 0..N : i # 0 => h[i] = g[i]
      BY <1>6, <2>1, <2>2
    <2>5. QED  BY <1>6, <2>1, <2>2, <2>3, <2>4
  <1>12. LastLines(N, g, lines)
    BY <1>2, <1>10 DEF RotatorInv, LinesKept
  <1>13. /\ \A x : IsLine(N, h, x) <=> IsLine(N, g, x) \/ x = lines + 1
         /\ LastLines(N, h, lines + 1)
    BY ONLY <1>3, <1>11, <1>12, AddLine, ZenonT(30)
  <1>14. LinesKept'
    BY <1>1, <1>2, <1>10, <1>13, LinesAfter
  <1>15. Missing' => Missing
    <2>1. SUFFICES ASSUME NEW y \in 1..lines + 1, ~IsLine(N, h, y)
                   PROVE  Missing
      BY <1>1, <1>2, <1>10, LinesAfter
    <2>2. ~IsLine(N, g, y) /\ y \in 1..lines
      BY <1>3, <1>13, <2>1, SMTT(30)
    <2>3. QED  BY <1>2, <1>10, <2>2 DEF Missing
  <1>16. RotatorBackups'
    <2>1. \A i \in 1..Last : files'[i] = files[i]
      BY <1>3, <1>6
    <2>2. Last \in 1..Last
      BY <1>3
    <2>3. QED  BY <1>1, <1>3, <1>15, <2>1, <2>2 DEF RotatorBackups
  <1>17. QED  BY <1>8, <1>9, <1>14, <1>16 DEF RotatorInv

\* Only the oldest of the names that rotateLogs shifts to can be in use.
LEMMA RemoveNewStep ==
    ASSUME RotatorInv, Logs!RemoveNew
    PROVE  RotatorInv'
  <1>1. /\ RotatorTypes /\ RotatorFiles /\ RotatorBackups
        /\ index > 0 /\ files[index] # NoFile /\ files[index + 1] # NoFile
        /\ files' = [files EXCEPT ![index + 1] = NoFile]
        /\ UNCHANGED <<maxFiles, lines, index, restarted>>
    BY DEF RotatorInv, Logs!RemoveNew
  <1>2. PICK N \in Nat : N = Logs!Oldest
    BY RotatorSizes
  <1>3. /\ lines \in Nat /\ index \in Int /\ Last \in 1..N /\ Last' = Last
        /\ index \in -1..Last - 1
        /\ files \in [0..N -> Seq(Nat) \cup {NoFile}]
        /\ Logs!Oldest' = N
    BY <1>1, <1>2, RotatorSizes DEF RotatorTypes, Last
  <1>4. files[0] # NoFile
    BY <1>1, <1>3 DEF RotatorFiles
  <1>5. index = Last - 1
    <2>1. ~(index >= 0 /\ index < Last - 1)
      BY <1>1, <1>4 DEF RotatorFiles
    <2>2. QED  BY <1>1, <1>3, <2>1
  <1>6. /\ Last = index + 1 /\ Last \in 0..N /\ Last # 0 /\ index # Last
    BY <1>1, <1>3, <1>5
  <1>7. /\ files' \in [0..N -> Seq(Nat) \cup {NoFile}]
        /\ files'[Last] = NoFile
        /\ \A i \in 0..N : i # Last => files'[i] = files[i]
    BY <1>1, <1>3, <1>6
  <1>8. 0 \in 0..N /\ index \in 0..N
    BY <1>1, <1>3
  <1>9. RotatorTypes'
    BY <1>1, <1>3, <1>7 DEF RotatorTypes
  <1>10. RotatorFiles'
    <2>1. \A i \in 0..N : i > Last => files'[i] = NoFile
      BY <1>1, <1>2, <1>3, <1>7 DEF RotatorFiles
    <2>2. files'[0] # NoFile
      BY <1>4, <1>6, <1>7, <1>8
    <2>3. QED  BY <1>1, <1>3, <1>5, <2>1, <2>2 DEF RotatorFiles
  <1>11. LinesKept'
    <2>1. PICK g, h : g = LinesOf(files) /\ h = LinesOf(files')
      OBVIOUS
    <2>2. /\ g \in [0..N -> Seq(Nat)]
          /\ \A i \in 0..N : g[i] = IF files[i] = NoFile THEN <<>> ELSE files[i]
      BY <1>3, <2>1, FilesHaveLines
    <2>3. /\ h \in [0..N -> Seq(Nat)]
          /\ \A i \in 0..N : h[i] = IF files'[i] = NoFile THEN <<>> ELSE files'[i]
      BY <1>7, <2>1, FilesHaveLines
    <2>4. \A i \in 0..N : i > Last => g[i] = <<>>
      BY <1>1, <1>2, <2>2 DEF RotatorFiles
    <2>5. h[Last] = <<>> /\ \A i \in 0..N : i # Last => h[i] = g[i]
      BY <1>6, <1>7, <2>2, <2>3
    <2>6. LastLines(N, g, lines)
      BY <1>2, <2>1 DEF RotatorInv, LinesKept
    <2>7. LastLines(N, h, lines)
      BY ONLY <1>3, <1>6, <2>2, <2>3, <2>4, <2>5, <2>6, DropOldest
    <2>8. QED  BY <1>1, <1>2, <2>1, <2>7, LinesAfter
  <1>12. RotatorBackups'
    <2>1. \A i \in 1..Last : i # Last => files'[i] = files[i]
      BY <1>3, <1>7
    <2>2. files'[index] # NoFile
      BY <1>1, <1>6, <1>7, <1>8
    <2>3. ASSUME ~restarted, NEW i \in 1..Last, NEW j \in 1..Last, i < j, files'[j] # NoFile
          PROVE  files'[i] # NoFile
      <3>1. j # Last /\ i # Last
        BY <1>3, <1>7, <2>3
      <3>2. files[j] # NoFile /\ files'[i] = files[i]
        BY <2>1, <2>3, <3>1
      <3>3. i # index + 1
        BY <1>6, <3>1
      <3>4. QED  BY <1>1, <2>3, <3>2, <3>3 DEF RotatorBackups
    <2>4. QED  BY <1>1, <1>3, <1>5, <2>2, <2>3 DEF RotatorBackups
  <1>13. QED  BY <1>9, <1>10, <1>11, <1>12 DEF RotatorInv

LEMMA ShiftStep ==
    ASSUME RotatorInv, Logs!Shift
    PROVE  RotatorInv'
  <1>1. /\ RotatorTypes /\ RotatorFiles /\ LinesKept /\ RotatorBackups
        /\ index > 0 /\ index' = index - 1
        /\ UNCHANGED <<maxFiles, lines, restarted>>
    BY DEF RotatorInv, Logs!Shift
  <1>2. PICK N \in Nat : N = Logs!Oldest
    BY RotatorSizes
  <1>3. /\ lines \in Nat /\ Last \in 1..N /\ Last' = Last
        /\ index \in 1..Last - 1
        /\ files \in [0..N -> Seq(Nat) \cup {NoFile}]
        /\ Logs!Oldest' = N
    BY <1>1, <1>2, RotatorSizes DEF RotatorTypes, Last
  <1>4. /\ index' \in -1..Last - 1 /\ index' >= 0 /\ index' < Last - 1
        /\ index' + 1 = index
        /\ 0 \in 0..N /\ index \in 0..N /\ index + 1 \in 0..N /\ Last \in 0..N
        /\ index # index + 1 /\ index # 0 /\ index + 1 # 0
    BY <1>1, <1>3
  <1>5. files[0] # NoFile
    BY <1>1, <1>3 DEF RotatorFiles
  <1>6. CASE files[index] = NoFile
    <2>1. files' = files
      BY <1>6 DEF Logs!Shift
    <2>2. RotatorTypes'
      BY <1>1, <1>3, <1>4, <2>1 DEF RotatorTypes
    <2>3. RotatorFiles'
      BY <1>1, <1>2, <1>3, <1>4, <1>5, <1>6, <2>1 DEF RotatorFiles
    <2>4. LinesKept' /\ (Missing' <=> Missing)
      BY <1>1, <2>1, LinesAfter DEF LinesKept, Missing
    <2>5. RotatorBackups'
      <3>1. ASSUME ~restarted, NEW i \in 1..Last, NEW j \in 1..Last, i < j, files[j] # NoFile
            PROVE  files[i] # NoFile \/ i = index
        <4>1. files[i] # NoFile \/ i = index + 1
          BY <1>1, <3>1 DEF RotatorBackups
        <4>2. CASE i = index + 1
          <5>1. index < j /\ index \in 1..Last
            BY <1>3, <3>1, <4>2
          <5>2. files[index] # NoFile \/ index = index + 1
            BY <1>1, <3>1, <5>1 DEF RotatorBackups
          <5>3. QED  BY <1>4, <1>6, <5>2
        <4>3. QED  BY <4>1, <4>2
      <3>2. ~restarted /\ Missing => files[Last] # NoFile
        BY <1>1, <1>6 DEF RotatorBackups
      <3>3. QED  BY <1>1, <1>3, <1>4, <1>5, <2>1, <2>4, <3>1, <3>2 DEF RotatorBackups
    <2>6. QED  BY <2>2, <2>3, <2>4, <2>5 DEF RotatorInv
  <1>7. CASE files[index] # NoFile
    <2>1. /\ files[index + 1] = NoFile
          /\ files' = [files EXCEPT ![index + 1] = files[index], ![index] = NoFile]
      BY <1>7 DEF Logs!Shift, Logs!Renamed
    <2>2. files[index] \in Seq(Nat) \cup {NoFile}
      BY <1>3, <1>4
    <2>3. /\ files' \in [0..N -> Seq(Nat) \cup {NoFile}]
          /\ files'[index + 1] = files[index] /\ files'[index] = NoFile
          /\ \A i \in 0..N : i # index /\ i # index + 1 => files'[i] = files[i]
      BY <1>3, <1>4, <2>1, <2>2
    <2>4. RotatorTypes'
      BY <1>1, <1>3, <1>4, <2>3 DEF RotatorTypes
    <2>5. RotatorFiles'
      <3>1. files'[0] # NoFile
        BY <1>4, <1>5, <2>3
      <3>2. ASSUME NEW i \in 0..N, i > Last
            PROVE  files'[i] = NoFile
        <4>1. i # index /\ i # index + 1
          BY <1>3, <3>2
        <4>2. QED  BY <1>1, <1>2, <2>3, <3>2, <4>1 DEF RotatorFiles
      <3>3. QED  BY <1>3, <1>4, <2>3, <3>1, <3>2 DEF RotatorFiles
    <2>6. LinesKept' /\ (Missing' <=> Missing)
      <3>1. PICK g, h : g = LinesOf(files) /\ h = LinesOf(files')
        OBVIOUS
      <3>2. /\ g \in [0..N -> Seq(Nat)]
            /\ \A i \in 0..N : g[i] = IF files[i] = NoFile THEN <<>> ELSE files[i]
        BY <1>3, <3>1, FilesHaveLines
      <3>3. /\ h \in [0..N -> Seq(Nat)]
            /\ \A i \in 0..N : h[i] = IF files'[i] = NoFile THEN <<>> ELSE files'[i]
        BY <2>3, <3>1, FilesHaveLines
      <3>4. PICK a \in 0..N, b \in 0..N : a = index /\ b = index + 1 /\ b = a + 1
        BY <1>4
      <3>5. /\ g[b] = <<>> /\ h[a] = <<>> /\ h[b] = g[a]
            /\ \A i \in 0..N : i # a /\ i # b => h[i] = g[i]
        BY <1>7, <2>1, <2>3, <3>2, <3>3, <3>4
      <3>6. LastLines(N, g, lines)
        BY <1>1, <1>2, <3>1 DEF LinesKept
      <3>7. /\ \A x : IsLine(N, h, x) <=> IsLine(N, g, x)
            /\ LastLines(N, h, lines)
        <4>1. Moved(N, g, h, a, b)
          BY <3>4, <3>5 DEF Moved
        <4>2. QED  BY <1>3, <3>2, <3>3, <3>6, <4>1, MoveFile
      <3>8. Missing' <=> \E y \in 1..lines : ~IsLine(N, h, y)
        BY <1>1, <1>2, <3>1, LinesAfter
      <3>9. Missing <=> \E y \in 1..lines : ~IsLine(N, g, y)
        BY <1>2, <3>1 DEF Missing
      <3>10. QED  BY <1>1, <1>2, <3>1, <3>7, <3>8, <3>9, LinesAfter
    <2>7. RotatorBackups'
      <3>1. files'[0] # NoFile
        BY <1>4, <1>5, <2>3
      <3>2. ASSUME ~restarted, NEW i \in 1..Last, NEW j \in 1..Last, i < j, files'[j] # NoFile
            PROVE  files'[i] # NoFile \/ i = index
        <4>1. CASE i = index + 1
          BY <1>7, <2>3, <4>1
        <4>2. CASE i # index /\ i # index + 1
          <5>1. files'[i] = files[i]
            BY <1>3, <2>3, <4>2
          <5>2. CASE j = index + 1
            <6>1. i < index /\ index \in 1..Last
              BY <1>3, <3>2, <4>2, <5>2
            <6>2. QED  BY <1>1, <1>7, <3>2, <4>2, <5>1, <6>1 DEF RotatorBackups
          <5>3. CASE j # index + 1
            <6>1. j # index
              BY <2>3, <3>2
            <6>2. files'[j] = files[j]
              BY <1>3, <2>3, <5>3, <6>1
            <6>3. QED  BY <1>1, <3>2, <4>2, <5>1, <6>2 DEF RotatorBackups
          <5>4. QED  BY <5>2, <5>3
        <4>3. QED  BY <4>1, <4>2
      <3>3. ASSUME ~restarted, Missing
            PROVE  files'[Last] # NoFile
        <4>1. CASE index = Last - 1
          <5>1. Last = index + 1
            BY <1>3, <4>1
          <5>2. QED  BY <1>7, <2>3, <5>1
        <4>2. CASE index # Last - 1
          <5>1. files[Last] # NoFile
            BY <1>1, <3>3, <4>2 DEF RotatorBackups
          <5>2. Last # index /\ Last # index + 1
            BY <1>3, <4>2
          <5>3. QED  BY <1>4, <2>3, <5>1, <5>2
        <4>3. QED  BY <4>1, <4>2
      <3>4. QED  BY <1>1, <1>3, <1>4, <2>6, <3>1, <3>2, <3>3 DEF RotatorBackups
    <2>8. QED  BY <2>4, <2>5, <2>6, <2>7 DEF RotatorInv
  <1>8. QED  BY <1>6, <1>7

\* With one backup the rename replaces the only one; with more, file 1 is gone.
LEMMA RenameCurrentStep ==
    ASSUME RotatorInv, Logs!RenameCurrent
    PROVE  RotatorInv'
  <1>1. /\ RotatorTypes /\ RotatorFiles /\ LinesKept /\ RotatorBackups
        /\ index = 0 /\ files[0] # NoFile
        /\ files' = [files EXCEPT ![1] = files[0], ![0] = NoFile]
        /\ UNCHANGED <<maxFiles, lines, index, restarted>>
    BY DEF RotatorInv, Logs!RenameCurrent, Logs!Renamed
  <1>2. PICK N \in Nat : N = Logs!Oldest
    BY RotatorSizes
  <1>3. /\ lines \in Nat /\ Last \in 1..N /\ Last' = Last
        /\ files \in [0..N -> Seq(Nat) \cup {NoFile}]
        /\ Logs!Oldest' = N
    BY <1>1, <1>2, RotatorSizes DEF RotatorTypes, Last
  <1>4. /\ 0 \in 0..N /\ 1 \in 0..N /\ Last \in 0..N
        /\ files[0] \in Seq(Nat) \cup {NoFile}
    BY <1>3
  <1>5. /\ files' \in [0..N -> Seq(Nat) \cup {NoFile}]
        /\ files'[1] = files[0] /\ files'[0] = NoFile
        /\ \A i \in 0..N : i # 0 /\ i # 1 => files'[i] = files[i]
    BY <1>1, <1>3, <1>4
  <1>6. RotatorTypes'
    BY <1>1, <1>3, <1>5 DEF RotatorTypes
  <1>7. RotatorFiles'
    <2>1. \A i \in 0..N : i > Last => files'[i] = NoFile
      BY <1>1, <1>2, <1>3, <1>5 DEF RotatorFiles
    <2>2. QED  BY <1>1, <1>3, <1>5, <2>1 DEF RotatorFiles
  <1>8. PICK g, h : g = LinesOf(files) /\ h = LinesOf(files')
    OBVIOUS
  <1>9. /\ g \in [0..N -> Seq(Nat)]
        /\ \A i \in 0..N : g[i] = IF files[i] = NoFile THEN <<>> ELSE files[i]
    BY <1>3, <1>8, FilesHaveLines
  <1>10. /\ h \in [0..N -> Seq(Nat)]
         /\ \A i \in 0..N : h[i] = IF files'[i] = NoFile THEN <<>> ELSE files'[i]
    BY <1>5, <1>8, FilesHaveLines
  <1>11. /\ h[0] = <<>> /\ h[1] = g[0]
         /\ \A i \in 0..N : i # 0 /\ i # 1 => h[i] = g[i]
    BY <1>1, <1>4, <1>5, <1>9, <1>10
  <1>12. LastLines(N, g, lines)
    BY <1>1, <1>2, <1>8 DEF LinesKept
  <1>13. PICK b \in 0..N : b = 1 /\ b = 0 + 1
    BY <1>4
  <1>14. CASE files[1] = NoFile
    <2>1. g[b] = <<>> /\ h[b] = g[0] /\ \A i \in 0..N : i # 0 /\ i # b => h[i] = g[i]
      BY <1>4, <1>9, <1>11, <1>13, <1>14
    <2>2. /\ \A x : IsLine(N, h, x) <=> IsLine(N, g, x)
          /\ LastLines(N, h, lines)
      <3>1. Moved(N, g, h, 0, b)
        BY <1>4, <1>11, <1>13, <2>1 DEF Moved
      <3>2. QED  BY <1>3, <1>9, <1>10, <1>12, <3>1, MoveFile
    <2>3. LinesKept'
      BY <1>1, <1>2, <1>8, <2>2, LinesAfter
    <2>4. Missing' => Missing
      BY <1>1, <1>2, <1>8, <2>2, LinesAfter DEF Missing
    <2>5. RotatorBackups'
      <3>1. ASSUME ~restarted, NEW i \in 1..Last, NEW j \in 1..Last, i < j, files'[j] # NoFile
            PROVE  files'[i] # NoFile
        <4>1. CASE i = 1
          BY <1>1, <1>5, <4>1
        <4>2. CASE i # 1
          <5>1. /\ i \in 0..N /\ j \in 0..N /\ i # 0 /\ j # 0 /\ j # 1 /\ i # 0 + 1
            BY <1>3, <3>1, <4>2
          <5>2. files'[i] = files[i] /\ files'[j] = files[j]
            BY <1>5, <4>2, <5>1
          <5>3. QED  BY <1>1, <3>1, <5>1, <5>2 DEF RotatorBackups
        <4>3. QED  BY <4>1, <4>2
      <3>2. ASSUME ~restarted, Missing
            PROVE  files'[Last] # NoFile
        <4>1. files[Last] # NoFile
          BY <1>1, <3>2 DEF RotatorBackups
        <4>2. Last # 1 /\ Last # 0
          BY <1>3, <1>14, <4>1
        <4>3. QED  BY <1>4, <1>5, <4>1, <4>2
      <3>3. QED  BY <1>1, <1>3, <2>4, <3>1, <3>2 DEF RotatorBackups
    <2>6. QED  BY <1>6, <1>7, <2>3, <2>5 DEF RotatorInv
  <1>15. CASE files[1] # NoFile
    <2>1. Last = 1
      <3>1. ~(index < Last - 1)
        BY <1>1, <1>15 DEF RotatorFiles
      <3>2. QED  BY <1>1, <1>3, <3>1
    <2>2. \A i \in 0..N : i > b => g[i] = <<>>
      BY <1>1, <1>2, <1>9, <1>13, <2>1 DEF RotatorFiles
    <2>3. PICK m \in [0..N -> Seq(Nat)] : m = [g EXCEPT ![b] = <<>>]
      <3>1. <<>> \in Seq(Nat)
        OBVIOUS
      <3>2. [g EXCEPT ![b] = <<>>] \in [0..N -> Seq(Nat)]
        BY <1>9, <3>1
      <3>3. QED  BY <3>2
    <2>4. m[b] = <<>> /\ \A i \in 0..N : i # b => m[i] = g[i]
      BY <1>9, <2>3
    <2>5. LastLines(N, m, lines)
      BY ONLY <1>3, <1>9, <1>12, <1>13, <2>2, <2>3, <2>4, DropOldest
    <2>6. h[b] = m[0] /\ \A i \in 0..N : i # 0 /\ i # b => h[i] = m[i]
      BY <1>4, <1>11, <1>13, <2>4
    <2>7. LastLines(N, h, lines)
      <3>1. Moved(N, m, h, 0, b)
        BY <1>4, <1>11, <1>13, <2>4, <2>6 DEF Moved
      <3>2. QED  BY <1>3, <1>10, <2>3, <2>5, <3>1, MoveFile
    <2>8. LinesKept'
      BY <1>1, <1>2, <1>8, <2>7, LinesAfter
    <2>9. RotatorBackups'
      BY <1>1, <1>3, <1>5, <2>1 DEF RotatorBackups
    <2>10. QED  BY <1>6, <1>7, <2>8, <2>9 DEF RotatorInv
  <1>16. QED  BY <1>14, <1>15

\* openLogFile and the constructor: the current file is there again, and empty if it
\* was not.
LEMMA OpenStep ==
    ASSUME RotatorInv, Logs!OpenLogFile \/ Logs!CrashAndRestart
    PROVE  RotatorInv'
  <1>1. /\ RotatorTypes /\ RotatorFiles /\ LinesKept /\ RotatorBackups
        /\ files' = [files EXCEPT ![0] = IF files[0] = NoFile THEN <<>> ELSE files[0]]
        /\ index' = -1
        /\ restarted' \/ (restarted' = restarted /\ index = 0 /\ files[0] = NoFile)
        /\ UNCHANGED <<maxFiles, lines>>
    BY DEF RotatorInv, Logs!OpenLogFile, Logs!CrashAndRestart
  <1>2. PICK N \in Nat : N = Logs!Oldest
    BY RotatorSizes
  <1>3. /\ lines \in Nat /\ Last \in 1..N /\ Last' = Last
        /\ files \in [0..N -> Seq(Nat) \cup {NoFile}]
        /\ Logs!Oldest' = N /\ 0 \in 0..N
        /\ <<>> \in Seq(Nat) /\ <<>> # NoFile
    <2>1. <<>> \in Seq(Nat) /\ <<>> # NoFile
      <3>1. <<>> \in Seq(Nat)
        OBVIOUS
      <3>2. QED  BY <3>1, RotatorSizes
    <2>2. QED  BY <1>1, <1>2, <2>1, RotatorSizes DEF RotatorTypes, Last
  <1>4. /\ files' \in [0..N -> Seq(Nat) \cup {NoFile}]
        /\ files'[0] = IF files[0] = NoFile THEN <<>> ELSE files[0]
        /\ files'[0] # NoFile
        /\ \A i \in 0..N : i # 0 => files'[i] = files[i]
    BY <1>1, <1>3
  <1>5. RotatorTypes'
    BY <1>1, <1>3, <1>4 DEF RotatorTypes
  <1>6. RotatorFiles'
    <2>1. \A i \in 0..N : i > Last => files'[i] = NoFile
      BY <1>1, <1>2, <1>3, <1>4 DEF RotatorFiles
    <2>2. QED  BY <1>1, <1>3, <1>4, <2>1 DEF RotatorFiles
  <1>7. LinesOf(files') = LinesOf(files)
    <2>1. /\ LinesOf(files) \in [0..N -> Seq(Nat)]
          /\ \A i \in 0..N : LinesOf(files)[i] = IF files[i] = NoFile THEN <<>> ELSE files[i]
      BY <1>3, FilesHaveLines
    <2>2. /\ LinesOf(files') \in [0..N -> Seq(Nat)]
          /\ \A i \in 0..N : LinesOf(files')[i] = IF files'[i] = NoFile THEN <<>> ELSE files'[i]
      BY <1>4, FilesHaveLines
    <2>3. \A i \in 0..N : LinesOf(files')[i] = LinesOf(files)[i]
      BY <1>4, <2>1, <2>2
    <2>4. QED  BY <2>1, <2>2, <2>3
  <1>8. LinesKept' /\ (Missing' => Missing)
    BY <1>1, <1>7, LinesAfter DEF LinesKept, Missing
  <1>9. RotatorBackups'
    <2>1. \A i \in 1..Last : files'[i] = files[i]
      BY <1>3, <1>4
    <2>2. Last \in 1..Last
      BY <1>3
    <2>3. QED  BY <1>1, <1>3, <1>8, <2>1, <2>2 DEF RotatorBackups
  <1>10. QED  BY <1>5, <1>6, <1>8, <1>9 DEF RotatorInv

LEMMA RotatorStep == RotatorInv /\ [Logs!RotatorNext]_rotatorVars => RotatorInv'
  <1> SUFFICES ASSUME RotatorInv, [Logs!RotatorNext]_rotatorVars
               PROVE  RotatorInv'
    OBVIOUS
  <1>1. CASE UNCHANGED rotatorVars
    <2>1. UNCHANGED <<maxFiles, files, lines, index, restarted>>
      BY <1>1 DEF rotatorVars
    <2>2. LinesKept' /\ (Missing' <=> Missing)
      BY <2>1, LinesAfter DEF RotatorInv, LinesKept, Missing
    <2>3. QED  BY <2>1, <2>2, RotatorSizes
               DEF RotatorInv, RotatorTypes, RotatorFiles, RotatorBackups, Last
  <1>2. QED  BY <1>1, LogLineStep, RemoveNewStep, ShiftStep, RenameCurrentStep, OpenStep
             DEF Logs!RotatorNext, Logs!RotateLogs

LEMMA RotatorKeeps == RotatorInv => Logs!KeepsTheLastLines
  <1> SUFFICES ASSUME RotatorInv  PROVE Logs!KeepsTheLastLines
    OBVIOUS
  <1>1. RotatorTypes /\ RotatorFiles /\ LinesKept /\ RotatorBackups
    BY DEF RotatorInv
  <1>2. PICK N \in Nat : N = Logs!Oldest /\ Logs!Names = 0..N
    BY RotatorSizes DEF Logs!Names
  <1>3. /\ lines \in Nat /\ Last \in 1..N /\ Logs!Max({1, maxFiles}) = Last
        /\ files \in [0..N -> Seq(Nat) \cup {NoFile}]
    BY <1>1, <1>2, RotatorSizes DEF RotatorTypes
  <1>4. PICK g : g = LinesOf(files)
    OBVIOUS
  <1>5. /\ g \in [0..N -> Seq(Nat)]
        /\ \A i \in 0..N : Logs!Content(i) = g[i] /\ DOMAIN g[i] = 1..Len(g[i])
    <2>1. /\ g \in [0..N -> Seq(Nat)]
          /\ \A i \in 0..N : g[i] = IF files[i] = NoFile THEN <<>> ELSE files[i]
      BY <1>3, <1>4, FilesHaveLines
    <2>2. \A i \in 0..N : Logs!Content(i) = g[i]
      BY <2>1 DEF Logs!Content
    <2>3. \A i \in 0..N : DOMAIN g[i] = 1..Len(g[i])
      BY <2>1
    <2>4. QED  BY <2>1, <2>2, <2>3
  <1>6. \A x : x \in Logs!Kept <=> IsLine(N, g, x)
    <2>1. \A i \in 0..N : \A x : x \in Logs!ToSet(Logs!Content(i))
                                     <=> \E k \in 1..Len(g[i]) : x = g[i][k]
      BY <1>5 DEF Logs!ToSet
    <2>2. \A x : x \in Logs!Kept <=> \E i \in 0..N : x \in Logs!ToSet(Logs!Content(i))
      BY <1>2 DEF Logs!Kept
    <2>3. QED  BY <2>1, <2>2 DEF IsLine
  <1>7. LastLines(N, g, lines)
    BY <1>1, <1>2, <1>4 DEF LinesKept
  <1>8. Logs!Kept \subseteq 1..lines /\ \A m \in Logs!Kept : m..lines \subseteq Logs!Kept
    BY <1>6, <1>7 DEF LastLines
  <1>9. \A i, j \in 0..N :
            \A k \in DOMAIN Logs!Content(i), n \in DOMAIN Logs!Content(j) :
                i > j \/ (i = j /\ k < n) => Logs!Content(i)[k] < Logs!Content(j)[n]
    <2>1. Ordered(N, g)
      BY <1>7 DEF LastLines
    <2>2. QED  BY <1>5, <2>1 DEF Ordered
  <1>10. ASSUME ~restarted, index = -1, Logs!Kept # 1..lines
         PROVE  Logs!Backups = 1..Logs!Max({1, maxFiles})
    <2>1. Missing
      <3>1. PICK y \in 1..lines : y \notin Logs!Kept
        BY <1>8, <1>10
      <3>2. QED  BY <1>2, <1>4, <1>6, <3>1 DEF Missing
    <2>2. files[Last] # NoFile
      BY <1>1, <1>10, <2>1 DEF RotatorBackups
    <2>3. \A i \in 1..Last : files[i] # NoFile
      <3>1. ASSUME NEW i \in 1..Last, i # Last
            PROVE  files[i] # NoFile
        <4>1. i < Last /\ Last \in 1..Last
          BY <1>3, <3>1
        <4>2. ~(index >= 0)
          BY <1>10
        <4>3. QED  BY <1>1, <1>10, <2>2, <4>1, <4>2 DEF RotatorBackups
      <3>2. QED  BY <2>2, <3>1
    <2>4. \A i \in (0..N) \ {0} : files[i] # NoFile <=> i \in 1..Last
      <3>1. ASSUME NEW i \in (0..N) \ {0}, i \notin 1..Last
            PROVE  files[i] = NoFile
        <4>1. i \in 0..N /\ i > Last
          BY <1>3, <3>1
        <4>2. QED  BY <1>1, <1>2, <4>1 DEF RotatorFiles
      <3>2. QED  BY <2>3, <3>1
    <2>5. 1..Last \subseteq (0..N) \ {0}
      BY <1>3
    <2>6. QED  BY <1>2, <1>3, <2>4, <2>5 DEF Logs!Backups
  <1>11. QED  BY <1>2, <1>8, <1>9, <1>10 DEF Logs!KeepsTheLastLines

\* For every number of files and lines: wherever the process ended, in the middle of a
\* rotation too, the files hold the last lines logged, each once and in order, and one
\* that was never interrupted drops no line before it has all its backups.
THEOREM RotationKeepsTheLastLines == BuffersSpec => []KeepsTheLastLines
  <1>1. BuffersInit => RotatorInv
    BY RotatorInitially DEF BuffersInit
  <1>2. RotatorInv /\ [BuffersNext]_buffersVars => RotatorInv'
    <2>1. [BuffersNext]_buffersVars => [Logs!RotatorNext]_rotatorVars
      BY DEF BuffersNext, buffersVars, exceptRing, exceptLogger, exceptBatch, exceptFrames
    <2>2. QED  BY <2>1, RotatorStep
  <1>3. RotatorInv => KeepsTheLastLines
    BY RotatorKeeps DEF KeepsTheLastLines
  <1>4. QED  BY <1>1, <1>2, <1>3, PTL DEF BuffersSpec

-------------------------------------------------------------------------------

(***************************************************************************)
(* The codecs.  What a function defined by recursion computes is proved by *)
(* looking at the least argument for which it would not.                   *)
(***************************************************************************)

LEMMA LeastNumber ==
    ASSUME NEW T, T \subseteq Nat, T # {}
    PROVE  \E x \in T : \A y \in T : x <= y
  <1>1. PICK x \in T : \A y \in T : ~ (<<y, x>> \in OpToRel(<, Nat))
    BY NatLessThanWellFounded, WFMin
  <1>2. ASSUME NEW y \in T
        PROVE  x <= y
    <2>1. <<y, x>> \notin OpToRel(<, Nat)
      BY <1>1
    <2>2. ~ (y < x)
      BY <2>1 DEF OpToRel
    <2>3. QED  BY <2>2
  <1>3. QED  BY <1>2

\* Induction up to a number, for a property given as the set of those that have it.
LEMMA Induction ==
    ASSUME NEW n \in Nat, NEW G, 0 \in G,
           \A m \in 0..n - 1 : m \in G => m + 1 \in G
    PROVE  \A m \in 0..n : m \in G
  <1>1. PICK T : T = {m \in 0..n : m \notin G}
    OBVIOUS
  <1>2. ASSUME T # {}
        PROVE  FALSE
    <2>1. T \subseteq Nat
      BY <1>1
    <2>2. PICK m \in T : \A y \in T : m <= y
      BY <1>2, <2>1, LeastNumber
    <2>3. m \in 0..n /\ m # 0 /\ m \notin G
      BY <1>1, <2>2
    <2>4. m - 1 \in 0..n - 1 /\ m - 1 \in 0..n /\ m - 1 \notin T /\ (m - 1) + 1 = m
      BY <2>2, <2>3
    <2>5. QED  BY <1>1, <2>3, <2>4
  <1>3. QED  BY <1>1, <1>2

Iterated(n, S, base, step, f) ==
    /\ f \in [0..n -> S] /\ f[0] = base
    /\ \A i \in 1..n : f[i] = step[i][f[i - 1]]

\* A function whose value at each number is given by the value before it exists.
LEMMA Iterates ==
    ASSUME NEW n \in Nat, NEW S, NEW base \in S, NEW step \in [1..n -> [S -> S]]
    PROVE  \E f : Iterated(n, S, base, step, f)
  <1> DEFINE Ok(m) == \E f \in [0..m -> S] :
                         f[0] = base /\ \A i \in 1..m : f[i] = step[i][f[i - 1]]
  <1>1. PICK G : G = {m \in 0..n : Ok(m)}
    OBVIOUS
  <1>2. 0 \in G
    <2>1. PICK f : f = [i \in 0..0 |-> base]
      OBVIOUS
    <2>2. f \in [0..0 -> S] /\ f[0] = base /\ \A i \in 1..0 : f[i] = step[i][f[i - 1]]
      BY <2>1
    <2>3. Ok(0)
      BY <2>2
    <2>4. QED  BY <1>1, <2>3
  <1>3. ASSUME NEW m \in 0..n - 1, m \in G
        PROVE  m + 1 \in G
    <2>1. PICK f \in [0..m -> S] : f[0] = base /\ \A i \in 1..m : f[i] = step[i][f[i - 1]]
      BY <1>1, <1>3
    <2>2. m + 1 \in 1..n /\ f[m] \in S
      BY <2>1
    <2>3. step[m + 1] \in [S -> S]
      BY <2>2
    <2>4. step[m + 1][f[m]] \in S
      BY <2>2, <2>3
    <2>5. PICK g : g = [i \in 0..m + 1 |-> IF i = m + 1 THEN step[m + 1][f[m]] ELSE f[i]]
      OBVIOUS
    <2>6. g \in [0..m + 1 -> S] /\ g[0] = base
      BY <2>1, <2>4, <2>5
    <2>7. ASSUME NEW i \in 1..m + 1
          PROVE  g[i] = step[i][g[i - 1]]
      <3>1. CASE i = m + 1
        BY <2>5, <3>1
      <3>2. CASE i # m + 1
        <4>1. i \in 1..m /\ i - 1 \in 0..m /\ i - 1 # m + 1 /\ i \in 0..m + 1 /\ i - 1 \in 0..m + 1
          BY <3>2
        <4>2. g[i] = f[i] /\ g[i - 1] = f[i - 1]
          BY <2>5, <4>1, <3>2
        <4>3. QED  BY <2>1, <4>1, <4>2
      <3>3. QED  BY <3>1, <3>2
    <2>8. Ok(m + 1)
      BY <2>6, <2>7
    <2>9. QED  BY <1>1, <2>8, SMTT(30)
  <1>4. \A m \in 0..n : m \in G
    BY <1>2, <1>3, Induction
  <1>5. n \in 0..n
    OBVIOUS
  <1>6. Ok(n)
    BY <1>1, <1>4, <1>5
  <1>7. QED  BY <1>6 DEF Iterated

LEMMA CodecSizes ==
    /\ Byte \in Nat \ {0, 1} /\ LengthBytes \in Nat \ {0}
    /\ Payloads \subseteq Seq(0..Byte - 1)
    /\ \A q \in Payloads : /\ q \in Seq(Nat) /\ Len(q) \in Nat
                           /\ Frames!Rests(Len(q))[LengthBytes] = 0
  <1>1. /\ Byte \in Nat \ {0, 1} /\ LengthBytes \in Nat \ {0}
        /\ Payloads \subseteq Seq(0..Byte - 1)
        /\ \A q \in Payloads : Frames!Rests(Len(q))[LengthBytes] = 0
    BY BuffersAssumption DEF Frames!FrameCodecAssumption
  <1>2. ASSUME NEW q \in Payloads
        PROVE  q \in Seq(Nat) /\ Len(q) \in Nat
    <2>1. q \in Seq(0..Byte - 1)
      BY <1>1
    <2>2. QED  BY <2>1, <1>1
  <1>3. QED  BY <1>1, <1>2

LEMMA RestsAre ==
    ASSUME NEW n \in Nat
    PROVE  /\ Frames!Rests(n) \in [0..LengthBytes -> Nat]
           /\ Frames!Rests(n)[0] = n
           /\ \A i \in 1..LengthBytes :
                 Frames!Rests(n)[i] = Frames!Rests(n)[i - 1] \div Byte
  <1>0. Byte \in Nat \ {0, 1} /\ LengthBytes \in Nat
    BY CodecSizes
  <1>1. PICK step : step = [i \in 1..LengthBytes |-> [v \in Nat |-> v \div Byte]]
    OBVIOUS
  <1>2. \A v \in Nat : v \div Byte \in Nat
    BY <1>0
  <1>3. step \in [1..LengthBytes -> [Nat -> Nat]]
    BY <1>1, <1>2
  <1>4. PICK f \in [0..LengthBytes -> Nat] :
            f[0] = n /\ \A i \in 1..LengthBytes : f[i] = step[i][f[i - 1]]
    <2>1. PICK S : S = Nat
      OBVIOUS
    <2>2. LengthBytes \in Nat /\ n \in S /\ step \in [1..LengthBytes -> [S -> S]]
      BY <1>0, <1>3, <2>1
    <2>3. \E f : Iterated(LengthBytes, S, n, step, f)
      BY <2>2, Iterates
    <2>4. QED  BY <2>1, <2>3 DEF Iterated
  <1>5. ASSUME NEW i \in 1..LengthBytes
        PROVE  f[i] = f[i - 1] \div Byte
    <2>1. i - 1 \in 0..LengthBytes
      BY <1>0
    <2>2. f[i - 1] \in Nat
      BY <2>1
    <2>3. QED  BY <1>1, <1>4, <2>2
  <1>6. f = [i \in 0..LengthBytes |-> IF i = 0 THEN n ELSE f[i - 1] \div Byte]
    BY <1>0, <1>4, <1>5
  <1>7. PICK r : r = Frames!Rests(n)
    OBVIOUS
  <1>8. r = [i \in 0..LengthBytes |-> IF i = 0 THEN n ELSE r[i - 1] \div Byte]
    BY <1>6, <1>7 DEF Frames!Rests
  <1>9. PICK G : G = {i \in 0..LengthBytes : r[i] = f[i]}
    OBVIOUS
  <1>10. 0 \in G
    BY <1>0, <1>4, <1>8, <1>9
  <1>11. ASSUME NEW m \in 0..LengthBytes - 1, m \in G
         PROVE  m + 1 \in G
    <2>1. m + 1 \in 1..LengthBytes /\ m + 1 \in 0..LengthBytes /\ (m + 1) - 1 = m /\ m + 1 # 0
      BY <1>0
    <2>2. r[m + 1] = r[m] \div Byte
      BY <1>8, <2>1
    <2>3. f[m + 1] = f[m] \div Byte
      BY <1>5, <2>1
    <2>4. QED  BY <1>9, <1>11, <2>1, <2>2, <2>3
  <1>12. \A i \in 0..LengthBytes : i \in G
    BY <1>0, <1>10, <1>11, Induction
  <1>13. r = f
    BY <1>8, <1>9, <1>12
  <1>14. QED  BY <1>4, <1>5, <1>7, <1>13

\* Back from its bytes a length is what it was.
LEMMA NumberOfDigits ==
    ASSUME NEW n \in Nat, Frames!Rests(n)[LengthBytes] = 0,
           NEW bytes, \A i \in 1..LengthBytes : bytes[i] = Frames!Digits(n)[i]
    PROVE  Frames!Number(bytes) = n
  <1>0. Byte \in Nat \ {0, 1} /\ LengthBytes \in Nat
    BY CodecSizes
  <1>1. PICK r \in [0..LengthBytes -> Nat] :
            /\ r = Frames!Rests(n)
            /\ r[0] = n /\ r[LengthBytes] = 0
            /\ \A i \in 1..LengthBytes : r[i] = r[i - 1] \div Byte
    BY RestsAre
  <1>2. ASSUME NEW i \in 1..LengthBytes
        PROVE  bytes[i] = r[i - 1] % Byte /\ r[i - 1] = bytes[i] + Byte * r[i]
    <2>1. bytes[i] = r[i - 1] % Byte
      BY <1>1 DEF Frames!Digits
    <2>2. r[i - 1] \in Nat /\ r[i] \in Nat /\ r[i] = r[i - 1] \div Byte
      <3>1. i - 1 \in 0..LengthBytes /\ i \in 0..LengthBytes
        BY <1>0
      <3>2. QED  BY <1>1, <3>1
    <2>3. \A v \in Nat : v = (v % Byte) + Byte * (v \div Byte)
      BY <1>0
    <2>4. QED  BY <2>1, <2>2, <2>3
  <1>3. PICK f : f = [i \in 0..LengthBytes |-> r[LengthBytes - i]]
    OBVIOUS
  <1>4. f = [i \in 0..LengthBytes |->
                IF i = 0 THEN 0 ELSE bytes[LengthBytes - i + 1] + Byte * f[i - 1]]
    <2>1. ASSUME NEW i \in 0..LengthBytes, i # 0
          PROVE  f[i] = bytes[LengthBytes - i + 1] + Byte * f[i - 1]
      <3>1. /\ LengthBytes - i + 1 \in 1..LengthBytes
            /\ (LengthBytes - i + 1) - 1 = LengthBytes - i
            /\ i - 1 \in 0..LengthBytes /\ LengthBytes - (i - 1) = LengthBytes - i + 1
        BY <1>0, <2>1
      <3>2. /\ f[i] = r[LengthBytes - i]
            /\ f[i - 1] = r[LengthBytes - i + 1]
        BY <1>3, <3>1
      <3>3. QED  BY <1>2, <3>1, <3>2
    <2>2. f[0] = 0
      BY <1>0, <1>1, <1>3
    <2>3. QED  BY <1>3, <2>1, <2>2
  <1>5. PICK v : v = [i \in 0..LengthBytes |->
                         IF i = 0 THEN 0 ELSE bytes[LengthBytes - i + 1] + Byte * v[i - 1]]
                 /\ Frames!Number(bytes) = v[LengthBytes]
    BY <1>4 DEF Frames!Number
  <1>6. PICK G : G = {i \in 0..LengthBytes : v[i] = f[i]}
    OBVIOUS
  <1>7. 0 \in G
    BY <1>0, <1>4, <1>5, <1>6
  <1>8. ASSUME NEW m \in 0..LengthBytes - 1, m \in G
        PROVE  m + 1 \in G
    <2>1. m + 1 \in 0..LengthBytes /\ (m + 1) - 1 = m /\ m + 1 # 0
      BY <1>0
    <2>2. v[m + 1] = bytes[LengthBytes - (m + 1) + 1] + Byte * v[m]
      <3>1. v[m + 1] = IF m + 1 = 0 THEN 0
                       ELSE bytes[LengthBytes - (m + 1) + 1] + Byte * v[(m + 1) - 1]
        BY <1>5, <2>1
      <3>2. QED  BY <2>1, <3>1
    <2>3. f[m + 1] = bytes[LengthBytes - (m + 1) + 1] + Byte * f[m]
      BY <1>4, <2>1
    <2>4. QED  BY <1>6, <1>8, <2>1, <2>2, <2>3
  <1>9. \A i \in 0..LengthBytes : i \in G
    BY <1>0, <1>7, <1>8, Induction
  <1>10. v[LengthBytes] = f[LengthBytes]
    BY <1>0, <1>6, <1>9
  <1>11. f[LengthBytes] = r[0]
    BY <1>0, <1>3
  <1>12. QED  BY <1>1, <1>5, <1>10, <1>11

SeqsIn(S, a, b, c) == a \in Seq(S) /\ b \in Seq(S) /\ c \in Seq(S)

LEMMA Associates ==
    ASSUME NEW S, NEW a, NEW b, NEW c, SeqsIn(S, a, b, c)
    PROVE  (a \o b) \o c = a \o (b \o c)
  <1>1. a \in Seq(S) /\ b \in Seq(S) /\ c \in Seq(S)
    BY DEF SeqsIn
  <1>2. QED  BY <1>1, ConcatAssociative, SMTT(60)

\* What is left of a sequence after its first k elements.
RestIs(S, s, k, n, q) ==
    s \in Seq(S) /\ k \in Nat /\ n = Len(s) /\ k <= n /\ q = SubSeq(s, k + 1, n)

RestHas(S, s, k, n, q) ==
    q \in Seq(S) /\ Len(q) = n - k /\ \A i \in 1..n - k : q[i] = s[k + i]

LEMMA RestOf ==
    ASSUME NEW S, NEW s, NEW k, NEW n, NEW q, RestIs(S, s, k, n, q)
    PROVE  RestHas(S, s, k, n, q)
  <1>0. s \in Seq(S) /\ k \in Nat /\ n \in Nat /\ n = Len(s) /\ k <= n
    BY DEF RestIs
  <1>1. \A i \in k + 1..n : s[i] \in S
    BY <1>0
  <1>2. q = SubSeq(s, k + 1, n)
    BY DEF RestIs
  <1>3. k + 1 \in Int /\ n \in Int
    BY <1>0
  <1>4. /\ q \in Seq(S)
        /\ Len(q) = IF k + 1 <= n THEN n - (k + 1) + 1 ELSE 0
        /\ \A i \in 1..n - (k + 1) + 1 : q[i] = s[(k + 1) + i - 1]
    BY <1>1, <1>2, <1>3, SubSeqProperties
  <1>5. Len(q) = n - k
    BY <1>0, <1>4
  <1>6. \A i \in 1..n - k : q[i] = s[k + i]
    <2>1. ASSUME NEW i \in 1..n - k
          PROVE  q[i] = s[k + i]
      <3>1. i \in 1..n - (k + 1) + 1 /\ (k + 1) + i - 1 = k + i
        BY <1>0
      <3>2. QED  BY <1>4, <3>1
    <2>2. QED  BY <2>1
  <1>7. QED  BY <1>2, <1>4, <1>5, <1>6 DEF RestHas

\* What has arrived and what has not are together what the stream begins with and the rest.
Splits(S, b, w, h, r, k) ==
    /\ b \in Seq(S) /\ w \in Seq(S) /\ h \in Seq(S) /\ r \in Seq(S) /\ b \o w = h \o r
    /\ k = Len(h) /\ k <= Len(b)

\* A stream that begins with h is what it is, whatever part of it has arrived.
LEMMA Parts ==
    ASSUME NEW S, NEW b, NEW w, NEW h, NEW r, NEW k, Splits(S, b, w, h, r, k)
    PROVE  /\ \A i \in 1..k : b[i] = h[i]
           /\ SubSeq(b, k + 1, Len(b)) \o w = r
           /\ SubSeq(b, k + 1, Len(b)) \in Seq(S)
  <1>0. /\ b \in Seq(S) /\ w \in Seq(S) /\ h \in Seq(S) /\ r \in Seq(S) /\ b \o w = h \o r
        /\ k \in Nat /\ k = Len(h) /\ k <= Len(b)
    BY DEF Splits
  <1>1. PICK n \in Nat, m \in Nat, l \in Nat : n = Len(b) /\ m = Len(w) /\ l = Len(r)
    BY <1>0
  <1>2. PICK t : t = b \o w
    OBVIOUS
  <1>3. /\ Len(t) = n + m
        /\ \A i \in 1..n + m : t[i] = IF i <= n THEN b[i] ELSE w[i - n]
    BY <1>0, <1>1, <1>2, ConcatProperties
  <1>4. /\ Len(t) = k + l
        /\ \A i \in 1..k + l : t[i] = IF i <= k THEN h[i] ELSE r[i - k]
    BY <1>0, <1>1, <1>2, ConcatProperties
  <1>5. n + m = k + l /\ k <= n
    BY <1>0, <1>1, <1>3, <1>4
  <1>6. \A i \in 1..k : b[i] = h[i]
    BY <1>0, <1>3, <1>4, <1>5
  <1>7. PICK q : q = SubSeq(b, k + 1, n)
    OBVIOUS
  <1>8. q \in Seq(S) /\ Len(q) = n - k /\ \A i \in 1..n - k : q[i] = b[k + i]
    <2>1. RestIs(S, b, k, n, q)
      BY <1>0, <1>1, <1>5, <1>7 DEF RestIs
    <2>2. RestHas(S, b, k, n, q)
      BY <2>1, RestOf
    <2>3. QED  BY <2>2 DEF RestHas
  <1>9. /\ q \o w \in Seq(S) /\ Len(q \o w) = n - k + m
        /\ \A i \in 1..n - k + m : (q \o w)[i] = IF i <= n - k THEN q[i] ELSE w[i - (n - k)]
    <2>1. /\ q \o w \in Seq(S) /\ Len(q \o w) = Len(q) + Len(w)
          /\ \A i \in 1..Len(q) + Len(w) : (q \o w)[i] = IF i <= Len(q) THEN q[i]
                                                       ELSE w[i - Len(q)]
      BY <1>0, <1>8, ConcatProperties, ZenonT(30)
    <2>2. QED  BY <1>0, <1>1, <1>8, <2>1
  <1>10. ASSUME NEW i \in 1..l
         PROVE  (q \o w)[i] = r[i]
    <2>1. k + i \in 1..k + l /\ k + i \in 1..n + m /\ ~ (k + i <= k) /\ (k + i) - k = i
          /\ i \in 1..n - k + m
      BY <1>0, <1>5
    <2>2. t[k + i] = r[i]
      BY <1>0, <1>4, <2>1
    <2>3. CASE k + i <= n
      <3>1. i \in 1..n - k /\ i <= n - k
        BY <1>0, <1>5, <2>3
      <3>2. (q \o w)[i] = b[k + i]
        BY <1>0, <1>8, <1>9, <2>1, <3>1
      <3>3. QED  BY <1>0, <1>3, <2>1, <2>2, <2>3, <3>2
    <2>4. CASE ~ (k + i <= n)
      <3>1. ~ (i <= n - k) /\ i - (n - k) = (k + i) - n
        BY <1>0, <1>5, <2>4
      <3>2. (q \o w)[i] = w[(k + i) - n]
        BY <1>0, <1>9, <2>1, <3>1
      <3>3. QED  BY <1>0, <1>3, <2>1, <2>2, <2>4, <3>2
    <2>5. QED  BY <2>3, <2>4
  <1>11. Len(q \o w) = Len(r)
    BY <1>0, <1>1, <1>5, <1>9
  <1>12. q \o w = r
    BY <1>0, <1>1, <1>9, <1>10, <1>11, SeqEqual, ZenonT(30)
  <1>13. QED  BY <1>0, <1>1, <1>6, <1>7, <1>8, <1>12

\* The header, the payload and the rest of a stream, of which k and n bytes are the first two.
Framed(S, b, w, h, p, r, k, n) ==
    /\ p \in Seq(S) /\ r \in Seq(S) /\ Splits(S, b, w, h, p \o r, k)
    /\ n = k + Len(p) /\ n <= Len(b)

\* Between what a stream begins with and what it ends with is its middle.
LEMMA MiddleOf ==
    ASSUME NEW S, NEW b, NEW w, NEW h, NEW p, NEW r, NEW k, NEW n,
           Framed(S, b, w, h, p, r, k, n)
    PROVE  /\ SubSeq(b, k + 1, n) = p
           /\ SubSeq(b, n + 1, Len(b)) \o w = r
           /\ SubSeq(b, n + 1, Len(b)) \in Seq(S)
  <1>0. /\ b \in Seq(S) /\ w \in Seq(S) /\ h \in Seq(S) /\ b \o w = h \o (p \o r)
        /\ p \in Seq(S) /\ r \in Seq(S)
        /\ k \in Nat /\ n \in Nat /\ k = Len(h) /\ n = k + Len(p) /\ n <= Len(b)
    BY DEF Framed, Splits
  <1>1. PICK l \in Nat, e \in Nat : l = Len(p) /\ e = Len(b)
    BY <1>0
  <1>2. PICK hp : hp = h \o p
    BY <1>0
  <1>3. /\ hp \in Seq(S) /\ Len(hp) = n
        /\ \A i \in 1..n : hp[i] = IF i <= k THEN h[i] ELSE p[i - k]
    BY <1>0, <1>1, <1>2, ConcatProperties
  <1>4. b \o w = hp \o r
    <2>1. SeqsIn(S, h, p, r)
      BY <1>0 DEF SeqsIn
    <2>2. (h \o p) \o r = h \o (p \o r)
      BY <2>1, Associates
    <2>3. QED  BY <1>0, <1>2, <2>2
  <1>5. /\ \A i \in 1..n : b[i] = hp[i]
        /\ SubSeq(b, n + 1, Len(b)) \o w = r
        /\ SubSeq(b, n + 1, Len(b)) \in Seq(S)
    <2>1. Splits(S, b, w, hp, r, n)
      BY <1>0, <1>3, <1>4 DEF Splits
    <2>2. QED  BY <2>1, Parts, ZenonT(30)
  <1>6. PICK q : q = SubSeq(b, k + 1, n)
    BY <1>0
  <1>7. q \in Seq(S) /\ Len(q) = l /\ \A i \in 1..l : q[i] = b[k + i]
    <2>1. \A i \in k + 1..n : b[i] \in S
      BY <1>0, <1>1
    <2>2. k + 1 \in Int /\ n \in Int
      BY <1>0
    <2>3. /\ q \in Seq(S)
          /\ Len(q) = IF k + 1 <= n THEN n - (k + 1) + 1 ELSE 0
          /\ \A i \in 1..n - (k + 1) + 1 : q[i] = b[(k + 1) + i - 1]
      BY <1>0, <1>6, <2>1, <2>2, SubSeqProperties
    <2>4. Len(q) = l
      BY <1>0, <1>1, <2>3
    <2>5. ASSUME NEW i \in 1..l
          PROVE  q[i] = b[k + i]
      <3>1. i \in 1..n - (k + 1) + 1 /\ (k + 1) + i - 1 = k + i
        BY <1>0, <1>1
      <3>2. QED  BY <2>3, <3>1
    <2>6. QED  BY <2>3, <2>4, <2>5
  <1>8. ASSUME NEW i \in 1..l
        PROVE  q[i] = p[i]
    <2>1. k + i \in 1..n /\ ~ (k + i <= k) /\ (k + i) - k = i
      BY <1>0, <1>1
    <2>2. QED  BY <1>0, <1>3, <1>5, <1>7, <2>1
  <1>9. q = p
    BY <1>0, <1>1, <1>7, <1>8, SeqEqual, ZenonT(30)
  <1>10. QED  BY <1>0, <1>5, <1>6, <1>9

LEMMA EncodeIs ==
    ASSUME NEW p \in Payloads
    PROVE  /\ p \in Seq(Nat) /\ Len(p) \in Nat
           /\ Frames!Digits(Len(p)) \in Seq(Nat) /\ Len(Frames!Digits(Len(p))) = LengthBytes
           /\ Frames!Encode(p) \in Seq(Nat)
  <1>0. /\ p \in Seq(Nat) /\ Len(p) \in Nat
        /\ Byte \in Nat \ {0, 1} /\ LengthBytes \in Nat
    BY CodecSizes
  <1>1. PICK d : d = Frames!Digits(Len(p))
    OBVIOUS
  <1>2. PICK rest \in [0..LengthBytes -> Nat] : rest = Frames!Rests(Len(p))
    BY <1>0, RestsAre
  <1>3. d = [i \in 1..LengthBytes |-> rest[i - 1] % Byte]
    BY <1>1, <1>2 DEF Frames!Digits
  <1>4. \A i \in 1..LengthBytes : rest[i - 1] % Byte \in Nat
    <2>1. ASSUME NEW i \in 1..LengthBytes
          PROVE  rest[i - 1] % Byte \in Nat
      <3>1. i - 1 \in 0..LengthBytes
        BY <1>0
      <3>2. rest[i - 1] \in Nat
        BY <3>1
      <3>3. QED  BY <1>0, <3>2
    <2>2. QED  BY <2>1
  <1>5. d \in Seq(Nat) /\ Len(d) = LengthBytes
    BY <1>0, <1>3, <1>4
  <1>6. d \o p \in Seq(Nat) /\ <<1>> \o d \o p \in Seq(Nat)
    BY <1>0, <1>5
  <1>7. QED  BY <1>0, <1>1, <1>5, <1>6 DEF Frames!Encode, Frames!LengthEncode, Frames!TlvEncode

Arriving(p, b, w, r) ==
    /\ p \in Payloads /\ b \in Seq(Nat) /\ w \in Seq(Nat) /\ r \in Seq(Nat)
    /\ b \o w = Frames!Encode(p) \o r

\* What is decoded from the bytes that have arrived is the next message.
LEMMA DecodedIsNext ==
    ASSUME NEW p, NEW b, NEW w, NEW r, Arriving(p, b, w, r), Frames!Decode(b).ok
    PROVE  /\ Frames!Decode(b).result = p
           /\ Frames!Decode(b).remaining \in Seq(Nat)
           /\ Frames!Decode(b).remaining \o w = r
  <1> /\ p \in Payloads /\ b \in Seq(Nat) /\ w \in Seq(Nat) /\ r \in Seq(Nat)
      /\ b \o w = Frames!Encode(p) \o r
    BY DEF Arriving
  <1>1. PICK d : d = Frames!Digits(Len(p))
    OBVIOUS
  <1>2. p \in Seq(Nat) /\ Len(p) \in Nat /\ d \in Seq(Nat) /\ Len(d) = LengthBytes
    BY <1>1, EncodeIs
  <1>3. LengthBytes \in Nat /\ Len(b) \in Nat /\ Frames!Rests(Len(p))[LengthBytes] = 0
    BY CodecSizes
  <1>4. CASE codec = "length"
    <2>1. b \o w = d \o (p \o r) /\ p \o r \in Seq(Nat)
      <3>1. Frames!Encode(p) = d \o p
        BY <1>1, <1>4 DEF Frames!Encode, Frames!LengthEncode
      <3>2. p \o r \in Seq(Nat) /\ SeqsIn(Nat, d, p, r)
        BY <1>2 DEF SeqsIn
      <3>3. (d \o p) \o r = d \o (p \o r)
        BY <3>2, Associates
      <3>4. QED  BY <3>1, <3>2, <3>3
    <2>2. Frames!Decode(b) = Frames!LengthDecode(b)
      BY <1>4 DEF Frames!Decode
    <2>3. Len(b) >= LengthBytes
      BY <1>3, <2>2 DEF Frames!LengthDecode, Frames!NotYet
    <2>4. \A i \in 1..LengthBytes : b[i] = d[i]
      <3>1. Splits(Nat, b, w, d, p \o r, LengthBytes)
        BY <1>2, <1>3, <2>1, <2>3 DEF Splits
      <3>2. QED  BY <3>1, Parts
    <2>5. Frames!Number(b) = Len(p)
      BY <1>1, <1>2, <1>3, <2>4, NumberOfDigits
    <2>6. PICK end \in Nat : end = LengthBytes + Len(p)
      BY <1>2, <1>3
    <2>7. /\ Len(b) >= end
          /\ Frames!Decode(b) = [ok |-> TRUE,
                                 result |-> SubSeq(b, LengthBytes + 1, end),
                                 remaining |-> SubSeq(b, end + 1, Len(b))]
      BY <1>3, <2>2, <2>3, <2>5, <2>6 DEF Frames!LengthDecode, Frames!NotYet, Frames!From
    <2>8. /\ SubSeq(b, LengthBytes + 1, end) = p
          /\ SubSeq(b, end + 1, Len(b)) \o w = r
          /\ SubSeq(b, end + 1, Len(b)) \in Seq(Nat)
      <3>0. PICK S : S = Nat
        OBVIOUS
      <3>1. Splits(S, b, w, d, p \o r, LengthBytes) /\ p \in Seq(S) /\ r \in Seq(S)
        BY <1>2, <1>3, <2>1, <2>3, <3>0 DEF Splits
      <3>2. LengthBytes = Len(d) /\ end = LengthBytes + Len(p) /\ end <= Len(b)
        BY <1>2, <1>3, <2>6, <2>7
      <3>5. Framed(S, b, w, d, p, r, LengthBytes, end)
        BY <3>1, <3>2 DEF Framed
      <3>3. /\ SubSeq(b, LengthBytes + 1, end) = p
            /\ SubSeq(b, end + 1, Len(b)) \o w = r
            /\ SubSeq(b, end + 1, Len(b)) \in Seq(S)
        BY <3>5, MiddleOf, ZenonT(30)
      <3>4. QED  BY <3>0, <3>3
    <2>9. QED  BY <2>7, <2>8, SMTT(30)
  <1>5. CASE codec # "length"
    <2>0. PICK h : h = <<1>> \o d
      OBVIOUS
    <2>1. h \in Seq(Nat) /\ Len(h) = 1 + LengthBytes /\ \A i \in 1..LengthBytes : h[i + 1] = d[i]
      BY <1>2, <1>3, <2>0
    <2>2. b \o w = h \o (p \o r) /\ p \o r \in Seq(Nat)
      <3>1. Frames!Encode(p) = h \o p
        BY <1>1, <1>2, <1>5, <2>0 DEF Frames!Encode, Frames!TlvEncode
      <3>2. p \o r \in Seq(Nat)
        BY <1>2
      <3>3. (h \o p) \o r = h \o (p \o r)
        <4>1. SeqsIn(Nat, h, p, r)
          BY <1>2, <2>1 DEF SeqsIn
        <4>2. QED  BY <4>1, Associates
      <3>4. QED  BY <3>1, <3>2, <3>3
    <2>3. Frames!Decode(b) = Frames!TlvDecode(b)
      BY <1>5 DEF Frames!Decode
    <2>4. Len(b) >= 1 + LengthBytes /\ Head(b) = 1
      BY <1>3, <2>3 DEF Frames!TlvDecode, Frames!NotYet
    <2>5. \A i \in 1..1 + LengthBytes : b[i] = h[i]
      <3>1. Splits(Nat, b, w, h, p \o r, 1 + LengthBytes)
        BY <1>2, <1>3, <2>1, <2>2, <2>4 DEF Splits
      <3>2. QED  BY <3>1, Parts
    <2>6. \A i \in 1..LengthBytes : Tail(b)[i] = d[i]
      <3>1. ASSUME NEW i \in 1..LengthBytes
            PROVE  Tail(b)[i] = d[i]
        <4>1. Tail(b)[i] = b[i + 1] /\ i + 1 \in 1..1 + LengthBytes
          BY <1>3, <2>4
        <4>2. QED  BY <2>1, <2>5, <4>1
      <3>2. QED  BY <3>1
    <2>7. Frames!Number(Tail(b)) = Len(p)
      BY <1>1, <1>2, <1>3, <2>6, NumberOfDigits
    <2>8. PICK end \in Nat : end = 1 + LengthBytes + Len(p)
      BY <1>2, <1>3
    <2>9. /\ Len(b) >= end
          /\ Frames!Decode(b) = [ok |-> TRUE,
                                 result |-> SubSeq(b, LengthBytes + 2, end),
                                 remaining |-> SubSeq(b, end + 1, Len(b))]
      <3>1. PICK e : e = 1 + LengthBytes + Frames!Number(Tail(b))
        OBVIOUS
      <3>2. e = end
        BY <2>7, <2>8, <3>1
      <3>3. Frames!TlvDecode(b) = IF Len(b) < e THEN [ok |-> FALSE]
                                  ELSE [ok |-> TRUE,
                                        result |-> SubSeq(b, LengthBytes + 2, e),
                                        remaining |-> SubSeq(b, e + 1, Len(b))]
        <4>1. ~ (Len(b) < 1 + LengthBytes \/ Head(b) # 1)
          BY <1>3, <2>4
        <4>2. QED  BY <3>1, <4>1, Zenon DEF Frames!TlvDecode, Frames!NotYet, Frames!From
      <3>4. ~ (Len(b) < e)
        BY <2>3, <3>3
      <3>5. Len(b) >= end
        BY <1>3, <2>8, <3>2, <3>4
      <3>6. QED  BY <2>3, <3>2, <3>3, <3>4, <3>5, Zenon
    <2>10. PICK k \in Nat : k = 1 + LengthBytes
      BY <1>3
    <2>11. /\ SubSeq(b, k + 1, end) = p
           /\ SubSeq(b, end + 1, Len(b)) \o w = r
           /\ SubSeq(b, end + 1, Len(b)) \in Seq(Nat)
      <3>0. PICK S : S = Nat
        OBVIOUS
      <3>1. Splits(S, b, w, h, p \o r, k) /\ p \in Seq(S) /\ r \in Seq(S)
        BY <1>2, <1>3, <2>1, <2>2, <2>4, <2>10, <3>0 DEF Splits
      <3>2. k = Len(h) /\ end = k + Len(p) /\ end <= Len(b)
        BY <1>2, <1>3, <2>1, <2>8, <2>9, <2>10
      <3>5. Framed(S, b, w, h, p, r, k, end)
        BY <3>1, <3>2 DEF Framed
      <3>3. /\ SubSeq(b, k + 1, end) = p
            /\ SubSeq(b, end + 1, Len(b)) \o w = r
            /\ SubSeq(b, end + 1, Len(b)) \in Seq(S)
        BY <3>5, MiddleOf, ZenonT(30)
      <3>4. QED  BY <3>0, <3>3
    <2>12. k + 1 = LengthBytes + 2
      BY <1>3, <2>10
    <2>13. /\ Frames!Decode(b).result = SubSeq(b, k + 1, end)
           /\ Frames!Decode(b).remaining = SubSeq(b, end + 1, Len(b))
      BY <2>9, <2>12
    <2>14. QED  BY <2>11, <2>13
  <1>6. QED  BY <1>4, <1>5

LEMMA NothingDecoded ==
    ASSUME NEW b \in Seq(Nat), NEW w \in Seq(Nat), b \o w = <<>>
    PROVE  ~ Frames!Decode(b).ok
  <1>1. LengthBytes \in Nat \ {0} /\ Len(b) = 0
    <2>1. Len(b \o w) = Len(b) + Len(w) /\ Len(b) \in Nat /\ Len(w) \in Nat
      OBVIOUS
    <2>2. QED  BY <2>1, CodecSizes
  <1>2. QED  BY <1>1 DEF Frames!Decode, Frames!LengthDecode, Frames!TlvDecode, Frames!NotYet

Streams(s, e) ==
    /\ e \in [0..Len(s) -> Seq(Nat)] /\ e[0] = <<>>
    /\ \A i \in 1..Len(s) : e[i] = e[i - 1] \o Frames!Encode(s[i])

LEMMA StreamIs ==
    ASSUME NEW s, s \in Seq(Payloads)
    PROVE  \E e : Streams(s, e) /\ Frames!Stream(s) = e[Len(s)]
  <1>0. PICK n \in Nat : n = Len(s)
    OBVIOUS
  <1>1. \A i \in 1..n : s[i] \in Payloads
    BY <1>0
  <1>2. PICK S : S = Seq(Nat)
    OBVIOUS
  <1>3. PICK step : step = [i \in 1..n |-> [b \in S |-> b \o Frames!Encode(s[i])]]
    OBVIOUS
  <1>4. ASSUME NEW i \in 1..n, NEW b \in S
        PROVE  b \o Frames!Encode(s[i]) \in S
    <2>1. Frames!Encode(s[i]) \in Seq(Nat)
      BY <1>1, EncodeIs
    <2>2. QED  BY <1>2, <2>1
  <1>5. step \in [1..n -> [S -> S]]
    BY <1>3, <1>4
  <1>6. <<>> \in S
    BY <1>2
  <1>7. PICK f : Iterated(n, S, <<>>, step, f)
    BY <1>0, <1>5, <1>6, Iterates
  <1>8. f \in [0..n -> S] /\ f[0] = <<>> /\ \A i \in 1..n : f[i] = step[i][f[i - 1]]
    BY <1>7 DEF Iterated
  <1>9. ASSUME NEW i \in 1..n
        PROVE  f[i] = f[i - 1] \o Frames!Encode(s[i])
    <2>1. i - 1 \in 0..n
      BY <1>0
    <2>2. f[i - 1] \in S
      BY <1>8, <2>1
    <2>3. QED  BY <1>3, <1>8, <2>2
  <1>10. f = [i \in 0..n |-> IF i = 0 THEN <<>> ELSE f[i - 1] \o Frames!Encode(s[i])]
    <2>1. ASSUME NEW i \in 0..n
          PROVE  f[i] = IF i = 0 THEN <<>> ELSE f[i - 1] \o Frames!Encode(s[i])
      <3>1. CASE i = 0
        BY <1>8, <3>1
      <3>2. CASE i # 0
        <4>1. i \in 1..n
          BY <1>0, <3>2
        <4>2. QED  BY <1>9, <3>2, <4>1
      <3>3. QED  BY <3>1, <3>2
    <2>2. QED  BY <1>8, <2>1
  <1>11. PICK e : /\ e = [i \in 0..n |-> IF i = 0 THEN <<>> ELSE e[i - 1] \o Frames!Encode(s[i])]
                  /\ Frames!Stream(s) = e[n]
    BY <1>0, <1>10 DEF Frames!Stream
  <1>12. PICK G : G = {i \in 0..n : e[i] = f[i]}
    OBVIOUS
  <1>13. 0 \in G
    BY <1>0, <1>8, <1>11, <1>12
  <1>14. ASSUME NEW m \in 0..n - 1, m \in G
         PROVE  m + 1 \in G
    <2>1. m + 1 \in 1..n /\ m + 1 \in 0..n /\ (m + 1) - 1 = m /\ m + 1 # 0
      BY <1>0
    <2>2. e[m + 1] = e[m] \o Frames!Encode(s[m + 1])
      BY <1>11, <2>1
    <2>3. f[m + 1] = f[m] \o Frames!Encode(s[m + 1])
      BY <1>9, <2>1
    <2>4. QED  BY <1>12, <1>14, <2>1, <2>2, <2>3
  <1>15. \A i \in 0..n : i \in G
    BY <1>0, <1>13, <1>14, Induction
  <1>16. e = f
    BY <1>8, <1>11, <1>12, <1>15
  <1>17. n \in 0..n
    BY <1>0
  <1>18. QED  BY <1>0, <1>2, <1>8, <1>9, <1>11, <1>16 DEF Streams

LEMMA StreamIsBytes ==
    ASSUME NEW s, s \in Seq(Payloads)
    PROVE  Frames!Stream(s) \in Seq(Nat)
  <1>1. PICK e : Streams(s, e) /\ Frames!Stream(s) = e[Len(s)]
    BY StreamIs
  <1>2. Len(s) \in 0..Len(s)
    OBVIOUS
  <1>3. QED  BY <1>1, <1>2 DEF Streams

LEMMA StreamOfNothing ==
    Frames!Stream(<<>>) = <<>>
  <1>1. <<>> \in Seq(Payloads) /\ Len(<<>>) = 0
    OBVIOUS
  <1>2. PICK e : Streams(<<>>, e) /\ Frames!Stream(<<>>) = e[Len(<<>>)]
    BY <1>1, StreamIs
  <1>3. QED  BY <1>1, <1>2 DEF Streams

LEMMA StreamOfOneMore ==
    ASSUME NEW s, s \in Seq(Payloads), NEW p \in Payloads
    PROVE  Frames!Stream(Append(s, p)) = Frames!Stream(s) \o Frames!Encode(p)
  <1>1. PICK t : t = Append(s, p)
    OBVIOUS
  <1>2. PICK n \in Nat : n = Len(s)
    OBVIOUS
  <1>3. /\ t \in Seq(Payloads) /\ Len(t) = n + 1 /\ t[n + 1] = p
        /\ \A i \in 1..n : t[i] = s[i]
    BY <1>1, <1>2, AppendProperties
  <1>4. PICK e : Streams(s, e) /\ Frames!Stream(s) = e[Len(s)]
    BY StreamIs
  <1>5. PICK f : Streams(t, f) /\ Frames!Stream(t) = f[Len(t)]
    BY <1>3, StreamIs
  <1>6. /\ e[0] = <<>> /\ \A i \in 1..n : e[i] = e[i - 1] \o Frames!Encode(s[i])
        /\ f[0] = <<>> /\ \A i \in 1..n + 1 : f[i] = f[i - 1] \o Frames!Encode(t[i])
    BY <1>2, <1>3, <1>4, <1>5 DEF Streams
  <1>7. PICK G : G = {i \in 0..n : e[i] = f[i]}
    OBVIOUS
  <1>8. 0 \in G
    BY <1>6, <1>7
  <1>9. ASSUME NEW m \in 0..n - 1, m \in G
        PROVE  m + 1 \in G
    <2>1. m + 1 \in 1..n /\ m + 1 \in 0..n /\ (m + 1) - 1 = m /\ m + 1 \in 1..n + 1
      OBVIOUS
    <2>2. e[m + 1] = e[m] \o Frames!Encode(s[m + 1])
      BY <1>6, <2>1
    <2>3. f[m + 1] = f[m] \o Frames!Encode(s[m + 1])
      BY <1>3, <1>6, <2>1
    <2>4. QED  BY <1>7, <1>9, <2>1, <2>2, <2>3
  <1>10. \A i \in 0..n : i \in G
    BY <1>8, <1>9, Induction
  <1>11. e[n] = f[n]
    BY <1>7, <1>10
  <1>12. f[n + 1] = f[n] \o Frames!Encode(p)
    <2>1. n + 1 \in 1..n + 1 /\ (n + 1) - 1 = n
      OBVIOUS
    <2>2. QED  BY <1>3, <1>6, <2>1
  <1>13. QED  BY <1>1, <1>2, <1>3, <1>4, <1>5, <1>11, <1>12

LEMMA StreamOfFirst ==
    ASSUME NEW s, s \in Seq(Payloads), s # <<>>
    PROVE  Frames!Stream(s) = Frames!Encode(Head(s)) \o Frames!Stream(Tail(s))
  <1>1. PICK t : t = Tail(s)
    OBVIOUS
  <1>2. PICK n \in Nat : n + 1 = Len(s)
    <2>1. Len(s) \in Nat /\ Len(s) # 0
      OBVIOUS
    <2>2. Len(s) - 1 \in Nat /\ (Len(s) - 1) + 1 = Len(s)
      BY <2>1
    <2>3. QED  BY <2>2
  <1>3. /\ t \in Seq(Payloads) /\ Len(t) = n
        /\ \A i \in 1..n : t[i] = s[i + 1] /\ t[i] \in Payloads
        /\ Head(s) = s[1] /\ Head(s) \in Payloads
    BY <1>1, <1>2, HeadTailProperties
  <1>4. PICK e : Streams(s, e) /\ Frames!Stream(s) = e[Len(s)]
    BY StreamIs
  <1>5. PICK f : Streams(t, f) /\ Frames!Stream(t) = f[Len(t)]
    BY <1>3, StreamIs
  <1>6. /\ e[0] = <<>> /\ \A i \in 1..n + 1 : e[i] = e[i - 1] \o Frames!Encode(s[i])
        /\ f[0] = <<>> /\ \A i \in 1..n : f[i] = f[i - 1] \o Frames!Encode(t[i])
        /\ \A i \in 0..n : f[i] \in Seq(Nat)
    BY <1>2, <1>3, <1>4, <1>5 DEF Streams
  <1>7. PICK h : h = Frames!Encode(s[1])
    OBVIOUS
  <1>8. h \in Seq(Nat)
    BY <1>3, <1>7, EncodeIs
  <1>9. PICK G : G = {i \in 0..n : e[i + 1] = h \o f[i]}
    OBVIOUS
  <1>10. 0 \in G
    <2>1. 1 \in 1..n + 1 /\ 1 - 1 = 0 /\ 0 \in 0..n /\ 0 + 1 = 1
      OBVIOUS
    <2>2. e[1] = <<>> \o h
      BY <1>6, <1>7, <2>1
    <2>3. e[1] = h /\ h \o <<>> = h
      BY <1>8, <2>2, ConcatEmptySeq
    <2>4. QED  BY <1>6, <1>9, <2>1, <2>3
  <1>11. ASSUME NEW m \in 0..n - 1, m \in G
         PROVE  m + 1 \in G
    <2>1. /\ m + 1 \in 1..n /\ m + 1 \in 0..n /\ (m + 1) - 1 = m
          /\ (m + 1) + 1 \in 1..n + 1 /\ ((m + 1) + 1) - 1 = m + 1 /\ m \in 0..n
      OBVIOUS
    <2>2. e[(m + 1) + 1] = e[m + 1] \o Frames!Encode(t[m + 1])
      BY <1>3, <1>6, <2>1
    <2>3. f[m + 1] = f[m] \o Frames!Encode(t[m + 1])
      BY <1>6, <2>1
    <2>4. e[m + 1] = h \o f[m]
      BY <1>9, <1>11
    <2>5. Frames!Encode(t[m + 1]) \in Seq(Nat) /\ f[m] \in Seq(Nat)
      BY <1>3, <1>6, <2>1, EncodeIs
    <2>6. (h \o f[m]) \o Frames!Encode(t[m + 1]) = h \o (f[m] \o Frames!Encode(t[m + 1]))
      <3>1. PICK a, b : a = f[m] /\ b = Frames!Encode(t[m + 1])
        OBVIOUS
      <3>2. SeqsIn(Nat, h, a, b)
        BY <1>8, <2>5, <3>1 DEF SeqsIn
      <3>3. (h \o a) \o b = h \o (a \o b)
        BY <3>2, Associates
      <3>4. QED  BY <3>1, <3>3
    <2>7. QED  BY <1>9, <2>1, <2>2, <2>3, <2>4, <2>6
  <1>12. \A i \in 0..n : i \in G
    BY <1>10, <1>11, Induction
  <1>13. e[n + 1] = h \o f[n]
    BY <1>9, <1>12
  <1>14. QED  BY <1>1, <1>2, <1>3, <1>4, <1>5, <1>7, <1>13

LEMMA SameStream ==
    ASSUME codec' = codec, NEW CONSTANT s
    PROVE  Frames!Stream(s)' = Frames!Stream(s)
  <1>1. \A p : Frames!Encode(p)' = Frames!Encode(p)
    BY DEF Frames!Encode, Frames!LengthEncode, Frames!TlvEncode
  <1>2. QED  BY <1>1 DEF Frames!Stream

Outstanding == SubSeq(csent, Len(creceived) + 1, Len(csent))

FrameInv ==
    /\ csent \in Seq(Payloads) /\ creceived \in Seq(Payloads)
    /\ Len(creceived) <= Len(csent)
    /\ wire \in Seq(Nat) /\ arrived \in Seq(Nat)
    /\ Frames!FramesAreKept

LEMMA FramesInitially == Frames!Init => FrameInv
  <1> SUFFICES ASSUME Frames!Init  PROVE FrameInv
    OBVIOUS
  <1>1. /\ csent = <<>> /\ wire = <<>> /\ arrived = <<>> /\ creceived = <<>>
    BY DEF Frames!Init
  <1>2. /\ csent \in Seq(Payloads) /\ creceived \in Seq(Payloads)
        /\ wire \in Seq(Nat) /\ arrived \in Seq(Nat) /\ Len(<<>>) = 0
    BY <1>1
  <1>3. Frames!From(<<>>, 1) = <<>> /\ SubSeq(<<>>, 1, 0) = <<>> /\ <<>> \o <<>> = <<>>
    BY SubSeqEmpty DEF Frames!From
  <1>4. Frames!FramesAreKept
    <2>1. arrived \o wire = Frames!Stream(<<>>)
      BY <1>1, <1>3, StreamOfNothing
    <2>2. Frames!From(csent, Len(creceived) + 1) = <<>>
      BY <1>1, <1>2, <1>3
    <2>3. creceived = SubSeq(csent, 1, Len(creceived))
      BY <1>1, <1>2, <1>3
    <2>4. QED  BY <2>1, <2>2, <2>3, Zenon DEF Frames!FramesAreKept
  <1>5. QED  BY <1>1, <1>2, <1>4 DEF FrameInv

\* What an unchanged codec leaves to show.
LEMMA FramesStayKept ==
    ASSUME codec' = codec,
           NEW CONSTANT rest, rest = Frames!From(csent', Len(creceived') + 1),
           arrived' \o wire' = Frames!Stream(rest),
           creceived' = SubSeq(csent', 1, Len(creceived'))
    PROVE  Frames!FramesAreKept'
  <1>1. Frames!Stream(rest)' = Frames!Stream(rest)
    BY SameStream
  <1>2. arrived' \o wire' = Frames!Stream(rest)'
    BY <1>1
  <1>3. QED  BY <1>2 DEF Frames!FramesAreKept, Frames!From

LEMMA SendStep ==
    ASSUME FrameInv, NEW payload \in Payloads, Frames!Send(payload)
    PROVE  FrameInv'
  <1>1. /\ csent' = Append(csent, payload) /\ wire' = wire \o Frames!Encode(payload)
        /\ codec' = codec /\ arrived' = arrived /\ creceived' = creceived
    BY DEF Frames!Send
  <1>2. PICK n \in Nat, k \in Nat : n = Len(csent) /\ k = Len(creceived)
    BY DEF FrameInv
  <1>3. k <= n /\ csent \in Seq(Payloads) /\ creceived \in Seq(Payloads)
        /\ wire \in Seq(Nat) /\ arrived \in Seq(Nat)
        /\ creceived = SubSeq(csent, 1, k) /\ arrived \o wire = Frames!Stream(SubSeq(csent, k + 1, n))
    BY <1>2 DEF FrameInv, Frames!FramesAreKept, Frames!From
  <1>4. PICK t : t = Append(csent, payload)
    OBVIOUS
  <1>5. t \in Seq(Payloads) /\ Len(t) = n + 1 /\ t[n + 1] = payload
        /\ \A i \in 1..n : t[i] = csent[i]
    BY <1>2, <1>3, <1>4, AppendProperties
  <1>6. Frames!Encode(payload) \in Seq(Nat)
    BY EncodeIs
  <1>7. /\ wire' \in Seq(Nat)
        /\ arrived' \o wire' = (arrived \o wire) \o Frames!Encode(payload)
    <2>1. PICK e : e = Frames!Encode(payload)
      OBVIOUS
    <2>2. e \in Seq(Nat) /\ wire \in Seq(Nat) /\ arrived \in Seq(Nat)
      BY <1>3, <1>6, <2>1
    <2>3. wire \o e \in Seq(Nat)
      BY <2>2
    <2>4. (arrived \o wire) \o e = arrived \o (wire \o e)
      <3>1. SeqsIn(Nat, arrived, wire, e)
        BY <2>2 DEF SeqsIn
      <3>2. QED  BY <3>1, Associates
    <2>5. QED  BY <1>1, <2>1, <2>3, <2>4
  <1>8. PICK s : s = SubSeq(csent, k + 1, n)
    OBVIOUS
  <1>9. s \in Seq(Payloads) /\ SubSeq(t, k + 1, n + 1) = Append(s, payload)
    <2>1. /\ s \in Seq(Payloads) /\ Len(s) = n - k
          /\ \A i \in 1..n - k : s[i] = csent[k + i]
      <3>1. RestIs(Payloads, csent, k, n, s)
        BY <1>2, <1>3, <1>8 DEF RestIs
      <3>2. RestHas(Payloads, csent, k, n, s)
        BY <3>1, RestOf
      <3>3. QED  BY <3>2 DEF RestHas
    <2>2. PICK q : q = SubSeq(t, k + 1, n + 1)
      OBVIOUS
    <2>3. /\ q \in Seq(Payloads) /\ Len(q) = (n + 1) - k
          /\ \A i \in 1..(n + 1) - k : q[i] = t[k + i]
      <3>1. RestIs(Payloads, t, k, n + 1, q)
        BY <1>3, <1>5, <2>2 DEF RestIs
      <3>2. RestHas(Payloads, t, k, n + 1, q)
        BY <3>1, RestOf
      <3>3. QED  BY <3>2 DEF RestHas
    <2>4. PICK a : a = Append(s, payload)
      OBVIOUS
    <2>5. /\ a \in Seq(Payloads) /\ Len(a) = (n - k) + 1 /\ a[(n - k) + 1] = payload
          /\ \A i \in 1..n - k : a[i] = s[i]
      BY <2>1, <2>4, AppendProperties
    <2>6. ASSUME NEW i \in 1..Len(q)
          PROVE  q[i] = a[i]
      <3>1. CASE i \in 1..n - k
        <4>1. k + i \in 1..n /\ i \in 1..(n + 1) - k
          BY <1>3, <3>1
        <4>2. QED  BY <1>5, <2>1, <2>3, <2>5, <3>1, <4>1
      <3>2. CASE i = (n - k) + 1
        <4>1. k + i = n + 1 /\ i \in 1..(n + 1) - k
          BY <1>3, <3>2
        <4>2. QED  BY <1>5, <2>3, <2>5, <3>2, <4>1
      <3>3. i \in 1..n - k \/ i = (n - k) + 1
        BY <1>3, <2>3
      <3>4. QED  BY <3>1, <3>2, <3>3
    <2>7. Len(q) = Len(a)
      BY <1>3, <2>3, <2>5
    <2>8. q = a
      BY <2>3, <2>5, <2>6, <2>7, SeqEqual
    <2>9. QED  BY <2>1, <2>2, <2>4, <2>8
  <1>10. arrived' \o wire' = Frames!Stream(Append(s, payload))
    BY <1>3, <1>7, <1>8, <1>9, StreamOfOneMore
  <1>11. creceived' = SubSeq(t, 1, k)
    <2>1. PICK q, u : q = SubSeq(csent, 1, k) /\ u = SubSeq(t, 1, k)
      OBVIOUS
    <2>2. /\ q \in Seq(Payloads) /\ Len(q) = k /\ \A i \in 1..k : q[i] = csent[i]
      BY <1>2, <1>3, <2>1
    <2>3. /\ u \in Seq(Payloads) /\ Len(u) = k /\ \A i \in 1..k : u[i] = t[i]
      <3>1. k \in Nat /\ k <= n + 1 /\ n + 1 \in Nat
        BY <1>3
      <3>2. QED  BY <1>5, <2>1, <3>1
    <2>4. ASSUME NEW i \in 1..Len(q)
          PROVE  q[i] = u[i]
      <3>1. i \in 1..k /\ i \in 1..n
        BY <1>3, <2>2
      <3>2. QED  BY <1>5, <2>2, <2>3, <3>1
    <2>5. q = u
      BY <2>2, <2>3, <2>4, SeqEqual
    <2>6. QED  BY <1>1, <1>3, <2>1, <2>5
  <1>12. Frames!FramesAreKept'
    <2>1. PICK rest : rest = Append(s, payload)
      OBVIOUS
    <2>2. csent' = t /\ Len(csent') = n + 1 /\ Len(creceived') = k
      BY <1>1, <1>2, <1>4, <1>5
    <2>3. rest = Frames!From(csent', Len(creceived') + 1)
      BY <1>9, <2>1, <2>2 DEF Frames!From
    <2>4. arrived' \o wire' = Frames!Stream(rest)
      BY <1>10, <2>1
    <2>5. creceived' = SubSeq(csent', 1, Len(creceived'))
      BY <1>11, <2>2
    <2>6. QED  BY <1>1, <2>3, <2>4, <2>5, FramesStayKept
  <1>13. QED  BY <1>1, <1>2, <1>3, <1>4, <1>5, <1>7, <1>12 DEF FrameInv

LEMMA ArriveStep ==
    ASSUME FrameInv, NEW n \in 1..Len(wire), Frames!Arrive(n)
    PROVE  FrameInv'
  <1>1. /\ arrived' = arrived \o SubSeq(wire, 1, n) /\ wire' = SubSeq(wire, n + 1, Len(wire))
        /\ codec' = codec /\ csent' = csent /\ creceived' = creceived
    BY DEF Frames!Arrive, Frames!From
  <1>2. wire \in Seq(Nat) /\ arrived \in Seq(Nat) /\ n \in Nat /\ n <= Len(wire)
    BY DEF FrameInv
  <1>3. PICK a, b : a = SubSeq(wire, 1, n) /\ b = SubSeq(wire, n + 1, Len(wire))
    OBVIOUS
  <1>4. a \in Seq(Nat) /\ Len(a) = n /\ \A i \in 1..n : a[i] = wire[i]
    BY <1>2, <1>3
  <1>5. b \in Seq(Nat) /\ Len(b) = Len(wire) - n /\ \A i \in 1..Len(wire) - n : b[i] = wire[n + i]
    <2>1. PICK m \in Nat : m = Len(wire)
      BY <1>2
    <2>2. RestIs(Nat, wire, n, m, b)
      BY <1>2, <1>3, <2>1 DEF RestIs
    <2>3. RestHas(Nat, wire, n, m, b)
      BY <2>2, RestOf
    <2>4. QED  BY <2>1, <2>3 DEF RestHas
  <1>6. a \o b = wire
    <2>1. PICK m \in Nat : m = Len(wire)
      BY <1>2
    <2>2. PICK c : c = a \o b
      OBVIOUS
    <2>3. c \in Seq(Nat) /\ Len(c) = Len(a) + Len(b)
          /\ \A i \in 1..Len(a) + Len(b) : c[i] = IF i <= Len(a) THEN a[i] ELSE b[i - Len(a)]
      BY <1>4, <1>5, <2>2, ConcatProperties
    <2>4. Len(c) = m /\ \A i \in 1..m : c[i] = IF i <= n THEN a[i] ELSE b[i - n]
      BY <1>2, <1>4, <1>5, <2>1, <2>3
    <2>5. ASSUME NEW i \in 1..m
          PROVE  c[i] = wire[i]
      <3>1. CASE i <= n
        <4>1. i \in 1..n /\ c[i] = a[i]
          BY <1>2, <2>4, <3>1
        <4>2. QED  BY <1>4, <4>1
      <3>2. CASE ~ (i <= n)
        <4>1. i - n \in 1..m - n /\ n + (i - n) = i
          BY <1>2, <3>2
        <4>2. QED  BY <1>5, <2>1, <2>4, <3>2, <4>1
      <3>3. QED  BY <3>1, <3>2
    <2>6. \A i \in 1..Len(c) : c[i] = wire[i]
      BY <2>4, <2>5
    <2>7. c = wire
      BY <1>2, <2>1, <2>3, <2>4, <2>6, SeqEqual
    <2>8. QED  BY <2>2, <2>7
  <1>7. arrived' \in Seq(Nat) /\ wire' \in Seq(Nat) /\ arrived' \o wire' = arrived \o wire
    <2>1. (arrived \o a) \o b = arrived \o (a \o b)
      <3>1. SeqsIn(Nat, arrived, a, b)
        BY <1>2, <1>4, <1>5 DEF SeqsIn
      <3>2. QED  BY <3>1, Associates
    <2>2. arrived \o a \in Seq(Nat)
      BY <1>2, <1>4
    <2>3. QED  BY <1>1, <1>3, <1>5, <1>6, <2>1, <2>2
  <1>8. Frames!FramesAreKept'
    <2>1. PICK rest : rest = Frames!From(csent, Len(creceived) + 1)
      OBVIOUS
    <2>2. arrived \o wire = Frames!Stream(rest) /\ creceived = SubSeq(csent, 1, Len(creceived))
      BY <2>1 DEF FrameInv, Frames!FramesAreKept
    <2>3. rest = Frames!From(csent', Len(creceived') + 1)
      BY <1>1, <2>1 DEF Frames!From
    <2>4. QED  BY <1>1, <1>7, <2>2, <2>3, FramesStayKept
  <1>9. QED  BY <1>1, <1>7, <1>8 DEF FrameInv

LEMMA ReceiveStep ==
    ASSUME FrameInv, Frames!Receive
    PROVE  FrameInv'
  <1>1. /\ Frames!Decode(arrived).ok
        /\ creceived' = Append(creceived, Frames!Decode(arrived).result)
        /\ arrived' = Frames!Decode(arrived).remaining
        /\ codec' = codec /\ csent' = csent /\ wire' = wire
    BY DEF Frames!Receive
  <1>2. PICK n \in Nat, k \in Nat : n = Len(csent) /\ k = Len(creceived)
    BY DEF FrameInv
  <1>3. k <= n /\ csent \in Seq(Payloads) /\ creceived \in Seq(Payloads)
        /\ wire \in Seq(Nat) /\ arrived \in Seq(Nat)
        /\ creceived = SubSeq(csent, 1, k) /\ arrived \o wire = Frames!Stream(SubSeq(csent, k + 1, n))
    BY <1>2 DEF FrameInv, Frames!FramesAreKept, Frames!From
  <1>4. PICK s : s = SubSeq(csent, k + 1, n)
    OBVIOUS
  <1>5. /\ s \in Seq(Payloads) /\ Len(s) = n - k
        /\ \A i \in 1..n - k : s[i] = csent[k + i]
    <2>1. RestIs(Payloads, csent, k, n, s)
      BY <1>2, <1>3, <1>4 DEF RestIs
    <2>2. RestHas(Payloads, csent, k, n, s)
      BY <2>1, RestOf
    <2>3. QED  BY <1>2, <2>2 DEF RestHas
  <1>6. k < n
    <2>1. ASSUME k = n
          PROVE  FALSE
      <3>1. s = <<>>
        BY <1>3, <1>5, <2>1
      <3>2. arrived \o wire = <<>>
        BY <1>3, <1>4, <3>1, StreamOfNothing
      <3>3. QED  BY <1>1, <1>3, <3>2, NothingDecoded
    <2>2. QED  BY <1>3, <2>1
  <1>7. s # <<>> /\ Head(s) = csent[k + 1] /\ Head(s) \in Payloads
    <2>1. 1 \in 1..n - k
      BY <1>6
    <2>2. s # <<>>
      BY <1>5, <1>6
    <2>3. QED  BY <1>5, <2>1, <2>2, HeadTailProperties
  <1>8. Tail(s) = SubSeq(csent, (k + 1) + 1, n) /\ Tail(s) \in Seq(Payloads)
    <2>1. /\ Tail(s) \in Seq(Payloads) /\ Len(Tail(s)) = Len(s) - 1
          /\ \A i \in 1..Len(Tail(s)) : Tail(s)[i] = s[i + 1]
      BY <1>5, <1>7, HeadTailProperties
    <2>2. PICK q : q = SubSeq(csent, (k + 1) + 1, n)
      OBVIOUS
    <2>3. /\ q \in Seq(Payloads) /\ Len(q) = n - (k + 1)
          /\ \A i \in 1..n - (k + 1) : q[i] = csent[(k + 1) + i]
      <3>0. k + 1 \in Nat /\ k + 1 <= n
        BY <1>6
      <3>1. RestIs(Payloads, csent, k + 1, n, q)
        BY <3>0, <1>2, <1>3, <1>6, <2>2 DEF RestIs
      <3>2. RestHas(Payloads, csent, k + 1, n, q)
        BY <3>1, RestOf
      <3>3. QED  BY <3>2 DEF RestHas
    <2>4. Len(Tail(s)) = n - (k + 1)
      BY <1>5, <2>1
    <2>5. ASSUME NEW i \in 1..Len(Tail(s))
          PROVE  Tail(s)[i] = q[i]
      <3>1. i + 1 \in 1..n - k /\ i \in 1..n - (k + 1) /\ k + (i + 1) = (k + 1) + i
        BY <1>6, <2>4
      <3>2. QED  BY <1>5, <2>1, <2>3, <2>5, <3>1
    <2>6. Len(Tail(s)) = Len(q)
      BY <2>3, <2>4
    <2>7. Tail(s) = q
      BY <2>1, <2>3, <2>5, <2>6, SeqEqual
    <2>8. QED  BY <2>1, <2>2, <2>7
  <1>9. PICK p \in Payloads : p = csent[k + 1]
    BY <1>7
  <1>10. PICK r : r = Frames!Stream(Tail(s))
    OBVIOUS
  <1>11. r \in Seq(Nat) /\ arrived \o wire = Frames!Encode(p) \o r
    <2>1. r \in Seq(Nat)
      BY <1>8, <1>10, StreamIsBytes
    <2>2. Frames!Stream(s) = Frames!Encode(Head(s)) \o Frames!Stream(Tail(s))
      BY <1>5, <1>7, StreamOfFirst
    <2>3. QED  BY <1>3, <1>4, <1>7, <1>9, <1>10, <2>1, <2>2
  <1>12. /\ Frames!Decode(arrived).result = p
         /\ arrived' \in Seq(Nat) /\ arrived' \o wire' = r
    <2>1. /\ Frames!Decode(arrived).result = p
          /\ Frames!Decode(arrived).remaining \in Seq(Nat)
          /\ Frames!Decode(arrived).remaining \o wire = r
      <3>1. Arriving(p, arrived, wire, r)
        BY <1>3, <1>11 DEF Arriving
      <3>2. QED  BY <1>1, <3>1, DecodedIsNext
    <2>2. QED  BY <1>1, <2>1
  <1>13. /\ creceived' \in Seq(Payloads) /\ Len(creceived') = k + 1
         /\ creceived' = SubSeq(csent, 1, k + 1)
    <2>1. PICK a : a = Append(creceived, p)
      OBVIOUS
    <2>2. /\ a \in Seq(Payloads) /\ Len(a) = k + 1 /\ a[k + 1] = p
          /\ \A i \in 1..k : a[i] = creceived[i]
      BY <1>2, <1>3, <2>1, AppendProperties
    <2>3. PICK q : q = SubSeq(csent, 1, k + 1)
      OBVIOUS
    <2>4. q \in Seq(Payloads) /\ Len(q) = k + 1 /\ \A i \in 1..k + 1 : q[i] = csent[i]
      BY <1>2, <1>3, <1>6, <2>3
    <2>5. \A i \in 1..k : creceived[i] = csent[i]
      BY <1>2, <1>3
    <2>6. ASSUME NEW i \in 1..Len(a)
          PROVE  a[i] = q[i]
      <3>1. CASE i = k + 1
        BY <1>9, <2>2, <2>4, <3>1
      <3>2. CASE i # k + 1
        <4>1. i \in 1..k /\ i \in 1..k + 1
          BY <2>2, <3>2
        <4>2. QED  BY <2>2, <2>4, <2>5, <4>1
      <3>3. QED  BY <3>1, <3>2
    <2>7. Len(a) = Len(q)
      BY <2>2, <2>4
    <2>8. a = q
      BY <2>2, <2>4, <2>6, <2>7, SeqEqual
    <2>9. creceived' = a
      BY <1>1, <1>12, <2>1
    <2>10. QED  BY <2>2, <2>3, <2>8, <2>9
  <1>14. Frames!FramesAreKept'
    <2>1. PICK rest : rest = Tail(s)
      OBVIOUS
    <2>2. rest = Frames!From(csent', Len(creceived') + 1)
      BY <1>1, <1>2, <1>8, <1>13, <2>1 DEF Frames!From
    <2>3. arrived' \o wire' = Frames!Stream(rest)
      BY <1>10, <1>12, <2>1
    <2>4. creceived' = SubSeq(csent', 1, Len(creceived'))
      BY <1>1, <1>13
    <2>5. QED  BY <1>1, <2>2, <2>3, <2>4, FramesStayKept
  <1>15. QED  BY <1>1, <1>2, <1>3, <1>6, <1>12, <1>13, <1>14 DEF FrameInv

LEMMA FramesStep == FrameInv /\ [Frames!Next]_frameVars => FrameInv'
  <1> SUFFICES ASSUME FrameInv, [Frames!Next]_frameVars
               PROVE  FrameInv'
    OBVIOUS
  <1>1. CASE UNCHANGED frameVars
    <2>1. /\ codec' = codec /\ csent' = csent /\ creceived' = creceived
          /\ wire' = wire /\ arrived' = arrived
      BY <1>1 DEF frameVars
    <2>2. PICK rest : rest = Frames!From(csent, Len(creceived) + 1)
      OBVIOUS
    <2>3. arrived \o wire = Frames!Stream(rest) /\ creceived = SubSeq(csent, 1, Len(creceived))
      BY <2>2 DEF FrameInv, Frames!FramesAreKept
    <2>4. rest = Frames!From(csent', Len(creceived') + 1)
      BY <2>1, <2>2 DEF Frames!From
    <2>5. Frames!FramesAreKept'
      BY <2>1, <2>3, <2>4, FramesStayKept
    <2>6. QED  BY <2>1, <2>5 DEF FrameInv
  <1>2. QED  BY <1>1, SendStep, ArriveStep, ReceiveStep DEF Frames!Next

\* For messages of any bytes, header-like ones too, and pieces of any size: what has
\* been decoded is what was sent, in order, and the bytes on their way are the rest.
THEOREM FramesLoseNothing == BuffersSpec => []Frames!FramesAreKept
  <1>1. BuffersInit => FrameInv
    BY FramesInitially DEF BuffersInit
  <1>2. FrameInv /\ [BuffersNext]_buffersVars => FrameInv'
    <2>1. [BuffersNext]_buffersVars => [Frames!Next]_frameVars
      BY DEF BuffersNext, buffersVars, exceptRing, exceptLogger, exceptBatch, exceptRotator
    <2>2. QED  BY <2>1, FramesStep
  <1>3. FrameInv => Frames!FramesAreKept
    BY DEF FrameInv
  <1>4. QED  BY <1>1, <1>2, <1>3, PTL DEF BuffersSpec

\* For any size of the rings, any number of entries and any messages: with one thread
\* that logs, neither logger and neither codec loses, repeats or reorders anything.
THEOREM NothingIsLost ==
    ASSUME NEW CONSTANT p, Producers = {p}
    PROVE  BuffersSpec => []NothingLost
  <1>1. BuffersSpec => []Logger!NothingLost
    BY OneProducerLosesNothing
  <1>2. NothingLost <=> Logger!NothingLost /\ Logs!PrintedInOrder /\ Frames!FramesAreKept
    BY DEF NothingLost
  <1>3. QED  BY <1>1, <1>2, BatchesLoseNothing, FramesLoseNothing, PTL

================================================================================
