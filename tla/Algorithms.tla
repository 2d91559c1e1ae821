------------------------------- MODULE Algorithms -------------------------------
(***************************************************************************)
(* The pure functions of algo, other and craft/performance/sort.cpp, each  *)
(* with what it has to return, and the filters of craft/bloom, whose       *)
(* answer is a function of what was inserted.  A state is a call with its  *)
(* result.  A vector is a function from 0 .. n-1; an index outside of it   *)
(* is an error TLC reports.                                                *)
(***************************************************************************)
EXTENDS Integers, FiniteSets

CONSTANTS MaxLength, Values,
          Byte,   \* the number of values of a byte
          Widths, \* the sizes of the integers swapped
          Items, BloomSize, HashCnt   \* a filter of BloomSize bits and HashCnt hashes

VARIABLES call, result

vars == <<call, result>>

Size(a) == Cardinality(DOMAIN a)

Swap(a, i, j) == [a EXCEPT ![i] = a[j], ![j] = a[i]]

Least(S) == CHOOSE i \in S : \A j \in S : i <= j
Greatest(S) == CHOOSE i \in S : \A j \in S : i >= j

-------------------------------------------------------------------------------

\* The loops of bubbleSort.
bubbleSort(arr) ==
    LET n == Size(arr)
        inner(b, i) ==
            LET turn[j \in 0..(n - i - 1)] ==
                    IF j = 0 THEN b
                    ELSE LET c == turn[j - 1]
                         IN IF c[j - 1] > c[j] THEN Swap(c, j - 1, j) ELSE c
            IN turn[n - i - 1]
        outer[i \in 0..(n - 1)] == IF i = 0 THEN arr ELSE inner(outer[i - 1], i - 1)
    IN outer[n - 1]

\* quickSort: the last element is the pivot.
quickSort(vector) ==
    LET n == Size(vector)
        sort[arr \in [DOMAIN vector -> Int], low \in 0..n, high \in -1..(n - 1)] ==
            IF low >= high THEN arr
            ELSE LET pivot == arr[high]
                     loop[j \in low..high] ==   \* <<arr, i>> before the turn of j
                         IF j = low THEN <<arr, low - 1>>
                         ELSE LET s == loop[j - 1]
                              IN IF s[1][j - 1] <= pivot
                                 THEN <<Swap(s[1], s[2] + 1, j - 1), s[2] + 1>> ELSE s
                     i == loop[high][2]
                 IN sort[sort[Swap(loop[high][1], i + 1, high), low, i], i + 2, high]
    IN sort[vector, 0, n - 1]

\* merge: the smaller of the two heads, the left one if they are equal.
merge(arr, left, mid, right) ==
    LET temp[n \in 0..(right - left + 1)] ==   \* <<arr[left ..], i, j>> after n turns
            IF n = 0 THEN <<arr, left, mid + 1>>
            ELSE LET s == temp[n - 1]
                     i == s[2]
                     j == s[3]
                     takeLeft == i <= mid /\ (j <= right => arr[i] <= arr[j])
                 IN IF takeLeft THEN <<[s[1] EXCEPT ![left + n - 1] = arr[i]], i + 1, j>>
                    ELSE <<[s[1] EXCEPT ![left + n - 1] = arr[j]], i, j + 1>>
    IN temp[right - left + 1][1]

mergeSort(vector) ==
    LET n == Size(vector)
        sort[arr \in [DOMAIN vector -> Int], left \in 0..n, right \in 0..n] ==
            IF left >= right THEN arr
            ELSE LET mid == left + ((right - left) \div 2)
                 IN merge(sort[sort[arr, left, mid], mid + 1, right], left, mid, right)
    IN sort[vector, 0, n - 1]

\* Of the first n: the element at i goes down, each greater child up.
heapify(vector, n, top) ==
    LET sift[arr \in [DOMAIN vector -> Int], i \in 0..n] ==
            LET left == 2 * i + 1
                right == 2 * i + 2
                l == IF left < n /\ arr[left] > arr[i] THEN left ELSE i
                largest == IF right < n /\ arr[right] > arr[l] THEN right ELSE l
            IN IF largest = i THEN arr ELSE sift[Swap(arr, i, largest), largest]
    IN sift[vector, top]

heapSort(arr) ==
    LET n == Size(arr)
        build[i \in 0..(n \div 2)] ==
            IF i = n \div 2 THEN arr ELSE heapify(build[i + 1], n, i)
        extract[i \in 1..n] ==
            IF i = n THEN build[0] ELSE heapify(Swap(extract[i + 1], 0, i), i, 0)
    IN extract[1]

\* QuickSelect looks for the smallest, QuickSelectDecrease for the greatest.
Before(decrease, a, b) == IF decrease THEN a > b ELSE a < b

\* The two scans and the swaps of QuickSelect's loop: the vector and r.
Partitioned(vector, left, right, pivot, decrease) ==
    LET ends == (left - 1)..(right + 1)
        turn[nums \in [DOMAIN vector -> Int], l \in ends, r \in ends] ==
            LET i == Least({j \in (l + 1)..right : ~Before(decrease, nums[j], pivot)})
                j == Greatest({n \in left..(r - 1) : ~Before(decrease, pivot, nums[n])})
            IN IF i < j THEN turn[Swap(nums, i, j), i, j] ELSE <<nums, j>>
    IN turn[vector, left - 1, right + 1]

QuickSelect(vector, n, decrease) ==
    LET select[nums \in [DOMAIN vector -> Int], left \in DOMAIN vector,
               right \in DOMAIN vector] ==
            IF left = right THEN nums[left]
            ELSE LET p == Partitioned(nums, left, right, nums[left], decrease)
                 IN IF n <= p[2] THEN select[p[1], left, p[2]]
                    ELSE select[p[1], p[2] + 1, right]
    IN select[vector, 0, Size(vector) - 1]

LowerBound(a, value) ==
    LET bound[first \in 0..Size(a), count \in 0..Size(a)] ==
            IF count = 0 THEN first
            ELSE LET step == count \div 2
                 IN IF a[first + step] < value
                    THEN bound[first + step + 1, count - (step + 1)]
                    ELSE bound[first, step]
    IN bound[0, Size(a)]

UpperBound(a, value) ==
    LET bound[first \in 0..Size(a), count \in 0..Size(a)] ==
            IF count = 0 THEN first
            ELSE LET step == count \div 2
                 IN IF value < a[first + step] THEN bound[first, step]
                    ELSE bound[first + step + 1, count - (step + 1)]
    IN bound[0, Size(a)]

-------------------------------------------------------------------------------
\* Byte order: a value in memory is its bytes, the lowest first or last.

Digit(value, i) == (value \div Byte^i) % Byte

Memory(value, n, order) ==
    [i \in 0..(n - 1) |-> Digit(value, IF order = "LittleEndian" THEN i ELSE n - 1 - i)]

ValueOf(bytes, order) ==
    CHOOSE v \in 0..(Byte^Size(bytes) - 1) : Memory(v, Size(bytes), order) = bytes

\* The first byte of 0x0102 is its high one if the system is big endian.
GetSystemByteOrder(host) ==
    IF Memory(Byte + 2, 2, host)[0] = 1 THEN "BigEndian" ELSE "LittleEndian"

ByteSwap(value, n, host) ==
    LET src == Memory(value, n, host)
    IN ValueOf([i \in 0..(n - 1) |-> src[n - 1 - i]], host)

ToBigEndian(value, n, host) ==
    IF GetSystemByteOrder(host) = "LittleEndian" THEN ByteSwap(value, n, host) ELSE value

ToLittleEndian(value, n, host) ==
    IF GetSystemByteOrder(host) = "LittleEndian" THEN value ELSE ByteSwap(value, n, host)

-------------------------------------------------------------------------------
\* Bloom filters.  hash[item, i] is hash_i modulo the size; the functions are any.

Hashes == [Items \X (0..(BloomSize - 1)) -> 0..(BloomSize - 1)]

\* The bits set for an item.
insert(hash, item) == {hash[item, i] : i \in 0..(HashCnt - 1)}

contains2(hash, bits, item) == \A i \in 0..(HashCnt - 1) : hash[item, i] \in bits

\* The loop of the third version goes to hashSize.
contains3(hash, bits, item) == \A i \in 0..(BloomSize - 1) : hash[item, i] \in bits

-------------------------------------------------------------------------------

Vectors == UNION {[0..(n - 1) -> Values] : n \in 1..MaxLength}

Sorted(a) == \A i, j \in DOMAIN a : i <= j => a[i] <= a[j]

Copies(a, v) == Cardinality({i \in DOMAIN a : a[i] = v})

Init == call = [fn |-> "none"] /\ result = [number |-> 0]

Sort == \E a \in Vectors, fn \in {"bubble", "quick", "merge", "heap"} :
    /\ call' = [fn |-> "sort", a |-> a]
    /\ result' = [vector |-> CASE fn = "bubble" -> bubbleSort(a)
                               [] fn = "quick" -> quickSort(a)
                               [] fn = "merge" -> mergeSort(a)
                               [] fn = "heap" -> heapSort(a)]

Select == \E a \in Vectors, decrease \in BOOLEAN : \E n \in DOMAIN a :
    /\ call' = [fn |-> "select", a |-> a, n |-> n, decrease |-> decrease]
    /\ result' = [number |-> QuickSelect(a, n, decrease)]

Bound == \E a \in Vectors, value \in Values : \E upper \in BOOLEAN :
    /\ Sorted(a)
    /\ call' = [fn |-> "bound", a |-> a, value |-> value, upper |-> upper]
    /\ result' = [number |-> IF upper THEN UpperBound(a, value) ELSE LowerBound(a, value)]

TransOrder ==
    \E n \in Widths, host \in {"LittleEndian", "BigEndian"}, big \in BOOLEAN :
       \E value \in 0..(Byte^n - 1) :
          /\ call' = [fn |-> "order", n |-> n, host |-> host, big |-> big, value |-> value]
          /\ result' = [number |-> IF big THEN ToBigEndian(value, n, host)
                                   ELSE ToLittleEndian(value, n, host)]

Filter ==
    \E version \in {2, 3}, hash \in Hashes, inserted \in SUBSET Items, item \in Items :
       LET bits == UNION {insert(hash, i) : i \in inserted}
       IN /\ call' = [fn |-> "filter", version |-> version, inserted |-> inserted, item |-> item,
                      unset |-> \E i \in HashCnt..(BloomSize - 1) : hash[item, i] \notin bits]
          /\ result' = [found |-> IF version = 2 THEN contains2(hash, bits, item)
                                  ELSE contains3(hash, bits, item)]

Next == call.fn = "none" /\ (Sort \/ Select \/ Bound \/ TransOrder \/ Filter)

-------------------------------------------------------------------------------

\* A sorted vector with the elements there were; the element that n others come before
\* in the order; the first position whose element is not less, or is greater; the bytes
\* in memory in the order asked for, whatever the machine's own; what was inserted is
\* found, but by the third version only if hashes nobody set for it happen to be set.
ResultIsRight ==
    CASE call.fn = "none" -> TRUE
      [] call.fn = "sort" -> /\ Sorted(result.vector)
                             /\ \A v \in Values : Copies(result.vector, v) = Copies(call.a, v)
      [] call.fn = "select" ->
            LET firsts == {i \in DOMAIN call.a : Before(call.decrease, call.a[i], result.number)}
            IN /\ Cardinality(firsts) <= call.n
               /\ call.n < Cardinality(firsts) + Copies(call.a, result.number)
      [] call.fn = "bound" ->
            result.number = Cardinality({i \in DOMAIN call.a :
                         call.a[i] < call.value \/ (call.upper /\ call.a[i] = call.value)})
      [] call.fn = "order" ->
            Memory(result.number, call.n, call.host) =
                Memory(call.value, call.n, IF call.big THEN "BigEndian" ELSE "LittleEndian")
      [] call.fn = "filter" ->
            call.item \in call.inserted /\ ~result.found => call.version = 3 /\ call.unset
===============================================================================
