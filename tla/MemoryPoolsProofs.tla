--------------------------- MODULE MemoryPoolsProofs ---------------------------
(***************************************************************************)
(* What module MCMemoryPools checks on a few blocks, proved for every      *)
(* number of pools, threads and blocks and for every size.                 *)
(*                                                                         *)
(* Each part has an inductive invariant over its own variables, and a step *)
(* of the composition is, for every part, a step of its own or none.       *)
(***************************************************************************)
EXTENDS MCMemoryPools, Integers, Sequences, FiniteSetTheorems, SequenceTheorems, TLAPS

(***************************************************************************)
(* Lists of blocks.                                                        *)
(***************************************************************************)

Elements(s) == {s[i] : i \in DOMAIN s}
Distinct(s) == \A i, j \in DOMAIN s : s[i] = s[j] => i = j

LEMMA EmptyList ==
    ASSUME NEW S
    PROVE  <<>> \in Seq(S) /\ Elements(<<>>) = {} /\ Distinct(<<>>)
  BY DEF Elements, Distinct

\* A block is taken from the front of a list.
LEMMA TakeFront ==
    ASSUME NEW S, NEW s \in Seq(S), s # <<>>
    PROVE  /\ Head(s) \in S /\ Tail(s) \in Seq(S)
           /\ Elements(s) = Elements(Tail(s)) \cup {Head(s)}
           /\ Distinct(s) => Distinct(Tail(s)) /\ Head(s) \notin Elements(Tail(s))
  <1>1. /\ DOMAIN s = 1..Len(s) /\ Len(s) \in Nat \ {0} /\ Head(s) = s[1] /\ s[1] \in S
        /\ Tail(s) \in Seq(S) /\ DOMAIN Tail(s) = 1..Len(s) - 1
        /\ \A i \in 1..Len(s) - 1 : Tail(s)[i] = s[i + 1]
    OBVIOUS
  <1>2. \A i \in 1..Len(s) : i = 1 \/ (i - 1 \in 1..Len(s) - 1 /\ s[i] = Tail(s)[i - 1])
    BY <1>1
  <1>3. Elements(s) = Elements(Tail(s)) \cup {Head(s)}
    <2>1. \A i \in 1..Len(s) : s[i] = Head(s) \/ s[i] \in Elements(Tail(s))
      <3>1. \A i \in 1..Len(s) : s[i] = s[1] \/ \E j \in 1..Len(s) - 1 : s[i] = Tail(s)[j]
        BY <1>2
      <3>2. QED  BY <1>1, <3>1 DEF Elements
    <2>2. \A x \in Elements(Tail(s)) : x \in Elements(s)
      BY <1>1 DEF Elements
    <2>3. Head(s) \in Elements(s)
      BY <1>1 DEF Elements
    <2>4. QED  BY <1>1, <2>1, <2>2, <2>3 DEF Elements
  <1>4. ASSUME Distinct(s)
        PROVE  Distinct(Tail(s)) /\ Head(s) \notin Elements(Tail(s))
    BY <1>1, <1>4 DEF Distinct, Elements
  <1>5. QED  BY <1>1, <1>3, <1>4

\* A block is put in front of a list.
LEMMA PutFront ==
    ASSUME NEW S, NEW s \in Seq(S), NEW x \in S
    PROVE  /\ <<x>> \o s \in Seq(S)
           /\ Elements(<<x>> \o s) = Elements(s) \cup {x}
           /\ Distinct(s) /\ x \notin Elements(s) => Distinct(<<x>> \o s)
  <1> DEFINE r == <<x>> \o s
  <1>1. /\ DOMAIN s = 1..Len(s) /\ Len(s) \in Nat
        /\ r \in Seq(S) /\ DOMAIN r = 1..Len(s) + 1
        /\ r[1] = x /\ \A i \in 1..Len(s) : r[i + 1] = s[i]
    OBVIOUS
  <1>2. \A i \in 1..Len(s) + 1 : i = 1 \/ (i - 1 \in 1..Len(s) /\ r[i] = s[i - 1])
    BY <1>1
  <1> HIDE DEF r
  <1>3. Elements(r) = Elements(s) \cup {x}
    <2>1. \A y \in Elements(r) : y = x \/ y \in Elements(s)
      BY <1>1, <1>2 DEF Elements
    <2>2. \A y \in Elements(s) : y \in Elements(r)
      BY <1>1 DEF Elements
    <2>3. x \in Elements(r)
      BY <1>1 DEF Elements
    <2>4. QED  BY <2>1, <2>2, <2>3
  <1>4. ASSUME Distinct(s), x \notin Elements(s)
        PROVE  Distinct(r)
    <2> SUFFICES ASSUME NEW i \in 1..Len(s) + 1, NEW j \in 1..Len(s) + 1, r[i] = r[j]
                 PROVE  i = j
      BY <1>1 DEF Distinct
    <2>1. CASE i # 1 /\ j # 1
      BY <1>1, <1>2, <1>4, <2>1, SMTT(30) DEF Distinct
    <2>2. CASE i = 1 \/ j = 1
      <3>1. \A h \in 1..Len(s) : s[h] # x
        BY <1>1, <1>4 DEF Elements
      <3>2. QED  BY <1>1, <1>2, <2>2, <3>1
    <2>3. QED  BY <2>1, <2>2
  <1>5. QED  BY <1>1, <1>3, <1>4 DEF r

\* recycle: what is kept and what is given back are together the list, each once.
LEMMA Halves ==
    ASSUME NEW S, NEW s \in Seq(S)
    PROVE  /\ Static!Kept(s) \in Seq(S)
           /\ Elements(Static!Kept(s)) \cup Static!GivenBack(s) = Elements(s)
           /\ Distinct(s) => /\ Distinct(Static!Kept(s))
                             /\ Elements(Static!Kept(s)) \cap Static!GivenBack(s) = {}
           /\ Static!GivenBack(s) = {} => Len(Static!Kept(s)) <= 1
  <1> DEFINE k == Static!Kept(s)
             g == Static!GivenBack(s)
             n == Len(s)
             m == (n + 1) \div 2
             h == n \div 2
  <1>1. n \in Nat /\ DOMAIN s = 1..n /\ \A i \in 1..n : s[i] \in S
    OBVIOUS
  <1>2. m \in Nat /\ h \in Nat /\ 2 * m - 1 <= n /\ 2 * h <= n /\ n <= 2 * h + 1
    BY <1>1
  <1>3. /\ \A i \in 1..m : 2 * i - 1 \in 1..n
        /\ \A i \in 1..h : 2 * i \in 1..n
    BY <1>1, <1>2
  <1>4. \A j \in 1..n : \/ \E i \in 1..m : j = 2 * i - 1
                        \/ \E i \in 1..h : j = 2 * i
    <2> SUFFICES ASSUME NEW j \in 1..n
                 PROVE  (\E i \in 1..m : j = 2 * i - 1) \/ (\E i \in 1..h : j = 2 * i)
      OBVIOUS
    <2>1. (j + 1) \div 2 \in Nat /\ j \div 2 \in Nat
      BY <1>1
    <2>2. j = 2 * ((j + 1) \div 2) - 1 \/ j = 2 * (j \div 2)
      BY <1>1
    <2>3. CASE j = 2 * ((j + 1) \div 2) - 1
      <3>1. (j + 1) \div 2 \in 1..m
        BY <1>1, <1>2, <2>1, <2>3
      <3>2. QED  BY <2>3, <3>1
    <2>4. CASE j = 2 * (j \div 2)
      <3>1. j \div 2 \in 1..h
        BY <1>1, <1>2, <2>1, <2>4
      <3>2. QED  BY <2>4, <3>1
    <2>5. QED  BY <2>2, <2>3, <2>4
  <1>5. k = [i \in 1..m |-> s[2 * i - 1]] /\ g = {s[2 * i] : i \in 1..h}
    BY DEF Static!Kept, Static!GivenBack
  <1> HIDE DEF k, g, n, m, h
  <1>6. /\ k \in Seq(S) /\ DOMAIN k = 1..m /\ Len(k) = m
        /\ \A i \in 1..m : k[i] = s[2 * i - 1]
    BY <1>1, <1>2, <1>3, <1>5
  <1>7. Elements(k) \cup g = Elements(s)
    <2>1. \A x \in Elements(k) : x \in Elements(s)
      BY <1>1, <1>3, <1>6 DEF Elements
    <2>2. \A x \in g : x \in Elements(s)
      BY <1>1, <1>3, <1>5 DEF Elements
    <2>3. \A j \in 1..n : s[j] \in Elements(k) \cup g
      BY <1>4, <1>5, <1>6 DEF Elements
    <2>4. QED  BY <1>1, <2>1, <2>2, <2>3 DEF Elements
  <1>8. ASSUME Distinct(s)
        PROVE  Distinct(k) /\ Elements(k) \cap g = {}
    <2>1. \A i, j \in 1..m : k[i] = k[j] => i = j
      <3>1. \A i, j \in 1..m : s[2 * i - 1] = s[2 * j - 1] => 2 * i - 1 = 2 * j - 1
        BY <1>1, <1>3, <1>8 DEF Distinct
      <3>2. \A i, j \in 1..m : 2 * i - 1 = 2 * j - 1 => i = j
        BY <1>2
      <3>3. QED  BY <1>6, <3>1, <3>2
    <2>2. \A i \in 1..m, j \in 1..h : k[i] # s[2 * j]
      <3>1. \A i \in 1..m, j \in 1..h : s[2 * i - 1] = s[2 * j] => 2 * i - 1 = 2 * j
        BY <1>1, <1>3, <1>8 DEF Distinct
      <3>2. \A i \in 1..m, j \in 1..h : 2 * i - 1 # 2 * j
        BY <1>2
      <3>3. QED  BY <1>6, <3>1, <3>2, SMTT(30)
    <2>3. QED  BY <1>5, <1>6, <2>1, <2>2 DEF Distinct, Elements
  <1>9. ASSUME g = {}
        PROVE  Len(k) <= 1
    <2>1. h = 0
      <3>1. 1 \notin 1..h
        BY <1>5, <1>9
      <3>2. QED  BY <1>2, <3>1
    <2>2. QED  BY <1>1, <1>2, <1>6, <2>1 DEF m
  <1>10. QED  BY <1>6, <1>7, <1>8, <1>9 DEF k, g

(***************************************************************************)
(* StaticMemPool.  S is what the system has, H[p] what the program holds   *)
(* of pool p and L[p] what pool p has linked.                              *)
(***************************************************************************)

Apart(S, H, L) ==
    /\ \A p \in Pools : S \cap H[p] = {} /\ S \cap L[p] = {}
    /\ \A p, q \in Pools : H[p] \cap L[q] = {}
    /\ \A p, q \in Pools : p # q => H[p] \cap H[q] = {} /\ L[p] \cap L[q] = {}
    /\ \A b \in Blocks : b \in S \/ \E p \in Pools : b \in H[p] \/ b \in L[p]

LEMMA TakingKeepsApart ==
    ASSUME NEW S, NEW H, NEW L, NEW I, NEW M, Apart(S, H, L), NEW r \in Pools, NEW b,
           \/ b \in L[r] /\ I[r] = H[r] \cup {b} /\ M[r] = L[r] \ {b}
           \/ b \in H[r] /\ I[r] = H[r] \ {b} /\ M[r] = L[r] \cup {b},
           \A p \in Pools \ {r} : I[p] = H[p] /\ M[p] = L[p]
    PROVE  Apart(S, I, M)
  <1>1. /\ \A p \in Pools : \A c : (c \in I[p] \/ c \in M[p]) <=> (c \in H[p] \/ c \in L[p])
        /\ I[r] \cap M[r] = {}
    BY DEF Apart
  <1>2. \A p, q \in Pools : p # q => /\ (H[p] \cup L[p]) \cap (H[q] \cup L[q]) = {}
                                     /\ (I[p] \cup M[p]) \cap (I[q] \cup M[q]) = {}
    BY <1>1 DEF Apart
  <1>3. /\ \A p \in Pools : S \cap I[p] = {} /\ S \cap M[p] = {}
        /\ \A c \in Blocks : c \in S \/ \E p \in Pools : c \in I[p] \/ c \in M[p]
    BY <1>1 DEF Apart
  <1>4. \A p \in Pools : I[p] \cap M[p] = {}
    BY <1>1 DEF Apart
  <1>5. QED  BY <1>2, <1>3, <1>4 DEF Apart

LEMMA AnsweringKeepsApart ==
    ASSUME NEW S, NEW H, NEW L, NEW I, Apart(S, H, L), NEW r \in Pools, NEW b \in S,
           I[r] = H[r] \cup {b}, \A p \in Pools \ {r} : I[p] = H[p]
    PROVE  Apart(S \ {b}, I, L)
  <1>1. \A p \in Pools : \A c : (c \in I[p]) <=> (c \in H[p] \/ (c = b /\ p = r))
    OBVIOUS
  <1>2. QED  BY <1>1 DEF Apart

LEMMA RecyclingKeepsApart ==
    ASSUME NEW S, NEW H, NEW L, NEW M, NEW G, Apart(S, H, L),
           \A p \in Pools : M[p] \cup G[p] = L[p] /\ M[p] \cap G[p] = {}
    PROVE  Apart(S \cup UNION {G[p] : p \in Pools}, H, M)
  <1> DEFINE T == S \cup UNION {G[p] : p \in Pools}
  <1>1. \A c : c \in T <=> c \in S \/ \E p \in Pools : c \in G[p]
    OBVIOUS
  <1> HIDE DEF T
  <1>2. /\ \A p \in Pools : T \cap H[p] = {}
        /\ \A p \in Pools : T \cap M[p] = {}
    BY <1>1 DEF Apart
  <1>3. /\ \A p, q \in Pools : H[p] \cap M[q] = {}
        /\ \A p, q \in Pools : p # q => H[p] \cap H[q] = {} /\ M[p] \cap M[q] = {}
    BY DEF Apart
  <1>4. \A b \in Blocks : b \in T \/ \E p \in Pools : b \in H[p] \/ b \in M[p]
    BY <1>1 DEF Apart
  <1>5. QED  BY <1>2, <1>3, <1>4 DEF Apart, T

StaticTypes ==
    /\ freeList \in [Pools -> Seq(Blocks)]
    /\ system \subseteq Blocks
    /\ held \in [Pools -> SUBSET Blocks]
    /\ request \in [Threads -> Pools \cup {NoPool}]
    /\ threaded \in BOOLEAN
    /\ setLock \in Threads \cup {NoThread}
    /\ \A t \in Threads : setLock = t => request[t] # NoPool

Linked == [p \in Pools |-> Elements(freeList[p])]

StaticInv ==
    /\ StaticTypes
    /\ \A p \in Pools : Distinct(freeList[p])
    /\ Apart(system, held, Linked)

LEMMA StaticAnswer ==
    ASSUME StaticTypes, NEW t \in Threads, request[t] # NoPool, NEW room \in SUBSET Blocks,
           NEW L, Apart(room, held, L), Static!Answer(t, room), system \subseteq room,
           freeList' \in [Pools -> Seq(Blocks)], setLock' = NoThread \/ setLock # t,
           UNCHANGED threaded, setLock' \in {setLock, NoThread}
    PROVE  StaticTypes' /\ (room = system \/ room # {} => Apart(system', held', L))
  <1>1. request[t] \in Pools /\ NoThread \notin Threads /\ NoPool \notin Pools
    BY PoolsAssumption DEF StaticTypes, Static!StaticMemPoolAssumption
  <1>2. CASE \E b \in room : system' = room \ {b}
                             /\ held' = [held EXCEPT ![request[t]] = @ \cup {b}]
    <2>1. PICK b \in room : system' = room \ {b}
                            /\ held' = [held EXCEPT ![request[t]] = held[request[t]] \cup {b}]
      BY <1>2
    <2>2. /\ held'[request[t]] = held[request[t]] \cup {b}
          /\ \A p \in Pools \ {request[t]} : held'[p] = held[p]
          /\ held' \in [Pools -> SUBSET Blocks]
      BY <1>1, <2>1 DEF StaticTypes
    <2>3. Apart(system', held', L)
      BY <1>1, <2>1, <2>2, AnsweringKeepsApart
    <2>4. request' = [request EXCEPT ![t] = NoPool]
      BY DEF Static!Answer
    <2>5. StaticTypes'
      BY <1>1, <2>1, <2>2, <2>4 DEF StaticTypes
    <2>6. QED  BY <2>3, <2>5
  <1>3. CASE room = {} /\ UNCHANGED <<system, held>>
    <2>1. request' = [request EXCEPT ![t] = NoPool]
      BY DEF Static!Answer
    <2>2. StaticTypes'
      BY <1>1, <1>3, <2>1 DEF StaticTypes
    <2>3. QED  BY <1>3, <2>2
  <1>4. QED  BY <1>2, <1>3 DEF Static!Answer

LEMMA StaticStep == StaticInv /\ [Static!Next]_staticVars => StaticInv'
  <1> SUFFICES ASSUME StaticInv, [Static!Next]_staticVars  PROVE StaticInv'
    OBVIOUS
  <1>1. /\ NoThread \notin Threads /\ NoPool \notin Pools
        /\ StaticTypes /\ Apart(system, held, Linked)
        /\ \A p \in Pools : freeList[p] \in Seq(Blocks) /\ Distinct(freeList[p])
        /\ \A p \in Pools : Linked[p] = Elements(freeList[p])
        /\ \A p \in Pools : Linked'[p] = Elements(freeList'[p])
    BY PoolsAssumption DEF StaticInv, StaticTypes, Linked, Static!StaticMemPoolAssumption
  <1>2. ASSUME NEW t \in Threads, NEW p \in Pools, Static!AllocatePooled(t, p)
        PROVE  StaticInv'
    <2> DEFINE b == Head(freeList[p])
    <2>1. /\ freeList[p] # <<>>
          /\ freeList' = [freeList EXCEPT ![p] = Tail(freeList[p])]
          /\ held' = [held EXCEPT ![p] = held[p] \cup {b}]
          /\ UNCHANGED <<threaded, system, request, setLock>>
      BY <1>2 DEF Static!AllocatePooled
    <2>2. /\ b \in Blocks /\ Tail(freeList[p]) \in Seq(Blocks)
          /\ Linked[p] = Elements(Tail(freeList[p])) \cup {b}
          /\ Distinct(Tail(freeList[p])) /\ b \notin Elements(Tail(freeList[p]))
      BY <1>1, <2>1, TakeFront
    <2> HIDE DEF b
    <2>3. StaticTypes'
      BY <1>1, <2>1, <2>2 DEF StaticTypes
    <2>4. /\ b \in Linked[p] /\ held'[p] = held[p] \cup {b} /\ Linked'[p] = Linked[p] \ {b}
          /\ \A q \in Pools \ {p} : held'[q] = held[q] /\ Linked'[q] = Linked[q]
      BY <1>1, <2>1, <2>2 DEF StaticTypes
    <2>5. Apart(system, held', Linked')
      BY <1>1, <2>4, TakingKeepsApart
    <2>6. \A q \in Pools : Distinct(freeList'[q])
      BY <1>1, <2>1, <2>2 DEF StaticTypes
    <2>7. QED  BY <2>1, <2>3, <2>5, <2>6 DEF StaticInv
  <1>3. ASSUME NEW t \in Threads, NEW p \in Pools, Static!AllocateMiss(t, p)
        PROVE  StaticInv'
    <2>1. /\ request' = [request EXCEPT ![t] = p]
          /\ UNCHANGED <<threaded, freeList, system, held, setLock>>
      BY <1>3 DEF Static!AllocateMiss
    <2>2. StaticTypes'
      BY <1>1, <2>1 DEF StaticTypes
    <2>3. QED  BY <2>1, <2>2 DEF StaticInv, Linked
  <1>4. ASSUME NEW t \in Threads, NEW p \in Pools, NEW b \in Blocks,
               Static!Deallocate(t, p, b)
        PROVE  StaticInv'
    <2>1. /\ b \in held[p]
          /\ freeList' = [freeList EXCEPT ![p] = <<b>> \o freeList[p]]
          /\ held' = [held EXCEPT ![p] = held[p] \ {b}]
          /\ UNCHANGED <<threaded, system, request, setLock>>
      BY <1>4 DEF Static!Deallocate
    <2>2. b \notin Linked[p]
      BY <1>1, <2>1 DEF Apart
    <2>3. /\ <<b>> \o freeList[p] \in Seq(Blocks)
          /\ Elements(<<b>> \o freeList[p]) = Linked[p] \cup {b}
          /\ Distinct(<<b>> \o freeList[p])
      BY <1>1, <2>2, PutFront
    <2>4. StaticTypes'
      BY <1>1, <2>1, <2>3 DEF StaticTypes
    <2>5. /\ b \in held[p] /\ held'[p] = held[p] \ {b} /\ Linked'[p] = Linked[p] \cup {b}
          /\ \A q \in Pools \ {p} : held'[q] = held[q] /\ Linked'[q] = Linked[q]
      BY <1>1, <2>1, <2>3 DEF StaticTypes
    <2>6. Apart(system, held', Linked')
      <3>1. Apart(system, held, Linked)
        BY <1>1
      <3>2. QED  BY ONLY <2>5, <3>1, TakingKeepsApart
    <2>7. \A q \in Pools : Distinct(freeList'[q])
      BY <1>1, <2>1, <2>3 DEF StaticTypes
    <2>8. QED  BY <2>1, <2>4, <2>6, <2>7 DEF StaticInv
  <1>5. \A p \in Pools : /\ Static!Kept(freeList[p]) \in Seq(Blocks)
                         /\ Elements(Static!Kept(freeList[p]))
                               \cup Static!GivenBack(freeList[p]) = Linked[p]
                         /\ Distinct(Static!Kept(freeList[p]))
                         /\ Elements(Static!Kept(freeList[p]))
                               \cap Static!GivenBack(freeList[p]) = {}
                         /\ Linked[p] \subseteq Blocks
    <2>1. \A p \in Pools : Linked[p] \subseteq Blocks
      BY <1>1 DEF Elements
    <2>2. QED  BY <1>1, <2>1, Halves
  <1>6. ASSUME NEW t \in Threads, NEW p \in Pools, Static!Recycle(t, p)
        PROVE  StaticInv'
    <2> DEFINE G == [q \in Pools |-> IF q = p THEN Static!GivenBack(freeList[p]) ELSE {}]
    <2>1. /\ freeList' = [freeList EXCEPT ![p] = Static!Kept(freeList[p])]
          /\ system' = system \cup Static!GivenBack(freeList[p])
          /\ UNCHANGED <<threaded, held, request, setLock>>
      BY <1>6 DEF Static!Recycle
    <2>2. UNION {G[q] : q \in Pools} = Static!GivenBack(freeList[p])
      OBVIOUS
    <2>3. /\ \A q \in Pools : Linked'[q] \cup G[q] = Linked[q] /\ Linked'[q] \cap G[q] = {}
          /\ \A q \in Pools : Distinct(freeList'[q])
      BY <1>1, <1>5, <2>1 DEF StaticTypes
    <2>4. StaticTypes'
      BY <1>1, <1>5, <2>1 DEF StaticTypes
    <2> HIDE DEF G
    <2>5. Apart(system \cup UNION {G[q] : q \in Pools}, held, Linked')
      BY <1>1, <2>3, RecyclingKeepsApart
    <2>6. QED  BY <2>1, <2>2, <2>3, <2>4, <2>5 DEF StaticInv
  <1>7. ASSUME NEW t \in Threads, Static!AllocSys(t)
        PROVE  StaticInv'
    <2>1. /\ request[t] # NoPool /\ setLock # t /\ system # {}
          /\ Static!Answer(t, system)
          /\ UNCHANGED <<threaded, freeList, setLock>>
      BY <1>7 DEF Static!AllocSys
    <2>2. StaticTypes' /\ Apart(system', held', Linked)
      <3>1. freeList' \in [Pools -> Seq(Blocks)] /\ system \in SUBSET Blocks
        BY <1>1, <2>1 DEF StaticTypes
      <3>2. QED  BY <1>1, <2>1, <3>1, StaticAnswer
    <2>3. QED  BY <2>1, <2>2, <1>1 DEF StaticInv, Linked
  <1>8. ASSUME NEW t \in Threads, Static!AllocSysFails(t)
        PROVE  StaticInv'
    <2>1. /\ request[t] # NoPool /\ setLock' = t
          /\ UNCHANGED <<threaded, freeList, system, held, request>>
      BY <1>8 DEF Static!AllocSysFails
    <2>2. StaticTypes'
      BY <1>1, <2>1 DEF StaticTypes
    <2>3. QED  BY <2>1, <2>2 DEF StaticInv, Linked
  <1>9. ASSUME NEW t \in Threads, Static!RecycleAndRetry(t)
        PROVE  StaticInv'
    <2> DEFINE G == [q \in Pools |-> Static!GivenBack(freeList[q])]
               room == system \cup UNION {G[q] : q \in Pools}
    <2>1. /\ setLock = t /\ request[t] # NoPool /\ setLock' = NoThread
          /\ freeList' = [p \in Pools |-> Static!Kept(freeList[p])]
          /\ UNCHANGED threaded
      BY <1>1, <1>9 DEF Static!RecycleAndRetry, StaticTypes
    <2>2. Static!Answer(t, room)
      <3>1. {G[q] : q \in Pools} = {Static!GivenBack(freeList[q]) : q \in Pools}
        OBVIOUS
      <3>2. room = system \cup UNION {Static!GivenBack(freeList[q]) : q \in Pools}
        BY <3>1
      <3> HIDE DEF room
      <3>3. QED  BY <1>9, <3>2 DEF Static!RecycleAndRetry
    <2>3. \A q \in Pools : /\ Linked'[q] \cup G[q] = Linked[q] /\ Linked'[q] \cap G[q] = {}
                           /\ Distinct(freeList'[q])
      BY <1>1, <1>5, <2>1
    <2>4. room \in SUBSET Blocks /\ freeList' \in [Pools -> Seq(Blocks)]
      BY <1>1, <1>5, <2>1 DEF StaticTypes
    <2>5. Apart(room, held, Linked')
      <3> HIDE DEF G
      <3>1. QED  BY <1>1, <2>3, RecyclingKeepsApart
    <2>6. system \subseteq room /\ (room = system \/ room # {})
      OBVIOUS
    <2> HIDE DEF room
    <2>7. StaticTypes' /\ Apart(system', held', Linked')
      BY <1>1, <2>1, <2>2, <2>4, <2>5, <2>6, StaticAnswer
    <2>8. QED  BY <2>3, <2>7 DEF StaticInv
  <1>10. ASSUME UNCHANGED staticVars
         PROVE  StaticInv'
    BY <1>10 DEF staticVars, StaticInv, StaticTypes, Linked
  <1>11. QED
    BY <1>2, <1>3, <1>4, <1>6, <1>7, <1>8, <1>9, <1>10 DEF Static!Next

LEMMA StaticInitially == Static!Init => StaticInv
  <1> SUFFICES ASSUME Static!Init  PROVE StaticInv
    OBVIOUS
  <1>1. NoThread \notin Threads /\ NoPool \notin Pools
    BY PoolsAssumption DEF Static!StaticMemPoolAssumption
  <1>2. \A p \in Pools : Linked[p] = {} /\ Distinct(freeList[p])
    BY EmptyList DEF Static!Init, Linked
  <1>3. StaticTypes
    BY <1>1, EmptyList DEF Static!Init, StaticTypes
  <1>4. Apart(system, held, Linked)
    BY <1>2 DEF Static!Init, Apart
  <1>5. QED  BY <1>2, <1>3, <1>4 DEF StaticInv

\* What the invariant says of the places of one block.
LEMMA StaticOnePlace == StaticInv => Static!BlocksInOnePlace
  <1> SUFFICES ASSUME StaticInv, NEW b \in Blocks
               PROVE  \E x : Static!Places(b) = {x}
    <2>1. \A E : Static!Cardinality(E) = Cardinality(E)
      BY DEF Cardinality, Static!Cardinality
    <2>2. \A x : Static!Cardinality({x}) = 1
      BY <2>1, FS_Singleton
    <2>3. QED  BY <2>2 DEF Static!BlocksInOnePlace
  <1>1. /\ Apart(system, held, Linked) /\ NoPool \notin Pools
        /\ \A p \in Pools : Distinct(freeList[p]) /\ Linked[p] = Elements(freeList[p])
    BY PoolsAssumption DEF StaticInv, Linked, Static!StaticMemPoolAssumption
  <1>2. \A p \in Pools :
           (b \in Linked[p]) <=> (\E i \in DOMAIN freeList[p] : freeList[p][i] = b)
    <2>1. \A s : (b \in Elements(s)) <=> (\E i \in DOMAIN s : s[i] = b)
      BY DEF Elements
    <2>2. QED  BY <1>1, <2>1
  <1>3. \A x : x \in Static!Places(b) <=>
                 \/ b \in system /\ x = <<NoPool, 0>>
                 \/ \E p \in Pools : b \in held[p] /\ x = <<p, 0>>
                 \/ \E p \in Pools : \E i \in DOMAIN freeList[p] :
                       freeList[p][i] = b /\ x = <<p, i>>
    <2> SUFFICES ASSUME NEW x
                 PROVE  x \in Static!Places(b) <=>
                          \/ b \in system /\ x = <<NoPool, 0>>
                          \/ \E p \in Pools : b \in held[p] /\ x = <<p, 0>>
                          \/ \E p \in Pools : \E i \in DOMAIN freeList[p] :
                                freeList[p][i] = b /\ x = <<p, i>>
      OBVIOUS
    <2>1. x \in {<<NoPool, 0>> : y \in system \cap {b}} <=> b \in system /\ x = <<NoPool, 0>>
      OBVIOUS
    <2>2. x \in {<<p, 0>> : p \in {q \in Pools : b \in held[q]}} <=>
             \E p \in Pools : b \in held[p] /\ x = <<p, 0>>
      OBVIOUS
    <2>3. x \in UNION {{<<p, i>> : i \in {j \in DOMAIN freeList[p] : freeList[p][j] = b}}
                          : p \in Pools} <=>
             \E p \in Pools : \E i \in DOMAIN freeList[p] :
                freeList[p][i] = b /\ x = <<p, i>>
      OBVIOUS
    <2>4. QED  BY <2>1, <2>2, <2>3 DEF Static!Places
  <1>4. CASE b \in system
    <2>1. \A p \in Pools : b \notin held[p] /\ b \notin Linked[p]
      BY <1>1, <1>4 DEF Apart
    <2>2. \A x : x \in Static!Places(b) <=> x = <<NoPool, 0>>
      BY <1>2, <1>3, <1>4, <2>1
    <2>3. Static!Places(b) = {<<NoPool, 0>>}
      BY <2>2
    <2>4. QED  BY <2>3
  <1>5. CASE \E p \in Pools : b \in held[p]
    <2>1. PICK p \in Pools : b \in held[p]
      BY <1>5
    <2>2. /\ b \notin system
          /\ \A q \in Pools : b \notin Linked[q] /\ (q # p => b \notin held[q])
      BY <1>1, <2>1 DEF Apart
    <2>3. \A x : x \in Static!Places(b) <=> x = <<p, 0>>
      BY <1>2, <1>3, <2>1, <2>2
    <2>4. Static!Places(b) = {<<p, 0>>}
      BY <2>3
    <2>5. QED  BY <2>4
  <1>6. CASE \E p \in Pools : b \in Linked[p]
    <2>1. PICK p \in Pools : b \in Linked[p]
      BY <1>6
    <2>2. PICK i \in DOMAIN freeList[p] : freeList[p][i] = b
      BY <1>2, <2>1
    <2>3. /\ b \notin system
          /\ \A q \in Pools : b \notin held[q] /\ (q # p => b \notin Linked[q])
      BY <1>1, <1>2, <2>2 DEF Apart
    <2>4. \A j \in DOMAIN freeList[p] : freeList[p][j] = b <=> j = i
      BY <1>1, <2>2 DEF Distinct
    <2>5. \A x : x \in Static!Places(b) <=> x = <<p, i>>
      BY <1>2, <1>3, <2>2, <2>3, <2>4
    <2>6. Static!Places(b) = {<<p, i>>}
      BY <2>5
    <2>7. QED  BY <2>6
  <1>7. QED  BY <1>1, <1>4, <1>5, <1>6 DEF Apart

\* A request that is answered without a block.
NullMeansExhausted ==
    \A t \in Threads :
        request[t] # NoPool /\ request'[t] = NoPool /\ held' = held
            => system' = {} /\ \A p \in Pools : Len(freeList'[p]) <= 1

LEMMA StaticNull == StaticInv /\ [Static!Next]_staticVars => NullMeansExhausted
  <1> SUFFICES ASSUME StaticInv, [Static!Next]_staticVars, NEW t \in Threads,
                      request[t] # NoPool, request'[t] = NoPool, held' = held
               PROVE  system' = {} /\ \A p \in Pools : Len(freeList'[p]) <= 1
    BY DEF NullMeansExhausted
  <1>1. /\ NoPool \notin Pools /\ StaticTypes /\ Apart(system, held, Linked)
        /\ \A p \in Pools : freeList[p] \in Seq(Blocks) /\ Linked[p] = Elements(freeList[p])
    BY PoolsAssumption DEF StaticInv, StaticTypes, Linked, Static!StaticMemPoolAssumption
  <1>2. PICK u \in Threads : Static!AllocSys(u) \/ Static!RecycleAndRetry(u)
    <2>1. \E u \in Threads : request' # request /\ Static!Next
      BY DEF staticVars
    <2>2. ASSUME NEW u \in Threads, NEW p \in Pools, Static!AllocateMiss(u, p)
          PROVE  FALSE
      BY <1>1, <2>2 DEF Static!AllocateMiss, StaticTypes
    <2>3. ASSUME NEW u \in Threads, NEW p \in Pools,
                 \/ Static!AllocatePooled(u, p) \/ Static!Recycle(u, p)
                 \/ \E b \in Blocks : Static!Deallocate(u, p, b)
          PROVE  FALSE
      BY <2>1, <2>3 DEF Static!AllocatePooled, Static!Recycle, Static!Deallocate
    <2>4. ASSUME NEW u \in Threads, Static!AllocSysFails(u)
          PROVE  FALSE
      BY <2>1, <2>4 DEF Static!AllocSysFails
    <2>5. QED  BY <2>1, <2>2, <2>3, <2>4 DEF Static!Next
  <1>3. ASSUME NEW room, NEW b \in room, system \subseteq room, request[u] # NoPool,
               \A p \in Pools : b \notin held[p],
               held' = [held EXCEPT ![request[u]] = held[request[u]] \cup {b}]
        PROVE  FALSE
    BY <1>1, <1>3 DEF StaticTypes
  <1>4. CASE Static!AllocSys(u)
    <2>1. request[u] # NoPool /\ system # {} /\ Static!Answer(u, system)
      BY <1>4 DEF Static!AllocSys
    <2>2. PICK b \in system :
             held' = [held EXCEPT ![request[u]] = held[request[u]] \cup {b}]
      BY <2>1 DEF Static!Answer
    <2>3. \A p \in Pools : b \notin held[p]
      BY <1>1 DEF Apart
    <2>4. QED  BY <1>3, <2>1, <2>2, <2>3
  <1>5. CASE Static!RecycleAndRetry(u)
    <2> DEFINE G == {Static!GivenBack(freeList[p]) : p \in Pools}
               room == system \cup UNION G
    <2>1. /\ setLock = u /\ Static!Answer(u, room)
          /\ freeList' = [p \in Pools |-> Static!Kept(freeList[p])]
      BY <1>5 DEF Static!RecycleAndRetry
    <2>2. request[u] # NoPool /\ system \subseteq room
      BY <1>1, <2>1 DEF StaticTypes
    <2>3. \A b \in room, p \in Pools : b \notin held[p]
      <3>1. \A q \in Pools : Static!GivenBack(freeList[q]) \subseteq Linked[q]
        <4> SUFFICES ASSUME NEW q \in Pools
                     PROVE  Static!GivenBack(freeList[q]) \subseteq Linked[q]
          OBVIOUS
        <4>1. Elements(Static!Kept(freeList[q])) \cup Static!GivenBack(freeList[q])
                = Elements(freeList[q])
          BY <1>1, Halves
        <4>2. QED  BY <1>1, <4>1
      <3>2. \A b \in room : b \in system \/ \E q \in Pools : b \in Linked[q]
        BY <3>1
      <3> HIDE DEF room
      <3>3. QED  BY <1>1, <3>2 DEF Apart
    <2>4. \A p \in Pools : Static!GivenBack(freeList[p]) \subseteq room
      OBVIOUS
    <2> HIDE DEF room
    <2>5. room = {} /\ system' = system
      <3>1. CASE \E b \in room :
                    held' = [held EXCEPT ![request[u]] = held[request[u]] \cup {b}]
        BY <1>3, <2>2, <2>3, <3>1
      <3>2. QED  BY <2>1, <3>1 DEF Static!Answer
    <2>6. \A p \in Pools : Len(Static!Kept(freeList[p])) <= 1
      BY <1>1, <2>4, <2>5, Halves
    <2>7. QED  BY <2>1, <2>2, <2>5, <2>6
  <1>6. QED  BY <1>2, <1>4, <1>5

(***************************************************************************)
(* fixed_mem_pool. Once the owner has found that no block is out, none gets *)
(* out before the array is freed unless somebody allocates in between.     *)
(***************************************************************************)

FixedBlocks == {<<a, i>> : a \in Nat, i \in Nat}

FixedTypes ==
    /\ array \in Nat /\ arrays \in Nat
    /\ avail \in Seq(FixedBlocks)
    /\ out \subseteq FixedBlocks
    /\ freeing \in BOOLEAN /\ overlapped \in BOOLEAN

FixedInv ==
    /\ FixedTypes
    /\ ~overlapped =>
         /\ IsFiniteSet(out) /\ alloc_cnt = Cardinality(out)
         /\ Distinct(avail) /\ Elements(avail) \cap out = {}
         /\ array = 0 => avail = <<>> /\ out = {}
         /\ array # 0 => \E n \in ArraySizes :
                            Elements(avail) \cup out = Elements(Static!Array(array, n))
         /\ freeing => out = {} /\ array # 0

LEMMA ArrayFacts ==
    ASSUME NEW a \in Nat, NEW n \in Nat
    PROVE  Static!Array(a, n) \in Seq(FixedBlocks) /\ Distinct(Static!Array(a, n))
  <1> DEFINE s == [i \in 1..n |-> <<a, i>>]
  <1>1. \A i \in 1..n : s[i] \in FixedBlocks
    BY DEF FixedBlocks
  <1>2. DOMAIN s = 1..n /\ \A i, j \in 1..n : s[i] = s[j] => i = j
    OBVIOUS
  <1>3. s \in Seq(FixedBlocks)
    BY <1>1
  <1>4. QED  BY <1>2, <1>3 DEF Distinct, Static!Array

LEMMA FixedStep == FixedInv /\ [Static!FixedNext]_fixedVars => FixedInv'
  <1> SUFFICES ASSUME FixedInv, [Static!FixedNext]_fixedVars  PROVE FixedInv'
    OBVIOUS
  <1> USE DEF FixedInv
  <1>1. ArraySizes \subseteq Nat
    BY PoolsAssumption DEF Static!FixedMemPoolAssumption
  <1>2. ASSUME NEW n \in ArraySizes, Static!Initialize(n)
        PROVE  FixedInv'
    <2>1. /\ array = 0 /\ ~freeing /\ array' = arrays + 1 /\ arrays' = arrays + 1
          /\ avail' = Static!Array(arrays + 1, n)
          /\ UNCHANGED <<out, alloc_cnt, freeing, overlapped>>
      BY <1>2 DEF Static!Initialize
    <2>2. arrays + 1 \in Nat /\ arrays + 1 # 0 /\ n \in Nat
      BY <1>1 DEF FixedTypes
    <2>3. avail' \in Seq(FixedBlocks) /\ Distinct(avail')
      BY <2>1, <2>2, ArrayFacts
    <2>4. FixedTypes'
      BY <2>1, <2>2, <2>3 DEF FixedTypes
    <2>5. ASSUME ~overlapped
          PROVE  out = {} /\ Elements(avail') \cup out' = Elements(Static!Array(array', n))
      BY <2>1, <2>5
    <2>6. QED  BY <2>1, <2>2, <2>3, <2>4, <2>5
  <1>3. ASSUME Static!FixedAllocate
        PROVE  FixedInv'
    <2> DEFINE b == Head(avail)
    <2>1. /\ avail # <<>> /\ avail' = Tail(avail) /\ out' = out \cup {b}
          /\ alloc_cnt' = alloc_cnt + 1 /\ overlapped' = (overlapped \/ freeing)
          /\ UNCHANGED <<array, arrays, freeing>>
      BY <1>3 DEF Static!FixedAllocate
    <2>2. avail \in Seq(FixedBlocks)
      BY DEF FixedTypes
    <2>3. /\ b \in FixedBlocks /\ Tail(avail) \in Seq(FixedBlocks)
          /\ Elements(avail) = Elements(Tail(avail)) \cup {b}
          /\ Distinct(avail) => Distinct(Tail(avail)) /\ b \notin Elements(Tail(avail))
      BY <2>1, <2>2, TakeFront
    <2> HIDE DEF b
    <2>4. FixedTypes'
      BY <2>1, <2>3 DEF FixedTypes
    <2>5. ASSUME ~overlapped'
          PROVE  /\ ~overlapped /\ ~freeing' /\ b \notin out /\ array' # 0
                 /\ IsFiniteSet(out') /\ alloc_cnt' = Cardinality(out')
      <3>1. ~overlapped /\ ~freeing
        BY <2>1, <2>5
      <3>2. b \notin out
        BY <2>3, <3>1
      <3>3. IsFiniteSet(out') /\ alloc_cnt' = Cardinality(out')
        BY <2>1, <3>1, <3>2, FS_AddElement
      <3>4. QED  BY <2>1, <3>1, <3>2, <3>3
    <2>6. Elements(avail') \cup out' = Elements(avail) \cup out
      BY <2>1, <2>3
    <2>7. QED  BY <2>1, <2>3, <2>4, <2>5, <2>6
  <1>4. ASSUME NEW b \in out, Static!FixedDeallocate(b)
        PROVE  FixedInv'
    <2>1. /\ out' = out \ {b} /\ avail' = <<b>> \o avail /\ alloc_cnt' = alloc_cnt - 1
          /\ UNCHANGED <<array, arrays, freeing, overlapped>>
      BY <1>4 DEF Static!FixedDeallocate
    <2>2. /\ <<b>> \o avail \in Seq(FixedBlocks)
          /\ Elements(<<b>> \o avail) = Elements(avail) \cup {b}
          /\ Distinct(avail) /\ b \notin Elements(avail) => Distinct(<<b>> \o avail)
      BY PutFront DEF FixedTypes
    <2>3. FixedTypes'
      BY <2>1, <2>2 DEF FixedTypes
    <2>4. ASSUME ~overlapped
          PROVE  IsFiniteSet(out') /\ alloc_cnt' = Cardinality(out')
      BY <2>1, <2>4, FS_RemoveElement
    <2>5. Elements(avail') \cup out' = Elements(avail) \cup out
      BY <2>1, <2>2
    <2>6. QED  BY <2>1, <2>2, <2>3, <2>4, <2>5
  <1>5. ASSUME Static!Deinitialize
        PROVE  FixedInv'
    <2>1. /\ array # 0 /\ alloc_cnt = 0 /\ freeing' = TRUE
          /\ UNCHANGED <<array, arrays, avail, out, alloc_cnt, overlapped>>
      BY <1>5 DEF Static!Deinitialize
    <2>2. ~overlapped => out = {}
      BY <2>1, FS_EmptySet
    <2>3. QED  BY <2>1, <2>2 DEF FixedTypes
  <1>6. ASSUME Static!FreeArray
        PROVE  FixedInv'
    <2>1. /\ freeing /\ freeing' = FALSE /\ array' = 0 /\ avail' = <<>>
          /\ UNCHANGED <<arrays, out, alloc_cnt, overlapped>>
      BY <1>6 DEF Static!FreeArray
    <2>2. <<>> \in Seq(FixedBlocks) /\ Elements(<<>>) = {} /\ Distinct(<<>>)
      BY EmptyList
    <2>3. QED  BY <2>1, <2>2 DEF FixedTypes
  <1>7. ASSUME UNCHANGED fixedVars
        PROVE  FixedInv'
    BY <1>7 DEF fixedVars, FixedTypes
  <1>8. QED
    BY <1>2, <1>3, <1>4, <1>5, <1>6, <1>7 DEF Static!FixedNext

LEMMA FixedInitially == Static!FixedInit => FixedInv
  <1> SUFFICES ASSUME Static!FixedInit  PROVE FixedInv
    OBVIOUS
  <1>1. IsFiniteSet({}) /\ Cardinality({}) = 0
    BY FS_EmptySet
  <1>2. <<>> \in Seq(FixedBlocks) /\ Elements(<<>>) = {} /\ Distinct(<<>>)
    BY EmptyList
  <1>3. QED  BY <1>1, <1>2 DEF Static!FixedInit, FixedInv, FixedTypes

LEMMA FixedBlocksOfTheArray == FixedInv => Static!BlocksAreOfTheArray
  <1>1. /\ \A s : Static!ToSet(s) = Elements(s) /\ (Static!IsInjective(s) <=> Distinct(s))
        /\ \A E : Static!Cardinality(E) = Cardinality(E)
    BY DEF Static!ToSet, Elements, Static!IsInjective, Distinct, Cardinality, Static!Cardinality
  <1>2. Elements(<<>>) = {}
    BY EmptyList
  <1>3. QED  BY <1>1, <1>2 DEF FixedInv, Static!BlocksAreOfTheArray

(***************************************************************************)
(* BlockPools.  The blocks are numbered from 1 as they come.               *)
(***************************************************************************)

LEMMA TwoLists ==
    ASSUME NEW S, NEW a \in Seq(S), NEW b \in Seq(S)
    PROVE  /\ a \o b \in Seq(S)
           /\ Elements(a \o b) = Elements(a) \cup Elements(b)
           /\ Distinct(a) /\ Distinct(b) /\ Elements(a) \cap Elements(b) = {}
                 => Distinct(a \o b)
  <1> DEFINE r == a \o b
             m == Len(a)
             n == Len(b)
  <1>1. /\ m \in Nat /\ n \in Nat /\ r \in Seq(S)
        /\ DOMAIN a = 1..m /\ DOMAIN b = 1..n /\ DOMAIN r = 1..m + n
        /\ \A i \in 1..m : r[i] = a[i]
        /\ \A i \in 1..n : r[m + i] = b[i]
    OBVIOUS
  <1> HIDE DEF r, m, n
  <1>2. \A i \in 1..m + n : i \in 1..m \/ (i - m \in 1..n /\ r[i] = b[i - m])
    <2> SUFFICES ASSUME NEW i \in 1..m + n, i \notin 1..m
                 PROVE  i - m \in 1..n /\ r[i] = b[i - m]
      OBVIOUS
    <2>1. i - m \in 1..n /\ m + (i - m) = i
      BY <1>1
    <2>2. QED  BY <1>1, <2>1
  <1>3. Elements(r) = Elements(a) \cup Elements(b)
    <2>1. \A i \in 1..m + n : r[i] \in Elements(a) \cup Elements(b)
      BY <1>1, <1>2 DEF Elements
    <2>2. /\ \A i \in 1..m : a[i] \in Elements(r)
          /\ \A i \in 1..n : b[i] \in Elements(r)
      <3>1. /\ \A i \in 1..m : i \in DOMAIN r
            /\ \A i \in 1..n : m + i \in DOMAIN r
        BY <1>1
      <3>2. QED  BY <1>1, <3>1 DEF Elements
    <2>3. QED  BY <1>1, <2>1, <2>2, ZenonT(30) DEF Elements
  <1>4. ASSUME Distinct(a), Distinct(b), Elements(a) \cap Elements(b) = {}
        PROVE  Distinct(r)
    <2>1. \A i \in 1..m, j \in 1..n : a[i] # b[j]
      BY <1>1, <1>4 DEF Elements
    <2> SUFFICES ASSUME NEW i \in 1..m + n, NEW j \in 1..m + n, r[i] = r[j]
                 PROVE  i = j
      BY <1>1 DEF Distinct
    <2>2. CASE i \in 1..m /\ j \in 1..m
      BY <1>1, <1>4, <2>2 DEF Distinct
    <2>3. CASE i \notin 1..m /\ j \notin 1..m
      <3>1. i - m = j - m
        <4>1. i - m \in 1..n /\ j - m \in 1..n /\ b[i - m] = b[j - m]
          BY <1>2, <2>3
        <4>2. QED  BY <1>1, <1>4, <4>1 DEF Distinct
      <3>2. QED  BY <1>1, <3>1
    <2>4. CASE (i \in 1..m) # (j \in 1..m)
      BY <1>1, <1>2, <2>1, <2>4
    <2>5. QED  BY <2>2, <2>3, <2>4
  <1>5. QED  BY <1>1, <1>3, <1>4 DEF r

\* The numbers m + 1 .. m + n, the last in front: expand, and the first chunk.
LEMMA CountDown ==
    ASSUME NEW m \in Nat, NEW n \in Nat
    PROVE  LET s == [i \in 1..n |-> m + n + 1 - i]
           IN  s \in Seq(Nat) /\ Len(s) = n /\ Elements(s) = m + 1..m + n /\ Distinct(s)
  <1> DEFINE s == [i \in 1..n |-> m + n + 1 - i]
  <1>1. /\ DOMAIN s = 1..n
        /\ \A i \in 1..n : s[i] = m + n + 1 - i /\ s[i] \in m + 1..m + n
    OBVIOUS
  <1>2. s \in Seq(Nat) /\ Len(s) = n
    BY <1>1
  <1>3. ASSUME NEW x \in m + 1..m + n
        PROVE  x \in Elements(s)
    <2>1. m + n + 1 - x \in 1..n /\ s[m + n + 1 - x] = x
      BY <1>1
    <2>2. QED  BY <1>1, <2>1 DEF Elements
  <1>4. Elements(s) = m + 1..m + n
    BY <1>1, <1>3 DEF Elements
  <1>5. Distinct(s)
    BY <1>1 DEF Distinct
  <1>6. QED  BY <1>2, <1>4, <1>5

BlockTypes ==
    /\ kind \in {"fixed", "chunked", "object", "array", "bounded", "reuse"}
    /\ first \in Nat /\ blockCount \in Nat /\ chunks \in Nat
    /\ undefined \in BOOLEAN
    /\ stack \in Seq(Nat \cup {Garbage})
    /\ handedOut \subseteq 1..blockCount

BlockInv ==
    /\ BlockTypes
    /\ kind # "object" => Garbage \notin Elements(stack)
    /\ ~undefined =>
         /\ Distinct(stack) /\ handedOut \cap Elements(stack) = {}
         /\ (handedOut \cup Elements(stack)) \ {Garbage} = 1..blockCount
         /\ kind = "bounded" => blockCount <= MaxSize \/ blockCount = first
    /\ Block!UndefinedOnlyWhere

LEMMA BlockTake ==
    ASSUME BlockInv, NEW n \in Nat, NEW len \in Nat, Block!Take(n, len),
           n = 0 /\ stack = <<>> => kind = "array" /\ first = 0,
           len # 1 => kind = "array",
           kind = "bounded" => n = 0 \/ blockCount + n <= MaxSize
    PROVE  BlockInv'
  <1> DEFINE new == Block!New(n)
             s == new \o stack
  <1>1. /\ Garbage \notin Nat /\ BlockTypes /\ ~undefined
        /\ blockCount' = blockCount + n /\ chunks' = chunks + (IF n > 0 THEN 1 ELSE 0)
        /\ kind' = kind /\ first' = first
        /\ IF s = <<>> \/ Head(s) = Garbage
           THEN undefined' = TRUE /\ UNCHANGED <<stack, handedOut>>
           ELSE /\ stack' = Tail(s)
                /\ handedOut' = handedOut \cup {Head(s)}
                /\ undefined' = (len # 1)
    BY PoolsAssumption DEF BlockInv, Block!Take, Block!BlockPoolsAssumption
  <1>2. /\ new \in Seq(Nat) /\ Len(new) = n
        /\ Elements(new) = blockCount + 1..blockCount + n /\ Distinct(new)
    BY <1>1, CountDown DEF Block!New, BlockTypes
  <1>3. /\ Distinct(stack) /\ handedOut \cap Elements(stack) = {}
        /\ (handedOut \cup Elements(stack)) \ {Garbage} = 1..blockCount
        /\ kind # "object" => Garbage \notin Elements(stack)
        /\ kind = "bounded" => blockCount <= MaxSize \/ blockCount = first
        /\ blockCount \in Nat /\ blockCount + n \in Nat
        /\ stack \in Seq(Nat \cup {Garbage}) /\ new \in Seq(Nat \cup {Garbage})
        /\ handedOut \subseteq 1..blockCount /\ chunks \in Nat
    <2>1. new \in Seq(Nat \cup {Garbage})
      <3> HIDE DEF new
      <3>1. /\ Len(new) \in Nat /\ new = [i \in 1..Len(new) |-> new[i]]
            /\ \A i \in 1..Len(new) : new[i] \in Nat \cup {Garbage}
        BY <1>2
      <3>2. QED  BY <3>1
    <2> HIDE DEF new, s
    <2>2. blockCount \in Nat /\ blockCount + n \in Nat
      BY <1>1 DEF BlockTypes
    <2>3. QED  BY <1>1, <2>1, <2>2 DEF BlockInv, BlockTypes
  <1>4. Elements(new) \cap Elements(stack) = {} /\ Garbage \notin Elements(new)
    BY <1>1, <1>2, <1>3
  <1>5. /\ s \in Seq(Nat \cup {Garbage}) /\ Distinct(s)
        /\ Elements(s) = Elements(new) \cup Elements(stack)
    BY <1>2, <1>3, <1>4, TwoLists
  <1>6. (handedOut \cup Elements(s)) \ {Garbage} = 1..blockCount + n /\ handedOut \cap Elements(s) = {}
    BY <1>1, <1>2, <1>3, <1>5
  <1>7. CASE s = <<>> \/ Head(s) = Garbage
    <2>1. n = 0
      <3>1. CASE n # 0
        <4>1. s # <<>> /\ Head(s) = new[1] /\ new[1] \in Elements(new)
          BY <1>2, <1>3, <3>1 DEF Elements
        <4>2. QED  BY <1>4, <1>7, <4>1
      <3>2. QED  BY <3>1
    <2>2. s = stack
      BY <1>2, <1>3, <2>1
    <2>3. \/ kind = "array" /\ first = 0 /\ stack = <<>>
          \/ kind = "object" /\ stack # <<>> /\ Head(stack) = Garbage
      <3>1. stack # <<>> => Head(stack) \in Elements(stack)
        BY <1>3 DEF Elements
      <3>2. QED  BY <1>3, <1>7, <2>1, <2>2, <3>1
    <2>4. blockCount' = blockCount
      BY <1>1, <1>3, <2>1
    <2>5. undefined' /\ stack' = stack /\ handedOut' = handedOut
      BY <1>1, <1>7
    <2>6. chunks' \in Nat
      BY <1>1, <1>3
    <2> HIDE DEF s, new
    <2>7. BlockTypes'
      BY <1>1, <2>4, <2>5, <2>6 DEF BlockTypes
    <2>8. Block!UndefinedOnlyWhere'
      BY <1>1, <2>3, <2>5 DEF Block!UndefinedOnlyWhere
    <2>9. QED  BY <1>1, <1>3, <2>5, <2>7, <2>8 DEF BlockInv
  <1>8. CASE ~(s = <<>> \/ Head(s) = Garbage)
    <2> DEFINE h == Head(s)
               t == Tail(s)
    <2>1. /\ h \in Nat \cup {Garbage} /\ t \in Seq(Nat \cup {Garbage})
          /\ Elements(s) = Elements(t) \cup {h} /\ Distinct(t) /\ h \notin Elements(t)
          /\ h # Garbage
      BY <1>5, <1>8, TakeFront
    <2>2. stack' = t /\ handedOut' = handedOut \cup {h} /\ undefined' = (len # 1)
      BY <1>1, <1>8
    <2>3. chunks' \in Nat
      BY <1>1, <1>3
    <2> HIDE DEF h, t, s, new
    <2>4. h \in 1..blockCount + n
      BY <1>6, <2>1
    <2>5. /\ (handedOut' \cup Elements(t)) \ {Garbage} = 1..blockCount + n
          /\ handedOut' \cap Elements(t) = {} /\ handedOut' \subseteq 1..blockCount + n
      <3>1. handedOut \subseteq 1..blockCount + n
        BY <1>3
      <3>2. QED  BY <1>6, <2>1, <2>2, <2>4, <3>1
    <2>6. kind # "object" => Garbage \notin Elements(t)
      BY <1>3, <1>4, <1>5, <2>1
    <2>7. kind = "bounded" => blockCount + n <= MaxSize \/ blockCount + n = first
      BY <1>3
    <2>8. BlockTypes'
      BY <1>1, <1>3, <2>1, <2>2, <2>3, <2>5 DEF BlockTypes
    <2>9. Block!UndefinedOnlyWhere'
      BY <1>1, <2>2 DEF Block!UndefinedOnlyWhere
    <2>10. QED  BY <1>1, <2>1, <2>2, <2>5, <2>6, <2>7, <2>8, <2>9 DEF BlockInv
  <1>9. QED  BY <1>7, <1>8

LEMMA BlockStep == BlockInv /\ [Block!Next]_blockVars => BlockInv'
  <1> SUFFICES ASSUME BlockInv, [Block!Next]_blockVars  PROVE BlockInv'
    OBVIOUS
  <1>1. /\ BlockTypes /\ first \in Nat /\ chunks \in Nat /\ blockCount \in Nat
        /\ MaxSize \in Nat /\ Garbage \notin Nat
    BY PoolsAssumption DEF BlockInv, BlockTypes, Block!BlockPoolsAssumption
  <1>2. \A n \in Nat : Block!AtLeastOne(n) \in Nat /\ Block!AtLeastOne(n) # 0
    BY DEF Block!AtLeastOne
  <1>3. CASE Block!AllocateFixed
    BY <1>3, BlockTake DEF Block!AllocateFixed
  <1>4. CASE Block!AllocateChunked
    <2>1. PICK n \in Nat : /\ Block!Take(n, 1) /\ kind = "chunked"
                           /\ stack = <<>> => n # 0
      BY <1>1, <1>2, <1>4 DEF Block!AllocateChunked
    <2>2. QED  BY <2>1, BlockTake
  <1>5. CASE Block!AllocateObject
    <2>1. PICK n \in Nat : /\ Block!Take(n, 1) /\ kind = "object"
                           /\ stack = <<>> => n # 0
      <3>1. 2 * chunks \in Nat
        BY <1>1
      <3>2. QED  BY <1>2, <1>5, <3>1 DEF Block!AllocateObject
    <2>2. QED  BY <2>1, BlockTake
  <1>6. ASSUME NEW len \in 1..2, Block!AllocateArray(len)
        PROVE  BlockInv'
    <2>1. PICK n \in Nat : /\ Block!Take(n, len) /\ kind = "array"
                           /\ stack = <<>> => n = first
      BY <1>1, <1>6 DEF Block!AllocateArray
    <2>2. len \in Nat
      OBVIOUS
    <2>3. QED  BY <2>1, <2>2, BlockTake
  <1>7. CASE Block!Acquire
    <2>1. PICK n \in {0, 1} : /\ Block!Take(n, 1) /\ kind = "bounded"
                              /\ stack = <<>> => n # 0
                              /\ n = 0 \/ blockCount < MaxSize
      BY <1>7 DEF Block!Acquire
    <2>2. n = 0 \/ blockCount + n <= MaxSize
      BY <1>1, <2>1
    <2>3. QED  BY <2>1, <2>2, BlockTake
  <1>8. CASE Block!AcquireParticle
    <2>1. PICK n \in {0, 1} : /\ Block!Take(n, 1) /\ kind = "reuse"
                              /\ stack = <<>> => n # 0
      BY <1>8 DEF Block!AcquireParticle
    <2>2. QED  BY <2>1, BlockTake
  <1>9. ASSUME NEW b \in handedOut, Block!Deallocate(b)
        PROVE  BlockInv'
    <2>1. /\ ~undefined /\ handedOut' = handedOut \ {b} /\ stack' = <<b>> \o stack
          /\ UNCHANGED <<kind, first, chunks, blockCount, undefined>>
      BY <1>9 DEF Block!Deallocate
    <2>2. /\ b \in Nat \cup {Garbage} /\ b # Garbage /\ b \notin Elements(stack)
          /\ stack \in Seq(Nat \cup {Garbage}) /\ Distinct(stack)
      BY <1>1, <2>1 DEF BlockInv, BlockTypes
    <2>3. /\ stack' \in Seq(Nat \cup {Garbage}) /\ Distinct(stack')
          /\ Elements(stack') = Elements(stack) \cup {b}
      BY <2>1, <2>2, PutFront
    <2>4. BlockTypes'
      BY <2>1, <2>3 DEF BlockInv, BlockTypes
    <2>5. Block!UndefinedOnlyWhere'
      BY <2>1 DEF Block!UndefinedOnlyWhere
    <2>6. /\ handedOut' \cap Elements(stack') = {}
          /\ handedOut' \cup Elements(stack') = handedOut \cup Elements(stack)
      BY <2>1, <2>3 DEF BlockInv
    <2>7. QED  BY <2>1, <2>2, <2>3, <2>4, <2>5, <2>6 DEF BlockInv
  <1>10. CASE UNCHANGED blockVars
    BY <1>10 DEF blockVars, BlockInv, BlockTypes, Block!UndefinedOnlyWhere
  <1>11. QED
    BY <1>3, <1>4, <1>5, <1>6, <1>7, <1>8, <1>9, <1>10 DEF Block!Next

\* A pool that starts with its blocks in order, the last or the first in front.
LEMMA FirstBlocks ==
    ASSUME NEW n \in Nat
    PROVE  LET up == [i \in 1..n |-> i]
               down == Block!Reverse(up)
           IN  /\ up \in Seq(Nat) /\ Elements(up) = 1..n /\ Distinct(up)
               /\ down \in Seq(Nat) /\ Elements(down) = 1..n /\ Distinct(down)
  <1> DEFINE up == [i \in 1..n |-> i]
             down == [i \in 1..n |-> 0 + n + 1 - i]
  <1>1. up \in Seq(Nat) /\ Elements(up) = 1..n /\ Distinct(up)
    BY DEF Elements, Distinct
  <1>2. down \in Seq(Nat) /\ Elements(down) = 0 + 1..0 + n /\ Distinct(down)
    BY CountDown
  <1>3. Block!Reverse(up) = down
    <2>1. Len(up) = n /\ \A i \in 1..n : up[(n - i) + 1] = 0 + n + 1 - i
      OBVIOUS
    <2> HIDE DEF up
    <2>2. Block!Reverse(up) = [i \in 1..n |-> up[(n - i) + 1]]
      BY <2>1 DEF Block!Reverse
    <2>3. QED  BY <2>1, <2>2
  <1>4. 0 + 1 = 1 /\ 0 + n = n
    OBVIOUS
  <1>5. QED  BY <1>1, <1>2, <1>3, <1>4

LEMMA BlockInitially == Block!Init => BlockInv
  <1> SUFFICES ASSUME Block!Init  PROVE BlockInv
    OBVIOUS
  <1>1. /\ first \in Nat /\ chunks = 1 /\ handedOut = {} /\ Garbage \notin Nat
        /\ kind \in {"fixed", "chunked", "object", "array", "bounded", "reuse"}
    BY PoolsAssumption DEF Block!Init, Block!BlockPoolsAssumption
  <1> DEFINE up == [i \in 1..blockCount |-> i]
             down == Block!Reverse(up)
  <1>2. /\ blockCount \in Nat /\ undefined \in BOOLEAN
        /\ kind = "fixed" => stack = up /\ undefined = (first = 0)
        /\ kind \notin {"fixed", "object"} => stack = down /\ undefined = FALSE
        /\ kind = "object" => /\ stack \in {down \o <<>>, down \o <<Garbage>>}
                              /\ undefined = FALSE
        /\ kind = "bounded" => blockCount = first
    <2>1. CASE kind = "fixed"
      <3>1. Block!StartFixed
        BY <2>1 DEF Block!Init
      <3>2. blockCount = first /\ stack = [i \in 1..first |-> i] /\ undefined = (first = 0)
        BY <3>1 DEF Block!StartFixed
      <3>3. QED  BY <1>1, <2>1, <3>2
    <2>2. CASE kind = "chunked"
      <3>1. Block!StartChunked
        BY <2>2 DEF Block!Init
      <3>2. QED  BY <1>1, <2>2, <3>1 DEF Block!StartChunked, Block!AtLeastOne
    <2>3. CASE kind = "object"
      <3>1. Block!StartObject
        BY <2>3 DEF Block!Init
      <3>2. QED  BY <1>1, <2>3, <3>1 DEF Block!StartObject, Block!AtLeastOne
    <2>4. CASE kind = "array"
      <3>1. Block!StartArray
        BY <2>4 DEF Block!Init
      <3>2. QED  BY <1>1, <2>4, <3>1 DEF Block!StartArray
    <2>5. CASE kind = "bounded"
      <3>1. Block!StartBounded
        BY <2>5 DEF Block!Init
      <3>2. QED  BY <1>1, <2>5, <3>1 DEF Block!StartBounded
    <2>6. CASE kind = "reuse"
      <3>1. Block!StartReuse
        BY <2>6 DEF Block!Init
      <3>2. QED  BY <1>1, <2>6, <3>1 DEF Block!StartReuse
    <2>7. QED  BY <1>1, <2>1, <2>2, <2>3, <2>4, <2>5, <2>6
  <1>3. /\ up \in Seq(Nat) /\ Elements(up) = 1..blockCount /\ Distinct(up)
        /\ down \in Seq(Nat) /\ Elements(down) = 1..blockCount /\ Distinct(down)
    BY <1>2, FirstBlocks
  <1> HIDE DEF up, down
  <1>4. up \in Seq(Nat \cup {Garbage}) /\ down \in Seq(Nat \cup {Garbage})
    <2>1. \A s \in Seq(Nat) : s \in Seq(Nat \cup {Garbage})
      <3> SUFFICES ASSUME NEW s \in Seq(Nat)  PROVE s \in Seq(Nat \cup {Garbage})
        OBVIOUS
      <3>1. /\ Len(s) \in Nat /\ s = [i \in 1..Len(s) |-> s[i]]
            /\ \A i \in 1..Len(s) : s[i] \in Nat \cup {Garbage}
        OBVIOUS
      <3>2. QED  BY <3>1
    <2>2. QED  BY <1>3, <2>1
  <1>5. /\ <<Garbage>> \in Seq(Nat \cup {Garbage}) /\ Elements(<<Garbage>>) = {Garbage}
        /\ Distinct(<<Garbage>>) /\ down \o <<>> = down
    <2>1. <<Garbage>> \in Seq(Nat \cup {Garbage}) /\ down \o <<>> = down
      BY <1>4
    <2>2. DOMAIN <<Garbage>> = {1} /\ <<Garbage>>[1] = Garbage
      OBVIOUS
    <2>3. QED  BY <2>1, <2>2 DEF Elements, Distinct
  <1>6. Elements(down) \cap {Garbage} = {}
    BY <1>1, <1>3
  <1>7. /\ down \o <<Garbage>> \in Seq(Nat \cup {Garbage})
        /\ Elements(down \o <<Garbage>>) = Elements(down) \cup {Garbage}
        /\ Distinct(down \o <<Garbage>>)
    <2> DEFINE bottom == <<Garbage>>
    <2>1. /\ bottom \in Seq(Nat \cup {Garbage}) /\ Elements(bottom) = {Garbage}
          /\ Distinct(bottom) /\ Elements(down) \cap Elements(bottom) = {}
      BY <1>5, <1>6
    <2> HIDE DEF bottom
    <2>2. /\ down \o bottom \in Seq(Nat \cup {Garbage})
          /\ Elements(down \o bottom) = Elements(down) \cup Elements(bottom)
          /\ Distinct(down \o bottom)
      <3>1. down \in Seq(Nat \cup {Garbage}) /\ Distinct(down)
        BY <1>3, <1>4
      <3>2. QED  BY ONLY <2>1, <3>1, TwoLists
    <2>3. QED  BY <2>1, <2>2 DEF bottom
  <1>8. /\ stack \in Seq(Nat \cup {Garbage}) /\ Distinct(stack)
        /\ Elements(stack) \ {Garbage} = 1..blockCount
        /\ kind # "object" => Garbage \notin Elements(stack)
    <2>1. stack \in {up, down, down \o <<Garbage>>}
          /\ (kind # "object" => stack \in {up, down})
      BY <1>1, <1>2, <1>5
    <2>2. QED  BY <1>1, <1>3, <1>4, <1>6, <1>7, <2>1
  <1>9. Block!UndefinedOnlyWhere
    BY <1>1, <1>2 DEF Block!UndefinedOnlyWhere
  <1>10. BlockTypes
    BY <1>1, <1>2, <1>8 DEF BlockTypes
  <1>11. QED  BY <1>1, <1>2, <1>8, <1>9, <1>10 DEF BlockInv

-------------------------------------------------------------------------------

PoolsInv == StaticInv /\ FixedInv /\ BlockInv

\* The inductive invariant of all the pools.
THEOREM PoolsInvariant == PoolsSpec => []PoolsInv
  <1>1. PoolsInit => PoolsInv
    BY StaticInitially, FixedInitially, BlockInitially DEF PoolsInit, PoolsInv
  <1>2. [PoolsNext]_poolsVars => /\ [Static!Next]_staticVars
                       /\ [Static!FixedNext]_fixedVars
                       /\ [Block!Next]_blockVars
    BY DEF PoolsNext, poolsVars
  <1>3. PoolsInv /\ [PoolsNext]_poolsVars => PoolsInv'
    BY <1>2, StaticStep, FixedStep, BlockStep DEF PoolsInv
  <1>4. QED  BY <1>1, <1>3, PTL DEF PoolsSpec

\* A block is free or in one user's hands: none is lost, handed out twice or linked
\* twice, in the pools of static_mem_pool_nvwa.hpp whatever the threads do, in
\* fixed_mem_pool_nvwa.hpp unless somebody allocates while the array is freed, and in
\* the six pools of one thread until something undefined happens.
THEOREM EveryBlockUsedOnce == PoolsSpec => []BlocksUsedOnce
  <1>1. \A s : Block!ToSet(s) = Elements(s) /\ (Block!IsInjective(s) <=> Distinct(s))
    BY DEF Block!ToSet, Elements, Block!IsInjective, Distinct
  <1>2. BlockInv => Block!BlocksUsedOnce
    BY <1>1 DEF BlockInv, Block!BlocksUsedOnce
  <1>3. PoolsInv => BlocksUsedOnce
    BY <1>2, StaticOnePlace, FixedBlocksOfTheArray DEF PoolsInv, BlocksUsedOnce
  <1>4. QED  BY <1>3, PoolsInvariant, PTL

\* The pools of one thread behave as the language defines unless they start without
\* a block, without their list's end, or are asked for an array.
THEOREM UndefinedOnlyInFourCases == PoolsSpec => []UndefinedOnlyWhere
  <1>1. PoolsInv => UndefinedOnlyWhere
    BY DEF PoolsInv, BlockInv, UndefinedOnlyWhere
  <1>2. QED  BY <1>1, PoolsInvariant, PTL

\* _S_alloc_sys answers with a null pointer only when the system has no memory and no
\* pool has a block to spare.
THEOREM NullMeansNoMemory == PoolsSpec => NullOnlyWhenExhausted
  <1>1. PoolsInv /\ [PoolsNext]_poolsVars => [NullMeansExhausted]_(Static!vars)
    <2>1. [PoolsNext]_poolsVars => [Static!Next]_staticVars
      BY DEF PoolsNext, poolsVars
    <2>2. QED  BY <2>1, StaticNull DEF PoolsInv
  <1>2. NullOnlyWhenExhausted <=> [][NullMeansExhausted]_(Static!vars)
    BY PTL DEF NullOnlyWhenExhausted, Static!NullOnlyWhenExhausted, NullMeansExhausted
  <1>3. QED  BY <1>1, <1>2, PoolsInvariant, PTL DEF PoolsSpec
=============================================================================
