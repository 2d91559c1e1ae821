-------------------------- MODULE DataStructuresProofs --------------------------
(***************************************************************************)
(* What module MCDataStructures checks on small trees, heaps and           *)
(* partitions, proved for any: the red-black tree and its drafts with any  *)
(* finite set of nodes and any keys, the heap of any elements, union-find  *)
(* of any number of elements.                                              *)
(*                                                                         *)
(* The tree: each node has a set D of what is below it, so a link is right *)
(* when it splits D, and a height h, so balance is a property of every     *)
(* node and its children.  A rotation, a link and a splice are each shown  *)
(* to leave D and h such sets and heights, for the nodes they move and     *)
(* then for the rest; the mirrored cases are one, with the two sides of    *)
(* the tree exchanged.  The heap: an element is out of order with its      *)
(* parent only at the index that goes up or down.  Union-find: a forest    *)
(* whose trees are the blocks, and with ranks, the size of a block.        *)
(***************************************************************************)
EXTENDS MCDataStructures, FiniteSetTheorems, SequenceTheorems, NaturalsInduction,
        WellFoundedInduction, TLAPS

(***************************************************************************)
(* Finite sets and numbers.                                                *)
(***************************************************************************)

\* Among finite sets one has none of the others as a proper part.
LEMMA LeastSet ==
    ASSUME NEW Z, IsFiniteSet(Z), NEW T, T \subseteq SUBSET Z, T # {}
    PROVE  \E s \in T : \A y \in T : ~ (y \subseteq s /\ y # s)
  <1>1. IsWellFoundedOn(StrictSubsetOrdering(Z), FiniteSubsetsOf(Z))
    BY FS_StrictSubsetOrderingWellFounded
  <1>2. T \subseteq FiniteSubsetsOf(Z)
    <2>1. ASSUME NEW y \in T
          PROVE  y \in FiniteSubsetsOf(Z)
      <3>1. y \in SUBSET Z
        OBVIOUS
      <3>2. IsFiniteSet(y)
        BY <3>1, FS_Subset
      <3>3. QED  BY <3>1, <3>2 DEF FiniteSubsetsOf
    <2>2. QED  BY <2>1
  <1>3. PICK s \in T : \A y \in T : ~ (<<y, s>> \in StrictSubsetOrdering(Z))
    BY <1>1, <1>2, WFMin
  <1>4. ASSUME NEW y \in T, y \subseteq s, y # s
        PROVE  FALSE
    <2>1. y \in SUBSET Z /\ s \in SUBSET Z
      OBVIOUS
    <2>2. <<y, s>> \in StrictSubsetOrdering(Z)
      BY <1>4, <2>1 DEF StrictSubsetOrdering
    <2>3. QED  BY <1>3, <2>2
  <1>5. QED  BY <1>4

LEMMA LeastNumber ==
    ASSUME NEW T, T \subseteq Nat, T # {}
    PROVE  \E a \in T : \A y \in T : a <= y
  <1>1. PICK a \in T : \A y \in T : ~ (<<y, a>> \in OpToRel(<, Nat))
    BY NatLessThanWellFounded, WFMin
  <1>2. ASSUME NEW y \in T
        PROVE  a <= y
    <2>1. <<y, a>> \notin OpToRel(<, Nat)
      BY <1>1
    <2>2. ~ (y < a)
      BY <2>1 DEF OpToRel
    <2>3. QED  BY <2>2
  <1>3. QED  BY <1>2

\* Induction up to a number, for a property given as the set of those that have it.
LEMMA Induction ==
    ASSUME NEW n \in Nat, NEW G, 0 \in G,
           \A m \in 0..n - 1 : m \in G => m + 1 \in G
    PROVE  \A m \in 0..n : m \in G
  <1>1. PICK T : T = {m \in 0..n : m \notin G}
    OBVIOUS
  <1>2. ASSUME T # {}
        PROVE  FALSE
    <2>1. T \subseteq Nat
      BY <1>1
    <2>2. PICK m \in T : \A y \in T : m <= y
      BY <1>2, <2>1, LeastNumber
    <2>3. m \in 0..n /\ m # 0 /\ m \notin G
      BY <1>1, <2>2
    <2>4. m - 1 \in 0..n - 1 /\ m - 1 \in 0..n /\ m - 1 \notin T /\ (m - 1) + 1 = m
      BY <2>2, <2>3
    <2>5. QED  BY <1>1, <2>3, <2>4
  <1>3. QED  BY <1>1, <1>2

\* A part that lacks an element is smaller.
LEMMA SmallerPart ==
    ASSUME NEW S, IsFiniteSet(S), NEW T, T \subseteq S, NEW e \in S, e \notin T
    PROVE  /\ IsFiniteSet(T) /\ Cardinality(T) \in Nat /\ Cardinality(S) \in Nat
           /\ Cardinality(T) < Cardinality(S)
  <1>1. T \in SUBSET S
    OBVIOUS
  <1>2. IsFiniteSet(T) /\ Cardinality(T) <= Cardinality(S)
    BY <1>1, FS_Subset
  <1>3. Cardinality(S) # Cardinality(T)
    BY <1>1, FS_Subset
  <1>4. Cardinality(T) \in Nat /\ Cardinality(S) \in Nat
    BY <1>2, FS_CardinalityType
  <1>5. QED  BY <1>2, <1>3, <1>4

(***************************************************************************)
(* Trees: r is the root, A and B are the children on either side, P the    *)
(* parents and D[n] the nodes from n down.                                 *)
(***************************************************************************)

NodeAt(A, B, P, U, D, n) ==
    /\ A[n] \in U \cup {nil} /\ B[n] \in U \cup {nil}
    /\ D[n] = {n} \cup D[A[n]] \cup D[B[n]]
    /\ n \notin D[A[n]] /\ n \notin D[B[n]] /\ D[A[n]] \cap D[B[n]] = {}
    /\ A[n] # nil => P[A[n]] = n
    /\ B[n] # nil => P[B[n]] = n

Shape(r, A, B, P, U, D) ==
    /\ U \subseteq Nodes /\ r \in U \cup {nil}
    /\ A \in [AllNodes -> Pointers] /\ B \in [AllNodes -> Pointers] /\ P \in [AllNodes -> Pointers]
    /\ D \in [AllNodes -> SUBSET U] /\ D[nil] = {} /\ D[r] = U
    /\ r # nil => P[r] = nil
    /\ \A m \in AllNodes \ U : A[m] = nullptr /\ B[m] = nullptr
    /\ \A n \in U : NodeAt(A, B, P, U, D, n)

LEMMA NilIsNoNode == nil \notin Nodes /\ nullptr \notin AllNodes /\ IsFiniteSet(Nodes)
  BY RBTreeAssumption DEF AllNodes

LEMMA ShapeSwap ==
    ASSUME NEW r, NEW A, NEW B, NEW P, NEW U, NEW D, Shape(r, A, B, P, U, D)
    PROVE  Shape(r, B, A, P, U, D)
  <1>1. ASSUME NEW n \in U, NodeAt(A, B, P, U, D, n)
        PROVE  NodeAt(B, A, P, U, D, n)
    BY <1>1 DEF NodeAt
  <1>2. QED  BY <1>1 DEF Shape

\* Below c, every node but c has its parent, of which it is a child.
LEMMA ParentBelow ==
    ASSUME NEW r, NEW A, NEW B, NEW P, NEW U, NEW D, Shape(r, A, B, P, U, D)
    PROVE  \A c \in U : \A m \in D[c] :
               m # c => P[m] \in D[c] /\ (A[P[m]] = m \/ B[P[m]] = m)
  <1> DEFINE Bad(c) == \E m \in D[c] : m # c /\ ~ (P[m] \in D[c] /\ (A[P[m]] = m \/ B[P[m]] = m))
  <1>1. PICK W : W = {c \in U : Bad(c)}
    OBVIOUS
  <1>2. PICK T : T = {D[c] : c \in W}
    OBVIOUS
  <1>3. ASSUME W # {}
        PROVE  FALSE
    <2>1. T # {} /\ T \subseteq SUBSET Nodes
      BY <1>1, <1>2, <1>3 DEF Shape, AllNodes
    <2>2. PICK s \in T : \A y \in T : ~ (y \subseteq s /\ y # s)
      BY <2>1, NilIsNoNode, LeastSet
    <2>3. PICK c \in W : s = D[c]
      BY <1>2
    <2>4. c \in U /\ NodeAt(A, B, P, U, D, c)
      BY <1>1 DEF Shape
    <2>5. PICK m \in D[c] : m # c /\ ~ (P[m] \in D[c] /\ (A[P[m]] = m \/ B[P[m]] = m))
      BY <1>1
    <2>6. PICK e \in {A[c], B[c]} : m \in D[e]
      BY <2>4, <2>5 DEF NodeAt
    <2>7. e \in U /\ P[e] = c /\ (A[c] = e \/ B[c] = e)
      BY <2>4, <2>6 DEF NodeAt, Shape
    <2>8. D[e] \subseteq D[c] /\ c \notin D[e] /\ c \in D[c]
      BY <2>4, <2>6 DEF NodeAt
    <2>9. m # e
      BY <2>5, <2>7, <2>8, <2>4 DEF NodeAt
    <2>10. e \in W
      BY <1>1, <2>5, <2>6, <2>7, <2>8, <2>9
    <2>11. QED  BY <1>2, <2>2, <2>3, <2>8, <2>10
  <1>4. QED  BY <1>1, <1>3

LEMMA ParentOf ==
    ASSUME NEW r, NEW A, NEW B, NEW P, NEW U, NEW D, Shape(r, A, B, P, U, D)
    PROVE  \A m \in U : m # r => P[m] \in U /\ (A[P[m]] = m \/ B[P[m]] = m)
  <1>1. D[r] = U /\ r \in U \cup {nil} /\ D[nil] = {}
    BY DEF Shape
  <1>2. QED  BY <1>1, ParentBelow

\* Who has n as a child is its parent; and n is a child once.
LEMMA ChildOf ==
    ASSUME NEW r, NEW A, NEW B, NEW P, NEW U, NEW D, Shape(r, A, B, P, U, D)
    PROVE  \A m \in AllNodes, n \in U :
               A[m] = n \/ B[m] = n => /\ m \in U /\ m = P[n] /\ m # n /\ n # r
                                       /\ ~ (A[m] = n /\ B[m] = n)
                                       /\ m \notin D[n] /\ n \in D[m]
  <1> SUFFICES ASSUME NEW m \in AllNodes, NEW n \in U, A[m] = n \/ B[m] = n
               PROVE  /\ m \in U /\ m = P[n] /\ m # n /\ n # r
                      /\ ~ (A[m] = n /\ B[m] = n)
                      /\ m \notin D[n] /\ n \in D[m]
    OBVIOUS
  <1>1. n \in Nodes /\ n # nullptr /\ n # nil
    BY NilIsNoNode DEF Shape, AllNodes
  <1>2. m \in U
    BY <1>1 DEF Shape
  <1>3. NodeAt(A, B, P, U, D, m) /\ NodeAt(A, B, P, U, D, n)
    BY <1>2 DEF Shape
  <1>4. m = P[n] /\ n \in D[n]
    BY <1>1, <1>3 DEF NodeAt
  <1>5. m # nil
    BY <1>2, NilIsNoNode DEF Shape
  <1>6. n # r
    BY <1>4, <1>5, <1>1 DEF Shape
  <1>7. QED  BY <1>2, <1>3, <1>4, <1>6 DEF NodeAt

(***************************************************************************)
(* A rotation: n goes down on side A, its child on side B comes up.        *)
(***************************************************************************)

Rotated(r, A, B, P, n, s, C, E, Q) ==
    /\ s = IF P[n] = nil THEN B[n] ELSE r
    /\ C = [m \in AllNodes |-> IF m = B[n] THEN n ELSE IF A[m] = n THEN B[n] ELSE A[m]]
    /\ E = [m \in AllNodes |-> IF m = n THEN A[B[n]] ELSE IF B[m] = n THEN B[n] ELSE B[m]]
    /\ Q = [m \in AllNodes |-> IF m = n THEN B[n] ELSE IF m = B[n] THEN P[n]
                               ELSE IF m = A[B[n]] /\ m # nil THEN n ELSE P[m]]

\* The nodes of a rotation are different ones.
LEMMA AboutRotation ==
    ASSUME NEW r, NEW A, NEW B, NEW P, NEW U, NEW D, Shape(r, A, B, P, U, D),
           NEW n \in U, NEW up, up = B[n], up # nil
    PROVE  /\ up \in U /\ up # n /\ P[up] = n /\ up # r
           /\ A[n] \in U \cup {nil} /\ A[up] \in U \cup {nil} /\ B[up] \in U \cup {nil}
           /\ A[n] # n /\ A[n] # up /\ A[up] # n /\ A[up] # up /\ B[up] # n /\ B[up] # up
           /\ D[up] \subseteq D[n] /\ n \in D[n] /\ up \in D[up] /\ n \notin D[up]
           /\ P[n] \in U \cup {nil} /\ P[n] # n /\ P[n] # up /\ (P[n] = nil <=> n = r)
  <1>1. NodeAt(A, B, P, U, D, n)
    BY DEF Shape
  <1>2. up \in U
    BY <1>1 DEF NodeAt
  <1>3. NodeAt(A, B, P, U, D, up)
    BY <1>2 DEF Shape
  <1>4. n \in AllNodes /\ up \in AllNodes /\ nil \notin U
    BY <1>2, NilIsNoNode DEF Shape, AllNodes
  <1>5. up # n /\ P[up] = n /\ up # r /\ n \notin D[up] /\ up \in D[n]
    BY <1>2, <1>4, ChildOf
  <1>6. D[up] \subseteq D[n] /\ n \in D[n] /\ up \in D[up]
    BY <1>1, <1>3 DEF NodeAt
  <1>7. A[n] # n /\ A[n] # up
    BY <1>2, <1>4, ChildOf
  <1>8. A[up] # n /\ A[up] # up /\ B[up] # n /\ B[up] # up
    <2>1. A[up] # up /\ B[up] # up
      BY <1>2, <1>4, ChildOf
    <2>2. A[up] # n /\ B[up] # n
      BY <1>2, <1>4, <1>5, <1>6, ChildOf
    <2>3. QED  BY <2>1, <2>2
  <1>9. P[n] \in U \cup {nil} /\ (P[n] = nil <=> n = r)
    <2>1. n = r => P[n] = nil
      BY <1>4 DEF Shape
    <2>2. n # r => P[n] \in U
      BY ParentOf
    <2>3. QED  BY <1>4, <2>1, <2>2
  <1>10. P[n] # n /\ P[n] # up
    <2>1. n # r => P[n] \in U /\ (A[P[n]] = n \/ B[P[n]] = n)
      BY ParentOf
    <2>2. n # r => P[n] # n
      BY <1>4, <2>1, ChildOf
    <2>3. QED  BY <1>4, <1>8, <1>9, <2>1, <2>2
  <1>11. QED  BY <1>1, <1>2, <1>3, <1>5, <1>6, <1>7, <1>8, <1>9, <1>10 DEF NodeAt

\* What is below n and below the node that comes up afterwards.
RotatedBelow(A, B, D, n) ==
    [D EXCEPT ![B[n]] = D[n], ![n] = {n} \cup D[A[n]] \cup D[A[B[n]]]]

LEMMA RotatedShape ==
    ASSUME NEW r, NEW A, NEW B, NEW P, NEW U, NEW D, Shape(r, A, B, P, U, D),
           NEW n \in U, B[n] # nil,
           NEW s, NEW C, NEW E, NEW Q, Rotated(r, A, B, P, n, s, C, E, Q)
    PROVE  Shape(s, C, E, Q, U, RotatedBelow(A, B, D, n))
  <1>1. PICK up : up = B[n]
    OBVIOUS
  <1>2. PICK F : F = RotatedBelow(A, B, D, n)
    OBVIOUS
  <1>3. PICK inner : inner = A[up]
    OBVIOUS
  <1>4. /\ up \in U /\ up # n /\ P[up] = n /\ up # r
        /\ A[n] \in U \cup {nil} /\ inner \in U \cup {nil} /\ B[up] \in U \cup {nil}
        /\ A[n] # n /\ A[n] # up /\ inner # n /\ inner # up /\ B[up] # n /\ B[up] # up
        /\ D[up] \subseteq D[n] /\ n \in D[n] /\ up \in D[up] /\ n \notin D[up]
        /\ P[n] \in U \cup {nil} /\ P[n] # n /\ P[n] # up /\ (P[n] = nil <=> n = r)
    BY <1>1, <1>3, AboutRotation
  <1>5. /\ s = IF P[n] = nil THEN up ELSE r
        /\ C = [m \in AllNodes |-> IF m = up THEN n ELSE IF A[m] = n THEN up ELSE A[m]]
        /\ E = [m \in AllNodes |-> IF m = n THEN inner ELSE IF B[m] = n THEN up ELSE B[m]]
        /\ Q = [m \in AllNodes |-> IF m = n THEN up ELSE IF m = up THEN P[n]
                                   ELSE IF m = inner /\ m # nil THEN n ELSE P[m]]
    BY <1>1, <1>3 DEF Rotated
  <1>6. /\ U \subseteq Nodes /\ r \in U \cup {nil} /\ nil \notin U /\ U \subseteq AllNodes
        /\ A \in [AllNodes -> Pointers] /\ B \in [AllNodes -> Pointers] /\ P \in [AllNodes -> Pointers]
        /\ D \in [AllNodes -> SUBSET U] /\ D[nil] = {} /\ D[r] = U
        /\ r # nil => P[r] = nil
        /\ \A m \in AllNodes \ U : A[m] = nullptr /\ B[m] = nullptr
        /\ \A m \in U : NodeAt(A, B, P, U, D, m)
        /\ AllNodes \subseteq Pointers /\ nil \in AllNodes /\ nullptr \notin AllNodes
    BY NilIsNoNode DEF Shape, AllNodes, Pointers
  <1>7. F = [D EXCEPT ![up] = D[n], ![n] = {n} \cup D[A[n]] \cup D[inner]]
    BY <1>1, <1>2, <1>3 DEF RotatedBelow
  <1>8. /\ F \in [AllNodes -> SUBSET U]
        /\ F[up] = D[n] /\ F[n] = {n} \cup D[A[n]] \cup D[inner]
        /\ \A m \in AllNodes : m # n /\ m # up => F[m] = D[m]
    BY <1>4, <1>6, <1>7
  <1>9. s \in U \cup {nil} /\ F[nil] = {} /\ F[s] = U /\ (s # nil => Q[s] = nil)
    <2>1. F[nil] = {}
      BY <1>4, <1>6, <1>8
    <2>2. CASE n = r
      BY <1>4, <1>5, <1>6, <1>8, <2>1, <2>2
    <2>3. CASE n # r
      <3>1. s = r /\ s # n /\ s # up /\ s \in AllNodes
        BY <1>4, <1>5, <1>6, <2>3
      <3>2. F[s] = U
        BY <1>6, <1>8, <3>1
      <3>3. s # nil => s \in U /\ P[s] = nil
        BY <1>6, <3>1
      <3>4. s # nil => s # inner
        BY <1>1, <1>3, <1>4, <1>6, <3>1, <3>3, ChildOf
      <3>5. QED  BY <1>5, <1>6, <2>1, <3>1, <3>2, <3>3, <3>4
    <2>4. QED  BY <2>2, <2>3
  <1>10. C \in [AllNodes -> Pointers] /\ E \in [AllNodes -> Pointers] /\ Q \in [AllNodes -> Pointers]
    BY <1>4, <1>5, <1>6
  <1>11. \A m \in AllNodes \ U : C[m] = nullptr /\ E[m] = nullptr
    BY <1>4, <1>5, <1>6
  <1>12. NodeAt(C, E, Q, U, F, n)
    <2>1. C[n] = A[n] /\ E[n] = inner
      BY <1>4, <1>5, <1>6
    <2>2. F[A[n]] = D[A[n]] /\ F[inner] = D[inner]
      BY <1>4, <1>6, <1>8
    <2>3. NodeAt(A, B, P, U, D, n) /\ NodeAt(A, B, P, U, D, up)
      BY <1>4, <1>6
    <2>4. n \notin D[A[n]] /\ n \notin D[inner] /\ D[A[n]] \cap D[inner] = {}
      BY <1>1, <1>3, <1>4, <2>3 DEF NodeAt
    <2>5. A[n] # nil => Q[A[n]] = n
      <3>1. A[n] # nil => A[n] # inner
        BY <1>1, <1>3, <1>4, <1>6, <2>3, ChildOf DEF NodeAt
      <3>2. QED  BY <1>4, <1>5, <1>6, <2>3, <3>1 DEF NodeAt
    <2>6. inner # nil => Q[inner] = n
      BY <1>4, <1>5, <1>6
    <2>7. QED  BY <1>4, <1>8, <2>1, <2>2, <2>4, <2>5, <2>6 DEF NodeAt
  <1>13. NodeAt(C, E, Q, U, F, up)
    <2>1. C[up] = n /\ E[up] = B[up]
      BY <1>4, <1>5, <1>6
    <2>2. F[B[up]] = D[B[up]]
      BY <1>4, <1>6, <1>8
    <2>3. NodeAt(A, B, P, U, D, n) /\ NodeAt(A, B, P, U, D, up)
      BY <1>4, <1>6
    <2>4. /\ D[n] = {up} \cup ({n} \cup D[A[n]] \cup D[inner]) \cup D[B[up]]
          /\ up \notin {n} \cup D[A[n]] \cup D[inner] /\ up \notin D[B[up]]
          /\ ({n} \cup D[A[n]] \cup D[inner]) \cap D[B[up]] = {}
      BY <1>1, <1>3, <1>4, <2>3 DEF NodeAt
    <2>5. Q[n] = up
      BY <1>4, <1>5, <1>6
    <2>6. B[up] # nil => Q[B[up]] = up
      <3>1. B[up] # nil => B[up] # inner
        BY <1>1, <1>3, <1>4, <1>6, ChildOf
      <3>2. QED  BY <1>4, <1>5, <1>6, <2>3, <3>1 DEF NodeAt
    <2>7. QED  BY <1>4, <1>8, <2>1, <2>2, <2>4, <2>5, <2>6 DEF NodeAt
  <1>14. ASSUME NEW m \in U, m # n, m # up
         PROVE  NodeAt(C, E, Q, U, F, m)
    <2>1. NodeAt(A, B, P, U, D, m)
      BY <1>6
    <2>2. C[m] = (IF A[m] = n THEN up ELSE A[m]) /\ E[m] = IF B[m] = n THEN up ELSE B[m]
      BY <1>5, <1>6, <1>14
    <2>3. A[m] # up /\ B[m] # up
      BY <1>4, <1>6, <1>14, ChildOf
    <2>4. F[C[m]] = D[A[m]] /\ F[E[m]] = D[B[m]] /\ F[m] = D[m]
      BY <1>4, <1>6, <1>8, <1>14, <2>1, <2>2, <2>3 DEF NodeAt
    <2>5. A[m] = n \/ B[m] = n => P[n] = m
      BY <1>6, ChildOf
    <2>6. inner # nil => A[m] # inner /\ B[m] # inner
      BY <1>1, <1>3, <1>4, <1>6, <1>14, ChildOf
    <2>7. C[m] # nil => Q[C[m]] = m
      BY <1>4, <1>5, <1>6, <2>1, <2>2, <2>3, <2>5, <2>6 DEF NodeAt
    <2>8. E[m] # nil => Q[E[m]] = m
      BY <1>4, <1>5, <1>6, <2>1, <2>2, <2>3, <2>5, <2>6 DEF NodeAt
    <2>9. C[m] \in U \cup {nil} /\ E[m] \in U \cup {nil}
      BY <1>4, <2>1, <2>2 DEF NodeAt
    <2>10. QED  BY <2>1, <2>4, <2>7, <2>8, <2>9 DEF NodeAt
  <1>15. Shape(s, C, E, Q, U, F)
    BY <1>6, <1>8, <1>9, <1>10, <1>11, <1>12, <1>13, <1>14 DEF Shape
  <1>16. QED  BY <1>2, <1>15
(***************************************************************************)
(* Order, balance and colors.                                              *)
(***************************************************************************)

Le == {e \in Nodes \X Nodes : KeyOf[e[1]] <= KeyOf[e[2]]}
Ge == {e \in Nodes \X Nodes : KeyOf[e[1]] >= KeyOf[e[2]]}

Mirror(R) == IF R = Le THEN Ge ELSE Le

\* Along the order R, what is below n on side A comes before n, on side B after it.
Ordered(A, B, U, D, R) ==
    \A n \in U : /\ \A m \in D[A[n]] : <<m, n>> \in R
                 /\ \A m \in D[B[n]] : <<n, m>> \in R

\* What an edge adds to the number of black nodes on a way down.
Weight(P, c, ph, v, p, ch) ==
    (IF c[ch] = BLACK THEN 1 ELSE 0)
    + (IF ph = "delete" /\ ch = v /\ (ch # nil \/ p = P[nil]) THEN 1 ELSE 0)

\* h[n] is the number of black nodes on each way from n down.
Level(A, B, P, c, U, ph, v, h) ==
    /\ c \in [AllNodes -> {RED, BLACK}] /\ c[nil] = BLACK
    /\ \A m \in AllNodes \ U : m # nil => c[m] = RED
    /\ h \in [AllNodes -> Nat] /\ h[nil] = 0
    /\ \A n \in U : /\ h[A[n]] + Weight(P, c, ph, v, n, A[n]) = h[n]
                    /\ h[B[n]] + Weight(P, c, ph, v, n, B[n]) = h[n]

Reds(r, P, c, U, ph, v) ==
    \A n \in U \ {v} : c[n] = RED => n # r /\ (c[P[n]] = BLACK \/ (ph = "delete" /\ P[n] = v))

\* The fixup's node.  As a place of DeleteFixup, nil is one child of its parent only.
HeldNode(r, A, B, P, c, U, ph, v) ==
    /\ \/ ph = "insert" /\ v \in U /\ c[v] = RED
       \/ ph = "idle" /\ v = nullptr
       \/ ph = "delete" /\ v \in U \cup {nil}
    /\ ph = "delete" /\ v = nil /\ r # nil =>
           /\ P[nil] \in U /\ A[P[nil]] # B[P[nil]]
           /\ A[P[nil]] = nil \/ B[P[nil]] = nil
    /\ r = nil => v \in {nil, nullptr}

Sound(r, A, B, P, c, U, D, R, h, ph, v) ==
    /\ R \in {Le, Ge}
    /\ Shape(r, A, B, P, U, D)
    /\ Ordered(A, B, U, D, R)
    /\ Level(A, B, P, c, U, ph, v, h)
    /\ Reds(r, P, c, U, ph, v)
    /\ HeldNode(r, A, B, P, c, U, ph, v)

LEMMA OrderIsTransitive ==
    ASSUME NEW R \in {Le, Ge}
    PROVE  \A l, m, n \in Nodes : <<l, m>> \in R /\ <<m, n>> \in R => <<l, n>> \in R
  <1>1. KeyOf \in [Nodes -> Int]
    BY RBTreeAssumption
  <1>2. CASE R = Le
    BY <1>1, <1>2 DEF Le
  <1>3. CASE R = Ge
    BY <1>1, <1>3 DEF Ge
  <1>4. QED  BY <1>2, <1>3

LEMMA SoundSwap ==
    ASSUME NEW r, NEW A, NEW B, NEW P, NEW c, NEW U, NEW D, NEW R, NEW h, NEW ph, NEW v,
           Sound(r, A, B, P, c, U, D, R, h, ph, v)
    PROVE  Sound(r, B, A, P, c, U, D, Mirror(R), h, ph, v)
  <1>1. PICK S : S = Mirror(R)
    OBVIOUS
  <1>2. Shape(r, B, A, P, U, D)
    BY ShapeSwap DEF Sound
  <1>3. Ordered(B, A, U, D, S)
    <2>1. R \in {Le, Ge} /\ Ordered(A, B, U, D, R) /\ Shape(r, A, B, P, U, D)
      BY DEF Sound
    <2>2. \A m, n \in Nodes : <<m, n>> \in R => <<n, m>> \in S
      <3>1. CASE R = Le
        BY <1>1, <3>1 DEF Le, Ge, Mirror
      <3>2. CASE R = Ge /\ R # Le
        BY <1>1, <3>2 DEF Le, Ge, Mirror
      <3>3. QED  BY <2>1, <3>1, <3>2
    <2>3. \A n \in U : D[A[n]] \subseteq Nodes /\ D[B[n]] \subseteq Nodes /\ n \in Nodes
      BY <2>1 DEF Shape, NodeAt, AllNodes
    <2>4. QED  BY <2>1, <2>2, <2>3 DEF Ordered
  <1>4. Level(B, A, P, c, U, ph, v, h)
    BY DEF Sound, Level
  <1>5. HeldNode(r, B, A, P, c, U, ph, v)
    BY DEF Sound, HeldNode
  <1>6. S \in {Le, Ge}
    BY <1>1 DEF Mirror
  <1>7. Sound(r, B, A, P, c, U, D, S, h, ph, v)
    BY <1>2, <1>3, <1>4, <1>5, <1>6 DEF Sound
  <1>8. QED  BY <1>1, <1>7

LEMMA RotatedOrder ==
    ASSUME NEW r, NEW A, NEW B, NEW P, NEW U, NEW D, Shape(r, A, B, P, U, D),
           NEW R \in {Le, Ge}, Ordered(A, B, U, D, R),
           NEW n \in U, B[n] # nil,
           NEW s, NEW C, NEW E, NEW Q, Rotated(r, A, B, P, n, s, C, E, Q)
    PROVE  Ordered(C, E, U, RotatedBelow(A, B, D, n), R)
  <1>1. PICK up : up = B[n]
    OBVIOUS
  <1>2. PICK F : F = RotatedBelow(A, B, D, n)
    OBVIOUS
  <1>3. PICK inner : inner = A[up]
    OBVIOUS
  <1>4. /\ up \in U /\ up # n
        /\ A[n] \in U \cup {nil} /\ inner \in U \cup {nil} /\ B[up] \in U \cup {nil}
        /\ A[n] # n /\ A[n] # up /\ inner # n /\ inner # up /\ B[up] # n /\ B[up] # up
    BY <1>1, <1>3, AboutRotation
  <1>5. /\ C = [m \in AllNodes |-> IF m = up THEN n ELSE IF A[m] = n THEN up ELSE A[m]]
        /\ E = [m \in AllNodes |-> IF m = n THEN inner ELSE IF B[m] = n THEN up ELSE B[m]]
    BY <1>1, <1>3 DEF Rotated
  <1>6. /\ U \subseteq Nodes /\ nil \notin U /\ U \subseteq AllNodes /\ nil \in AllNodes
        /\ D \in [AllNodes -> SUBSET U]
        /\ \A m \in U : NodeAt(A, B, P, U, D, m)
    BY NilIsNoNode DEF Shape, AllNodes
  <1>7. F = [D EXCEPT ![up] = D[n], ![n] = {n} \cup D[A[n]] \cup D[inner]]
    BY <1>1, <1>2, <1>3 DEF RotatedBelow
  <1>8. /\ F[up] = D[n] /\ F[n] = {n} \cup D[A[n]] \cup D[inner]
        /\ \A m \in AllNodes : m # n /\ m # up => F[m] = D[m]
    BY <1>4, <1>6, <1>7
  <1>9. NodeAt(A, B, P, U, D, n) /\ NodeAt(A, B, P, U, D, up)
    BY <1>4, <1>6
  <1>10. /\ \A m \in F[C[n]] : <<m, n>> \in R
         /\ \A m \in F[E[n]] : <<n, m>> \in R
    <2>1. C[n] = A[n] /\ E[n] = inner
      BY <1>4, <1>5, <1>6
    <2>2. F[A[n]] = D[A[n]] /\ F[inner] = D[inner]
      BY <1>4, <1>6, <1>8
    <2>3. D[inner] \subseteq D[up]
      BY <1>1, <1>3, <1>9 DEF NodeAt
    <2>4. QED  BY <1>1, <2>1, <2>2, <2>3 DEF Ordered
  <1>11. /\ \A m \in F[C[up]] : <<m, up>> \in R
         /\ \A m \in F[E[up]] : <<up, m>> \in R
    <2>1. C[up] = n /\ E[up] = B[up]
      BY <1>4, <1>5, <1>6
    <2>2. F[B[up]] = D[B[up]]
      BY <1>4, <1>6, <1>8
    <2>3. <<n, up>> \in R
      <3>1. up \in D[up]
        BY <1>9 DEF NodeAt
      <3>2. QED  BY <1>1, <3>1 DEF Ordered
    <2>4. \A m \in D[A[n]] : <<m, up>> \in R
      <3>1. \A m \in D[A[n]] : m \in Nodes /\ <<m, n>> \in R
        BY <1>4, <1>6 DEF Ordered
      <3>2. n \in Nodes /\ up \in Nodes
        BY <1>4, <1>6
      <3>3. QED  BY <2>3, <3>1, <3>2, OrderIsTransitive
    <2>5. \A m \in D[inner] : <<m, up>> \in R
      BY <1>3, <1>4 DEF Ordered
    <2>6. QED  BY <1>4, <1>8, <2>1, <2>2, <2>3, <2>4, <2>5 DEF Ordered
  <1>12. ASSUME NEW m \in U, m # n, m # up
         PROVE  /\ \A l \in F[C[m]] : <<l, m>> \in R
                /\ \A l \in F[E[m]] : <<m, l>> \in R
    <2>1. C[m] = (IF A[m] = n THEN up ELSE A[m]) /\ E[m] = IF B[m] = n THEN up ELSE B[m]
      BY <1>5, <1>6, <1>12
    <2>2. A[m] # up /\ B[m] # up
      BY <1>1, <1>4, <1>6, <1>12, ChildOf
    <2>3. A[m] \in U \cup {nil} /\ B[m] \in U \cup {nil}
      BY <1>6 DEF NodeAt
    <2>4. F[C[m]] = D[A[m]] /\ F[E[m]] = D[B[m]]
      BY <1>6, <1>8, <2>1, <2>2, <2>3
    <2>5. QED  BY <2>4 DEF Ordered
  <1>13. Ordered(C, E, U, F, R)
    BY <1>10, <1>11, <1>12 DEF Ordered
  <1>14. QED  BY <1>2, <1>13

\* With colors e, extra weight at w and heights g, the ways down weigh after the
\* rotation what they should.
Weighs(r, A, B, P, Q, U, c, e, ph, v, w, n, up, inner, h, g) ==
    /\ e \in [AllNodes -> {RED, BLACK}] /\ e[nil] = BLACK
    /\ \A m \in AllNodes \ U : m # nil => e[m] = RED
    /\ g \in [AllNodes -> Nat]
    /\ \A m \in AllNodes : m # n /\ m # up => g[m] = h[m]
    /\ \A m \in U : m # n /\ m # up =>
           /\ A[m] # n => Weight(Q, e, ph, w, m, A[m]) = Weight(P, c, ph, v, m, A[m])
           /\ B[m] # n => Weight(Q, e, ph, w, m, B[m]) = Weight(P, c, ph, v, m, B[m])
    /\ n # r => g[up] + Weight(Q, e, ph, w, P[n], up) = h[n] + Weight(P, c, ph, v, P[n], n)
    /\ g[A[n]] + Weight(Q, e, ph, w, n, A[n]) = g[n]
    /\ g[inner] + Weight(Q, e, ph, w, n, inner) = g[n]
    /\ g[n] + Weight(Q, e, ph, w, up, n) = g[up]
    /\ g[B[up]] + Weight(Q, e, ph, w, up, B[up]) = g[up]

LEMMA RotatedLevel ==
    ASSUME NEW r, NEW A, NEW B, NEW P, NEW U, NEW D, Shape(r, A, B, P, U, D),
           NEW n \in U, NEW up, up = B[n], up # nil, NEW inner, inner = A[up],
           NEW s, NEW C, NEW E, NEW Q, Rotated(r, A, B, P, n, s, C, E, Q),
           NEW c, NEW ph, NEW v, NEW h, Level(A, B, P, c, U, ph, v, h),
           NEW e, NEW w, NEW g, Weighs(r, A, B, P, Q, U, c, e, ph, v, w, n, up, inner, h, g)
    PROVE  Level(C, E, Q, e, U, ph, w, g)
  <1>1. /\ up \in U /\ up # n
        /\ A[n] \in U \cup {nil} /\ inner \in U \cup {nil} /\ B[up] \in U \cup {nil}
        /\ A[n] # n /\ A[n] # up /\ inner # n /\ inner # up /\ B[up] # n /\ B[up] # up
    BY AboutRotation
  <1>2. /\ C = [m \in AllNodes |-> IF m = up THEN n ELSE IF A[m] = n THEN up ELSE A[m]]
        /\ E = [m \in AllNodes |-> IF m = n THEN inner ELSE IF B[m] = n THEN up ELSE B[m]]
    BY DEF Rotated
  <1>3. /\ nil \notin U /\ U \subseteq AllNodes /\ nil \in AllNodes
        /\ \A m \in U : NodeAt(A, B, P, U, D, m)
    BY NilIsNoNode DEF Shape, AllNodes
  <1>0. n # r => g[up] + Weight(Q, e, ph, w, P[n], up) = h[n] + Weight(P, c, ph, v, P[n], n)
    BY DEF Weighs
  <1>4. g[nil] = 0
    BY <1>1, <1>3 DEF Level, Weighs
  <1>5. /\ C[n] = A[n] /\ E[n] = inner /\ C[up] = n /\ E[up] = B[up]
    BY <1>1, <1>2, <1>3
  <1>6. ASSUME NEW m \in U, m # n, m # up
        PROVE  /\ g[C[m]] + Weight(Q, e, ph, w, m, C[m]) = g[m]
               /\ g[E[m]] + Weight(Q, e, ph, w, m, E[m]) = g[m]
    <2>1. C[m] = (IF A[m] = n THEN up ELSE A[m]) /\ E[m] = IF B[m] = n THEN up ELSE B[m]
      BY <1>2, <1>3, <1>6
    <2>2. A[m] # up /\ B[m] # up
      BY <1>1, <1>3, <1>6, ChildOf
    <2>3. A[m] \in AllNodes /\ B[m] \in AllNodes
      BY <1>3 DEF NodeAt
    <2>4. A[m] = n \/ B[m] = n => m = P[n] /\ n # r
      BY <1>3, ChildOf
    <2>5. /\ h[A[m]] + Weight(P, c, ph, v, m, A[m]) = h[m]
          /\ h[B[m]] + Weight(P, c, ph, v, m, B[m]) = h[m]
      BY DEF Level
    <2>6. g[m] = h[m]
      BY <1>3, <1>6 DEF Weighs
    <2>7. g[C[m]] + Weight(Q, e, ph, w, m, C[m]) = g[m]
      <3>1. CASE A[m] = n
        BY <1>0, <2>1, <2>4, <2>5, <2>6, <3>1
      <3>2. CASE A[m] # n
        <4>1. g[A[m]] = h[A[m]]
          BY <2>2, <2>3, <3>2 DEF Weighs
        <4>2. Weight(Q, e, ph, w, m, A[m]) = Weight(P, c, ph, v, m, A[m])
          BY <1>6, <3>2 DEF Weighs
        <4>3. QED  BY <2>1, <2>5, <2>6, <3>2, <4>1, <4>2
      <3>3. QED  BY <3>1, <3>2
    <2>8. g[E[m]] + Weight(Q, e, ph, w, m, E[m]) = g[m]
      <3>1. CASE B[m] = n
        BY <1>0, <2>1, <2>4, <2>5, <2>6, <3>1
      <3>2. CASE B[m] # n
        <4>1. g[B[m]] = h[B[m]]
          BY <2>2, <2>3, <3>2 DEF Weighs
        <4>2. Weight(Q, e, ph, w, m, B[m]) = Weight(P, c, ph, v, m, B[m])
          BY <1>6, <3>2 DEF Weighs
        <4>3. QED  BY <2>1, <2>5, <2>6, <3>2, <4>1, <4>2
      <3>3. QED  BY <3>1, <3>2
    <2>9. QED  BY <2>7, <2>8
  <1>7. ASSUME NEW m \in U
        PROVE  /\ g[C[m]] + Weight(Q, e, ph, w, m, C[m]) = g[m]
               /\ g[E[m]] + Weight(Q, e, ph, w, m, E[m]) = g[m]
    BY <1>5, <1>6 DEF Weighs
  <1>8. QED  BY <1>4, <1>7 DEF Level, Weighs
LEMMA AfterRotation ==
    ASSUME NEW r, NEW A, NEW B, NEW P, NEW U, NEW D, Shape(r, A, B, P, U, D),
           NEW n \in U, NEW up, up = B[n], up # nil, NEW inner, inner = A[up],
           NEW s, NEW C, NEW E, NEW Q, Rotated(r, A, B, P, n, s, C, E, Q)
    PROVE  /\ s = (IF n = r THEN up ELSE r) /\ s \in U
           /\ C[n] = A[n] /\ E[n] = inner /\ C[up] = n /\ E[up] = B[up]
           /\ Q[n] = up /\ Q[up] = P[n] /\ (inner # nil => Q[inner] = n) /\ Q[nil] = P[nil]
           /\ \A m \in AllNodes : m # n /\ m # up /\ m # inner => Q[m] = P[m]
           /\ \A m \in U : m # n /\ m # up =>
                  /\ C[m] = IF A[m] = n THEN up ELSE A[m]
                  /\ E[m] = IF B[m] = n THEN up ELSE B[m]
                  /\ A[m] # up /\ B[m] # up
  <1>1. /\ up \in U /\ up # n /\ (P[n] = nil <=> n = r)
        /\ inner \in U \cup {nil} /\ inner # n /\ inner # up
    BY AboutRotation
  <1>2. /\ s = IF P[n] = nil THEN up ELSE r
        /\ C = [m \in AllNodes |-> IF m = up THEN n ELSE IF A[m] = n THEN up ELSE A[m]]
        /\ E = [m \in AllNodes |-> IF m = n THEN inner ELSE IF B[m] = n THEN up ELSE B[m]]
        /\ Q = [m \in AllNodes |-> IF m = n THEN up ELSE IF m = up THEN P[n]
                                   ELSE IF m = inner /\ m # nil THEN n ELSE P[m]]
    BY DEF Rotated
  <1>3. nil \notin U /\ U \subseteq AllNodes /\ nil \in AllNodes
    BY NilIsNoNode DEF Shape, AllNodes
  <1>4. /\ C[n] = A[n] /\ E[n] = inner /\ C[up] = n /\ E[up] = B[up]
        /\ Q[n] = up /\ Q[up] = P[n] /\ (inner # nil => Q[inner] = n) /\ Q[nil] = P[nil]
    <2>1. A[n] # n /\ B[up] # n
      BY AboutRotation
    <2>2. QED  BY <1>1, <1>2, <1>3, <2>1
  <1>5. \A m \in AllNodes : m # n /\ m # up /\ m # inner => Q[m] = P[m]
    BY <1>2
  <1>6. ASSUME NEW m \in U, m # n, m # up
        PROVE  /\ C[m] = IF A[m] = n THEN up ELSE A[m]
               /\ E[m] = IF B[m] = n THEN up ELSE B[m]
               /\ A[m] # up /\ B[m] # up
    <2>1. A[m] # up /\ B[m] # up
      BY <1>1, <1>3, <1>6, ChildOf
    <2>2. QED  BY <1>2, <1>3, <1>6, <2>1
  <1>7. s = (IF n = r THEN up ELSE r) /\ s \in U
    <2>1. r \in U
      BY <1>3 DEF Shape
    <2>2. QED  BY <1>1, <1>2, <2>1
  <1>8. QED  BY <1>4, <1>5, <1>6, <1>7

\* InsertFixup, x on the inner side: after the rotation its parent is the fixup's node.
LEMMA InnerTurned ==
    ASSUME NEW r, NEW A, NEW B, NEW P, NEW c, NEW U, NEW D, NEW R, NEW h, NEW v,
           Sound(r, A, B, P, c, U, D, R, h, "insert", v),
           NEW p \in U, c[p] = RED, B[p] = v,
           NEW s, NEW C, NEW E, NEW Q, Rotated(r, A, B, P, p, s, C, E, Q)
    PROVE  \E G : Sound(s, C, E, Q, c, U, G, R, h, "insert", p)
  <1>1. PICK inner : inner = A[v]
    OBVIOUS
  <1>2. /\ R \in {Le, Ge} /\ Shape(r, A, B, P, U, D) /\ Ordered(A, B, U, D, R)
        /\ Level(A, B, P, c, U, "insert", v, h) /\ Reds(r, P, c, U, "insert", v)
        /\ HeldNode(r, A, B, P, c, U, "insert", v)
    BY DEF Sound
  <1>3. v \in U /\ c[v] = RED /\ v # nil
    BY <1>2, NilIsNoNode DEF HeldNode, Shape
  <1>4. /\ v # p /\ P[v] = p /\ inner \in U \cup {nil} /\ inner # p /\ inner # v
        /\ B[v] \in U \cup {nil} /\ B[v] # p /\ B[v] # v /\ A[p] # v /\ A[p] \in U \cup {nil}
    BY <1>1, <1>2, <1>3, AboutRotation
  <1>5. /\ s = (IF p = r THEN v ELSE r) /\ s \in U
        /\ C[p] = A[p] /\ E[p] = inner /\ C[v] = p /\ E[v] = B[v]
        /\ Q[p] = v /\ Q[v] = P[p] /\ (inner # nil => Q[inner] = p) /\ Q[nil] = P[nil]
        /\ \A m \in AllNodes : m # p /\ m # v /\ m # inner => Q[m] = P[m]
    BY <1>1, <1>2, <1>3, AfterRotation
  <1>6. /\ U \subseteq AllNodes /\ nil \notin U /\ c[nil] = BLACK /\ RED # BLACK
        /\ c \in [AllNodes -> {RED, BLACK}] /\ h \in [AllNodes -> Nat]
    BY <1>2, NilIsNoNode DEF Shape, Level, AllNodes, RED, BLACK
  <1>7. /\ h[A[p]] + Weight(P, c, "insert", v, p, A[p]) = h[p]
        /\ h[v] + Weight(P, c, "insert", v, p, v) = h[p]
        /\ h[inner] + Weight(P, c, "insert", v, v, inner) = h[v]
        /\ h[B[v]] + Weight(P, c, "insert", v, v, B[v]) = h[v]
    BY <1>1, <1>2, <1>3 DEF Level
  <1>8. p # r /\ c[P[p]] = BLACK
    BY <1>2, <1>4, <1>6 DEF Reds
  <1>9. Level(C, E, Q, c, U, "insert", p, h)
    <2>1. \A q, l, m : Weight(Q, c, "insert", p, m, l) = Weight(P, c, "insert", v, q, l)
      BY DEF Weight
    <2>2. h[v] + Weight(Q, c, "insert", p, P[p], v) = h[p] + Weight(P, c, "insert", v, P[p], p)
      BY <1>3, <1>6, <1>7, <1>4 DEF Weight
    <2>3. h[inner] + Weight(Q, c, "insert", p, p, inner) = h[p]
      BY <1>3, <1>6, <1>7, <1>4 DEF Weight
    <2>4. h[p] + Weight(Q, c, "insert", p, v, p) = h[v]
      BY <1>3, <1>6, <1>7, <1>4 DEF Weight
    <2>5. h[B[v]] + Weight(Q, c, "insert", p, v, B[v]) = h[v]
      BY <1>7, <2>1
    <2>6. h[A[p]] + Weight(Q, c, "insert", p, p, A[p]) = h[p]
      BY <1>7, <2>1
    <2>0. \A m \in AllNodes \ U : m # nil => c[m] = RED
      BY <1>2 DEF Level
    <2>7. Weighs(r, A, B, P, Q, U, c, c, "insert", v, p, p, v, inner, h, h)
      BY <2>0, <1>6, <2>1, <2>2, <2>3, <2>4, <2>5, <2>6 DEF Weighs
    <2>8. QED  BY <1>1, <1>2, <1>3, <2>7, RotatedLevel
  <1>10. Reds(s, Q, c, U, "insert", p)
    <2>1. ASSUME NEW m \in U, m # p, c[m] = RED
          PROVE  m # s /\ c[Q[m]] = BLACK
      <3>1. CASE m = v
        <4>1. v # r
          BY <1>2, <1>3, <1>4, <1>6, ChildOf
        <4>2. QED  BY <1>5, <1>8, <3>1, <4>1
      <3>2. CASE m # v
        <4>1. m # r /\ c[P[m]] = BLACK
          BY <1>2, <2>1, <3>2 DEF Reds
        <4>2. m # inner
          <5>1. inner # nil => P[inner] = v
            BY <1>1, <1>2, <1>3 DEF Shape, NodeAt
          <5>2. QED  BY <1>3, <1>6, <2>1, <4>1, <5>1
        <4>3. QED  BY <1>5, <1>6, <1>8, <2>1, <3>2, <4>1, <4>2
      <3>3. QED  BY <3>1, <3>2
    <2>2. QED  BY <2>1 DEF Reds
  <1>11. HeldNode(s, C, E, Q, c, U, "insert", p)
    BY <1>5, <1>6 DEF HeldNode
  <1>12. Shape(s, C, E, Q, U, RotatedBelow(A, B, D, p)) /\ Ordered(C, E, U, RotatedBelow(A, B, D, p), R)
    BY <1>2, <1>3, RotatedShape, RotatedOrder
  <1>13. Sound(s, C, E, Q, c, U, RotatedBelow(A, B, D, p), R, h, "insert", p)
    BY <1>2, <1>9, <1>10, <1>11, <1>12 DEF Sound
  <1>14. QED  BY <1>13
\* InsertFixup, x on the outer side and a black uncle.
LEMMA OuterTurned ==
    ASSUME NEW r, NEW A, NEW B, NEW P, NEW c, NEW U, NEW D, NEW R, NEW h, NEW v,
           Sound(r, A, B, P, c, U, D, R, h, "insert", v),
           NEW n \in U, NEW p \in U, B[n] = p, c[p] = RED, B[p] = v, c[A[n]] = BLACK,
           NEW e, e = [c EXCEPT ![p] = BLACK, ![n] = RED],
           NEW s, NEW C, NEW E, NEW Q, Rotated(r, A, B, P, n, s, C, E, Q)
    PROVE  \E G : Sound(s, C, E, Q, e, U, G, R, h, "insert", v)
  <1>1. PICK inner : inner = A[p]
    OBVIOUS
  <1>2. /\ R \in {Le, Ge} /\ Shape(r, A, B, P, U, D) /\ Ordered(A, B, U, D, R)
        /\ Level(A, B, P, c, U, "insert", v, h) /\ Reds(r, P, c, U, "insert", v)
        /\ HeldNode(r, A, B, P, c, U, "insert", v)
    BY DEF Sound
  <1>3. v \in U /\ c[v] = RED /\ v # nil /\ p # nil
    BY <1>2, NilIsNoNode DEF HeldNode, Shape
  <1>4. /\ p # n /\ P[p] = n /\ inner \in U \cup {nil} /\ inner # p /\ inner # n
        /\ v # p /\ v # n /\ A[n] # p /\ A[n] # n /\ A[n] \in U \cup {nil}
    BY <1>1, <1>2, <1>3, AboutRotation
  <1>5. /\ s = (IF n = r THEN p ELSE r) /\ s \in U
        /\ Q[n] = p /\ Q[p] = P[n] /\ (inner # nil => Q[inner] = n)
        /\ \A m \in AllNodes : m # p /\ m # n /\ m # inner => Q[m] = P[m]
    BY <1>1, <1>2, <1>3, AfterRotation
  <1>6. /\ U \subseteq AllNodes /\ nil \notin U /\ c[nil] = BLACK /\ RED # BLACK
        /\ c \in [AllNodes -> {RED, BLACK}] /\ h \in [AllNodes -> Nat]
    BY <1>2, NilIsNoNode DEF Shape, Level, AllNodes, RED, BLACK
  <1>7. /\ e \in [AllNodes -> {RED, BLACK}] /\ e[p] = BLACK /\ e[n] = RED
        /\ \A m \in AllNodes : m # p /\ m # n => e[m] = c[m]
    BY <1>4, <1>6
  <1>8. /\ h[A[n]] + Weight(P, c, "insert", v, n, A[n]) = h[n]
        /\ h[p] + Weight(P, c, "insert", v, n, p) = h[n]
        /\ h[inner] + Weight(P, c, "insert", v, p, inner) = h[p]
        /\ h[v] + Weight(P, c, "insert", v, p, v) = h[p]
    BY <1>1, <1>2, <1>3 DEF Level
  <1>9. p # r /\ c[n] = BLACK
    BY <1>2, <1>4, <1>6 DEF Reds
  <1>10. v # r /\ P[v] = p /\ v # inner
    BY <1>1, <1>2, <1>3, <1>6, ChildOf
  <1>11. c[inner] = BLACK
    <2>1. inner # nil => P[inner] = p
      BY <1>1, <1>2, <1>3, <1>4, <1>6, ChildOf
    <2>2. inner \in U => c[inner] # RED
      BY <1>2, <1>6, <1>10, <2>1 DEF Reds
    <2>3. QED  BY <1>4, <1>6, <2>2
  <1>12. Level(C, E, Q, e, U, "insert", v, h)
    <2>1. ASSUME NEW l, NEW m \in AllNodes, m # p, m # n
          PROVE  Weight(Q, e, "insert", v, l, m) = Weight(P, c, "insert", v, l, m)
      BY <1>7, <2>1 DEF Weight
    <2>2. \A m \in U : m # n /\ m # p =>
               /\ A[m] # n => Weight(Q, e, "insert", v, m, A[m]) = Weight(P, c, "insert", v, m, A[m])
               /\ B[m] # n => Weight(Q, e, "insert", v, m, B[m]) = Weight(P, c, "insert", v, m, B[m])
      <3>1. ASSUME NEW m \in U, m # n, m # p
            PROVE  A[m] # p /\ B[m] # p /\ A[m] \in AllNodes /\ B[m] \in AllNodes
        <4>1. A[m] # p /\ B[m] # p
          BY <1>2, <1>4, <1>6, <3>1, ChildOf
        <4>2. QED  BY <1>2, <1>6, <4>1, NilIsNoNode DEF Shape, NodeAt, AllNodes
      <3>2. QED  BY <2>1, <3>1
    <2>3. h[p] + Weight(Q, e, "insert", v, P[n], p) = h[n] + Weight(P, c, "insert", v, P[n], n)
      BY <1>3, <1>6, <1>7, <1>8, <1>9, <1>4 DEF Weight
    <2>4. h[A[n]] + Weight(Q, e, "insert", v, n, A[n]) = h[n]
      BY <1>4, <1>6, <1>7, <1>8, NilIsNoNode DEF Weight, AllNodes
    <2>5. h[inner] + Weight(Q, e, "insert", v, n, inner) = h[n]
      BY <1>4, <1>6, <1>7, <1>8, NilIsNoNode DEF Weight, AllNodes
    <2>6. h[n] + Weight(Q, e, "insert", v, p, n) = h[p]
      BY <1>4, <1>6, <1>7, <1>8, NilIsNoNode DEF Weight, AllNodes
    <2>7. h[v] + Weight(Q, e, "insert", v, p, v) = h[p]
      BY <1>3, <1>4, <1>6, <1>7, <1>8, NilIsNoNode DEF Weight, AllNodes
    <2>8. e[nil] = BLACK
      BY <1>3, <1>6, <1>7, NilIsNoNode DEF AllNodes
    <2>0. \A m \in AllNodes \ U : m # nil => e[m] = RED
      BY <1>2, <1>7 DEF Level
    <2>9. Weighs(r, A, B, P, Q, U, c, e, "insert", v, v, n, p, inner, h, h)
      BY <2>0, <1>6, <1>7, <2>2, <2>3, <2>4, <2>5, <2>6, <2>7, <2>8 DEF Weighs
    <2>10. QED  BY <1>1, <1>2, <1>3, <2>9, RotatedLevel
  <1>13. Reds(s, Q, e, U, "insert", v)
    <2>1. ASSUME NEW m \in U, m # v, e[m] = RED
          PROVE  m # s /\ e[Q[m]] = BLACK
      <3>1. CASE m = n
        BY <1>4, <1>5, <1>7, <3>1
      <3>2. CASE m # n
        <4>1. m # p /\ c[m] = RED /\ m # inner
          BY <1>6, <1>7, <1>11, <2>1, <3>2
        <4>2. m # r /\ c[P[m]] = BLACK
          BY <1>2, <2>1, <4>1 DEF Reds
        <4>3. P[m] \in U /\ P[m] # p
          BY <1>2, <4>2, <1>6, <1>9, <1>3, ParentOf
        <4>4. P[m] # n
          <5>1. A[P[m]] = m \/ B[P[m]] = m
            BY <1>2, <4>2, ParentOf
          <5>2. QED  BY <1>6, <4>1, <5>1
        <4>5. QED  BY <1>5, <1>6, <1>7, <3>2, <4>1, <4>2, <4>3, <4>4
      <3>3. QED  BY <3>1, <3>2
    <2>2. QED  BY <2>1 DEF Reds
  <1>14. HeldNode(s, C, E, Q, e, U, "insert", v)
    BY <1>3, <1>4, <1>5, <1>6, <1>7 DEF HeldNode
  <1>15. Shape(s, C, E, Q, U, RotatedBelow(A, B, D, n)) /\ Ordered(C, E, U, RotatedBelow(A, B, D, n), R)
    BY <1>2, <1>3, RotatedShape, RotatedOrder
  <1>16. Sound(s, C, E, Q, e, U, RotatedBelow(A, B, D, n), R, h, "insert", v)
    BY <1>2, <1>12, <1>13, <1>14, <1>15 DEF Sound
  <1>17. QED  BY <1>16
\* DeleteFixup: the node v that is counted twice is p's child on side A, w its sibling.
Beside(r, A, B, P, c, U, v, p, w) ==
    /\ p \in U /\ A[p] = v /\ B[p] = w /\ v # r
    /\ v = nil => P[nil] = p

LEMMA Siblings ==
    ASSUME NEW r, NEW A, NEW B, NEW P, NEW c, NEW U, NEW D, NEW R, NEW h, NEW v,
           Sound(r, A, B, P, c, U, D, R, h, "delete", v),
           NEW p, NEW w, Beside(r, A, B, P, c, U, v, p, w)
    PROVE  /\ p \in U /\ w \in U \cup {nil} /\ v \in U \cup {nil} /\ w # v /\ p # v /\ p # w
           /\ U \subseteq AllNodes /\ nil \notin U /\ nil \in AllNodes
           /\ c[nil] = BLACK /\ RED # BLACK
           /\ c \in [AllNodes -> {RED, BLACK}] /\ h \in [AllNodes -> Nat] /\ h[nil] = 0
           /\ h[p] = h[v] + (IF c[v] = BLACK THEN 1 ELSE 0) + 1
           /\ h[p] = h[w] + (IF c[w] = BLACK THEN 1 ELSE 0)
           /\ c[v] = BLACK => w # nil
           /\ \A m \in U : A[m] = v \/ B[m] = v => m = p \/ v = nil
  <1>1. /\ Shape(r, A, B, P, U, D) /\ Level(A, B, P, c, U, "delete", v, h)
        /\ HeldNode(r, A, B, P, c, U, "delete", v)
    BY DEF Sound
  <1>2. p \in U /\ A[p] = v /\ B[p] = w /\ (v = nil => P[nil] = p) /\ v # r
    BY DEF Beside
  <1>3. NodeAt(A, B, P, U, D, p) /\ U \subseteq AllNodes /\ nil \notin U /\ nil \in AllNodes
    BY <1>1, <1>2, NilIsNoNode DEF Shape, AllNodes
  <1>4. w \in U \cup {nil} /\ v \in U \cup {nil}
    BY <1>2, <1>3 DEF NodeAt
  <1>5. p # v /\ p # w
    BY <1>1, <1>2, <1>3, ChildOf
  <1>6. w # v
    <2>1. CASE v = nil
      <3>1. r # nil
        BY <1>2, <2>1
      <3>2. QED  BY <1>1, <1>2, <2>1, <3>1 DEF HeldNode
    <2>2. CASE v # nil
      BY <1>1, <1>2, <1>3, <1>4, <2>2, ChildOf
    <2>3. QED  BY <2>1, <2>2
  <1>7. /\ c[nil] = BLACK /\ RED # BLACK
        /\ c \in [AllNodes -> {RED, BLACK}] /\ h \in [AllNodes -> Nat] /\ h[nil] = 0
    BY <1>1 DEF Level, RED, BLACK
  <1>8. /\ h[v] + Weight(P, c, "delete", v, p, v) = h[p]
        /\ h[w] + Weight(P, c, "delete", v, p, w) = h[p]
    BY <1>1, <1>2 DEF Level
  <1>9. /\ Weight(P, c, "delete", v, p, v) = (IF c[v] = BLACK THEN 1 ELSE 0) + 1
        /\ Weight(P, c, "delete", v, p, w) = (IF c[w] = BLACK THEN 1 ELSE 0)
    BY <1>2, <1>6 DEF Weight
  <1>10. h[v] \in Nat /\ h[w] \in Nat /\ h[p] \in Nat
    BY <1>2, <1>3, <1>4, <1>7
  <1>11. /\ h[p] = h[v] + (IF c[v] = BLACK THEN 1 ELSE 0) + 1
         /\ h[p] = h[w] + (IF c[w] = BLACK THEN 1 ELSE 0)
    BY <1>8, <1>9, <1>10
  <1>12. c[v] = BLACK => w # nil
    BY <1>7, <1>10, <1>11
  <1>13. \A m \in U : A[m] = v \/ B[m] = v => m = p \/ v = nil
    BY <1>1, <1>2, <1>3, <1>4, ChildOf
  <1>14. QED  BY <1>2, <1>3, <1>4, <1>5, <1>6, <1>7, <1>11, <1>12, <1>13

\* A red sibling goes above the parent: the new sibling is black.
RedSibling(r, A, B, P, c, U, D, R, h, v, p, w, e, s, C, E, Q) ==
    /\ Sound(r, A, B, P, c, U, D, R, h, "delete", v)
    /\ Beside(r, A, B, P, c, U, v, p, w) /\ c[w] = RED
    /\ e = [c EXCEPT ![w] = BLACK, ![p] = RED]
    /\ Rotated(r, A, B, P, p, s, C, E, Q)

LEMMA BlackSiblingTurned ==
    ASSUME NEW r, NEW A, NEW B, NEW P, NEW c, NEW U, NEW D, NEW R, NEW h, NEW v, NEW p, NEW w,
           NEW e, NEW s, NEW C, NEW E, NEW Q,
           RedSibling(r, A, B, P, c, U, D, R, h, v, p, w, e, s, C, E, Q)
    PROVE  /\ \E G : Sound(s, C, E, Q, e, U, G, R, h, "delete", v)
           /\ Beside(s, C, E, Q, e, U, v, p, A[w]) /\ e[A[w]] = BLACK
  <1>0. /\ Sound(r, A, B, P, c, U, D, R, h, "delete", v)
        /\ Beside(r, A, B, P, c, U, v, p, w) /\ c[w] = RED
        /\ e = [c EXCEPT ![w] = BLACK, ![p] = RED]
        /\ Rotated(r, A, B, P, p, s, C, E, Q)
    BY DEF RedSibling
  <1> USE <1>0
  <1>1. PICK inner : inner = A[w]
    OBVIOUS
  <1>2. /\ R \in {Le, Ge} /\ Shape(r, A, B, P, U, D) /\ Ordered(A, B, U, D, R)
        /\ Level(A, B, P, c, U, "delete", v, h) /\ Reds(r, P, c, U, "delete", v)
        /\ HeldNode(r, A, B, P, c, U, "delete", v)
    BY DEF Sound
  <1>3. /\ p \in U /\ w \in U \cup {nil} /\ v \in U \cup {nil} /\ w # v /\ p # v /\ p # w
        /\ U \subseteq AllNodes /\ nil \notin U /\ nil \in AllNodes
        /\ c[nil] = BLACK /\ RED # BLACK
        /\ c \in [AllNodes -> {RED, BLACK}] /\ h \in [AllNodes -> Nat] /\ h[nil] = 0
        /\ h[p] = h[v] + (IF c[v] = BLACK THEN 1 ELSE 0) + 1
        /\ h[p] = h[w] + (IF c[w] = BLACK THEN 1 ELSE 0)
        /\ \A m \in U : A[m] = v \/ B[m] = v => m = p \/ v = nil
    BY Siblings
  <1>4. A[p] = v /\ B[p] = w /\ (v = nil => P[nil] = p) /\ w \in U /\ w # nil /\ v # r
    BY <1>3 DEF Beside
  <1>5. /\ P[w] = p /\ w # r /\ inner \in U \cup {nil} /\ inner # p /\ inner # w
        /\ B[w] \in U \cup {nil} /\ B[w] # p /\ B[w] # w
    BY <1>1, <1>2, <1>3, <1>4, AboutRotation
  <1>6. /\ s = (IF p = r THEN w ELSE r) /\ s \in U
        /\ C[p] = A[p] /\ E[p] = inner
        /\ Q[p] = w /\ Q[w] = P[p] /\ (inner # nil => Q[inner] = p) /\ Q[nil] = P[nil]
        /\ \A m \in AllNodes : m # p /\ m # w /\ m # inner => Q[m] = P[m]
        /\ \A m \in U : m # p /\ m # w => A[m] # w /\ B[m] # w
    BY <1>1, <1>2, <1>3, <1>4, AfterRotation
  <1>7. /\ e \in [AllNodes -> {RED, BLACK}] /\ e[w] = BLACK /\ e[p] = RED
        /\ \A m \in AllNodes : m # p /\ m # w => e[m] = c[m]
    BY <1>3
  <1>8. c[p] = BLACK
    BY <1>2, <1>3, <1>4, <1>5 DEF Reds
  <1>9. inner # v \/ v = nil
    BY <1>1, <1>3, <1>4
  <1>10. c[inner] = BLACK
    <2>1. inner # nil => P[inner] = w
      BY <1>1, <1>2, <1>3, <1>4, <1>5, ChildOf
    <2>2. inner \in U => c[inner] # RED
      BY <1>2, <1>3, <1>4, <1>9, <2>1 DEF Reds
    <2>3. QED  BY <1>3, <1>5, <2>2
  <1>11. /\ h[inner] + Weight(P, c, "delete", v, w, inner) = h[w]
         /\ h[B[w]] + Weight(P, c, "delete", v, w, B[w]) = h[w]
         /\ h[v] + Weight(P, c, "delete", v, p, v) = h[p]
    BY <1>1, <1>2, <1>3, <1>4 DEF Level
  <1>12. h[inner] + 1 = h[w] /\ h[w] = h[p] /\ h[v] \in Nat /\ h[w] \in Nat /\ h[inner] \in Nat /\ h[p] \in Nat
    <2>1. Weight(P, c, "delete", v, w, inner) = 1
      BY <1>3, <1>4, <1>9, <1>10 DEF Weight
    <2>2. QED  BY <1>3, <1>4, <1>5, <1>11, <2>1
  <1>13. inner # v
    BY <1>3, <1>9, <1>12
  <1>14. Level(C, E, Q, e, U, "delete", v, h)
    <2>1. ASSUME NEW m \in U, m # p, m # w
          PROVE  /\ A[m] # p => Weight(Q, e, "delete", v, m, A[m]) = Weight(P, c, "delete", v, m, A[m])
                 /\ B[m] # p => Weight(Q, e, "delete", v, m, B[m]) = Weight(P, c, "delete", v, m, B[m])
      <3>1. A[m] \in AllNodes /\ B[m] \in AllNodes
        BY <1>2, <1>3 DEF Shape, NodeAt
      <3>2. A[m] # w /\ B[m] # w
        BY <1>6, <2>1
      <3>3. (A[m] # p => e[A[m]] = c[A[m]]) /\ (B[m] # p => e[B[m]] = c[B[m]])
        BY <1>7, <3>1, <3>2
      <3>4. QED  BY <1>6, <3>3 DEF Weight
    <2>2. h[w] + Weight(Q, e, "delete", v, P[p], w) = h[p] + Weight(P, c, "delete", v, P[p], p)
      BY <1>3, <1>7, <1>8, <1>12 DEF Weight
    <2>3. h[v] + Weight(Q, e, "delete", v, p, v) = h[p]
      <3>1. e[v] = c[v]
        BY <1>3, <1>7
      <3>2. QED  BY <1>6, <1>11, <3>1 DEF Weight
    <2>4. h[inner] + Weight(Q, e, "delete", v, p, inner) = h[p]
      <3>1. e[inner] = BLACK
        BY <1>3, <1>5, <1>7, <1>10
      <3>2. QED  BY <1>12, <1>13, <3>1 DEF Weight
    <2>5. h[p] + Weight(Q, e, "delete", v, w, p) = h[w]
      BY <1>3, <1>7, <1>12 DEF Weight
    <2>6. h[B[w]] + Weight(Q, e, "delete", v, w, B[w]) = h[w]
      <3>1. e[B[w]] = c[B[w]]
        BY <1>3, <1>5, <1>7
      <3>2. QED  BY <1>6, <1>11, <3>1 DEF Weight
    <2>7. e[nil] = BLACK
      BY <1>3, <1>4, <1>7
    <2>0. \A m \in AllNodes \ U : m # nil => e[m] = RED
      BY <1>2, <1>3, <1>4, <1>7 DEF Level
    <2>8. Weighs(r, A, B, P, Q, U, c, e, "delete", v, v, p, w, inner, h, h)
      BY <2>0, <1>3, <1>4, <1>7, <2>1, <2>2, <2>3, <2>4, <2>5, <2>6, <2>7 DEF Weighs
    <2>9. QED  BY <1>1, <1>2, <1>3, <1>4, <2>8, RotatedLevel
  <1>15. Reds(s, Q, e, U, "delete", v)
    <2>1. ASSUME NEW m \in U, m # v, e[m] = RED
          PROVE  m # s /\ (e[Q[m]] = BLACK \/ Q[m] = v)
      <3>1. CASE m = p
        BY <1>3, <1>6, <1>7, <3>1
      <3>2. CASE m # p
        <4>1. m # w /\ c[m] = RED /\ m # inner
          BY <1>3, <1>7, <1>10, <2>1, <3>2
        <4>2. m # r /\ (c[P[m]] = BLACK \/ P[m] = v)
          BY <1>2, <2>1, <4>1 DEF Reds
        <4>3. P[m] \in U /\ (A[P[m]] = m \/ B[P[m]] = m)
          BY <1>2, <4>2, ParentOf
        <4>4. P[m] # p
          BY <1>4, <2>1, <4>1, <4>3
        <4>5. e[P[m]] = BLACK \/ P[m] = v
          BY <1>3, <1>7, <4>2, <4>3, <4>4
        <4>6. Q[m] = P[m] /\ m # s
          BY <1>3, <1>6, <3>2, <4>1, <4>2
        <4>7. QED  BY <4>5, <4>6
      <3>3. QED  BY <3>1, <3>2
    <2>2. QED  BY <2>1 DEF Reds
  <1>16. HeldNode(s, C, E, Q, e, U, "delete", v)
    BY <1>3, <1>4, <1>6, <1>13 DEF HeldNode
  <1>17. Shape(s, C, E, Q, U, RotatedBelow(A, B, D, p)) /\ Ordered(C, E, U, RotatedBelow(A, B, D, p), R)
    BY <1>2, <1>3, <1>4, RotatedShape, RotatedOrder
  <1>18. Sound(s, C, E, Q, e, U, RotatedBelow(A, B, D, p), R, h, "delete", v)
    BY <1>2, <1>14, <1>15, <1>16, <1>17 DEF Sound
  <1>19. Beside(s, C, E, Q, e, U, v, p, inner) /\ e[inner] = BLACK
    BY <1>3, <1>4, <1>5, <1>6, <1>7, <1>10 DEF Beside
  <1>20. QED  BY <1>1, <1>18, <1>19
\* A red inner child of the black sibling u goes above it.  Here the fixup's node is
\* on side B, so that u, the sibling, goes down on side A.
RedInside(r, A, B, P, c, U, D, R, h, v, p, u, e, s, C, E, Q) ==
    /\ Sound(r, A, B, P, c, U, D, R, h, "delete", v)
    /\ Beside(r, B, A, P, c, U, v, p, u) /\ c[u] = BLACK /\ u # nil
    /\ c[A[u]] = BLACK /\ c[B[u]] = RED /\ B[u] # nil
    /\ e = [c EXCEPT ![B[u]] = BLACK, ![u] = RED]
    /\ Rotated(r, A, B, P, u, s, C, E, Q)

LEMMA RedOutsideTurned ==
    ASSUME NEW r, NEW A, NEW B, NEW P, NEW c, NEW U, NEW D, NEW R, NEW h, NEW v, NEW p, NEW u,
           NEW e, NEW s, NEW C, NEW E, NEW Q,
           RedInside(r, A, B, P, c, U, D, R, h, v, p, u, e, s, C, E, Q)
    PROVE  /\ \E G : Sound(s, C, E, Q, e, U, G, R, h, "delete", v)
           /\ Beside(s, E, C, Q, e, U, v, p, B[u]) /\ e[B[u]] = BLACK
           /\ C[B[u]] = u /\ e[u] = RED
  <1>0. /\ Sound(r, A, B, P, c, U, D, R, h, "delete", v)
        /\ Beside(r, B, A, P, c, U, v, p, u) /\ c[u] = BLACK /\ u # nil
        /\ c[A[u]] = BLACK /\ c[B[u]] = RED /\ B[u] # nil
        /\ e = [c EXCEPT ![B[u]] = BLACK, ![u] = RED]
        /\ Rotated(r, A, B, P, u, s, C, E, Q)
    BY DEF RedInside
  <1> USE <1>0
  <1>1. PICK w, inner : w = B[u] /\ inner = A[w]
    OBVIOUS
  <1>2. /\ R \in {Le, Ge} /\ Shape(r, A, B, P, U, D) /\ Ordered(A, B, U, D, R)
        /\ Level(A, B, P, c, U, "delete", v, h) /\ Reds(r, P, c, U, "delete", v)
        /\ HeldNode(r, A, B, P, c, U, "delete", v)
    BY DEF Sound
  <1>3. /\ p \in U /\ u \in U \cup {nil} /\ v \in U \cup {nil} /\ u # v /\ p # v /\ p # u
        /\ U \subseteq AllNodes /\ nil \notin U /\ nil \in AllNodes
        /\ c[nil] = BLACK /\ RED # BLACK
        /\ c \in [AllNodes -> {RED, BLACK}] /\ h \in [AllNodes -> Nat] /\ h[nil] = 0
        /\ \A m \in U : B[m] = v \/ A[m] = v => m = p \/ v = nil
    <2>1. Sound(r, B, A, P, c, U, D, Mirror(R), h, "delete", v)
      BY SoundSwap
    <2>2. QED  BY <2>1, Siblings
  <1>4. B[p] = v /\ A[p] = u /\ (v = nil => P[nil] = p) /\ u \in U /\ w # nil /\ v # r
    BY <1>1, <1>3 DEF Beside
  <1>5. /\ w \in U /\ w # u /\ P[w] = u /\ w # r /\ inner \in U \cup {nil} /\ inner # u /\ inner # w
        /\ A[u] \in U \cup {nil} /\ A[u] # w /\ A[u] # u
        /\ B[w] \in U \cup {nil} /\ B[w] # u /\ B[w] # w
    BY <1>1, <1>2, <1>3, <1>4, AboutRotation
  <1>6. /\ s = (IF u = r THEN w ELSE r) /\ s \in U
        /\ C[u] = A[u] /\ E[u] = inner /\ C[w] = u /\ E[w] = B[w]
        /\ Q[u] = w /\ Q[w] = P[u] /\ (inner # nil => Q[inner] = u) /\ Q[nil] = P[nil]
        /\ \A m \in AllNodes : m # u /\ m # w /\ m # inner => Q[m] = P[m]
        /\ \A m \in U : m # u /\ m # w => /\ C[m] = IF A[m] = u THEN w ELSE A[m]
                                          /\ E[m] = IF B[m] = u THEN w ELSE B[m]
                                          /\ A[m] # w /\ B[m] # w
    BY <1>1, <1>2, <1>3, <1>4, AfterRotation
  <1>7. /\ e \in [AllNodes -> {RED, BLACK}] /\ e[w] = BLACK /\ e[u] = RED
        /\ \A m \in AllNodes : m # u /\ m # w => e[m] = c[m]
    BY <1>1, <1>3, <1>4, <1>5
  <1>8. P[u] = p /\ u # r /\ w # v /\ p # w
    <2>1. P[u] = p /\ u # r
      BY <1>2, <1>3, <1>4, ChildOf
    <2>2. w # v
      BY <1>1, <1>3, <1>4
    <2>3. p # w
      BY <1>2, <1>4, <2>1, <1>3, <1>5, <1>1, AboutRotation
    <2>4. QED  BY <2>1, <2>2, <2>3
  <1>9. inner # v \/ v = nil
    BY <1>1, <1>3, <1>4, <1>5, <1>8
  <1>10. c[inner] = BLACK
    <2>1. inner # nil => P[inner] = w
      BY <1>1, <1>2, <1>3, <1>4, <1>5, ChildOf
    <2>2. inner \in U => c[inner] # RED
      BY <1>1, <1>2, <1>3, <1>8, <1>9, <2>1 DEF Reds
    <2>3. QED  BY <1>3, <1>5, <2>2
  <1>11. /\ h[A[u]] + Weight(P, c, "delete", v, u, A[u]) = h[u]
         /\ h[w] + Weight(P, c, "delete", v, u, w) = h[u]
         /\ h[inner] + Weight(P, c, "delete", v, w, inner) = h[w]
         /\ h[B[w]] + Weight(P, c, "delete", v, w, B[w]) = h[w]
    BY <1>1, <1>2, <1>4, <1>5 DEF Level
  <1>12. h[w] = h[u] /\ h[u] \in Nat /\ h[inner] \in Nat
    <2>1. Weight(P, c, "delete", v, u, w) = 0
      BY <1>1, <1>3, <1>8 DEF Weight
    <2>2. QED  BY <1>3, <1>4, <1>5, <1>11, <2>1
  <1>13. Level(C, E, Q, e, U, "delete", v, h)
    <2>1. ASSUME NEW m \in U, m # u, m # w
          PROVE  /\ A[m] # u => Weight(Q, e, "delete", v, m, A[m]) = Weight(P, c, "delete", v, m, A[m])
                 /\ B[m] # u => Weight(Q, e, "delete", v, m, B[m]) = Weight(P, c, "delete", v, m, B[m])
      <3>1. A[m] \in AllNodes /\ B[m] \in AllNodes
        BY <1>2, <1>3 DEF Shape, NodeAt
      <3>2. A[m] # w /\ B[m] # w
        BY <1>6, <2>1
      <3>3. (A[m] # u => e[A[m]] = c[A[m]]) /\ (B[m] # u => e[B[m]] = c[B[m]])
        BY <1>7, <3>1, <3>2
      <3>4. QED  BY <1>6, <3>3 DEF Weight
    <2>2. h[w] + Weight(Q, e, "delete", v, P[u], w) = h[u] + Weight(P, c, "delete", v, P[u], u)
      BY <1>3, <1>7, <1>8, <1>12 DEF Weight
    <2>3. h[A[u]] + Weight(Q, e, "delete", v, u, A[u]) = h[u]
      <3>1. e[A[u]] = c[A[u]]
        BY <1>3, <1>5, <1>7
      <3>2. QED  BY <1>6, <1>11, <3>1 DEF Weight
    <2>4. h[inner] + Weight(Q, e, "delete", v, u, inner) = h[u]
      <3>1. e[inner] = c[inner]
        BY <1>3, <1>5, <1>7
      <3>2. (u # P[nil] /\ w # P[nil]) \/ v # nil
        BY <1>3, <1>4, <1>8
      <3>3. Weight(Q, e, "delete", v, u, inner) = Weight(P, c, "delete", v, w, inner)
        BY <1>6, <1>9, <3>1, <3>2 DEF Weight
      <3>4. QED  BY <1>11, <1>12, <3>3
    <2>5. h[u] + Weight(Q, e, "delete", v, w, u) = h[w]
      BY <1>3, <1>7, <1>12 DEF Weight
    <2>6. h[B[w]] + Weight(Q, e, "delete", v, w, B[w]) = h[w]
      <3>1. e[B[w]] = c[B[w]]
        BY <1>3, <1>5, <1>7
      <3>2. QED  BY <1>6, <1>11, <3>1 DEF Weight
    <2>7. e[nil] = BLACK
      BY <1>3, <1>4, <1>5, <1>7
    <2>0. \A m \in AllNodes \ U : m # nil => e[m] = RED
      BY <1>2, <1>4, <1>5, <1>7 DEF Level
    <2>8. Weighs(r, A, B, P, Q, U, c, e, "delete", v, v, u, w, inner, h, h)
      BY <2>0, <1>3, <1>4, <1>7, <2>1, <2>2, <2>3, <2>4, <2>5, <2>6, <2>7 DEF Weighs
    <2>9. QED  BY <1>1, <1>2, <1>3, <1>4, <2>8, RotatedLevel
  <1>14. Reds(s, Q, e, U, "delete", v)
    <2>1. ASSUME NEW m \in U, m # v, e[m] = RED
          PROVE  m # s /\ (e[Q[m]] = BLACK \/ Q[m] = v)
      <3>1. CASE m = u
        BY <1>3, <1>6, <1>7, <1>8, <3>1
      <3>2. CASE m # u
        <4>1. m # w /\ c[m] = RED /\ m # inner
          BY <1>3, <1>7, <1>10, <2>1, <3>2
        <4>2. m # r /\ (c[P[m]] = BLACK \/ P[m] = v)
          BY <1>2, <2>1, <4>1 DEF Reds
        <4>3. P[m] \in U /\ (A[P[m]] = m \/ B[P[m]] = m)
          BY <1>2, <4>2, ParentOf
        <4>4. P[m] # u
          BY <1>1, <1>3, <4>1, <4>3
        <4>5. e[P[m]] = BLACK \/ P[m] = v
          BY <1>3, <1>7, <4>2, <4>3, <4>4
        <4>6. Q[m] = P[m] /\ m # s
          BY <1>3, <1>6, <1>8, <3>2, <4>1, <4>2
        <4>7. QED  BY <4>5, <4>6
      <3>3. QED  BY <3>1, <3>2
    <2>2. QED  BY <2>1 DEF Reds
  <1>15. C[p] = w /\ E[p] = v
    BY <1>3, <1>4, <1>6, <1>8
  <1>16. HeldNode(s, C, E, Q, e, U, "delete", v)
    BY <1>3, <1>4, <1>6, <1>15, <1>8 DEF HeldNode
  <1>17. Shape(s, C, E, Q, U, RotatedBelow(A, B, D, u)) /\ Ordered(C, E, U, RotatedBelow(A, B, D, u), R)
    BY <1>1, <1>2, <1>3, <1>4, RotatedShape, RotatedOrder
  <1>18. Sound(s, C, E, Q, e, U, RotatedBelow(A, B, D, u), R, h, "delete", v)
    BY <1>2, <1>13, <1>14, <1>16, <1>17 DEF Sound
  <1>19. Beside(s, E, C, Q, e, U, v, p, w) /\ e[w] = BLACK
    BY <1>3, <1>4, <1>5, <1>6, <1>7, <1>8, <1>15 DEF Beside
  <1>20. QED  BY <1>1, <1>6, <1>7, <1>18, <1>19

\* The rotation that mends the tree: the outer child of the black sibling is red.
RedFar(r, A, B, P, c, U, D, R, h, v, p, w, far, e, s, C, E, Q) ==
    /\ Sound(r, A, B, P, c, U, D, R, h, "delete", v) /\ c[v] = BLACK
    /\ Beside(r, A, B, P, c, U, v, p, w) /\ c[w] = BLACK
    /\ far = B[w] /\ c[far] = RED /\ far # nil
    /\ e = [c EXCEPT ![w] = c[p], ![p] = BLACK, ![far] = BLACK]
    /\ Rotated(r, A, B, P, p, s, C, E, Q)

LEMMA MendingTurned ==
    ASSUME NEW r, NEW A, NEW B, NEW P, NEW c, NEW U, NEW D, NEW R, NEW h, NEW v, NEW p, NEW w, NEW far,
           NEW e, NEW s, NEW C, NEW E, NEW Q,
           RedFar(r, A, B, P, c, U, D, R, h, v, p, w, far, e, s, C, E, Q)
    PROVE  \E G, g : Sound(s, C, E, Q, e, U, G, R, g, "delete", s)
  <1>0. /\ Sound(r, A, B, P, c, U, D, R, h, "delete", v) /\ c[v] = BLACK
        /\ Beside(r, A, B, P, c, U, v, p, w) /\ c[w] = BLACK
        /\ far = B[w] /\ c[far] = RED /\ far # nil
        /\ e = [c EXCEPT ![w] = c[p], ![p] = BLACK, ![far] = BLACK]
        /\ Rotated(r, A, B, P, p, s, C, E, Q)
    BY DEF RedFar
  <1> USE <1>0
  <1>1. PICK inner : inner = A[w]
    OBVIOUS
  <1>2. /\ R \in {Le, Ge} /\ Shape(r, A, B, P, U, D) /\ Ordered(A, B, U, D, R)
        /\ Level(A, B, P, c, U, "delete", v, h) /\ Reds(r, P, c, U, "delete", v)
        /\ HeldNode(r, A, B, P, c, U, "delete", v)
    BY DEF Sound
  <1>3. /\ p \in U /\ w \in U \cup {nil} /\ v \in U \cup {nil} /\ w # v /\ p # v /\ p # w
        /\ U \subseteq AllNodes /\ nil \notin U /\ nil \in AllNodes
        /\ c[nil] = BLACK /\ RED # BLACK
        /\ c \in [AllNodes -> {RED, BLACK}] /\ h \in [AllNodes -> Nat] /\ h[nil] = 0
        /\ h[p] = h[v] + 2 /\ h[p] = h[w] + 1
        /\ w # nil
        /\ \A m \in U : A[m] = v \/ B[m] = v => m = p \/ v = nil
    <2>1. /\ h[p] = h[v] + (IF c[v] = BLACK THEN 1 ELSE 0) + 1
          /\ h[p] = h[w] + (IF c[w] = BLACK THEN 1 ELSE 0)
          /\ v \in AllNodes /\ h[v] \in Nat /\ (c[v] = BLACK => w # nil)
      BY Siblings
    <2>2. h[p] = h[v] + 2 /\ h[p] = h[w] + 1 /\ w # nil
      BY <2>1
    <2>3. QED  BY <2>2, Siblings
  <1>4. A[p] = v /\ B[p] = w /\ (v = nil => P[nil] = p) /\ w \in U /\ v # r
    BY <1>3 DEF Beside
  <1>5. /\ P[w] = p /\ w # r /\ inner \in U \cup {nil} /\ inner # p /\ inner # w
        /\ far \in U /\ far # p /\ far # w
        /\ P[p] \in U \cup {nil} /\ P[p] # p /\ P[p] # w /\ (P[p] = nil <=> p = r)
    BY <1>1, <1>2, <1>3, <1>4, AboutRotation
  <1>6. /\ s = (IF p = r THEN w ELSE r) /\ s \in U
        /\ Q[p] = w /\ Q[w] = P[p] /\ (inner # nil => Q[inner] = p) /\ Q[nil] = P[nil]
        /\ \A m \in AllNodes : m # p /\ m # w /\ m # inner => Q[m] = P[m]
        /\ \A m \in U : m # p /\ m # w => A[m] # w /\ B[m] # w
    BY <1>1, <1>2, <1>3, <1>4, AfterRotation
  <1>7. far # inner /\ far # v /\ far # r /\ (inner # v \/ v = nil)
    BY <1>1, <1>2, <1>3, <1>4, <1>5, ChildOf
  <1>8. /\ e \in [AllNodes -> {RED, BLACK}] /\ e[w] = c[p] /\ e[p] = BLACK /\ e[far] = BLACK
        /\ \A m \in AllNodes : m # p /\ m # w /\ m # far => e[m] = c[m]
    BY <1>3, <1>4, <1>5
  <1>9. PICK g : g = [h EXCEPT ![p] = h[p] - 1, ![w] = h[p]]
    OBVIOUS
  <1>10. /\ g \in [AllNodes -> Nat] /\ g[p] = h[p] - 1 /\ g[w] = h[p]
         /\ \A m \in AllNodes : m # p /\ m # w => g[m] = h[m]
    <2>1. h[v] \in Nat /\ h[p] \in Nat /\ h[p] - 1 \in Nat
      BY <1>3
    <2>2. QED  BY <1>3, <1>4, <1>9, <2>1
  <1>11. /\ h[inner] + Weight(P, c, "delete", v, w, inner) = h[w]
         /\ h[far] + Weight(P, c, "delete", v, w, far) = h[w]
         /\ h[v] \in Nat /\ h[w] \in Nat /\ h[inner] \in Nat /\ h[p] \in Nat /\ h[far] \in Nat
    BY <1>1, <1>2, <1>3, <1>4, <1>5 DEF Level
  <1>12. Level(C, E, Q, e, U, "delete", s, g)
    <2>1. ASSUME NEW m \in U, m # p, m # w
          PROVE  /\ A[m] # p => Weight(Q, e, "delete", s, m, A[m]) = Weight(P, c, "delete", v, m, A[m])
                 /\ B[m] # p => Weight(Q, e, "delete", s, m, B[m]) = Weight(P, c, "delete", v, m, B[m])
      <3>1. A[m] \in AllNodes /\ B[m] \in AllNodes
        BY <1>2, <1>3 DEF Shape, NodeAt
      <3>2. A[m] # w /\ B[m] # w /\ A[m] # far /\ B[m] # far
        BY <1>2, <1>3, <1>5, <1>6, <2>1, ChildOf
      <3>3. (A[m] # p => e[A[m]] = c[A[m]]) /\ (B[m] # p => e[B[m]] = c[B[m]])
        BY <1>8, <3>1, <3>2
      <3>4. A[m] # r /\ B[m] # r /\ A[m] # s /\ B[m] # s
        <4>1. r \in U
          BY <1>2, <1>3 DEF Shape
        <4>2. A[m] # r /\ B[m] # r
          BY <1>2, <1>3, <4>1, ChildOf
        <4>3. QED  BY <1>6, <3>2, <4>2
      <3>5. /\ ~ (A[m] = v /\ (A[m] # nil \/ m = P[nil]))
            /\ ~ (B[m] = v /\ (B[m] # nil \/ m = P[nil]))
        BY <1>3, <1>4, <2>1
      <3>6. QED  BY <3>3, <3>4, <3>5 DEF Weight
    <2>2. p # r => g[w] + Weight(Q, e, "delete", s, P[p], w) = h[p] + Weight(P, c, "delete", v, P[p], p)
      BY <1>3, <1>5, <1>6, <1>8, <1>10 DEF Weight
    <2>3. g[v] + Weight(Q, e, "delete", s, p, v) = g[p]
      <3>1. v # s /\ v # far /\ e[v] = BLACK /\ g[v] = h[v]
        BY <1>3, <1>4, <1>6, <1>7, <1>8, <1>10
      <3>2. QED  BY <1>3, <1>10, <1>11, <3>1 DEF Weight
    <2>4. g[inner] + Weight(Q, e, "delete", s, p, inner) = g[p]
      <3>1. e[inner] = c[inner] /\ g[inner] = h[inner]
        BY <1>3, <1>5, <1>7, <1>8, <1>10
      <3>2. inner # s
        <4>1. r \in U
          BY <1>2, <1>3 DEF Shape
        <4>2. QED  BY <1>1, <1>2, <1>3, <1>4, <1>5, <1>6, <4>1, ChildOf
      <3>3. ~ (inner = v /\ (inner # nil \/ w = P[nil]))
        BY <1>3, <1>4, <1>7
      <3>4. Weight(Q, e, "delete", s, p, inner) = Weight(P, c, "delete", v, w, inner)
        BY <3>1, <3>2, <3>3 DEF Weight
      <3>5. QED  BY <1>3, <1>10, <1>11, <3>1, <3>4
    <2>5. g[p] + Weight(Q, e, "delete", s, w, p) = g[w]
      <3>1. p # s
        BY <1>3, <1>6
      <3>2. Weight(Q, e, "delete", s, w, p) = 1
        BY <1>8, <3>1 DEF Weight
      <3>3. QED  BY <1>10, <1>11, <3>2
    <2>6. g[far] + Weight(Q, e, "delete", s, w, far) = g[w]
      <3>1. far # s
        BY <1>5, <1>6, <1>7
      <3>2. Weight(Q, e, "delete", s, w, far) = 1 /\ Weight(P, c, "delete", v, w, far) = 0
        BY <1>3, <1>7, <1>8, <3>1 DEF Weight
      <3>3. g[far] = h[far]
        BY <1>3, <1>5, <1>10
      <3>4. QED  BY <1>3, <1>10, <1>11, <3>2, <3>3
    <2>7. e[nil] = BLACK
      BY <1>3, <1>4, <1>5, <1>8
    <2>0. \A m \in AllNodes \ U : m # nil => e[m] = RED
      BY <1>2, <1>3, <1>4, <1>5, <1>8 DEF Level
    <2>8. Weighs(r, A, B, P, Q, U, c, e, "delete", v, s, p, w, inner, h, g)
      BY <2>0, <1>3, <1>4, <1>8, <1>10, <2>1, <2>2, <2>3, <2>4, <2>5, <2>6, <2>7 DEF Weighs
    <2>9. QED  BY <1>1, <1>2, <1>3, <1>4, <2>8, RotatedLevel
  <1>13. Reds(s, Q, e, U, "delete", s)
    <2>1. ASSUME NEW m \in U, m # s, e[m] = RED
          PROVE  e[Q[m]] = BLACK
      <3>1. CASE m = w
        <4>1. c[p] = RED
          BY <1>8, <2>1, <3>1
        <4>2. c[P[p]] = BLACK \/ P[p] = v
          BY <1>2, <1>3, <4>1 DEF Reds
        <4>3. c[P[p]] = BLACK
          BY <4>2
        <4>4. p # r
          BY <1>6, <2>1, <3>1
        <4>5. P[p] \in AllNodes /\ P[p] # p /\ P[p] # w
          BY <1>3, <1>5
        <4>6. e[P[p]] = BLACK
          BY <1>8, <4>3, <4>5
        <4>7. QED  BY <1>6, <3>1, <4>6
      <3>2. CASE m # w
        <4>1. m # p /\ m # far /\ c[m] = RED /\ m # v
          BY <1>3, <1>8, <2>1, <3>2
        <4>2. m # r /\ c[P[m]] = BLACK
          BY <1>2, <2>1, <4>1 DEF Reds
        <4>3. m = inner => Q[m] = p
          BY <1>3, <1>6, <2>1
        <4>4. m # inner => Q[m] = P[m]
          BY <1>3, <1>6, <3>2, <4>1
        <4>5. P[m] \in U /\ (A[P[m]] = m \/ B[P[m]] = m)
          BY <1>2, <4>2, ParentOf
        <4>6. m # inner => P[m] # w
          BY <1>1, <4>1, <4>5
        <4>7. m # inner => e[P[m]] = BLACK
          BY <1>3, <1>8, <4>2, <4>5, <4>6
        <4>8. QED  BY <1>8, <4>3, <4>4, <4>7
      <3>3. QED  BY <3>1, <3>2
    <2>2. QED  BY <2>1 DEF Reds
  <1>14. HeldNode(s, C, E, Q, e, U, "delete", s)
    BY <1>3, <1>6 DEF HeldNode
  <1>15. Shape(s, C, E, Q, U, RotatedBelow(A, B, D, p)) /\ Ordered(C, E, U, RotatedBelow(A, B, D, p), R)
    BY <1>2, <1>3, <1>4, RotatedShape, RotatedOrder
  <1>16. Sound(s, C, E, Q, e, U, RotatedBelow(A, B, D, p), R, g, "delete", s)
    BY <1>2, <1>12, <1>13, <1>14, <1>15 DEF Sound
  <1>17. QED  BY <1>16
\* InsertFixup with a red uncle y.
LEMMA UncleRecolored ==
    ASSUME NEW r, NEW A, NEW B, NEW P, NEW c, NEW U, NEW D, NEW R, NEW h, NEW v,
           Sound(r, A, B, P, c, U, D, R, h, "insert", v),
           NEW n \in U, NEW p \in U, NEW y, B[n] = p, A[n] = y, P[v] = p, c[p] = RED, c[y] = RED,
           NEW e, e = [c EXCEPT ![p] = BLACK, ![y] = BLACK, ![n] = RED]
    PROVE  \E g : Sound(r, A, B, P, e, U, D, R, g, "insert", n)
  <1>1. /\ R \in {Le, Ge} /\ Shape(r, A, B, P, U, D) /\ Ordered(A, B, U, D, R)
        /\ Level(A, B, P, c, U, "insert", v, h) /\ Reds(r, P, c, U, "insert", v)
        /\ HeldNode(r, A, B, P, c, U, "insert", v)
    BY DEF Sound
  <1>2. /\ U \subseteq AllNodes /\ nil \notin U /\ nil \in AllNodes /\ c[nil] = BLACK /\ RED # BLACK
        /\ c \in [AllNodes -> {RED, BLACK}] /\ h \in [AllNodes -> Nat] /\ h[nil] = 0
        /\ v \in U /\ c[v] = RED /\ r \in U
        /\ \A m \in U : A[m] \in AllNodes /\ B[m] \in AllNodes
    BY <1>1, NilIsNoNode DEF Shape, NodeAt, Level, AllNodes, RED, BLACK, HeldNode
  <1>3. y \in U
    BY <1>1, <1>2 DEF Shape, NodeAt
  <1>4. P[p] = n /\ P[y] = n /\ p # n /\ y # n /\ p # y /\ p # r /\ y # r
    BY <1>1, <1>2, <1>3, ChildOf
  <1>5. v # r
    BY <1>1, <1>2 DEF Shape
  <1>6. p # v
    BY <1>1, <1>2, <1>4, <1>5, ParentOf, ChildOf
  <1>7. c[n] = BLACK
    BY <1>1, <1>2, <1>4, <1>6 DEF Reds
  <1>8. /\ e \in [AllNodes -> {RED, BLACK}] /\ e[p] = BLACK /\ e[y] = BLACK /\ e[n] = RED /\ e[nil] = BLACK
        /\ \A m \in AllNodes : m # p /\ m # y /\ m # n => e[m] = c[m]
    BY <1>2, <1>3, <1>4
  <1>9. PICK g : g = [h EXCEPT ![n] = h[n] + 1]
    OBVIOUS
  <1>10. /\ g \in [AllNodes -> Nat] /\ g[nil] = 0 /\ g[n] = h[n] + 1 /\ h[n] \in Nat
         /\ \A m \in AllNodes : m # n => g[m] = h[m]
    <2>1. h[n] \in Nat /\ h[n] + 1 \in Nat
      BY <1>2
    <2>2. QED  BY <1>2, <1>9, <2>1
  <1>11. Level(A, B, P, e, U, "insert", n, g)
    <2>1. ASSUME NEW m \in U, NEW l \in {A[m], B[m]}, m # n
          PROVE  g[l] + Weight(P, e, "insert", n, m, l) = g[m]
      <3>1. h[l] + Weight(P, c, "insert", v, m, l) = h[m]
        BY <1>1, <2>1 DEF Level
      <3>2. l \in AllNodes /\ l # p /\ l # y
        BY <1>1, <1>2, <1>3, <1>4, <2>1, ChildOf
      <3>3. CASE l = n
        BY <1>2, <1>7, <1>8, <1>10, <2>1, <3>1, <3>3 DEF Weight
      <3>4. CASE l # n
        BY <1>2, <1>8, <1>10, <2>1, <3>1, <3>2, <3>4 DEF Weight
      <3>5. QED  BY <3>3, <3>4
    <2>2. g[p] + Weight(P, e, "insert", n, n, p) = g[n] /\ g[y] + Weight(P, e, "insert", n, n, y) = g[n]
      <3>1. h[p] + Weight(P, c, "insert", v, n, p) = h[n] /\ h[y] + Weight(P, c, "insert", v, n, y) = h[n]
        BY <1>1 DEF Level
      <3>2. h[p] \in Nat /\ h[y] \in Nat /\ g[p] = h[p] /\ g[y] = h[y]
        BY <1>2, <1>3, <1>4, <1>10
      <3>3. QED  BY <1>2, <1>8, <1>10, <3>1, <3>2 DEF Weight
    <2>0. \A m \in AllNodes \ U : m # nil => e[m] = RED
      BY <1>1, <1>2, <1>3, <1>8 DEF Level
    <2>3. QED  BY <2>0, <1>8, <1>10, <2>1, <2>2 DEF Level
  <1>12. Reds(r, P, e, U, "insert", n)
    <2>1. ASSUME NEW m \in U, m # n, e[m] = RED
          PROVE  m # r /\ e[P[m]] = BLACK
      <3>1. m # p /\ m # y /\ c[m] = RED
        BY <1>2, <1>8, <2>1
      <3>2. CASE m = v
        BY <1>5, <1>8, <3>2
      <3>3. CASE m # v
        <4>1. m # r /\ c[P[m]] = BLACK
          BY <1>1, <3>1, <3>3 DEF Reds
        <4>2. P[m] \in U /\ P[m] # n
          BY <1>1, <3>1, <4>1, ParentOf
        <4>3. QED  BY <1>2, <1>8, <4>1, <4>2
      <3>4. QED  BY <3>2, <3>3
    <2>2. QED  BY <2>1 DEF Reds
  <1>13. HeldNode(r, A, B, P, e, U, "insert", n)
    BY <1>2, <1>8 DEF HeldNode
  <1>14. Sound(r, A, B, P, e, U, D, R, g, "insert", n)
    BY <1>1, <1>11, <1>12, <1>13 DEF Sound
  <1>15. QED  BY <1>14

\* DeleteFixup with a black sibling whose children are black.
LEMMA SiblingRecolored ==
    ASSUME NEW r, NEW A, NEW B, NEW P, NEW c, NEW U, NEW D, NEW R, NEW h, NEW v,
           Sound(r, A, B, P, c, U, D, R, h, "delete", v), c[v] = BLACK,
           NEW p, NEW w, Beside(r, A, B, P, c, U, v, p, w), c[w] = BLACK,
           c[A[w]] = BLACK, c[B[w]] = BLACK,
           NEW e, e = [c EXCEPT ![w] = RED]
    PROVE  \E g : Sound(r, A, B, P, e, U, D, R, g, "delete", p)
  <1>1. /\ R \in {Le, Ge} /\ Shape(r, A, B, P, U, D) /\ Ordered(A, B, U, D, R)
        /\ Level(A, B, P, c, U, "delete", v, h) /\ Reds(r, P, c, U, "delete", v)
        /\ HeldNode(r, A, B, P, c, U, "delete", v)
    BY DEF Sound
  <1>2. /\ p \in U /\ w \in U \cup {nil} /\ v \in U \cup {nil} /\ w # v /\ p # v /\ p # w
        /\ U \subseteq AllNodes /\ nil \notin U /\ nil \in AllNodes
        /\ c[nil] = BLACK /\ RED # BLACK
        /\ c \in [AllNodes -> {RED, BLACK}] /\ h \in [AllNodes -> Nat] /\ h[nil] = 0
        /\ h[p] = h[v] + 2 /\ h[p] = h[w] + 1
        /\ w # nil
        /\ \A m \in U : A[m] = v \/ B[m] = v => m = p \/ v = nil
    <2>1. /\ h[p] = h[v] + (IF c[v] = BLACK THEN 1 ELSE 0) + 1
          /\ h[p] = h[w] + (IF c[w] = BLACK THEN 1 ELSE 0)
          /\ v \in AllNodes /\ h[v] \in Nat /\ (c[v] = BLACK => w # nil)
      BY Siblings
    <2>2. h[p] = h[v] + 2 /\ h[p] = h[w] + 1 /\ w # nil
      BY <2>1
    <2>3. QED  BY <2>2, Siblings
  <1>3. A[p] = v /\ B[p] = w /\ (v = nil => P[nil] = p) /\ w \in U /\ v # r
    BY <1>2 DEF Beside
  <1>4. P[w] = p /\ w # r
    BY <1>1, <1>2, <1>3, ChildOf
  <1>5. /\ e \in [AllNodes -> {RED, BLACK}] /\ e[w] = RED
        /\ \A m \in AllNodes : m # w => e[m] = c[m]
    BY <1>2
  <1>6. PICK g : g = [h EXCEPT ![p] = h[p] - 1]
    OBVIOUS
  <1>7. /\ g \in [AllNodes -> Nat] /\ g[p] = h[p] - 1 /\ g[nil] = 0
        /\ h[v] \in Nat /\ h[w] \in Nat /\ h[p] \in Nat
        /\ \A m \in AllNodes : m # p => g[m] = h[m]
    <2>1. h[v] \in Nat /\ h[p] \in Nat /\ h[p] - 1 \in Nat /\ h[w] \in Nat
      BY <1>2
    <2>2. QED  BY <1>2, <1>6, <2>1
  <1>8. Level(A, B, P, e, U, "delete", p, g)
    <2>1. ASSUME NEW m \in U, NEW l \in {A[m], B[m]}, m # p
          PROVE  g[l] + Weight(P, e, "delete", p, m, l) = g[m]
      <3>1. h[l] + Weight(P, c, "delete", v, m, l) = h[m]
        BY <1>1, <2>1 DEF Level
      <3>2. l \in AllNodes /\ l # w
        <4>1. NodeAt(A, B, P, U, D, m)
          BY <1>1 DEF Shape
        <4>2. l \in AllNodes
          BY <1>2, <4>1 DEF NodeAt
        <4>3. l # w
          BY <1>1, <1>2, <1>3, <1>4, <2>1, ChildOf
        <4>4. QED  BY <4>2, <4>3
      <3>3. ~ (l = v /\ (l # nil \/ m = P[nil]))
        BY <1>2, <1>3, <2>1
      <3>4. CASE l = p
        BY <1>2, <1>5, <1>7, <2>1, <3>1, <3>2, <3>3, <3>4 DEF Weight
      <3>5. CASE l # p
        BY <1>2, <1>5, <1>7, <2>1, <3>1, <3>2, <3>3, <3>5 DEF Weight
      <3>6. QED  BY <3>4, <3>5
    <2>2. g[v] + Weight(P, e, "delete", p, p, v) = g[p] /\ g[w] + Weight(P, e, "delete", p, p, w) = g[p]
      <3>1. g[v] = h[v] /\ g[w] = h[w] /\ e[v] = BLACK /\ e[w] = RED
        BY <1>2, <1>5, <1>7
      <3>2. QED  BY <1>2, <1>7, <3>1 DEF Weight
    <2>3. e[nil] = BLACK
      BY <1>2, <1>5
    <2>4. \A m \in U : /\ g[A[m]] + Weight(P, e, "delete", p, m, A[m]) = g[m]
                       /\ g[B[m]] + Weight(P, e, "delete", p, m, B[m]) = g[m]
      BY <1>3, <2>1, <2>2
    <2>0. \A m \in AllNodes \ U : m # nil => e[m] = RED
      BY <1>1, <1>2, <1>3, <1>5 DEF Level
    <2>5. QED  BY <2>0, <1>5, <1>7, <2>3, <2>4 DEF Level
  <1>9. Reds(r, P, e, U, "delete", p)
    <2>1. ASSUME NEW m \in U, m # p, e[m] = RED
          PROVE  m # r /\ (e[P[m]] = BLACK \/ P[m] = p)
      <3>1. CASE m = w
        BY <1>4, <3>1
      <3>2. CASE m # w
        <4>1. c[m] = RED /\ m # v
          BY <1>2, <1>5, <2>1, <3>2
        <4>2. m # r /\ c[P[m]] = BLACK
          BY <1>1, <1>2, <4>1 DEF Reds
        <4>3. P[m] \in U /\ (A[P[m]] = m \/ B[P[m]] = m)
          BY <1>1, <4>2, ParentOf
        <4>4. P[m] # w
          BY <1>2, <4>1, <4>3
        <4>5. QED  BY <1>2, <1>5, <4>2, <4>3, <4>4
      <3>3. QED  BY <3>1, <3>2
    <2>2. QED  BY <2>1 DEF Reds
  <1>10. HeldNode(r, A, B, P, e, U, "delete", p)
    <2>1. r # nil
      BY <1>1, <1>2 DEF Shape
    <2>2. QED  BY <1>2, <2>1 DEF HeldNode
  <1>11. Sound(r, A, B, P, e, U, D, R, g, "delete", p)
    BY <1>1, <1>8, <1>9, <1>10 DEF Sound
  <1>12. QED  BY <1>11

LEMMA InsertEnded ==
    ASSUME NEW r, NEW A, NEW B, NEW P, NEW c, NEW U, NEW D, NEW R, NEW h, NEW v,
           Sound(r, A, B, P, c, U, D, R, h, "insert", v), c[P[v]] # RED,
           NEW e, e = [c EXCEPT ![r] = BLACK]
    PROVE  Sound(r, A, B, P, e, U, D, R, h, "idle", nullptr)
  <1>1. /\ R \in {Le, Ge} /\ Shape(r, A, B, P, U, D) /\ Ordered(A, B, U, D, R)
        /\ Level(A, B, P, c, U, "insert", v, h) /\ Reds(r, P, c, U, "insert", v)
        /\ HeldNode(r, A, B, P, c, U, "insert", v)
    BY DEF Sound
  <1>2. /\ U \subseteq AllNodes /\ nil \notin U /\ nil \in AllNodes /\ c[nil] = BLACK /\ RED # BLACK
        /\ c \in [AllNodes -> {RED, BLACK}] /\ v \in U /\ r \in U
        /\ \A m \in U : A[m] \in AllNodes /\ B[m] \in AllNodes
    BY <1>1, NilIsNoNode DEF Shape, NodeAt, Level, AllNodes, RED, BLACK, HeldNode
  <1>3. /\ e \in [AllNodes -> {RED, BLACK}] /\ e[r] = BLACK /\ e[nil] = BLACK
        /\ \A m \in AllNodes : m # r => e[m] = c[m]
    BY <1>2
  <1>4. Level(A, B, P, e, U, "idle", nullptr, h)
    <2>1. ASSUME NEW m \in U, NEW l \in {A[m], B[m]}
          PROVE  h[l] + Weight(P, e, "idle", nullptr, m, l) = h[m]
      <3>1. h[l] + Weight(P, c, "insert", v, m, l) = h[m]
        BY <1>1 DEF Level
      <3>2. l \in AllNodes /\ l # r
        BY <1>1, <1>2, ChildOf
      <3>3. QED  BY <1>3, <3>1, <3>2 DEF Weight
    <2>0. \A m \in AllNodes \ U : m # nil => e[m] = RED
      BY <1>1, <1>2, <1>3 DEF Level
    <2>2. QED  BY <2>0, <1>1, <1>3, <2>1 DEF Level
  <1>5. Reds(r, P, e, U, "idle", nullptr)
    <2>1. ASSUME NEW m \in U, e[m] = RED
          PROVE  m # r /\ e[P[m]] = BLACK
      <3>1. m # r /\ c[m] = RED
        BY <1>2, <1>3, <2>1
      <3>2. P[m] \in U
        BY <1>1, <3>1, ParentOf
      <3>3. c[P[m]] = BLACK
        BY <1>1, <1>2, <3>1, <3>2 DEF Reds
      <3>4. QED  BY <1>2, <1>3, <3>1, <3>2, <3>3
    <2>2. QED  BY <2>1 DEF Reds
  <1>6. HeldNode(r, A, B, P, e, U, "idle", nullptr)
    BY <1>2 DEF HeldNode
  <1>7. QED  BY <1>1, <1>4, <1>5, <1>6 DEF Sound

LEMMA DeleteEnded ==
    ASSUME NEW r, NEW A, NEW B, NEW P, NEW c, NEW U, NEW D, NEW R, NEW h, NEW v,
           Sound(r, A, B, P, c, U, D, R, h, "delete", v), v = r \/ c[v] = RED,
           NEW e, e = [c EXCEPT ![v] = BLACK]
    PROVE  Sound(r, A, B, P, e, U, D, R, h, "idle", nullptr)
  <1>1. /\ R \in {Le, Ge} /\ Shape(r, A, B, P, U, D) /\ Ordered(A, B, U, D, R)
        /\ Level(A, B, P, c, U, "delete", v, h) /\ Reds(r, P, c, U, "delete", v)
        /\ HeldNode(r, A, B, P, c, U, "delete", v)
    BY DEF Sound
  <1>2. /\ U \subseteq AllNodes /\ nil \notin U /\ nil \in AllNodes /\ c[nil] = BLACK /\ RED # BLACK
        /\ c \in [AllNodes -> {RED, BLACK}] /\ v \in U \cup {nil} /\ r \in U \cup {nil}
        /\ h \in [AllNodes -> Nat]
        /\ \A m \in U : A[m] \in AllNodes /\ B[m] \in AllNodes
    BY <1>1, NilIsNoNode DEF Shape, NodeAt, Level, AllNodes, RED, BLACK, HeldNode
  <1>3. /\ e \in [AllNodes -> {RED, BLACK}] /\ e[v] = BLACK /\ e[nil] = BLACK
        /\ \A m \in AllNodes : m # v => e[m] = c[m]
    BY <1>2
  <1>4. Level(A, B, P, e, U, "idle", nullptr, h)
    <2>1. ASSUME NEW m \in U, NEW l \in {A[m], B[m]}
          PROVE  h[l] + Weight(P, e, "idle", nullptr, m, l) = h[m]
      <3>1. h[l] + Weight(P, c, "delete", v, m, l) = h[m]
        BY <1>1 DEF Level
      <3>2. l \in AllNodes /\ (l = r => U = {})
        <4>1. r = nil => U = {}
          BY <1>1 DEF Shape
        <4>2. r \in U => l # r
          BY <1>1, <1>2, ChildOf
        <4>3. QED  BY <1>2, <4>1, <4>2
      <3>3. CASE l = v
        <4>1. v # r /\ c[v] = RED /\ v # nil
          BY <1>2, <3>2, <3>3
        <4>2. QED  BY <1>2, <1>3, <3>1, <3>2, <3>3, <4>1 DEF Weight
      <3>4. CASE l # v
        BY <1>3, <3>1, <3>2, <3>4 DEF Weight
      <3>5. QED  BY <3>3, <3>4
    <2>0. \A m \in AllNodes \ U : m # nil => e[m] = RED
      BY <1>1, <1>2, <1>3 DEF Level
    <2>2. QED  BY <2>0, <1>1, <1>3, <2>1 DEF Level
  <1>5. Reds(r, P, e, U, "idle", nullptr)
    <2>1. ASSUME NEW m \in U, e[m] = RED
          PROVE  m # r /\ e[P[m]] = BLACK
      <3>1. m # v /\ c[m] = RED
        BY <1>2, <1>3, <2>1
      <3>2. m # r /\ (c[P[m]] = BLACK \/ P[m] = v)
        BY <1>1, <3>1 DEF Reds
      <3>3. P[m] \in U
        BY <1>1, <3>2, ParentOf
      <3>4. QED  BY <1>2, <1>3, <3>2, <3>3
    <2>2. QED  BY <2>1 DEF Reds
  <1>6. HeldNode(r, A, B, P, e, U, "idle", nullptr)
    BY <1>2 DEF HeldNode
  <1>7. QED  BY <1>1, <1>4, <1>5, <1>6 DEF Sound
(***************************************************************************)
(* The tree as a record.                                                   *)
(***************************************************************************)

TreeRecords == [root : AllNodes, color : [AllNodes -> {RED, BLACK}],
                left : [AllNodes -> Pointers], right : [AllNodes -> Pointers],
                parent : [AllNodes -> Pointers]]

\* The tree t with d as its side A.
Facing(t, d, U, D, h, ph, v) ==
    Sound(t.root, t[d], t[Other(d)], t.parent, t.color, U, D,
          IF d = "left" THEN Le ELSE Ge, h, ph, v)

Sane(t, U, ph, v) == t \in TreeRecords /\ \E D, h : Facing(t, "left", U, D, h, ph, v)

LEMMA Others ==
    /\ \A d \in Directions : Other(d) \in Directions /\ Other(Other(d)) = d /\ d # Other(d)
    /\ Other("left") = "right" /\ Other("right") = "left"
  BY DEF Other, Directions

LEMMA FacingSwap ==
    ASSUME NEW t, NEW d \in Directions, NEW U, NEW D, NEW h, NEW ph, NEW v,
           Facing(t, d, U, D, h, ph, v)
    PROVE  Facing(t, Other(d), U, D, h, ph, v)
  <1>1. PICK R : R = IF d = "left" THEN Le ELSE Ge
    OBVIOUS
  <1>2. Sound(t.root, t[d], t[Other(d)], t.parent, t.color, U, D, R, h, ph, v)
    BY <1>1 DEF Facing
  <1>3. Sound(t.root, t[Other(d)], t[d], t.parent, t.color, U, D, Mirror(R), h, ph, v)
    BY <1>2, SoundSwap
  <1>4. Mirror(R) = IF Other(d) = "left" THEN Le ELSE Ge
    BY <1>1 DEF Mirror, Other, Directions
  <1>5. Other(Other(d)) = d
    BY Others
  <1>6. QED  BY <1>3, <1>4, <1>5 DEF Facing

LEMMA EitherWay ==
    ASSUME NEW t \in TreeRecords, NEW d \in Directions, NEW U, NEW ph, NEW v
    PROVE  Sane(t, U, ph, v) <=> \E D, h : Facing(t, d, U, D, h, ph, v)
  <1>1. CASE d = "left"
    BY <1>1 DEF Sane
  <1>2. CASE d = "right"
    <2>1. ASSUME NEW D, NEW h, Facing(t, "left", U, D, h, ph, v)
          PROVE  Facing(t, d, U, D, h, ph, v)
      <3>1. Facing(t, Other("left"), U, D, h, ph, v)
        BY <2>1, FacingSwap DEF Directions
      <3>2. QED  BY <1>2, <3>1, Others
    <2>2. ASSUME NEW D, NEW h, Facing(t, d, U, D, h, ph, v)
          PROVE  Facing(t, "left", U, D, h, ph, v)
      <3>1. Facing(t, Other("right"), U, D, h, ph, v)
        BY <1>2, <2>2, FacingSwap DEF Directions
      <3>2. QED  BY <3>1, Others
    <2>3. QED  BY <2>1, <2>2 DEF Sane
  <1>3. QED  BY <1>1, <1>2 DEF Directions

\* v takes u's place, in all of the links down.
LEMMA ReplaceChildIs ==
    ASSUME NEW t \in TreeRecords, NEW u \in Nodes, NEW v \in AllNodes,
           t.parent[u] # nil => t.parent[u] \in Nodes /\ (t.left[t.parent[u]] = u \/ t.right[t.parent[u]] = u),
           \A m \in AllNodes : /\ t.left[m] = u \/ t.right[m] = u => m = t.parent[u] /\ m # nil
                               /\ ~ (t.left[m] = u /\ t.right[m] = u),
           NEW q, q = ReplaceChild(t, u, v)
    PROVE  /\ q \in TreeRecords /\ q.color = t.color /\ q.parent = t.parent
           /\ q.root = IF t.parent[u] = nil THEN v ELSE t.root
           /\ q.left = [m \in AllNodes |-> IF t.left[m] = u THEN v ELSE t.left[m]]
           /\ q.right = [m \in AllNodes |-> IF t.right[m] = u THEN v ELSE t.right[m]]
  <1>1. CASE t.parent[u] = nil
    <2>1. q = [t EXCEPT !.root = v]
      BY <1>1 DEF ReplaceChild
    <2>2. q \in TreeRecords /\ q.color = t.color /\ q.parent = t.parent /\ q.root = v
          /\ q.left = t.left /\ q.right = t.right
      BY <2>1 DEF TreeRecords
    <2>3. \A m \in AllNodes : t.left[m] # u /\ t.right[m] # u
      BY <1>1
    <2>4. t.left \in [AllNodes -> Pointers] /\ t.right \in [AllNodes -> Pointers]
      BY DEF TreeRecords
    <2>5. /\ t.left = [m \in AllNodes |-> IF t.left[m] = u THEN v ELSE t.left[m]]
          /\ t.right = [m \in AllNodes |-> IF t.right[m] = u THEN v ELSE t.right[m]]
      BY <2>3, <2>4
    <2>6. QED  BY <1>1, <2>2, <2>5
  <1>2. CASE t.parent[u] # nil /\ t.left[t.parent[u]] = u
    <2>1. q = [t EXCEPT !.left[t.parent[u]] = v]
      BY <1>2 DEF ReplaceChild, Side
    <2>2. t.parent[u] \in AllNodes /\ v \in Pointers
      BY <1>2 DEF AllNodes, Pointers
    <2>3. /\ q \in TreeRecords /\ q.color = t.color /\ q.parent = t.parent /\ q.root = t.root
          /\ q.left = [t.left EXCEPT ![t.parent[u]] = v] /\ q.right = t.right
      BY <2>1, <2>2 DEF TreeRecords
    <2>4. t.left \in [AllNodes -> Pointers] /\ t.right \in [AllNodes -> Pointers]
      BY DEF TreeRecords
    <2>5. \A m \in AllNodes : (t.left[m] = u <=> m = t.parent[u]) /\ t.right[m] # u
      BY <1>2
    <2>6. /\ q.left = [m \in AllNodes |-> IF t.left[m] = u THEN v ELSE t.left[m]]
          /\ t.right = [m \in AllNodes |-> IF t.right[m] = u THEN v ELSE t.right[m]]
      BY <2>3, <2>4, <2>5
    <2>7. QED  BY <1>2, <2>3, <2>6
  <1>3. CASE t.parent[u] # nil /\ t.left[t.parent[u]] # u
    <2>1. q = [t EXCEPT !.right[t.parent[u]] = v]
      BY <1>3 DEF ReplaceChild, Side
    <2>2. t.parent[u] \in AllNodes /\ v \in Pointers
      BY <1>3 DEF AllNodes, Pointers
    <2>3. /\ q \in TreeRecords /\ q.color = t.color /\ q.parent = t.parent /\ q.root = t.root
          /\ q.right = [t.right EXCEPT ![t.parent[u]] = v] /\ q.left = t.left
      BY <2>1, <2>2 DEF TreeRecords
    <2>4. t.left \in [AllNodes -> Pointers] /\ t.right \in [AllNodes -> Pointers]
      BY DEF TreeRecords
    <2>5. \A m \in AllNodes : (t.right[m] = u <=> m = t.parent[u]) /\ t.left[m] # u
      BY <1>3
    <2>6. /\ q.right = [m \in AllNodes |-> IF t.right[m] = u THEN v ELSE t.right[m]]
          /\ t.left = [m \in AllNodes |-> IF t.left[m] = u THEN v ELSE t.left[m]]
      BY <2>3, <2>4, <2>5
    <2>7. QED  BY <1>3, <2>3, <2>6
  <1>4. QED  BY <1>1, <1>2, <1>3

LEMMA RotateIs ==
    ASSUME NEW t \in TreeRecords, NEW d \in Directions, NEW U, NEW D,
           Shape(t.root, t[d], t[Other(d)], t.parent, U, D),
           NEW n \in U, t[Other(d)][n] # nil,
           NEW u, u = Rotate(t, n, d)
    PROVE  /\ u \in TreeRecords /\ u.color = t.color
           /\ Rotated(t.root, t[d], t[Other(d)], t.parent, n, u.root, u[d], u[Other(d)], u.parent)
  <1>1. PICK A, B, P, up, inner : A = t[d] /\ B = t[Other(d)] /\ P = t.parent /\ up = B[n] /\ inner = A[up]
    OBVIOUS
  <1>2. /\ up \in U /\ up # n /\ inner \in U \cup {nil} /\ inner # n /\ inner # up
        /\ A[n] # n /\ B[up] # n /\ A[n] # up /\ B[up] # up
        /\ P[n] \in U \cup {nil} /\ P[n] # n /\ P[n] # up /\ (P[n] = nil <=> n = t.root)
    BY <1>1, AboutRotation
  <1>3. /\ U \subseteq Nodes /\ nil \notin Nodes /\ n \in Nodes /\ nil \notin U /\ nil \in AllNodes
        /\ U \subseteq AllNodes /\ AllNodes \subseteq Pointers
        /\ A \in [AllNodes -> Pointers] /\ B \in [AllNodes -> Pointers] /\ P \in [AllNodes -> Pointers]
    BY <1>1, NilIsNoNode DEF Shape, AllNodes, Pointers
  <1>4. PICK moved : moved = IF inner = nil THEN t ELSE [t EXCEPT !.parent[inner] = n]
    OBVIOUS
  <1>5. /\ moved \in TreeRecords /\ moved.root = t.root /\ moved.color = t.color
        /\ moved.left = t.left /\ moved.right = t.right
        /\ moved.parent = [m \in AllNodes |-> IF m = inner /\ m # nil THEN n ELSE P[m]]
    <2>1. CASE inner = nil
      <3>1. moved = t
        BY <1>4, <2>1
      <3>2. P = [m \in AllNodes |-> IF m = inner /\ m # nil THEN n ELSE P[m]]
        BY <1>3, <2>1
      <3>3. QED  BY <1>1, <3>1, <3>2
    <2>2. CASE inner # nil
      <3>1. moved = [t EXCEPT !.parent[inner] = n]
        BY <1>4, <2>2
      <3>2. /\ moved \in TreeRecords /\ moved.root = t.root /\ moved.color = t.color
            /\ moved.left = t.left /\ moved.right = t.right
            /\ moved.parent = [t.parent EXCEPT ![inner] = n]
        BY <1>2, <1>3, <3>1 DEF TreeRecords
      <3>3. moved.parent = [m \in AllNodes |-> IF m = inner /\ m # nil THEN n ELSE P[m]]
        BY <1>1, <1>3, <2>2, <3>2
      <3>4. QED  BY <3>2, <3>3
    <2>3. QED  BY <2>1, <2>2
  <1>6. PICK q : q = ReplaceChild(moved, n, up)
    OBVIOUS
  <1>7. moved.parent[n] = P[n]
    BY <1>2, <1>3, <1>5
  <1>8. /\ q \in TreeRecords /\ q.color = t.color /\ q.parent = moved.parent
        /\ q.root = IF P[n] = nil THEN up ELSE t.root
        /\ q.left = [m \in AllNodes |-> IF t.left[m] = n THEN up ELSE t.left[m]]
        /\ q.right = [m \in AllNodes |-> IF t.right[m] = n THEN up ELSE t.right[m]]
    <2>1. n # t.root => P[n] \in U /\ (A[P[n]] = n \/ B[P[n]] = n)
      BY <1>1, ParentOf
    <2>2. \A m \in AllNodes : /\ A[m] = n \/ B[m] = n => m = P[n] /\ m # nil
                              /\ ~ (A[m] = n /\ B[m] = n)
      BY <1>1, <1>3, ChildOf
    <2>3. {A, B} = {t.left, t.right}
      BY <1>1 DEF Other, Directions
    <2>4. P[n] # nil => P[n] \in Nodes /\ (t.left[P[n]] = n \/ t.right[P[n]] = n)
      BY <1>2, <1>3, <2>1, <2>3
    <2>5. \A m \in AllNodes : /\ t.left[m] = n \/ t.right[m] = n => m = P[n] /\ m # nil
                              /\ ~ (t.left[m] = n /\ t.right[m] = n)
      <3>1. CASE A = t.left /\ B = t.right
        BY <2>2, <3>1
      <3>2. CASE A = t.right /\ B = t.left
        BY <2>2, <3>2
      <3>3. QED  BY <1>1, <3>1, <3>2 DEF Other, Directions
    <2>6. up \in AllNodes
      BY <1>2, <1>3
    <2>7. QED  BY <1>3, <1>5, <1>6, <1>7, <2>4, <2>5, <2>6, ReplaceChildIs
  <1>9. u = [q EXCEPT ![Other(d)][n] = inner, ![d][up] = n, !.parent[up] = P[n], !.parent[n] = up]
    BY <1>1, <1>4, <1>6 DEF Rotate
  <1>10. /\ u.root = q.root /\ u.color = q.color
         /\ u.parent = [q.parent EXCEPT ![up] = P[n], ![n] = up]
         /\ u[d] = [q[d] EXCEPT ![up] = n] /\ u[Other(d)] = [q[Other(d)] EXCEPT ![n] = inner]
         /\ u \in TreeRecords
    <2>1. n \in AllNodes /\ up \in AllNodes /\ inner \in Pointers /\ n \in Pointers /\ up \in Pointers /\ P[n] \in Pointers
      BY <1>2, <1>3
    <2>2. CASE d = "left"
      <3>1. u = [q EXCEPT !.right[n] = inner, !.left[up] = n, !.parent[up] = P[n], !.parent[n] = up]
        BY <1>9, <2>2, Others
      <3>2. /\ u.root = q.root /\ u.color = q.color
            /\ u.parent = [q.parent EXCEPT ![up] = P[n], ![n] = up]
            /\ u.left = [q.left EXCEPT ![up] = n] /\ u.right = [q.right EXCEPT ![n] = inner]
        BY <1>8, <3>1 DEF TreeRecords
      <3>3. u \in TreeRecords
        <4>1. PICK q1 : q1 = [q EXCEPT !.right[n] = inner]
          OBVIOUS
        <4>2. PICK q2 : q2 = [q1 EXCEPT !.left[up] = n]
          OBVIOUS
        <4>3. PICK q3 : q3 = [q2 EXCEPT !.parent[up] = P[n]]
          OBVIOUS
        <4>4. q1 \in TreeRecords
          BY <1>8, <2>1, <4>1 DEF TreeRecords
        <4>5. q2 \in TreeRecords
          BY <2>1, <4>2, <4>4 DEF TreeRecords
        <4>6. q3 \in TreeRecords
          BY <2>1, <4>3, <4>5 DEF TreeRecords
        <4>7. u = [q3 EXCEPT !.parent[n] = up]
          BY <3>1, <4>1, <4>2, <4>3
        <4>8. QED  BY <2>1, <4>6, <4>7 DEF TreeRecords
      <3>4. QED  BY <2>2, <3>2, <3>3, Others
    <2>3. CASE d = "right"
      <3>1. u = [q EXCEPT !.left[n] = inner, !.right[up] = n, !.parent[up] = P[n], !.parent[n] = up]
        BY <1>9, <2>3, Others
      <3>2. /\ u.root = q.root /\ u.color = q.color
            /\ u.parent = [q.parent EXCEPT ![up] = P[n], ![n] = up]
            /\ u.right = [q.right EXCEPT ![up] = n] /\ u.left = [q.left EXCEPT ![n] = inner]
        BY <1>8, <3>1 DEF TreeRecords
      <3>3. u \in TreeRecords
        <4>1. PICK q1 : q1 = [q EXCEPT !.left[n] = inner]
          OBVIOUS
        <4>2. PICK q2 : q2 = [q1 EXCEPT !.right[up] = n]
          OBVIOUS
        <4>3. PICK q3 : q3 = [q2 EXCEPT !.parent[up] = P[n]]
          OBVIOUS
        <4>4. q1 \in TreeRecords
          BY <1>8, <2>1, <4>1 DEF TreeRecords
        <4>5. q2 \in TreeRecords
          BY <2>1, <4>2, <4>4 DEF TreeRecords
        <4>6. q3 \in TreeRecords
          BY <2>1, <4>3, <4>5 DEF TreeRecords
        <4>7. u = [q3 EXCEPT !.parent[n] = up]
          BY <3>1, <4>1, <4>2, <4>3
        <4>8. QED  BY <2>1, <4>6, <4>7 DEF TreeRecords
      <3>4. QED  BY <2>3, <3>2, <3>3, Others
    <2>4. QED  BY <2>2, <2>3 DEF Directions
  <1>11. /\ q[d] = [m \in AllNodes |-> IF A[m] = n THEN up ELSE A[m]]
         /\ q[Other(d)] = [m \in AllNodes |-> IF B[m] = n THEN up ELSE B[m]]
    BY <1>1, <1>8 DEF Other, Directions
  <1>12. u[d] = [m \in AllNodes |-> IF m = up THEN n ELSE IF A[m] = n THEN up ELSE A[m]]
    BY <1>2, <1>3, <1>10, <1>11
  <1>13. u[Other(d)] = [m \in AllNodes |-> IF m = n THEN inner ELSE IF B[m] = n THEN up ELSE B[m]]
    BY <1>2, <1>3, <1>10, <1>11
  <1>14. u.parent = [m \in AllNodes |-> IF m = n THEN up ELSE IF m = up THEN P[n]
                                        ELSE IF m = inner /\ m # nil THEN n ELSE P[m]]
    BY <1>2, <1>3, <1>5, <1>8, <1>10
  <1>15. QED  BY <1>1, <1>8, <1>10, <1>12, <1>13, <1>14 DEF Rotated
\* n is the child of its parent that Side says.
LEMMA SideIs ==
    ASSUME NEW t \in TreeRecords, NEW U, NEW D, NEW h, NEW ph, NEW v,
           Facing(t, "left", U, D, h, ph, v),
           NEW n \in U, n # t.root
    PROVE  /\ Side(t, n) \in Directions /\ t[Side(t, n)][t.parent[n]] = n
           /\ t.parent[n] \in U
  <1>1. Shape(t.root, t.left, t.right, t.parent, U, D)
    BY Others DEF Facing, Sound
  <1>2. t.parent[n] \in U /\ (t.left[t.parent[n]] = n \/ t.right[t.parent[n]] = n)
    BY <1>1, ParentOf
  <1>3. QED  BY <1>2 DEF Side, Directions

LEMMA SaneNodes ==
    ASSUME NEW t \in TreeRecords, NEW d \in Directions, NEW U, NEW D, NEW h, NEW ph, NEW v,
           Facing(t, d, U, D, h, ph, v)
    PROVE  /\ U \subseteq Nodes /\ U \subseteq AllNodes /\ nil \notin U /\ nil \in AllNodes
           /\ nullptr \notin AllNodes /\ RED # BLACK /\ t.color[nil] = BLACK
           /\ t.color \in [AllNodes -> {RED, BLACK}]
           /\ \A n \in U : /\ t[d][n] \in U \cup {nil} /\ t[Other(d)][n] \in U \cup {nil}
                           /\ n # t.root => t.parent[n] \in U
           /\ t.root \in U => t.parent[t.root] = nil
  <1>1. /\ Shape(t.root, t[d], t[Other(d)], t.parent, U, D)
        /\ Level(t[d], t[Other(d)], t.parent, t.color, U, ph, v, h)
    BY DEF Facing, Sound
  <1>2. \A n \in U : n # t.root => t.parent[n] \in U
    BY <1>1, ParentOf
  <1>3. \A n \in U : t[d][n] \in U \cup {nil} /\ t[Other(d)][n] \in U \cup {nil}
    BY <1>1 DEF Shape, NodeAt
  <1>4. U \subseteq Nodes /\ (t.root # nil => t.parent[t.root] = nil)
    BY <1>1 DEF Shape
  <1>5. /\ t.color[nil] = BLACK /\ RED # BLACK
        /\ t.color \in [AllNodes -> {RED, BLACK}]
    BY <1>1 DEF Level, RED, BLACK
  <1>6. QED  BY <1>2, <1>3, <1>4, <1>5, NilIsNoNode DEF AllNodes

\* The red parent of the node InsertFixup holds has a parent.
LEMMA InsertFamily ==
    ASSUME NEW t \in TreeRecords, NEW U, NEW D, NEW h, NEW v,
           Facing(t, "left", U, D, h, "insert", v),
           t.color[t.parent[v]] = RED
    PROVE  /\ v \in U /\ t.parent[v] \in U /\ t.parent[v] # v
           /\ t.parent[t.parent[v]] \in U /\ t.parent[v] # t.root
           /\ Side(t, t.parent[v]) \in Directions
           /\ t[Side(t, t.parent[v])][t.parent[t.parent[v]]] = t.parent[v]
           /\ t[Other(Side(t, t.parent[v]))][t.parent[t.parent[v]]] \in AllNodes
  <1>1. /\ Shape(t.root, t.left, t.right, t.parent, U, D)
        /\ Reds(t.root, t.parent, t.color, U, "insert", v)
        /\ HeldNode(t.root, t.left, t.right, t.parent, t.color, U, "insert", v)
    BY Others DEF Facing, Sound
  <1>2. /\ U \subseteq Nodes /\ U \subseteq AllNodes /\ nil \notin U /\ nil \in AllNodes
        /\ t.color[nil] = BLACK /\ RED # BLACK
        /\ \A n \in U : /\ t.left[n] \in U \cup {nil} /\ t.right[n] \in U \cup {nil}
                        /\ n # t.root => t.parent[n] \in U
        /\ t.root \in U => t.parent[t.root] = nil
    BY SaneNodes, Others DEF Directions
  <1>3. v \in U
    BY <1>1 DEF HeldNode
  <1>4. v # t.root /\ t.parent[v] \in U
    BY <1>2, <1>3
  <1>5. t.parent[v] # v
    <2>1. t.left[t.parent[v]] = v \/ t.right[t.parent[v]] = v
      BY <1>1, <1>3, <1>4, ParentOf
    <2>2. QED  BY <1>1, <1>2, <1>3, <1>4, <2>1, ChildOf
  <1>6. t.parent[v] # t.root
    BY <1>1, <1>4, <1>5 DEF Reds
  <1>7. /\ Side(t, t.parent[v]) \in Directions
        /\ t[Side(t, t.parent[v])][t.parent[t.parent[v]]] = t.parent[v]
        /\ t.parent[t.parent[v]] \in U
    BY <1>4, <1>6, SideIs
  <1>8. t[Other(Side(t, t.parent[v]))][t.parent[t.parent[v]]] \in AllNodes
    BY <1>2, <1>7, Others DEF Directions
  <1>9. QED  BY <1>3, <1>4, <1>5, <1>6, <1>7, <1>8

LEMMA InsertRecolorKeeps ==
    ASSUME Sane(tree, used, pc, x), InsertRecolor
    PROVE  Sane(tree', used', pc', x')
  <1>1. PICK p, g, d, y : /\ p = tree.parent[x] /\ g = tree.parent[p] /\ d = Side(tree, p)
                          /\ y = tree[Other(d)][g]
    OBVIOUS
  <1>2. /\ pc = "insert" /\ tree.color[p] = RED /\ tree.color[y] = RED
        /\ tree' = [tree EXCEPT !.color[p] = BLACK, !.color[y] = BLACK, !.color[g] = RED]
        /\ x' = g /\ used' = used /\ pc' = pc
    BY <1>1 DEF InsertRecolor
  <1>3. PICK D, h : tree \in TreeRecords /\ Facing(tree, "left", used, D, h, "insert", x)
    BY <1>2 DEF Sane
  <1>4. p \in used /\ g \in used /\ d \in Directions /\ tree[d][g] = p /\ y \in AllNodes
    BY <1>1, <1>2, <1>3, InsertFamily
  <1>5. PICK F, k : Facing(tree, Other(d), used, F, k, "insert", x)
    BY <1>3, <1>4, EitherWay, Others DEF Sane
  <1>6. PICK R : R = IF Other(d) = "left" THEN Le ELSE Ge
    OBVIOUS
  <1>7. Sound(tree.root, tree[Other(d)], tree[d], tree.parent, tree.color, used, F, R, k, "insert", x)
    BY <1>4, <1>5, <1>6, Others DEF Facing
  <1>8. PICK e : e = [tree.color EXCEPT ![p] = BLACK, ![y] = BLACK, ![g] = RED]
    OBVIOUS
  <1>9. PICK k2 : Sound(tree.root, tree[Other(d)], tree[d], tree.parent, e, used, F, R, k2, "insert", g)
    BY <1>1, <1>2, <1>4, <1>7, <1>8, UncleRecolored
  <1>10. /\ tree' \in TreeRecords /\ tree'.root = tree.root /\ tree'.color = e
         /\ tree'.left = tree.left /\ tree'.right = tree.right /\ tree'.parent = tree.parent
    <2>1. p \in AllNodes /\ g \in AllNodes
      BY <1>3, <1>4, SaneNodes DEF Directions
    <2>2. QED  BY <1>2, <1>3, <1>4, <1>8, <2>1 DEF TreeRecords
  <1>11. Facing(tree', Other(d), used, F, k2, "insert", g)
    <2>1. tree'[Other(d)] = tree[Other(d)] /\ tree'[d] = tree[d]
      BY <1>4, <1>10 DEF Other, Directions
    <2>2. QED  BY <1>4, <1>6, <1>9, <1>10, <2>1, Others DEF Facing
  <1>12. QED  BY <1>2, <1>4, <1>10, <1>11, EitherWay, Others
LEMMA RecoloredLinks ==
    ASSUME NEW t \in TreeRecords, NEW d \in Directions,
           NEW q \in TreeRecords, q.root = t.root, q.left = t.left, q.right = t.right, q.parent = t.parent
    PROVE  q[d] = t[d] /\ q[Other(d)] = t[Other(d)]
  BY DEF Other, Directions

\* A step of a fixup that ends in a rotation, once its colors are set.
LEMMA TurnedIsSane ==
    ASSUME NEW q \in TreeRecords, NEW d \in Directions, NEW U, NEW D,
           Shape(q.root, q[d], q[Other(d)], q.parent, U, D),
           NEW n \in U, q[Other(d)][n] # nil, NEW u, u = Rotate(q, n, d),
           NEW ph, NEW v,
           \A s, C, E, Q : Rotated(q.root, q[d], q[Other(d)], q.parent, n, s, C, E, Q) =>
               \E G, g : Sound(s, C, E, Q, q.color, U, G, IF d = "left" THEN Le ELSE Ge, g, ph, v)
    PROVE  Sane(u, U, ph, v)
  <1>1. /\ u \in TreeRecords /\ u.color = q.color
        /\ Rotated(q.root, q[d], q[Other(d)], q.parent, n, u.root, u[d], u[Other(d)], u.parent)
    BY RotateIs
  <1>2. PICK G, g : Sound(u.root, u[d], u[Other(d)], u.parent, u.color, U, G, IF d = "left" THEN Le ELSE Ge, g, ph, v)
    BY <1>1
  <1>3. Facing(u, d, U, G, g, ph, v)
    BY <1>2 DEF Facing
  <1>4. QED  BY <1>1, <1>3, EitherWay

LEMMA OuterKeeps ==
    ASSUME NEW t \in TreeRecords, NEW d \in Directions, NEW U, NEW z, Sane(t, U, "insert", z),
           NEW p \in U, NEW n \in U, t[d][n] = p, t[d][p] = z, t.color[p] = RED,
           t.color[t[Other(d)][n]] = BLACK,
           NEW u, u = Rotate([t EXCEPT !.color[p] = BLACK, !.color[n] = RED], n, Other(d))
    PROVE  Sane(u, U, "insert", z)
  <1>1. PICK o : o = Other(d) /\ o \in Directions /\ Other(o) = d
    BY Others
  <1>2. PICK D, h : Facing(t, o, U, D, h, "insert", z)
    BY <1>1, EitherWay
  <1>3. PICK R : R = IF o = "left" THEN Le ELSE Ge
    OBVIOUS
  <1>4. Sound(t.root, t[o], t[d], t.parent, t.color, U, D, R, h, "insert", z)
    BY <1>1, <1>2, <1>3 DEF Facing
  <1>5. PICK e : e = [t.color EXCEPT ![p] = BLACK, ![n] = RED]
    OBVIOUS
  <1>6. PICK q : q = [t EXCEPT !.color[p] = BLACK, !.color[n] = RED]
    OBVIOUS
  <1>7. p \in AllNodes /\ n \in AllNodes /\ nil \notin U
    BY <1>1, <1>2, SaneNodes
  <1>8. /\ q \in TreeRecords /\ q.color = e
        /\ q.root = t.root /\ q.left = t.left /\ q.right = t.right /\ q.parent = t.parent
    BY <1>5, <1>6, <1>7 DEF TreeRecords
  <1>9. q[o] = t[o] /\ q[d] = t[d]
    BY <1>1, <1>8, RecoloredLinks
  <1>10. ASSUME NEW s, NEW C, NEW E, NEW Q,
                Rotated(t.root, t[o], t[d], t.parent, n, s, C, E, Q)
         PROVE  \E G : Sound(s, C, E, Q, e, U, G, R, h, "insert", z)
    BY <1>1, <1>4, <1>5, <1>10, OuterTurned
  <1>11. u = Rotate(q, n, o)
    BY <1>1, <1>6
  <1>12. Shape(q.root, q[o], q[Other(o)], q.parent, U, D)
    BY <1>1, <1>4, <1>8, <1>9 DEF Sound
  <1>13. q[Other(o)][n] # nil
    BY <1>1, <1>7, <1>9
  <1>14. \A s, C, E, Q : Rotated(q.root, q[o], q[Other(o)], q.parent, n, s, C, E, Q) =>
               \E G, g : Sound(s, C, E, Q, q.color, U, G, IF o = "left" THEN Le ELSE Ge, g, "insert", z)
    BY <1>1, <1>3, <1>8, <1>9, <1>10
  <1>15. QED  BY <1>1, <1>8, <1>11, <1>12, <1>13, <1>14, TurnedIsSane

\* z is the inner child of its red parent p, and n is p's parent; then p is the outer
\* child of z, and n is z's parent.
InnerFamily(t, d, U, z, p, n) ==
    /\ t \in TreeRecords /\ d \in Directions /\ Sane(t, U, "insert", z)
    /\ z \in U /\ p \in U /\ n \in U /\ n # p
    /\ t[Other(d)][p] = z /\ t[d][n] = p /\ t.color[p] = RED

OuterFamily(t, d, U, z, p, n, u) ==
    /\ u \in TreeRecords /\ Sane(u, U, "insert", p) /\ u.color = t.color
    /\ u.parent[p] = z /\ u.parent[z] = n /\ u[d][n] = z /\ u[d][z] = p
    /\ u[Other(d)][n] = t[Other(d)][n]

LEMMA InnerKeeps ==
    ASSUME NEW t, NEW d, NEW U, NEW z, NEW p, NEW n, InnerFamily(t, d, U, z, p, n),
           NEW u, u = Rotate(t, p, d)
    PROVE  OuterFamily(t, d, U, z, p, n, u)
  <1>0. /\ t \in TreeRecords /\ d \in Directions /\ Sane(t, U, "insert", z)
        /\ z \in U /\ p \in U /\ n \in U /\ n # p
        /\ t[Other(d)][p] = z /\ t[d][n] = p /\ t.color[p] = RED
    BY DEF InnerFamily
  <1>1. PICK D, h : Facing(t, d, U, D, h, "insert", z)
    BY <1>0, EitherWay
  <1>2. PICK R : R = IF d = "left" THEN Le ELSE Ge
    OBVIOUS
  <1>3. Sound(t.root, t[d], t[Other(d)], t.parent, t.color, U, D, R, h, "insert", z)
    BY <1>0, <1>1, <1>2 DEF Facing
  <1>4. Shape(t.root, t[d], t[Other(d)], t.parent, U, D)
    BY <1>0, <1>3 DEF Sound
  <1>5. U \subseteq AllNodes /\ nil \notin U
    BY <1>0, <1>1, SaneNodes
  <1>6. /\ u \in TreeRecords /\ u.color = t.color
        /\ Rotated(t.root, t[d], t[Other(d)], t.parent, p, u.root, u[d], u[Other(d)], u.parent)
    BY <1>0, <1>4, <1>5, RotateIs
  <1>7. PICK A, B, P : A = t[d] /\ B = t[Other(d)] /\ P = t.parent
    OBVIOUS
  <1>8. PICK s, C, E, Q : s = u.root /\ C = u[d] /\ E = u[Other(d)] /\ Q = u.parent
    OBVIOUS
  <1>9. PICK inner : inner = A[z]
    OBVIOUS
  <1>10. Shape(t.root, A, B, P, U, D) /\ Rotated(t.root, A, B, P, p, s, C, E, Q) /\ B[p] = z /\ A[n] = p
    BY <1>0, <1>4, <1>6, <1>7, <1>8
  <1>11. z # p /\ P[p] = n /\ n # z /\ B[n] # p
    <2>1. z # p /\ P[p] # z
      BY <1>0, <1>5, <1>10, AboutRotation
    <2>2. P[p] = n /\ B[n] # p
      BY <1>0, <1>5, <1>10, ChildOf
    <2>3. QED  BY <1>0, <2>1, <2>2
  <1>12. /\ C[z] = p /\ Q[p] = z /\ Q[z] = n /\ C[n] = z /\ E[n] = B[n]
    BY <1>0, <1>5, <1>9, <1>10, <1>11, AfterRotation
  <1>13. Sane(u, U, "insert", p)
    <2>1. \E G : Sound(u.root, u[d], u[Other(d)], u.parent, t.color, U, G, R, h, "insert", p)
      BY <1>0, <1>3, <1>6, InnerTurned
    <2>2. \E G : Facing(u, d, U, G, h, "insert", p)
      BY <1>0, <1>2, <1>6, <2>1 DEF Facing
    <2>3. QED  BY <1>0, <1>6, <2>2, EitherWay
  <1>14. QED  BY <1>6, <1>7, <1>8, <1>12, <1>13 DEF OuterFamily

LEMMA InsertRotateKeeps ==
    ASSUME Sane(tree, used, pc, x), InsertRotate
    PROVE  Sane(tree', used', pc', x')
  <1>1. PICK p, g, d, y : /\ p = tree.parent[x] /\ g = tree.parent[p] /\ d = Side(tree, p)
                          /\ y = tree[Other(d)][g]
    OBVIOUS
  <1>2. pc = "insert" /\ tree.color[p] = RED /\ tree.color[y] = BLACK /\ used' = used /\ pc' = pc
    BY <1>1 DEF InsertRotate
  <1>3. PICK D, h : tree \in TreeRecords /\ Facing(tree, "left", used, D, h, "insert", x)
    BY <1>2 DEF Sane
  <1>4. /\ x \in used /\ p \in used /\ p # x /\ g \in used /\ d \in Directions
        /\ tree[d][g] = p
    BY <1>1, <1>2, <1>3, InsertFamily
  <1>5. Sane(tree, used, "insert", x)
    BY <1>2
  <1>6. CASE x = tree[Other(d)][p]
    <2>1. PICK t : t = Rotate(tree, p, d)
      OBVIOUS
    <2>2. g # p
      <3>1. Shape(tree.root, tree.left, tree.right, tree.parent, used, D)
        BY <1>3, Others DEF Facing, Sound
      <3>2. (tree.left[g] = p \/ tree.right[g] = p) /\ used \subseteq AllNodes
        BY <1>3, <1>4, SaneNodes DEF Directions
      <3>3. QED  BY <1>4, <3>1, <3>2, ChildOf
    <2>3. /\ t \in TreeRecords /\ Sane(t, used, "insert", p) /\ t.color = tree.color
          /\ t.parent[p] = x /\ t.parent[x] = g /\ t[d][g] = x /\ t[d][x] = p
          /\ t[Other(d)][g] = y
      <3>1. InnerFamily(tree, d, used, x, p, g)
        BY <1>2, <1>3, <1>4, <1>5, <1>6, <2>2 DEF InnerFamily
      <3>2. OuterFamily(tree, d, used, x, p, g, t)
        BY <2>1, <3>1, InnerKeeps
      <3>3. QED  BY <1>1, <3>2 DEF OuterFamily
    <2>4. tree' = Rotate([t EXCEPT !.color[t.parent[p]] = BLACK, !.color[t.parent[t.parent[p]]] = RED],
                         t.parent[t.parent[p]], Other(d)) /\ x' = p
      BY <1>1, <1>6, <2>1 DEF InsertRotate
    <2>5. tree' = Rotate([t EXCEPT !.color[x] = BLACK, !.color[g] = RED], g, Other(d))
      BY <2>3, <2>4
    <2>6. t.color[x] = RED
      BY <1>3, <2>3, Others DEF Facing, Sound, HeldNode
    <2>7. Sane(tree', used, "insert", p)
      BY <1>2, <1>4, <2>3, <2>5, <2>6, OuterKeeps
    <2>8. QED  BY <1>2, <2>4, <2>7
  <1>7. CASE x # tree[Other(d)][p]
    <2>1. tree[d][p] = x
      <3>1. tree.left[p] = x \/ tree.right[p] = x
        <4>1. Shape(tree.root, tree.left, tree.right, tree.parent, used, D)
          BY <1>3, Others DEF Facing, Sound
        <4>2. x # tree.root
          BY <1>1, <1>3, <1>4, SaneNodes, Others DEF Directions
        <4>3. QED  BY <1>1, <1>4, <4>1, <4>2, ParentOf
      <3>2. QED  BY <1>4, <1>7, <3>1 DEF Other, Directions
    <2>2. /\ tree' = Rotate([tree EXCEPT !.color[tree.parent[x]] = BLACK, !.color[tree.parent[tree.parent[x]]] = RED],
                            tree.parent[tree.parent[x]], Other(d))
          /\ x' = x
      BY <1>1, <1>7 DEF InsertRotate
    <2>3. tree' = Rotate([tree EXCEPT !.color[p] = BLACK, !.color[g] = RED], g, Other(d))
      BY <1>1, <2>2
    <2>4. Sane(tree', used, "insert", x)
      BY <1>1, <1>2, <1>3, <1>4, <1>5, <2>1, <2>3, OuterKeeps
    <2>5. QED  BY <1>2, <2>2, <2>4
  <1>8. QED  BY <1>6, <1>7

LEMMA InsertDoneKeeps ==
    ASSUME Sane(tree, used, pc, x), InsertDone
    PROVE  Sane(tree', used', pc', x')
  <1>1. /\ pc = "insert" /\ tree.color[tree.parent[x]] # RED
        /\ tree' = [tree EXCEPT !.color[tree.root] = BLACK]
        /\ pc' = "idle" /\ x' = nullptr /\ used' = used
    BY DEF InsertDone
  <1>2. PICK D, h : tree \in TreeRecords /\ Facing(tree, "left", used, D, h, "insert", x)
    BY <1>1 DEF Sane
  <1>3. Sound(tree.root, tree.left, tree.right, tree.parent, tree.color, used, D, Le, h, "insert", x)
    BY <1>2, Others DEF Facing
  <1>4. PICK e : e = [tree.color EXCEPT ![tree.root] = BLACK]
    OBVIOUS
  <1>5. Sound(tree.root, tree.left, tree.right, tree.parent, e, used, D, Le, h, "idle", nullptr)
    BY <1>1, <1>3, <1>4, InsertEnded
  <1>6. /\ tree' \in TreeRecords /\ tree'.root = tree.root /\ tree'.color = e
        /\ tree'.left = tree.left /\ tree'.right = tree.right /\ tree'.parent = tree.parent
    BY <1>1, <1>2, <1>4 DEF TreeRecords
  <1>7. Facing(tree', "left", used, D, h, "idle", nullptr)
    BY <1>5, <1>6, Others DEF Facing
  <1>8. QED  BY <1>1, <1>6, <1>7 DEF Sane
(***************************************************************************)
(* A turn of DeleteFixup's loop.                                           *)
(***************************************************************************)

\* v, counted twice, is the child of p in direction d, and w is its sibling.
DoublyBlack(t, d, U, v, p, w) ==
    /\ t \in TreeRecords /\ d \in Directions /\ t.color[v] = BLACK
    /\ \E D, h : /\ Facing(t, d, U, D, h, "delete", v)
                 /\ Beside(t.root, t[d], t[Other(d)], t.parent, t.color, U, v, p, w)

LEMMA AboutDoublyBlack ==
    ASSUME NEW t, NEW d, NEW U, NEW v, NEW p, NEW w, DoublyBlack(t, d, U, v, p, w)
    PROVE  /\ t.parent[v] = p /\ p \in U /\ w \in U /\ v # p /\ v # w /\ p # w /\ v \in U \cup {nil}
           /\ t[d][p] = v /\ t[Other(d)][p] = w
           /\ t[d][w] \in U \cup {nil} /\ t[Other(d)][w] \in U \cup {nil}
           /\ U \subseteq AllNodes /\ nil \notin U /\ nil \in AllNodes
           /\ RED # BLACK /\ t.color[nil] = BLACK /\ t.color \in [AllNodes -> {RED, BLACK}]
           /\ t.color[v] = BLACK /\ v # t.root
  <1>1. PICK D, h : /\ Facing(t, d, U, D, h, "delete", v)
                    /\ Beside(t.root, t[d], t[Other(d)], t.parent, t.color, U, v, p, w)
    BY DEF DoublyBlack
  <1>2. t \in TreeRecords /\ d \in Directions /\ t.color[v] = BLACK
    BY DEF DoublyBlack
  <1>3. PICK R : R = IF d = "left" THEN Le ELSE Ge
    OBVIOUS
  <1>4. Sound(t.root, t[d], t[Other(d)], t.parent, t.color, U, D, R, h, "delete", v)
    BY <1>1, <1>3 DEF Facing
  <1>5. /\ p \in U /\ w \in U \cup {nil} /\ v \in U \cup {nil} /\ w # v /\ p # v /\ p # w
        /\ U \subseteq AllNodes /\ nil \notin U /\ nil \in AllNodes
        /\ t.color[nil] = BLACK /\ RED # BLACK /\ t.color \in [AllNodes -> {RED, BLACK}]
        /\ w # nil
    BY <1>1, <1>2, <1>4, Siblings
  <1>6. t[d][p] = v /\ t[Other(d)][p] = w /\ v # t.root /\ (v = nil => t.parent[v] = p)
    BY <1>1 DEF Beside
  <1>7. v # nil => t.parent[v] = p
    BY <1>4, <1>5, <1>6, ChildOf DEF Sound
  <1>8. t[d][w] \in U \cup {nil} /\ t[Other(d)][w] \in U \cup {nil}
    BY <1>1, <1>2, <1>5, SaneNodes
  <1>9. QED  BY <1>2, <1>5, <1>6, <1>7, <1>8

LEMMA LoopsDoublyBlack ==
    ASSUME Sane(tree, used, pc, x), DeleteLoops,
           NEW d, d = Side(tree, x), NEW p, p = tree.parent[x], NEW w, w = tree[Other(d)][p]
    PROVE  DoublyBlack(tree, d, used, x, p, w)
  <1>1. PICK D, h : tree \in TreeRecords /\ Facing(tree, "left", used, D, h, "delete", x)
    BY DEF Sane, DeleteLoops
  <1>2. x # tree.root /\ tree.color[x] = BLACK
    BY DEF DeleteLoops
  <1>3. /\ Shape(tree.root, tree.left, tree.right, tree.parent, used, D)
        /\ HeldNode(tree.root, tree.left, tree.right, tree.parent, tree.color, used, "delete", x)
    BY <1>1, Others DEF Facing, Sound
  <1>4. x \in used \cup {nil}
    BY <1>3 DEF HeldNode
  <1>5. d \in Directions /\ tree[d][p] = x /\ p \in used
    <2>1. CASE x \in used
      BY <1>1, <1>2, <2>1, SideIs
    <2>2. CASE x = nil
      <3>1. /\ tree.parent[nil] \in used
            /\ tree.left[tree.parent[nil]] = nil \/ tree.right[tree.parent[nil]] = nil
        BY <1>2, <1>3, <2>2 DEF HeldNode
      <3>2. QED  BY <2>2, <3>1 DEF Side, Directions
    <2>3. QED  BY <1>4, <2>1, <2>2
  <1>6. \E F, k : Facing(tree, d, used, F, k, "delete", x)
    <2>1. Sane(tree, used, "delete", x)
      BY <1>1 DEF Sane
    <2>2. QED  BY <1>1, <1>5, <2>1, EitherWay
  <1>7. Beside(tree.root, tree[d], tree[Other(d)], tree.parent, tree.color, used, x, p, w)
    BY <1>2, <1>5 DEF Beside
  <1>8. QED  BY <1>1, <1>2, <1>5, <1>6, <1>7 DEF DoublyBlack

WithBlack(u, d, U, v, p) == \E y : DoublyBlack(u, d, U, v, p, y) /\ u.color[y] = BLACK

WithRed(u, d, U, v, p) ==
    \E y : DoublyBlack(u, d, U, v, p, y) /\ u.color[y] = BLACK /\ u.color[u[Other(d)][y]] = RED

LEMMA BlackSiblingKeeps ==
    ASSUME NEW t, NEW d, NEW U, NEW v, NEW p, NEW w, DoublyBlack(t, d, U, v, p, w), t.color[w] = RED,
           NEW u, u = Rotate([t EXCEPT !.color[w] = BLACK, !.color[p] = RED], p, d)
    PROVE  WithBlack(u, d, U, v, p)
  <1>1. PICK D, h : /\ Facing(t, d, U, D, h, "delete", v)
                    /\ Beside(t.root, t[d], t[Other(d)], t.parent, t.color, U, v, p, w)
    BY DEF DoublyBlack
  <1>2. t \in TreeRecords /\ d \in Directions /\ t.color[v] = BLACK
    BY DEF DoublyBlack
  <1>3. PICK R : R = IF d = "left" THEN Le ELSE Ge
    OBVIOUS
  <1>4. Sound(t.root, t[d], t[Other(d)], t.parent, t.color, U, D, R, h, "delete", v)
    BY <1>1, <1>3 DEF Facing
  <1>5. PICK e : e = [t.color EXCEPT ![w] = BLACK, ![p] = RED]
    OBVIOUS
  <1>6. PICK q : q = [t EXCEPT !.color[w] = BLACK, !.color[p] = RED]
    OBVIOUS
  <1>7. /\ p \in U /\ w \in U /\ v # p /\ v # w /\ t[Other(d)][p] = w /\ v \in U \cup {nil}
        /\ U \subseteq AllNodes /\ nil \notin U /\ nil \in AllNodes
    BY AboutDoublyBlack
  <1>8. /\ q \in TreeRecords /\ q.color = e
        /\ q.root = t.root /\ q.left = t.left /\ q.right = t.right /\ q.parent = t.parent
    BY <1>2, <1>5, <1>6, <1>7 DEF TreeRecords
  <1>9. q[d] = t[d] /\ q[Other(d)] = t[Other(d)]
    BY <1>2, <1>8, RecoloredLinks
  <1>10. Shape(q.root, q[d], q[Other(d)], q.parent, U, D)
    BY <1>4, <1>8, <1>9 DEF Sound
  <1>11. /\ u \in TreeRecords /\ u.color = e
         /\ Rotated(t.root, t[d], t[Other(d)], t.parent, p, u.root, u[d], u[Other(d)], u.parent)
    <2>1. u = Rotate(q, p, d) /\ q[Other(d)][p] # nil
      BY <1>6, <1>7, <1>9
    <2>2. /\ u \in TreeRecords /\ u.color = q.color
          /\ Rotated(q.root, q[d], q[Other(d)], q.parent, p, u.root, u[d], u[Other(d)], u.parent)
      BY <1>2, <1>7, <1>8, <1>10, <2>1, RotateIs
    <2>3. QED  BY <1>8, <1>9, <2>2
  <1>12. PICK y : y = t[d][w]
    OBVIOUS
  <1>13. /\ \E G : Sound(u.root, u[d], u[Other(d)], u.parent, e, U, G, R, h, "delete", v)
         /\ Beside(u.root, u[d], u[Other(d)], u.parent, e, U, v, p, y) /\ e[y] = BLACK
    <2>1. PICK A, B, P, c, r : A = t[d] /\ B = t[Other(d)] /\ P = t.parent /\ c = t.color /\ r = t.root
      OBVIOUS
    <2>2. PICK s, C, E, Q : s = u.root /\ C = u[d] /\ E = u[Other(d)] /\ Q = u.parent
      OBVIOUS
    <2>3. /\ Sound(r, A, B, P, c, U, D, R, h, "delete", v) /\ Beside(r, A, B, P, c, U, v, p, w)
          /\ c[w] = RED /\ e = [c EXCEPT ![w] = BLACK, ![p] = RED]
          /\ Rotated(r, A, B, P, p, s, C, E, Q)
      BY <1>1, <1>4, <1>5, <1>11, <2>1, <2>2
    <2>4. /\ \E G : Sound(s, C, E, Q, e, U, G, R, h, "delete", v)
          /\ Beside(s, C, E, Q, e, U, v, p, A[w]) /\ e[A[w]] = BLACK
      <3>1. RedSibling(r, A, B, P, c, U, D, R, h, v, p, w, e, s, C, E, Q)
        BY <2>3 DEF RedSibling
      <3>2. QED  BY <3>1, BlackSiblingTurned
    <2>5. QED  BY <1>12, <2>1, <2>2, <2>4
  <1>14. \E G, k : Facing(u, d, U, G, k, "delete", v)
    BY <1>3, <1>11, <1>13 DEF Facing
  <1>15. e[v] = BLACK
    <2>1. t.color \in [AllNodes -> {RED, BLACK}] /\ v \in AllNodes
      BY <1>2, <1>7 DEF TreeRecords
    <2>2. QED  BY <1>2, <1>5, <1>7, <2>1
  <1>16. DoublyBlack(u, d, U, v, p, y)
    BY <1>2, <1>11, <1>13, <1>14, <1>15 DEF DoublyBlack
  <1>17. QED  BY <1>11, <1>13, <1>16 DEF WithBlack

LEMMA RedOutsideKeeps ==
    ASSUME NEW t, NEW d, NEW U, NEW v, NEW p, NEW w, DoublyBlack(t, d, U, v, p, w), t.color[w] = BLACK,
           t.color[t[Other(d)][w]] = BLACK, t.color[t[d][w]] = RED,
           NEW u, u = Rotate([t EXCEPT !.color[t[d][w]] = BLACK, !.color[w] = RED], w, Other(d))
    PROVE  WithRed(u, d, U, v, p)
  <1>1. PICK o : o = Other(d)
    OBVIOUS
  <1>2. t \in TreeRecords /\ d \in Directions /\ o \in Directions /\ Other(o) = d /\ t.color[v] = BLACK
    BY <1>1, Others DEF DoublyBlack
  <1>3. PICK D, h : /\ Facing(t, d, U, D, h, "delete", v)
                    /\ Beside(t.root, t[d], t[o], t.parent, t.color, U, v, p, w)
    BY <1>1 DEF DoublyBlack
  <1>4. PICK R : R = IF o = "left" THEN Le ELSE Ge
    OBVIOUS
  <1>5. Sound(t.root, t[o], t[d], t.parent, t.color, U, D, R, h, "delete", v)
    BY <1>1, <1>2, <1>3, <1>4, FacingSwap DEF Facing
  <1>6. PICK y : y = t[d][w]
    OBVIOUS
  <1>7. PICK e : e = [t.color EXCEPT ![y] = BLACK, ![w] = RED]
    OBVIOUS
  <1>8. PICK q : q = [t EXCEPT !.color[y] = BLACK, !.color[w] = RED]
    OBVIOUS
  <1>9. /\ p \in U /\ w \in U /\ v # p /\ v # w /\ v \in U \cup {nil}
        /\ y \in U /\ y # nil
        /\ U \subseteq AllNodes /\ nil \notin U /\ nil \in AllNodes
    BY <1>6, AboutDoublyBlack
  <1>10. /\ q \in TreeRecords /\ q.color = e
         /\ q.root = t.root /\ q.left = t.left /\ q.right = t.right /\ q.parent = t.parent
    BY <1>2, <1>7, <1>8, <1>9 DEF TreeRecords
  <1>11. q[d] = t[d] /\ q[o] = t[o]
    BY <1>1, <1>2, <1>10, RecoloredLinks
  <1>12. Shape(q.root, q[o], q[d], q.parent, U, D)
    BY <1>5, <1>10, <1>11 DEF Sound
  <1>13. /\ u \in TreeRecords /\ u.color = e
         /\ Rotated(t.root, t[o], t[d], t.parent, w, u.root, u[o], u[d], u.parent)
    <2>1. u = Rotate(q, w, o) /\ q[Other(o)][w] # nil
      BY <1>1, <1>2, <1>6, <1>8, <1>9, <1>11
    <2>2. /\ u \in TreeRecords /\ u.color = q.color
          /\ Rotated(q.root, q[o], q[Other(o)], q.parent, w, u.root, u[o], u[Other(o)], u.parent)
      BY <1>2, <1>9, <1>10, <1>12, <2>1, RotateIs
    <2>3. QED  BY <1>2, <1>10, <1>11, <2>2
  <1>14. /\ \E G : Sound(u.root, u[o], u[d], u.parent, e, U, G, R, h, "delete", v)
         /\ Beside(u.root, u[d], u[o], u.parent, e, U, v, p, y) /\ e[y] = BLACK
         /\ u[o][y] = w /\ e[w] = RED
    <2>1. w # nil /\ t[d][w] # nil /\ t.color[t[o][w]] = BLACK
      BY <1>1, <1>6, <1>9
    <2>2. e = [t.color EXCEPT ![t[d][w]] = BLACK, ![w] = RED]
      BY <1>6, <1>7
    <2>3. /\ \E G : Sound(u.root, u[o], u[d], u.parent, e, U, G, R, h, "delete", v)
          /\ Beside(u.root, u[d], u[o], u.parent, e, U, v, p, t[d][w]) /\ e[t[d][w]] = BLACK
          /\ u[o][t[d][w]] = w /\ e[w] = RED
      <3>1. PICK A, B, P, c, r : A = t[o] /\ B = t[d] /\ P = t.parent /\ c = t.color /\ r = t.root
        OBVIOUS
      <3>2. PICK s, C, E, Q : s = u.root /\ C = u[o] /\ E = u[d] /\ Q = u.parent
        OBVIOUS
      <3>3. /\ Sound(r, A, B, P, c, U, D, R, h, "delete", v) /\ Beside(r, B, A, P, c, U, v, p, w)
            /\ c[w] = BLACK /\ w # nil /\ c[A[w]] = BLACK /\ c[B[w]] = RED /\ B[w] # nil
            /\ e = [c EXCEPT ![B[w]] = BLACK, ![w] = RED]
            /\ Rotated(r, A, B, P, w, s, C, E, Q)
        BY <1>3, <1>5, <1>13, <2>1, <2>2, <3>1, <3>2
      <3>4. /\ \E G : Sound(s, C, E, Q, e, U, G, R, h, "delete", v)
            /\ Beside(s, E, C, Q, e, U, v, p, B[w]) /\ e[B[w]] = BLACK
            /\ C[B[w]] = w /\ e[w] = RED
        <4>1. RedInside(r, A, B, P, c, U, D, R, h, v, p, w, e, s, C, E, Q)
          BY <3>3 DEF RedInside
        <4>2. QED  BY <4>1, RedOutsideTurned
      <3>5. QED  BY <3>1, <3>2, <3>4
    <2>4. QED  BY <1>6, <2>3
  <1>15. \E G, k : Facing(u, d, U, G, k, "delete", v)
    <2>1. \E G : Facing(u, o, U, G, h, "delete", v)
      BY <1>2, <1>4, <1>13, <1>14 DEF Facing
    <2>2. QED  BY <1>2, <2>1, FacingSwap
  <1>16. e[v] = BLACK
    <2>1. t.color \in [AllNodes -> {RED, BLACK}] /\ v \in AllNodes /\ w \in AllNodes /\ y \in AllNodes
      BY <1>2, <1>9 DEF TreeRecords
    <2>2. QED  BY <1>2, <1>7, <1>9, <2>1
  <1>17. DoublyBlack(u, d, U, v, p, y)
    BY <1>1, <1>2, <1>13, <1>14, <1>15, <1>16 DEF DoublyBlack
  <1>18. QED  BY <1>1, <1>13, <1>14, <1>17 DEF WithRed
LEMMA MendingKeeps ==
    ASSUME NEW t, NEW d, NEW U, NEW v, NEW p, NEW w, DoublyBlack(t, d, U, v, p, w), t.color[w] = BLACK,
           t.color[t[Other(d)][w]] = RED,
           NEW u, u = Rotate([t EXCEPT !.color[w] = t.color[p], !.color[p] = BLACK,
                                       !.color[t[Other(d)][w]] = BLACK], p, d)
    PROVE  Sane(u, U, "delete", u.root)
  <1>1. PICK D, h : /\ Facing(t, d, U, D, h, "delete", v)
                    /\ Beside(t.root, t[d], t[Other(d)], t.parent, t.color, U, v, p, w)
    BY DEF DoublyBlack
  <1>2. t \in TreeRecords /\ d \in Directions /\ t.color[v] = BLACK
    BY DEF DoublyBlack
  <1>3. PICK R : R = IF d = "left" THEN Le ELSE Ge
    OBVIOUS
  <1>4. Sound(t.root, t[d], t[Other(d)], t.parent, t.color, U, D, R, h, "delete", v)
    BY <1>1, <1>3 DEF Facing
  <1>5. PICK far : far = t[Other(d)][w]
    OBVIOUS
  <1>6. PICK e : e = [t.color EXCEPT ![w] = t.color[p], ![p] = BLACK, ![far] = BLACK]
    OBVIOUS
  <1>7. PICK q : q = [t EXCEPT !.color[w] = t.color[p], !.color[p] = BLACK, !.color[far] = BLACK]
    OBVIOUS
  <1>8. /\ p \in U /\ w \in U /\ v # p /\ v # w /\ t[Other(d)][p] = w
        /\ far \in U /\ far # nil
        /\ U \subseteq AllNodes /\ nil \notin U /\ nil \in AllNodes
    BY <1>5, AboutDoublyBlack
  <1>9. /\ q \in TreeRecords /\ q.color = e
        /\ q.root = t.root /\ q.left = t.left /\ q.right = t.right /\ q.parent = t.parent
    <2>1. t.color[p] \in {RED, BLACK}
      BY <1>2, <1>8 DEF TreeRecords
    <2>2. PICK q1 : q1 = [t EXCEPT !.color[w] = t.color[p]]
      OBVIOUS
    <2>3. PICK q2 : q2 = [q1 EXCEPT !.color[p] = BLACK]
      OBVIOUS
    <2>4. q1 \in TreeRecords
      BY <1>2, <1>8, <2>1, <2>2 DEF TreeRecords
    <2>5. q2 \in TreeRecords
      BY <1>8, <2>3, <2>4 DEF TreeRecords
    <2>6. q = [q2 EXCEPT !.color[far] = BLACK]
      BY <1>7, <2>2, <2>3
    <2>7. q \in TreeRecords
      BY <1>8, <2>5, <2>6 DEF TreeRecords
    <2>8. /\ q.color = e
          /\ q.root = t.root /\ q.left = t.left /\ q.right = t.right /\ q.parent = t.parent
      BY <1>2, <1>6, <1>7 DEF TreeRecords
    <2>9. QED  BY <2>7, <2>8
  <1>10. q[d] = t[d] /\ q[Other(d)] = t[Other(d)]
    BY <1>2, <1>9, RecoloredLinks
  <1>11. Shape(q.root, q[d], q[Other(d)], q.parent, U, D)
    BY <1>4, <1>9, <1>10 DEF Sound
  <1>12. /\ u \in TreeRecords /\ u.color = e
         /\ Rotated(t.root, t[d], t[Other(d)], t.parent, p, u.root, u[d], u[Other(d)], u.parent)
    <2>1. u = Rotate(q, p, d) /\ q[Other(d)][p] # nil
      BY <1>5, <1>7, <1>8, <1>10
    <2>2. /\ u \in TreeRecords /\ u.color = q.color
          /\ Rotated(q.root, q[d], q[Other(d)], q.parent, p, u.root, u[d], u[Other(d)], u.parent)
      BY <1>2, <1>8, <1>9, <1>11, <2>1, RotateIs
    <2>3. QED  BY <1>9, <1>10, <2>2
  <1>13. \E G, g : Sound(u.root, u[d], u[Other(d)], u.parent, e, U, G, R, g, "delete", u.root)
    <2>1. PICK A, B, P, c, r : A = t[d] /\ B = t[Other(d)] /\ P = t.parent /\ c = t.color /\ r = t.root
      OBVIOUS
    <2>2. PICK s, C, E, Q : s = u.root /\ C = u[d] /\ E = u[Other(d)] /\ Q = u.parent
      OBVIOUS
    <2>3. RedFar(r, A, B, P, c, U, D, R, h, v, p, w, far, e, s, C, E, Q)
      BY <1>1, <1>2, <1>4, <1>5, <1>6, <1>8, <1>12, <2>1, <2>2 DEF RedFar
    <2>4. \E G, g : Sound(s, C, E, Q, e, U, G, R, g, "delete", s)
      BY <2>3, MendingTurned
    <2>5. QED  BY <2>2, <2>4
  <1>14. \E G, g : Facing(u, d, U, G, g, "delete", u.root)
    BY <1>3, <1>12, <1>13 DEF Facing
  <1>15. QED  BY <1>2, <1>12, <1>14, EitherWay

LEMMA RecolorKeeps ==
    ASSUME NEW t, NEW d, NEW U, NEW v, NEW p, NEW w, DoublyBlack(t, d, U, v, p, w), t.color[w] = BLACK,
           t.color[t.left[w]] = BLACK, t.color[t.right[w]] = BLACK,
           NEW u, u = [t EXCEPT !.color[w] = RED]
    PROVE  Sane(u, U, "delete", p)
  <1>1. PICK D, h : /\ Facing(t, d, U, D, h, "delete", v)
                    /\ Beside(t.root, t[d], t[Other(d)], t.parent, t.color, U, v, p, w)
    BY DEF DoublyBlack
  <1>2. t \in TreeRecords /\ d \in Directions /\ t.color[v] = BLACK
    BY DEF DoublyBlack
  <1>3. PICK A, B, P, c, r, R : /\ A = t[d] /\ B = t[Other(d)] /\ P = t.parent /\ c = t.color /\ r = t.root
                                /\ R = IF d = "left" THEN Le ELSE Ge
    OBVIOUS
  <1>4. Sound(r, A, B, P, c, U, D, R, h, "delete", v) /\ Beside(r, A, B, P, c, U, v, p, w)
    BY <1>1, <1>3 DEF Facing
  <1>5. c[v] = BLACK /\ c[w] = BLACK /\ c[A[w]] = BLACK /\ c[B[w]] = BLACK
    BY <1>2, <1>3 DEF Other, Directions
  <1>6. PICK e : e = [c EXCEPT ![w] = RED]
    OBVIOUS
  <1>7. PICK g : Sound(r, A, B, P, e, U, D, R, g, "delete", p)
    BY <1>4, <1>5, <1>6, SiblingRecolored
  <1>8. w \in AllNodes
    BY AboutDoublyBlack
  <1>9. /\ u \in TreeRecords /\ u.color = e
        /\ u.root = t.root /\ u.left = t.left /\ u.right = t.right /\ u.parent = t.parent
    BY <1>2, <1>3, <1>6, <1>8 DEF TreeRecords
  <1>10. u[d] = A /\ u[Other(d)] = B
    BY <1>2, <1>3, <1>9, RecoloredLinks
  <1>11. Facing(u, d, U, D, g, "delete", p)
    BY <1>3, <1>7, <1>9, <1>10 DEF Facing
  <1>12. QED  BY <1>2, <1>9, <1>11, EitherWay

\* The tree after the first part of the turn.
LEMMA BlackSiblingIs ==
    ASSUME Sane(tree, used, pc, x), DeleteLoops,
           NEW d, d = Side(tree, x), NEW t, t = BlackSibling(tree, d)
    PROVE  \E p, w : DoublyBlack(t, d, used, x, p, w) /\ t.color[w] = BLACK
  <1>1. PICK p, w : p = tree.parent[x] /\ w = tree[Other(d)][p]
    OBVIOUS
  <1>2. DoublyBlack(tree, d, used, x, p, w)
    BY <1>1, LoopsDoublyBlack
  <1>3. CASE tree.color[w] = RED
    <2>1. t = Rotate([tree EXCEPT !.color[w] = BLACK, !.color[p] = RED], p, d)
      BY <1>1, <1>3 DEF BlackSibling
    <2>2. WithBlack(t, d, used, x, p)
      BY <1>2, <1>3, <2>1, BlackSiblingKeeps
    <2>3. QED  BY <2>2 DEF WithBlack
  <1>4. CASE tree.color[w] # RED
    <2>1. t = tree
      BY <1>1, <1>4 DEF BlackSibling
    <2>2. tree.color[w] = BLACK
      BY <1>2, <1>4, AboutDoublyBlack
    <2>3. QED  BY <1>2, <2>1, <2>2
  <1>5. QED  BY <1>3, <1>4

LEMMA DeleteRecolorKeeps ==
    ASSUME Sane(tree, used, pc, x), DeleteRecolor
    PROVE  Sane(tree', used', pc', x')
  <1>1. DeleteLoops /\ used' = used /\ pc' = pc /\ pc = "delete"
    BY DEF DeleteRecolor, DeleteLoops
  <1>2. PICK d, t : d = Side(tree, x) /\ t = BlackSibling(tree, d)
    OBVIOUS
  <1>3. PICK p, w : DoublyBlack(t, d, used, x, p, w) /\ t.color[w] = BLACK
    BY <1>1, <1>2, BlackSiblingIs
  <1>4. t.parent[x] = p /\ t[Other(d)][p] = w
    BY <1>3, AboutDoublyBlack
  <1>5. BlackChildren(t, w) /\ tree' = [t EXCEPT !.color[w] = RED] /\ x' = p
    BY <1>2, <1>4 DEF DeleteRecolor
  <1>6. Sane(tree', used, "delete", p)
    BY <1>3, <1>5, RecolorKeeps DEF BlackChildren
  <1>7. QED  BY <1>1, <1>5, <1>6

LEMMA DeleteRotateKeeps ==
    ASSUME Sane(tree, used, pc, x), DeleteRotate
    PROVE  Sane(tree', used', pc', x')
  <1>1. DeleteLoops /\ used' = used /\ pc' = pc /\ pc = "delete" /\ x' = tree'.root
    BY DEF DeleteRotate, DeleteLoops
  <1>2. PICK d, o, t : d = Side(tree, x) /\ o = Other(d) /\ t = BlackSibling(tree, d)
    OBVIOUS
  <1>3. PICK p, w : DoublyBlack(t, d, used, x, p, w) /\ t.color[w] = BLACK
    BY <1>1, <1>2, BlackSiblingIs
  <1>4. /\ t.parent[x] = p /\ t[o][p] = w /\ d \in Directions
        /\ t[d][w] \in AllNodes /\ t[o][w] \in AllNodes
        /\ RED # BLACK /\ t.color \in [AllNodes -> {RED, BLACK}]
    <2>1. /\ t.parent[x] = p /\ t[o][p] = w
          /\ t[d][w] \in used \cup {nil} /\ t[o][w] \in used \cup {nil}
          /\ used \subseteq AllNodes /\ nil \in AllNodes
          /\ RED # BLACK /\ t.color \in [AllNodes -> {RED, BLACK}]
      BY <1>2, <1>3, AboutDoublyBlack
    <2>2. d \in Directions
      BY <1>3 DEF DoublyBlack
    <2>3. QED  BY <2>1, <2>2
  <1>5. PICK u : u = RedOutside(t, w, d)
    OBVIOUS
  <1>6. /\ ~ BlackChildren(t, w)
        /\ tree' = Rotate([u EXCEPT !.color[u[o][u.parent[x]]] = u.color[u.parent[x]],
                                    !.color[u.parent[x]] = BLACK,
                                    !.color[u[o][u[o][u.parent[x]]]] = BLACK],
                          u.parent[x], d)
    BY <1>2, <1>4, <1>5 DEF DeleteRotate
  <1>7. \E y : DoublyBlack(u, d, used, x, p, y) /\ u.color[y] = BLACK /\ u.color[u[o][y]] = RED
    <2>1. CASE t.color[t[o][w]] = BLACK
      <3>1. u = Rotate([t EXCEPT !.color[t[d][w]] = BLACK, !.color[w] = RED], w, o)
        BY <1>2, <1>5, <2>1 DEF RedOutside
      <3>2. t.color[t[d][w]] = RED
        <4>1. t.color[t[d][w]] # BLACK
          BY <1>2, <1>4, <1>6, <2>1 DEF BlackChildren, Other, Directions
        <4>2. QED  BY <1>4, <4>1
      <3>3. t.color[t[Other(d)][w]] = BLACK
        BY <1>2, <2>1
      <3>4. u = Rotate([t EXCEPT !.color[t[d][w]] = BLACK, !.color[w] = RED], w, Other(d))
        BY <1>2, <3>1
      <3>5. WithRed(u, d, used, x, p)
        BY <1>3, <3>2, <3>3, <3>4, RedOutsideKeeps
      <3>6. QED  BY <1>2, <3>5 DEF WithRed
    <2>2. CASE t.color[t[o][w]] # BLACK
      <3>1. u = t
        BY <1>2, <1>5, <2>2 DEF RedOutside
      <3>2. t.color[t[o][w]] = RED
        BY <1>4, <2>2
      <3>3. QED  BY <1>3, <3>1, <3>2
    <2>3. QED  BY <2>1, <2>2
  <1>8. PICK y : DoublyBlack(u, d, used, x, p, y) /\ u.color[y] = BLACK /\ u.color[u[o][y]] = RED
    BY <1>7
  <1>9. u.parent[x] = p /\ u[o][p] = y
    BY <1>2, <1>8, AboutDoublyBlack
  <1>10. tree' = Rotate([u EXCEPT !.color[y] = u.color[p], !.color[p] = BLACK,
                                  !.color[u[Other(d)][y]] = BLACK], p, d)
    BY <1>2, <1>6, <1>9
  <1>11. Sane(tree', used, "delete", tree'.root)
    BY <1>2, <1>8, <1>10, MendingKeeps
  <1>12. QED  BY <1>1, <1>11

LEMMA DeleteDoneKeeps ==
    ASSUME Sane(tree, used, pc, x), DeleteDone
    PROVE  Sane(tree', used', pc', x')
  <1>1. /\ pc = "delete" /\ ~ (x # tree.root /\ tree.color[x] = BLACK)
        /\ tree' = [tree EXCEPT !.color[x] = BLACK]
        /\ pc' = "idle" /\ x' = nullptr /\ used' = used
    BY DEF DeleteDone, DeleteLoops
  <1>2. PICK D, h : tree \in TreeRecords /\ Facing(tree, "left", used, D, h, "delete", x)
    BY <1>1 DEF Sane
  <1>3. Sound(tree.root, tree.left, tree.right, tree.parent, tree.color, used, D, Le, h, "delete", x)
    BY <1>2, Others DEF Facing
  <1>4. x \in AllNodes /\ tree.color[x] \in {RED, BLACK}
    <2>1. x \in used \cup {nil}
      BY <1>3 DEF Sound, HeldNode
    <2>2. x \in AllNodes
      BY <1>2, <2>1, SaneNodes DEF Directions
    <2>3. QED  BY <1>2, <2>2 DEF TreeRecords
  <1>5. PICK e : e = [tree.color EXCEPT ![x] = BLACK]
    OBVIOUS
  <1>6. Sound(tree.root, tree.left, tree.right, tree.parent, e, used, D, Le, h, "idle", nullptr)
    BY <1>1, <1>3, <1>4, <1>5, DeleteEnded
  <1>7. /\ tree' \in TreeRecords /\ tree'.root = tree.root /\ tree'.color = e
        /\ tree'.left = tree.left /\ tree'.right = tree.right /\ tree'.parent = tree.parent
    BY <1>1, <1>2, <1>4, <1>5 DEF TreeRecords
  <1>8. Facing(tree', "left", used, D, h, "idle", nullptr)
    BY <1>6, <1>7, Others DEF Facing
  <1>9. QED  BY <1>1, <1>7, <1>8 DEF Sane
(***************************************************************************)
(* The loops that go down the tree.                                        *)
(***************************************************************************)

Repeated(n, S, base, step, w) ==
    /\ w \in [0..n -> S] /\ w[0] = base
    /\ \A i \in 1..n : w[i] = step[w[i - 1]]

LEMMA Repeats ==
    ASSUME NEW n \in Nat, NEW S, NEW base \in S, NEW step \in [S -> S]
    PROVE  \E w : Repeated(n, S, base, step, w)
  <1> DEFINE Ok(m) == \E w \in [0..m -> S] :
                         w[0] = base /\ \A i \in 1..m : w[i] = step[w[i - 1]]
  <1>1. PICK G : G = {m \in 0..n : Ok(m)}
    OBVIOUS
  <1>2. 0 \in G
    <2>1. PICK w : w = [i \in 0..0 |-> base]
      OBVIOUS
    <2>2. w \in [0..0 -> S] /\ w[0] = base /\ \A i \in 1..0 : w[i] = step[w[i - 1]]
      BY <2>1
    <2>3. Ok(0)
      BY <2>2
    <2>4. QED  BY <1>1, <2>3
  <1>3. ASSUME NEW m \in 0..n - 1, m \in G
        PROVE  m + 1 \in G
    <2>1. PICK w \in [0..m -> S] : w[0] = base /\ \A i \in 1..m : w[i] = step[w[i - 1]]
      BY <1>1, <1>3
    <2>2. w[m] \in S /\ step[w[m]] \in S
      <3>1. m \in 0..m
        OBVIOUS
      <3>2. w[m] \in S
        BY <3>1
      <3>3. QED  BY <3>2
    <2>3. PICK g : g = [i \in 0..m + 1 |-> IF i = m + 1 THEN step[w[m]] ELSE w[i]]
      OBVIOUS
    <2>4. g \in [0..m + 1 -> S] /\ g[0] = base
      BY <2>1, <2>2, <2>3
    <2>5. ASSUME NEW i \in 1..m + 1
          PROVE  g[i] = step[g[i - 1]]
      <3>1. CASE i = m + 1
        BY <2>3, <3>1
      <3>2. CASE i # m + 1
        BY <2>1, <2>3, <3>2
      <3>3. QED  BY <3>1, <3>2
    <2>6. Ok(m + 1) /\ m + 1 \in 0..n
      BY <2>4, <2>5
    <2>7. QED  BY <1>1, <2>6
  <1>4. \A m \in 0..n : m \in G
    BY <1>2, <1>3, Induction
  <1>5. n \in 0..n
    OBVIOUS
  <1>6. Ok(n)
    BY <1>1, <1>4, <1>5
  <1>7. QED  BY <1>6 DEF Repeated

LEMMA FollowsSteps ==
    ASSUME NEW n \in Nat, NEW S, NEW base \in S, NEW step \in [S -> S],
           NEW w, w = [i \in 0..n |-> w[i]], w[0] = base,
           \A i \in 1..n : w[i - 1] \in S => w[i] = step[w[i - 1]]
    PROVE  Repeated(n, S, base, step, w)
  <1>1. PICK G : G = {i \in 0..n : w[i] \in S}
    OBVIOUS
  <1>2. 0 \in G
    BY <1>1
  <1>3. ASSUME NEW m \in 0..n - 1, m \in G
        PROVE  m + 1 \in G
    <2>1. m + 1 \in 1..n /\ m + 1 \in 0..n /\ (m + 1) - 1 = m /\ w[m] \in S
      BY <1>1, <1>3
    <2>2. w[m + 1] = step[w[m]]
      BY <2>1
    <2>3. QED  BY <1>1, <2>1, <2>2
  <1>4. \A i \in 0..n : i \in G
    BY <1>2, <1>3, Induction
  <1>5. \A i \in 0..n : w[i] \in S
    BY <1>1, <1>4
  <1>6. w \in [0..n -> S]
    BY <1>5
  <1>7. \A i \in 1..n : i - 1 \in 0..n
    OBVIOUS
  <1>8. \A i \in 1..n : w[i] = step[w[i - 1]]
    BY <1>5, <1>7
  <1>9. QED  BY <1>6, <1>8 DEF Repeated

\* What the steps keep holds at the end.
LEMMA RepeatedKeeps ==
    ASSUME NEW n \in Nat, NEW S, NEW base, NEW step, NEW w, Repeated(n, S, base, step, w),
           NEW T, base \in T, \A v \in S : v \in T => step[v] \in T
    PROVE  w[n] \in T /\ w[n] \in S
  <1>1. PICK G : G = {i \in 0..n : w[i] \in T}
    OBVIOUS
  <1>2. 0 \in G
    BY <1>1 DEF Repeated
  <1>3. ASSUME NEW m \in 0..n - 1, m \in G
        PROVE  m + 1 \in G
    <2>1. m + 1 \in 1..n /\ m + 1 \in 0..n /\ (m + 1) - 1 = m /\ w[m] \in T
      BY <1>1, <1>3
    <2>2. w[m + 1] = step[w[m]]
      BY <2>1 DEF Repeated
    <2>3. w[m] \in S
      BY DEF Repeated
    <2>4. QED  BY <1>1, <2>1, <2>2, <2>3
  <1>4. \A i \in 0..n : i \in G
    BY <1>2, <1>3, Induction
  <1>5. n \in 0..n
    OBVIOUS
  <1>6. QED  BY <1>1, <1>4, <1>5 DEF Repeated

\* Steps that bring a number down come to rest.
LEMMA Settles ==
    ASSUME NEW n \in Nat, NEW S, NEW base \in S, NEW step \in [S -> S], NEW w, Repeated(n, S, base, step, w),
           NEW mu \in [S -> Nat], mu[base] <= n,
           \A v \in S : step[v] = v \/ mu[step[v]] < mu[v]
    PROVE  step[w[n]] = w[n]
  <1>1. PICK G : G = {i \in 0..n : step[w[i]] = w[i] \/ mu[w[i]] <= n - i}
    OBVIOUS
  <1>2. 0 \in G
    BY <1>1 DEF Repeated
  <1>3. ASSUME NEW m \in 0..n - 1, m \in G
        PROVE  m + 1 \in G
    <2>1. m + 1 \in 1..n /\ m + 1 \in 0..n /\ (m + 1) - 1 = m /\ m \in 0..n
      OBVIOUS
    <2>2. w[m + 1] = step[w[m]] /\ w[m] \in S /\ w[m + 1] \in S
      BY <2>1 DEF Repeated
    <2>3. mu[w[m]] \in Nat /\ mu[w[m + 1]] \in Nat
      BY <2>2
    <2>4. CASE step[w[m]] = w[m]
      BY <1>1, <2>1, <2>2, <2>4
    <2>5. CASE step[w[m]] # w[m]
      <3>1. mu[w[m]] <= n - m /\ mu[w[m + 1]] < mu[w[m]]
        BY <1>1, <1>3, <2>2, <2>5
      <3>2. mu[w[m + 1]] <= n - (m + 1)
        BY <2>3, <3>1
      <3>3. QED  BY <1>1, <2>1, <3>2
    <2>6. QED  BY <2>4, <2>5
  <1>4. \A i \in 0..n : i \in G
    BY <1>2, <1>3, Induction
  <1>5. n \in 0..n /\ n - n = 0
    OBVIOUS
  <1>6. step[w[n]] = w[n] \/ mu[w[n]] <= 0
    BY <1>1, <1>4, <1>5
  <1>7. w[n] \in S
    BY <1>5 DEF Repeated
  <1>8. mu[w[n]] \in Nat /\ mu[step[w[n]]] \in Nat
    BY <1>7
  <1>9. QED  BY <1>6, <1>7, <1>8

\* The number of nodes from n down, and from its children down.
LEMMA BelowCounts ==
    ASSUME NEW r, NEW A, NEW B, NEW P, NEW U, NEW D, Shape(r, A, B, P, U, D)
    PROVE  /\ Turns \in Nat
           /\ [m \in U \cup {nil} |-> Cardinality(D[m])] \in [U \cup {nil} -> Nat]
           /\ Cardinality(D[r]) <= Turns
           /\ \A n \in U : /\ Cardinality(D[n]) <= Turns
                           /\ Cardinality(D[A[n]]) < Cardinality(D[n])
                           /\ Cardinality(D[B[n]]) < Cardinality(D[n])
  <1>1. /\ U \subseteq Nodes /\ D \in [AllNodes -> SUBSET U] /\ r \in U \cup {nil}
        /\ U \subseteq AllNodes /\ nil \in AllNodes
    BY DEF Shape, AllNodes
  <1>2. Turns \in Nat
    BY NilIsNoNode, FS_CardinalityType DEF Turns
  <1>3. \A m \in AllNodes : IsFiniteSet(D[m]) /\ Cardinality(D[m]) \in Nat /\ Cardinality(D[m]) <= Turns
    <2>1. ASSUME NEW m \in AllNodes
          PROVE  IsFiniteSet(D[m]) /\ Cardinality(D[m]) \in Nat /\ Cardinality(D[m]) <= Turns
      <3>1. D[m] \in SUBSET Nodes
        BY <1>1
      <3>2. IsFiniteSet(D[m]) /\ Cardinality(D[m]) <= Cardinality(Nodes)
        BY <3>1, NilIsNoNode, FS_Subset
      <3>3. QED  BY <3>2, FS_CardinalityType DEF Turns
    <2>2. QED  BY <2>1
  <1>4. ASSUME NEW n \in U, NEW ch \in {A[n], B[n]}
        PROVE  Cardinality(D[ch]) < Cardinality(D[n])
    <2>1. NodeAt(A, B, P, U, D, n)
      BY DEF Shape
    <2>2. D[ch] \subseteq D[n] /\ n \in D[n] /\ n \notin D[ch]
      BY <2>1 DEF NodeAt
    <2>3. QED  BY <1>1, <1>3, <2>2, SmallerPart
  <1>5. QED  BY <1>1, <1>2, <1>3, <1>4

\* What is below a child is the child or has its parent there.
LEMMA BelowChild ==
    ASSUME NEW r, NEW A, NEW B, NEW P, NEW U, NEW D, Shape(r, A, B, P, U, D),
           NEW m \in U, NEW e \in {A[m], B[m]}, NEW n \in U, n \in D[e]
    PROVE  n # r /\ (n = e \/ P[n] \in D[e])
  <1>1. D[nil] = {} /\ e \in U \cup {nil} /\ U \subseteq AllNodes
    BY DEF Shape, NodeAt, AllNodes
  <1>2. e \in U
    BY <1>1
  <1>3. n = e \/ P[n] \in D[e]
    BY <1>2, ParentBelow
  <1>4. n # r
    <2>1. CASE n = e
      BY <1>1, <2>1, ChildOf
    <2>2. CASE n # e
      <3>1. P[n] \in D[e] /\ D[e] \subseteq U
        BY <1>1, <1>3, <2>2 DEF Shape
      <3>2. P[n] # nil
        BY <3>1, NilIsNoNode DEF Shape
      <3>3. nil \notin U
        BY NilIsNoNode DEF Shape
      <3>4. QED  BY <3>2, <3>3 DEF Shape
    <2>3. QED  BY <2>1, <2>2
  <1>5. QED  BY <1>3, <1>4

\* What is below a node has all that is below it in turn there.
LEMMA DownClosed ==
    ASSUME NEW r, NEW A, NEW B, NEW P, NEW U, NEW D, Shape(r, A, B, P, U, D),
           NEW n \in U, NEW m \in D[n]
    PROVE  D[m] \subseteq D[n]
  <1>1. PICK W : W = {c \in U : ~ \A l \in D[c] : D[l] \subseteq D[c]}
    OBVIOUS
  <1>2. PICK T : T = {D[c] : c \in W}
    OBVIOUS
  <1>3. ASSUME W # {}
        PROVE  FALSE
    <2>1. T # {} /\ T \subseteq SUBSET Nodes
      BY <1>1, <1>2, <1>3 DEF Shape, AllNodes
    <2>2. PICK s \in T : \A y \in T : ~ (y \subseteq s /\ y # s)
      BY <2>1, NilIsNoNode, LeastSet
    <2>3. PICK c \in W : s = D[c]
      BY <1>2
    <2>4. c \in U /\ NodeAt(A, B, P, U, D, c)
      BY <1>1 DEF Shape
    <2>5. PICK l \in D[c] : ~ (D[l] \subseteq D[c])
      BY <1>1
    <2>6. PICK e \in {A[c], B[c]} : l \in D[e]
      BY <2>4, <2>5 DEF NodeAt
    <2>7. D[e] \subseteq D[c] /\ c \notin D[e] /\ c \in D[c]
      BY <2>4, <2>6 DEF NodeAt
    <2>8. e \in U
      BY <2>4, <2>6 DEF NodeAt, Shape
    <2>9. e \in W
      BY <1>1, <2>5, <2>6, <2>7, <2>8
    <2>10. QED  BY <1>2, <2>2, <2>3, <2>7, <2>9
  <1>4. QED  BY <1>1, <1>3

\* The way to key k leads to y: k is where y is, seen from every other node.
Passed(t, U, D, k, y) ==
    \A m \in U : /\ y \in D[t.left[m]] => k < KeyOf[m]
                 /\ y \in D[t.right[m]] => KeyOf[m] <= k

LEMMA PassedDown ==
    ASSUME NEW t, NEW U, NEW D, Shape(t.root, t.left, t.right, t.parent, U, D),
           NEW k \in Int, NEW y \in U, Passed(t, U, D, k, y)
    PROVE  Passed(t, U, D, k, Down(t, y, k))
  <1>1. PICK n : n = Down(t, y, k)
    OBVIOUS
  <1>2. U \subseteq AllNodes /\ U \subseteq Nodes /\ nil \notin U /\ D \in [AllNodes -> SUBSET U]
    BY NilIsNoNode DEF Shape, AllNodes
  <1>3. KeyOf \in [Nodes -> Int]
    BY RBTreeAssumption
  <1>4. ASSUME NEW m \in U, NEW e \in {t.left[m], t.right[m]}, n \in D[e]
        PROVE  (n = e /\ m = y) \/ y \in D[e]
    <2>1. n \in U
      BY <1>2, <1>4 DEF Shape, NodeAt, AllNodes
    <2>2. n = e \/ t.parent[n] \in D[e]
      BY <1>4, <2>1, BelowChild
    <2>3. t.left[y] = n \/ t.right[y] = n
      BY <1>1 DEF Down
    <2>4. y = t.parent[n]
      BY <1>2, <2>1, <2>3, ChildOf
    <2>5. n = e => m = t.parent[n]
      BY <1>2, <2>1, ChildOf
    <2>6. QED  BY <2>2, <2>4, <2>5
  <1>5. ASSUME NEW m \in U, n \in D[t.left[m]]
        PROVE  k < KeyOf[m]
    <2>1. CASE n = t.left[m] /\ m = y
      <3>1. n \in U
        BY <1>2, <1>5 DEF Shape, NodeAt, AllNodes
      <3>2. t.right[y] # n
        BY <1>2, <2>1, <3>1, ChildOf
      <3>3. QED  BY <1>1, <2>1, <3>2 DEF Down
    <2>2. CASE y \in D[t.left[m]]
      BY <2>2 DEF Passed
    <2>3. QED  BY <1>4, <1>5, <2>1, <2>2
  <1>6. ASSUME NEW m \in U, n \in D[t.right[m]]
        PROVE  KeyOf[m] <= k
    <2>1. CASE n = t.right[m] /\ m = y
      <3>1. n \in U
        BY <1>2, <1>6 DEF Shape, NodeAt, AllNodes
      <3>2. t.left[y] # n
        BY <1>2, <2>1, <3>1, ChildOf
      <3>3. ~ (k < KeyOf[y])
        BY <1>1, <2>1, <3>2 DEF Down
      <3>4. KeyOf[y] \in Int
        BY <1>2, <1>3
      <3>5. QED  BY <2>1, <3>3, <3>4
    <2>2. CASE y \in D[t.right[m]]
      BY <2>2 DEF Passed
    <2>3. QED  BY <1>4, <1>6, <2>1, <2>2
  <1>7. Passed(t, U, D, k, n)
    BY <1>5, <1>6 DEF Passed
  <1>8. QED  BY <1>1, <1>7

LEMMA PassedFirst ==
    ASSUME NEW t, NEW U, NEW D, Shape(t.root, t.left, t.right, t.parent, U, D), NEW k
    PROVE  Passed(t, U, D, k, t.root) /\ Passed(t, U, D, k, nil)
  <1>1. \A m \in U : D[t.left[m]] \subseteq U /\ D[t.right[m]] \subseteq U
    BY DEF Shape, NodeAt, AllNodes
  <1>2. ASSUME NEW m \in U, NEW e \in {t.left[m], t.right[m]}, NEW n \in D[e]
        PROVE  n # t.root /\ n # nil
    <2>1. n \in U
      BY <1>1, <1>2
    <2>2. n # t.root
      BY <2>1, BelowChild
    <2>3. QED  BY <2>1, <2>2, NilIsNoNode DEF Shape
  <1>3. QED  BY <1>2 DEF Passed

\* Insert goes down to a node without a child on the side of the key.
LEMMA InsertionPointIs ==
    ASSUME NEW t, NEW U, NEW D, Shape(t.root, t.left, t.right, t.parent, U, D),
           NEW k \in Int, NEW y, y = InsertionPoint(t, k)
    PROVE  /\ y \in U \cup {nil} /\ (y = nil => t.root = nil)
           /\ y \in U => Down(t, y, k) = nil
           /\ Passed(t, U, D, k, y)
  <1>1. PICK V : V = U \cup {nil}
    OBVIOUS
  <1>2. PICK S : S = V \X V
    OBVIOUS
  <1>3. PICK step : step = [w \in S |-> IF w[2] = nil THEN w ELSE <<w[2], Down(t, w[2], k)>>]
    OBVIOUS
  <1>4. U \subseteq AllNodes /\ U \subseteq Nodes /\ nil \notin U /\ t.root \in V /\ nil \in V
    BY <1>1, NilIsNoNode DEF Shape, AllNodes
  <1>5. \A n \in U : Down(t, n, k) \in V /\ Down(t, n, k) # n
    <2>1. ASSUME NEW n \in U
          PROVE  Down(t, n, k) \in V /\ Down(t, n, k) # n
      <3>1. Down(t, n, k) \in {t.left[n], t.right[n]}
        BY DEF Down
      <3>2. t.left[n] \in V /\ t.right[n] \in V
        BY <1>1 DEF Shape, NodeAt
      <3>3. t.left[n] # n /\ t.right[n] # n
        BY <1>4, ChildOf
      <3>4. QED  BY <3>1, <3>2, <3>3
    <2>2. QED  BY <2>1
  <1>6. step \in [S -> S]
    <2>1. ASSUME NEW w \in S
          PROVE  (IF w[2] = nil THEN w ELSE <<w[2], Down(t, w[2], k)>>) \in S
      BY <1>1, <1>2, <1>5
    <2>2. QED  BY <1>3, <2>1
  <1>7. PICK base : base = <<nil, t.root>>
    OBVIOUS
  <1>8. base \in S
    BY <1>2, <1>4, <1>7
  <1>9. Turns \in Nat
    BY BelowCounts
  <1>10. PICK w : Repeated(Turns, S, base, step, w) /\ y = w[Turns][1]
    <2>1. PICK f : Repeated(Turns, S, base, step, f)
      BY <1>6, <1>8, <1>9, Repeats
    <2>2. f = [i \in 0..Turns |-> IF i = 0 THEN base
                                  ELSE IF f[i - 1][2] = nil THEN f[i - 1]
                                       ELSE <<f[i - 1][2], Down(t, f[i - 1][2], k)>>]
      <3>1. f \in [0..Turns -> S] /\ f[0] = base
        BY <2>1 DEF Repeated
      <3>2. ASSUME NEW i \in 0..Turns, i # 0
            PROVE  f[i] = IF f[i - 1][2] = nil THEN f[i - 1] ELSE <<f[i - 1][2], Down(t, f[i - 1][2], k)>>
        <4>1. i \in 1..Turns /\ i - 1 \in 0..Turns
          BY <1>9, <3>2
        <4>2. f[i] = step[f[i - 1]] /\ f[i - 1] \in S
          BY <2>1, <4>1 DEF Repeated
        <4>3. QED  BY <1>3, <4>2
      <3>3. QED  BY <3>1, <3>2
    <2>3. PICK w : /\ w = [i \in 0..Turns |-> IF i = 0 THEN <<nil, t.root>>
                                  ELSE IF w[i - 1][2] = nil THEN w[i - 1]
                                       ELSE <<w[i - 1][2], Down(t, w[i - 1][2], k)>>]
                   /\ y = w[Turns][1]
      <3>1. PICK w : w = CHOOSE g : g = [i \in 0..Turns |-> IF i = 0 THEN <<nil, t.root>>
                                  ELSE IF g[i - 1][2] = nil THEN g[i - 1]
                                       ELSE <<g[i - 1][2], Down(t, g[i - 1][2], k)>>]
        OBVIOUS
      <3>2. w = [i \in 0..Turns |-> IF i = 0 THEN <<nil, t.root>>
                                  ELSE IF w[i - 1][2] = nil THEN w[i - 1]
                                       ELSE <<w[i - 1][2], Down(t, w[i - 1][2], k)>>]
        BY <1>7, <2>2, <3>1
      <3>3. y = w[Turns][1]
        BY <3>1 DEF InsertionPoint
      <3>4. QED  BY <3>2, <3>3
    <2>4. w = [i \in 0..Turns |-> w[i]] /\ w[0] = base
      <3>1. 0 \in 0..Turns
        BY <1>9
      <3>2. QED  BY <1>7, <2>3, <3>1
    <2>5. ASSUME NEW i \in 1..Turns, w[i - 1] \in S
          PROVE  w[i] = step[w[i - 1]]
      <3>1. i \in 0..Turns /\ i # 0
        BY <1>9
      <3>2. w[i] = IF w[i - 1][2] = nil THEN w[i - 1] ELSE <<w[i - 1][2], Down(t, w[i - 1][2], k)>>
        BY <2>3, <3>1
      <3>3. QED  BY <1>3, <2>5, <3>2
    <2>6. Repeated(Turns, S, base, step, w)
      BY <1>6, <1>8, <1>9, <2>4, <2>5, FollowsSteps
    <2>7. QED  BY <2>3, <2>6
  <1>11. PICK T : T = {v \in S : /\ v[1] = nil => v[2] = t.root
                                 /\ v[1] \in U => v[2] = Down(t, v[1], k)
                                 /\ Passed(t, U, D, k, v[1]) /\ Passed(t, U, D, k, v[2])}
    OBVIOUS
  <1>12. base \in T
    BY <1>4, <1>7, <1>8, <1>11, PassedFirst
  <1>13. ASSUME NEW v \in S, v \in T
         PROVE  step[v] \in T
    <2>1. CASE v[2] = nil
      BY <1>3, <1>13, <2>1
    <2>2. CASE v[2] # nil
      <3>1. v[2] \in U /\ step[v] = <<v[2], Down(t, v[2], k)>> /\ step[v] \in S
        BY <1>1, <1>2, <1>3, <1>6, <2>2
      <3>2. Passed(t, U, D, k, v[2])
        BY <1>11, <1>13
      <3>3. Passed(t, U, D, k, Down(t, v[2], k))
        BY <3>1, <3>2, PassedDown
      <3>4. QED  BY <1>4, <1>11, <3>1, <3>2, <3>3
    <2>3. QED  BY <2>1, <2>2
  <1>14. w[Turns] \in T /\ w[Turns] \in S
    BY <1>9, <1>10, <1>12, <1>13, RepeatedKeeps
  <1>15. PICK mu : mu = [v \in S |-> Cardinality(D[v[2]])]
    OBVIOUS
  <1>16. step[w[Turns]] = w[Turns]
    <2>1. /\ [m \in V |-> Cardinality(D[m])] \in [V -> Nat]
          /\ Cardinality(D[t.root]) <= Turns
          /\ \A n \in U : /\ Cardinality(D[t.left[n]]) < Cardinality(D[n])
                          /\ Cardinality(D[t.right[n]]) < Cardinality(D[n])
      BY <1>1, BelowCounts
    <2>2. \A m \in V : Cardinality(D[m]) \in Nat
      BY <2>1
    <2>3. \A v \in S : v[2] \in V
      BY <1>2
    <2>4. mu \in [S -> Nat]
      BY <1>15, <2>2, <2>3
    <2>5. mu[base] <= Turns
      BY <1>7, <1>8, <1>15, <2>1
    <2>6. ASSUME NEW v \in S
          PROVE  step[v] = v \/ mu[step[v]] < mu[v]
      <3>1. CASE v[2] = nil
        BY <1>3, <3>1
      <3>2. CASE v[2] # nil
        <4>1. v[2] \in U /\ step[v] = <<v[2], Down(t, v[2], k)>> /\ step[v] \in S
          BY <1>1, <1>2, <1>3, <1>6, <3>2
        <4>2. mu[step[v]] = Cardinality(D[Down(t, v[2], k)]) /\ mu[v] = Cardinality(D[v[2]])
          BY <1>15, <4>1
        <4>3. QED  BY <2>1, <4>1, <4>2 DEF Down
      <3>3. QED  BY <3>1, <3>2
    <2>7. QED  BY <1>6, <1>8, <1>9, <1>10, <2>4, <2>5, <2>6, Settles
  <1>17. w[Turns][2] = nil
    <2>1. PICK v : v = w[Turns]
      OBVIOUS
    <2>2. v \in S /\ v[1] \in V /\ v[2] \in V /\ step[v] = v /\ v \in T
      BY <1>2, <1>14, <1>16, <2>1
    <2>3. ASSUME v[2] # nil
          PROVE  FALSE
      <3>1. v[2] \in U /\ step[v] = <<v[2], Down(t, v[2], k)>>
        BY <1>1, <1>3, <2>2, <2>3
      <3>2. v[2] = Down(t, v[2], k)
        BY <2>2, <3>1
      <3>3. QED  BY <1>5, <3>1, <3>2
    <2>4. QED  BY <2>1, <2>3
  <1>18. QED  BY <1>1, <1>2, <1>10, <1>11, <1>14, <1>17
(***************************************************************************)
(* Insert.                                                                 *)
(***************************************************************************)

\* The new red node z hangs under y, on side A, where nothing was.
HangsAt(r, A, B, P, c, U, D, R, h, y, z) ==
    /\ Sound(r, A, B, P, c, U, D, R, h, "idle", nullptr)
    /\ y \in U /\ A[y] = nil /\ z \in Nodes \ U
    /\ <<z, y>> \in R
    /\ \A m \in U : /\ y \in D[A[m]] => <<z, m>> \in R
                    /\ y \in D[B[m]] => <<m, z>> \in R

Grown(r, C, E, Q, c, V, R, z) == \E F, g : Sound(r, C, E, Q, c, V, F, R, g, "insert", z)

LEMMA LeafAdded ==
    ASSUME NEW r, NEW A, NEW B, NEW P, NEW c, NEW U, NEW D, NEW R, NEW h, NEW y, NEW z,
           HangsAt(r, A, B, P, c, U, D, R, h, y, z),
           NEW C, C = [A EXCEPT ![y] = z, ![z] = nil],
           NEW E, E = [B EXCEPT ![z] = nil],
           NEW Q, Q = [P EXCEPT ![z] = y]
    PROVE  Grown(r, C, E, Q, c, U \cup {z}, R, z)
  <1>0. /\ Sound(r, A, B, P, c, U, D, R, h, "idle", nullptr)
        /\ y \in U /\ A[y] = nil /\ z \in Nodes \ U
        /\ <<z, y>> \in R
        /\ \A m \in U : /\ y \in D[A[m]] => <<z, m>> \in R
                        /\ y \in D[B[m]] => <<m, z>> \in R
    BY DEF HangsAt
  <1> USE <1>0
  <1>1. /\ R \in {Le, Ge} /\ Shape(r, A, B, P, U, D) /\ Ordered(A, B, U, D, R)
        /\ Level(A, B, P, c, U, "idle", nullptr, h) /\ Reds(r, P, c, U, "idle", nullptr)
    BY DEF Sound
  <1>2. PICK V : V = U \cup {z}
    OBVIOUS
  <1>3. PICK F : F = [m \in AllNodes |-> IF m = z THEN {z} ELSE IF y \in D[m] THEN D[m] \cup {z} ELSE D[m]]
    OBVIOUS
  <1>4. PICK g : g = [h EXCEPT ![z] = 1]
    OBVIOUS
  <1>5. /\ U \subseteq Nodes /\ nil \notin U /\ U \subseteq AllNodes /\ nil \in AllNodes /\ z \in AllNodes
        /\ nil \notin V /\ V \subseteq Nodes /\ z # y /\ z # nil /\ nil # y /\ r \in U /\ z # r
        /\ D \in [AllNodes -> SUBSET U] /\ D[nil] = {} /\ D[r] = U /\ P[r] = nil
        /\ \A m \in U : NodeAt(A, B, P, U, D, m)
        /\ AllNodes \subseteq Pointers
        /\ A \in [AllNodes -> Pointers] /\ B \in [AllNodes -> Pointers] /\ P \in [AllNodes -> Pointers]
    <2>1. nil \notin U /\ U \subseteq AllNodes /\ nil \in AllNodes /\ z \in AllNodes /\ nil \notin Nodes
          /\ AllNodes \subseteq Pointers
      BY <1>1, NilIsNoNode DEF Shape, AllNodes, Pointers
    <2>2. r \in U
      BY <1>1, <2>1 DEF Shape
    <2>3. P[r] = nil
      BY <1>1, <2>1, <2>2 DEF Shape
    <2>4. QED  BY <1>1, <1>2, <2>1, <2>2, <2>3 DEF Shape
  <1>6. /\ C[y] = z /\ C[z] = nil /\ E[z] = nil /\ Q[z] = y
        /\ \A m \in AllNodes : /\ m # y /\ m # z => C[m] = A[m]
                               /\ m # z => E[m] = B[m] /\ Q[m] = P[m]
        /\ C \in [AllNodes -> Pointers] /\ E \in [AllNodes -> Pointers] /\ Q \in [AllNodes -> Pointers]
    BY <1>5
  <1>7. /\ F[z] = {z} /\ F[nil] = {} /\ F \in [AllNodes -> SUBSET V]
        /\ \A m \in AllNodes : m # z => F[m] = IF y \in D[m] THEN D[m] \cup {z} ELSE D[m]
    BY <1>2, <1>3, <1>5
  <1>8. \A m \in U : A[m] \in U \cup {nil} /\ B[m] \in U \cup {nil}
    BY <1>5 DEF NodeAt
  <1>9. ASSUME NEW n \in U, n # y
        PROVE  NodeAt(C, E, Q, V, F, n)
    <2>1. PICK a, b : a = A[n] /\ b = B[n]
      OBVIOUS
    <2>2. C[n] = a /\ E[n] = b /\ a \in U \cup {nil} /\ b \in U \cup {nil}
      BY <1>5, <1>6, <1>8, <1>9, <2>1
    <2>3. /\ D[n] = {n} \cup D[a] \cup D[b] /\ n \notin D[a] /\ n \notin D[b] /\ D[a] \cap D[b] = {}
          /\ a # nil => P[a] = n
          /\ b # nil => P[b] = n
      BY <1>5, <2>1 DEF NodeAt
    <2>4. /\ F[n] = IF y \in D[n] THEN D[n] \cup {z} ELSE D[n]
          /\ F[a] = IF y \in D[a] THEN D[a] \cup {z} ELSE D[a]
          /\ F[b] = IF y \in D[b] THEN D[b] \cup {z} ELSE D[b]
      BY <1>5, <1>7, <1>0, <2>2
    <2>5. z \notin D[a] /\ z \notin D[b] /\ n # z
      BY <1>5, <2>2
    <2>6. F[n] = {n} \cup F[a] \cup F[b] /\ n \notin F[a] /\ n \notin F[b] /\ F[a] \cap F[b] = {}
      BY <1>9, <2>3, <2>4, <2>5
    <2>7. /\ a # nil => Q[a] = n
          /\ b # nil => Q[b] = n
      BY <1>5, <1>6, <2>2, <2>3
    <2>8. a \in V \cup {nil} /\ b \in V \cup {nil}
      BY <1>2, <2>2
    <2>9. C[n] = a /\ E[n] = b
      BY <2>2
    <2>10. QED  BY <2>6, <2>7, <2>8, <2>9 DEF NodeAt
  <1>10. NodeAt(C, E, Q, V, F, y)
    <2>1. PICK b : b = B[y]
      OBVIOUS
    <2>2. C[y] = z /\ E[y] = b /\ b \in U \cup {nil}
      BY <1>5, <1>6, <1>8, <2>1
    <2>3. D[y] = {y} \cup D[b] /\ y \notin D[b] /\ (b # nil => P[b] = y)
      BY <1>5, <2>1 DEF NodeAt
    <2>4. F[y] = D[y] \cup {z} /\ F[b] = D[b] /\ F[z] = {z}
      BY <1>5, <1>7, <1>0, <2>2, <2>3
    <2>5. z \notin D[b]
      BY <1>5, <2>2
    <2>6. Q[z] = y /\ (b # nil => Q[b] = y)
      BY <1>5, <1>6, <2>2, <2>3
    <2>7. QED  BY <1>2, <1>5, <2>2, <2>3, <2>4, <2>5, <2>6 DEF NodeAt
  <1>11. NodeAt(C, E, Q, V, F, z)
    BY <1>2, <1>6, <1>7 DEF NodeAt
  <1>12. Shape(r, C, E, Q, V, F)
    <2>1. F[r] = V
      BY <1>2, <1>5, <1>7
    <2>2. \A m \in AllNodes \ V : C[m] = nullptr /\ E[m] = nullptr
      BY <1>1, <1>2, <1>5, <1>6 DEF Shape
    <2>3. r \in V \cup {nil} /\ Q[r] = nil
      BY <1>2, <1>5, <1>6
    <2>4. \A n \in V : NodeAt(C, E, Q, V, F, n)
      BY <1>2, <1>9, <1>10, <1>11
    <2>5. QED  BY <1>5, <1>6, <1>7, <2>1, <2>2, <2>3, <2>4 DEF Shape
  <1>13. Ordered(C, E, V, F, R)
    <2>1. ASSUME NEW n \in U
          PROVE  /\ \A m \in F[C[n]] : <<m, n>> \in R
                 /\ \A m \in F[E[n]] : <<n, m>> \in R
      <3>1. E[n] = B[n] /\ B[n] \in AllNodes /\ B[n] # z /\ A[n] \in AllNodes /\ A[n] # z
        BY <1>5, <1>6, <1>8
      <3>2. F[B[n]] = IF y \in D[B[n]] THEN D[B[n]] \cup {z} ELSE D[B[n]]
        BY <1>7, <3>1
      <3>3. \A m \in F[E[n]] : <<n, m>> \in R
        BY <1>1, <3>1, <3>2 DEF Ordered
      <3>4. \A m \in F[C[n]] : <<m, n>> \in R
        <4>1. CASE n = y
          <5>1. C[n] = z /\ F[z] = {z}
            BY <1>6, <1>7, <4>1
          <5>2. F[C[n]] = {z} /\ <<z, n>> \in R
            BY <1>0, <4>1, <5>1
          <5>3. QED  BY <5>2
        <4>2. CASE n # y
          <5>1. C[n] = A[n]
            BY <1>5, <1>6, <4>2
          <5>2. F[A[n]] = IF y \in D[A[n]] THEN D[A[n]] \cup {z} ELSE D[A[n]]
            BY <1>7, <3>1
          <5>3. QED  BY <1>1, <5>1, <5>2 DEF Ordered
        <4>3. QED  BY <4>1, <4>2
      <3>5. QED  BY <3>3, <3>4
    <2>2. F[C[z]] = {} /\ F[E[z]] = {}
      BY <1>6, <1>7
    <2>3. QED  BY <1>2, <2>1, <2>2 DEF Ordered
  <1>14. c[z] = RED /\ RED # BLACK
    BY <1>1, <1>5 DEF Level, RED, BLACK
  <1>15. Level(C, E, Q, c, V, "insert", z, g)
    <2>1. /\ h \in [AllNodes -> Nat] /\ h[nil] = 0 /\ c[nil] = BLACK
          /\ c \in [AllNodes -> {RED, BLACK}]
          /\ \A m \in AllNodes \ V : m # nil => c[m] = RED
      BY <1>1, <1>2 DEF Level
    <2>2. /\ g \in [AllNodes -> Nat] /\ g[z] = 1 /\ g[nil] = 0
          /\ \A m \in AllNodes : m # z => g[m] = h[m]
      BY <1>4, <1>5, <2>1
    <2>3. \A n, m : Weight(Q, c, "insert", z, n, m) = Weight(P, c, "idle", nullptr, n, m)
      BY DEF Weight
    <2>4. \A n : /\ Weight(P, c, "idle", nullptr, n, nil) = 1
                 /\ Weight(P, c, "idle", nullptr, n, z) = 0
      BY <1>14, <2>1 DEF Weight
    <2>5. ASSUME NEW n \in U
          PROVE  /\ g[C[n]] + Weight(P, c, "idle", nullptr, n, C[n]) = g[n]
                 /\ g[E[n]] + Weight(P, c, "idle", nullptr, n, E[n]) = g[n]
      <3>1. E[n] = B[n] /\ B[n] \in AllNodes /\ B[n] # z /\ A[n] \in AllNodes /\ A[n] # z /\ n # z
        BY <1>5, <1>6, <1>8
      <3>2. g[n] = h[n] /\ g[B[n]] = h[B[n]] /\ g[A[n]] = h[A[n]]
        BY <1>5, <2>2, <3>1
      <3>3. /\ h[A[n]] + Weight(P, c, "idle", nullptr, n, A[n]) = h[n]
            /\ h[B[n]] + Weight(P, c, "idle", nullptr, n, B[n]) = h[n]
        BY <1>1 DEF Level
      <3>4. g[C[n]] + Weight(P, c, "idle", nullptr, n, C[n]) = g[n]
        <4>1. CASE n = y
          <5>1. C[n] = z
            BY <1>6, <4>1
          <5>2. h[n] = 1
            BY <1>0, <2>1, <2>4, <3>3, <4>1
          <5>3. QED  BY <2>2, <2>4, <3>2, <5>1, <5>2
        <4>2. CASE n # y
          <5>1. C[n] = A[n]
            BY <1>5, <1>6, <4>2
          <5>2. QED  BY <3>2, <3>3, <5>1
        <4>3. QED  BY <4>1, <4>2
      <3>5. QED  BY <3>1, <3>2, <3>3, <3>4
    <2>6. /\ g[C[z]] + Weight(P, c, "idle", nullptr, z, C[z]) = g[z]
          /\ g[E[z]] + Weight(P, c, "idle", nullptr, z, E[z]) = g[z]
      BY <1>6, <2>2, <2>4
    <2>7. \A n \in V : /\ g[C[n]] + Weight(Q, c, "insert", z, n, C[n]) = g[n]
                       /\ g[E[n]] + Weight(Q, c, "insert", z, n, E[n]) = g[n]
      <3>1. ASSUME NEW n \in V
            PROVE  /\ g[C[n]] + Weight(P, c, "idle", nullptr, n, C[n]) = g[n]
                   /\ g[E[n]] + Weight(P, c, "idle", nullptr, n, E[n]) = g[n]
        <4>1. CASE n \in U
          BY <2>5, <4>1
        <4>2. CASE n = z
          BY <2>6, <4>2
        <4>3. QED  BY <1>2, <4>1, <4>2
      <3>2. QED  BY <2>3, <3>1
    <2>8. QED  BY <2>1, <2>2, <2>7 DEF Level
  <1>16. Reds(r, Q, c, V, "insert", z)
    <2>1. \A n \in U : n # nullptr /\ Q[n] = P[n]
      BY <1>5, <1>6, NilIsNoNode
    <2>2. QED  BY <1>1, <1>2, <2>1 DEF Reds
  <1>17. HeldNode(r, C, E, Q, c, V, "insert", z)
    BY <1>2, <1>5, <1>14 DEF HeldNode
  <1>18. Sound(r, C, E, Q, c, V, F, R, g, "insert", z)
    BY <1>1, <1>12, <1>13, <1>15, <1>16, <1>17 DEF Sound
  <1>19. QED  BY <1>2, <1>18 DEF Grown

LEMMA RootAdded ==
    ASSUME NEW r, NEW A, NEW B, NEW P, NEW c, NEW U, NEW D, NEW R, NEW h,
           Sound(r, A, B, P, c, U, D, R, h, "idle", nullptr), r = nil,
           NEW z \in Nodes \ U,
           NEW C, C = [A EXCEPT ![z] = nil],
           NEW E, E = [B EXCEPT ![z] = nil],
           NEW Q, Q = [P EXCEPT ![z] = nil]
    PROVE  Grown(z, C, E, Q, c, U \cup {z}, R, z)
  <1>1. /\ R \in {Le, Ge} /\ Shape(r, A, B, P, U, D)
        /\ Level(A, B, P, c, U, "idle", nullptr, h)
    BY DEF Sound
  <1>2. U = {}
    BY <1>1 DEF Shape
  <1>3. PICK V : V = {z}
    OBVIOUS
  <1>4. PICK F : F = [m \in AllNodes |-> IF m = z THEN {z} ELSE {}]
    OBVIOUS
  <1>5. PICK g : g = [h EXCEPT ![z] = 1]
    OBVIOUS
  <1>6. /\ nil \in AllNodes /\ z \in AllNodes /\ nil # z /\ V \subseteq Nodes
        /\ AllNodes \subseteq Pointers
        /\ A \in [AllNodes -> Pointers] /\ B \in [AllNodes -> Pointers] /\ P \in [AllNodes -> Pointers]
    BY <1>1, <1>3, NilIsNoNode DEF Shape, AllNodes, Pointers
  <1>7. /\ C[z] = nil /\ E[z] = nil /\ Q[z] = nil
        /\ \A m \in AllNodes : m # z => C[m] = A[m] /\ E[m] = B[m]
        /\ C \in [AllNodes -> Pointers] /\ E \in [AllNodes -> Pointers] /\ Q \in [AllNodes -> Pointers]
    BY <1>6
  <1>8. F[z] = {z} /\ F[nil] = {} /\ F \in [AllNodes -> SUBSET V]
    BY <1>3, <1>4, <1>6
  <1>9. Shape(z, C, E, Q, V, F)
    <2>1. NodeAt(C, E, Q, V, F, z)
      BY <1>3, <1>7, <1>8 DEF NodeAt
    <2>2. \A m \in AllNodes \ V : C[m] = nullptr /\ E[m] = nullptr
      BY <1>1, <1>2, <1>3, <1>7 DEF Shape
    <2>3. QED  BY <1>3, <1>6, <1>7, <1>8, <2>1, <2>2 DEF Shape
  <1>10. Ordered(C, E, V, F, R)
    BY <1>3, <1>7, <1>8 DEF Ordered
  <1>11. c[z] = RED /\ RED # BLACK /\ c[nil] = BLACK
    BY <1>1, <1>6 DEF Level, RED, BLACK
  <1>12. Level(C, E, Q, c, V, "insert", z, g)
    <2>1. g \in [AllNodes -> Nat] /\ g[z] = 1 /\ g[nil] = 0
      BY <1>1, <1>5, <1>6 DEF Level
    <2>2. Weight(Q, c, "insert", z, z, nil) = 1
      BY <1>11 DEF Weight
    <2>3. /\ g[C[z]] + Weight(Q, c, "insert", z, z, C[z]) = g[z]
          /\ g[E[z]] + Weight(Q, c, "insert", z, z, E[z]) = g[z]
      BY <1>7, <2>1, <2>2
    <2>4. c \in [AllNodes -> {RED, BLACK}] /\ \A m \in AllNodes \ V : m # nil => c[m] = RED
      BY <1>1, <1>2 DEF Level
    <2>5. QED  BY <1>3, <1>11, <2>1, <2>3, <2>4 DEF Level
  <1>13. Reds(z, Q, c, V, "insert", z)
    BY <1>3 DEF Reds
  <1>14. HeldNode(z, C, E, Q, c, V, "insert", z)
    BY <1>3, <1>6, <1>11 DEF HeldNode
  <1>15. Sound(z, C, E, Q, c, V, F, R, g, "insert", z)
    BY <1>1, <1>9, <1>10, <1>12, <1>13, <1>14 DEF Sound
  <1>16. V = U \cup {z}
    BY <1>2, <1>3
  <1>17. QED  BY <1>15, <1>16 DEF Grown

IsLinked(t, z, y, q) ==
    /\ q \in TreeRecords /\ q.color = t.color /\ q.parent = [t.parent EXCEPT ![z] = y]
    /\ y = nil => /\ q.root = z /\ q.left = [t.left EXCEPT ![z] = nil]
                  /\ q.right = [t.right EXCEPT ![z] = nil]
    /\ y # nil /\ KeyOf[z] < KeyOf[y] =>
           /\ q.root = t.root /\ q.left = [t.left EXCEPT ![y] = z, ![z] = nil]
           /\ q.right = [t.right EXCEPT ![z] = nil]
    /\ y # nil /\ ~ (KeyOf[z] < KeyOf[y]) =>
           /\ q.root = t.root /\ q.right = [t.right EXCEPT ![y] = z, ![z] = nil]
           /\ q.left = [t.left EXCEPT ![z] = nil]

LEMMA LinkedIs ==
    ASSUME NEW t \in TreeRecords, NEW z \in AllNodes, NEW y \in AllNodes, NEW q, q = Linked(t, z, y)
    PROVE  IsLinked(t, z, y, q)
  <1>1. z \in Pointers /\ nil \in Pointers /\ y \in Pointers
    BY DEF AllNodes, Pointers
  <1>2. PICK b : b \in BOOLEAN /\ (b <=> KeyOf[z] < KeyOf[y])
    OBVIOUS
  <1>3. PICK l : l = IF y = nil THEN [t EXCEPT !.root = z]
                     ELSE IF b THEN [t EXCEPT !.left[y] = z] ELSE [t EXCEPT !.right[y] = z]
    OBVIOUS
  <1>4. /\ l \in TreeRecords /\ l.color = t.color /\ l.parent = t.parent
        /\ y = nil => l.root = z /\ l.left = t.left /\ l.right = t.right
        /\ y # nil /\ b => l.root = t.root /\ l.left = [t.left EXCEPT ![y] = z] /\ l.right = t.right
        /\ y # nil /\ ~b => l.root = t.root /\ l.right = [t.right EXCEPT ![y] = z] /\ l.left = t.left
    <2>1. CASE y = nil
      <3>1. l = [t EXCEPT !.root = z]
        BY <1>3, <2>1
      <3>2. QED  BY <2>1, <3>1 DEF TreeRecords
    <2>2. CASE y # nil /\ b
      <3>1. l = [t EXCEPT !.left[y] = z]
        BY <1>3, <2>2
      <3>2. QED  BY <1>1, <2>2, <3>1 DEF TreeRecords
    <2>3. CASE y # nil /\ ~b
      <3>1. l = [t EXCEPT !.right[y] = z]
        BY <1>3, <2>3
      <3>2. QED  BY <1>1, <2>3, <3>1 DEF TreeRecords
    <2>4. QED  BY <2>1, <2>2, <2>3
  <1>5. q = [l EXCEPT !.parent[z] = y, !.left[z] = nil, !.right[z] = nil]
    BY <1>2, <1>3 DEF Linked
  <1>6. PICK q1 : q1 = [l EXCEPT !.parent[z] = y]
    OBVIOUS
  <1>7. PICK q2 : q2 = [q1 EXCEPT !.left[z] = nil]
    OBVIOUS
  <1>8. q1 \in TreeRecords /\ q1.color = l.color /\ q1.root = l.root /\ q1.left = l.left /\ q1.right = l.right
        /\ q1.parent = [l.parent EXCEPT ![z] = y]
    BY <1>1, <1>4, <1>6 DEF TreeRecords
  <1>9. q2 \in TreeRecords /\ q2.color = l.color /\ q2.root = l.root /\ q2.right = l.right
        /\ q2.left = [l.left EXCEPT ![z] = nil] /\ q2.parent = [l.parent EXCEPT ![z] = y]
    BY <1>1, <1>7, <1>8 DEF TreeRecords
  <1>10. q = [q2 EXCEPT !.right[z] = nil]
    BY <1>5, <1>6, <1>7
  <1>11. q \in TreeRecords /\ q.color = l.color /\ q.root = l.root /\ q.right = [l.right EXCEPT ![z] = nil]
         /\ q.left = [l.left EXCEPT ![z] = nil] /\ q.parent = [l.parent EXCEPT ![z] = y]
    BY <1>1, <1>9, <1>10 DEF TreeRecords
  <1>12. QED  BY <1>2, <1>4, <1>11 DEF IsLinked

LEMMA LinkedKeeps ==
    ASSUME NEW t \in TreeRecords, NEW U, Sane(t, U, "idle", nullptr), NEW z \in Nodes \ U,
           NEW q, q = Linked(t, z, InsertionPoint(t, KeyOf[z]))
    PROVE  Sane(q, U \cup {z}, "insert", z)
  <1>1. PICK D, h : Facing(t, "left", U, D, h, "idle", nullptr)
    BY DEF Sane
  <1>2. PICK V, k, y : V = U \cup {z} /\ k = KeyOf[z] /\ y = InsertionPoint(t, k)
    OBVIOUS
  <1>3. Sound(t.root, t.left, t.right, t.parent, t.color, U, D, Le, h, "idle", nullptr)
    BY <1>1, Others DEF Facing
  <1>4. Shape(t.root, t.left, t.right, t.parent, U, D) /\ U \subseteq Nodes /\ z \in AllNodes
    BY <1>3 DEF Sound, Shape, AllNodes
  <1>5. KeyOf \in [Nodes -> Int] /\ k \in Int /\ nil \notin Nodes
    BY <1>2, RBTreeAssumption
  <1>6. /\ y \in U \cup {nil} /\ (y = nil => t.root = nil)
        /\ y \in U => Down(t, y, k) = nil
        /\ Passed(t, U, D, k, y)
    BY <1>2, <1>4, <1>5, InsertionPointIs
  <1>7. y \in AllNodes /\ q = Linked(t, z, y)
    BY <1>2, <1>4, <1>6 DEF AllNodes
  <1>12. IsLinked(t, z, y, q)
    BY <1>4, <1>7, LinkedIs
  <1>8. CASE y = nil
    <2>1. /\ q \in TreeRecords /\ q.color = t.color /\ q.parent = [t.parent EXCEPT ![z] = nil]
          /\ q.root = z /\ q.left = [t.left EXCEPT ![z] = nil] /\ q.right = [t.right EXCEPT ![z] = nil]
      BY <1>8, <1>12 DEF IsLinked
    <2>2. t.root = nil
      BY <1>6, <1>8
    <2>3. Grown(z, q.left, q.right, q.parent, t.color, V, Le, z)
      <3>1. PICK C, E, Q : C = q.left /\ E = q.right /\ Q = q.parent
        OBVIOUS
      <3>2. PICK A, B, P : A = t.left /\ B = t.right /\ P = t.parent
        OBVIOUS
      <3>3. C = [A EXCEPT ![z] = nil] /\ E = [B EXCEPT ![z] = nil] /\ Q = [P EXCEPT ![z] = nil]
        BY <2>1, <3>1, <3>2
      <3>4. Sound(t.root, A, B, P, t.color, U, D, Le, h, "idle", nullptr)
        BY <1>3, <3>2
      <3>5. Grown(z, C, E, Q, t.color, V, Le, z)
        BY <1>2, <2>2, <3>3, <3>4, RootAdded
      <3>6. QED  BY <3>1, <3>5
    <2>4. \E F, g : Facing(q, "left", V, F, g, "insert", z)
      BY <2>1, <2>3, Others DEF Facing, Grown
    <2>5. QED  BY <1>2, <2>1, <2>4 DEF Sane
  <1>9. CASE y \in U /\ k < KeyOf[y]
    <2>1. y # nil /\ KeyOf[z] < KeyOf[y]
      BY <1>2, <1>4, <1>5, <1>9
    <2>2. /\ q \in TreeRecords /\ q.color = t.color /\ q.parent = [t.parent EXCEPT ![z] = y]
          /\ q.root = t.root /\ q.left = [t.left EXCEPT ![y] = z, ![z] = nil]
          /\ q.right = [t.right EXCEPT ![z] = nil]
      BY <1>12, <2>1 DEF IsLinked
    <2>3. HangsAt(t.root, t.left, t.right, t.parent, t.color, U, D, Le, h, y, z)
      <3>1. t.left[y] = nil
        BY <1>6, <1>9 DEF Down
      <3>2. <<z, y>> \in Le
        BY <1>2, <1>4, <1>5, <1>9 DEF Le
      <3>3. \A m \in U : /\ y \in D[t.left[m]] => <<z, m>> \in Le
                         /\ y \in D[t.right[m]] => <<m, z>> \in Le
        BY <1>2, <1>4, <1>5, <1>6 DEF Le, Passed
      <3>4. QED  BY <1>3, <1>9, <3>1, <3>2, <3>3 DEF HangsAt
    <2>4. Grown(q.root, q.left, q.right, q.parent, q.color, V, Le, z)
      <3>1. PICK r, A, B, P, c, C, E, Q :
                /\ r = t.root /\ A = t.left /\ B = t.right /\ P = t.parent /\ c = t.color
                /\ C = q.left /\ E = q.right /\ Q = q.parent
        OBVIOUS
      <3>2. /\ C = [A EXCEPT ![y] = z, ![z] = nil] /\ E = [B EXCEPT ![z] = nil]
            /\ Q = [P EXCEPT ![z] = y] /\ q.root = r /\ q.color = c
        BY <2>2, <3>1
      <3>3. HangsAt(r, A, B, P, c, U, D, Le, h, y, z)
        BY <2>3, <3>1
      <3>4. Grown(r, C, E, Q, c, V, Le, z)
        BY <1>2, <3>2, <3>3, LeafAdded
      <3>5. QED  BY <3>1, <3>2, <3>4
    <2>5. \E F, g : Facing(q, "left", V, F, g, "insert", z)
      BY <2>4, Others DEF Facing, Grown
    <2>6. QED  BY <1>2, <2>2, <2>5 DEF Sane
  <1>10. CASE y \in U /\ ~ (k < KeyOf[y])
    <2>1. y # nil /\ ~ (KeyOf[z] < KeyOf[y])
      BY <1>2, <1>4, <1>5, <1>10
    <2>2. /\ q \in TreeRecords /\ q.color = t.color /\ q.parent = [t.parent EXCEPT ![z] = y]
          /\ q.root = t.root /\ q.right = [t.right EXCEPT ![y] = z, ![z] = nil]
          /\ q.left = [t.left EXCEPT ![z] = nil]
      BY <1>12, <2>1 DEF IsLinked
    <2>3. Facing(t, "right", U, D, h, "idle", nullptr)
      BY <1>1, FacingSwap, Others DEF Directions
    <2>4. Sound(t.root, t.right, t.left, t.parent, t.color, U, D, Ge, h, "idle", nullptr)
      BY <2>3, Others DEF Facing
    <2>5. HangsAt(t.root, t.right, t.left, t.parent, t.color, U, D, Ge, h, y, z)
      <3>1. t.right[y] = nil
        BY <1>6, <1>10 DEF Down
      <3>2. <<z, y>> \in Ge
        BY <1>2, <1>4, <1>5, <1>10 DEF Ge
      <3>3. \A m \in U : /\ y \in D[t.right[m]] => <<z, m>> \in Ge
                         /\ y \in D[t.left[m]] => <<m, z>> \in Ge
        BY <1>2, <1>4, <1>5, <1>6 DEF Ge, Passed
      <3>4. QED  BY <1>10, <2>4, <3>1, <3>2, <3>3 DEF HangsAt
    <2>6. Grown(q.root, q.right, q.left, q.parent, q.color, V, Ge, z)
      <3>1. PICK r, A, B, P, c, C, E, Q :
                /\ r = t.root /\ A = t.right /\ B = t.left /\ P = t.parent /\ c = t.color
                /\ C = q.right /\ E = q.left /\ Q = q.parent
        OBVIOUS
      <3>2. /\ C = [A EXCEPT ![y] = z, ![z] = nil] /\ E = [B EXCEPT ![z] = nil]
            /\ Q = [P EXCEPT ![z] = y] /\ q.root = r /\ q.color = c
        BY <2>2, <3>1
      <3>3. HangsAt(r, A, B, P, c, U, D, Ge, h, y, z)
        BY <2>5, <3>1
      <3>4. Grown(r, C, E, Q, c, V, Ge, z)
        BY <1>2, <3>2, <3>3, LeafAdded
      <3>5. QED  BY <3>1, <3>2, <3>4
    <2>7. \E F, g : Facing(q, "right", V, F, g, "insert", z)
      BY <2>6, Others DEF Facing, Grown
    <2>8. QED  BY <1>2, <2>2, <2>7, EitherWay DEF Directions
  <1>11. QED  BY <1>6, <1>8, <1>9, <1>10

LEMMA InsertKeeps ==
    ASSUME Sane(tree, used, pc, x), NEW k, Insert(k)
    PROVE  Sane(tree', used', pc', x')
  <1>1. PICK z \in Nodes \ used : /\ KeyOf[z] = k /\ tree' = Linked(tree, z, InsertionPoint(tree, k))
                                  /\ used' = used \cup {z} /\ pc' = "insert" /\ x' = z
    BY DEF Insert
  <1>2. pc = "idle" /\ tree \in TreeRecords
    BY DEF Insert, Sane
  <1>3. x = nullptr
    BY <1>2 DEF Sane, Facing, Sound, HeldNode
  <1>4. QED  BY <1>1, <1>2, <1>3, LinkedKeeps
(***************************************************************************)
(* Search and Minimum.                                                     *)
(***************************************************************************)

\* From n on, Minimum goes to the node that comes before all others below n.
LEMMA MinimumIs ==
    ASSUME NEW t, NEW U, NEW D, Shape(t.root, t.left, t.right, t.parent, U, D),
           Ordered(t.left, t.right, U, D, Le), NEW n \in U, NEW y, y = Minimum(t, n)
    PROVE  /\ y \in U /\ y \in D[n] /\ t.left[y] = nil
           /\ \A l \in D[n] : l = y \/ <<y, l>> \in Le
  <1>1. /\ U \subseteq AllNodes /\ U \subseteq Nodes /\ nil \notin U /\ D \in [AllNodes -> SUBSET U]
        /\ \A m \in U : NodeAt(t.left, t.right, t.parent, U, D, m)
    BY NilIsNoNode DEF Shape, AllNodes
  <1>2. PICK step : step = [m \in U |-> IF t.left[m] = nil THEN m ELSE t.left[m]]
    OBVIOUS
  <1>3. step \in [U -> U]
    BY <1>1, <1>2 DEF NodeAt
  <1>4. Turns \in Nat
    BY BelowCounts
  <1>5. PICK w : Repeated(Turns, U, n, step, w) /\ y = w[Turns]
    <2>1. PICK f : Repeated(Turns, U, n, step, f)
      BY <1>3, <1>4, Repeats
    <2>2. f = [i \in 0..Turns |-> IF i = 0 THEN n
                                  ELSE IF t.left[f[i - 1]] = nil THEN f[i - 1] ELSE t.left[f[i - 1]]]
      <3>1. f \in [0..Turns -> U] /\ f[0] = n
        BY <2>1 DEF Repeated
      <3>2. ASSUME NEW i \in 0..Turns, i # 0
            PROVE  f[i] = IF t.left[f[i - 1]] = nil THEN f[i - 1] ELSE t.left[f[i - 1]]
        <4>1. i \in 1..Turns /\ i - 1 \in 0..Turns
          BY <1>4, <3>2
        <4>2. f[i] = step[f[i - 1]] /\ f[i - 1] \in U
          BY <2>1, <4>1 DEF Repeated
        <4>3. QED  BY <1>2, <4>2
      <3>3. QED  BY <3>1, <3>2
    <2>3. PICK w : /\ w = [i \in 0..Turns |-> IF i = 0 THEN n
                                  ELSE IF t.left[w[i - 1]] = nil THEN w[i - 1] ELSE t.left[w[i - 1]]]
                   /\ y = w[Turns]
      BY <2>2 DEF Minimum
    <2>4. w = [i \in 0..Turns |-> w[i]] /\ w[0] = n
      <3>1. 0 \in 0..Turns
        BY <1>4
      <3>2. QED  BY <2>3, <3>1
    <2>5. ASSUME NEW i \in 1..Turns, w[i - 1] \in U
          PROVE  w[i] = step[w[i - 1]]
      <3>1. i \in 0..Turns /\ i # 0
        BY <1>4
      <3>2. w[i] = IF t.left[w[i - 1]] = nil THEN w[i - 1] ELSE t.left[w[i - 1]]
        BY <2>3, <3>1
      <3>3. QED  BY <1>2, <2>5, <3>2
    <2>6. Repeated(Turns, U, n, step, w)
      BY <1>3, <1>4, <2>4, <2>5, FollowsSteps
    <2>7. QED  BY <2>3, <2>6
  <1>6. PICK T : T = {m \in U : m \in D[n] /\ \A l \in D[n] : l \in D[m] \/ \A e \in D[m] : <<e, l>> \in Le}
    OBVIOUS
  <1>7. n \in T
    <2>1. n \in D[n]
      BY <1>1 DEF NodeAt
    <2>2. QED  BY <1>6, <2>1
  <1>8. ASSUME NEW m \in U, m \in T
        PROVE  step[m] \in T
    <2>1. CASE t.left[m] = nil
      BY <1>2, <1>8, <2>1
    <2>2. CASE t.left[m] # nil
      <3>1. PICK a : a = t.left[m]
        OBVIOUS
      <3>2. step[m] = a /\ a \in U
        BY <1>1, <1>2, <2>2, <3>1 DEF NodeAt
      <3>3. /\ D[m] = {m} \cup D[a] \cup D[t.right[m]] /\ a \in D[a] /\ m \in Nodes
            /\ D[a] \subseteq Nodes /\ D[t.right[m]] \subseteq Nodes /\ t.right[m] \in AllNodes
        <4>1. NodeAt(t.left, t.right, t.parent, U, D, m) /\ NodeAt(t.left, t.right, t.parent, U, D, a)
          BY <1>1, <3>2
        <4>2. D[m] = {m} \cup D[a] \cup D[t.right[m]] /\ a \in D[a] /\ t.right[m] \in AllNodes
          <5>1. D[m] = {m} \cup D[a] \cup D[t.right[m]] /\ t.right[m] \in U \cup {nil}
            BY <3>1, <4>1 DEF NodeAt
          <5>2. a \in D[a]
            BY <4>1 DEF NodeAt
          <5>3. QED  BY <1>1, <5>1, <5>2 DEF AllNodes
        <4>3. D[a] \subseteq Nodes /\ D[t.right[m]] \subseteq Nodes /\ m \in Nodes
          BY <1>1, <3>2, <4>2
        <4>4. QED  BY <4>2, <4>3
      <3>4. m \in D[n] /\ \A l \in D[n] : l \in D[m] \/ \A e \in D[m] : <<e, l>> \in Le
        BY <1>6, <1>8
      <3>5. D[m] \subseteq D[n]
        BY <1>1, <3>4, DownClosed
      <3>6. ASSUME NEW l \in D[n], NEW e \in D[a]
            PROVE  l \in D[a] \/ <<e, l>> \in Le
        <4>1. <<e, m>> \in Le
          BY <3>1 DEF Ordered
        <4>2. CASE l = m
          BY <4>1, <4>2
        <4>3. CASE l \in D[t.right[m]]
          <5>1. <<m, l>> \in Le
            BY <4>3 DEF Ordered
          <5>2. e \in Nodes /\ l \in Nodes
            BY <3>3, <4>3
          <5>3. QED  BY <3>3, <4>1, <5>1, <5>2, OrderIsTransitive
        <4>4. CASE l \notin D[m]
          BY <3>3, <3>4, <4>4
        <4>5. QED  BY <3>3, <4>2, <4>3, <4>4
      <3>7. QED  BY <1>6, <3>2, <3>3, <3>5, <3>6
    <2>3. QED  BY <2>1, <2>2
  <1>9. y \in T /\ y \in U
    BY <1>4, <1>5, <1>7, <1>8, RepeatedKeeps
  <1>10. PICK mu : mu = [m \in U |-> Cardinality(D[m])]
    OBVIOUS
  <1>11. step[y] = y
    <2>1. /\ [m \in U \cup {nil} |-> Cardinality(D[m])] \in [U \cup {nil} -> Nat]
          /\ \A m \in U : /\ Cardinality(D[m]) <= Turns
                          /\ Cardinality(D[t.left[m]]) < Cardinality(D[m])
      BY BelowCounts
    <2>2. \A m \in U \cup {nil} : Cardinality(D[m]) \in Nat
      BY <2>1
    <2>3. mu \in [U -> Nat] /\ mu[n] <= Turns
      BY <1>10, <2>1, <2>2
    <2>4. \A m \in U : step[m] = m \/ mu[step[m]] < mu[m]
      BY <1>2, <1>3, <1>10, <2>1
    <2>5. QED  BY <1>3, <1>4, <1>5, <2>3, <2>4, Settles
  <1>12. t.left[y] = nil
    <2>1. t.left[y] \in U => t.left[y] # y
      BY <1>1, <1>9, ChildOf
    <2>2. QED  BY <1>1, <1>2, <1>9, <1>11, <2>1 DEF NodeAt
  <1>13. ASSUME NEW l \in D[n], l # y
         PROVE  <<y, l>> \in Le
    <2>1. y \in D[y] /\ D[y] = {y} \cup D[nil] \cup D[t.right[y]] /\ D[nil] = {}
      BY <1>1, <1>9, <1>12 DEF NodeAt, Shape
    <2>2. l \in D[y] \/ <<y, l>> \in Le
      BY <1>6, <1>9, <2>1
    <2>3. l \in D[t.right[y]] => <<y, l>> \in Le
      BY <1>9 DEF Ordered
    <2>4. QED  BY <1>13, <2>1, <2>2, <2>3
  <1>14. QED  BY <1>6, <1>9, <1>12, <1>13

\* y is what a search for k among U has to yield.
Finds(U, k, y) == \/ y \in U /\ KeyOf[y] = k
                  \/ y = nullptr /\ \A m \in U : KeyOf[m] # k

\* Search finds the key if it is there.
LEMMA SearchIs ==
    ASSUME NEW t, NEW U, NEW D, Shape(t.root, t.left, t.right, t.parent, U, D),
           Ordered(t.left, t.right, U, D, Le), NEW k \in Int, NEW y, y = Search(t, k)
    PROVE  Finds(U, k, y)
  <1>1. /\ U \subseteq AllNodes /\ U \subseteq Nodes /\ nil \notin U /\ nil \in AllNodes
        /\ D \in [AllNodes -> SUBSET U]
        /\ D[nil] = {} /\ D[t.root] = U
        /\ \A m \in U : NodeAt(t.left, t.right, t.parent, U, D, m)
    BY NilIsNoNode DEF Shape, AllNodes
  <1>2. PICK V : V = U \cup {nil}
    OBVIOUS
  <1>3. PICK step : step = [m \in V |-> IF m = nil \/ KeyOf[m] = k THEN m ELSE Down(t, m, k)]
    OBVIOUS
  <1>4. \A m \in U : Down(t, m, k) \in V /\ Down(t, m, k) # m
    <2>1. ASSUME NEW m \in U
          PROVE  Down(t, m, k) \in V /\ Down(t, m, k) # m
      <3>1. Down(t, m, k) \in {t.left[m], t.right[m]}
        BY DEF Down
      <3>2. t.left[m] \in V /\ t.right[m] \in V
        BY <1>1, <1>2 DEF NodeAt
      <3>3. t.left[m] # m /\ t.right[m] # m
        BY <1>1, ChildOf
      <3>4. QED  BY <3>1, <3>2, <3>3
    <2>2. QED  BY <2>1
  <1>5. step \in [V -> V]
    BY <1>2, <1>3, <1>4
  <1>6. Turns \in Nat /\ t.root \in V
    <2>1. Turns \in Nat
      BY BelowCounts
    <2>2. QED  BY <1>2, <2>1 DEF Shape
  <1>7. PICK w : Repeated(Turns, V, t.root, step, w) /\ y = IF w[Turns] = nil THEN nullptr ELSE w[Turns]
    <2>1. PICK f : Repeated(Turns, V, t.root, step, f)
      BY <1>5, <1>6, Repeats
    <2>2. f = [i \in 0..Turns |-> IF i = 0 THEN t.root
                                  ELSE IF f[i - 1] = nil \/ KeyOf[f[i - 1]] = k THEN f[i - 1]
                                       ELSE Down(t, f[i - 1], k)]
      <3>1. f \in [0..Turns -> V] /\ f[0] = t.root
        BY <2>1 DEF Repeated
      <3>2. ASSUME NEW i \in 0..Turns, i # 0
            PROVE  f[i] = IF f[i - 1] = nil \/ KeyOf[f[i - 1]] = k THEN f[i - 1] ELSE Down(t, f[i - 1], k)
        <4>1. i \in 1..Turns /\ i - 1 \in 0..Turns
          BY <1>6, <3>2
        <4>2. f[i] = step[f[i - 1]] /\ f[i - 1] \in V
          BY <2>1, <4>1 DEF Repeated
        <4>3. QED  BY <1>3, <4>2
      <3>3. QED  BY <3>1, <3>2
    <2>3. PICK w : /\ w = [i \in 0..Turns |-> IF i = 0 THEN t.root
                                  ELSE IF w[i - 1] = nil \/ KeyOf[w[i - 1]] = k THEN w[i - 1]
                                       ELSE Down(t, w[i - 1], k)]
                   /\ y = IF w[Turns] = nil THEN nullptr ELSE w[Turns]
      <3>1. PICK w : w = CHOOSE g : g = [i \in 0..Turns |-> IF i = 0 THEN t.root
                                  ELSE IF g[i - 1] = nil \/ KeyOf[g[i - 1]] = k THEN g[i - 1]
                                       ELSE Down(t, g[i - 1], k)]
        OBVIOUS
      <3>2. w = [i \in 0..Turns |-> IF i = 0 THEN t.root
                                  ELSE IF w[i - 1] = nil \/ KeyOf[w[i - 1]] = k THEN w[i - 1]
                                       ELSE Down(t, w[i - 1], k)]
        BY <2>2, <3>1
      <3>3. y = IF w[Turns] = nil THEN nullptr ELSE w[Turns]
        BY <3>1 DEF Search
      <3>4. QED  BY <3>2, <3>3
    <2>4. w = [i \in 0..Turns |-> w[i]] /\ w[0] = t.root
      <3>1. 0 \in 0..Turns
        BY <1>6
      <3>2. QED  BY <2>3, <3>1
    <2>5. ASSUME NEW i \in 1..Turns, w[i - 1] \in V
          PROVE  w[i] = step[w[i - 1]]
      <3>1. i \in 0..Turns /\ i # 0
        BY <1>6
      <3>2. w[i] = IF w[i - 1] = nil \/ KeyOf[w[i - 1]] = k THEN w[i - 1] ELSE Down(t, w[i - 1], k)
        BY <2>3, <3>1
      <3>3. QED  BY <1>3, <2>5, <3>2
    <2>6. Repeated(Turns, V, t.root, step, w)
      BY <1>5, <1>6, <2>4, <2>5, FollowsSteps
    <2>7. QED  BY <2>3, <2>6
  <1>8. PICK T : T = {n \in V : (\E m \in U : KeyOf[m] = k) => \E m \in D[n] : KeyOf[m] = k}
    OBVIOUS
  <1>9. t.root \in T
    BY <1>1, <1>6, <1>8
  <1>10. ASSUME NEW n \in V, n \in T
         PROVE  step[n] \in T
    <2>1. CASE n = nil \/ KeyOf[n] = k
      BY <1>3, <1>10, <2>1
    <2>2. CASE n # nil /\ KeyOf[n] # k
      <3>1. n \in U /\ step[n] = Down(t, n, k) /\ step[n] \in V
        BY <1>2, <1>3, <1>5, <2>2
      <3>2. D[n] = {n} \cup D[t.left[n]] \cup D[t.right[n]]
        BY <1>1, <3>1 DEF NodeAt
      <3>3. ASSUME NEW m \in D[n], KeyOf[m] = k
            PROVE  m \in D[step[n]]
        <4>1. KeyOf[n] \in Int
          BY <1>1, <3>1, RBTreeAssumption
        <4>2. CASE m \in D[t.left[n]]
          <5>1. <<m, n>> \in Le
            BY <3>1, <4>2 DEF Ordered
          <5>2. KeyOf[m] <= KeyOf[n]
            BY <5>1 DEF Le
          <5>3. k < KeyOf[n]
            BY <2>2, <3>3, <4>1, <5>2
          <5>4. QED  BY <3>1, <4>2, <5>3 DEF Down
        <4>3. CASE m \in D[t.right[n]]
          <5>1. <<n, m>> \in Le
            BY <3>1, <4>3 DEF Ordered
          <5>2. KeyOf[n] <= KeyOf[m]
            BY <5>1 DEF Le
          <5>3. ~ (k < KeyOf[n])
            BY <2>2, <3>3, <4>1, <5>2
          <5>4. QED  BY <3>1, <4>3, <5>3 DEF Down
        <4>4. m # n
          BY <2>2, <3>3
        <4>5. QED  BY <3>2, <4>2, <4>3, <4>4
      <3>4. QED  BY <1>8, <1>10, <3>1, <3>3
    <2>3. QED  BY <2>1, <2>2
  <1>11. w[Turns] \in T /\ w[Turns] \in V
    BY <1>6, <1>7, <1>9, <1>10, RepeatedKeeps
  <1>12. PICK mu : mu = [m \in V |-> Cardinality(D[m])]
    OBVIOUS
  <1>13. step[w[Turns]] = w[Turns]
    <2>1. /\ [m \in V |-> Cardinality(D[m])] \in [V -> Nat]
          /\ Cardinality(D[t.root]) <= Turns
          /\ \A m \in U : /\ Cardinality(D[t.left[m]]) < Cardinality(D[m])
                          /\ Cardinality(D[t.right[m]]) < Cardinality(D[m])
      BY <1>2, BelowCounts
    <2>2. mu \in [V -> Nat] /\ mu[t.root] <= Turns
      BY <1>6, <1>12, <2>1
    <2>3. ASSUME NEW m \in V
          PROVE  step[m] = m \/ mu[step[m]] < mu[m]
      <3>1. CASE m = nil \/ KeyOf[m] = k
        BY <1>3, <3>1
      <3>2. CASE m # nil /\ KeyOf[m] # k
        <4>1. m \in U /\ step[m] = Down(t, m, k) /\ step[m] \in V
          BY <1>2, <1>3, <1>5, <3>2
        <4>2. mu[step[m]] = Cardinality(D[Down(t, m, k)]) /\ mu[m] = Cardinality(D[m])
          BY <1>12, <4>1
        <4>3. QED  BY <2>1, <4>1, <4>2 DEF Down
      <3>3. QED  BY <3>1, <3>2
    <2>4. QED  BY <1>5, <1>6, <1>7, <2>2, <2>3, Settles
  <1>14. w[Turns] = nil \/ (w[Turns] \in U /\ KeyOf[w[Turns]] = k)
    BY <1>2, <1>3, <1>4, <1>11, <1>13
  <1>15. w[Turns] = nil => \A m \in U : KeyOf[m] # k
    BY <1>1, <1>8, <1>11
  <1>16. QED  BY <1>1, <1>7, <1>14, <1>15 DEF Finds
(***************************************************************************)
(* Remove: a node without a child on side A gives way to its other child.  *)
(***************************************************************************)

Cut(r, A, B, P, c, U, D, R, h, z, s, C, E, Q, e) ==
    /\ Sound(r, A, B, P, c, U, D, R, h, "idle", nullptr)
    /\ z \in U /\ A[z] = nil
    /\ s = IF P[z] = nil THEN B[z] ELSE r
    /\ C = [m \in AllNodes |-> IF m = z THEN nullptr ELSE IF A[m] = z THEN B[z] ELSE A[m]]
    /\ E = [m \in AllNodes |-> IF m = z THEN nullptr ELSE IF B[m] = z THEN B[z] ELSE B[m]]
    /\ Q = [m \in AllNodes |-> IF m = z THEN nullptr ELSE IF m = B[z] THEN P[z] ELSE P[m]]
    /\ e = [c EXCEPT ![z] = RED]

\* DeleteFixup runs if the node that has gone was black.
PhaseAfter(c) == IF c = BLACK THEN "delete" ELSE "idle"
NodeAfter(c, ch) == IF c = BLACK THEN ch ELSE nullptr

Without(D, z) == [m \in AllNodes |-> D[m] \ {z}]

LEMMA CutIsSound ==
    ASSUME NEW r, NEW A, NEW B, NEW P, NEW c, NEW U, NEW D, NEW R, NEW h, NEW z,
           NEW s, NEW C, NEW E, NEW Q, NEW e,
           Cut(r, A, B, P, c, U, D, R, h, z, s, C, E, Q, e)
    PROVE  Sound(s, C, E, Q, e, U \ {z}, Without(D, z), R, h, PhaseAfter(c[z]), NodeAfter(c[z], B[z]))
  <1>0. /\ Sound(r, A, B, P, c, U, D, R, h, "idle", nullptr)
        /\ z \in U /\ A[z] = nil
        /\ s = IF P[z] = nil THEN B[z] ELSE r
        /\ C = [m \in AllNodes |-> IF m = z THEN nullptr ELSE IF A[m] = z THEN B[z] ELSE A[m]]
        /\ E = [m \in AllNodes |-> IF m = z THEN nullptr ELSE IF B[m] = z THEN B[z] ELSE B[m]]
        /\ Q = [m \in AllNodes |-> IF m = z THEN nullptr ELSE IF m = B[z] THEN P[z] ELSE P[m]]
        /\ e = [c EXCEPT ![z] = RED]
    BY DEF Cut
  <1>1. /\ R \in {Le, Ge} /\ Shape(r, A, B, P, U, D) /\ Ordered(A, B, U, D, R)
        /\ Level(A, B, P, c, U, "idle", nullptr, h) /\ Reds(r, P, c, U, "idle", nullptr)
    BY <1>0 DEF Sound
  <1>2. PICK ch, p, V, F, ph, v :
            /\ ch = B[z] /\ p = P[z] /\ V = U \ {z} /\ F = Without(D, z)
            /\ ph = PhaseAfter(c[z]) /\ v = NodeAfter(c[z], B[z])
    OBVIOUS
  <1>3. /\ U \subseteq Nodes /\ nil \notin U /\ U \subseteq AllNodes /\ nil \in AllNodes
        /\ nullptr \notin AllNodes /\ z # nil /\ z \in AllNodes /\ AllNodes \subseteq Pointers /\ nullptr \in Pointers
        /\ D \in [AllNodes -> SUBSET U] /\ D[nil] = {} /\ D[r] = U
        /\ \A m \in U : NodeAt(A, B, P, U, D, m)
        /\ A \in [AllNodes -> Pointers] /\ B \in [AllNodes -> Pointers] /\ P \in [AllNodes -> Pointers]
        /\ \A m \in AllNodes \ U : A[m] = nullptr /\ B[m] = nullptr
        /\ r \in U
    <2>1. /\ U \subseteq Nodes /\ nil \notin U /\ U \subseteq AllNodes /\ nil \in AllNodes
          /\ nullptr \notin AllNodes /\ AllNodes \subseteq Pointers /\ nullptr \in Pointers
      BY <1>1, NilIsNoNode DEF Shape, AllNodes, Pointers
    <2>2. r \in U
      BY <1>0, <1>1, <2>1 DEF Shape
    <2>3. QED  BY <1>0, <1>1, <2>1, <2>2 DEF Shape
  <1>4. /\ ch \in V \cup {nil} /\ ch # z /\ D[z] = {z} \cup D[ch] /\ z \notin D[ch]
        /\ ch # nil => P[ch] = z /\ ch # r
    <2>1. NodeAt(A, B, P, U, D, z)
      BY <1>0, <1>3
    <2>2. ch \in U => ch # z /\ ch # r /\ P[ch] = z
      BY <1>0, <1>1, <1>2, <1>3, ChildOf
    <2>3. QED  BY <1>0, <1>2, <1>3, <2>1, <2>2 DEF NodeAt
  <1>5. p \in V \cup {nil} /\ (p = nil <=> z = r) /\ (p # nil => A[p] = z \/ B[p] = z)
    <2>1. z # r => p \in U /\ (A[p] = z \/ B[p] = z)
      BY <1>0, <1>1, <1>2, ParentOf
    <2>2. z # r => p # z
      BY <1>0, <1>1, <1>2, <1>3, <2>1, ChildOf
    <2>3. z = r => p = nil
      BY <1>1, <1>2, <1>3 DEF Shape
    <2>4. QED  BY <1>2, <1>3, <2>1, <2>2, <2>3
  <1>6. \A m \in V : /\ C[m] = (IF A[m] = z THEN ch ELSE A[m])
                     /\ E[m] = (IF B[m] = z THEN ch ELSE B[m])
                     /\ A[m] = z \/ B[m] = z => m = p
                     /\ ~ (A[m] = z /\ B[m] = z)
                     /\ ch # nil => A[m] # ch /\ B[m] # ch
                     /\ A[m] \in U \cup {nil} /\ B[m] \in U \cup {nil}
                     /\ m # z /\ m \in AllNodes
    <2>1. ASSUME NEW m \in V
          PROVE  /\ C[m] = (IF A[m] = z THEN ch ELSE A[m])
                 /\ E[m] = (IF B[m] = z THEN ch ELSE B[m])
                 /\ A[m] = z \/ B[m] = z => m = p
                 /\ ~ (A[m] = z /\ B[m] = z)
                 /\ ch # nil => A[m] # ch /\ B[m] # ch
                 /\ A[m] \in U \cup {nil} /\ B[m] \in U \cup {nil}
                 /\ m # z /\ m \in AllNodes
      <3>1. m \in AllNodes /\ m # z /\ m \in U
        BY <1>2, <1>3
      <3>2. A[m] = z \/ B[m] = z => m = p
        BY <1>0, <1>1, <1>2, <3>1, ChildOf
      <3>3. ~ (A[m] = z /\ B[m] = z)
        BY <1>0, <1>1, <3>1, ChildOf
      <3>4. ch # nil => A[m] # ch /\ B[m] # ch
        <4>1. ch # nil => ch \in U /\ P[ch] = z
          BY <1>2, <1>4
        <4>2. QED  BY <1>1, <3>1, <4>1, ChildOf
      <3>5. A[m] \in U \cup {nil} /\ B[m] \in U \cup {nil}
        BY <1>3, <3>1 DEF NodeAt
      <3>6. C[m] = (IF A[m] = z THEN ch ELSE A[m]) /\ E[m] = (IF B[m] = z THEN ch ELSE B[m])
        BY <1>0, <1>2, <3>1
      <3>7. QED  BY <3>1, <3>2, <3>3, <3>4, <3>5, <3>6
    <2>2. QED  BY <2>1
  <1>7. /\ \A m \in AllNodes : m # z => Q[m] = IF m = ch THEN p ELSE P[m]
        /\ C \in [AllNodes -> Pointers] /\ E \in [AllNodes -> Pointers] /\ Q \in [AllNodes -> Pointers]
    <2>1. ch \in Pointers /\ p \in Pointers
      BY <1>2, <1>3, <1>4, <1>5
    <2>2. QED  BY <1>0, <1>2, <1>3, <2>1
  <1>8. F \in [AllNodes -> SUBSET V] /\ \A m \in AllNodes : F[m] = D[m] \ {z}
    <2>1. F = [m \in AllNodes |-> D[m] \ {z}]
      BY <1>2 DEF Without
    <2>2. \A m \in AllNodes : D[m] \ {z} \subseteq V
      BY <1>2, <1>3
    <2>3. QED  BY <2>1, <2>2
  <1>9. ASSUME NEW n \in V
        PROVE  NodeAt(C, E, Q, V, F, n)
    <2>1. PICK a, b : a = A[n] /\ b = B[n]
      OBVIOUS
    <2>2. PICK a2, b2 : a2 = C[n] /\ b2 = E[n]
      OBVIOUS
    <2>3. /\ a2 = (IF a = z THEN ch ELSE a) /\ b2 = (IF b = z THEN ch ELSE b)
          /\ a = z \/ b = z => n = p
          /\ ~ (a = z /\ b = z) /\ (ch # nil => a # ch /\ b # ch)
          /\ a \in U \cup {nil} /\ b \in U \cup {nil} /\ n # z /\ n \in AllNodes
      BY <1>6, <2>1, <2>2
    <2>4. /\ D[n] = {n} \cup D[a] \cup D[b] /\ n \notin D[a] /\ n \notin D[b] /\ D[a] \cap D[b] = {}
          /\ a # nil => P[a] = n
          /\ b # nil => P[b] = n
      <3>1. n \in U
        BY <1>2
      <3>2. QED  BY <1>3, <2>1, <3>1 DEF NodeAt
    <2>5. a2 \in V \cup {nil} /\ b2 \in V \cup {nil}
      BY <1>2, <1>4, <2>3
    <2>6. F[a2] = D[a] \ {z} /\ F[b2] = D[b] \ {z} /\ F[n] = D[n] \ {z}
      <3>1. a \in AllNodes /\ b \in AllNodes /\ ch \in AllNodes
        BY <1>2, <1>3, <1>4, <2>3
      <3>2. D[ch] = D[z] \ {z} /\ D[ch] \ {z} = D[ch]
        BY <1>4
      <3>3. F[n] = D[n] \ {z}
        BY <1>8, <2>3
      <3>4. F[a2] = D[a] \ {z}
        BY <1>8, <2>3, <3>1, <3>2
      <3>5. F[b2] = D[b] \ {z}
        BY <1>8, <2>3, <3>1, <3>2
      <3>6. QED  BY <3>3, <3>4, <3>5
    <2>7. F[n] = {n} \cup F[a2] \cup F[b2] /\ n \notin F[a2] /\ n \notin F[b2] /\ F[a2] \cap F[b2] = {}
      BY <2>3, <2>4, <2>6
    <2>8. a2 # nil => Q[a2] = n
      <3>1. CASE a = z
        BY <1>2, <1>3, <1>4, <1>7, <2>3, <3>1
      <3>2. CASE a # z /\ a2 # nil
        <4>1. a \in AllNodes /\ a # ch /\ a # z /\ a2 = a
          BY <1>3, <1>4, <2>3, <3>2
        <4>2. QED  BY <1>7, <2>4, <3>2, <4>1
      <3>3. QED  BY <3>1, <3>2
    <2>9. b2 # nil => Q[b2] = n
      <3>1. CASE b = z
        BY <1>2, <1>3, <1>4, <1>7, <2>3, <3>1
      <3>2. CASE b # z /\ b2 # nil
        <4>1. b \in AllNodes /\ b # ch /\ b # z /\ b2 = b
          BY <1>3, <1>4, <2>3, <3>2
        <4>2. QED  BY <1>7, <2>4, <3>2, <4>1
      <3>3. QED  BY <3>1, <3>2
    <2>10. QED  BY <2>2, <2>5, <2>7, <2>8, <2>9 DEF NodeAt
  <1>10. s \in V \cup {nil} /\ F[s] = V /\ (s # nil => Q[s] = nil) /\ (s = IF z = r THEN ch ELSE r)
    <2>1. s = IF z = r THEN ch ELSE r
      BY <1>0, <1>2, <1>5
    <2>2. CASE z = r
      <3>1. s = ch /\ p = nil /\ ch \in AllNodes
        BY <1>2, <1>3, <1>4, <1>5, <2>1, <2>2
      <3>2. F[ch] = D[ch] \ {z} /\ D[z] = U
        BY <1>3, <1>8, <2>2, <3>1
      <3>3. F[ch] = V
        BY <1>2, <1>4, <3>2
      <3>4. Q[ch] = nil
        BY <1>4, <1>7, <3>1
      <3>5. QED  BY <1>4, <2>1, <2>2, <3>1, <3>3, <3>4
    <2>3. CASE z # r
      <3>1. s = r /\ r \in V /\ r # ch
        BY <1>2, <1>3, <1>4, <2>1, <2>3
      <3>2. F[r] = V
        BY <1>2, <1>3, <1>8
      <3>3. P[r] = nil
        BY <1>1, <1>3 DEF Shape
      <3>4. Q[r] = nil
        BY <1>3, <1>7, <2>3, <3>1, <3>3
      <3>5. QED  BY <2>1, <3>1, <3>2, <3>4
    <2>4. QED  BY <2>2, <2>3
  <1>11. Shape(s, C, E, Q, V, F)
    <2>1. \A m \in AllNodes \ V : C[m] = nullptr /\ E[m] = nullptr
      BY <1>0, <1>2, <1>3
    <2>2. F[nil] = {}
      BY <1>3, <1>8
    <2>3. V \subseteq Nodes
      BY <1>2, <1>3
    <2>4. QED  BY <1>7, <1>8, <1>9, <1>10, <2>1, <2>2, <2>3 DEF Shape
  <1>12. Ordered(C, E, V, F, R)
    <2>1. ASSUME NEW n \in V
          PROVE  F[C[n]] \subseteq D[A[n]] /\ F[E[n]] \subseteq D[B[n]] /\ n \in U
      <3>1. /\ A[n] \in AllNodes /\ B[n] \in AllNodes /\ ch \in AllNodes /\ n \in U
            /\ C[n] = (IF A[n] = z THEN ch ELSE A[n]) /\ E[n] = (IF B[n] = z THEN ch ELSE B[n])
        BY <1>2, <1>3, <1>4, <1>6
      <3>2. F[ch] \subseteq D[z] /\ F[A[n]] \subseteq D[A[n]] /\ F[B[n]] \subseteq D[B[n]]
        BY <1>4, <1>8, <3>1
      <3>3. QED  BY <3>1, <3>2
    <2>2. QED  BY <1>1, <2>1 DEF Ordered
  <1>13. /\ c \in [AllNodes -> {RED, BLACK}] /\ c[nil] = BLACK /\ RED # BLACK
         /\ h \in [AllNodes -> Nat] /\ h[nil] = 0
         /\ e \in [AllNodes -> {RED, BLACK}] /\ e[z] = RED
         /\ \A m \in AllNodes : m # z => e[m] = c[m]
    BY <1>0, <1>1, <1>3 DEF Level, RED, BLACK
  <1>14. \/ c[z] = BLACK /\ ph = "delete" /\ v = ch
         \/ c[z] = RED /\ ph = "idle" /\ v = nullptr
    BY <1>2, <1>3, <1>13 DEF PhaseAfter, NodeAfter
  <1>15. \A n, m : Weight(P, c, "idle", nullptr, n, m) = IF c[m] = BLACK THEN 1 ELSE 0
    BY DEF Weight
  <1>16. \A m \in U : /\ h[A[m]] + (IF c[A[m]] = BLACK THEN 1 ELSE 0) = h[m]
                      /\ h[B[m]] + (IF c[B[m]] = BLACK THEN 1 ELSE 0) = h[m]
    BY <1>1, <1>15 DEF Level
  <1>17. Level(C, E, Q, e, V, ph, v, h)
    <2>1. \A m \in AllNodes \ V : m # nil => e[m] = RED
      BY <1>1, <1>2, <1>13 DEF Level
    <2>2. ASSUME NEW n \in V, NEW a, NEW a2, (a = A[n] /\ a2 = C[n]) \/ (a = B[n] /\ a2 = E[n])
          PROVE  h[a2] + Weight(Q, e, ph, v, n, a2) = h[n]
      <3>1. /\ a2 = (IF a = z THEN ch ELSE a) /\ a \in U \cup {nil} /\ a \in AllNodes
            /\ a = z => n = p
            /\ ch # nil => a # ch
            /\ n # z /\ n \in U
        BY <1>2, <1>3, <1>6, <2>2
      <3>2. h[a] + (IF c[a] = BLACK THEN 1 ELSE 0) = h[n]
        BY <1>16, <2>2, <3>1
      <3>3. CASE a = z
        <4>1. a2 = ch /\ n = p /\ e[ch] = c[ch]
          BY <1>2, <1>3, <1>4, <1>13, <3>1, <3>3
        <4>2. h[ch] + (IF c[ch] = BLACK THEN 1 ELSE 0) = h[z]
          BY <1>0, <1>2, <1>16
        <4>3. ch = nil => Q[nil] = p
          BY <1>3, <1>7
        <4>4. Weight(Q, e, ph, v, p, ch) = (IF c[ch] = BLACK THEN 1 ELSE 0) + (IF c[z] = BLACK THEN 1 ELSE 0)
          <5>1. CASE c[z] = BLACK /\ ph = "delete" /\ v = ch
            BY <4>1, <4>3, <5>1 DEF Weight
          <5>2. CASE c[z] = RED /\ ph = "idle" /\ v = nullptr
            BY <1>13, <4>1, <5>2 DEF Weight
          <5>3. QED  BY <1>14, <5>1, <5>2
        <4>5. h[ch] \in Nat /\ h[z] \in Nat /\ h[n] \in Nat
          BY <1>2, <1>3, <1>4, <1>13, <3>1
        <4>6. h[z] + (IF c[z] = BLACK THEN 1 ELSE 0) = h[n]
          BY <3>2, <3>3
        <4>7. h[ch] + Weight(Q, e, ph, v, p, ch) = h[n]
          BY <4>2, <4>4, <4>5, <4>6
        <4>8. QED  BY <4>1, <4>7
      <3>4. CASE a # z
        <4>1. a2 = a /\ e[a] = c[a]
          BY <1>13, <3>1, <3>4
        <4>2. Weight(Q, e, ph, v, n, a) = IF c[a] = BLACK THEN 1 ELSE 0
          <5>1. CASE ph = "idle"
            BY <4>1, <5>1 DEF Weight
          <5>2. CASE ph = "delete" /\ v = ch /\ c[z] = BLACK
            <6>1. CASE a # ch
              BY <4>1, <5>2, <6>1 DEF Weight
            <6>2. CASE a = ch
              <7>1. a = nil /\ ch = nil
                BY <3>1, <6>2
              <7>2. n # p
                <8>1. ASSUME n = p
                      PROVE  FALSE
                  <9>1. h[z] = 1
                    BY <1>0, <1>2, <1>13, <1>16, <7>1
                  <9>2. p # nil /\ (A[p] = z \/ B[p] = z)
                    BY <1>3, <1>5, <3>1, <8>1
                  <9>3. h[p] = h[z] + 1
                    BY <1>16, <3>1, <5>2, <8>1, <9>2
                  <9>4. h[p] = 1
                    BY <1>13, <3>2, <7>1, <8>1
                  <9>5. QED  BY <9>1, <9>3, <9>4
                <8>2. QED  BY <8>1
              <7>3. Q[nil] = p
                BY <1>3, <1>7, <7>1
              <7>4. QED  BY <4>1, <5>2, <7>1, <7>2, <7>3 DEF Weight
            <6>3. QED  BY <6>1, <6>2
          <5>3. QED  BY <1>14, <5>1, <5>2
        <4>3. QED  BY <3>2, <4>1, <4>2
      <3>5. QED  BY <3>3, <3>4
    <2>3. \A n \in V : /\ h[C[n]] + Weight(Q, e, ph, v, n, C[n]) = h[n]
                       /\ h[E[n]] + Weight(Q, e, ph, v, n, E[n]) = h[n]
      <3>1. ASSUME NEW n \in V
            PROVE  /\ h[C[n]] + Weight(Q, e, ph, v, n, C[n]) = h[n]
                   /\ h[E[n]] + Weight(Q, e, ph, v, n, E[n]) = h[n]
        <4>1. PICK a, b, a2, b2 : a = A[n] /\ b = B[n] /\ a2 = C[n] /\ b2 = E[n]
          OBVIOUS
        <4>2. h[a2] + Weight(Q, e, ph, v, n, a2) = h[n]
          BY <2>2, <4>1
        <4>3. h[b2] + Weight(Q, e, ph, v, n, b2) = h[n]
          BY <2>2, <4>1
        <4>4. QED  BY <4>1, <4>2, <4>3
      <3>2. QED  BY <3>1
    <2>4. e[nil] = BLACK
      BY <1>3, <1>13
    <2>5. QED  BY <1>13, <2>1, <2>3, <2>4 DEF Level
  <1>18. \A m \in U : c[m] = RED => m # r /\ c[P[m]] = BLACK
    <2>1. \A m \in U : m # nullptr
      BY <1>3
    <2>2. QED  BY <1>1, <2>1 DEF Reds
  <1>19. Reds(s, Q, e, V, ph, v)
    <2>1. ASSUME NEW n \in V \ {v}, e[n] = RED
          PROVE  n # s /\ e[Q[n]] = BLACK
      <3>1. n \in U /\ n # z /\ c[n] = RED /\ n \in AllNodes /\ n # nil
        BY <1>2, <1>3, <1>13, <2>1
      <3>2. n # r /\ c[P[n]] = BLACK
        BY <1>18, <3>1
      <3>3. n # ch
        <4>1. CASE c[z] = BLACK
          BY <1>13, <1>14, <4>1
        <4>2. CASE c[z] = RED
          BY <1>4, <1>13, <3>1, <3>2, <4>2
        <4>3. QED  BY <1>14, <4>1, <4>2
      <3>4. n # s
        BY <1>10, <3>2, <3>3
      <3>5. P[n] \in U /\ (A[P[n]] = n \/ B[P[n]] = n)
        BY <1>1, <3>1, <3>2, ParentOf
      <3>6. P[n] # z
        BY <1>0, <1>2, <3>1, <3>3, <3>5
      <3>7. Q[n] = P[n] /\ e[P[n]] = c[P[n]]
        BY <1>3, <1>7, <1>13, <3>1, <3>3, <3>5, <3>6
      <3>8. QED  BY <3>2, <3>4, <3>7
    <2>2. QED  BY <2>1 DEF Reds
  <1>20. HeldNode(s, C, E, Q, e, V, ph, v)
    <2>1. CASE ph = "idle" /\ v = nullptr
      BY <2>1 DEF HeldNode
    <2>2. CASE c[z] = BLACK /\ ph = "delete" /\ v = ch
      <3>1. s = nil => ch = nil
        BY <1>3, <1>10
      <3>2. ASSUME ch = nil, s # nil
            PROVE  Q[nil] \in V /\ C[Q[nil]] # E[Q[nil]] /\ (C[Q[nil]] = nil \/ E[Q[nil]] = nil)
        <4>1. Q[nil] = p /\ z # r /\ p \in V
          BY <1>3, <1>5, <1>7, <1>10, <3>2
        <4>2. h[z] = 1
          BY <1>0, <1>2, <1>13, <1>16, <3>2
        <4>3. /\ C[p] = (IF A[p] = z THEN ch ELSE A[p])
              /\ E[p] = (IF B[p] = z THEN ch ELSE B[p])
              /\ ~ (A[p] = z /\ B[p] = z)
          BY <1>6, <4>1
        <4>4. p \in U /\ p # nil /\ (A[p] = z \/ B[p] = z)
          BY <1>2, <1>3, <1>5, <4>1
        <4>5. h[p] = 2
          BY <1>16, <2>2, <4>2, <4>4
        <4>6. A[p] # nil /\ B[p] # nil
          BY <1>13, <1>16, <4>4, <4>5
        <4>7. QED  BY <3>2, <4>1, <4>3, <4>4, <4>6
      <3>3. QED  BY <1>4, <2>2, <3>1, <3>2 DEF HeldNode
    <2>3. QED  BY <1>14, <2>1, <2>2
  <1>21. Sound(s, C, E, Q, e, V, F, R, h, ph, v)
    BY <1>1, <1>11, <1>12, <1>17, <1>19, <1>20 DEF Sound
  <1>22. QED  BY <1>2, <1>21
(***************************************************************************)
(* The same tree of other nodes: rho maps the old nodes to the new.        *)
(***************************************************************************)

Renames(rho, U, W) ==
    /\ rho \in [U \cup {nil} -> W \cup {nil}] /\ rho[nil] = nil
    /\ \A l, m \in U \cup {nil} : rho[l] = rho[m] => l = m
    /\ W \subseteq Nodes /\ \A l \in W : \E m \in U : l = rho[m]

RenamedTo(r, A, B, P, c, U, D, h, ph, v, rho, s, C, E, Q, e, W, F, g, w) ==
    /\ Renames(rho, U, W)
    /\ s = rho[r]
    /\ v # nullptr => v \in U \cup {nil} /\ w = rho[v]
    /\ v = nullptr => w = nullptr
    /\ C \in [AllNodes -> Pointers] /\ E \in [AllNodes -> Pointers] /\ Q \in [AllNodes -> Pointers]
    /\ e \in [AllNodes -> {RED, BLACK}] /\ e[nil] = BLACK
    /\ g \in [AllNodes -> Nat] /\ g[nil] = 0
    /\ F \in [AllNodes -> SUBSET W] /\ F[nil] = {}
    /\ \A m \in AllNodes \ W : /\ C[m] = nullptr /\ E[m] = nullptr
                               /\ m # nil => e[m] = RED
    /\ \A m \in U : /\ C[rho[m]] = rho[A[m]] /\ E[rho[m]] = rho[B[m]] /\ Q[rho[m]] = rho[P[m]]
                    /\ e[rho[m]] = c[m] /\ g[rho[m]] = h[m]
                    /\ F[rho[m]] = {rho[l] : l \in D[m]}
    /\ ph = "delete" /\ v = nil /\ r # nil => Q[nil] = rho[P[nil]]

LEMMA RenamedIsSound ==
    ASSUME NEW r, NEW A, NEW B, NEW P, NEW c, NEW U, NEW D, NEW R, NEW h, NEW ph, NEW v,
           Sound(r, A, B, P, c, U, D, R, h, ph, v),
           NEW rho, NEW s, NEW C, NEW E, NEW Q, NEW e, NEW W, NEW F, NEW g, NEW w,
           RenamedTo(r, A, B, P, c, U, D, h, ph, v, rho, s, C, E, Q, e, W, F, g, w),
           Ordered(C, E, W, F, R)
    PROVE  Sound(s, C, E, Q, e, W, F, R, g, ph, w)
  <1>1. /\ R \in {Le, Ge} /\ Shape(r, A, B, P, U, D) /\ Level(A, B, P, c, U, ph, v, h)
        /\ Reds(r, P, c, U, ph, v) /\ HeldNode(r, A, B, P, c, U, ph, v)
    BY DEF Sound
  <1>2. /\ rho \in [U \cup {nil} -> W \cup {nil}] /\ rho[nil] = nil
        /\ \A l, m \in U \cup {nil} : rho[l] = rho[m] => l = m
        /\ W \subseteq Nodes /\ \A l \in W : \E m \in U : l = rho[m]
        /\ s = rho[r]
        /\ v # nullptr => v \in U \cup {nil} /\ w = rho[v]
        /\ v = nullptr => w = nullptr
        /\ C \in [AllNodes -> Pointers] /\ E \in [AllNodes -> Pointers] /\ Q \in [AllNodes -> Pointers]
        /\ e \in [AllNodes -> {RED, BLACK}] /\ e[nil] = BLACK
        /\ g \in [AllNodes -> Nat] /\ g[nil] = 0
        /\ F \in [AllNodes -> SUBSET W] /\ F[nil] = {}
        /\ \A m \in AllNodes \ W : /\ C[m] = nullptr /\ E[m] = nullptr
                                   /\ m # nil => e[m] = RED
        /\ ph = "delete" /\ v = nil /\ r # nil => Q[nil] = rho[P[nil]]
    BY DEF RenamedTo, Renames
  <1>3. \A m \in U : /\ C[rho[m]] = rho[A[m]] /\ E[rho[m]] = rho[B[m]] /\ Q[rho[m]] = rho[P[m]]
                     /\ e[rho[m]] = c[m] /\ g[rho[m]] = h[m]
                     /\ F[rho[m]] = {rho[l] : l \in D[m]}
    BY DEF RenamedTo
  <1>4. /\ U \subseteq Nodes /\ nil \notin U /\ U \subseteq AllNodes /\ nil \in AllNodes
        /\ nullptr \notin AllNodes /\ nil \notin W /\ W \subseteq AllNodes
        /\ D \in [AllNodes -> SUBSET U] /\ D[nil] = {} /\ D[r] = U /\ r \in U \cup {nil}
        /\ \A m \in U : NodeAt(A, B, P, U, D, m)
    <2>1. nil \notin W /\ W \subseteq AllNodes /\ nullptr \notin AllNodes /\ nil \in AllNodes
      BY <1>2, NilIsNoNode DEF AllNodes
    <2>2. U \subseteq Nodes /\ nil \notin U /\ U \subseteq AllNodes
      BY <1>1, NilIsNoNode DEF Shape, AllNodes
    <2>3. QED  BY <1>1, <2>1, <2>2 DEF Shape
  <1>5. \A m \in U : rho[m] \in W /\ rho[m] # nil
    BY <1>2, <1>4
  <1>6. \A m \in U : /\ A[m] \in U \cup {nil} /\ B[m] \in U \cup {nil} /\ P[m] \in U \cup {nil}
                     /\ m # r => P[m] \in U
                     /\ m = r => P[m] = nil
    <2>1. \A m \in U : m # r => P[m] \in U
      BY <1>1, ParentOf
    <2>2. \A m \in U : m = r => P[m] = nil
      BY <1>1, <1>4 DEF Shape
    <2>3. QED  BY <1>4, <2>1, <2>2 DEF NodeAt
  <1>7. ASSUME NEW l \in U
        PROVE  NodeAt(C, E, Q, W, F, rho[l])
    <2>1. PICK a, b, n : a = A[l] /\ b = B[l] /\ n = rho[l]
      OBVIOUS
    <2>2. PICK a2, b2 : a2 = rho[a] /\ b2 = rho[b]
      OBVIOUS
    <2>3. /\ a \in U \cup {nil} /\ b \in U \cup {nil}
          /\ D[l] = {l} \cup D[a] \cup D[b] /\ l \notin D[a] /\ l \notin D[b] /\ D[a] \cap D[b] = {}
          /\ a # nil => P[a] = l
          /\ b # nil => P[b] = l
      BY <1>4, <2>1 DEF NodeAt
    <2>4. C[n] = a2 /\ E[n] = b2 /\ F[n] = {rho[m] : m \in D[l]}
      BY <1>3, <2>1, <2>2
    <2>5. a2 \in W \cup {nil} /\ b2 \in W \cup {nil}
      BY <1>2, <2>2, <2>3
    <2>6. F[a2] = {rho[m] : m \in D[a]} /\ F[b2] = {rho[m] : m \in D[b]}
      BY <1>2, <1>3, <1>4, <2>2, <2>3
    <2>7. D[l] \subseteq U /\ D[a] \subseteq U /\ D[b] \subseteq U
      BY <1>4, <2>3
    <2>8. F[n] = {n} \cup F[a2] \cup F[b2]
      BY <2>1, <2>3, <2>4, <2>6
    <2>9. n \notin F[a2] /\ n \notin F[b2]
      BY <1>2, <2>1, <2>3, <2>6, <2>7
    <2>10. F[a2] \cap F[b2] = {}
      <3>1. ASSUME NEW i \in F[a2], i \in F[b2]
            PROVE  FALSE
        <4>1. PICK m1 \in D[a] : i = rho[m1]
          BY <2>6
        <4>2. PICK m2 \in D[b] : i = rho[m2]
          BY <2>6, <3>1
        <4>3. m1 \in U \cup {nil} /\ m2 \in U \cup {nil} /\ rho[m1] = rho[m2]
          BY <2>7, <4>1, <4>2
        <4>4. m1 = m2
          BY <1>2, <4>3
        <4>5. QED  BY <2>3, <4>1, <4>2, <4>4
      <3>2. QED  BY <3>1
    <2>11. a2 # nil => Q[a2] = n
      BY <1>2, <1>3, <2>1, <2>2, <2>3
    <2>12. b2 # nil => Q[b2] = n
      BY <1>2, <1>3, <2>1, <2>2, <2>3
    <2>13. NodeAt(C, E, Q, W, F, n)
      BY <2>4, <2>5, <2>8, <2>9, <2>10, <2>11, <2>12 DEF NodeAt
    <2>14. QED  BY <2>1, <2>13
  <1>8. Shape(s, C, E, Q, W, F)
    <2>1. s \in W \cup {nil}
      BY <1>2, <1>4
    <2>2. F[s] = W
      <3>1. CASE r = nil
        <4>1. U = {}
          BY <1>4, <3>1
        <4>2. W = {}
          BY <1>2, <4>1
        <4>3. QED  BY <1>2, <3>1, <4>2
      <3>2. CASE r \in U
        <4>1. F[s] = {rho[l] : l \in U}
          BY <1>2, <1>3, <1>4, <3>2
        <4>2. QED  BY <1>2, <1>5, <4>1
      <3>3. QED  BY <1>4, <3>1, <3>2
    <2>3. s # nil => Q[s] = nil
      BY <1>2, <1>3, <1>4, <1>6
    <2>4. \A n \in W : NodeAt(C, E, Q, W, F, n)
      BY <1>2, <1>7
    <2>5. QED  BY <1>2, <2>1, <2>2, <2>3, <2>4 DEF Shape
  <1>9. \A m \in U \cup {nil} : e[rho[m]] = c[m] /\ g[rho[m]] = h[m]
    BY <1>1, <1>2, <1>3 DEF Level
  <1>10. ASSUME NEW n \in U, NEW m \in U \cup {nil}
         PROVE  Weight(Q, e, ph, w, rho[n], rho[m]) = Weight(P, c, ph, v, n, m)
    <2>1. rho[m] = w <=> m = v
      BY <1>2, <1>4
    <2>2. rho[m] = nil <=> m = nil
      BY <1>2
    <2>3. ph = "delete" /\ v = nil /\ m = nil => (rho[n] = Q[nil] <=> n = P[nil])
      <3>1. ASSUME ph = "delete", v = nil
            PROVE  rho[n] = Q[nil] <=> n = P[nil]
        <4>1. r # nil
          BY <1>4
        <4>2. P[nil] \in U /\ Q[nil] = rho[P[nil]]
          BY <1>1, <1>2, <3>1, <4>1 DEF HeldNode
        <4>3. QED  BY <1>2, <4>2
      <3>2. QED  BY <3>1
    <2>4. e[rho[m]] = c[m]
      BY <1>9
    <2>5. QED  BY <2>1, <2>2, <2>3, <2>4 DEF Weight
  <1>11. Level(C, E, Q, e, W, ph, w, g)
    <2>1. ASSUME NEW l \in U
          PROVE  /\ g[C[rho[l]]] + Weight(Q, e, ph, w, rho[l], C[rho[l]]) = g[rho[l]]
                 /\ g[E[rho[l]]] + Weight(Q, e, ph, w, rho[l], E[rho[l]]) = g[rho[l]]
      <3>1. /\ h[A[l]] + Weight(P, c, ph, v, l, A[l]) = h[l]
            /\ h[B[l]] + Weight(P, c, ph, v, l, B[l]) = h[l]
        BY <1>1 DEF Level
      <3>2. C[rho[l]] = rho[A[l]] /\ E[rho[l]] = rho[B[l]]
        BY <1>3
      <3>3. A[l] \in U \cup {nil} /\ B[l] \in U \cup {nil}
        BY <1>6
      <3>4. g[rho[A[l]]] = h[A[l]] /\ g[rho[B[l]]] = h[B[l]] /\ g[rho[l]] = h[l]
        BY <1>9, <3>3
      <3>5. /\ Weight(Q, e, ph, w, rho[l], rho[A[l]]) = Weight(P, c, ph, v, l, A[l])
            /\ Weight(Q, e, ph, w, rho[l], rho[B[l]]) = Weight(P, c, ph, v, l, B[l])
        BY <1>10, <3>3
      <3>6. QED  BY <3>1, <3>2, <3>4, <3>5
    <2>2. ASSUME NEW n \in W
          PROVE  /\ g[C[n]] + Weight(Q, e, ph, w, n, C[n]) = g[n]
                 /\ g[E[n]] + Weight(Q, e, ph, w, n, E[n]) = g[n]
      <3>1. PICK l \in U : n = rho[l]
        BY <1>2
      <3>2. QED  BY <2>1, <3>1
    <2>3. \A m \in AllNodes \ W : m # nil => e[m] = RED
      BY <1>2
    <2>4. QED  BY <1>2, <2>2, <2>3 DEF Level
  <1>12. Reds(s, Q, e, W, ph, w)
    <2>1. ASSUME NEW n \in W \ {w}, e[n] = RED
          PROVE  n # s /\ (e[Q[n]] = BLACK \/ (ph = "delete" /\ Q[n] = w))
      <3>1. PICK l \in U : n = rho[l]
        BY <1>2
      <3>2. c[l] = RED /\ l # v
        BY <1>2, <1>3, <1>4, <2>1, <3>1
      <3>3. l # r /\ (c[P[l]] = BLACK \/ (ph = "delete" /\ P[l] = v))
        BY <1>1, <3>2 DEF Reds
      <3>4. n # s
        BY <1>2, <1>4, <3>1, <3>3
      <3>5. P[l] \in U /\ Q[n] = rho[P[l]]
        BY <1>3, <1>6, <3>1, <3>3
      <3>6. e[Q[n]] = c[P[l]]
        BY <1>3, <3>5
      <3>7. P[l] = v => Q[n] = w
        BY <1>2, <1>4, <3>5
      <3>8. QED  BY <3>3, <3>4, <3>6, <3>7
    <2>2. QED  BY <2>1 DEF Reds
  <1>13. HeldNode(s, C, E, Q, e, W, ph, w)
    <2>1. \/ ph = "insert" /\ w \in W /\ e[w] = RED
          \/ ph = "idle" /\ w = nullptr
          \/ ph = "delete" /\ w \in W \cup {nil}
      <3>1. CASE ph = "insert" /\ v \in U /\ c[v] = RED
        <4>1. v # nullptr
          BY <1>4, <3>1
        <4>2. w = rho[v]
          BY <1>2, <4>1
        <4>3. QED  BY <1>3, <1>5, <3>1, <4>2
      <3>2. CASE ph = "idle" /\ v = nullptr
        BY <1>2, <3>2
      <3>3. CASE ph = "delete" /\ v \in U \cup {nil}
        <4>1. v # nullptr
          BY <1>4, <3>3
        <4>2. w = rho[v] /\ rho[v] \in W \cup {nil}
          BY <1>2, <3>3, <4>1
        <4>3. QED  BY <3>3, <4>2
      <3>4. QED  BY <1>1, <3>1, <3>2, <3>3 DEF HeldNode
    <2>2. ASSUME ph = "delete", w = nil, s # nil
          PROVE  /\ Q[nil] \in W /\ C[Q[nil]] # E[Q[nil]]
                 /\ C[Q[nil]] = nil \/ E[Q[nil]] = nil
      <3>1. v \in U \cup {nil} /\ v # nullptr
        BY <1>1, <1>4, <2>2 DEF HeldNode
      <3>2. v = nil /\ r # nil
        BY <1>2, <2>2, <3>1
      <3>3. /\ P[nil] \in U /\ A[P[nil]] # B[P[nil]]
            /\ A[P[nil]] = nil \/ B[P[nil]] = nil
        BY <1>1, <2>2, <3>2 DEF HeldNode
      <3>4. PICK q : q = P[nil]
        OBVIOUS
      <3>5. Q[nil] = rho[q] /\ q \in U
        BY <1>2, <2>2, <3>2, <3>3, <3>4
      <3>6. C[rho[q]] = rho[A[q]] /\ E[rho[q]] = rho[B[q]] /\ A[q] \in U \cup {nil} /\ B[q] \in U \cup {nil}
        BY <1>3, <1>6, <3>5
      <3>7. rho[A[q]] # rho[B[q]] /\ (rho[A[q]] = nil \/ rho[B[q]] = nil)
        BY <1>2, <3>3, <3>4, <3>6
      <3>8. QED  BY <1>5, <3>5, <3>6, <3>7
    <2>3. s = nil => w \in {nil, nullptr}
      <3>1. s = nil => r = nil
        BY <1>2, <1>4
      <3>2. r = nil => v \in {nil, nullptr}
        BY <1>1 DEF HeldNode
      <3>3. QED  BY <1>2, <3>1, <3>2
    <2>4. QED  BY <2>1, <2>2, <2>3 DEF HeldNode
  <1>14. QED  BY <1>1, <1>8, <1>11, <1>12, <1>13 DEF Sound
(***************************************************************************)
(* What Remove does to the record.                                         *)
(***************************************************************************)

IsChildOnce(t, u) ==
    /\ u \in Nodes
    /\ t.parent[u] # nil => t.parent[u] \in Nodes /\ (t.left[t.parent[u]] = u \/ t.right[t.parent[u]] = u)
    /\ \A m \in AllNodes : /\ t.left[m] = u \/ t.right[m] = u => m = t.parent[u] /\ m # nil
                           /\ ~ (t.left[m] = u /\ t.right[m] = u)

LEMMA NodesAreChildrenOnce ==
    ASSUME NEW t, NEW U, NEW D, Shape(t.root, t.left, t.right, t.parent, U, D)
    PROVE  \A u \in U : IsChildOnce(t, u)
  <1>1. U \subseteq Nodes /\ nil \notin U
    BY NilIsNoNode DEF Shape
  <1>2. ASSUME NEW u \in U
        PROVE  IsChildOnce(t, u)
    <2>1. u # t.root => t.parent[u] \in U /\ (t.left[t.parent[u]] = u \/ t.right[t.parent[u]] = u)
      BY ParentOf
    <2>2. u = t.root => t.parent[u] = nil
      BY <1>1 DEF Shape
    <2>3. \A m \in AllNodes : /\ t.left[m] = u \/ t.right[m] = u => m = t.parent[u] /\ m # nil
                              /\ ~ (t.left[m] = u /\ t.right[m] = u)
      BY <1>1, ChildOf
    <2>4. u \in Nodes
      BY <1>1
    <2>5. t.parent[u] # nil => t.parent[u] \in Nodes /\ (t.left[t.parent[u]] = u \/ t.right[t.parent[u]] = u)
      BY <1>1, <2>1, <2>2
    <2>6. QED  BY <2>3, <2>4, <2>5 DEF IsChildOnce
  <1>3. QED  BY <1>2

Transplanted(t, u, v, q) ==
    /\ q \in TreeRecords /\ q.color = t.color /\ q.parent = [t.parent EXCEPT ![v] = t.parent[u]]
    /\ q.root = IF t.parent[u] = nil THEN v ELSE t.root
    /\ q.left = [m \in AllNodes |-> IF t.left[m] = u THEN v ELSE t.left[m]]
    /\ q.right = [m \in AllNodes |-> IF t.right[m] = u THEN v ELSE t.right[m]]

LEMMA TransplantIs ==
    ASSUME NEW t \in TreeRecords, NEW u, IsChildOnce(t, u), NEW v \in AllNodes
    PROVE  Transplanted(t, u, v, Transplant(t, u, v))
  <1>1. PICK q : q = ReplaceChild(t, u, v)
    OBVIOUS
  <1>2. PICK w : w = Transplant(t, u, v)
    OBVIOUS
  <1>3. w = [q EXCEPT !.parent[v] = t.parent[u]]
    BY <1>1, <1>2 DEF Transplant
  <1>4. u \in Nodes /\ u \in AllNodes /\ t.parent[u] \in Pointers
    BY DEF IsChildOnce, TreeRecords, AllNodes
  <1>5. /\ q \in TreeRecords /\ q.color = t.color /\ q.parent = t.parent
        /\ q.root = IF t.parent[u] = nil THEN v ELSE t.root
        /\ q.left = [m \in AllNodes |-> IF t.left[m] = u THEN v ELSE t.left[m]]
        /\ q.right = [m \in AllNodes |-> IF t.right[m] = u THEN v ELSE t.right[m]]
    <2>1. t.parent[u] # nil => t.parent[u] \in Nodes /\ (t.left[t.parent[u]] = u \/ t.right[t.parent[u]] = u)
      BY DEF IsChildOnce
    <2>2. \A m \in AllNodes : /\ t.left[m] = u \/ t.right[m] = u => m = t.parent[u] /\ m # nil
                              /\ ~ (t.left[m] = u /\ t.right[m] = u)
      BY DEF IsChildOnce
    <2>3. QED  BY <1>1, <1>4, <2>1, <2>2, ReplaceChildIs
  <1>6. /\ w \in TreeRecords /\ w.color = q.color /\ w.root = q.root /\ w.left = q.left /\ w.right = q.right
        /\ w.parent = [q.parent EXCEPT ![v] = t.parent[u]]
    BY <1>3, <1>4, <1>5 DEF TreeRecords
  <1>7. QED  BY <1>2, <1>5, <1>6 DEF Transplanted

FreedTo(t, z, q) ==
    /\ q \in TreeRecords /\ q.root = t.root /\ q.color = [t.color EXCEPT ![z] = RED]
    /\ q.left = [t.left EXCEPT ![z] = nullptr] /\ q.right = [t.right EXCEPT ![z] = nullptr]
    /\ q.parent = [t.parent EXCEPT ![z] = nullptr]

LEMMA FreedIs ==
    ASSUME NEW t \in TreeRecords, NEW z \in AllNodes
    PROVE  FreedTo(t, z, Freed(t, z))
  <1>1. PICK q : q = Freed(t, z)
    OBVIOUS
  <1>2. q = [t EXCEPT !.color[z] = RED, !.left[z] = nullptr, !.right[z] = nullptr, !.parent[z] = nullptr]
    BY <1>1 DEF Freed
  <1>3. nullptr \in Pointers
    BY DEF Pointers
  <1>4. PICK q1 : q1 = [t EXCEPT !.color[z] = RED]
    OBVIOUS
  <1>5. PICK q2 : q2 = [q1 EXCEPT !.left[z] = nullptr]
    OBVIOUS
  <1>6. PICK q3 : q3 = [q2 EXCEPT !.right[z] = nullptr]
    OBVIOUS
  <1>7. q = [q3 EXCEPT !.parent[z] = nullptr]
    BY <1>2, <1>4, <1>5, <1>6
  <1>8. q1 \in TreeRecords /\ q1.root = t.root /\ q1.color = [t.color EXCEPT ![z] = RED]
        /\ q1.left = t.left /\ q1.right = t.right /\ q1.parent = t.parent
    BY <1>4 DEF TreeRecords
  <1>9. q2 \in TreeRecords /\ q2.root = q1.root /\ q2.color = q1.color
        /\ q2.left = [q1.left EXCEPT ![z] = nullptr] /\ q2.right = q1.right /\ q2.parent = q1.parent
    BY <1>3, <1>5, <1>8 DEF TreeRecords
  <1>10. q3 \in TreeRecords /\ q3.root = q2.root /\ q3.color = q2.color
         /\ q3.left = q2.left /\ q3.right = [q2.right EXCEPT ![z] = nullptr] /\ q3.parent = q2.parent
    BY <1>3, <1>6, <1>9 DEF TreeRecords
  <1>11. q \in TreeRecords /\ q.root = q3.root /\ q.color = q3.color
         /\ q.left = q3.left /\ q.right = q3.right /\ q.parent = [q3.parent EXCEPT ![z] = nullptr]
    BY <1>3, <1>7, <1>10 DEF TreeRecords
  <1>12. QED  BY <1>1, <1>8, <1>9, <1>10, <1>11 DEF FreedTo

\* z has one child or none: d is a side where it has none.
LEMMA RemovedKeeps ==
    ASSUME NEW t \in TreeRecords, NEW U, Sane(t, U, "idle", nullptr), NEW z \in U,
           NEW d \in Directions, t[d][z] = nil, NEW ch, ch = t[Other(d)][z],
           NEW q, q = Freed(Transplant(t, z, ch), z)
    PROVE  Sane(q, U \ {z}, PhaseAfter(t.color[z]), NodeAfter(t.color[z], ch))
  <1>1. PICK D, h : Facing(t, d, U, D, h, "idle", nullptr)
    BY EitherWay
  <1>2. PICK R : R = IF d = "left" THEN Le ELSE Ge
    OBVIOUS
  <1>3. PICK A, B, P, c, r : A = t[d] /\ B = t[Other(d)] /\ P = t.parent /\ c = t.color /\ r = t.root
    OBVIOUS
  <1>4. Sound(r, A, B, P, c, U, D, R, h, "idle", nullptr)
    BY <1>1, <1>2, <1>3 DEF Facing
  <1>5. Shape(r, A, B, P, U, D)
    BY <1>4 DEF Sound
  <1>6. /\ U \subseteq AllNodes /\ z \in AllNodes /\ nil \in AllNodes /\ ch \in AllNodes /\ ch # z
    <2>1. U \subseteq AllNodes /\ nil \in AllNodes /\ nil \notin U
      BY <1>5, NilIsNoNode DEF Shape, AllNodes
    <2>2. ch \in U \cup {nil}
      BY <1>3, <1>5 DEF Shape, NodeAt
    <2>3. ch \in U => ch # z
      BY <1>3, <1>5, <2>1, ChildOf
    <2>4. QED  BY <2>1, <2>2, <2>3
  <1>7. IsChildOnce(t, z)
    <2>1. PICK F, k : Facing(t, "left", U, F, k, "idle", nullptr)
      BY DEF Sane
    <2>2. Shape(t.root, t.left, t.right, t.parent, U, F)
      BY <2>1, Others DEF Facing, Sound
    <2>3. QED  BY <2>2, NodesAreChildrenOnce
  <1>8. PICK u : u = Transplant(t, z, ch)
    OBVIOUS
  <1>9. Transplanted(t, z, ch, u)
    BY <1>6, <1>7, <1>8, TransplantIs
  <1>10. u \in TreeRecords
    BY <1>9 DEF Transplanted
  <1>11. FreedTo(u, z, q)
    BY <1>6, <1>8, <1>10, FreedIs
  <1>12. PICK s, C, E, Q, e : s = q.root /\ C = q[d] /\ E = q[Other(d)] /\ Q = q.parent /\ e = q.color
    OBVIOUS
  <1>13. /\ q \in TreeRecords /\ s = (IF P[z] = nil THEN ch ELSE r) /\ e = [c EXCEPT ![z] = RED]
    BY <1>3, <1>9, <1>11, <1>12 DEF Transplanted, FreedTo
  <1>14. Q = [m \in AllNodes |-> IF m = z THEN nullptr ELSE IF m = ch THEN P[z] ELSE P[m]]
    <2>1. Q = [[P EXCEPT ![ch] = P[z]] EXCEPT ![z] = nullptr]
      BY <1>3, <1>9, <1>11, <1>12 DEF Transplanted, FreedTo
    <2>2. P \in [AllNodes -> Pointers]
      BY <1>5 DEF Shape
    <2>3. PICK P1 : P1 = [P EXCEPT ![ch] = P[z]]
      OBVIOUS
    <2>4. P1 = [m \in AllNodes |-> IF m = ch THEN P[z] ELSE P[m]]
      BY <1>6, <2>2, <2>3
    <2>5. Q = [P1 EXCEPT ![z] = nullptr]
      BY <2>1, <2>3
    <2>6. QED  BY <1>6, <2>4, <2>5
  <1>15. /\ q.left = [m \in AllNodes |-> IF m = z THEN nullptr ELSE IF t.left[m] = z THEN ch ELSE t.left[m]]
         /\ q.right = [m \in AllNodes |-> IF m = z THEN nullptr ELSE IF t.right[m] = z THEN ch ELSE t.right[m]]
    <2>1. /\ u.left = [m \in AllNodes |-> IF t.left[m] = z THEN ch ELSE t.left[m]]
          /\ u.right = [m \in AllNodes |-> IF t.right[m] = z THEN ch ELSE t.right[m]]
      BY <1>9 DEF Transplanted
    <2>2. q.left = [u.left EXCEPT ![z] = nullptr] /\ q.right = [u.right EXCEPT ![z] = nullptr]
      BY <1>11 DEF FreedTo
    <2>3. u.left \in [AllNodes -> Pointers] /\ u.right \in [AllNodes -> Pointers]
      BY <1>10 DEF TreeRecords
    <2>4. q.left = [m \in AllNodes |-> IF m = z THEN nullptr ELSE u.left[m]]
      BY <1>6, <2>2, <2>3
    <2>5. q.right = [m \in AllNodes |-> IF m = z THEN nullptr ELSE u.right[m]]
      BY <1>6, <2>2, <2>3
    <2>6. \A m \in AllNodes : /\ u.left[m] = (IF t.left[m] = z THEN ch ELSE t.left[m])
                              /\ u.right[m] = (IF t.right[m] = z THEN ch ELSE t.right[m])
      BY <2>1
    <2>7. QED  BY <2>4, <2>5, <2>6
  <1>16. /\ C = [m \in AllNodes |-> IF m = z THEN nullptr ELSE IF A[m] = z THEN B[z] ELSE A[m]]
         /\ E = [m \in AllNodes |-> IF m = z THEN nullptr ELSE IF B[m] = z THEN B[z] ELSE B[m]]
    <2>1. B[z] = ch
      BY <1>3
    <2>2. CASE d = "left"
      <3>1. A = t.left /\ B = t.right /\ C = q.left /\ E = q.right
        BY <1>3, <1>12, <2>2, Others
      <3>2. QED  BY <1>15, <2>1, <3>1
    <2>3. CASE d = "right"
      <3>1. A = t.right /\ B = t.left /\ C = q.right /\ E = q.left
        BY <1>3, <1>12, <2>3, Others
      <3>2. QED  BY <1>15, <2>1, <3>1
    <2>4. QED  BY <2>2, <2>3 DEF Directions
  <1>17. Cut(r, A, B, P, c, U, D, R, h, z, s, C, E, Q, e)
    <2>1. B[z] = ch /\ A[z] = nil
      BY <1>3
    <2>2. s = IF P[z] = nil THEN B[z] ELSE r
      BY <1>13, <2>1
    <2>3. Q = [m \in AllNodes |-> IF m = z THEN nullptr ELSE IF m = B[z] THEN P[z] ELSE P[m]]
      BY <1>14, <2>1
    <2>4. e = [c EXCEPT ![z] = RED]
      BY <1>13
    <2>5. QED  BY <1>4, <1>16, <2>1, <2>2, <2>3, <2>4 DEF Cut
  <1>18. PICK V, F, ph, v : V = U \ {z} /\ F = Without(D, z) /\ ph = PhaseAfter(c[z]) /\ v = NodeAfter(c[z], B[z])
    OBVIOUS
  <1>19. Sound(s, C, E, Q, e, V, F, R, h, ph, v)
    BY <1>17, <1>18, CutIsSound
  <1>20. Facing(q, d, V, F, h, ph, v)
    BY <1>2, <1>12, <1>19 DEF Facing
  <1>21. Sane(q, V, ph, v)
    BY <1>13, <1>20, EitherWay
  <1>22. V = U \ {z} /\ ph = PhaseAfter(t.color[z]) /\ v = NodeAfter(t.color[z], ch)
    BY <1>3, <1>18
  <1>23. QED  BY <1>21, <1>22

\* z has two children, and y is the leftmost node below its right child.
Successor(t, U, D, z, y) ==
    /\ t \in TreeRecords /\ Shape(t.root, t.left, t.right, t.parent, U, D)
    /\ z \in U /\ t.left[z] # nil /\ t.right[z] # nil
    /\ y \in D[t.right[z]] /\ t.left[y] = nil

LEMMA AboutSuccessor ==
    ASSUME NEW t, NEW U, NEW D, NEW z, NEW y, Successor(t, U, D, z, y),
           NEW a, NEW b, NEW ch, a = t.left[z], b = t.right[z], ch = t.right[y]
    PROVE  /\ U \subseteq AllNodes /\ nil \notin U /\ nil \in AllNodes /\ U \subseteq Nodes
           /\ AllNodes \subseteq Pointers /\ nullptr \notin AllNodes
           /\ z \in U /\ y \in U /\ a \in U /\ b \in U /\ ch \in U \cup {nil}
           /\ y # z /\ y # a /\ a # z /\ b # z /\ a # b
           /\ ch # z /\ ch # y /\ ch # a /\ ch # b
           /\ t.parent[y] \in U /\ t.parent[y] # y /\ (t.parent[y] = z <=> y = b)
           /\ t.parent[z] \in U \cup {nil} /\ t.parent[z] # y /\ t.parent[z] # z
           /\ t.parent[a] = z /\ t.parent[b] = z /\ (ch # nil => t.parent[ch] = y)
           /\ (t.parent[z] = nil <=> z = t.root) /\ y # t.root
           /\ IsChildOnce(t, z) /\ IsChildOnce(t, y)
           /\ z \notin D[b] /\ z \notin D[a] /\ y \notin D[a]
  <1>1. PICK A, B, P : A = t.left /\ B = t.right /\ P = t.parent
    OBVIOUS
  <1>2. /\ t \in TreeRecords /\ Shape(t.root, A, B, P, U, D)
        /\ z \in U /\ a # nil /\ b # nil /\ y \in D[b] /\ A[y] = nil
        /\ a = A[z] /\ b = B[z] /\ ch = B[y]
    BY <1>1 DEF Successor
  <1>3. /\ U \subseteq AllNodes /\ nil \notin U /\ nil \in AllNodes /\ U \subseteq Nodes
        /\ AllNodes \subseteq Pointers /\ nullptr \notin AllNodes
        /\ D \in [AllNodes -> SUBSET U]
    <2>1. U \subseteq Nodes /\ D \in [AllNodes -> SUBSET U]
      BY <1>2 DEF Shape
    <2>2. QED  BY <2>1, NilIsNoNode DEF AllNodes, Pointers
  <1>4. NodeAt(A, B, P, U, D, z)
    BY <1>2 DEF Shape
  <1>5. a \in U /\ b \in U /\ P[a] = z /\ P[b] = z /\ z \notin D[b] /\ z \notin D[a] /\ D[a] \cap D[b] = {}
    BY <1>2, <1>4 DEF NodeAt
  <1>6. y \in U /\ y # z /\ y \notin D[a]
    BY <1>2, <1>3, <1>5
  <1>7. NodeAt(A, B, P, U, D, y) /\ NodeAt(A, B, P, U, D, a) /\ NodeAt(A, B, P, U, D, b)
    BY <1>2, <1>5, <1>6 DEF Shape
  <1>8. ch \in U \cup {nil} /\ (ch # nil => P[ch] = y) /\ y \in D[y]
    BY <1>2, <1>7 DEF NodeAt
  <1>9. a \in D[a] /\ y # a
    BY <1>6, <1>7 DEF NodeAt
  <1>10. a # z /\ b # z /\ a # b
    BY <1>2, <1>3, <1>5, ChildOf
  <1>11. ch # y /\ ch # a /\ ch # b
    <2>1. ch \in U => ch # y
      BY <1>2, <1>3, <1>6, ChildOf
    <2>2. QED  BY <1>2, <1>3, <1>5, <1>6, <1>8, <2>1
  <1>12. D[y] \subseteq D[b]
    BY <1>2, <1>5, DownClosed
  <1>13. y # t.root /\ (y = b \/ P[y] \in D[b])
    BY <1>2, <1>6, BelowChild
  <1>14. P[y] \in U /\ (A[P[y]] = y \/ B[P[y]] = y)
    BY <1>2, <1>6, <1>13, ParentOf
  <1>15. P[y] # y
    BY <1>2, <1>3, <1>6, <1>14, ChildOf
  <1>16. P[y] = z <=> y = b
    BY <1>5, <1>13
  <1>17. z # t.root => P[z] \in U /\ (A[P[z]] = z \/ B[P[z]] = z)
    BY <1>2, ParentOf
  <1>18. z = t.root => P[z] = nil
    BY <1>2, <1>3 DEF Shape
  <1>19. P[z] \in U \cup {nil} /\ (P[z] = nil <=> z = t.root)
    BY <1>3, <1>17, <1>18
  <1>20. P[z] # z /\ P[z] # y /\ ch # z
    <2>1. \A m \in U : A[m] = z \/ B[m] = z => m # z /\ z \in D[m]
      BY <1>2, <1>3, ChildOf
    <2>2. z \notin D[y]
      BY <1>5, <1>12
    <2>3. QED  BY <1>2, <1>3, <1>6, <1>17, <1>18, <2>1, <2>2
  <1>21. IsChildOnce(t, z) /\ IsChildOnce(t, y)
    BY <1>1, <1>2, <1>6, NodesAreChildrenOnce
  <1>22. QED
    BY <1>1, <1>2, <1>3, <1>5, <1>6, <1>8, <1>9, <1>10, <1>11, <1>13, <1>14, <1>15, <1>16, <1>19, <1>20, <1>21

DetachedTo(t, z, y, u) ==
    /\ u \in TreeRecords /\ u.root = t.root /\ u.color = t.color
    /\ \A m \in AllNodes :
          /\ u.left[m] = IF t.left[m] = y THEN t.right[y] ELSE t.left[m]
          /\ u.right[m] = IF m = y /\ y # t.right[z] THEN t.right[z]
                          ELSE IF t.right[m] = y /\ m # z THEN t.right[y] ELSE t.right[m]
          /\ u.parent[m] = IF m = t.right[y] THEN (IF y = t.right[z] THEN y ELSE t.parent[y])
                           ELSE IF m = t.right[z] /\ y # t.right[z] THEN y ELSE t.parent[m]

\* The first part of Spliced: y without its child.
Detached(t, z, y) ==
    IF t.parent[y] = z
    THEN [t EXCEPT !.parent[t.right[y]] = y]
    ELSE LET u == Transplant(t, y, t.right[y])
         IN [u EXCEPT !.right[y] = u.right[z], !.parent[u.right[z]] = y]

LEMMA DetachedIs ==
    ASSUME NEW t, NEW U, NEW D, NEW z, NEW y, Successor(t, U, D, z, y)
    PROVE  DetachedTo(t, z, y, Detached(t, z, y))
  <1>1. PICK a, b, ch : a = t.left[z] /\ b = t.right[z] /\ ch = t.right[y]
    OBVIOUS
  <1>2. /\ U \subseteq AllNodes /\ nil \notin U /\ nil \in AllNodes
        /\ AllNodes \subseteq Pointers
        /\ z \in U /\ y \in U /\ a \in U /\ b \in U /\ ch \in U \cup {nil}
        /\ y # z /\ b # z /\ ch # z /\ ch # y /\ ch # b
        /\ t.parent[y] \in U /\ t.parent[y] # y /\ (t.parent[y] = z <=> y = b)
        /\ IsChildOnce(t, y)
    BY <1>1, AboutSuccessor
  <1>3. t \in TreeRecords
    BY DEF Successor
  <1>4. PICK w : w = Detached(t, z, y)
    OBVIOUS
  <1>5. \A m \in AllNodes : /\ t.left[m] = y \/ t.right[m] = y => m = t.parent[y]
                            /\ ~ (t.left[m] = y /\ t.right[m] = y)
    BY <1>2 DEF IsChildOnce
  <1>6. ch \in AllNodes /\ t.parent[y] \in Pointers /\ y \in AllNodes /\ z \in AllNodes /\ b \in AllNodes
        /\ y \in Pointers /\ b \in Pointers
    BY <1>2
  <1>7. t.left \in [AllNodes -> Pointers] /\ t.right \in [AllNodes -> Pointers] /\ t.parent \in [AllNodes -> Pointers]
    BY <1>3 DEF TreeRecords
  <1>8. CASE y = b
    <2>1. w = [t EXCEPT !.parent[ch] = y]
      BY <1>1, <1>2, <1>4, <1>8 DEF Detached
    <2>2. /\ w \in TreeRecords /\ w.root = t.root /\ w.color = t.color /\ w.left = t.left /\ w.right = t.right
          /\ w.parent = [t.parent EXCEPT ![ch] = y]
      BY <1>3, <1>6, <2>1 DEF TreeRecords
    <2>3. \A m \in AllNodes : t.left[m] # y /\ (t.right[m] = y => m = z)
      BY <1>1, <1>2, <1>5, <1>6, <1>8
    <2>4. \A m \in AllNodes : w.parent[m] = IF m = ch THEN y ELSE t.parent[m]
      BY <1>6, <1>7, <2>2
    <2>5. ASSUME NEW m \in AllNodes
          PROVE  /\ w.left[m] = (IF t.left[m] = y THEN ch ELSE t.left[m])
                 /\ w.right[m] = (IF m = y /\ y # b THEN b ELSE IF t.right[m] = y /\ m # z THEN ch ELSE t.right[m])
                 /\ w.parent[m] = (IF m = ch THEN (IF y = b THEN y ELSE t.parent[y])
                                   ELSE IF m = b /\ y # b THEN y ELSE t.parent[m])
      BY <1>8, <2>2, <2>3, <2>4
    <2>6. QED  BY <1>1, <1>4, <2>2, <2>5 DEF DetachedTo
  <1>9. CASE y # b
    <2>1. PICK u : u = Transplant(t, y, ch)
      OBVIOUS
    <2>2. Transplanted(t, y, ch, u)
      BY <1>2, <1>3, <1>6, <2>1, TransplantIs
    <2>3. /\ u \in TreeRecords /\ u.color = t.color /\ u.parent = [t.parent EXCEPT ![ch] = t.parent[y]]
          /\ u.root = (IF t.parent[y] = nil THEN ch ELSE t.root)
          /\ u.left = [m \in AllNodes |-> IF t.left[m] = y THEN ch ELSE t.left[m]]
          /\ u.right = [m \in AllNodes |-> IF t.right[m] = y THEN ch ELSE t.right[m]]
      BY <2>2 DEF Transplanted
    <2>4. u.root = t.root /\ u.right[z] = b
      BY <1>1, <1>2, <1>6, <1>9, <2>3
    <2>5. w = [u EXCEPT !.right[y] = b, !.parent[b] = y]
      BY <1>1, <1>2, <1>4, <1>9, <2>1, <2>4 DEF Detached
    <2>6. PICK u1 : u1 = [u EXCEPT !.right[y] = b]
      OBVIOUS
    <2>7. /\ u1 \in TreeRecords /\ u1.root = u.root /\ u1.color = u.color /\ u1.left = u.left
          /\ u1.right = [u.right EXCEPT ![y] = b] /\ u1.parent = u.parent
      BY <1>6, <2>3, <2>6 DEF TreeRecords
    <2>8. w = [u1 EXCEPT !.parent[b] = y]
      BY <2>5, <2>6
    <2>9. /\ w \in TreeRecords /\ w.root = u1.root /\ w.color = u1.color /\ w.left = u1.left
          /\ w.right = u1.right /\ w.parent = [u1.parent EXCEPT ![b] = y]
      BY <1>6, <2>7, <2>8 DEF TreeRecords
    <2>10. t.right[z] # y
      BY <1>1, <1>9
    <2>11. \A m \in AllNodes : u.parent[m] = IF m = ch THEN t.parent[y] ELSE t.parent[m]
      BY <1>6, <1>7, <2>3
    <2>12. \A m \in AllNodes : w.parent[m] = IF m = b THEN y ELSE u.parent[m]
      BY <1>6, <1>7, <2>3, <2>7, <2>9
    <2>13. \A m \in AllNodes : w.right[m] = IF m = y THEN b ELSE u.right[m]
      BY <1>6, <2>3, <2>7, <2>9
    <2>14. \A m \in AllNodes : u.right[m] = IF t.right[m] = y THEN ch ELSE t.right[m]
      BY <2>3
    <2>15. \A m \in AllNodes : w.left[m] = IF t.left[m] = y THEN ch ELSE t.left[m]
      BY <2>3, <2>7, <2>9
    <2>16. ASSUME NEW m \in AllNodes
           PROVE  /\ w.left[m] = (IF t.left[m] = y THEN ch ELSE t.left[m])
                  /\ w.right[m] = (IF m = y /\ y # b THEN b ELSE IF t.right[m] = y /\ m # z THEN ch ELSE t.right[m])
                  /\ w.parent[m] = (IF m = ch THEN (IF y = b THEN y ELSE t.parent[y])
                                    ELSE IF m = b /\ y # b THEN y ELSE t.parent[m])
      BY <1>2, <1>9, <2>10, <2>11, <2>12, <2>13, <2>14, <2>15
    <2>17. w \in TreeRecords /\ w.root = t.root /\ w.color = t.color
      BY <2>3, <2>4, <2>7, <2>9
    <2>18. QED  BY <1>1, <1>4, <2>16, <2>17 DEF DetachedTo
  <1>10. QED  BY <1>8, <1>9

SplicedTo(t, z, y, q) ==
    /\ q \in TreeRecords /\ q.root = IF t.parent[z] = nil THEN y ELSE t.root
    /\ q.color = [t.color EXCEPT ![y] = t.color[z], ![z] = RED]
    /\ \A m \in AllNodes :
          /\ q.left[m] = IF m = z THEN nullptr ELSE IF m = y THEN t.left[z]
                         ELSE IF t.left[m] = y THEN t.right[y]
                         ELSE IF t.left[m] = z THEN y ELSE t.left[m]
          /\ q.right[m] = IF m = z THEN nullptr
                          ELSE IF m = y THEN IF y = t.right[z] THEN t.right[y] ELSE t.right[z]
                          ELSE IF t.right[m] = y THEN t.right[y]
                          ELSE IF t.right[m] = z THEN y ELSE t.right[m]
          /\ q.parent[m] = IF m = z THEN nullptr ELSE IF m = y THEN t.parent[z]
                           ELSE IF m = t.right[y] THEN IF y = t.right[z] THEN y ELSE t.parent[y]
                           ELSE IF m \in {t.left[z], t.right[z]} THEN y ELSE t.parent[m]

LEMMA SplicedIs ==
    ASSUME NEW t, NEW U, NEW D, NEW z, NEW y, Successor(t, U, D, z, y)
    PROVE  SplicedTo(t, z, y, Freed(Spliced(t, z, y), z))
  <1>1. PICK a, b, ch, p : a = t.left[z] /\ b = t.right[z] /\ ch = t.right[y] /\ p = t.parent[z]
    OBVIOUS
  <1>2. /\ U \subseteq AllNodes /\ nil \notin U /\ nil \in AllNodes /\ U \subseteq Nodes
        /\ AllNodes \subseteq Pointers /\ nullptr \notin AllNodes
        /\ z \in U /\ y \in U /\ a \in U /\ b \in U /\ ch \in U \cup {nil}
        /\ y # z /\ y # a /\ a # z /\ b # z /\ a # b
        /\ ch # z /\ ch # y /\ ch # a /\ ch # b
        /\ p \in U \cup {nil} /\ p # y /\ p # z
        /\ IsChildOnce(t, z)
    BY <1>1, AboutSuccessor
  <1>3. t \in TreeRecords /\ \A m \in AllNodes : t.right[m] = y /\ m # z => y # b
    <2>1. IsChildOnce(t, y)
      BY <1>1, AboutSuccessor
    <2>2. t.parent[y] = z <=> y = b
      BY <1>1, AboutSuccessor
    <2>3. \A m \in AllNodes : t.right[m] = y => m = t.parent[y]
      BY <2>1 DEF IsChildOnce
    <2>4. QED  BY <2>2, <2>3 DEF Successor
  <1>4. PICK w : w = Detached(t, z, y)
    OBVIOUS
  <1>5. DetachedTo(t, z, y, w)
    BY <1>4, DetachedIs
  <1>6. /\ w \in TreeRecords /\ w.root = t.root /\ w.color = t.color
        /\ \A m \in AllNodes :
             /\ w.left[m] = IF t.left[m] = y THEN ch ELSE t.left[m]
             /\ w.right[m] = IF m = y /\ y # b THEN b
                             ELSE IF t.right[m] = y /\ m # z THEN ch ELSE t.right[m]
             /\ w.parent[m] = IF m = ch THEN (IF y = b THEN y ELSE t.parent[y])
                              ELSE IF m = b /\ y # b THEN y ELSE t.parent[m]
    BY <1>1, <1>5 DEF DetachedTo
  <1>7. z \in AllNodes /\ y \in AllNodes /\ a \in AllNodes /\ y \in Pointers /\ a \in Pointers
    BY <1>2
  <1>8. w.parent[z] = p /\ w.left[z] = a
    BY <1>1, <1>2, <1>6, <1>7
  <1>9. \A m \in AllNodes : /\ w.left[m] = z <=> t.left[m] = z
                            /\ w.right[m] = z <=> t.right[m] = z
    BY <1>1, <1>2, <1>6
  <1>10. IsChildOnce(w, z)
    <2>1. /\ p # nil => p \in Nodes /\ (t.left[p] = z \/ t.right[p] = z)
          /\ \A m \in AllNodes : /\ t.left[m] = z \/ t.right[m] = z => m = p /\ m # nil
                                 /\ ~ (t.left[m] = z /\ t.right[m] = z)
      BY <1>1, <1>2 DEF IsChildOnce
    <2>2. z \in Nodes /\ p \in AllNodes
      BY <1>2
    <2>3. p # nil => p \in Nodes /\ (w.left[p] = z \/ w.right[p] = z)
      BY <1>9, <2>1, <2>2
    <2>4. QED  BY <1>8, <1>9, <2>1, <2>2, <2>3 DEF IsChildOnce
  <1>11. PICK s : s = Transplant(w, z, y)
    OBVIOUS
  <1>12. Transplanted(w, z, y, s)
    BY <1>6, <1>7, <1>10, <1>11, TransplantIs
  <1>13. /\ s \in TreeRecords /\ s.color = w.color /\ s.parent = [w.parent EXCEPT ![y] = p]
         /\ s.root = (IF p = nil THEN y ELSE t.root)
         /\ s.left = [m \in AllNodes |-> IF w.left[m] = z THEN y ELSE w.left[m]]
         /\ s.right = [m \in AllNodes |-> IF w.right[m] = z THEN y ELSE w.right[m]]
    BY <1>6, <1>8, <1>12 DEF Transplanted
  <1>14. s.left[z] = a /\ s.color[z] = t.color[z] /\ s.color[z] \in {RED, BLACK}
    <2>1. s.left[z] = a
      BY <1>2, <1>7, <1>8, <1>13
    <2>2. QED  BY <1>6, <1>7, <1>13, <2>1 DEF TreeRecords
  <1>15. PICK f : f = Spliced(t, z, y)
    OBVIOUS
  <1>16. f = [s EXCEPT !.left[y] = a, !.parent[a] = y, !.color[y] = t.color[z]]
    BY <1>4, <1>11, <1>14, <1>15 DEF Spliced, Detached
  <1>17. PICK f1 : f1 = [s EXCEPT !.left[y] = a]
    OBVIOUS
  <1>18. PICK f2 : f2 = [f1 EXCEPT !.parent[a] = y]
    OBVIOUS
  <1>19. f = [f2 EXCEPT !.color[y] = t.color[z]]
    BY <1>16, <1>17, <1>18
  <1>20. /\ f1 \in TreeRecords /\ f1.root = s.root /\ f1.color = s.color /\ f1.parent = s.parent
         /\ f1.left = [s.left EXCEPT ![y] = a] /\ f1.right = s.right
    BY <1>7, <1>13, <1>17 DEF TreeRecords
  <1>21. /\ f2 \in TreeRecords /\ f2.root = f1.root /\ f2.color = f1.color
         /\ f2.parent = [f1.parent EXCEPT ![a] = y] /\ f2.left = f1.left /\ f2.right = f1.right
    BY <1>7, <1>18, <1>20 DEF TreeRecords
  <1>22. /\ f \in TreeRecords /\ f.root = f2.root /\ f.parent = f2.parent
         /\ f.color = [f2.color EXCEPT ![y] = t.color[z]] /\ f.left = f2.left /\ f.right = f2.right
    BY <1>7, <1>14, <1>19, <1>21 DEF TreeRecords
  <1>23. PICK q : q = Freed(f, z)
    OBVIOUS
  <1>24. FreedTo(f, z, q)
    BY <1>7, <1>22, <1>23, FreedIs
  <1>25. /\ q \in TreeRecords /\ q.root = f.root /\ q.color = [f.color EXCEPT ![z] = RED]
         /\ q.left = [f.left EXCEPT ![z] = nullptr] /\ q.right = [f.right EXCEPT ![z] = nullptr]
         /\ q.parent = [f.parent EXCEPT ![z] = nullptr]
    BY <1>24 DEF FreedTo
  <1>26. \A m \in AllNodes : q.left[m] = IF m = z THEN nullptr ELSE IF m = y THEN a
                                         ELSE IF t.left[m] = y THEN ch
                                         ELSE IF t.left[m] = z THEN y ELSE t.left[m]
    <2>1. \A m \in AllNodes : q.left[m] = IF m = z THEN nullptr ELSE f.left[m]
      BY <1>22, <1>25 DEF TreeRecords
    <2>2. \A m \in AllNodes : f.left[m] = IF m = y THEN a ELSE s.left[m]
      BY <1>13, <1>20, <1>21, <1>22
    <2>3. \A m \in AllNodes : s.left[m] = IF w.left[m] = z THEN y ELSE w.left[m]
      BY <1>13
    <2>4. \A m \in AllNodes : w.left[m] = IF t.left[m] = y THEN ch ELSE t.left[m]
      BY <1>6
    <2>5. QED  BY <1>2, <2>1, <2>2, <2>3, <2>4
  <1>27. \A m \in AllNodes : q.right[m] = IF m = z THEN nullptr
                                          ELSE IF m = y THEN IF y = b THEN ch ELSE b
                                          ELSE IF t.right[m] = y THEN ch
                                          ELSE IF t.right[m] = z THEN y ELSE t.right[m]
    <2>1. \A m \in AllNodes : q.right[m] = IF m = z THEN nullptr ELSE f.right[m]
      BY <1>22, <1>25 DEF TreeRecords
    <2>2. \A m \in AllNodes : f.right[m] = IF w.right[m] = z THEN y ELSE w.right[m]
      BY <1>13, <1>20, <1>21, <1>22
    <2>3. \A m \in AllNodes : w.right[m] = IF m = y /\ y # b THEN b
                                           ELSE IF t.right[m] = y /\ m # z THEN ch ELSE t.right[m]
      BY <1>6
    <2>4. QED  BY <1>1, <1>2, <2>1, <2>2, <2>3
  <1>28. \A m \in AllNodes : q.parent[m] = IF m = z THEN nullptr ELSE IF m = y THEN p
                                           ELSE IF m = ch THEN IF y = b THEN y ELSE t.parent[y]
                                           ELSE IF m \in {a, b} THEN y ELSE t.parent[m]
    <2>1. \A m \in AllNodes : q.parent[m] = IF m = z THEN nullptr ELSE f.parent[m]
      BY <1>22, <1>25 DEF TreeRecords
    <2>2. \A m \in AllNodes : f.parent[m] = IF m = a THEN y ELSE s.parent[m]
      BY <1>13, <1>20, <1>21, <1>22 DEF TreeRecords
    <2>3. \A m \in AllNodes : s.parent[m] = IF m = y THEN p ELSE w.parent[m]
      BY <1>6, <1>13 DEF TreeRecords
    <2>4. \A m \in AllNodes : w.parent[m] = IF m = ch THEN (IF y = b THEN y ELSE t.parent[y])
                                            ELSE IF m = b /\ y # b THEN y ELSE t.parent[m]
      BY <1>6
    <2>5. QED  BY <1>1, <1>2, <2>1, <2>2, <2>3, <2>4
  <1>29. q.root = (IF p = nil THEN y ELSE t.root) /\ q.color = [t.color EXCEPT ![y] = t.color[z], ![z] = RED]
    BY <1>6, <1>13, <1>20, <1>21, <1>22, <1>25
  <1>30. QED  BY <1>1, <1>15, <1>23, <1>25, <1>26, <1>27, <1>28, <1>29 DEF SplicedTo

\* z has two children: its successor y takes its place.
LEMMA SplicedKeeps ==
    ASSUME NEW t, NEW U, NEW D, NEW h, Facing(t, "left", U, D, h, "idle", nullptr),
           NEW z, NEW y, Successor(t, U, D, z, y),
           \A l \in D[t.right[z]] : l = y \/ <<y, l>> \in Le,
           NEW q, q = Freed(Spliced(t, z, y), z)
    PROVE  Sane(q, U \ {z}, PhaseAfter(t.color[y]), NodeAfter(t.color[y], t.right[y]))
  <1>1. PICK A, B, P, c, r : A = t.left /\ B = t.right /\ P = t.parent /\ c = t.color /\ r = t.root
    OBVIOUS
  <1>2. Sound(r, A, B, P, c, U, D, Le, h, "idle", nullptr)
    BY <1>1, Others DEF Facing
  <1>3. PICK a, b, ch, p : a = A[z] /\ b = B[z] /\ ch = B[y] /\ p = P[z]
    OBVIOUS
  <1>4. PICK V, W : V = U \ {y} /\ W = U \ {z}
    OBVIOUS
  <1>5. /\ U \subseteq AllNodes /\ nil \notin U /\ nil \in AllNodes /\ U \subseteq Nodes
        /\ AllNodes \subseteq Pointers /\ nullptr \notin AllNodes
        /\ z \in U /\ y \in U /\ a \in U /\ b \in U /\ ch \in U \cup {nil}
        /\ y # z /\ y # a /\ a # z /\ b # z /\ a # b
        /\ ch # z /\ ch # y /\ ch # a /\ ch # b
        /\ P[y] \in U /\ P[y] # y /\ (P[y] = z <=> y = b)
        /\ p \in U \cup {nil} /\ p # y /\ p # z
        /\ P[a] = z /\ P[b] = z /\ (ch # nil => P[ch] = y)
        /\ (p = nil <=> z = r) /\ y # r
        /\ z \notin D[b] /\ z \notin D[a] /\ y \notin D[a]
    BY <1>1, <1>3, AboutSuccessor
  <1>6. /\ A[y] = nil /\ y \in D[b] /\ t \in TreeRecords
        /\ \A l \in D[b] : l = y \/ <<y, l>> \in Le
    BY <1>1, <1>3 DEF Successor
  <1>7. /\ Shape(r, A, B, P, U, D) /\ Ordered(A, B, U, D, Le) /\ Level(A, B, P, c, U, "idle", nullptr, h)
        /\ D \in [AllNodes -> SUBSET U] /\ D[nil] = {} /\ D[r] = U
        /\ \A m \in U : NodeAt(A, B, P, U, D, m)
        /\ \A m \in AllNodes \ U : A[m] = nullptr /\ B[m] = nullptr
        /\ A \in [AllNodes -> Pointers] /\ B \in [AllNodes -> Pointers] /\ P \in [AllNodes -> Pointers]
    <2>1. Shape(r, A, B, P, U, D) /\ Ordered(A, B, U, D, Le) /\ Level(A, B, P, c, U, "idle", nullptr, h)
      BY <1>2 DEF Sound
    <2>2. QED  BY <2>1 DEF Shape
  <1>8. PICK C1, E1, Q1, e1, F1, ph, v :
            /\ C1 = [m \in AllNodes |-> IF m = y THEN nullptr ELSE IF A[m] = y THEN B[y] ELSE A[m]]
            /\ E1 = [m \in AllNodes |-> IF m = y THEN nullptr ELSE IF B[m] = y THEN B[y] ELSE B[m]]
            /\ Q1 = [m \in AllNodes |-> IF m = y THEN nullptr ELSE IF m = B[y] THEN P[y] ELSE P[m]]
            /\ e1 = [c EXCEPT ![y] = RED] /\ F1 = Without(D, y)
            /\ ph = PhaseAfter(c[y]) /\ v = NodeAfter(c[y], B[y])
    OBVIOUS
  <1>9. Sound(r, C1, E1, Q1, e1, V, F1, Le, h, ph, v)
    <2>1. r = IF P[y] = nil THEN B[y] ELSE r
      BY <1>5
    <2>2. Cut(r, A, B, P, c, U, D, Le, h, y, r, C1, E1, Q1, e1)
      BY <1>2, <1>5, <1>6, <1>8, <2>1 DEF Cut
    <2>3. QED  BY <1>4, <1>8, <2>2, CutIsSound
  <1>10. PICK rho : rho = [m \in V \cup {nil} |-> IF m = z THEN y ELSE m]
    OBVIOUS
  <1>11. PICK F, g : /\ F = [m \in AllNodes |-> IF m = y THEN {rho[l] : l \in F1[z]}
                                                ELSE IF m \in V \ {z} THEN {rho[l] : l \in F1[m]} ELSE {}]
                     /\ g = [h EXCEPT ![y] = h[z]]
    OBVIOUS
  <1>12. Renames(rho, V, W)
    <2>1. rho \in [V \cup {nil} -> W \cup {nil}] /\ rho[nil] = nil
      BY <1>4, <1>5, <1>10
    <2>2. \A l, m \in V \cup {nil} : rho[l] = rho[m] => l = m
      BY <1>4, <1>5, <1>10
    <2>3. ASSUME NEW l \in W
          PROVE  \E m \in V : l = rho[m]
      <3>1. CASE l = y
        <4>1. z \in V /\ rho[z] = y
          BY <1>4, <1>5, <1>10
        <4>2. QED  BY <3>1, <4>1
      <3>2. CASE l # y
        <4>1. l \in V /\ rho[l] = l
          BY <1>4, <1>10, <3>2
        <4>2. QED  BY <4>1
      <3>3. QED  BY <3>1, <3>2
    <2>4. W \subseteq Nodes
      BY <1>4, <1>5
    <2>5. QED  BY <2>1, <2>2, <2>3, <2>4 DEF Renames
  <1>13. /\ rho[z] = y /\ rho[nil] = nil /\ z \in V
         /\ \A m \in V \cup {nil} : m # z => rho[m] = m
    BY <1>4, <1>5, <1>10
  <1>14. /\ F1 \in [AllNodes -> SUBSET V] /\ \A m \in AllNodes : F1[m] = D[m] \ {y}
    <2>1. F1 = [m \in AllNodes |-> D[m] \ {y}]
      BY <1>8 DEF Without
    <2>2. QED  BY <1>4, <1>7, <2>1
  <1>15. /\ F \in [AllNodes -> SUBSET W] /\ F[nil] = {}
         /\ \A m \in V \cup {nil} : F[rho[m]] = {rho[l] : l \in F1[m]}
    <2>1. \A m \in AllNodes : {rho[l] : l \in F1[m]} \subseteq W
      <3>1. \A l \in V : rho[l] \in W
        BY <1>4, <1>5, <1>10
      <3>2. QED  BY <1>14, <3>1
    <2>2. F \in [AllNodes -> SUBSET W]
      <3>1. z \in AllNodes
        BY <1>5
      <3>2. QED  BY <1>11, <2>1, <3>1
    <2>3. F[nil] = {} /\ F1[nil] = {}
      BY <1>4, <1>5, <1>7, <1>11, <1>14
    <2>4. F[y] = {rho[l] : l \in F1[z]}
      BY <1>5, <1>11
    <2>5. \A m \in V : m # z => F[m] = {rho[l] : l \in F1[m]}
      BY <1>4, <1>5, <1>11
    <2>6. ASSUME NEW m \in V \cup {nil}
          PROVE  F[rho[m]] = {rho[l] : l \in F1[m]}
      <3>1. CASE m = z
        BY <1>13, <2>4, <3>1
      <3>2. CASE m = nil
        BY <1>13, <2>3, <3>2
      <3>3. CASE m \in V /\ m # z
        BY <1>13, <2>5, <3>3
      <3>4. QED  BY <3>1, <3>2, <3>3
    <2>7. QED  BY <2>2, <2>3, <2>6
  <1>16. PICK s, C, E, Q, e : s = q.root /\ C = q.left /\ E = q.right /\ Q = q.parent /\ e = q.color
    OBVIOUS
  <1>17. /\ q \in TreeRecords /\ s = (IF p = nil THEN y ELSE r)
         /\ e = [c EXCEPT ![y] = c[z], ![z] = RED]
         /\ \A m \in AllNodes :
              /\ C[m] = IF m = z THEN nullptr ELSE IF m = y THEN a
                        ELSE IF A[m] = y THEN ch ELSE IF A[m] = z THEN y ELSE A[m]
              /\ E[m] = IF m = z THEN nullptr ELSE IF m = y THEN IF y = b THEN ch ELSE b
                        ELSE IF B[m] = y THEN ch ELSE IF B[m] = z THEN y ELSE B[m]
              /\ Q[m] = IF m = z THEN nullptr ELSE IF m = y THEN p
                        ELSE IF m = ch THEN IF y = b THEN y ELSE P[y]
                        ELSE IF m \in {a, b} THEN y ELSE P[m]
    <2>1. SplicedTo(t, z, y, q)
      BY SplicedIs
    <2>2. QED  BY <1>1, <1>3, <1>16, <2>1 DEF SplicedTo
  <1>18. \A m \in U : A[m] \in U \cup {nil} /\ B[m] \in U \cup {nil}
    BY <1>7 DEF NodeAt
  <1>19. \A m \in V : m # ch => P[m] \in V \cup {nil} /\ (P[m] = z => m \in {a, b})
    <2>1. ASSUME NEW m \in V, m # ch
          PROVE  P[m] \in V \cup {nil} /\ (P[m] = z => m \in {a, b})
      <3>1. m \in U /\ m # y /\ m # nil
        BY <1>4, <1>5
      <3>2. m # r => P[m] \in U /\ (A[P[m]] = m \/ B[P[m]] = m)
        BY <1>7, <3>1, ParentOf
      <3>3. m = r => P[m] = nil
        BY <1>5, <1>7, <3>1 DEF Shape
      <3>4. P[m] # y
        BY <1>3, <1>5, <1>6, <2>1, <3>1, <3>2, <3>3
      <3>5. P[m] = z => m \in {a, b}
        BY <1>3, <1>5, <3>2, <3>3
      <3>6. QED  BY <1>4, <3>2, <3>3, <3>4, <3>5
    <2>2. QED  BY <2>1
  <1>20. ASSUME NEW m \in V
         PROVE  C[rho[m]] = rho[C1[m]] /\ E[rho[m]] = rho[E1[m]] /\ Q[rho[m]] = rho[Q1[m]]
    <2>1. m \in U /\ m # y /\ m \in AllNodes /\ y \in AllNodes /\ z \in AllNodes /\ m # nil
      BY <1>4, <1>5
    <2>2. /\ C1[m] = (IF A[m] = y THEN ch ELSE A[m]) /\ E1[m] = (IF B[m] = y THEN ch ELSE B[m])
          /\ Q1[m] = (IF m = ch THEN P[y] ELSE P[m])
      BY <1>3, <1>8, <2>1
    <2>3. CASE m = z
      <3>1. C[y] = a /\ E[y] = (IF y = b THEN ch ELSE b) /\ Q[y] = p
        BY <1>5, <1>17, <2>1
      <3>2. C1[z] = a /\ E1[z] = (IF y = b THEN ch ELSE b) /\ Q1[z] = p
        BY <1>3, <1>5, <2>2, <2>3
      <3>3. rho[a] = a /\ rho[ch] = ch /\ rho[p] = p /\ (y # b => rho[b] = b)
        BY <1>4, <1>5, <1>13
      <3>4. QED  BY <1>13, <2>3, <3>1, <3>2, <3>3
    <2>4. CASE m # z
      <3>1. rho[m] = m
        BY <1>13, <2>4
      <3>2. A[m] \in U \cup {nil} /\ B[m] \in U \cup {nil} /\ rho[ch] = ch
        BY <1>4, <1>5, <1>13, <1>18, <2>1
      <3>3. /\ C[m] = IF A[m] = y THEN ch ELSE IF A[m] = z THEN y ELSE A[m]
            /\ E[m] = IF B[m] = y THEN ch ELSE IF B[m] = z THEN y ELSE B[m]
        BY <1>17, <2>1, <2>4
      <3>4. \A n \in U \cup {nil} : n # y => rho[n] = IF n = z THEN y ELSE n
        BY <1>4, <1>10
      <3>5. C[m] = rho[C1[m]]
        BY <1>5, <2>2, <3>2, <3>3, <3>4
      <3>6. E[m] = rho[E1[m]]
        BY <1>5, <2>2, <3>2, <3>3, <3>4
      <3>7. Q[m] = rho[Q1[m]]
        <4>1. CASE m = ch
          <5>1. Q[m] = (IF y = b THEN y ELSE P[y]) /\ Q1[m] = P[y]
            BY <1>17, <2>1, <2>2, <2>4, <4>1
          <5>2. rho[P[y]] = IF P[y] = z THEN y ELSE P[y]
            BY <1>5, <3>4
          <5>3. QED  BY <1>5, <5>1, <5>2
        <4>2. CASE m # ch
          <5>1. Q[m] = (IF m \in {a, b} THEN y ELSE P[m]) /\ Q1[m] = P[m]
            BY <1>17, <2>1, <2>2, <2>4, <4>2
          <5>2. P[m] \in V \cup {nil} /\ (P[m] = z <=> m \in {a, b})
            BY <1>5, <1>19, <4>2
          <5>3. QED  BY <1>13, <5>1, <5>2
        <4>3. QED  BY <4>1, <4>2
      <3>8. QED  BY <3>1, <3>5, <3>6, <3>7
    <2>5. QED  BY <2>3, <2>4
  <1>21. /\ c \in [AllNodes -> {RED, BLACK}] /\ c[nil] = BLACK /\ RED # BLACK
         /\ h \in [AllNodes -> Nat] /\ h[nil] = 0
         /\ \A m \in AllNodes \ U : m # nil => c[m] = RED
    BY <1>7 DEF Level, RED, BLACK
  <1>22. /\ \A m \in V : e[rho[m]] = e1[m] /\ g[rho[m]] = h[m]
         /\ e \in [AllNodes -> {RED, BLACK}] /\ e[nil] = BLACK /\ e[z] = RED
         /\ \A m \in AllNodes \ U : e[m] = c[m]
         /\ g \in [AllNodes -> Nat] /\ g[nil] = 0
    <2>1. y \in AllNodes /\ z \in AllNodes /\ V \subseteq AllNodes
      BY <1>4, <1>5
    <2>2. /\ e \in [AllNodes -> {RED, BLACK}] /\ e[nil] = BLACK /\ e[z] = RED /\ e[y] = c[z]
          /\ \A m \in AllNodes : m # y /\ m # z => e[m] = c[m]
      BY <1>5, <1>17, <1>21, <2>1
    <2>3. g \in [AllNodes -> Nat] /\ g[nil] = 0 /\ g[y] = h[z] /\ \A m \in AllNodes : m # y => g[m] = h[m]
      BY <1>5, <1>11, <1>21, <2>1
    <2>4. \A m \in AllNodes : m # y => e1[m] = c[m]
      BY <1>8, <1>21, <2>1
    <2>5. ASSUME NEW m \in V
          PROVE  e[rho[m]] = e1[m] /\ g[rho[m]] = h[m]
      <3>1. CASE m = z
        BY <1>5, <1>13, <2>1, <2>2, <2>3, <2>4, <3>1
      <3>2. CASE m # z
        BY <1>4, <1>13, <2>1, <2>2, <2>3, <2>4, <3>2
      <3>3. QED  BY <3>1, <3>2
    <2>6. \A m \in AllNodes \ U : e[m] = c[m]
      BY <1>5, <2>2
    <2>7. QED  BY <2>2, <2>3, <2>5, <2>6
  <1>23. \/ ph = "delete" /\ v = ch
         \/ ph = "idle" /\ v = nullptr
    BY <1>3, <1>8 DEF PhaseAfter, NodeAfter
  <1>24. RenamedTo(r, C1, E1, Q1, e1, V, F1, h, ph, v, rho, s, C, E, Q, e, W, F, g, v)
    <2>1. s = rho[r]
      <3>1. r \in V
        BY <1>4, <1>5, <1>7 DEF Shape
      <3>2. QED  BY <1>5, <1>13, <1>17, <3>1
    <2>2. /\ v # nullptr => v \in V \cup {nil} /\ v = rho[v]
          /\ v = nullptr => v = nullptr
      <3>1. ch \in V \cup {nil} /\ ch = rho[ch]
        BY <1>4, <1>5, <1>13
      <3>2. QED  BY <1>23, <3>1
    <2>3. C \in [AllNodes -> Pointers] /\ E \in [AllNodes -> Pointers] /\ Q \in [AllNodes -> Pointers]
      BY <1>16, <1>17 DEF TreeRecords
    <2>4. \A m \in AllNodes \ W : /\ C[m] = nullptr /\ E[m] = nullptr
                                  /\ m # nil => e[m] = RED
      <3>1. ASSUME NEW m \in AllNodes \ W
            PROVE  /\ C[m] = nullptr /\ E[m] = nullptr
                   /\ m # nil => e[m] = RED
        <4>1. CASE m = z
          BY <1>17, <1>22, <4>1
        <4>2. CASE m # z
          <5>1. m \in AllNodes \ U /\ m # y
            BY <1>4, <1>5, <4>2
          <5>2. A[m] = nullptr /\ B[m] = nullptr /\ nullptr # y /\ nullptr # z
            BY <1>5, <1>7, <5>1
          <5>3. C[m] = nullptr /\ E[m] = nullptr
            BY <1>17, <4>2, <5>1, <5>2
          <5>4. QED  BY <1>21, <1>22, <5>1, <5>3
        <4>3. QED  BY <4>1, <4>2
      <3>2. QED  BY <3>1
    <2>5. ph = "delete" /\ v = nil /\ r # nil => Q[nil] = rho[Q1[nil]]
      <3>1. ASSUME ph = "delete", v = nil
            PROVE  Q[nil] = rho[Q1[nil]]
        <4>1. ch = nil
          BY <1>23, <3>1
        <4>2. Q[nil] = (IF y = b THEN y ELSE P[y])
          BY <1>5, <1>17, <4>1
        <4>3. Q1[nil] = P[y]
          BY <1>3, <1>5, <1>8, <4>1
        <4>4. rho[P[y]] = IF P[y] = z THEN y ELSE P[y]
          BY <1>4, <1>5, <1>10
        <4>5. QED  BY <1>5, <4>2, <4>3, <4>4
      <3>2. QED  BY <3>1
    <2>6. \A m \in V : /\ C[rho[m]] = rho[C1[m]] /\ E[rho[m]] = rho[E1[m]] /\ Q[rho[m]] = rho[Q1[m]]
                       /\ e[rho[m]] = e1[m] /\ g[rho[m]] = h[m]
                       /\ F[rho[m]] = {rho[l] : l \in F1[m]}
      BY <1>15, <1>20, <1>22
    <2>7. QED  BY <1>12, <1>15, <1>22, <2>1, <2>2, <2>3, <2>4, <2>5, <2>6 DEF RenamedTo
  <1>25. <<z, y>> \in Le
    BY <1>3, <1>5, <1>6, <1>7 DEF Ordered
  <1>26. ASSUME NEW m \in V, NEW n, NEW n1, (n = A[m] /\ n1 = C1[m]) \/ (n = B[m] /\ n1 = E1[m])
         PROVE  n1 \in V \cup {nil} /\ F1[n1] = D[n] \ {y}
    <2>1. m \in U /\ m # y /\ m \in AllNodes
      BY <1>4, <1>5
    <2>2. n1 = (IF n = y THEN ch ELSE n) /\ n \in U \cup {nil}
      BY <1>3, <1>8, <1>18, <1>26, <2>1
    <2>3. n1 \in V \cup {nil} /\ n1 \in AllNodes /\ n \in AllNodes
      BY <1>4, <1>5, <2>2
    <2>4. D[y] = {y} \cup D[ch]
      <3>1. D[y] = {y} \cup D[nil] \cup D[ch]
        BY <1>3, <1>5, <1>6, <1>7 DEF NodeAt
      <3>2. QED  BY <1>7, <3>1
    <2>5. F1[n1] = D[n] \ {y}
      BY <1>14, <2>2, <2>3, <2>4
    <2>6. QED  BY <2>3, <2>5
  <1>27. /\ \A m \in V : \A l \in F[C[rho[m]]] : \E i \in D[A[m]] \ {y} : l = rho[i]
         /\ \A m \in V : \A l \in F[E[rho[m]]] : \E i \in D[B[m]] \ {y} : l = rho[i]
    <2>1. ASSUME NEW m \in V
          PROVE  /\ \A l \in F[C[rho[m]]] : \E i \in D[A[m]] \ {y} : l = rho[i]
                 /\ \A l \in F[E[rho[m]]] : \E i \in D[B[m]] \ {y} : l = rho[i]
      <3>1. PICK n, n1, k, k1 : n = A[m] /\ n1 = C1[m] /\ k = B[m] /\ k1 = E1[m]
        OBVIOUS
      <3>2. n1 \in V \cup {nil} /\ F1[n1] = D[n] \ {y}
        BY <1>26, <3>1
      <3>3. k1 \in V \cup {nil} /\ F1[k1] = D[k] \ {y}
        BY <1>26, <3>1
      <3>4. F[rho[n1]] = {rho[l] : l \in F1[n1]} /\ F[rho[k1]] = {rho[l] : l \in F1[k1]}
        BY <1>15, <3>2, <3>3
      <3>5. C[rho[m]] = rho[n1] /\ E[rho[m]] = rho[k1]
        BY <1>20, <3>1
      <3>6. \A l \in F[C[rho[m]]] : \E i \in D[A[m]] \ {y} : l = rho[i]
        BY <3>1, <3>2, <3>4, <3>5
      <3>7. \A l \in F[E[rho[m]]] : \E i \in D[B[m]] \ {y} : l = rho[i]
        BY <3>1, <3>3, <3>4, <3>5
      <3>8. QED  BY <3>6, <3>7
    <2>2. QED  BY <2>1
  <1>28. ASSUME NEW m \in V, m # z, NEW n \in {A[m], B[m]}, z \in D[n]
         PROVE  y \in D[n]
    <2>1. n \in U
      BY <1>4, <1>7, <1>18, <1>28
    <2>2. D[z] \subseteq D[n]
      BY <1>7, <1>28, <2>1, DownClosed
    <2>3. D[b] \subseteq D[z]
      BY <1>3, <1>5, <1>7 DEF NodeAt
    <2>4. QED  BY <1>6, <2>2, <2>3
  <1>29. Ordered(C, E, W, F, Le)
    <2>1. ASSUME NEW m \in V, m # z
          PROVE  /\ \A l \in F[C[m]] : <<l, m>> \in Le
                 /\ \A l \in F[E[m]] : <<m, l>> \in Le
      <3>1. rho[m] = m /\ m \in U
        BY <1>4, <1>13, <2>1
      <3>2. A[m] \in U \cup {nil} /\ B[m] \in U \cup {nil} /\ A[m] \in AllNodes /\ B[m] \in AllNodes
        BY <1>5, <1>18, <3>1
      <3>3. ASSUME NEW l \in F[C[m]]
            PROVE  <<l, m>> \in Le
        <4>1. PICK i \in D[A[m]] \ {y} : l = rho[i]
          BY <1>27, <3>1, <3>3
        <4>2. i \in V
          BY <1>4, <1>7, <3>2
        <4>3. <<i, m>> \in Le
          BY <1>7, <3>1 DEF Ordered
        <4>4. CASE i = z
          <5>1. y \in D[A[m]]
            BY <1>28, <2>1, <4>1, <4>4
          <5>2. <<y, m>> \in Le
            BY <1>7, <3>1, <5>1 DEF Ordered
          <5>3. QED  BY <1>13, <4>1, <4>4, <5>2
        <4>5. CASE i # z
          BY <1>13, <4>1, <4>2, <4>3, <4>5
        <4>6. QED  BY <4>4, <4>5
      <3>4. ASSUME NEW l \in F[E[m]]
            PROVE  <<m, l>> \in Le
        <4>1. PICK i \in D[B[m]] \ {y} : l = rho[i]
          BY <1>27, <3>1, <3>4
        <4>2. i \in V
          BY <1>4, <1>7, <3>2
        <4>3. <<m, i>> \in Le
          BY <1>7, <3>1 DEF Ordered
        <4>4. CASE i = z
          <5>1. y \in D[B[m]]
            BY <1>28, <2>1, <4>1, <4>4
          <5>2. <<m, y>> \in Le
            BY <1>7, <3>1, <5>1 DEF Ordered
          <5>3. QED  BY <1>13, <4>1, <4>4, <5>2
        <4>5. CASE i # z
          BY <1>13, <4>1, <4>2, <4>3, <4>5
        <4>6. QED  BY <4>4, <4>5
      <3>5. QED  BY <3>3, <3>4
    <2>2. /\ \A l \in F[C[y]] : <<l, y>> \in Le
          /\ \A l \in F[E[y]] : <<y, l>> \in Le
      <3>1. rho[z] = y /\ z \in V
        BY <1>13
      <3>2. ASSUME NEW l \in F[C[y]]
            PROVE  <<l, y>> \in Le
        <4>1. PICK i \in D[a] \ {y} : l = rho[i]
          BY <1>3, <1>27, <3>1, <3>2
        <4>2. i \in V /\ i # z /\ i \in Nodes /\ z \in Nodes /\ y \in Nodes
          BY <1>4, <1>5, <1>7
        <4>3. <<i, z>> \in Le
          BY <1>3, <1>5, <1>7 DEF Ordered
        <4>4. <<i, y>> \in Le
          BY <1>25, <4>2, <4>3, OrderIsTransitive
        <4>5. QED  BY <1>13, <4>1, <4>2, <4>4
      <3>3. ASSUME NEW l \in F[E[y]]
            PROVE  <<y, l>> \in Le
        <4>1. PICK i \in D[b] \ {y} : l = rho[i]
          BY <1>3, <1>27, <3>1, <3>3
        <4>2. i \in V /\ i # z
          BY <1>4, <1>5, <1>7
        <4>3. QED  BY <1>6, <1>13, <4>1, <4>2
      <3>4. QED  BY <3>2, <3>3
    <2>3. \A m \in W : m = y \/ (m \in V /\ m # z)
      BY <1>4
    <2>4. QED  BY <2>1, <2>2, <2>3 DEF Ordered
  <1>30. Sound(s, C, E, Q, e, W, F, Le, g, ph, v)
    BY <1>9, <1>24, <1>29, RenamedIsSound
  <1>31. Facing(q, "left", W, F, g, ph, v)
    BY <1>16, <1>30, Others DEF Facing
  <1>32. Sane(q, W, ph, v)
    BY <1>17, <1>31 DEF Sane
  <1>33. W = U \ {z} /\ ph = PhaseAfter(t.color[y]) /\ v = NodeAfter(t.color[y], t.right[y])
    BY <1>1, <1>4, <1>8
  <1>34. QED  BY <1>32, <1>33

LEMMA RemoveKeeps ==
    ASSUME Sane(tree, used, pc, x), NEW k \in Keys, Remove(k)
    PROVE  Sane(tree', used', pc', x')
  <1>1. PICK z, two, y, child, t :
            /\ z = Search(tree, k)
            /\ two = (tree.left[z] # nil /\ tree.right[z] # nil)
            /\ y = IF two THEN Minimum(tree, tree.right[z]) ELSE z
            /\ child = IF y = z /\ tree.left[z] # nil THEN tree.left[z] ELSE tree.right[y]
            /\ t = IF two THEN Spliced(tree, z, y) ELSE Transplant(tree, z, child)
    OBVIOUS
  <1>2. /\ pc = "idle" /\ z # nullptr
        /\ tree' = Freed(t, z) /\ used' = used \ {z}
        /\ IF tree.color[y] = BLACK THEN pc' = "delete" /\ x' = child ELSE UNCHANGED <<pc, x>>
    BY <1>1 DEF Remove
  <1>3. PICK D, h : tree \in TreeRecords /\ Facing(tree, "left", used, D, h, "idle", x)
    BY <1>2 DEF Sane
  <1>4. Sound(tree.root, tree.left, tree.right, tree.parent, tree.color, used, D, Le, h, "idle", x)
    BY <1>3, Others DEF Facing
  <1>5. x = nullptr
    BY <1>4 DEF Sound, HeldNode
  <1>6. /\ Shape(tree.root, tree.left, tree.right, tree.parent, used, D)
        /\ Ordered(tree.left, tree.right, used, D, Le)
    BY <1>4 DEF Sound
  <1>7. k \in Int
    BY RBTreeAssumption DEF Keys
  <1>8. z \in used
    <2>1. \/ z \in used /\ KeyOf[z] = k
          \/ z = nullptr /\ \A m \in used : KeyOf[m] # k
      <3>1. PICK t0, U0, k0, z0 : t0 = tree /\ U0 = used /\ k0 = k /\ z0 = z
        OBVIOUS
      <3>2. /\ Shape(t0.root, t0.left, t0.right, t0.parent, U0, D)
            /\ Ordered(t0.left, t0.right, U0, D, Le)
            /\ k0 \in Int /\ z0 = Search(t0, k0)
        BY <1>1, <1>6, <1>7, <3>1
      <3>3. Finds(U0, k0, z0)
        BY ONLY <3>2, SearchIs
      <3>4. QED  BY <3>1, <3>3 DEF Finds
    <2>2. QED  BY <1>2, <2>1
  <1>9. pc' = PhaseAfter(tree.color[y]) /\ x' = NodeAfter(tree.color[y], child)
    BY <1>2, <1>5 DEF PhaseAfter, NodeAfter
  <1>10. Sane(tree, used, "idle", nullptr)
    BY <1>2, <1>5
  <1>11. CASE two
    <2>1. tree.left[z] # nil /\ tree.right[z] # nil /\ y = Minimum(tree, tree.right[z])
      BY <1>1, <1>11
    <2>2. tree.right[z] \in used
      BY <1>6, <1>8, <2>1 DEF Shape, NodeAt
    <2>3. /\ y \in D[tree.right[z]] /\ tree.left[y] = nil
          /\ \A l \in D[tree.right[z]] : l = y \/ <<y, l>> \in Le
      <3>1. PICK t0, U0, n0 : t0 = tree /\ U0 = used /\ n0 = tree.right[z]
        OBVIOUS
      <3>2. /\ Shape(t0.root, t0.left, t0.right, t0.parent, U0, D)
            /\ Ordered(t0.left, t0.right, U0, D, Le)
            /\ n0 \in U0 /\ y = Minimum(t0, n0)
        BY <1>6, <2>1, <2>2, <3>1
      <3>3. /\ y \in U0 /\ y \in D[n0] /\ t0.left[y] = nil
            /\ \A l \in D[n0] : l = y \/ <<y, l>> \in Le
        BY ONLY <3>2, MinimumIs
      <3>4. QED  BY <3>1, <3>3
    <2>4. Successor(tree, used, D, z, y)
      BY <1>3, <1>6, <1>8, <2>1, <2>3 DEF Successor
    <2>5. y # z
      BY <2>4, AboutSuccessor
    <2>6. child = tree.right[y] /\ tree' = Freed(Spliced(tree, z, y), z)
      BY <1>1, <1>2, <1>11, <2>5
    <2>7. Facing(tree, "left", used, D, h, "idle", nullptr)
      BY <1>3, <1>5
    <2>8. Sane(tree', used \ {z}, PhaseAfter(tree.color[y]), NodeAfter(tree.color[y], tree.right[y]))
      BY <2>3, <2>4, <2>6, <2>7, SplicedKeeps
    <2>9. QED  BY <1>2, <1>9, <2>6, <2>8
  <1>12. CASE ~two
    <2>1. y = z /\ tree' = Freed(Transplant(tree, z, child), z)
      BY <1>1, <1>2, <1>12
    <2>2. PICK d \in Directions : tree[d][z] = nil /\ child = tree[Other(d)][z]
      <3>1. CASE tree.left[z] = nil
        <4>1. child = tree.right[z]
          BY <1>1, <2>1, <3>1
        <4>2. tree["left"][z] = nil /\ child = tree[Other("left")][z] /\ "left" \in Directions
          BY <3>1, <4>1, Others DEF Directions
        <4>3. QED  BY <4>2
      <3>2. CASE tree.left[z] # nil
        <4>1. child = tree.left[z] /\ tree.right[z] = nil
          BY <1>1, <1>12, <2>1, <3>2
        <4>2. tree["right"][z] = nil /\ child = tree[Other("right")][z] /\ "right" \in Directions
          BY <4>1, Others DEF Directions
        <4>3. QED  BY <4>2
      <3>3. QED  BY <3>1, <3>2
    <2>3. Sane(tree', used \ {z}, PhaseAfter(tree.color[z]), NodeAfter(tree.color[z], child))
      BY <1>3, <1>8, <1>10, <2>1, <2>2, RemovedKeeps
    <2>4. QED  BY <1>2, <1>9, <2>1, <2>3
  <1>13. two \in BOOLEAN
    BY <1>1
  <1>14. QED  BY <1>11, <1>12

LEMMA InitIsSane ==
    ASSUME Init
    PROVE  Sane(tree, used, pc, x)
  <1>1. PICK D, h : D = [m \in AllNodes |-> {}] /\ h = [m \in AllNodes |-> 0]
    OBVIOUS
  <1>2. /\ tree.root = nil
        /\ tree.color = [n \in AllNodes |-> IF n = nil THEN BLACK ELSE RED]
        /\ tree.left = [n \in AllNodes |-> nullptr] /\ tree.right = [n \in AllNodes |-> nullptr]
        /\ tree.parent = [n \in AllNodes |-> nullptr]
        /\ used = {} /\ pc = "idle" /\ x = nullptr
    BY DEF Init
  <1>3. nil \in AllNodes /\ nullptr \in Pointers
    BY DEF AllNodes, Pointers
  <1>4. tree \in TreeRecords
    BY <1>3 DEF Init, TreeRecords
  <1>5. Shape(tree.root, tree.left, tree.right, tree.parent, used, D)
    BY <1>1, <1>2, <1>3 DEF Shape
  <1>6. Ordered(tree.left, tree.right, used, D, Le)
    BY <1>2 DEF Ordered
  <1>7. Level(tree.left, tree.right, tree.parent, tree.color, used, "idle", nullptr, h)
    BY <1>1, <1>2, <1>3 DEF Level
  <1>8. Reds(tree.root, tree.parent, tree.color, used, "idle", nullptr)
    BY <1>2 DEF Reds
  <1>9. HeldNode(tree.root, tree.left, tree.right, tree.parent, tree.color, used, "idle", nullptr)
    BY DEF HeldNode
  <1>10. Sound(tree.root, tree.left, tree.right, tree.parent, tree.color, used, D, Le, h, "idle", nullptr)
    BY <1>5, <1>6, <1>7, <1>8, <1>9 DEF Sound
  <1>11. Facing(tree, "left", used, D, h, "idle", nullptr)
    BY <1>10, Others DEF Facing
  <1>12. QED  BY <1>2, <1>4, <1>11 DEF Sane

LEMMA StepKeepsSane ==
    ASSUME Sane(tree, used, pc, x), Next \/ UNCHANGED vars
    PROVE  Sane(tree', used', pc', x')
  <1>1. ASSUME NEW k \in Keys, Insert(k)
        PROVE  Sane(tree', used', pc', x')
    BY <1>1, InsertKeeps
  <1>2. ASSUME NEW k \in Keys, Remove(k)
        PROVE  Sane(tree', used', pc', x')
    BY <1>2, RemoveKeeps
  <1>3. CASE InsertRecolor
    BY <1>3, InsertRecolorKeeps
  <1>4. CASE InsertRotate
    BY <1>4, InsertRotateKeeps
  <1>5. CASE InsertDone
    BY <1>5, InsertDoneKeeps
  <1>6. CASE DeleteRecolor
    BY <1>6, DeleteRecolorKeeps
  <1>7. CASE DeleteRotate
    BY <1>7, DeleteRotateKeeps
  <1>8. CASE DeleteDone
    BY <1>8, DeleteDoneKeeps
  <1>9. CASE UNCHANGED vars
    BY <1>9 DEF vars
  <1>10. QED  BY <1>1, <1>2, <1>3, <1>4, <1>5, <1>6, <1>7, <1>8, <1>9 DEF Next, Fixup

\* A draft does what rb_tree.hpp does as long as it goes on.
LEMMA DraftsFollow ==
    ASSUME DraftNext
    PROVE  Next \/ UNCHANGED vars
  <1>1. ASSUME NEW k \in Keys, DraftInsert(k)
        PROVE  Next
    <2>1. Insert(k)
      BY <1>1 DEF DraftInsert, VvInsert, SelfInsert, ReferInsert
    <2>2. QED  BY <2>1 DEF Next
  <1>2. ASSUME NEW k \in Keys, DraftRemove(k)
        PROVE  Next
    <2>1. Remove(k)
      BY <1>2 DEF DraftRemove, VvRemove, SelfRemove, ReferRemove
    <2>2. QED  BY <2>1 DEF Next
  <1>3. DraftFixup => Next
    <2>1. DraftFixup => Fixup
      BY DEF DraftFixup, VvInsertFixup, VvDeleteFixup, SelfInsertFixup, SelfDeleteFixup,
             ReferInsertFixup, ReferDeleteFixup, Fixup
    <2>2. QED  BY <2>1 DEF Next
  <1>4. Miscoded => UNCHANGED vars
    BY DEF Miscoded
  <1>5. QED  BY <1>1, <1>2, <1>3, <1>4 DEF DraftNext

(***************************************************************************)
(* What RedBlack says of a tree: its edges are the ways down it.           *)
(***************************************************************************)

\* What the edges from the root down may be.
Ways(U, h) ==
    {e \in Pointers \X AllNodes \X Nat :
        /\ e[2] \in U \cup {nil}
        /\ \/ e[2] = tree.root /\ e[1] = tree.parent[tree.root]
           \/ e[1] \in U /\ e[2] \in {tree.left[e[1]], tree.right[e[1]]}
        /\ e[3] + h[e[2]] = h[tree.root] + Weight(tree.parent, tree.color, pc, x, tree.parent[tree.root], tree.root)}

\* One more turn of the recursion in Edges.
Further(E) ==
    UNION {IF e[2] = nil THEN {e}
           ELSE {e} \cup {Edge(e[2], tree[d][e[2]], e[3]) : d \in Directions} : e \in E}

LEMMA EdgeWeighs ==
    ASSUME NEW p, NEW c, NEW b \in Nat
    PROVE  /\ Edge(p, c, b) = <<p, c, b + Weight(tree.parent, tree.color, pc, x, p, c)>>
           /\ Weight(tree.parent, tree.color, pc, x, p, c) \in Nat
  <1>1. PICK black, extra : /\ black = (IF tree.color[c] = BLACK THEN 1 ELSE 0)
                            /\ extra = (IF pc = "delete" /\ c = x /\ (c # nil \/ p = tree.parent[nil]) THEN 1 ELSE 0)
    OBVIOUS
  <1>2. black \in Nat /\ extra \in Nat
    BY <1>1
  <1>3. Weight(tree.parent, tree.color, pc, x, p, c) = black + extra
    BY <1>1 DEF Weight
  <1>4. Edge(p, c, b) = <<p, c, b + black + extra>>
    BY <1>1 DEF Edge
  <1>5. b + black + extra = b + (black + extra)
    BY <1>2
  <1>6. QED  BY <1>2, <1>3, <1>4, <1>5

LEMMA FurtherIs ==
    ASSUME NEW E
    PROVE  \A g : g \in Further(E) <=>
               \E e \in E : g = e \/ (e[2] # nil /\ \E d \in Directions : g = Edge(e[2], tree[d][e[2]], e[3]))
  <1>1. ASSUME NEW g, NEW e \in E, g = e \/ (e[2] # nil /\ \E d \in Directions : g = Edge(e[2], tree[d][e[2]], e[3]))
        PROVE  g \in Further(E)
    <2>1. g \in IF e[2] = nil THEN {e} ELSE {e} \cup {Edge(e[2], tree[d][e[2]], e[3]) : d \in Directions}
      BY <1>1
    <2>2. QED  BY <2>1 DEF Further
  <1>2. ASSUME NEW g \in Further(E)
        PROVE  \E e \in E : g = e \/ (e[2] # nil /\ \E d \in Directions : g = Edge(e[2], tree[d][e[2]], e[3]))
    <2>1. PICK e \in E : g \in IF e[2] = nil THEN {e}
                               ELSE {e} \cup {Edge(e[2], tree[d][e[2]], e[3]) : d \in Directions}
      BY DEF Further
    <2>2. g = e \/ (e[2] # nil /\ \E d \in Directions : g = Edge(e[2], tree[d][e[2]], e[3]))
      BY <2>1
    <2>3. QED  BY <2>2
  <1>3. QED  BY <1>1, <1>2

LEMMA WayGoesOn ==
    ASSUME NEW D, NEW h, Facing(tree, "left", used, D, h, pc, x),
           NEW e \in Ways(used, h), e[2] # nil, NEW d \in Directions
    PROVE  Edge(e[2], tree[d][e[2]], e[3]) \in Ways(used, h)
  <1>1. Sound(tree.root, tree.left, tree.right, tree.parent, tree.color, used, D, Le, h, pc, x)
    BY Others DEF Facing
  <1>2. /\ Shape(tree.root, tree.left, tree.right, tree.parent, used, D)
        /\ Level(tree.left, tree.right, tree.parent, tree.color, used, pc, x, h)
    BY <1>1 DEF Sound
  <1>3. PICK p, b, c, w : p = e[2] /\ b = e[3] /\ c = tree[d][p] /\ w = Weight(tree.parent, tree.color, pc, x, p, c)
    OBVIOUS
  <1>4. PICK K : K = h[tree.root] + Weight(tree.parent, tree.color, pc, x, tree.parent[tree.root], tree.root)
    OBVIOUS
  <1>5. p \in used /\ b \in Nat /\ b + h[p] = K
    BY <1>3, <1>4 DEF Ways
  <1>6. c \in {tree.left[p], tree.right[p]}
    BY <1>3 DEF Directions
  <1>7. c \in used \cup {nil} /\ used \subseteq Nodes
    BY <1>2, <1>5, <1>6 DEF Shape, NodeAt
  <1>8. h[c] + w = h[p] /\ h \in [AllNodes -> Nat]
    BY <1>2, <1>3, <1>5, <1>6 DEF Level
  <1>9. Edge(p, c, b) = <<p, c, b + w>> /\ w \in Nat
    BY <1>3, <1>5, EdgeWeighs
  <1>10. p \in AllNodes /\ c \in AllNodes /\ p \in Pointers
    BY <1>5, <1>7 DEF AllNodes, Pointers
  <1>11. (b + w) + h[c] = K
    <2>1. h[c] \in Nat
      BY <1>8, <1>10
    <2>2. h[p] \in Nat
      BY <1>8, <1>10
    <2>3. (b + w) + h[c] = b + h[p]
      BY <1>5, <1>8, <1>9, <2>1, <2>2
    <2>4. QED  BY <1>5, <2>3
  <1>12. PICK g : g = <<p, c, b + w>>
    OBVIOUS
  <1>13. g \in Pointers \X AllNodes \X Nat /\ g[1] = p /\ g[2] = c /\ g[3] = b + w
    BY <1>5, <1>9, <1>10, <1>12
  <1>14. g \in Ways(used, h)
    BY <1>4, <1>5, <1>6, <1>7, <1>11, <1>13 DEF Ways
  <1>15. QED  BY <1>3, <1>9, <1>12, <1>14

LEMMA FirstWay ==
    ASSUME NEW D, NEW h, tree \in TreeRecords, Facing(tree, "left", used, D, h, pc, x)
    PROVE  /\ Edge(tree.parent[tree.root], tree.root, 0) \in Ways(used, h)
           /\ Edge(tree.parent[tree.root], tree.root, 0)[2] = tree.root
  <1>1. Sound(tree.root, tree.left, tree.right, tree.parent, tree.color, used, D, Le, h, pc, x)
    BY Others DEF Facing
  <1>2. /\ Shape(tree.root, tree.left, tree.right, tree.parent, used, D)
        /\ Level(tree.left, tree.right, tree.parent, tree.color, used, pc, x, h)
    BY <1>1 DEF Sound
  <1>3. PICK r, p, w : r = tree.root /\ p = tree.parent[r] /\ w = Weight(tree.parent, tree.color, pc, x, p, r)
    OBVIOUS
  <1>4. r \in used \cup {nil} /\ r \in AllNodes /\ p \in Pointers
    BY <1>2, <1>3 DEF Shape, TreeRecords
  <1>5. h[r] \in Nat
    BY <1>2, <1>4 DEF Level
  <1>6. Edge(p, r, 0) = <<p, r, 0 + w>> /\ w \in Nat
    BY <1>3, EdgeWeighs
  <1>7. 0 + w = w /\ w + h[r] = h[r] + w
    BY <1>5, <1>6
  <1>8. PICK g : g = <<p, r, w>>
    OBVIOUS
  <1>9. g \in Pointers \X AllNodes \X Nat /\ g[1] = p /\ g[2] = r /\ g[3] = w
    BY <1>4, <1>6, <1>8
  <1>10. g \in Ways(used, h)
    BY <1>3, <1>4, <1>7, <1>9 DEF Ways
  <1>11. QED  BY <1>3, <1>6, <1>7, <1>8, <1>9, <1>10

LEMMA EdgesAre ==
    ASSUME NEW D, NEW h, tree \in TreeRecords, Facing(tree, "left", used, D, h, pc, x)
    PROVE  /\ Edges \subseteq Ways(used, h)
           /\ \A n \in used : \E e \in Edges : e[2] = n
           /\ \E e \in Edges : e[2] = nil
  <1>1. Sound(tree.root, tree.left, tree.right, tree.parent, tree.color, used, D, Le, h, pc, x)
    BY Others DEF Facing
  <1>2. Shape(tree.root, tree.left, tree.right, tree.parent, used, D)
    BY <1>1 DEF Sound
  <1>3. PICK S, first, step : /\ S = SUBSET Ways(used, h)
                              /\ first = {Edge(tree.parent[tree.root], tree.root, 0)}
                              /\ step = [E \in S |-> Further(E)]
    OBVIOUS
  <1>4. first \in S
    BY <1>3, FirstWay
  <1>5. step \in [S -> S]
    <2>1. ASSUME NEW E \in S
          PROVE  Further(E) \in S
      <3>1. ASSUME NEW g \in Further(E)
            PROVE  g \in Ways(used, h)
        <4>1. PICK e \in E : g = e \/ (e[2] # nil /\ \E d \in Directions : g = Edge(e[2], tree[d][e[2]], e[3]))
          BY FurtherIs
        <4>2. e \in Ways(used, h)
          BY <1>3
        <4>3. QED  BY <4>1, <4>2, WayGoesOn
      <3>2. QED  BY <1>3, <3>1
    <2>2. QED  BY <1>3, <2>1
  <1>6. Turns \in Nat
    BY <1>2, BelowCounts
  <1>7. PICK w : Repeated(Turns, S, first, step, w) /\ Edges = w[Turns]
    <2>1. PICK f : Repeated(Turns, S, first, step, f)
      BY <1>4, <1>5, <1>6, Repeats
    <2>2. f = [i \in 0..Turns |-> IF i = 0 THEN first ELSE Further(f[i - 1])]
      <3>1. f \in [0..Turns -> S] /\ f[0] = first
        BY <2>1 DEF Repeated
      <3>2. ASSUME NEW i \in 0..Turns, i # 0
            PROVE  f[i] = Further(f[i - 1])
        <4>1. i \in 1..Turns /\ i - 1 \in 0..Turns
          BY <1>6, <3>2
        <4>2. f[i] = step[f[i - 1]] /\ f[i - 1] \in S
          BY <2>1, <4>1 DEF Repeated
        <4>3. QED  BY <1>3, <4>2
      <3>3. QED  BY <3>1, <3>2
    <2>3. PICK w : w = [i \in 0..Turns |-> IF i = 0 THEN first ELSE Further(w[i - 1])] /\ Edges = w[Turns]
      <3>1. PICK w : w = CHOOSE g : g = [i \in 0..Turns |-> IF i = 0 THEN first ELSE Further(g[i - 1])]
        OBVIOUS
      <3>2. w = [i \in 0..Turns |-> IF i = 0 THEN first ELSE Further(w[i - 1])]
        BY <2>2, <3>1
      <3>3. Edges = w[Turns]
        BY <1>3, <3>1 DEF Edges, Further
      <3>4. QED  BY <3>2, <3>3
    <2>4. w = [i \in 0..Turns |-> w[i]] /\ w[0] = first
      <3>1. 0 \in 0..Turns
        BY <1>6
      <3>2. QED  BY <2>3, <3>1
    <2>5. ASSUME NEW i \in 1..Turns, w[i - 1] \in S
          PROVE  w[i] = step[w[i - 1]]
      <3>1. i \in 0..Turns /\ i # 0
        BY <1>6
      <3>2. w[i] = Further(w[i - 1])
        BY <2>3, <3>1
      <3>3. QED  BY <1>3, <2>5, <3>2
    <2>6. Repeated(Turns, S, first, step, w)
      BY <1>4, <1>5, <1>6, <2>4, <2>5, FollowsSteps
    <2>7. QED  BY <2>3, <2>6
  <1>8. Edges \in S
    BY <1>6, <1>7 DEF Repeated
  <1>9. PICK count : count = [m \in used \cup {nil} |-> Cardinality(D[m])]
    OBVIOUS
  <1>10. /\ \A m \in used \cup {nil} : count[m] \in Nat
         /\ tree.root \in used \cup {nil} /\ count[tree.root] <= Turns
         /\ \A n \in used : /\ tree.left[n] \in used \cup {nil} /\ tree.right[n] \in used \cup {nil}
                            /\ count[tree.left[n]] < count[n] /\ count[tree.right[n]] < count[n]
    <2>1. /\ count \in [used \cup {nil} -> Nat]
          /\ Cardinality(D[tree.root]) <= Turns
          /\ \A n \in used : /\ Cardinality(D[tree.left[n]]) < Cardinality(D[n])
                             /\ Cardinality(D[tree.right[n]]) < Cardinality(D[n])
      BY <1>2, <1>9, BelowCounts
    <2>2. /\ tree.root \in used \cup {nil}
          /\ \A n \in used : tree.left[n] \in used \cup {nil} /\ tree.right[n] \in used \cup {nil}
      BY <1>2 DEF Shape, NodeAt
    <2>3. QED  BY <1>9, <2>1, <2>2
  <1>11. PICK G : G = {i \in 0..Turns : \A n \in used : Turns - count[n] <= i => \E e \in w[i] : e[2] = n}
    OBVIOUS
  <1>12. \A i \in 0..Turns - 1 : \A g : g \in w[i + 1] <=>
               \E e \in w[i] : g = e \/ (e[2] # nil /\ \E d \in Directions : g = Edge(e[2], tree[d][e[2]], e[3]))
    <2>1. ASSUME NEW i \in 0..Turns - 1
          PROVE  w[i + 1] = Further(w[i])
      <3>1. i + 1 \in 1..Turns /\ (i + 1) - 1 = i /\ i \in 0..Turns
        BY <1>6
      <3>2. w[i + 1] = step[w[i]] /\ w[i] \in S
        BY <1>7, <3>1 DEF Repeated
      <3>3. QED  BY <1>3, <3>2
    <2>2. QED  BY <2>1, FurtherIs
  <1>13. \A i \in 0..Turns : \E e \in w[i] : e[2] = tree.root
    <2>1. PICK H : H = {i \in 0..Turns : \E e \in w[i] : e[2] = tree.root}
      OBVIOUS
    <2>2. 0 \in H
      <3>1. w[0] = first
        BY <1>7 DEF Repeated
      <3>2. QED  BY <1>3, <1>6, <2>1, <3>1, FirstWay
    <2>3. ASSUME NEW i \in 0..Turns - 1, i \in H
          PROVE  i + 1 \in H
      BY <1>6, <1>12, <2>1, <2>3
    <2>4. \A i \in 0..Turns : i \in H
      BY <1>6, <2>2, <2>3, Induction
    <2>5. QED  BY <2>1, <2>4
  <1>14. \A n \in used : n # tree.root => \E m \in used, d \in Directions : tree[d][m] = n /\ count[n] < count[m]
    <2>1. ASSUME NEW n \in used, n # tree.root
          PROVE  \E m \in used, d \in Directions : tree[d][m] = n /\ count[n] < count[m]
      <3>1. PICK m \in used : tree.left[m] = n \/ tree.right[m] = n
        BY <1>2, <2>1, ParentOf
      <3>2. PICK d \in Directions : tree[d][m] = n
        BY <3>1 DEF Directions
      <3>3. count[n] < count[m]
        BY <1>10, <3>1
      <3>4. QED  BY <3>2, <3>3
    <2>2. QED  BY <2>1
  <1>15. \A i \in 0..Turns - 1 : \A m \in used, d \in Directions :
              (\E e \in w[i] : e[2] = m) => \E e \in w[i + 1] : e[2] = tree[d][m]
    <2>1. ASSUME NEW i \in 0..Turns - 1, NEW m \in used, NEW d \in Directions, NEW e \in w[i], e[2] = m
          PROVE  \E g \in w[i + 1] : g[2] = tree[d][m]
      <3>1. m # nil
        BY <1>2, NilIsNoNode DEF Shape
      <3>2. Edge(e[2], tree[d][e[2]], e[3]) \in w[i + 1]
        BY <1>12, <2>1, <3>1
      <3>3. Edge(e[2], tree[d][e[2]], e[3])[2] = tree[d][m]
        BY <2>1 DEF Edge
      <3>4. QED  BY <3>2, <3>3
    <2>2. QED  BY <2>1
  <1>16. 0 \in G
    <2>1. ASSUME NEW n \in used, Turns - count[n] <= 0
          PROVE  n = tree.root
      <3>1. ASSUME n # tree.root
            PROVE  FALSE
        <4>1. PICK m \in used : count[n] < count[m]
          BY <1>14, <3>1
        <4>2. count[m] <= Turns /\ count[n] \in Nat /\ count[m] \in Nat
          <5>1. Cardinality(D[m]) <= Turns
            BY <1>2, BelowCounts
          <5>2. QED  BY <1>9, <1>10, <5>1
        <4>3. QED  BY <1>6, <2>1, <4>1, <4>2
      <3>2. QED  BY <3>1
    <2>2. QED  BY <1>6, <1>11, <1>13, <2>1
  <1>17. ASSUME NEW i \in 0..Turns - 1, i \in G
         PROVE  i + 1 \in G
    <2>1. ASSUME NEW n \in used, Turns - count[n] <= i + 1
          PROVE  \E e \in w[i + 1] : e[2] = n
      <3>1. i + 1 \in 0..Turns
        BY <1>6
      <3>2. CASE n = tree.root
        BY <1>13, <3>1, <3>2
      <3>3. CASE n # tree.root
        <4>1. PICK m \in used, d \in Directions : tree[d][m] = n /\ count[n] < count[m]
          BY <1>14, <3>3
        <4>2. Turns - count[m] <= i
          BY <1>6, <1>10, <2>1, <4>1
        <4>3. \E e \in w[i] : e[2] = m
          BY <1>11, <1>17, <4>2
        <4>4. QED  BY <1>15, <4>1, <4>3
      <3>4. QED  BY <3>2, <3>3
    <2>2. i + 1 \in 0..Turns
      BY <1>6
    <2>3. QED  BY <1>11, <2>1, <2>2
  <1>18. \A i \in 0..Turns : i \in G
    BY <1>6, <1>16, <1>17, Induction
  <1>19. ASSUME NEW n \in used
         PROVE  \E e \in Edges : e[2] = n
    <2>1. Turns \in G /\ Turns - count[n] <= Turns
      BY <1>6, <1>10, <1>18
    <2>2. QED  BY <1>7, <1>11, <2>1
  <1>20. \E e \in Edges : e[2] = nil
    <2>1. CASE tree.root = nil
      <3>1. Turns \in 0..Turns
        BY <1>6
      <3>2. QED  BY <1>7, <1>13, <2>1, <3>1
    <2>2. CASE tree.root # nil
      <3>1. tree.root \in used
        BY <1>10, <2>2
      <3>2. PICK T : T = {count[n] : n \in used}
        OBVIOUS
      <3>3. T \subseteq Nat /\ T # {}
        BY <1>10, <3>1, <3>2
      <3>4. PICK a \in T : \A b \in T : a <= b
        BY <3>3, LeastNumber
      <3>5. PICK n \in used : a = count[n]
        BY <3>2
      <3>6. tree.left[n] = nil
        <4>1. ASSUME tree.left[n] \in used
              PROVE  FALSE
          <5>1. a <= count[tree.left[n]] /\ count[tree.left[n]] < count[n]
            BY <1>10, <3>2, <3>4, <4>1
          <5>2. count[tree.left[n]] \in Nat /\ count[n] \in Nat
            BY <1>10, <4>1
          <5>3. QED  BY <3>5, <5>1, <5>2
        <4>2. QED  BY <1>10, <4>1
      <3>7. count[n] >= 1 /\ count[n] <= Turns
        <4>1. count[tree.left[n]] < count[n] /\ count[tree.left[n]] \in Nat /\ count[n] \in Nat
          BY <1>10
        <4>2. Cardinality(D[n]) <= Turns
          BY <1>2, BelowCounts
        <4>3. QED  BY <1>9, <4>1, <4>2
      <3>8. PICK i : i = Turns - 1
        OBVIOUS
      <3>9. i \in 0..Turns - 1 /\ i \in 0..Turns /\ Turns - count[n] <= i /\ i + 1 = Turns
        BY <1>6, <1>10, <3>7, <3>8
      <3>10. \E e \in w[i] : e[2] = n
        BY <1>11, <1>18, <3>9
      <3>11. "left" \in Directions
        BY DEF Directions
      <3>12. \E e \in w[i + 1] : e[2] = tree["left"][n]
        BY <1>15, <3>9, <3>10, <3>11
      <3>13. QED  BY <1>7, <3>6, <3>9, <3>12
    <2>3. QED  BY <2>1, <2>2
  <1>21. QED  BY <1>3, <1>8, <1>19, <1>20

LEMMA SaneIsRedBlack ==
    ASSUME Sane(tree, used, pc, x)
    PROVE  RedBlack /\ InTree = used
  <1>1. PICK D, h : tree \in TreeRecords /\ Facing(tree, "left", used, D, h, pc, x)
    BY DEF Sane
  <1>2. Sound(tree.root, tree.left, tree.right, tree.parent, tree.color, used, D, Le, h, pc, x)
    BY <1>1, Others DEF Facing
  <1>3. /\ Shape(tree.root, tree.left, tree.right, tree.parent, used, D)
        /\ Level(tree.left, tree.right, tree.parent, tree.color, used, pc, x, h)
        /\ Reds(tree.root, tree.parent, tree.color, used, pc, x)
    BY <1>2 DEF Sound
  <1>4. PICK edges, links : edges = Edges /\ links = Links(edges)
    OBVIOUS
  <1>5. /\ edges \subseteq Ways(used, h)
        /\ \A n \in used : \E e \in edges : e[2] = n
        /\ \E e \in edges : e[2] = nil
    BY <1>1, <1>4, EdgesAre
  <1>6. nil \notin used
    BY <1>3, NilIsNoNode DEF Shape
  <1>7. \A e : e \in links <=> e \in edges /\ e[2] # nil
    BY <1>4 DEF Links
  <1>8. {e[2] : e \in links} = used
    <2>1. \A e \in links : e[2] \in used
      BY <1>5, <1>7 DEF Ways
    <2>2. \A n \in used : \E e \in links : e[2] = n
      BY <1>5, <1>6, <1>7
    <2>3. QED  BY <2>1, <2>2
  <1>9. ASSUME NEW e \in links
        PROVE  tree.parent[e[2]] = IF e[2] = tree.root THEN nil ELSE e[1]
    <2>1. CASE e[2] = tree.root
      BY <1>3, <1>7, <2>1 DEF Shape
    <2>2. CASE e[2] # tree.root
      <3>1. PICK p, c : p = e[1] /\ c = e[2]
        OBVIOUS
      <3>2. p \in used /\ c \in {tree.left[p], tree.right[p]} /\ c # nil
        BY <1>5, <1>7, <2>2, <3>1 DEF Ways
      <3>3. tree.parent[c] = p
        BY <1>3, <3>2 DEF Shape, NodeAt
      <3>4. QED  BY <2>2, <3>1, <3>3
    <2>3. QED  BY <2>1, <2>2
  <1>10. ASSUME NEW n \in used, tree.left[n] = tree.right[n]
         PROVE  tree.left[n] = nil
    <2>1. PICK a : a = tree.left[n]
      OBVIOUS
    <2>2. a \in used \cup {nil} /\ D[a] \cap D[a] = {}
      BY <1>3, <1>10, <2>1 DEF Shape, NodeAt
    <2>3. a \in used => a \in D[a]
      BY <1>3 DEF Shape, NodeAt
    <2>4. QED  BY <2>1, <2>2, <2>3
  <1>11. Cardinality({e[3] : e \in edges \ links}) = 1
    <2>1. PICK K : K = h[tree.root] + Weight(tree.parent, tree.color, pc, x, tree.parent[tree.root], tree.root)
      OBVIOUS
    <2>2. ASSUME NEW e \in edges \ links
          PROVE  e[3] = K
      <3>1. e[2] = nil /\ e[3] \in Nat /\ e[3] + h[e[2]] = K
        BY <1>5, <1>7, <2>1 DEF Ways
      <3>2. h[nil] = 0
        BY <1>3 DEF Level
      <3>3. QED  BY <3>1, <3>2
    <2>3. {e[3] : e \in edges \ links} = {K}
      <3>1. PICK e \in edges : e[2] = nil
        BY <1>5
      <3>2. e \in edges \ links
        BY <1>7, <3>1
      <3>3. QED  BY <2>2, <3>2
    <2>4. QED  BY <2>3, FS_Singleton
  <1>12. ASSUME NEW n \in used \ {x}, tree.color[n] = RED
         PROVE  /\ n # tree.root
                /\ tree.color[tree.parent[n]] = BLACK \/ (pc = "delete" /\ tree.parent[n] = x)
    BY <1>3, <1>12 DEF Reds
  <1>13. tree.color[nil] = BLACK /\ tree.left[nil] = nullptr /\ tree.right[nil] = nullptr
    BY <1>3, <1>6 DEF Level, Shape, AllNodes
  <1>14. RedBlack
    BY <1>4, <1>8, <1>9, <1>10, <1>11, <1>12, <1>13 DEF RedBlack
  <1>15. InTree = used
    BY <1>4, <1>8 DEF InTree
  <1>16. QED  BY <1>14, <1>15

LEMMA SaneSearches ==
    ASSUME Sane(tree, used, pc, x)
    PROVE  SearchFinds
  <1>1. PICK D, h : tree \in TreeRecords /\ Facing(tree, "left", used, D, h, pc, x)
    BY DEF Sane
  <1>2. Sound(tree.root, tree.left, tree.right, tree.parent, tree.color, used, D, Le, h, pc, x)
    BY <1>1, Others DEF Facing
  <1>3. ASSUME NEW k \in Keys
        PROVE  LET n == Search(tree, k)
               IN IF \E m \in used : KeyOf[m] = k THEN n \in used /\ KeyOf[n] = k ELSE n = nullptr
    <2>1. PICK t0, U0, n : t0 = tree /\ U0 = used /\ n = Search(tree, k)
      OBVIOUS
    <2>2. /\ Shape(t0.root, t0.left, t0.right, t0.parent, U0, D)
          /\ Ordered(t0.left, t0.right, U0, D, Le)
          /\ k \in Int /\ n = Search(t0, k)
      BY <1>2, <2>1, RBTreeAssumption DEF Sound, Keys
    <2>3. Finds(U0, k, n)
      BY ONLY <2>2, SearchIs
    <2>4. IF \E m \in used : KeyOf[m] = k THEN n \in used /\ KeyOf[n] = k ELSE n = nullptr
      BY <2>1, <2>3 DEF Finds
    <2>5. QED  BY <2>1, <2>4
  <1>4. QED  BY <1>3 DEF SearchFinds

(***************************************************************************)
(* Where a draft can meet its slip.                                        *)
(***************************************************************************)

LEMMA ThreeMembers ==
    ASSUME NEW S, IsFiniteSet(S), NEW a \in S, NEW b \in S, NEW c \in S, a # b, a # c, b # c
    PROVE  Cardinality(S) \in Nat /\ Cardinality(S) >= 3
  <1>1. PICK T, V, W : T = S \ {a} /\ V = T \ {b} /\ W = V \ {c}
    OBVIOUS
  <1>2. /\ IsFiniteSet(T) /\ Cardinality(T) \in Nat /\ Cardinality(S) \in Nat
        /\ Cardinality(T) < Cardinality(S)
    BY <1>1, SmallerPart
  <1>3. IsFiniteSet(V) /\ Cardinality(V) \in Nat /\ Cardinality(V) < Cardinality(T)
    <2>1. V \subseteq T /\ b \in T /\ b \notin V
      BY <1>1
    <2>2. QED  BY <1>2, <2>1, SmallerPart
  <1>4. Cardinality(W) \in Nat /\ Cardinality(W) < Cardinality(V)
    <2>1. W \subseteq V /\ c \in V /\ c \notin W
      BY <1>1
    <2>2. QED  BY <1>3, <2>1, SmallerPart
  <1>5. QED  BY <1>2, <1>3, <1>4

LEMMA FourMembers ==
    ASSUME NEW S, IsFiniteSet(S), NEW a \in S, NEW b \in S, NEW c \in S, NEW d \in S,
           a # b, a # c, b # c, d # a, d # b, d # c
    PROVE  Cardinality(S) >= 4
  <1>1. PICK T : T = S \ {d}
    OBVIOUS
  <1>2. /\ IsFiniteSet(T) /\ Cardinality(T) \in Nat /\ Cardinality(S) \in Nat
        /\ Cardinality(T) < Cardinality(S)
    BY <1>1, SmallerPart
  <1>3. Cardinality(T) >= 3
    BY <1>1, <1>2, ThreeMembers
  <1>4. QED  BY <1>2, <1>3

LEMMA InsertNeedsThree ==
    ASSUME Sane(tree, used, pc, x), InsertLoops
    PROVE  Cardinality(used) >= 3
  <1>1. PICK D, h : tree \in TreeRecords /\ Facing(tree, "left", used, D, h, "insert", x)
    BY DEF Sane, InsertLoops
  <1>2. Sound(tree.root, tree.left, tree.right, tree.parent, tree.color, used, D, Le, h, "insert", x)
    BY <1>1, Others DEF Facing
  <1>3. /\ Shape(tree.root, tree.left, tree.right, tree.parent, used, D)
        /\ Level(tree.left, tree.right, tree.parent, tree.color, used, "insert", x, h)
        /\ Reds(tree.root, tree.parent, tree.color, used, "insert", x)
    BY <1>2 DEF Sound
  <1>4. x \in used
    BY <1>2 DEF Sound, HeldNode
  <1>5. PICK p, g : p = tree.parent[x] /\ g = tree.parent[p]
    OBVIOUS
  <1>6. tree.color[p] = RED /\ tree.color[nil] = BLACK /\ RED # BLACK
    BY <1>3, <1>5 DEF InsertLoops, Level, RED, BLACK
  <1>7. x # tree.root
    <2>1. x = tree.root => p = nil
      BY <1>3, <1>4, <1>5, NilIsNoNode DEF Shape
    <2>2. QED  BY <1>6, <2>1
  <1>8. p \in used /\ (tree.left[p] = x \/ tree.right[p] = x) /\ used \subseteq AllNodes /\ used \subseteq Nodes
    <2>1. p \in used /\ (tree.left[p] = x \/ tree.right[p] = x)
      BY <1>3, <1>4, <1>5, <1>7, ParentOf
    <2>2. used \subseteq AllNodes /\ used \subseteq Nodes
      BY <1>3 DEF Shape, AllNodes
    <2>3. QED  BY <2>1, <2>2
  <1>9. p # x /\ p \notin D[x] /\ x \in D[p]
    BY <1>3, <1>4, <1>8, ChildOf
  <1>10. p # tree.root
    BY <1>3, <1>6, <1>8, <1>9 DEF Reds
  <1>11. g \in used /\ (tree.left[g] = p \/ tree.right[g] = p)
    BY <1>3, <1>5, <1>8, <1>10, ParentOf
  <1>12. g # p /\ g \notin D[p]
    BY <1>3, <1>8, <1>11, ChildOf
  <1>13. g # x
    BY <1>9, <1>12
  <1>14. IsFiniteSet(used)
    BY <1>8, NilIsNoNode, FS_Subset
  <1>15. QED  BY <1>4, <1>8, <1>9, <1>11, <1>12, <1>13, <1>14, ThreeMembers

LEMMA DoublyBlackNeedsThree ==
    ASSUME NEW t, NEW d, NEW U, NEW v, NEW p, NEW w, DoublyBlack(t, d, U, v, p, w),
           t.color[w] = RED \/ ~BlackChildren(t, w)
    PROVE  Cardinality(U) >= 3
  <1>1. PICK D, h : /\ Facing(t, d, U, D, h, "delete", v)
                    /\ Beside(t.root, t[d], t[Other(d)], t.parent, t.color, U, v, p, w)
    BY DEF DoublyBlack
  <1>2. t \in TreeRecords /\ d \in Directions /\ t.color[v] = BLACK
    BY DEF DoublyBlack
  <1>3. PICK A, B, P, c, R : /\ A = t[d] /\ B = t[Other(d)] /\ P = t.parent /\ c = t.color
                             /\ R = IF d = "left" THEN Le ELSE Ge
    OBVIOUS
  <1>4. Sound(t.root, A, B, P, c, U, D, R, h, "delete", v)
    BY <1>1, <1>3 DEF Facing
  <1>5. Beside(t.root, A, B, P, c, U, v, p, w)
    BY <1>1, <1>3
  <1>6. /\ p \in U /\ w \in U \cup {nil} /\ v \in U \cup {nil} /\ p # w
        /\ U \subseteq AllNodes /\ nil \notin U /\ nil \in AllNodes
        /\ c[nil] = BLACK /\ RED # BLACK
        /\ c \in [AllNodes -> {RED, BLACK}] /\ h \in [AllNodes -> Nat] /\ h[nil] = 0
        /\ h[p] = h[v] + (IF c[v] = BLACK THEN 1 ELSE 0) + 1
        /\ h[p] = h[w] + (IF c[w] = BLACK THEN 1 ELSE 0)
        /\ c[v] = BLACK => w # nil
    BY <1>4, <1>5, Siblings
  <1>7. w \in U
    BY <1>2, <1>3, <1>6
  <1>8. Shape(t.root, A, B, P, U, D) /\ Level(A, B, P, c, U, "delete", v, h)
    BY <1>4 DEF Sound
  <1>9. v = nil => P[nil] = p
    BY <1>5 DEF Beside
  <1>10. \E e \in U : A[w] = e \/ B[w] = e
    <2>1. CASE c[w] = RED
      <3>1. h[p] \in Nat /\ h[v] \in Nat /\ h[w] \in Nat
        BY <1>6
      <3>2. h[w] >= 2
        BY <1>2, <1>3, <1>6, <2>1, <3>1
      <3>3. A[w] # nil
        <4>1. ASSUME A[w] = nil
              PROVE  FALSE
          <5>1. Weight(P, c, "delete", v, w, nil) = 1
            BY <1>6, <1>9 DEF Weight
          <5>2. h[nil] + Weight(P, c, "delete", v, w, nil) = h[w]
            BY <1>7, <1>8, <4>1 DEF Level
          <5>3. QED  BY <1>6, <3>2, <5>1, <5>2
        <4>2. QED  BY <4>1
      <3>4. A[w] \in U \cup {nil}
        BY <1>7, <1>8 DEF Shape, NodeAt
      <3>5. QED  BY <3>3, <3>4
    <2>2. CASE ~BlackChildren(t, w)
      <3>1. PICK e \in {t.left[w], t.right[w]} : t.color[e] # BLACK
        BY <2>2 DEF BlackChildren
      <3>2. e \in {A[w], B[w]}
        BY <1>2, <1>3, <3>1, Others DEF Directions, Other
      <3>3. A[w] \in U \cup {nil} /\ B[w] \in U \cup {nil}
        BY <1>7, <1>8 DEF Shape, NodeAt
      <3>4. e \in U
        BY <1>3, <1>6, <3>1, <3>2, <3>3
      <3>5. QED  BY <3>2, <3>4
    <2>3. QED  BY <1>3, <2>1, <2>2
  <1>11. PICK e \in U : A[w] = e \/ B[w] = e
    BY <1>10
  <1>12. w # e /\ w \notin D[e]
    BY <1>6, <1>7, <1>8, <1>11, ChildOf
  <1>13. B[p] = w
    BY <1>5 DEF Beside
  <1>14. p \notin D[w]
    BY <1>6, <1>7, <1>8, <1>13, ChildOf
  <1>15. e \in D[w]
    BY <1>6, <1>7, <1>8, <1>11, ChildOf
  <1>16. IsFiniteSet(U)
    <2>1. U \subseteq Nodes
      BY <1>8 DEF Shape
    <2>2. QED  BY <2>1, NilIsNoNode, FS_Subset
  <1>17. p # e /\ p # w /\ w # e
    BY <1>6, <1>12, <1>14, <1>15
  <1>18. QED  BY <1>6, <1>7, <1>11, <1>16, <1>17, ThreeMembers

LEMMA VvDeleteNeedsThree ==
    ASSUME Sane(tree, used, pc, x), VvDeleteMiscodes
    PROVE  Cardinality(used) >= 3
  <1>1. DeleteLoops
    BY DEF VvDeleteMiscodes
  <1>2. PICK d, p, w : d = Side(tree, x) /\ p = tree.parent[x] /\ w = tree[Other(d)][p]
    OBVIOUS
  <1>3. DoublyBlack(tree, d, used, x, p, w)
    BY <1>1, <1>2, LoopsDoublyBlack
  <1>4. tree.color[w] = RED \/ ~BlackChildren(tree, w)
    <2>1. ASSUME tree.color[w] # RED
          PROVE  ~BlackChildren(tree, w)
      <3>1. BlackSibling(tree, d) = tree
        BY <1>2, <2>1 DEF BlackSibling
      <3>2. CASE d = "right"
        <4>1. w = tree.left[p]
          BY <1>2, <3>2, Others
        <4>2. QED  BY <1>2, <2>1, <3>1, <3>2, <4>1 DEF VvDeleteMiscodes
      <3>3. CASE d # "right"
        <4>1. d = "left"
          BY <1>2, <3>3 DEF Side
        <4>2. w = tree.right[p]
          BY <1>2, <4>1, Others
        <4>3. QED  BY <1>2, <3>1, <3>3, <4>2 DEF VvDeleteMiscodes
      <3>4. QED  BY <3>2, <3>3
    <2>2. QED  BY <2>1
  <1>5. QED  BY <1>3, <1>4, DoublyBlackNeedsThree

\* The successor whose place is empty and black has a sibling, for all ways down have
\* as many black nodes.
LEMMA ReferNeedsFour ==
    ASSUME Sane(tree, used, pc, x), SearchFinds, NEW k \in Keys, Remove(k), ReferForgetsParent(k)
    PROVE  pc' = "delete" /\ x' = nil /\ Cardinality(used') >= 4
  <1>1. PICK z, b, y : z = Search(tree, k) /\ b = tree.right[z] /\ y = Minimum(tree, b)
    OBVIOUS
  <1>2. /\ tree.left[z] # nil /\ b # nil /\ y # b /\ tree.color[y] = BLACK /\ tree.right[y] = nil
    BY <1>1 DEF ReferForgetsParent
  <1>3. pc = "idle" /\ z # nullptr /\ used' = used \ {z}
    BY <1>1 DEF Remove
  <1>4. z \in used
    BY <1>1, <1>3 DEF SearchFinds
  <1>5. PICK D, h : tree \in TreeRecords /\ Facing(tree, "left", used, D, h, "idle", x)
    BY <1>3 DEF Sane
  <1>6. Sound(tree.root, tree.left, tree.right, tree.parent, tree.color, used, D, Le, h, "idle", x)
    BY <1>5, Others DEF Facing
  <1>7. PICK A, B, P, c, a : /\ A = tree.left /\ B = tree.right /\ P = tree.parent /\ c = tree.color
                             /\ a = tree.left[z]
    OBVIOUS
  <1>8. /\ Shape(tree.root, A, B, P, used, D) /\ Ordered(A, B, used, D, Le)
        /\ Level(A, B, P, c, used, "idle", x, h)
    BY <1>6, <1>7 DEF Sound
  <1>9. b \in used
    BY <1>1, <1>2, <1>4, <1>7, <1>8 DEF Shape, NodeAt
  <1>10. y \in D[b] /\ tree.left[y] = nil
    <2>1. PICK t0, U0, n0 : t0 = tree /\ U0 = used /\ n0 = b
      OBVIOUS
    <2>2. /\ Shape(t0.root, t0.left, t0.right, t0.parent, U0, D)
          /\ Ordered(t0.left, t0.right, U0, D, Le)
          /\ n0 \in U0 /\ y = Minimum(t0, n0)
      BY <1>1, <1>7, <1>8, <1>9, <2>1
    <2>3. /\ y \in U0 /\ y \in D[n0] /\ t0.left[y] = nil
          /\ \A l \in D[n0] : l = y \/ <<y, l>> \in Le
      BY ONLY <2>2, MinimumIs
    <2>4. QED  BY <2>1, <2>3
  <1>11. Successor(tree, used, D, z, y)
    BY <1>1, <1>2, <1>4, <1>5, <1>7, <1>8, <1>10 DEF Successor
  <1>12. /\ used \subseteq AllNodes /\ nil \notin used /\ used \subseteq Nodes
         /\ y \in used /\ a \in used
         /\ y # z /\ y # a /\ a # z /\ b # z /\ a # b
         /\ P[y] \in used /\ y # tree.root /\ z \notin D[b]
    BY <1>1, <1>7, <1>11, AboutSuccessor
  <1>13. PICK m : m = P[y]
    OBVIOUS
  <1>14. m \in used /\ m \in D[b] /\ (A[m] = y \/ B[m] = y)
    <2>1. b \in {A[z], B[z]}
      BY <1>1, <1>7
    <2>2. m \in D[b]
      BY <1>2, <1>4, <1>8, <1>10, <1>12, <1>13, <2>1, BelowChild
    <2>3. QED  BY <1>8, <1>12, <1>13, <2>2, ParentOf
  <1>15. PICK s \in {A[m], B[m]} : s # y
    <2>1. ~ (A[m] = y /\ B[m] = y)
      BY <1>8, <1>12, <1>14, ChildOf
    <2>2. QED  BY <2>1
  <1>16. NodeAt(A, B, P, used, D, m)
    BY <1>8, <1>14 DEF Shape
  <1>17. s \in used
    <2>1. ASSUME s = nil
          PROVE  FALSE
      <3>1. /\ h[nil] = 0 /\ c[nil] = BLACK /\ h[y] \in Nat
            /\ \A n \in used : /\ h[A[n]] + Weight(P, c, "idle", x, n, A[n]) = h[n]
                               /\ h[B[n]] + Weight(P, c, "idle", x, n, B[n]) = h[n]
        BY <1>8, <1>12 DEF Level
      <3>2. \A p, ch : Weight(P, c, "idle", x, p, ch) = IF c[ch] = BLACK THEN 1 ELSE 0
        BY DEF Weight
      <3>3. h[y] = 1
        <4>1. h[nil] + Weight(P, c, "idle", x, y, nil) = h[y]
          BY <1>7, <1>10, <1>12, <3>1
        <4>2. QED  BY <3>1, <3>2, <4>1
      <3>4. h[m] = 1
        <4>1. h[nil] + Weight(P, c, "idle", x, m, nil) = h[m]
          BY <1>14, <1>15, <2>1, <3>1
        <4>2. QED  BY <3>1, <3>2, <4>1
      <3>5. h[y] + Weight(P, c, "idle", x, m, y) = h[m]
        BY <1>14, <3>1
      <3>6. Weight(P, c, "idle", x, m, y) = 1
        BY <1>2, <1>7, <3>2
      <3>7. QED  BY <3>3, <3>4, <3>5, <3>6
    <2>2. s \in used \cup {nil}
      BY <1>15, <1>16 DEF NodeAt
    <2>3. QED  BY <2>1, <2>2
  <1>18. s \in D[m] /\ m \notin D[s]
    BY <1>8, <1>12, <1>14, <1>15, <1>17, ChildOf
  <1>19. D[m] \subseteq D[b]
    BY <1>8, <1>9, <1>14, DownClosed
  <1>20. s # b /\ s # z
    BY <1>12, <1>14, <1>18, <1>19
  <1>21. s # a
    <2>1. D[a] \cap D[b] = {}
      BY <1>1, <1>4, <1>7, <1>8 DEF Shape, NodeAt
    <2>2. a \in D[a]
      BY <1>8, <1>12 DEF Shape, NodeAt
    <2>3. QED  BY <1>18, <1>19, <2>1, <2>2
  <1>22. Cardinality(used') >= 4
    <2>1. PICK S : S = used \ {z}
      OBVIOUS
    <2>2. IsFiniteSet(S)
      BY <1>12, <2>1, NilIsNoNode, FS_Subset
    <2>3. a \in S /\ b \in S /\ y \in S /\ s \in S
      BY <1>9, <1>12, <1>17, <1>20, <2>1
    <2>4. Cardinality(S) >= 4
      BY <1>2, <1>12, <1>15, <1>20, <1>21, <2>2, <2>3, FourMembers
    <2>5. QED  BY <1>3, <2>1, <2>4
  <1>23. pc' = "delete" /\ x' = nil
    <2>1. PICK two, v, child :
            /\ two = (tree.left[z] # nil /\ tree.right[z] # nil)
            /\ v = IF two THEN Minimum(tree, tree.right[z]) ELSE z
            /\ child = IF v = z /\ tree.left[z] # nil THEN tree.left[z] ELSE tree.right[v]
      OBVIOUS
    <2>2. IF tree.color[v] = BLACK THEN pc' = "delete" /\ x' = child ELSE UNCHANGED <<pc, x>>
      BY <1>1, <2>1 DEF Remove
    <2>3. v = y /\ child = nil
      BY <1>1, <1>2, <1>12, <2>1
    <2>4. QED  BY <1>2, <2>2, <2>3
  <1>24. QED  BY <1>22, <1>23

\* What stays true of rb_tree.hpp and of its drafts.
DraftsAreSane ==
    /\ Sane(tree, used, pc, x)
    /\ ended \in BOOLEAN
    /\ draft = "none" => ended = FALSE
    /\ EndsWhere

LEMMA DraftInitIsSane ==
    ASSUME DraftInit
    PROVE  DraftsAreSane
  BY InitIsSane DEF DraftInit, DraftsAreSane, EndsWhere

LEMMA DraftStepIsSane ==
    ASSUME DraftsAreSane, DraftNext \/ UNCHANGED <<vars, draftVars>>
    PROVE  DraftsAreSane'
  <1>1. Sane(tree', used', pc', x')
    BY DraftsFollow, StepKeepsSane DEF DraftsAreSane
  <1>2. ASSUME ended' = FALSE
        PROVE  DraftsAreSane'
    BY <1>1, <1>2 DEF DraftsAreSane, EndsWhere
  <1>3. CASE UNCHANGED <<vars, draftVars>>
    BY <1>1, <1>3 DEF DraftsAreSane, EndsWhere, vars, draftVars
  <1>4. CASE DraftNext
    <2>1. ended = FALSE
      BY <1>4 DEF DraftNext, DraftsAreSane
    <2>2. CASE UNCHANGED ended
      BY <1>2, <2>1, <2>2
    <2>3. CASE Miscoded
      <3>1. /\ draft \in {"vv", "self"} /\ draft' = draft /\ ended' = TRUE /\ used' = used /\ pc' = pc
        BY <1>4, <2>3 DEF Miscoded, DraftNext, vars
      <3>2. Cardinality(used) >= 3
        BY <2>3, InsertNeedsThree, VvDeleteNeedsThree
           DEF DraftsAreSane, Miscoded, VvInsertMiscodes, SelfMiscodes
      <3>3. draft = "self" => pc = "insert"
        BY <2>3 DEF Miscoded, SelfMiscodes, InsertLoops
      <3>4. EndsWhere'
        BY <3>1, <3>2, <3>3 DEF EndsWhere
      <3>5. QED  BY <1>1, <3>1, <3>4 DEF DraftsAreSane
    <2>4. ASSUME NEW k \in Keys, draft = "refer", ReferRemove(k), ended' = ReferForgetsParent(k)
          PROVE  DraftsAreSane'
      <3>1. draft' = draft
        BY <1>4 DEF DraftNext
      <3>2. CASE ReferForgetsParent(k)
        <4>1. SearchFinds
          BY SaneSearches DEF DraftsAreSane
        <4>2. pc' = "delete" /\ x' = nil /\ Cardinality(used') >= 4
          BY <2>4, <3>2, <4>1, ReferNeedsFour DEF DraftsAreSane, ReferRemove
        <4>3. Cardinality(used') >= 3
          <5>1. Sane(tree', used', pc', x') /\ used' \subseteq Nodes
            <6>1. PICK D, h : Facing(tree', "left", used', D, h, pc', x')
              BY <1>1 DEF Sane
            <6>2. QED  BY <1>1, <6>1, Others DEF Facing, Sound, Shape
          <5>2. Cardinality(used') \in Nat
            BY <5>1, NilIsNoNode, FS_Subset, FS_CardinalityType
          <5>3. QED  BY <4>2, <5>2
        <4>4. ended' = TRUE
          BY <2>4, <3>2
        <4>5. EndsWhere'
          BY <2>4, <3>1, <4>2, <4>3 DEF EndsWhere
        <4>6. QED  BY <1>1, <2>4, <3>1, <4>4, <4>5 DEF DraftsAreSane
      <3>3. CASE ~ReferForgetsParent(k)
        <4>1. ended' = FALSE
          BY <2>4, <3>3 DEF ReferForgetsParent
        <4>2. QED  BY <1>2, <4>1
      <3>4. QED  BY <3>2, <3>3
    <2>5. QED  BY <1>4, <2>2, <2>3, <2>4 DEF DraftNext, DraftRemove
  <1>5. QED  BY <1>3, <1>4

\* A step of the tree is a step of the bag it promises to be.
LEMMA TreeStepIsBagStep ==
    ASSUME SearchFinds, InTree = used, InTree' = used', Next \/ UNCHANGED vars
    PROVE  KB!Next \/ UNCHANGED <<InTree, pc # "idle">>
  <1>1. ASSUME NEW k \in Keys, Insert(k)
        PROVE  KB!Insert
    <2>1. pc = "idle" /\ pc' = "insert" /\ \E z \in Nodes \ used : used' = used \cup {z}
      BY <1>1 DEF Insert
    <2>2. QED  BY <2>1 DEF KB!Insert
  <1>2. ASSUME NEW k \in Keys, Remove(k)
        PROVE  KB!Remove
    <2>1. PICK z : z = Search(tree, k)
      OBVIOUS
    <2>2. pc = "idle" /\ z # nullptr /\ used' = used \ {z}
      BY <1>2, <2>1 DEF Remove
    <2>3. z \in used
      BY <2>1, <2>2 DEF SearchFinds
    <2>4. QED  BY <2>2, <2>3 DEF KB!Remove
  <1>3. CASE InsertDone \/ DeleteDone
    <2>1. pc # "idle" /\ pc' = "idle" /\ used' = used
      BY <1>3 DEF InsertDone, DeleteDone
    <2>2. QED  BY <2>1 DEF KB!Next, KB!Return
  <1>4. CASE InsertRecolor \/ InsertRotate \/ DeleteRecolor \/ DeleteRotate
    <2>1. pc' = pc /\ used' = used
      BY <1>4 DEF InsertRecolor, InsertRotate, DeleteRecolor, DeleteRotate
    <2>2. QED  BY <2>1
  <1>5. CASE UNCHANGED vars
    BY <1>5 DEF vars
  <1>6. QED  BY <1>1, <1>2, <1>3, <1>4, <1>5 DEF Next, Fixup, KB!Next

LEMMA NoTreeIsEmptyBag ==
    ASSUME Init, InTree = used
    PROVE  KB!Init
  BY DEF Init, KB!Init

(***************************************************************************)
(* PriorityQueue.  R is the order: strict, and any two that neither comes  *)
(* before the other count as equal.                                        *)
(***************************************************************************)

StrictOrder(R) ==
    \A a, b, c \in QueueElements :
        /\ <<a, b>> \in R => <<b, a>> \notin R
        /\ <<a, b>> \in R /\ <<b, c>> \in R => <<a, c>> \in R
        /\ <<a, b>> \notin R /\ <<b, c>> \notin R => <<a, c>> \notin R

Precedes(o) ==
    {e \in QueueElements \X QueueElements :
        IF o = "less" THEN MCPriority[e[1]] < MCPriority[e[2]]
        ELSE MCPriority[e[1]] > MCPriority[e[2]]}

\* HeapOrder of the n elements of h.
Heaped(h, n, R, ph, k) ==
    \A i \in 1..n - 1 :
        /\ <<h[Queue!Parent(i) + 1], h[i + 1]>> \in R =>
               \/ ph = "up" /\ i = k
               \/ ph = "down" /\ Queue!Parent(i) = k
        /\ Queue!Parent(i) = k /\ k > 0 => <<h[Queue!Parent(k) + 1], h[i + 1]>> \notin R

\* A heap of n elements and a loop at index k.
Heap(h, n, R, ph, k) ==
    /\ StrictOrder(R) /\ n \in Nat /\ h \in [1..n -> QueueElements]
    /\ k \in Nat /\ Heaped(h, n, R, ph, k)

LEMMA ParentIs ==
    \A i \in Nat : i > 0 => /\ Queue!Parent(i) \in Nat /\ Queue!Parent(i) < i
                            /\ i = 2 * Queue!Parent(i) + 1 \/ i = 2 * Queue!Parent(i) + 2
  <1>1. ASSUME NEW i \in Nat, i > 0
        PROVE  /\ (i - 1) \div 2 \in Nat /\ (i - 1) \div 2 < i
               /\ i = 2 * ((i - 1) \div 2) + 1 \/ i = 2 * ((i - 1) \div 2) + 2
    BY <1>1
  <1>2. QED  BY <1>1 DEF Queue!Parent

LEMMA ParentOfChild ==
    \A k \in Nat : Queue!Parent(2 * k + 1) = k /\ Queue!Parent(2 * k + 2) = k
  <1>1. \A k \in Nat : ((2 * k + 1) - 1) \div 2 = k /\ ((2 * k + 2) - 1) \div 2 = k
    OBVIOUS
  <1>2. QED  BY <1>1 DEF Queue!Parent

LEMMA Strictly ==
    ASSUME NEW R, StrictOrder(R), NEW a \in QueueElements, NEW b \in QueueElements, NEW c \in QueueElements
    PROVE  /\ <<a, b>> \in R => <<b, a>> \notin R
           /\ <<a, b>> \in R /\ <<b, c>> \in R => <<a, c>> \in R
           /\ <<a, b>> \notin R /\ <<b, c>> \notin R => <<a, c>> \notin R
  BY DEF StrictOrder

LEMMA PrecedesIsStrict ==
    \A o : StrictOrder(Precedes(o))
  <1>1. MCPriority \in [QueueElements -> Nat]
    BY QueueAssumption DEF Queue!PriorityQueueAssumption
  <1>2. ASSUME NEW o, NEW a \in QueueElements, NEW b \in QueueElements, NEW c \in QueueElements
        PROVE  /\ <<a, b>> \in Precedes(o) => <<b, a>> \notin Precedes(o)
               /\ <<a, b>> \in Precedes(o) /\ <<b, c>> \in Precedes(o) => <<a, c>> \in Precedes(o)
               /\ <<a, b>> \notin Precedes(o) /\ <<b, c>> \notin Precedes(o) => <<a, c>> \notin Precedes(o)
    <2>1. PICK l, m, n \in Nat : l = MCPriority[a] /\ m = MCPriority[b] /\ n = MCPriority[c]
      BY <1>1
    <2>2. CASE o = "less"
      BY <2>1, <2>2 DEF Precedes
    <2>3. CASE o # "less"
      BY <2>1, <2>3 DEF Precedes
    <2>4. QED  BY <2>2, <2>3
  <1>3. QED  BY <1>2 DEF StrictOrder

LEMMA SwappedIs ==
    ASSUME NEW n \in Nat, NEW h \in [1..n -> QueueElements], NEW i \in 0..n - 1, NEW j \in 0..n - 1,
           i # j, NEW g, g = Queue!Swapped(h, i, j)
    PROVE  /\ g \in [1..n -> QueueElements]
           /\ g[i + 1] = h[j + 1] /\ g[j + 1] = h[i + 1]
           /\ \A l \in 0..n - 1 : l # i /\ l # j => g[l + 1] = h[l + 1]
  <1>1. i + 1 \in 1..n /\ j + 1 \in 1..n /\ i + 1 # j + 1
    OBVIOUS
  <1>2. PICK f : f = [h EXCEPT ![i + 1] = h[j + 1]]
    OBVIOUS
  <1>3. f \in [1..n -> QueueElements] /\ g = [f EXCEPT ![j + 1] = h[i + 1]]
    BY <1>1, <1>2 DEF Queue!Swapped
  <1>4. g \in [1..n -> QueueElements]
    BY <1>1, <1>3
  <1>5. g[j + 1] = h[i + 1] /\ g[i + 1] = h[j + 1]
    BY <1>1, <1>2, <1>3
  <1>6. ASSUME NEW l \in 0..n - 1, l # i, l # j
        PROVE  g[l + 1] = h[l + 1]
    <2>1. l + 1 \in 1..n /\ l + 1 # i + 1 /\ l + 1 # j + 1
      BY <1>6
    <2>2. QED  BY <1>1, <1>2, <1>3, <2>1
  <1>7. QED  BY <1>4, <1>5, <1>6

\* What moves up was greater than its parent, and so than all below that.
LEMMA UpKeepsHeap ==
    ASSUME NEW h, NEW n, NEW R, NEW k, Heap(h, n, R, "up", k), k \in 1..n - 1,
           <<h[Queue!Parent(k) + 1], h[k + 1]>> \in R,
           NEW g, g = Queue!Swapped(h, Queue!Parent(k), k)
    PROVE  Heap(g, n, R, "up", Queue!Parent(k))
  <1>1. /\ StrictOrder(R) /\ n \in Nat /\ h \in [1..n -> QueueElements] /\ k \in Nat
        /\ Heaped(h, n, R, "up", k)
    BY DEF Heap
  <1>2. PICK j : j = Queue!Parent(k)
    OBVIOUS
  <1>3. j \in Nat /\ j < k /\ j \in 0..n - 1 /\ k \in 0..n - 1
    BY <1>1, <1>2, ParentIs
  <1>4. /\ g \in [1..n -> QueueElements]
        /\ g[j + 1] = h[k + 1] /\ g[k + 1] = h[j + 1]
        /\ \A l \in 0..n - 1 : l # j /\ l # k => g[l + 1] = h[l + 1]
    BY <1>1, <1>2, <1>3, SwappedIs
  <1>5. PICK up : up = [l \in 0..n - 1 |-> IF l = 0 THEN 0 ELSE Queue!Parent(l)]
    OBVIOUS
  <1>6. \A l \in 1..n - 1 : up[l] = Queue!Parent(l) /\ up[l] \in 0..n - 1 /\ up[l] < l
    BY <1>1, <1>5, ParentIs
  <1>7. \A l \in 1..n - 1 : /\ <<h[up[l] + 1], h[l + 1]>> \in R => l = k
                            /\ up[l] = k => <<h[j + 1], h[l + 1]>> \notin R
    BY <1>1, <1>2, <1>6 DEF Heaped
  <1>8. \A l \in 0..n - 1 : h[l + 1] \in QueueElements
    BY <1>1
  <1>9. <<h[j + 1], h[k + 1]>> \in R /\ up[k] = j
    BY <1>2, <1>6
  <1>10. ASSUME NEW i \in 1..n - 1
         PROVE  <<g[up[i] + 1], g[i + 1]>> \in R => i = j
    <2>1. i \in 0..n - 1 /\ up[i] \in 0..n - 1 /\ up[i] # i
      BY <1>1, <1>6
    <2>2. CASE i = k
      <3>1. g[i + 1] = h[j + 1] /\ g[up[i] + 1] = h[k + 1]
        BY <1>4, <1>9, <2>2
      <3>2. h[j + 1] \in QueueElements /\ h[k + 1] \in QueueElements
        BY <1>3, <1>8
      <3>3. PICK a, c \in QueueElements : a = h[j + 1] /\ c = h[k + 1]
        BY <3>2
      <3>4. <<c, a>> \notin R
        <4>1. <<a, c>> \in R
          BY <1>9, <3>3
        <4>2. QED  BY <1>1, <4>1, Strictly
      <3>5. QED  BY <3>1, <3>3, <3>4
    <2>3. CASE i # k /\ up[i] = j
      <3>1. g[i + 1] = h[i + 1] /\ g[up[i] + 1] = h[k + 1]
        BY <1>4, <2>1, <2>3
      <3>2. <<h[j + 1], h[i + 1]>> \notin R
        BY <1>7, <2>3
      <3>3. PICK a, b, c \in QueueElements : a = h[j + 1] /\ b = h[i + 1] /\ c = h[k + 1]
        BY <1>3, <1>8, <2>1
      <3>4. <<a, b>> \notin R /\ <<a, c>> \in R
        BY <1>9, <3>2, <3>3
      <3>5. <<c, b>> \notin R
        <4>1. <<c, a>> \notin R
          BY <1>1, <3>4, Strictly
        <4>2. QED  BY <1>1, <3>4, <4>1, Strictly
      <3>6. QED  BY <3>1, <3>3, <3>5
    <2>4. CASE i # k /\ up[i] = k
      <3>1. i # j /\ g[i + 1] = h[i + 1] /\ g[up[i] + 1] = h[j + 1]
        BY <1>3, <1>4, <1>6, <2>1, <2>4
      <3>2. QED  BY <1>7, <2>4, <3>1
    <2>5. CASE i # k /\ i # j /\ up[i] # j /\ up[i] # k
      <3>1. g[i + 1] = h[i + 1] /\ g[up[i] + 1] = h[up[i] + 1]
        BY <1>4, <2>1, <2>5
      <3>2. QED  BY <1>7, <2>5, <3>1
    <2>6. QED  BY <2>2, <2>3, <2>4, <2>5
  <1>11. ASSUME NEW i \in 1..n - 1, up[i] = j, j > 0
         PROVE  <<g[up[j] + 1], g[i + 1]>> \notin R
    <2>1. j \in 1..n - 1 /\ i \in 0..n - 1
      BY <1>1, <1>3, <1>11
    <2>2. up[j] \in 0..n - 1 /\ up[j] # j /\ up[j] # k
      BY <1>3, <1>6, <2>1
    <2>3. g[up[j] + 1] = h[up[j] + 1]
      BY <1>4, <2>2
    <2>4. <<h[up[j] + 1], h[j + 1]>> \notin R
      <3>1. <<h[up[j] + 1], h[j + 1]>> \in R => j = k
        BY <1>7, <2>1
      <3>2. j # k
        BY <1>3
      <3>3. QED  BY <3>1, <3>2
    <2>5. CASE i = k
      BY <1>4, <2>3, <2>4, <2>5
    <2>6. CASE i # k
      <3>1. i # j
        BY <1>6, <1>11
      <3>2. g[i + 1] = h[i + 1]
        BY <1>4, <2>1, <2>6, <3>1
      <3>3. <<h[j + 1], h[i + 1]>> \notin R
        BY <1>7, <1>11, <2>6
      <3>4. PICK a, b, c \in QueueElements : a = h[up[j] + 1] /\ b = h[j + 1] /\ c = h[i + 1]
        BY <1>3, <1>8, <2>1, <2>2
      <3>5. <<a, c>> \notin R
        <4>1. <<a, b>> \notin R /\ <<b, c>> \notin R
          BY <2>4, <3>3, <3>4
        <4>2. QED  BY <1>1, <4>1, Strictly
      <3>6. QED  BY <2>3, <3>2, <3>4, <3>5
    <2>7. QED  BY <2>5, <2>6
  <1>12. \A i \in 1..n - 1 : /\ <<g[Queue!Parent(i) + 1], g[i + 1]>> \in R => i = j
                             /\ Queue!Parent(i) = j /\ j > 0 => <<g[Queue!Parent(j) + 1], g[i + 1]>> \notin R
    <2>1. j > 0 => j \in 1..n - 1
      BY <1>3, <1>1
    <2>2. QED  BY <1>6, <1>10, <1>11, <2>1
  <1>13. Heaped(g, n, R, "up", j)
    BY <1>12 DEF Heaped
  <1>14. QED  BY <1>1, <1>2, <1>3, <1>4, <1>13 DEF Heap

\* The greatest of k and its children: who it is, and what it is greater than.
Greatest(h, n, R, k, g) ==
    /\ g \in 0..n - 1
    /\ g # k => Queue!Parent(g) = k /\ g > 0 /\ <<h[k + 1], h[g + 1]>> \in R
    /\ \A i \in 1..n - 1 : Queue!Parent(i) = k => <<h[g + 1], h[i + 1]>> \notin R

\* The greatest child goes up: the heap is in order but below where the other went.
LEMMA DownKeepsHeap ==
    ASSUME NEW h, NEW n, NEW R, NEW k, Heap(h, n, R, "down", k), k \in 0..n - 1,
           NEW e, Greatest(h, n, R, k, e), e # k,
           NEW g, g = Queue!Swapped(h, e, k)
    PROVE  Heap(g, n, R, "down", e)
  <1>1. /\ StrictOrder(R) /\ n \in Nat /\ h \in [1..n -> QueueElements] /\ k \in Nat
        /\ Heaped(h, n, R, "down", k)
    BY DEF Heap
  <1>2. /\ e \in 1..n - 1 /\ e \in 0..n - 1 /\ Queue!Parent(e) = k /\ k < e
        /\ <<h[k + 1], h[e + 1]>> \in R
    BY <1>1, ParentIs DEF Greatest
  <1>3. /\ g \in [1..n -> QueueElements]
        /\ g[e + 1] = h[k + 1] /\ g[k + 1] = h[e + 1]
        /\ \A l \in 0..n - 1 : l # e /\ l # k => g[l + 1] = h[l + 1]
    BY <1>1, <1>2, SwappedIs
  <1>4. PICK up : up = [l \in 0..n - 1 |-> IF l = 0 THEN 0 ELSE Queue!Parent(l)]
    OBVIOUS
  <1>5. \A l \in 1..n - 1 : up[l] = Queue!Parent(l) /\ up[l] \in 0..n - 1 /\ up[l] < l
    BY <1>1, <1>4, ParentIs
  <1>6. \A l \in 1..n - 1 : /\ <<h[up[l] + 1], h[l + 1]>> \in R => up[l] = k
                            /\ up[l] = k /\ k > 0 => <<h[up[k] + 1], h[l + 1]>> \notin R
    <2>1. k > 0 => k \in 1..n - 1
      BY <1>1
    <2>2. QED  BY <1>1, <1>5, <2>1 DEF Heaped
  <1>7. \A l \in 0..n - 1 : h[l + 1] \in QueueElements
    BY <1>1
  <1>8. \A i \in 1..n - 1 : up[i] = k => <<h[e + 1], h[i + 1]>> \notin R
    BY <1>5 DEF Greatest
  <1>9. ASSUME NEW i \in 1..n - 1, <<g[up[i] + 1], g[i + 1]>> \in R
        PROVE  up[i] = e
    <2>1. i \in 0..n - 1 /\ up[i] \in 0..n - 1 /\ up[i] # i
      BY <1>1, <1>5
    <2>2. CASE i = e
      <3>1. up[i] = k /\ g[i + 1] = h[k + 1] /\ g[up[i] + 1] = h[e + 1]
        BY <1>2, <1>3, <1>5, <2>2
      <3>2. PICK a, c \in QueueElements : a = h[k + 1] /\ c = h[e + 1]
        BY <1>2, <1>7
      <3>3. <<a, c>> \in R
        BY <1>2, <3>2
      <3>4. <<c, a>> \notin R
        BY <1>1, <3>3, Strictly
      <3>5. QED  BY <1>9, <3>1, <3>2, <3>4
    <2>3. CASE i # e /\ up[i] = k
      <3>1. g[i + 1] = h[i + 1] /\ g[up[i] + 1] = h[e + 1]
        BY <1>3, <2>1, <2>3
      <3>2. QED  BY <1>8, <1>9, <2>3, <3>1
    <2>4. CASE i = k
      <3>1. up[i] # e /\ k > 0
        BY <1>1, <1>2, <1>5, <2>4
      <3>2. g[i + 1] = h[e + 1] /\ g[up[i] + 1] = h[up[k] + 1]
        BY <1>3, <2>1, <2>4, <3>1
      <3>3. up[e] = k
        BY <1>2, <1>5
      <3>4. <<h[up[k] + 1], h[e + 1]>> \notin R
        BY <1>2, <1>6, <3>1, <3>3
      <3>5. QED  BY <1>9, <3>2, <3>4
    <2>5. CASE i # e /\ i # k /\ up[i] # k
      <3>1. ASSUME up[i] # e
            PROVE  FALSE
        <4>1. g[i + 1] = h[i + 1] /\ g[up[i] + 1] = h[up[i] + 1]
          BY <1>3, <2>1, <2>5, <3>1
        <4>2. QED  BY <1>6, <1>9, <2>5, <4>1
      <3>2. QED  BY <3>1
    <2>6. QED  BY <2>2, <2>3, <2>4, <2>5
  <1>10. ASSUME NEW i \in 1..n - 1, up[i] = e
         PROVE  <<g[up[e] + 1], g[i + 1]>> \notin R
    <2>1. up[e] = k /\ i \in 0..n - 1 /\ i # e /\ i # k /\ e # k
      BY <1>1, <1>2, <1>5, <1>10
    <2>2. g[i + 1] = h[i + 1] /\ g[up[e] + 1] = h[e + 1]
      BY <1>3, <2>1
    <2>3. <<h[up[i] + 1], h[i + 1]>> \in R => up[i] = k
      BY <1>6
    <2>4. QED  BY <1>10, <2>1, <2>2, <2>3
  <1>11. Heaped(g, n, R, "down", e)
    <2>1. \A i \in 1..n - 1 :
             /\ <<g[Queue!Parent(i) + 1], g[i + 1]>> \in R => Queue!Parent(i) = e
             /\ Queue!Parent(i) = e => <<g[Queue!Parent(e) + 1], g[i + 1]>> \notin R
      BY <1>2, <1>5, <1>9, <1>10
    <2>2. QED  BY <2>1 DEF Heaped
  <1>12. QED  BY <1>1, <1>2, <1>3, <1>11 DEF Heap

\* Where nothing is to swap the loop ends.
LEMMA UpEndsHeap ==
    ASSUME NEW h, NEW n, NEW R, NEW k, Heap(h, n, R, "up", k),
           k = 0 \/ <<h[Queue!Parent(k) + 1], h[k + 1]>> \notin R
    PROVE  Heap(h, n, R, "idle", 0)
  <1>1. Heaped(h, n, R, "up", k)
    BY DEF Heap
  <1>2. ASSUME NEW i \in 1..n - 1
        PROVE  <<h[Queue!Parent(i) + 1], h[i + 1]>> \notin R
    <2>1. <<h[Queue!Parent(i) + 1], h[i + 1]>> \in R => i = k
      BY <1>1 DEF Heaped
    <2>2. i # 0
      BY DEF Heap
    <2>3. QED  BY <2>1, <2>2
  <1>3. Heaped(h, n, R, "idle", 0)
    BY <1>2 DEF Heaped
  <1>4. QED  BY <1>3 DEF Heap

LEMMA DownEndsHeap ==
    ASSUME NEW h, NEW n, NEW R, NEW k, Heap(h, n, R, "down", k), Greatest(h, n, R, k, k)
    PROVE  Heap(h, n, R, "idle", 0)
  <1>1. Heaped(h, n, R, "down", k)
    BY DEF Heap
  <1>2. ASSUME NEW i \in 1..n - 1
        PROVE  <<h[Queue!Parent(i) + 1], h[i + 1]>> \notin R
    <2>1. <<h[Queue!Parent(i) + 1], h[i + 1]>> \in R => Queue!Parent(i) = k
      BY <1>1 DEF Heaped
    <2>2. Queue!Parent(i) = k => <<h[k + 1], h[i + 1]>> \notin R
      BY DEF Greatest
    <2>3. QED  BY <2>1, <2>2
  <1>3. Heaped(h, n, R, "idle", 0)
    BY <1>2 DEF Heaped
  <1>4. QED  BY <1>3 DEF Heap

\* A new last element may be greater than its parent.
LEMMA PushKeepsHeap ==
    ASSUME NEW h, NEW n, NEW R, Heap(h, n, R, "idle", 0),
           NEW g \in [1..n + 1 -> QueueElements], \A l \in 1..n : g[l] = h[l]
    PROVE  Heap(g, n + 1, R, "up", n)
  <1>1. StrictOrder(R) /\ n \in Nat /\ Heaped(h, n, R, "idle", 0)
    BY DEF Heap
  <1>2. ASSUME NEW i \in 1..n
        PROVE  /\ <<g[Queue!Parent(i) + 1], g[i + 1]>> \in R => i = n
               /\ Queue!Parent(i) # n
    <2>1. Queue!Parent(i) \in Nat /\ Queue!Parent(i) < i
      BY ParentIs
    <2>2. Queue!Parent(i) # n
      BY <1>1, <2>1
    <2>3. CASE i = n
      BY <2>2, <2>3
    <2>4. CASE i # n
      <3>1. i \in 1..n - 1 /\ i + 1 \in 1..n /\ Queue!Parent(i) + 1 \in 1..n
        BY <1>1, <2>1, <2>4
      <3>2. <<h[Queue!Parent(i) + 1], h[i + 1]>> \notin R
        BY <1>1, <3>1 DEF Heaped
      <3>3. QED  BY <2>2, <3>1, <3>2
    <2>5. QED  BY <2>3, <2>4
  <1>3. (n + 1) - 1 = n
    BY <1>1
  <1>4. Heaped(g, n + 1, R, "up", n)
    BY <1>2, <1>3 DEF Heaped
  <1>5. QED  BY <1>1, <1>4 DEF Heap

\* With the last element in front, only that one may be out of order.
LEMMA PopKeepsHeap ==
    ASSUME NEW h, NEW n, NEW R, Heap(h, n, R, "idle", 0), n > 0,
           NEW g \in [1..n - 1 -> QueueElements], \A l \in 2..n - 1 : g[l] = h[l], NEW ph, ph = "down" \/ n = 1
    PROVE  Heap(g, n - 1, R, ph, 0)
  <1>1. StrictOrder(R) /\ n \in Nat /\ Heaped(h, n, R, "idle", 0)
    BY DEF Heap
  <1>2. ASSUME NEW i \in 1..(n - 1) - 1
        PROVE  <<g[Queue!Parent(i) + 1], g[i + 1]>> \in R => Queue!Parent(i) = 0
    <2>1. Queue!Parent(i) \in Nat /\ Queue!Parent(i) < i
      BY ParentIs
    <2>2. CASE Queue!Parent(i) # 0
      <3>1. i \in 1..n - 1 /\ i + 1 \in 2..n - 1 /\ Queue!Parent(i) + 1 \in 2..n - 1
        BY <1>1, <2>1, <2>2
      <3>2. <<h[Queue!Parent(i) + 1], h[i + 1]>> \notin R
        BY <1>1, <3>1 DEF Heaped
      <3>3. QED  BY <3>1, <3>2
    <2>3. QED  BY <2>2
  <1>3. Heaped(g, n - 1, R, ph, 0)
    <2>1. CASE ph = "down"
      BY <1>2, <2>1 DEF Heaped
    <2>2. CASE n = 1
      BY <2>2 DEF Heaped
    <2>3. QED  BY <2>1, <2>2
  <1>4. n - 1 \in Nat
    BY <1>1
  <1>5. QED  BY <1>1, <1>3, <1>4 DEF Heap

\* In an idle heap no element comes after the first.
LEMMA FirstIsGreatest ==
    ASSUME NEW h, NEW n, NEW R, Heap(h, n, R, "idle", 0)
    PROVE  \A i \in 1..n : <<h[1], h[i]>> \notin R
  <1>1. StrictOrder(R) /\ n \in Nat /\ h \in [1..n -> QueueElements] /\ Heaped(h, n, R, "idle", 0)
    BY DEF Heap
  <1>2. PICK T : T = {i \in 0..n - 1 : <<h[1], h[i + 1]>> \in R}
    OBVIOUS
  <1>3. ASSUME T # {}
        PROVE  FALSE
    <2>1. T \subseteq Nat
      BY <1>2
    <2>2. PICK i \in T : \A j \in T : i <= j
      BY <1>3, <2>1, LeastNumber
    <2>3. i \in 0..n - 1 /\ <<h[1], h[i + 1]>> \in R
      BY <1>2
    <2>4. i # 0
      <3>1. ASSUME i = 0
            PROVE  FALSE
        <4>1. PICK a \in QueueElements : a = h[1]
          BY <1>1, <2>3
        <4>2. <<a, a>> \in R
          BY <2>3, <3>1, <4>1
        <4>3. QED  BY <1>1, <4>2, Strictly
      <3>2. QED  BY <3>1
    <2>5. PICK j : j = Queue!Parent(i)
      OBVIOUS
    <2>6. j \in 0..n - 1 /\ j < i /\ i \in 1..n - 1
      BY <1>1, <2>3, <2>4, <2>5, ParentIs
    <2>7. <<h[j + 1], h[i + 1]>> \notin R
      BY <1>1, <2>5, <2>6 DEF Heaped
    <2>8. j \notin T
      BY <2>1, <2>2, <2>6
    <2>9. <<h[1], h[j + 1]>> \notin R
      BY <1>2, <2>6, <2>8
    <2>10. PICK a, b, c \in QueueElements : a = h[1] /\ b = h[j + 1] /\ c = h[i + 1]
      BY <1>1, <2>3, <2>6
    <2>11. <<a, b>> \notin R /\ <<b, c>> \notin R
      BY <2>7, <2>9, <2>10
    <2>12. <<a, c>> \notin R
      BY <1>1, <2>11, Strictly
    <2>13. QED  BY <2>3, <2>10, <2>12
  <1>4. ASSUME NEW i \in 1..n
        PROVE  <<h[1], h[i]>> \notin R
    <2>1. i - 1 \in 0..n - 1 /\ (i - 1) + 1 = i
      BY <1>1
    <2>2. QED  BY <1>2, <1>3, <2>1
  <1>5. QED  BY <1>4

Once(h, n) == \A i, j \in 1..n : h[i] = h[j] => i = j

Contents(h, n) == {h[i] : i \in 1..n}

LEMMA SwappedHolds ==
    ASSUME NEW n \in Nat, NEW h \in [1..n -> QueueElements], Once(h, n),
           NEW i \in 0..n - 1, NEW j \in 0..n - 1, i # j, NEW g, g = Queue!Swapped(h, i, j)
    PROVE  Once(g, n) /\ Contents(g, n) = Contents(h, n)
  <1>1. /\ g \in [1..n -> QueueElements]
        /\ g[i + 1] = h[j + 1] /\ g[j + 1] = h[i + 1]
        /\ \A l \in 0..n - 1 : l # i /\ l # j => g[l + 1] = h[l + 1]
    BY SwappedIs
  <1>2. PICK pos : pos = [l \in 1..n |-> IF l = i + 1 THEN j + 1 ELSE IF l = j + 1 THEN i + 1 ELSE l]
    OBVIOUS
  <1>3. i + 1 \in 1..n /\ j + 1 \in 1..n /\ i + 1 # j + 1
    OBVIOUS
  <1>4. \A l \in 1..n : pos[l] \in 1..n /\ pos[pos[l]] = l
    BY <1>2, <1>3
  <1>5. \A l \in 1..n : g[l] = h[pos[l]]
    <2>1. ASSUME NEW l \in 1..n
          PROVE  g[l] = h[pos[l]]
      <3>1. l - 1 \in 0..n - 1 /\ (l - 1) + 1 = l
        BY <2>1
      <3>2. CASE l = i + 1 \/ l = j + 1
        BY <1>1, <1>2, <1>3, <3>2
      <3>3. CASE l # i + 1 /\ l # j + 1
        <4>1. l - 1 # i /\ l - 1 # j
          BY <3>3
        <4>2. g[l] = h[l]
          BY <1>1, <3>1, <4>1
        <4>3. QED  BY <1>2, <3>3, <4>2
      <3>4. QED  BY <3>2, <3>3
    <2>2. QED  BY <2>1
  <1>6. Once(g, n)
    <2>1. ASSUME NEW l \in 1..n, NEW m \in 1..n, g[l] = g[m]
          PROVE  l = m
      <3>1. pos[l] = pos[m]
        BY <1>4, <1>5, <2>1 DEF Once
      <3>2. QED  BY <1>4, <3>1
    <2>2. QED  BY <2>1 DEF Once
  <1>7. Contents(g, n) = Contents(h, n)
    <2>1. \A l \in 1..n : g[l] \in Contents(h, n)
      BY <1>4, <1>5 DEF Contents
    <2>2. \A l \in 1..n : h[l] = g[pos[l]]
      BY <1>4, <1>5
    <2>3. \A l \in 1..n : h[l] \in Contents(g, n)
      BY <1>4, <2>2 DEF Contents
    <2>4. QED  BY <2>1, <2>3 DEF Contents
  <1>8. QED  BY <1>6, <1>7

LEMMA IsSequence ==
    ASSUME NEW S, NEW n \in Nat, NEW g \in [1..n -> S]
    PROVE  g \in Seq(S) /\ Len(g) = n
  <1>1. g \in Seq(S)
    BY SeqDef
  <1>2. DOMAIN g = 1..n /\ DOMAIN g = 1..Len(g) /\ Len(g) \in Nat
    BY <1>1, LenProperties
  <1>3. QED  BY <1>1, <1>2

\* What the queue relies on between any two steps.
QueueIsSound ==
    /\ heap \in Seq(QueueElements) /\ Once(heap, Len(heap))
    /\ hpc \in {"idle", "up", "down"} /\ index \in Nat
    /\ IF hpc = "idle" THEN index = 0 ELSE index < Len(heap)
    /\ Heap(heap, Len(heap), Precedes(order), hpc, index)

LEMMA QueueIs ==
    ASSUME QueueIsSound
    PROVE  /\ Len(heap) \in Nat /\ heap \in [1..Len(heap) -> QueueElements]
           /\ Queue!Held = Contents(heap, Len(heap))
           /\ \A a, b \in QueueElements : Queue!comp(a, b) <=> <<a, b>> \in Precedes(order)
  <1>1. heap \in Seq(QueueElements)
    BY DEF QueueIsSound
  <1>2. Len(heap) \in Nat /\ heap \in [1..Len(heap) -> QueueElements] /\ DOMAIN heap = 1..Len(heap)
    BY <1>1, LenProperties
  <1>3. Queue!Held = Contents(heap, Len(heap))
    BY <1>2 DEF Queue!Held, Contents
  <1>4. \A a, b \in QueueElements : Queue!comp(a, b) <=> <<a, b>> \in Precedes(order)
    BY DEF Queue!comp, Precedes
  <1>5. QED  BY <1>2, <1>3, <1>4

\* How a step of the queue may go: it stays in order, and what it holds is as said.
QueueGoes(held) == QueueIsSound' /\ Queue!Held' = held

LEMMA QueueInitIsSound ==
    ASSUME Queue!Init
    PROVE  QueueIsSound /\ Queue!Held = {}
  <1>1. heap = <<>> /\ hpc = "idle" /\ index = 0
    BY DEF Queue!Init
  <1>2. heap \in Seq(QueueElements) /\ Len(heap) = 0 /\ DOMAIN heap = {}
    BY <1>1
  <1>3. Once(heap, Len(heap))
    BY <1>2 DEF Once
  <1>4. Heap(heap, Len(heap), Precedes(order), hpc, index)
    <2>1. heap \in [1..0 -> QueueElements]
      BY <1>1
    <2>2. Heaped(heap, 0, Precedes(order), hpc, index)
      BY DEF Heaped
    <2>3. QED  BY <1>1, <1>2, <2>1, <2>2, PrecedesIsStrict DEF Heap
  <1>5. Queue!Held = {}
    BY <1>2 DEF Queue!Held
  <1>6. QED  BY <1>1, <1>2, <1>3, <1>4, <1>5 DEF QueueIsSound

LEMMA QueueSwaps ==
    ASSUME QueueIsSound, NEW i \in 0..Len(heap) - 1, NEW j \in 0..Len(heap) - 1, i # j,
           heap' = Queue!Swapped(heap, i, j)
    PROVE  /\ heap' \in Seq(QueueElements) /\ Len(heap') = Len(heap)
           /\ Once(heap', Len(heap')) /\ Queue!Held' = Queue!Held
  <1>1. PICK n, h, g : n = Len(heap) /\ h = heap /\ g = heap'
    OBVIOUS
  <1>2. n \in Nat /\ h \in [1..n -> QueueElements] /\ Once(h, n)
    BY <1>1, QueueIs DEF QueueIsSound
  <1>3. g = Queue!Swapped(h, i, j) /\ i \in 0..n - 1 /\ j \in 0..n - 1
    BY <1>1 DEF Queue!Swapped
  <1>4. g \in [1..n -> QueueElements]
    BY <1>2, <1>3, SwappedIs
  <1>5. Once(g, n) /\ Contents(g, n) = Contents(h, n)
    BY <1>2, <1>3, SwappedHolds
  <1>6. g \in Seq(QueueElements) /\ Len(g) = n
    BY <1>2, <1>4, IsSequence
  <1>7. DOMAIN g = 1..n
    BY <1>4
  <1>8. Queue!Held' = Contents(g, n)
    BY <1>1, <1>7 DEF Queue!Held, Contents
  <1>9. QED  BY <1>1, <1>5, <1>6, <1>8, QueueIs

LEMMA PushIsSound ==
    ASSUME QueueIsSound, NEW e \in QueueElements \ Queue!Held, Queue!Push(e)
    PROVE  QueueGoes(Queue!Held \cup {e})
  <1>1. PICK n, h, g : n = Len(heap) /\ h = heap /\ g = heap'
    OBVIOUS
  <1>2. /\ hpc = "idle" /\ index = 0 /\ g = Append(h, e) /\ hpc' = "up" /\ index' = n /\ order' = order
    BY <1>1 DEF Queue!Push, QueueIsSound
  <1>3. /\ n \in Nat /\ h \in Seq(QueueElements) /\ h \in [1..n -> QueueElements] /\ Once(h, n)
        /\ Queue!Held = Contents(h, n)
    BY <1>1, QueueIs DEF QueueIsSound
  <1>4. /\ g \in Seq(QueueElements) /\ Len(g) = n + 1 /\ g[n + 1] = e
        /\ \A l \in 1..n : g[l] = h[l]
    BY <1>1, <1>2, <1>3
  <1>5. g \in [1..n + 1 -> QueueElements] /\ DOMAIN g = 1..n + 1
    BY <1>4, LenProperties
  <1>6. Once(g, n + 1)
    <2>1. \A l \in 1..n : h[l] # e
      BY <1>3 DEF Contents
    <2>2. \A l \in 1..n + 1 : l \in 1..n \/ l = n + 1
      BY <1>3
    <2>3. QED  BY <1>3, <1>4, <2>1, <2>2 DEF Once
  <1>7. Queue!Held' = Queue!Held \cup {e}
    <2>1. \A l : l \in 1..n + 1 <=> l \in 1..n \/ l = n + 1
      BY <1>3
    <2>2. Queue!Held' = {g[l] : l \in 1..n + 1}
      BY <1>1, <1>5 DEF Queue!Held
    <2>3. QED  BY <1>3, <1>4, <2>1, <2>2 DEF Contents
  <1>8. Heap(h, n, Precedes(order), "idle", 0)
    BY <1>1, <1>2 DEF QueueIsSound
  <1>9. Heap(g, n + 1, Precedes(order), "up", n)
    BY <1>4, <1>5, <1>8, PushKeepsHeap
  <1>10. n \in Nat /\ n < n + 1
    BY <1>3
  <1>11. QueueIsSound'
    BY <1>1, <1>2, <1>4, <1>6, <1>9, <1>10 DEF QueueIsSound
  <1>12. QED  BY <1>7, <1>11 DEF QueueGoes

LEMMA HeapifyUpIsSound ==
    ASSUME QueueIsSound, Queue!HeapifyUp
    PROVE  QueueGoes(Queue!Held)
  <1>1. PICK n, h, k, R : n = Len(heap) /\ h = heap /\ k = index /\ R = Precedes(order)
    OBVIOUS
  <1>2. /\ hpc = "up" /\ order' = order /\ n \in Nat /\ k \in Nat /\ k < n
        /\ h \in [1..n -> QueueElements] /\ Heap(h, n, R, "up", k)
    BY <1>1, QueueIs DEF Queue!HeapifyUp, QueueIsSound
  <1>3. k > 0 => /\ Queue!Parent(k) \in 0..n - 1 /\ k \in 0..n - 1 /\ k \in 1..n - 1
                 /\ Queue!Parent(k) # k /\ Queue!Parent(k) \in Nat
    BY <1>2, ParentIs
  <1>4. k > 0 => (Queue!UpSwaps <=> <<h[Queue!Parent(k) + 1], h[k + 1]>> \in R)
    <2>1. ASSUME k > 0
          PROVE  Queue!UpSwaps <=> <<h[Queue!Parent(k) + 1], h[k + 1]>> \in R
      <3>1. PICK a, b \in QueueElements : a = h[Queue!Parent(k) + 1] /\ b = h[k + 1]
        BY <1>2, <1>3, <2>1
      <3>2. Queue!UpSwaps <=> Queue!comp(a, b)
        BY <1>1, <2>1, <3>1 DEF Queue!UpSwaps, Queue!At
      <3>3. QED  BY <1>1, <3>1, <3>2, QueueIs
    <2>2. QED  BY <2>1
  <1>5. CASE Queue!UpSwaps
    <2>1. k > 0
      BY <1>1, <1>5 DEF Queue!UpSwaps
    <2>2. /\ heap' = Queue!Swapped(heap, Queue!Parent(k), k) /\ index' = Queue!Parent(k) /\ hpc' = "up"
      BY <1>1, <1>2, <1>5 DEF Queue!HeapifyUp
    <2>3. /\ heap' \in Seq(QueueElements) /\ Len(heap') = n
          /\ Once(heap', n) /\ Queue!Held' = Queue!Held
      BY <1>1, <1>3, <2>1, <2>2, QueueSwaps
    <2>4. PICK g, j : g = heap' /\ j = Queue!Parent(k)
      OBVIOUS
    <2>5. g = Queue!Swapped(h, j, k)
      BY <1>1, <2>2, <2>4
    <2>6. Heap(g, n, R, "up", j)
      BY <1>2, <1>3, <1>4, <1>5, <2>1, <2>4, <2>5, UpKeepsHeap
    <2>7. j \in Nat /\ j < n
      BY <1>2, <1>3, <2>1, <2>4
    <2>8. QueueIsSound'
      BY <1>1, <1>2, <2>2, <2>3, <2>4, <2>6, <2>7 DEF QueueIsSound
    <2>9. QED  BY <2>3, <2>8 DEF QueueGoes
  <1>6. CASE ~Queue!UpSwaps
    <2>1. heap' = heap /\ hpc' = "idle" /\ index' = 0
      BY <1>6 DEF Queue!HeapifyUp
    <2>2. k = 0 \/ <<h[Queue!Parent(k) + 1], h[k + 1]>> \notin R
      BY <1>2, <1>4, <1>6
    <2>3. Heap(h, n, R, "idle", 0)
      BY <1>2, <2>2, UpEndsHeap
    <2>4. QueueIsSound'
      BY <1>1, <1>2, <2>1, <2>3 DEF QueueIsSound
    <2>5. Queue!Held' = Queue!Held
      BY <2>1 DEF Queue!Held
    <2>6. QED  BY <2>4, <2>5 DEF QueueGoes
  <1>7. QED  BY <1>5, <1>6

LEMMA PopIsSound ==
    ASSUME QueueIsSound, Queue!Pop
    PROVE  \E e \in Queue!Held : QueueGoes(Queue!Held \ {e})
  <1>1. PICK n, h, g, f, R : /\ n = Len(heap) /\ h = heap /\ g = heap' /\ R = Precedes(order)
                             /\ f = [h EXCEPT ![1] = h[n]]
    OBVIOUS
  <1>2. /\ hpc = "idle" /\ index = 0 /\ h # <<>> /\ g = SubSeq(f, 1, n - 1)
        /\ hpc' = (IF n = 1 THEN "idle" ELSE "down") /\ index' = 0 /\ order' = order
    BY <1>1 DEF Queue!Pop, QueueIsSound
  <1>3. /\ n \in Nat /\ h \in Seq(QueueElements) /\ h \in [1..n -> QueueElements] /\ Once(h, n)
        /\ Queue!Held = Contents(h, n)
    BY <1>1, QueueIs DEF QueueIsSound
  <1>4. n > 0 /\ 1 \in 1..n /\ n \in 1..n
    <2>1. n # 0
      BY <1>1, <1>2, <1>3, EmptySeq
    <2>2. QED  BY <1>3, <2>1
  <1>5. /\ f \in [1..n -> QueueElements]
        /\ \A l \in 1..n : f[l] = IF l = 1 THEN h[n] ELSE h[l]
    BY <1>1, <1>3, <1>4
  <1>6. f \in Seq(QueueElements) /\ Len(f) = n
    BY <1>3, <1>5, IsSequence
  <1>7. /\ g \in Seq(QueueElements) /\ Len(g) = n - 1
        /\ \A l \in 1..n - 1 : g[l] = IF l = 1 THEN h[n] ELSE h[l]
    <2>1. /\ 1 \in 1..Len(f) + 1 /\ n - 1 \in 0..Len(f)
      BY <1>3, <1>4, <1>6
    <2>2. g = [l \in 1..n - 1 |-> f[l]]
      BY <1>2, <1>3, <1>4, <1>6
    <2>3. \A l \in 1..n - 1 : l \in 1..n
      BY <1>3
    <2>4. g \in [1..n - 1 -> QueueElements]
      BY <1>5, <2>2, <2>3
    <2>5. n - 1 \in Nat
      BY <1>3, <1>4
    <2>6. g \in Seq(QueueElements) /\ Len(g) = n - 1
      BY <2>4, <2>5, IsSequence
    <2>7. QED  BY <1>5, <2>2, <2>3, <2>6
  <1>8. g \in [1..n - 1 -> QueueElements] /\ DOMAIN g = 1..n - 1
    BY <1>7, LenProperties
  <1>9. Once(g, n - 1)
    <2>1. ASSUME NEW l \in 1..n - 1, NEW m \in 1..n - 1, g[l] = g[m]
          PROVE  l = m
      <3>1. l \in 1..n /\ m \in 1..n /\ l # n /\ m # n
        BY <1>3
      <3>2. g[l] = (IF l = 1 THEN h[n] ELSE h[l]) /\ g[m] = (IF m = 1 THEN h[n] ELSE h[m])
        BY <1>7
      <3>3. QED  BY <1>3, <1>4, <2>1, <3>1, <3>2 DEF Once
    <2>2. QED  BY <2>1 DEF Once
  <1>10. Queue!Held' = Queue!Held \ {h[1]} /\ h[1] \in Queue!Held
    <2>1. Queue!Held' = {g[l] : l \in 1..n - 1}
      BY <1>1, <1>8 DEF Queue!Held
    <2>2. h[1] \in Queue!Held
      BY <1>3, <1>4 DEF Contents
    <2>3. ASSUME NEW l \in 1..n - 1
          PROVE  g[l] \in Queue!Held \ {h[1]}
      <3>1. l \in 1..n /\ l # n
        BY <1>3
      <3>2. g[l] = IF l = 1 THEN h[n] ELSE h[l]
        BY <1>7
      <3>3. n # 1
        BY <2>3
      <3>4. g[l] # h[1]
        BY <1>3, <1>4, <3>1, <3>2, <3>3 DEF Once
      <3>5. g[l] \in Contents(h, n)
        BY <1>4, <3>1, <3>2 DEF Contents
      <3>6. QED  BY <1>3, <3>4, <3>5
    <2>4. ASSUME NEW l \in 1..n, h[l] # h[1]
          PROVE  h[l] \in {g[m] : m \in 1..n - 1}
      <3>1. CASE l = n
        <4>1. 1 \in 1..n - 1 /\ g[1] = h[n]
          BY <1>3, <1>4, <1>7, <2>4, <3>1
        <4>2. QED  BY <3>1, <4>1
      <3>2. CASE l # n
        <4>1. l \in 1..n - 1 /\ l # 1
          BY <1>3, <2>4, <3>2
        <4>2. g[l] = h[l]
          BY <1>7, <4>1
        <4>3. QED  BY <4>1, <4>2
      <3>3. QED  BY <3>1, <3>2
    <2>5. QED  BY <1>3, <2>1, <2>2, <2>3, <2>4 DEF Contents
  <1>11. Heap(h, n, R, "idle", 0)
    BY <1>1, <1>2 DEF QueueIsSound
  <1>12. PICK ph : ph = IF n = 1 THEN "idle" ELSE "down"
    OBVIOUS
  <1>13. ph = "down" \/ n = 1
    BY <1>12
  <1>14. \A l \in 2..n - 1 : g[l] = h[l]
    BY <1>3, <1>7
  <1>15. Heap(g, n - 1, R, ph, 0)
    BY <1>4, <1>8, <1>11, <1>13, <1>14, PopKeepsHeap
  <1>16. n # 1 => 0 < n - 1
    BY <1>3, <1>4
  <1>17. /\ hpc' \in {"idle", "up", "down"} /\ index' \in Nat
         /\ IF hpc' = "idle" THEN index' = 0 ELSE index' < Len(heap')
    BY <1>1, <1>2, <1>7, <1>16
  <1>18. Heap(heap', Len(heap'), Precedes(order'), hpc', index')
    BY <1>1, <1>2, <1>7, <1>12, <1>15
  <1>19. QueueIsSound'
    BY <1>1, <1>7, <1>9, <1>17, <1>18 DEF QueueIsSound
  <1>20. QED  BY <1>10, <1>19 DEF QueueGoes

LEMMA LargestIs ==
    ASSUME QueueIsSound, hpc = "down"
    PROVE  Greatest(heap, Len(heap), Precedes(order), index, Queue!Largest(index))
  <1>1. PICK n, h, k, R, g : /\ n = Len(heap) /\ h = heap /\ k = index /\ R = Precedes(order)
                             /\ g = Queue!Largest(index)
    OBVIOUS
  <1>2. /\ n \in Nat /\ h \in [1..n -> QueueElements] /\ k \in Nat /\ k < n /\ StrictOrder(R)
        /\ \A a, b \in QueueElements : Queue!comp(a, b) <=> <<a, b>> \in R
    BY <1>1, QueueIs DEF QueueIsSound, Heap
  <1>3. PICK left, right : left = 2 * k + 1 /\ right = 2 * k + 2
    OBVIOUS
  <1>4. /\ left \in Nat /\ right \in Nat /\ left > k /\ right > k /\ left # right
        /\ Queue!Parent(left) = k /\ Queue!Parent(right) = k
    <2>1. Queue!Parent(2 * k + 1) = k /\ Queue!Parent(2 * k + 2) = k
      BY <1>2, ParentOfChild
    <2>2. left \in Nat /\ right \in Nat /\ left > k /\ right > k /\ left # right
      BY <1>2, <1>3
    <2>3. QED  BY <1>3, <2>1, <2>2
  <1>5. \A i \in 1..n - 1 : Queue!Parent(i) = k => i = left \/ i = right
    BY <1>2, <1>3, ParentIs
  <1>6. PICK l : l = IF left < n /\ Queue!comp(h[k + 1], h[left + 1]) THEN left ELSE k
    OBVIOUS
  <1>7. g = IF right < n /\ Queue!comp(h[l + 1], h[right + 1]) THEN right ELSE l
    BY <1>1, <1>3, <1>6 DEF Queue!Largest, Queue!At
  <1>8. \A i \in 0..n - 1 : h[i + 1] \in QueueElements
    BY <1>2
  <1>9. k \in 0..n - 1 /\ l \in 0..n - 1 /\ g \in 0..n - 1
    BY <1>2, <1>4, <1>6, <1>7
  <1>10. l = IF left < n /\ <<h[k + 1], h[left + 1]>> \in R THEN left ELSE k
    <2>1. left < n => left \in 0..n - 1
      BY <1>2, <1>4
    <2>2. QED  BY <1>2, <1>6, <1>8, <1>9, <2>1
  <1>11. g = IF right < n /\ <<h[l + 1], h[right + 1]>> \in R THEN right ELSE l
    <2>1. right < n => right \in 0..n - 1
      BY <1>2, <1>4
    <2>2. QED  BY <1>2, <1>7, <1>8, <1>9, <2>1
  <1>12. \A a \in QueueElements : <<a, a>> \notin R
    BY <1>2, Strictly
  <1>13. PICK a, b, c : /\ a = h[k + 1] /\ a \in QueueElements
                        /\ b = h[left + 1] /\ (left < n => b \in QueueElements)
                        /\ c = h[right + 1] /\ (right < n => c \in QueueElements)
    <2>1. left < n => left \in 0..n - 1
      BY <1>2, <1>4
    <2>2. right < n => right \in 0..n - 1
      BY <1>2, <1>4
    <2>3. QED  BY <1>8, <1>9, <2>1, <2>2
  <1>14. /\ g # k => <<a, h[g + 1]>> \in R
         /\ left < n => <<h[g + 1], b>> \notin R
         /\ right < n => <<h[g + 1], c>> \notin R
    <2>1. CASE l = left /\ l # k
      <3>1. left < n /\ <<a, b>> \in R
        BY <1>10, <1>13, <2>1
      <3>2. CASE g = right
        <4>1. right < n /\ <<b, c>> \in R
          BY <1>4, <1>11, <1>13, <2>1, <3>2
        <4>2. <<a, c>> \in R /\ <<c, b>> \notin R /\ <<c, c>> \notin R
          <5>1. b \in QueueElements /\ c \in QueueElements
            BY <1>13, <3>1, <4>1
          <5>2. <<a, c>> \in R
            <6>1. a \in QueueElements /\ <<a, b>> \in R /\ <<b, c>> \in R
              BY <1>13, <3>1, <4>1
            <6>2. QED  BY <1>2, <5>1, <6>1, Strictly
          <5>3. <<c, b>> \notin R
            BY <1>2, <4>1, <5>1, Strictly
          <5>4. <<c, c>> \notin R
            BY <1>12, <5>1
          <5>5. QED  BY <5>2, <5>3, <5>4
        <4>3. QED  BY <1>13, <3>2, <4>2
      <3>3. CASE g # right
        <4>1. g = left /\ (right < n => <<b, c>> \notin R)
          BY <1>11, <1>13, <2>1, <3>3
        <4>2. <<b, b>> \notin R
          BY <1>12, <1>13, <3>1
        <4>3. QED  BY <1>13, <3>1, <4>1, <4>2
      <3>4. QED  BY <3>2, <3>3
    <2>2. CASE l = k
      <3>1. left < n => <<a, b>> \notin R
        BY <1>4, <1>10, <1>13, <2>2
      <3>2. CASE g = right
        <4>1. right < n /\ <<a, c>> \in R
          BY <1>4, <1>11, <1>13, <2>2, <3>2
        <4>2. <<c, a>> \notin R /\ <<c, c>> \notin R
          BY <1>2, <1>13, <4>1, Strictly
        <4>3. left < n => <<c, b>> \notin R
          <5>1. ASSUME left < n
                PROVE  <<c, b>> \notin R
            <6>1. a \in QueueElements /\ b \in QueueElements /\ c \in QueueElements
              BY <1>13, <4>1, <5>1
            <6>2. <<c, a>> \notin R /\ <<a, b>> \notin R
              BY <3>1, <4>2, <5>1
            <6>3. QED  BY <1>2, <6>1, <6>2, Strictly
          <5>2. QED  BY <5>1
        <4>4. QED  BY <1>13, <3>2, <4>1, <4>2, <4>3
      <3>3. CASE g # right
        <4>1. g = k /\ (right < n => <<a, c>> \notin R)
          BY <1>11, <1>13, <2>2, <3>3
        <4>2. QED  BY <1>13, <3>1, <4>1
      <3>4. QED  BY <3>2, <3>3
    <2>3. QED  BY <1>10, <2>1, <2>2
  <1>15. g = k \/ g = left \/ g = right
    BY <1>10, <1>11
  <1>16. g # k => Queue!Parent(g) = k /\ g > 0 /\ <<h[k + 1], h[g + 1]>> \in R
    BY <1>2, <1>4, <1>13, <1>14, <1>15
  <1>17. ASSUME NEW i \in 1..n - 1, Queue!Parent(i) = k
         PROVE  <<h[g + 1], h[i + 1]>> \notin R
    <2>1. (i = left \/ i = right) /\ i < n
      BY <1>2, <1>5, <1>17
    <2>2. QED  BY <1>13, <1>14, <2>1
  <1>18. Greatest(h, n, R, k, g)
    BY <1>9, <1>16, <1>17 DEF Greatest
  <1>19. QED  BY <1>1, <1>18

LEMMA HeapifyDownIsSound ==
    ASSUME QueueIsSound, Queue!HeapifyDown
    PROVE  QueueGoes(Queue!Held)
  <1>1. PICK n, h, k, R, e : /\ n = Len(heap) /\ h = heap /\ k = index /\ R = Precedes(order)
                             /\ e = Queue!Largest(index)
    OBVIOUS
  <1>2. /\ hpc = "down" /\ order' = order /\ n \in Nat /\ k \in Nat /\ k < n
        /\ h \in [1..n -> QueueElements] /\ Heap(h, n, R, "down", k)
    BY <1>1, QueueIs DEF Queue!HeapifyDown, QueueIsSound
  <1>3. Greatest(h, n, R, k, e)
    BY <1>1, <1>2, LargestIs
  <1>4. e \in 0..n - 1 /\ k \in 0..n - 1
    BY <1>2, <1>3 DEF Greatest
  <1>5. CASE e # k
    <2>1. /\ heap' = Queue!Swapped(heap, e, k) /\ index' = e /\ hpc' = "down"
      BY <1>1, <1>2, <1>5 DEF Queue!HeapifyDown
    <2>2. /\ heap' \in Seq(QueueElements) /\ Len(heap') = n
          /\ Once(heap', n) /\ Queue!Held' = Queue!Held
      BY <1>1, <1>4, <1>5, <2>1, QueueSwaps
    <2>3. PICK g : g = heap'
      OBVIOUS
    <2>4. g = Queue!Swapped(h, e, k)
      BY <1>1, <2>1, <2>3
    <2>5. Heap(g, n, R, "down", e)
      BY <1>2, <1>3, <1>4, <1>5, <2>4, DownKeepsHeap
    <2>6. e \in Nat /\ e < n
      BY <1>2, <1>4
    <2>7. QueueIsSound'
      BY <1>1, <1>2, <2>1, <2>2, <2>3, <2>5, <2>6 DEF QueueIsSound
    <2>8. QED  BY <2>2, <2>7 DEF QueueGoes
  <1>6. CASE e = k
    <2>1. heap' = heap /\ hpc' = "idle" /\ index' = 0
      BY <1>1, <1>6 DEF Queue!HeapifyDown
    <2>2. Heap(h, n, R, "idle", 0)
      BY <1>2, <1>3, <1>6, DownEndsHeap
    <2>3. QueueIsSound'
      BY <1>1, <1>2, <2>1, <2>2 DEF QueueIsSound
    <2>4. Queue!Held' = Queue!Held
      BY <2>1 DEF Queue!Held
    <2>5. QED  BY <2>3, <2>4 DEF QueueGoes
  <1>7. QED  BY <1>5, <1>6

LEMMA QueueStepIsSound ==
    ASSUME QueueIsSound, Queue!Next \/ UNCHANGED queueVars
    PROVE  /\ QueueIsSound'
           /\ Queue!KB!Next \/ UNCHANGED <<Queue!Held, hpc # "idle">>
  <1>1. ASSUME NEW e \in QueueElements \ Queue!Held, Queue!Push(e)
        PROVE  QueueIsSound' /\ Queue!KB!Next
    <2>1. QueueIsSound' /\ Queue!Held' = Queue!Held \cup {e}
      BY <1>1, PushIsSound DEF QueueGoes
    <2>2. hpc = "idle" /\ hpc' = "up"
      BY <1>1 DEF Queue!Push
    <2>3. Queue!KB!Insert
      BY <2>1, <2>2 DEF Queue!KB!Insert
    <2>4. QED  BY <2>1, <2>3 DEF Queue!KB!Next
  <1>2. CASE Queue!Pop
    <2>1. PICK e \in Queue!Held : QueueIsSound' /\ Queue!Held' = Queue!Held \ {e}
      BY <1>2, PopIsSound DEF QueueGoes
    <2>2. hpc = "idle"
      BY <1>2 DEF Queue!Pop
    <2>3. Queue!KB!Remove
      BY <2>1, <2>2 DEF Queue!KB!Remove
    <2>4. QED  BY <2>1, <2>3 DEF Queue!KB!Next
  <1>3. CASE Queue!Heapify
    <2>1. QueueIsSound' /\ Queue!Held' = Queue!Held
      BY <1>3, HeapifyUpIsSound, HeapifyDownIsSound DEF QueueGoes, Queue!Heapify
    <2>2. hpc # "idle" /\ (hpc' = "idle" \/ hpc' = hpc)
      BY <1>3 DEF Queue!Heapify, Queue!HeapifyUp, Queue!HeapifyDown
    <2>3. CASE hpc' = "idle"
      BY <2>1, <2>2, <2>3 DEF Queue!KB!Next, Queue!KB!Return
    <2>4. CASE hpc' = hpc
      BY <2>1, <2>4
    <2>5. QED  BY <2>1, <2>2, <2>3, <2>4
  <1>4. CASE UNCHANGED queueVars
    BY <1>4 DEF queueVars, QueueIsSound, Queue!Held
  <1>5. QED  BY <1>1, <1>2, <1>3, <1>4 DEF Queue!Next

LEMMA QueueIsInOrder ==
    ASSUME QueueIsSound
    PROVE  Queue!HeapOrder /\ Queue!TopIsGreatest
  <1>1. PICK n, h, k, R : n = Len(heap) /\ h = heap /\ k = index /\ R = Precedes(order)
    OBVIOUS
  <1>2. /\ n \in Nat /\ h \in [1..n -> QueueElements] /\ k \in Nat /\ Heap(h, n, R, hpc, k)
        /\ Queue!Held = Contents(h, n)
        /\ \A a, b \in QueueElements : Queue!comp(a, b) <=> <<a, b>> \in R
    BY <1>1, QueueIs DEF QueueIsSound
  <1>3. \A i \in 0..n - 1 : h[i + 1] \in QueueElements
    BY <1>2
  <1>4. ASSUME NEW i \in 1..n - 1
        PROVE  /\ Queue!comp(h[Queue!Parent(i) + 1], h[i + 1]) =>
                      (hpc = "up" /\ i = k) \/ (hpc = "down" /\ Queue!Parent(i) = k)
               /\ Queue!Parent(i) = k /\ k > 0 => ~Queue!comp(h[Queue!Parent(k) + 1], h[i + 1])
    <2>1. i \in 0..n - 1 /\ Queue!Parent(i) \in 0..n - 1
      BY <1>2, ParentIs
    <2>2. /\ <<h[Queue!Parent(i) + 1], h[i + 1]>> \in R =>
                 (hpc = "up" /\ i = k) \/ (hpc = "down" /\ Queue!Parent(i) = k)
          /\ Queue!Parent(i) = k /\ k > 0 => <<h[Queue!Parent(k) + 1], h[i + 1]>> \notin R
      BY <1>2 DEF Heap, Heaped
    <2>3. Queue!Parent(i) = k /\ k > 0 => Queue!Parent(k) \in 0..n - 1
      BY <1>2, <2>1, ParentIs
    <2>4. QED  BY <1>2, <1>3, <2>1, <2>2, <2>3
  <1>5. Queue!HeapOrder
    BY <1>1, <1>4 DEF Queue!HeapOrder, Queue!At
  <1>6. Queue!TopIsGreatest
    <2>1. ASSUME hpc = "idle", NEW e \in Queue!Held
          PROVE  ~Queue!comp(h[1], e)
      <3>1. PICK i \in 1..n : e = h[i]
        BY <1>2 DEF Contents
      <3>2. Heap(h, n, R, "idle", 0)
        BY <1>1, <2>1 DEF QueueIsSound
      <3>3. <<h[1], h[i]>> \notin R
        BY <3>2, FirstIsGreatest
      <3>4. h[1] \in QueueElements /\ h[i] \in QueueElements
        BY <1>2
      <3>5. QED  BY <1>2, <3>1, <3>3, <3>4
    <2>2. 0 + 1 = 1
      OBVIOUS
    <2>3. QED  BY <1>1, <2>1, <2>2 DEF Queue!TopIsGreatest, Queue!At
  <1>7. QED  BY <1>5, <1>6

(***************************************************************************)
(* UnionFind.  D[i] is a set of elements below i: below a root, its block. *)
(***************************************************************************)

Of(bl, i) == CHOOSE b \in bl : i \in b

Partitions(bl) ==
    /\ bl \subseteq SUBSET Sets!Elements
    /\ \A i \in Sets!Elements : \E b \in bl : i \in b
    /\ \A b, c \in bl : \A i \in Sets!Elements : i \in b /\ i \in c => b = c
    /\ {} \notin bl

Forest(p, bl, D) ==
    /\ p \in [Sets!Elements -> Sets!Elements] /\ Partitions(bl)
    /\ D \in [Sets!Elements -> SUBSET Sets!Elements]
    /\ \A i \in Sets!Elements : i \in D[i] /\ D[i] \subseteq Of(bl, i)
    /\ \A i \in Sets!Elements : p[i] # i => D[i] \subseteq D[p[i]] /\ D[i] # D[p[i]]
    /\ \A i \in Sets!Elements : p[i] = i => D[i] = Of(bl, i)
    /\ \A i, j \in Sets!Elements : p[i] = i /\ p[j] = j /\ Of(bl, i) = Of(bl, j) => i = j

LEMMA OfIs ==
    ASSUME NEW bl, Partitions(bl), NEW i \in Sets!Elements
    PROVE  /\ Of(bl, i) \in bl /\ i \in Of(bl, i) /\ Of(bl, i) \subseteq Sets!Elements
           /\ \A b \in bl : i \in b => b = Of(bl, i)
           /\ \A j \in Of(bl, i) : Of(bl, j) = Of(bl, i)
  <1>1. Of(bl, i) \in bl /\ i \in Of(bl, i)
    BY DEF Partitions, Of
  <1>2. Of(bl, i) \subseteq Sets!Elements
    BY <1>1 DEF Partitions
  <1>3. \A b \in bl : i \in b => b = Of(bl, i)
    BY <1>1 DEF Partitions
  <1>4. ASSUME NEW j \in Of(bl, i)
        PROVE  Of(bl, j) = Of(bl, i)
    <2>1. j \in Sets!Elements
      BY <1>2
    <2>2. Of(bl, j) \in bl /\ j \in Of(bl, j)
      BY <2>1 DEF Partitions, Of
    <2>3. QED  BY <1>1, <1>4, <2>1, <2>2 DEF Partitions
  <1>5. QED  BY <1>1, <1>2, <1>3, <1>4

LEMMA ElementsAre == N \in Nat /\ IsFiniteSet(Sets!Elements) /\ Cardinality(Sets!Elements) = N
  <1>1. N \in Nat
    BY SetsAssumption
  <1>2. IsFiniteSet(0..N - 1) /\ Cardinality(0..N - 1) = IF 0 > N - 1 THEN 0 ELSE (N - 1) - 0 + 1
    BY <1>1, FS_Interval
  <1>3. QED  BY <1>1, <1>2 DEF Sets!Elements

\* The loop of find as a repetition of steps.
LEMMA UpRepeats ==
    ASSUME NEW p \in [Sets!Elements -> Sets!Elements], NEW i \in Sets!Elements
    PROVE  \E w : Repeated(N, Sets!Elements, i, p, w) /\ Sets!Up(p, i) = w[N]
  <1>1. N \in Nat
    BY ElementsAre
  <1>2. PICK f : Repeated(N, Sets!Elements, i, p, f)
    BY <1>1, Repeats
  <1>3. f = [j \in 0..N |-> IF j = 0 THEN i ELSE p[f[j - 1]]]
    <2>1. f \in [0..N -> Sets!Elements] /\ f[0] = i
      BY <1>2 DEF Repeated
    <2>2. ASSUME NEW j \in 0..N, j # 0
          PROVE  f[j] = p[f[j - 1]]
      <3>1. j \in 1..N
        BY <1>1, <2>2
      <3>2. QED  BY <1>2, <3>1 DEF Repeated
    <2>3. QED  BY <2>1, <2>2
  <1>4. PICK w : w = CHOOSE g : g = [j \in 0..N |-> IF j = 0 THEN i ELSE p[g[j - 1]]]
    OBVIOUS
  <1>5. w = [j \in 0..N |-> IF j = 0 THEN i ELSE p[w[j - 1]]]
    BY <1>3, <1>4
  <1>6. Sets!Up(p, i) = w[N]
    BY <1>4 DEF Sets!Up
  <1>7. w = [j \in 0..N |-> w[j]] /\ w[0] = i
    <2>1. 0 \in 0..N
      BY <1>1
    <2>2. QED  BY <1>5, <2>1
  <1>8. ASSUME NEW j \in 1..N, w[j - 1] \in Sets!Elements
        PROVE  w[j] = p[w[j - 1]]
    <2>1. j \in 0..N /\ j # 0
      BY <1>1
    <2>2. QED  BY <1>5, <2>1
  <1>9. Repeated(N, Sets!Elements, i, p, w)
    BY <1>1, <1>7, <1>8, FollowsSteps
  <1>10. QED  BY <1>6, <1>9

\* A step up stays in the block.
LEMMA StepStays ==
    ASSUME NEW p, NEW bl, NEW D, Forest(p, bl, D), NEW i \in Sets!Elements
    PROVE  p[i] \in Sets!Elements /\ Of(bl, p[i]) = Of(bl, i)
  <1>1. p \in [Sets!Elements -> Sets!Elements] /\ Partitions(bl)
    BY DEF Forest
  <1>2. p[i] \in Sets!Elements
    BY <1>1
  <1>3. CASE p[i] = i
    BY <1>2, <1>3
  <1>4. CASE p[i] # i
    <2>1. i \in D[i] /\ D[i] \subseteq D[p[i]] /\ D[p[i]] \subseteq Of(bl, p[i])
      BY <1>2, <1>4 DEF Forest
    <2>2. i \in Of(bl, p[i])
      BY <2>1
    <2>3. QED  BY <1>1, <1>2, <2>2, OfIs
  <1>5. QED  BY <1>3, <1>4

\* What find yields.
RootOf(p, bl, i, r) == r \in Sets!Elements /\ p[r] = r /\ Of(bl, r) = Of(bl, i)

LEMMA UpIsRoot ==
    ASSUME NEW p, NEW bl, NEW D, Forest(p, bl, D), NEW i \in Sets!Elements
    PROVE  RootOf(p, bl, i, Sets!Up(p, i))
  <1>1. p \in [Sets!Elements -> Sets!Elements] /\ D \in [Sets!Elements -> SUBSET Sets!Elements]
    BY DEF Forest
  <1>2. PICK w : Repeated(N, Sets!Elements, i, p, w) /\ Sets!Up(p, i) = w[N]
    BY <1>1, UpRepeats
  <1>3. N \in Nat /\ IsFiniteSet(Sets!Elements) /\ Cardinality(Sets!Elements) = N
    BY ElementsAre
  <1>4. PICK T : T = {j \in Sets!Elements : Of(bl, j) = Of(bl, i)}
    OBVIOUS
  <1>5. ASSUME NEW j \in Sets!Elements, j \in T
        PROVE  p[j] \in T
    BY <1>4, <1>5, StepStays
  <1>6. w[N] \in T /\ w[N] \in Sets!Elements
    <2>1. i \in T
      BY <1>4
    <2>2. QED  BY <1>2, <1>3, <1>5, <2>1, RepeatedKeeps
  <1>7. PICK size : size = [j \in Sets!Elements |-> Cardinality(D[j])]
    OBVIOUS
  <1>8. \A j \in Sets!Elements : /\ size[j] \in Nat /\ size[j] <= N
                                 /\ p[j] # j => size[j] < size[p[j]]
    <2>1. ASSUME NEW j \in Sets!Elements
          PROVE  /\ size[j] \in Nat /\ size[j] <= N
                 /\ p[j] # j => size[j] < size[p[j]]
      <3>1. IsFiniteSet(D[j]) /\ Cardinality(D[j]) <= N /\ Cardinality(D[j]) \in Nat
        BY <1>1, <1>3, FS_Subset, FS_CardinalityType
      <3>2. p[j] \in Sets!Elements
        BY <1>1
      <3>3. IsFiniteSet(D[p[j]]) /\ Cardinality(D[p[j]]) \in Nat
        BY <1>1, <1>3, <3>2, FS_Subset, FS_CardinalityType
      <3>4. p[j] # j => D[j] \subseteq D[p[j]] /\ D[j] # D[p[j]]
        BY DEF Forest
      <3>5. p[j] # j => Cardinality(D[j]) <= Cardinality(D[p[j]]) /\ Cardinality(D[j]) # Cardinality(D[p[j]])
        BY <3>3, <3>4, FS_Subset
      <3>6. size[j] = Cardinality(D[j]) /\ size[p[j]] = Cardinality(D[p[j]])
        BY <1>7, <3>2
      <3>7. QED  BY <3>1, <3>3, <3>5, <3>6
    <2>2. QED  BY <2>1
  <1>9. PICK mu : mu = [j \in Sets!Elements |-> N - size[j]]
    OBVIOUS
  <1>10. mu \in [Sets!Elements -> Nat] /\ mu[i] <= N
    BY <1>3, <1>8, <1>9
  <1>11. \A j \in Sets!Elements : p[j] = j \/ mu[p[j]] < mu[j]
    BY <1>1, <1>3, <1>8, <1>9
  <1>12. p[w[N]] = w[N]
    BY <1>1, <1>2, <1>3, <1>10, <1>11, Settles
  <1>13. QED  BY <1>2, <1>4, <1>6, <1>12 DEF RootOf

LEMMA OneRoot ==
    ASSUME NEW p, NEW bl, NEW D, Forest(p, bl, D), NEW i, NEW r, NEW s,
           RootOf(p, bl, i, r), RootOf(p, bl, i, s)
    PROVE  r = s
  BY DEF Forest, RootOf

\* One more element of the path.
LEMMA PathStays ==
    ASSUME NEW p, NEW bl, NEW D, Forest(p, bl, D), NEW i \in Sets!Elements
    PROVE  \A k \in Sets!Path(p, i) : k \in Sets!Elements /\ Of(bl, k) = Of(bl, i)
  <1>1. N \in Nat
    BY ElementsAre
  <1>2. PICK T : T = {k \in Sets!Elements : Of(bl, k) = Of(bl, i)}
    OBVIOUS
  <1>3. \A k \in T : p[k] \in T
    BY <1>2, StepStays
  <1>4. PICK step : step = [S \in SUBSET T |-> S \cup {p[k] : k \in S}]
    OBVIOUS
  <1>5. step \in [SUBSET T -> SUBSET T] /\ {i} \in SUBSET T
    BY <1>2, <1>3, <1>4
  <1>6. PICK f : Repeated(N, SUBSET T, {i}, step, f)
    BY <1>1, <1>5, Repeats
  <1>7. f = [j \in 0..N |-> IF j = 0 THEN {i} ELSE f[j - 1] \cup {p[k] : k \in f[j - 1]}]
    <2>1. f \in [0..N -> SUBSET T] /\ f[0] = {i}
      BY <1>6 DEF Repeated
    <2>2. ASSUME NEW j \in 0..N, j # 0
          PROVE  f[j] = f[j - 1] \cup {p[k] : k \in f[j - 1]}
      <3>1. j \in 1..N /\ j - 1 \in 0..N
        BY <1>1, <2>2
      <3>2. f[j] = step[f[j - 1]] /\ f[j - 1] \in SUBSET T
        BY <1>6, <2>1, <3>1 DEF Repeated
      <3>3. QED  BY <1>4, <3>2
    <2>3. QED  BY <2>1, <2>2
  <1>8. PICK w : w = CHOOSE g : g = [j \in 0..N |-> IF j = 0 THEN {i} ELSE g[j - 1] \cup {p[k] : k \in g[j - 1]}]
    OBVIOUS
  <1>9. w = [j \in 0..N |-> IF j = 0 THEN {i} ELSE w[j - 1] \cup {p[k] : k \in w[j - 1]}]
    BY <1>7, <1>8
  <1>10. Sets!Path(p, i) = w[N]
    BY <1>8 DEF Sets!Path
  <1>11. w = [j \in 0..N |-> w[j]] /\ w[0] = {i}
    <2>1. 0 \in 0..N
      BY <1>1
    <2>2. QED  BY <1>9, <2>1
  <1>12. ASSUME NEW j \in 1..N, w[j - 1] \in SUBSET T
         PROVE  w[j] = step[w[j - 1]]
    <2>1. j \in 0..N /\ j # 0
      BY <1>1
    <2>2. w[j] = w[j - 1] \cup {p[k] : k \in w[j - 1]}
      BY <1>9, <2>1
    <2>3. QED  BY <1>4, <1>12, <2>2
  <1>13. Repeated(N, SUBSET T, {i}, step, w)
    BY <1>1, <1>5, <1>11, <1>12, FollowsSteps
  <1>14. w[N] \in SUBSET T
    BY <1>1, <1>13 DEF Repeated
  <1>15. QED  BY <1>2, <1>10, <1>14

\* The path starts at i.
LEMMA PathStarts ==
    ASSUME NEW p \in [Sets!Elements -> Sets!Elements], NEW i \in Sets!Elements
    PROVE  i \in Sets!Path(p, i)
  <1>1. N \in Nat
    BY ElementsAre
  <1>2. PICK step : step = [S \in SUBSET Sets!Elements |-> S \cup {p[k] : k \in S}]
    OBVIOUS
  <1>3. step \in [SUBSET Sets!Elements -> SUBSET Sets!Elements] /\ {i} \in SUBSET Sets!Elements
    BY <1>2
  <1>4. PICK f : Repeated(N, SUBSET Sets!Elements, {i}, step, f)
    BY <1>1, <1>3, Repeats
  <1>5. f = [j \in 0..N |-> IF j = 0 THEN {i} ELSE f[j - 1] \cup {p[k] : k \in f[j - 1]}]
    <2>1. f \in [0..N -> SUBSET Sets!Elements] /\ f[0] = {i}
      BY <1>4 DEF Repeated
    <2>2. ASSUME NEW j \in 0..N, j # 0
          PROVE  f[j] = f[j - 1] \cup {p[k] : k \in f[j - 1]}
      <3>1. j \in 1..N /\ j - 1 \in 0..N
        BY <1>1, <2>2
      <3>2. f[j] = step[f[j - 1]] /\ f[j - 1] \in SUBSET Sets!Elements
        BY <1>4, <2>1, <3>1 DEF Repeated
      <3>3. QED  BY <1>2, <3>2
    <2>3. QED  BY <2>1, <2>2
  <1>6. PICK w : w = CHOOSE g : g = [j \in 0..N |-> IF j = 0 THEN {i} ELSE g[j - 1] \cup {p[k] : k \in g[j - 1]}]
    OBVIOUS
  <1>7. w = [j \in 0..N |-> IF j = 0 THEN {i} ELSE w[j - 1] \cup {p[k] : k \in w[j - 1]}]
    BY <1>5, <1>6
  <1>8. Sets!Path(p, i) = w[N]
    BY <1>6 DEF Sets!Path
  <1>9. PICK G : G = {j \in 0..N : i \in w[j]}
    OBVIOUS
  <1>10. 0 \in G
    <2>1. 0 \in 0..N
      BY <1>1
    <2>2. w[0] = {i}
      BY <1>7, <2>1
    <2>3. QED  BY <1>9, <2>1, <2>2
  <1>11. ASSUME NEW m \in 0..N - 1, m \in G
         PROVE  m + 1 \in G
    <2>1. m + 1 \in 0..N /\ m + 1 # 0 /\ (m + 1) - 1 = m
      BY <1>1
    <2>2. w[m + 1] = w[m] \cup {p[k] : k \in w[m]}
      BY <1>7, <2>1
    <2>3. QED  BY <1>9, <1>11, <2>1, <2>2
  <1>12. N \in G
    <2>1. \A m \in 0..N : m \in G
      BY <1>1, <1>10, <1>11, Induction
    <2>2. QED  BY <1>1, <2>1
  <1>13. QED  BY <1>8, <1>9, <1>12

(***************************************************************************)
(* Compression, and a link between two roots.                              *)
(***************************************************************************)

\* A parent lies higher by rank.
Ranked(p, rk) == \A i \in Sets!Elements : p[i] # i => rk[i] < rk[p[i]]

\* What compressing the path from i makes of p: the same forest of blocks, with i
\* directly under its root, and who was directly under a root still is.
CompressedTo(p, bl, D, i, g) ==
    /\ Forest(g, bl, D)
    /\ RootOf(g, bl, i, g[i])
    /\ \A j \in Sets!Elements : p[p[j]] = p[j] => RootOf(g, bl, j, g[j])
    /\ \A j \in Sets!Elements : p[j] = j <=> g[j] = j

LEMMA CompressedIs ==
    ASSUME NEW p, NEW bl, NEW D, Forest(p, bl, D), NEW i \in Sets!Elements, NEW g, g = Sets!Compressed(p, i)
    PROVE  CompressedTo(p, bl, D, i, g)
  <1>1. /\ p \in [Sets!Elements -> Sets!Elements] /\ Partitions(bl)
        /\ D \in [Sets!Elements -> SUBSET Sets!Elements]
        /\ \A j \in Sets!Elements : j \in D[j] /\ D[j] \subseteq Of(bl, j)
        /\ \A j \in Sets!Elements : p[j] # j => D[j] \subseteq D[p[j]] /\ D[j] # D[p[j]]
        /\ \A j \in Sets!Elements : p[j] = j => D[j] = Of(bl, j)
        /\ \A j, k \in Sets!Elements : p[j] = j /\ p[k] = k /\ Of(bl, j) = Of(bl, k) => j = k
    BY DEF Forest
  <1>2. PICK r, P : r = Sets!Up(p, i) /\ P = Sets!Path(p, i)
    OBVIOUS
  <1>3. RootOf(p, bl, i, r)
    BY <1>2, UpIsRoot
  <1>4. r \in Sets!Elements /\ p[r] = r /\ Of(bl, r) = Of(bl, i)
    BY <1>3 DEF RootOf
  <1>5. \A k \in P : k \in Sets!Elements /\ Of(bl, k) = Of(bl, r)
    BY <1>2, <1>4, PathStays
  <1>6. \A k \in Sets!Elements : g[k] = IF k \in P THEN r ELSE p[k]
    BY <1>2 DEF Sets!Compressed
  <1>7. g \in [Sets!Elements -> Sets!Elements]
    <2>1. g = [k \in Sets!Elements |-> IF k \in P THEN r ELSE p[k]]
      BY <1>2 DEF Sets!Compressed
    <2>2. QED  BY <1>1, <1>4, <2>1
  <1>8. g[r] = r
    BY <1>4, <1>6
  <1>9. \A j \in Sets!Elements : p[j] = j <=> g[j] = j
    <2>1. ASSUME NEW j \in Sets!Elements
          PROVE  p[j] = j <=> g[j] = j
      <3>1. CASE j \in P
        <4>1. p[j] = j => j = r
          BY <1>1, <1>4, <1>5, <3>1
        <4>2. QED  BY <1>4, <1>6, <3>1, <4>1
      <3>2. CASE j \notin P
        BY <1>6, <3>2
      <3>3. QED  BY <3>1, <3>2
    <2>2. QED  BY <2>1
  <1>10. ASSUME NEW j \in Sets!Elements, g[j] # j
         PROVE  D[j] \subseteq D[g[j]] /\ D[j] # D[g[j]]
    <2>1. p[j] # j /\ p[j] \in Sets!Elements
      BY <1>1, <1>9, <1>10
    <2>2. CASE j \in P
      <3>1. g[j] = r /\ D[r] = Of(bl, j) /\ D[j] \subseteq Of(bl, j)
        BY <1>1, <1>4, <1>5, <1>6, <2>2
      <3>2. D[j] \subseteq D[p[j]] /\ D[j] # D[p[j]]
        BY <1>1, <2>1
      <3>3. D[p[j]] \subseteq Of(bl, p[j]) /\ Of(bl, p[j]) = Of(bl, j)
        BY <1>1, <2>1, StepStays
      <3>4. QED  BY <3>1, <3>2, <3>3
    <2>3. CASE j \notin P
      BY <1>1, <1>6, <2>1, <2>3
    <2>4. QED  BY <2>2, <2>3
  <1>11. Forest(g, bl, D)
    BY <1>1, <1>7, <1>9, <1>10 DEF Forest
  <1>12. \A j \in Sets!Elements : g[j] \in Sets!Elements /\ Of(bl, g[j]) = Of(bl, j)
    BY <1>11, StepStays
  <1>13. RootOf(g, bl, i, g[i])
    <2>1. i \in P
      BY <1>1, <1>2, PathStarts
    <2>2. g[i] = r
      BY <1>6, <2>1
    <2>3. QED  BY <1>4, <1>8, <2>2 DEF RootOf
  <1>14. ASSUME NEW j \in Sets!Elements, p[p[j]] = p[j]
         PROVE  RootOf(g, bl, j, g[j])
    <2>1. g[g[j]] = g[j]
      <3>1. CASE j \in P
        BY <1>6, <1>8, <3>1
      <3>2. CASE j \notin P
        <4>1. g[j] = p[j] /\ p[j] \in Sets!Elements
          BY <1>1, <1>6, <3>2
        <4>2. QED  BY <1>9, <1>14, <4>1
      <3>3. QED  BY <3>1, <3>2
    <2>2. QED  BY <1>12, <2>1 DEF RootOf
  <1>15. QED  BY <1>9, <1>11, <1>13, <1>14 DEF CompressedTo

LEMMA CompressedIsRanked ==
    ASSUME NEW p, NEW bl, NEW D, Forest(p, bl, D), NEW i \in Sets!Elements, NEW g, g = Sets!Compressed(p, i),
           NEW rk \in [Sets!Elements -> Nat], Ranked(p, rk)
    PROVE  Ranked(g, rk)
  <1>1. p \in [Sets!Elements -> Sets!Elements]
    BY DEF Forest
  <1>2. PICK r, P : r = Sets!Up(p, i) /\ P = Sets!Path(p, i)
    OBVIOUS
  <1>3. RootOf(p, bl, i, r)
    BY <1>2, UpIsRoot
  <1>4. \A k \in Sets!Elements : g[k] = IF k \in P THEN r ELSE p[k]
    BY <1>2 DEF Sets!Compressed
  <1>5. ASSUME NEW k \in Sets!Elements, g[k] # k
        PROVE  rk[k] < rk[g[k]]
    <2>1. CASE k \in P
      <3>1. Of(bl, k) = Of(bl, i) /\ g[k] = r
        BY <1>2, <1>4, <2>1, PathStays
      <3>2. RootOf(p, bl, k, r)
        BY <1>3, <3>1 DEF RootOf
      <3>3. RootOf(p, bl, k, Sets!Up(p, k))
        BY UpIsRoot
      <3>4. r = Sets!Up(p, k)
        BY <3>2, <3>3, OneRoot
      <3>5. PICK w : Repeated(N, Sets!Elements, k, p, w) /\ r = w[N]
        BY <1>1, <3>4, UpRepeats
      <3>6. PICK T : T = {m \in Sets!Elements : m = k \/ rk[k] < rk[m]}
        OBVIOUS
      <3>7. ASSUME NEW m \in Sets!Elements, m \in T
            PROVE  p[m] \in T
        <4>1. p[m] \in Sets!Elements
          BY <1>1
        <4>2. rk[k] \in Nat /\ rk[m] \in Nat /\ rk[p[m]] \in Nat
          BY <4>1
        <4>3. p[m] = m \/ rk[m] < rk[p[m]]
          BY DEF Ranked
        <4>4. QED  BY <3>6, <3>7, <4>1, <4>2, <4>3
      <3>8. N \in Nat /\ k \in T
        BY <3>6, ElementsAre
      <3>9. w[N] \in T
        BY <3>5, <3>7, <3>8, RepeatedKeeps
      <3>10. QED  BY <1>5, <3>1, <3>5, <3>6, <3>9
    <2>2. CASE k \notin P
      <3>1. g[k] = p[k] /\ p[k] # k
        BY <1>4, <1>5, <2>2
      <3>2. QED  BY <3>1 DEF Ranked
    <2>3. QED  BY <2>1, <2>2
  <1>6. QED  BY <1>5 DEF Ranked

JoinedTo(bl, b, c) == (bl \ {b, c}) \cup {b \cup c}

\* The partition in which b and c are one block.
JoinsThem(bl, b, c, cl) ==
    /\ Partitions(cl) /\ b \cup c \in cl
    /\ \A i \in Sets!Elements : Of(cl, i) = IF i \in b \cup c THEN b \cup c ELSE Of(bl, i)

LEMMA JoinedIs ==
    ASSUME NEW bl, Partitions(bl), NEW b \in bl, NEW c \in bl
    PROVE  JoinsThem(bl, b, c, JoinedTo(bl, b, c))
  <1>0. PICK cl : cl = JoinedTo(bl, b, c)
    OBVIOUS
  <1>1. /\ bl \subseteq SUBSET Sets!Elements /\ {} \notin bl
        /\ \A i \in Sets!Elements : \E d \in bl : i \in d
        /\ \A d, e \in bl : \A i \in Sets!Elements : i \in d /\ i \in e => d = e
    BY DEF Partitions
  <1>2. \A d : d \in cl <=> (d \in bl /\ d # b /\ d # c) \/ d = b \cup c
    BY <1>0 DEF JoinedTo
  <1>3. \A d \in cl : \A i \in Sets!Elements : i \in d /\ i \in b \cup c => d = b \cup c
    BY <1>1, <1>2
  <1>4. Partitions(cl)
    <2>1. cl \subseteq SUBSET Sets!Elements /\ {} \notin cl
      <3>1. \A d \in cl : d \subseteq Sets!Elements
        BY <1>1, <1>2
      <3>2. b # {}
        BY <1>1
      <3>3. b \cup c # {}
        BY <3>2
      <3>4. QED  BY <1>1, <1>2, <3>1, <3>3
    <2>2. ASSUME NEW i \in Sets!Elements
          PROVE  \E d \in cl : i \in d
      <3>1. PICK d \in bl : i \in d
        BY <1>1
      <3>2. CASE d = b \/ d = c
        <4>1. i \in b \cup c /\ b \cup c \in cl
          BY <1>2, <3>1, <3>2
        <4>2. QED  BY <4>1
      <3>3. CASE d # b /\ d # c
        <4>1. d \in cl
          BY <1>2, <3>3
        <4>2. QED  BY <3>1, <4>1
      <3>4. QED  BY <3>2, <3>3
    <2>3. ASSUME NEW d \in cl, NEW e \in cl, NEW i \in Sets!Elements, i \in d, i \in e
          PROVE  d = e
      <3>1. CASE d = b \cup c \/ e = b \cup c
        BY <1>3, <2>3, <3>1
      <3>2. CASE d # b \cup c /\ e # b \cup c
        <4>1. d \in bl /\ e \in bl
          BY <1>2, <3>2
        <4>2. QED  BY <1>1, <2>3, <4>1
      <3>3. QED  BY <3>1, <3>2
    <2>4. QED  BY <2>1, <2>2, <2>3 DEF Partitions
  <1>5. ASSUME NEW i \in Sets!Elements
        PROVE  Of(cl, i) = IF i \in b \cup c THEN b \cup c ELSE Of(bl, i)
    <2>1. CASE i \in b \cup c
      <3>1. b \cup c \in cl
        BY <1>2
      <3>2. QED  BY <1>4, <2>1, <3>1, OfIs
    <2>2. CASE i \notin b \cup c
      <3>1. Of(bl, i) \in bl /\ i \in Of(bl, i)
        BY OfIs
      <3>2. Of(bl, i) \in cl
        BY <1>2, <2>2, <3>1
      <3>3. QED  BY <1>4, <2>2, <3>1, <3>2, OfIs
    <2>3. QED  BY <2>1, <2>2
  <1>6. QED  BY <1>0, <1>2, <1>4, <1>5 DEF JoinsThem

\* The root x goes under the root y.
LEMMA LinkIsForest ==
    ASSUME NEW p, NEW bl, NEW D, Forest(p, bl, D), NEW x1 \in Sets!Elements, NEW y1 \in Sets!Elements,
           p[x1] = x1, p[y1] = y1, x1 # y1,
           NEW g, g = [p EXCEPT ![x1] = y1], NEW cl, cl = JoinedTo(bl, Of(bl, x1), Of(bl, y1))
    PROVE  \E C : Forest(g, cl, C)
  <1>1. /\ p \in [Sets!Elements -> Sets!Elements] /\ Partitions(bl)
        /\ D \in [Sets!Elements -> SUBSET Sets!Elements]
        /\ \A j \in Sets!Elements : j \in D[j] /\ D[j] \subseteq Of(bl, j)
        /\ \A j \in Sets!Elements : p[j] # j => D[j] \subseteq D[p[j]] /\ D[j] # D[p[j]]
        /\ \A j \in Sets!Elements : p[j] = j => D[j] = Of(bl, j)
        /\ \A j, k \in Sets!Elements : p[j] = j /\ p[k] = k /\ Of(bl, j) = Of(bl, k) => j = k
    BY DEF Forest
  <1>2. PICK b, c, C : /\ b = Of(bl, x1) /\ c = Of(bl, y1)
                       /\ C = [j \in Sets!Elements |-> IF j = y1 THEN b \cup c ELSE D[j]]
    OBVIOUS
  <1>3. /\ b \in bl /\ c \in bl /\ x1 \in b /\ y1 \in c /\ b \subseteq Sets!Elements /\ c \subseteq Sets!Elements
        /\ \A j \in b : Of(bl, j) = b
        /\ \A j \in c : Of(bl, j) = c
        /\ \A j \in Sets!Elements : j \in Of(bl, j)
    BY <1>1, <1>2, OfIs
  <1>4. b # c /\ y1 \notin b /\ x1 \notin c
    BY <1>1, <1>2, <1>3
  <1>5. /\ Partitions(cl)
        /\ \A j \in Sets!Elements : Of(cl, j) = IF j \in b \cup c THEN b \cup c ELSE Of(bl, j)
    <2>1. cl = JoinedTo(bl, b, c) /\ Partitions(bl) /\ b \in bl /\ c \in bl
      BY <1>1, <1>2, <1>3
    <2>2. JoinsThem(bl, b, c, cl)
      BY <2>1, JoinedIs
    <2>3. QED  BY <2>2 DEF JoinsThem
  <1>6. \A j \in Sets!Elements : g[j] = IF j = x1 THEN y1 ELSE p[j]
    BY <1>1
  <1>7. g \in [Sets!Elements -> Sets!Elements]
    BY <1>1
  <1>8. \A j \in Sets!Elements : C[j] = IF j = y1 THEN b \cup c ELSE D[j]
    BY <1>2
  <1>9. C \in [Sets!Elements -> SUBSET Sets!Elements]
    BY <1>1, <1>2, <1>3
  <1>10. D[y1] = c /\ D[x1] = b
    BY <1>1, <1>2
  <1>11. ASSUME NEW j \in Sets!Elements
         PROVE  j \in C[j] /\ C[j] \subseteq Of(cl, j)
    <2>1. CASE j = y1
      BY <1>3, <1>5, <1>8, <2>1
    <2>2. CASE j # y1
      <3>1. C[j] = D[j] /\ j \in D[j] /\ D[j] \subseteq Of(bl, j)
        BY <1>1, <1>8, <2>2
      <3>2. Of(bl, j) \subseteq Of(cl, j)
        <4>1. CASE j \in b \cup c
          <5>1. Of(bl, j) = b \/ Of(bl, j) = c
            BY <1>3, <4>1
          <5>2. QED  BY <1>5, <4>1, <5>1
        <4>2. CASE j \notin b \cup c
          BY <1>5, <4>2
        <4>3. QED  BY <4>1, <4>2
      <3>3. QED  BY <3>1, <3>2
    <2>3. QED  BY <2>1, <2>2
  <1>12. ASSUME NEW j \in Sets!Elements, g[j] # j
         PROVE  C[j] \subseteq C[g[j]] /\ C[j] # C[g[j]]
    <2>1. CASE j = x1
      <3>1. C[j] = b /\ C[g[j]] = b \cup c
        BY <1>6, <1>8, <1>10, <2>1
      <3>2. QED  BY <1>3, <1>4, <3>1
    <2>2. CASE j # x1
      <3>1. g[j] = p[j] /\ p[j] # j /\ j # y1 /\ p[j] \in Sets!Elements
        BY <1>1, <1>6, <1>12, <2>2
      <3>2. C[j] = D[j] /\ D[j] \subseteq D[p[j]] /\ D[j] # D[p[j]]
        BY <1>1, <1>8, <3>1
      <3>3. CASE p[j] = y1
        <4>1. C[g[j]] = b \cup c /\ D[p[j]] = c
          BY <1>8, <1>10, <3>1, <3>3
        <4>2. QED  BY <3>2, <4>1
      <3>4. CASE p[j] # y1
        BY <1>8, <3>1, <3>2, <3>4
      <3>5. QED  BY <3>3, <3>4
    <2>3. QED  BY <2>1, <2>2
  <1>13. ASSUME NEW j \in Sets!Elements, g[j] = j
         PROVE  p[j] = j /\ j # x1 /\ C[j] = Of(cl, j) /\ (j \in b \cup c => j = y1)
    <2>1. p[j] = j /\ j # x1
      BY <1>6, <1>13
    <2>2. j \in b \cup c => j = y1
      <3>1. j \in b => Of(bl, j) = Of(bl, x1)
        BY <1>2, <1>3
      <3>2. j \in c => Of(bl, j) = Of(bl, y1)
        BY <1>2, <1>3
      <3>3. QED  BY <1>1, <2>1, <3>1, <3>2
    <2>3. C[j] = Of(cl, j)
      BY <1>1, <1>3, <1>5, <1>8, <2>1, <2>2
    <2>4. QED  BY <2>1, <2>2, <2>3
  <1>14. ASSUME NEW j \in Sets!Elements, NEW k \in Sets!Elements, g[j] = j, g[k] = k, Of(cl, j) = Of(cl, k)
         PROVE  j = k
    <2>1. /\ p[j] = j /\ (j \in b \cup c => j = y1)
          /\ p[k] = k /\ (k \in b \cup c => k = y1)
      BY <1>13, <1>14
    <2>2. Of(cl, j) = (IF j \in b \cup c THEN b \cup c ELSE Of(bl, j)) /\ Of(cl, k) = (IF k \in b \cup c THEN b \cup c ELSE Of(bl, k))
      BY <1>5
    <2>3. j \in Of(bl, j) /\ k \in Of(bl, k)
      BY <1>3
    <2>4. CASE j \in b \cup c /\ k \in b \cup c
      BY <2>1, <2>4
    <2>5. CASE j \notin b \cup c /\ k \notin b \cup c
      BY <1>1, <1>14, <2>1, <2>2, <2>5
    <2>6. CASE j \in b \cup c /\ k \notin b \cup c
      BY <1>14, <2>2, <2>3, <2>6
    <2>7. CASE j \notin b \cup c /\ k \in b \cup c
      BY <1>14, <2>2, <2>3, <2>7
    <2>8. QED  BY <2>4, <2>5, <2>6, <2>7
  <1>15. Forest(g, cl, C)
    <2>1. \A j \in Sets!Elements : g[j] = j => C[j] = Of(cl, j)
      BY <1>13
    <2>2. QED  BY <1>5, <1>7, <1>9, <1>11, <1>12, <1>14, <2>1 DEF Forest
  <1>16. QED  BY <1>15

(***************************************************************************)
(* How many blocks, how many elements, powers of two.                      *)
(***************************************************************************)

\* Sets of which one is mapped onto the other, each element from one, have one size.
LEMMA SameSize ==
    ASSUME NEW S, IsFiniteSet(S), NEW T, NEW f \in [S -> T],
           \A a, b \in S : f[a] = f[b] => a = b,
           \A t \in T : \E a \in S : f[a] = t
    PROVE  IsFiniteSet(T) /\ Cardinality(T) = Cardinality(S)
  <1>1. f \in Bijection(S, T)
    BY DEF Bijection, Injection, Surjection, IsInjective
  <1>2. ExistsBijection(S, T)
    BY <1>1 DEF ExistsBijection
  <1>3. QED  BY <1>2, FS_Bijection

Power(n) == 2^n

LEMMA PowerIs ==
    ASSUME NEW n \in Nat
    PROVE  Power(0) = 1 /\ Power(n) \in Nat /\ Power(n + 1) = Power(n) + Power(n)
  <1>1. Power(0) = 1
    BY DEF Power
  <1>2. PICK S, T, A, B : /\ S = 1..n /\ T = 1..n + 1 /\ A = SUBSET S
                          /\ B = {a \cup {n + 1} : a \in SUBSET S}
    OBVIOUS
  <1>3. IsFiniteSet(S) /\ Cardinality(S) = n /\ IsFiniteSet(T) /\ Cardinality(T) = n + 1
    <2>1. IsFiniteSet(1..n) /\ Cardinality(1..n) = IF 1 > n THEN 0 ELSE n - 1 + 1
      BY FS_Interval
    <2>2. IsFiniteSet(1..n + 1) /\ Cardinality(1..n + 1) = IF 1 > n + 1 THEN 0 ELSE (n + 1) - 1 + 1
      BY FS_Interval
    <2>3. QED  BY <1>2, <2>1, <2>2
  <1>4. IsFiniteSet(A) /\ Cardinality(A) = Power(n)
    BY <1>2, <1>3, FS_SUBSET DEF Power
  <1>5. IsFiniteSet(SUBSET T) /\ Cardinality(SUBSET T) = Power(n + 1)
    BY <1>3, FS_SUBSET DEF Power
  <1>6. n + 1 \notin S /\ (\A m : m \in T <=> m \in S \/ m = n + 1)
    BY <1>2
  <1>7. IsFiniteSet(B) /\ Cardinality(B) = Cardinality(A)
    <2>1. PICK f : f = [a \in A |-> a \cup {n + 1}]
      OBVIOUS
    <2>2. f \in [A -> B]
      BY <1>2, <2>1
    <2>3. ASSUME NEW a \in A, NEW b \in A, f[a] = f[b]
          PROVE  a = b
      <3>1. a \cup {n + 1} = b \cup {n + 1} /\ n + 1 \notin a /\ n + 1 \notin b
        BY <1>2, <1>6, <2>1, <2>3
      <3>2. \A m : m \in a <=> m \in b
        BY <3>1
      <3>3. QED  BY <3>2
    <2>4. \A t \in B : \E a \in A : f[a] = t
      BY <1>2, <2>1
    <2>5. QED  BY <1>4, <2>2, <2>3, <2>4, SameSize
  <1>8. A \cap B = {}
    BY <1>2, <1>6
  <1>9. SUBSET T = A \cup B
    <2>1. ASSUME NEW a \in SUBSET T
          PROVE  a \in A \cup B
      <3>1. CASE n + 1 \in a
        <4>1. a \ {n + 1} \in SUBSET S
          BY <1>6
        <4>2. a = (a \ {n + 1}) \cup {n + 1}
          BY <3>1
        <4>3. QED  BY <1>2, <4>1, <4>2
      <3>2. CASE n + 1 \notin a
        BY <1>2, <1>6, <3>2
      <3>3. QED  BY <3>1, <3>2
    <2>2. A \subseteq SUBSET T
      BY <1>2, <1>6
    <2>3. B \subseteq SUBSET T
      BY <1>2, <1>6
    <2>4. QED  BY <2>1, <2>2, <2>3
  <1>10. Cardinality(A \cup B) = Cardinality(A) + Cardinality(B) - Cardinality(A \cap B)
    BY <1>4, <1>7, FS_Union
  <1>11. Cardinality(A \cap B) = 0
    BY <1>8, FS_EmptySet
  <1>12. Power(n) \in Nat
    BY <1>4, FS_CardinalityType
  <1>13. Cardinality(A \cup B) = Power(n + 1)
    BY <1>5, <1>9
  <1>14. Power(n + 1) = Power(n) + Power(n) - 0
    BY <1>4, <1>7, <1>10, <1>11, <1>13
  <1>15. QED  BY <1>1, <1>12, <1>14

LEMMA BlocksAreFinite ==
    ASSUME NEW bl, Partitions(bl)
    PROVE  /\ IsFiniteSet(bl) /\ Cardinality(bl) \in Nat
           /\ \A b \in bl : IsFiniteSet(b) /\ Cardinality(b) \in Nat
  <1>1. IsFiniteSet(Sets!Elements)
    BY ElementsAre
  <1>2. IsFiniteSet(SUBSET Sets!Elements)
    BY <1>1, FS_SUBSET
  <1>3. bl \in SUBSET SUBSET Sets!Elements
    BY DEF Partitions
  <1>4. IsFiniteSet(bl)
    BY <1>2, <1>3, FS_Subset
  <1>5. ASSUME NEW b \in bl
        PROVE  IsFiniteSet(b) /\ Cardinality(b) \in Nat
    <2>1. b \in SUBSET Sets!Elements
      BY <1>3
    <2>2. IsFiniteSet(b)
      BY <1>1, <2>1, FS_Subset
    <2>3. QED  BY <2>2, FS_CardinalityType
  <1>6. QED  BY <1>4, <1>5, FS_CardinalityType

\* Two blocks that become one are one block less, of both their sizes.
LEMMA JoinedCounts ==
    ASSUME NEW bl, Partitions(bl), NEW b \in bl, NEW c \in bl, b # c
    PROVE  /\ Cardinality(JoinedTo(bl, b, c)) = Cardinality(bl) - 1
           /\ Cardinality(b \cup c) = Cardinality(b) + Cardinality(c)
  <1>1. /\ bl \subseteq SUBSET Sets!Elements /\ {} \notin bl
        /\ \A d, e \in bl : \A i \in Sets!Elements : i \in d /\ i \in e => d = e
    BY DEF Partitions
  <1>2. /\ IsFiniteSet(bl) /\ Cardinality(bl) \in Nat
        /\ IsFiniteSet(b) /\ IsFiniteSet(c) /\ Cardinality(b) \in Nat /\ Cardinality(c) \in Nat
    BY BlocksAreFinite
  <1>3. PICK A, B, d : A = bl \ {b} /\ B = A \ {c} /\ d = b \cup c
    OBVIOUS
  <1>4. IsFiniteSet(A) /\ Cardinality(A) = Cardinality(bl) - 1
    BY <1>2, <1>3, FS_RemoveElement
  <1>5. c \in A
    BY <1>3
  <1>6. IsFiniteSet(B) /\ Cardinality(B) = Cardinality(A) - 1
    BY <1>3, <1>4, <1>5, FS_RemoveElement
  <1>7. d \notin B
    <2>1. ASSUME d \in B
          PROVE  FALSE
      <3>1. d \in bl /\ d # b
        BY <1>3, <2>1
      <3>2. PICK i : i \in b
        BY <1>1
      <3>3. i \in Sets!Elements /\ i \in d
        BY <1>1, <1>3, <3>2
      <3>4. QED  BY <1>1, <3>1, <3>2, <3>3
    <2>2. QED  BY <2>1
  <1>8. Cardinality(B \cup {d}) = Cardinality(B) + 1
    BY <1>6, <1>7, FS_AddElement
  <1>9. JoinedTo(bl, b, c) = B \cup {d}
    BY <1>3 DEF JoinedTo
  <1>10. Cardinality(JoinedTo(bl, b, c)) = Cardinality(bl) - 1
    BY <1>2, <1>4, <1>6, <1>8, <1>9
  <1>11. b \cap c = {}
    BY <1>1
  <1>12. Cardinality(b \cup c) = Cardinality(b) + Cardinality(c) - Cardinality(b \cap c)
    BY <1>2, FS_Union
  <1>13. Cardinality(b \cap c) = 0
    BY <1>11, FS_EmptySet
  <1>14. QED  BY <1>2, <1>10, <1>12, <1>13

\* Union by rank: a parent has the greater rank, and a root of rank r has 2^(r - 1)
\* elements in its block at least.
RankedForest(p, bl, rk) ==
    /\ rk \in [Sets!Elements -> Nat \ {0}] /\ Ranked(p, rk)
    /\ \A i \in Sets!Elements : p[i] = i => Cardinality(Of(bl, i)) >= Power(rk[i] - 1)

LEMMA CompressedIsRankedForest ==
    ASSUME NEW p, NEW bl, NEW D, Forest(p, bl, D), NEW i \in Sets!Elements, NEW g, g = Sets!Compressed(p, i),
           NEW rk, RankedForest(p, bl, rk)
    PROVE  RankedForest(g, bl, rk)
  <1>1. /\ rk \in [Sets!Elements -> Nat \ {0}] /\ Ranked(p, rk)
        /\ \A j \in Sets!Elements : p[j] = j => Cardinality(Of(bl, j)) >= Power(rk[j] - 1)
    BY DEF RankedForest
  <1>2. rk \in [Sets!Elements -> Nat]
    BY <1>1
  <1>3. Ranked(g, rk)
    BY <1>1, <1>2, CompressedIsRanked
  <1>4. CompressedTo(p, bl, D, i, g)
    BY CompressedIs
  <1>5. \A j \in Sets!Elements : p[j] = j <=> g[j] = j
    BY <1>4 DEF CompressedTo
  <1>6. QED  BY <1>1, <1>3, <1>5 DEF RankedForest

\* The rank of y after x, of no greater rank, went under it.
Lifted(rk, x1, y1) == IF rk[x1] = rk[y1] THEN [rk EXCEPT ![y1] = @ + 1] ELSE rk

\* The root x, of no greater rank than the root y, goes under it.
LEMMA LinkIsRanked ==
    ASSUME NEW p, NEW bl, NEW D, Forest(p, bl, D), NEW rk, RankedForest(p, bl, rk),
           NEW x1 \in Sets!Elements, NEW y1 \in Sets!Elements,
           p[x1] = x1, p[y1] = y1, x1 # y1, rk[x1] <= rk[y1],
           NEW g, g = [p EXCEPT ![x1] = y1], NEW cl, cl = JoinedTo(bl, Of(bl, x1), Of(bl, y1)),
           NEW rl, rl = Lifted(rk, x1, y1)
    PROVE  RankedForest(g, cl, rl)
  <1>1. /\ p \in [Sets!Elements -> Sets!Elements] /\ Partitions(bl)
        /\ \A j, k \in Sets!Elements : p[j] = j /\ p[k] = k /\ Of(bl, j) = Of(bl, k) => j = k
    BY DEF Forest
  <1>2. /\ rk \in [Sets!Elements -> Nat \ {0}]
        /\ \A j \in Sets!Elements : p[j] # j => rk[j] < rk[p[j]]
        /\ \A j \in Sets!Elements : p[j] = j => Cardinality(Of(bl, j)) >= Power(rk[j] - 1)
    BY DEF RankedForest, Ranked
  <1>3. PICK b, c : b = Of(bl, x1) /\ c = Of(bl, y1)
    OBVIOUS
  <1>4. /\ b \in bl /\ c \in bl /\ x1 \in b /\ y1 \in c
        /\ \A j \in b : Of(bl, j) = b
        /\ \A j \in c : Of(bl, j) = c
    BY <1>1, <1>3, OfIs
  <1>5. b # c
    BY <1>1, <1>3
  <1>6. cl = JoinedTo(bl, b, c)
    BY <1>3
  <1>7. JoinsThem(bl, b, c, cl)
    BY <1>1, <1>4, <1>6, JoinedIs
  <1>8. \A j \in Sets!Elements : Of(cl, j) = IF j \in b \cup c THEN b \cup c ELSE Of(bl, j)
    BY <1>7 DEF JoinsThem
  <1>9. Cardinality(b \cup c) = Cardinality(b) + Cardinality(c) /\ Cardinality(b) \in Nat /\ Cardinality(c) \in Nat
    BY <1>1, <1>4, <1>5, JoinedCounts, BlocksAreFinite
  <1>10. \A j \in Sets!Elements : g[j] = IF j = x1 THEN y1 ELSE p[j]
    BY <1>1
  <1>11. \A j \in Sets!Elements : rl[j] = IF j = y1 /\ rk[x1] = rk[y1] THEN rk[y1] + 1 ELSE rk[j]
    BY <1>2 DEF Lifted
  <1>12. rl \in [Sets!Elements -> Nat \ {0}]
    <2>1. CASE rk[x1] = rk[y1]
      <3>1. rl = [rk EXCEPT ![y1] = rk[y1] + 1] /\ rk[y1] + 1 \in Nat \ {0}
        BY <1>2, <2>1 DEF Lifted
      <3>2. QED  BY <1>2, <3>1
    <2>2. CASE rk[x1] # rk[y1]
      BY <1>2, <2>2 DEF Lifted
    <2>3. QED  BY <2>1, <2>2
  <1>13. ASSUME NEW j \in Sets!Elements, g[j] # j
         PROVE  rl[j] < rl[g[j]]
    <2>1. CASE j = x1
      <3>1. g[j] = y1 /\ rl[j] = rk[x1]
        BY <1>10, <1>11, <2>1
      <3>2. rk[x1] \in Nat /\ rk[y1] \in Nat
        BY <1>2
      <3>3. QED  BY <1>11, <3>1, <3>2
    <2>2. CASE j # x1
      <3>1. g[j] = p[j] /\ p[j] # j /\ j # y1 /\ p[j] \in Sets!Elements
        BY <1>1, <1>10, <1>13, <2>2
      <3>2. rl[j] = rk[j] /\ rk[j] < rk[p[j]] /\ rk[p[j]] \in Nat /\ rk[j] \in Nat
        BY <1>2, <1>11, <3>1
      <3>3. rl[p[j]] \in Nat /\ rl[p[j]] >= rk[p[j]]
        BY <1>11, <3>1, <3>2
      <3>4. QED  BY <3>1, <3>2, <3>3
    <2>3. QED  BY <2>1, <2>2
  <1>14. ASSUME NEW j \in Sets!Elements, g[j] = j
         PROVE  Cardinality(Of(cl, j)) >= Power(rl[j] - 1)
    <2>1. p[j] = j /\ j # x1
      BY <1>10, <1>14
    <2>2. CASE j = y1
      <3>1. PICK m, n : m = rk[x1] - 1 /\ n = rk[y1] - 1
        OBVIOUS
      <3>2. m \in Nat /\ n \in Nat /\ m <= n
        <4>1. rk[x1] \in Nat \ {0} /\ rk[y1] \in Nat \ {0}
          BY <1>2
        <4>2. QED  BY <3>1, <4>1
      <3>3. Cardinality(b) >= Power(m) /\ Cardinality(c) >= Power(n)
        BY <1>2, <1>3, <3>1
      <3>4. Of(cl, j) = b \cup c
        BY <1>4, <1>8, <2>2
      <3>5. Power(m) \in Nat /\ Power(n) \in Nat /\ Power(n + 1) = Power(n) + Power(n)
        BY <3>2, PowerIs
      <3>6. PICK u, v : u = Cardinality(b) /\ v = Cardinality(c)
        OBVIOUS
      <3>7. Cardinality(Of(cl, j)) = u + v /\ u \in Nat /\ v \in Nat /\ u >= Power(m) /\ v >= Power(n)
        BY <1>9, <3>3, <3>4, <3>6
      <3>8. CASE rk[x1] = rk[y1]
        <4>1. rl[j] - 1 = n + 1 /\ m = n
          <5>1. rk[y1] \in Nat
            BY <1>2
          <5>2. rl[j] = rk[y1] + 1
            BY <1>11, <2>2, <3>8
          <5>3. QED  BY <3>1, <3>8, <5>1, <5>2
        <4>2. QED  BY <3>5, <3>7, <4>1
      <3>9. CASE rk[x1] # rk[y1]
        <4>1. rl[j] - 1 = n
          BY <1>11, <2>2, <3>1, <3>9
        <4>2. QED  BY <3>5, <3>7, <4>1
      <3>10. QED  BY <3>8, <3>9
    <2>3. CASE j # y1
      <3>1. j \notin b \cup c
        <4>1. j \notin b
          BY <1>1, <1>3, <1>4, <2>1
        <4>2. j \notin c
          BY <1>1, <1>3, <1>4, <2>1, <2>3
        <4>3. QED  BY <4>1, <4>2
      <3>2. Of(cl, j) = Of(bl, j) /\ rl[j] = rk[j]
        BY <1>8, <1>11, <2>3, <3>1
      <3>3. QED  BY <1>2, <2>1, <3>2
    <2>4. QED  BY <2>2, <2>3
  <1>15. QED  BY <1>12, <1>13, <1>14 DEF RankedForest, Ranked

(***************************************************************************)
(* The invariant.                                                          *)
(***************************************************************************)

SetsAreSound ==
    /\ \E D : Forest(parent, blocks, D)
    /\ uversion = "counted" => cnt = Cardinality(blocks)
    /\ uversion = "ranked" => RankedForest(parent, blocks, rank)

LEMMA SetsInitIsSound ==
    ASSUME Sets!Init
    PROVE  SetsAreSound
  <1>1. /\ parent = [i \in Sets!Elements |-> i] /\ rank = [i \in Sets!Elements |-> 1]
        /\ cnt = N /\ blocks = {{i} : i \in Sets!Elements}
    BY DEF Sets!Init
  <1>2. PICK bl, f : bl = blocks /\ f = [i \in Sets!Elements |-> {i}]
    OBVIOUS
  <1>3. Partitions(bl)
    <2>1. \A b : b \in bl <=> \E i \in Sets!Elements : b = {i}
      BY <1>1, <1>2
    <2>2. bl \subseteq SUBSET Sets!Elements /\ {} \notin bl
      BY <2>1
    <2>3. \A i \in Sets!Elements : {i} \in bl /\ i \in {i}
      BY <2>1
    <2>4. ASSUME NEW b \in bl, NEW c \in bl, NEW i \in Sets!Elements, i \in b, i \in c
          PROVE  b = c
      <3>1. b = {i}
        BY <2>1, <2>4
      <3>2. c = {i}
        BY <2>1, <2>4
      <3>3. QED  BY <3>1, <3>2
    <2>5. QED  BY <2>2, <2>3, <2>4 DEF Partitions
  <1>4. \A i \in Sets!Elements : Of(bl, i) = {i}
    <2>1. ASSUME NEW i \in Sets!Elements
          PROVE  Of(bl, i) = {i}
      <3>1. {i} \in bl /\ i \in {i}
        BY <1>1, <1>2
      <3>2. QED  BY <1>3, <3>1, OfIs
    <2>2. QED  BY <2>1
  <1>5. \A i \in Sets!Elements : parent[i] = i /\ f[i] = {i}
    BY <1>1, <1>2
  <1>6. parent \in [Sets!Elements -> Sets!Elements] /\ f \in [Sets!Elements -> SUBSET Sets!Elements]
    BY <1>1, <1>2
  <1>7. Forest(parent, bl, f)
    BY <1>3, <1>4, <1>5, <1>6 DEF Forest
  <1>8. Cardinality(bl) = N
    <2>1. IsFiniteSet(Sets!Elements) /\ Cardinality(Sets!Elements) = N
      BY ElementsAre
    <2>2. f \in [Sets!Elements -> bl]
      BY <1>1, <1>2
    <2>3. \A i, j \in Sets!Elements : f[i] = f[j] => i = j
      BY <1>5
    <2>4. \A t \in bl : \E i \in Sets!Elements : f[i] = t
      BY <1>1, <1>2
    <2>5. QED  BY <2>1, <2>2, <2>3, <2>4, SameSize
  <1>9. RankedForest(parent, bl, rank)
    <2>1. rank \in [Sets!Elements -> Nat \ {0}] /\ (\A i \in Sets!Elements : rank[i] - 1 = 0)
      BY <1>1
    <2>2. Power(0) = 1
      BY PowerIs
    <2>3. \A i \in Sets!Elements : Cardinality(Of(bl, i)) = 1
      BY <1>4, FS_Singleton
    <2>4. QED  BY <1>5, <2>1, <2>2, <2>3 DEF RankedForest, Ranked
  <1>10. QED  BY <1>1, <1>2, <1>7, <1>8, <1>9 DEF SetsAreSound

\* Both calls of Find, one after the other.
LEMMA TwiceCompressedIs ==
    ASSUME NEW p, NEW bl, NEW D, Forest(p, bl, D), NEW i \in Sets!Elements, NEW j \in Sets!Elements,
           NEW t, t = Sets!Compressed(Sets!Compressed(p, i), j)
    PROVE  /\ Forest(t, bl, D) /\ RootOf(t, bl, i, t[i]) /\ RootOf(t, bl, j, t[j])
           /\ \A rk : RankedForest(p, bl, rk) => RankedForest(t, bl, rk)
  <1>1. PICK g : g = Sets!Compressed(p, i)
    OBVIOUS
  <1>2. CompressedTo(p, bl, D, i, g)
    BY <1>1, CompressedIs
  <1>3. Forest(g, bl, D) /\ RootOf(g, bl, i, g[i])
    BY <1>2 DEF CompressedTo
  <1>4. t = Sets!Compressed(g, j)
    BY <1>1
  <1>5. CompressedTo(g, bl, D, j, t)
    BY <1>3, <1>4, CompressedIs
  <1>6. g[g[i]] = g[i]
    BY <1>3 DEF RootOf
  <1>7. Forest(t, bl, D) /\ RootOf(t, bl, i, t[i]) /\ RootOf(t, bl, j, t[j])
    BY <1>5, <1>6 DEF CompressedTo
  <1>8. ASSUME NEW rk, RankedForest(p, bl, rk)
        PROVE  RankedForest(t, bl, rk)
    <2>1. RankedForest(g, bl, rk)
      BY <1>1, <1>8, CompressedIsRankedForest
    <2>2. QED  BY <1>3, <1>4, <2>1, CompressedIsRankedForest
  <1>9. QED  BY <1>7, <1>8

\* What blocks becomes, whichever of the roots is linked.
LEMMA BlocksJoin ==
    ASSUME NEW i \in Sets!Elements, NEW j \in Sets!Elements, Partitions(blocks)
    PROVE  /\ Sets!Joined(i, j) = JoinedTo(blocks, Of(blocks, i), Of(blocks, j))
           /\ Sets!Joined(i, j) = JoinedTo(blocks, Of(blocks, j), Of(blocks, i))
           /\ Of(blocks, i) = Of(blocks, j) => Sets!Joined(i, j) = blocks
  <1>1. PICK b, c : b = Of(blocks, i) /\ c = Of(blocks, j)
    OBVIOUS
  <1>2. Sets!Block(i) = b /\ Sets!Block(j) = c
    BY <1>1 DEF Sets!Block, Of
  <1>3. Sets!Joined(i, j) = (blocks \ {b, c}) \cup {b \cup c}
    BY <1>2 DEF Sets!Joined
  <1>4. {b, c} = {c, b} /\ b \cup c = c \cup b
    OBVIOUS
  <1>5. b \in blocks
    BY <1>1, OfIs
  <1>6. b = c => (blocks \ {b, c}) \cup {b \cup c} = blocks
    <2>1. ASSUME b = c
          PROVE  (blocks \ {b, c}) \cup {b \cup c} = blocks
      <3>1. b \cup c = b /\ {b, c} = {b}
        BY <2>1
      <3>2. (blocks \ {b}) \cup {b} = blocks
        BY <1>5
      <3>3. QED  BY <3>1, <3>2
    <2>2. QED  BY <2>1
  <1>7. QED  BY <1>1, <1>3, <1>4, <1>6 DEF JoinedTo

LEMMA MergeIsSound ==
    ASSUME SetsAreSound, NEW i \in Sets!Elements, NEW j \in Sets!Elements, Sets!merge(i, j)
    PROVE  SetsAreSound'
  <1>1. PICK D : Forest(parent, blocks, D)
    BY DEF SetsAreSound
  <1>2. PICK x1, y1, g, cl, p, bl :
           /\ x1 = Sets!Up(parent, i) /\ y1 = Sets!Up(parent, j)
           /\ g = [parent EXCEPT ![x1] = y1] /\ cl = Sets!Joined(i, j)
           /\ p = parent /\ bl = blocks
    OBVIOUS
  <1>3. /\ uversion = "counted" /\ x1 # y1 /\ parent' = g /\ blocks' = cl
        /\ cnt' = cnt - 1 /\ uversion' = uversion
    BY <1>2 DEF Sets!merge
  <1>4. RootOf(p, bl, i, x1) /\ RootOf(p, bl, j, y1)
    BY <1>1, <1>2, UpIsRoot
  <1>5. /\ x1 \in Sets!Elements /\ p[x1] = x1 /\ Of(bl, x1) = Of(bl, i)
        /\ y1 \in Sets!Elements /\ p[y1] = y1 /\ Of(bl, y1) = Of(bl, j)
    BY <1>4 DEF RootOf
  <1>6. Forest(p, bl, D) /\ Partitions(bl)
    BY <1>1, <1>2 DEF Forest
  <1>7. cl = JoinedTo(bl, Of(bl, x1), Of(bl, y1))
    BY <1>2, <1>5, <1>6, BlocksJoin
  <1>8. \E C : Forest(g, cl, C)
    <2>1. g = [p EXCEPT ![x1] = y1]
      BY <1>2
    <2>2. QED  BY <1>3, <1>5, <1>6, <1>7, <2>1, LinkIsForest
  <1>9. Cardinality(cl) = Cardinality(bl) - 1
    <2>1. Of(bl, x1) # Of(bl, y1)
      BY <1>3, <1>5, <1>6 DEF Forest
    <2>2. Of(bl, x1) \in bl /\ Of(bl, y1) \in bl
      BY <1>5, <1>6, OfIs
    <2>3. QED  BY <1>6, <1>7, <2>1, <2>2, JoinedCounts
  <1>10. cnt = Cardinality(bl)
    BY <1>2, <1>3 DEF SetsAreSound
  <1>11. cnt' = Cardinality(blocks')
    BY <1>3, <1>9, <1>10
  <1>12. QED  BY <1>3, <1>8, <1>11 DEF SetsAreSound

LEMMA UniteIsSound ==
    ASSUME SetsAreSound, NEW i \in Sets!Elements, NEW j \in Sets!Elements, Sets!Unite(i, j)
    PROVE  SetsAreSound'
  <1>1. PICK D : Forest(parent, blocks, D)
    BY DEF SetsAreSound
  <1>2. PICK t, p, bl, rk, cl, g, rl :
           /\ t = Sets!Compressed(Sets!Compressed(parent, i), j)
           /\ p = parent /\ bl = blocks /\ rk = rank /\ cl = Sets!Joined(i, j)
           /\ g = parent' /\ rl = rank'
    OBVIOUS
  <1>3. PICK px, py : px = t[i] /\ py = t[j]
    OBVIOUS
  <1>4. /\ uversion = "ranked" /\ blocks' = cl /\ uversion' = uversion
        /\ g = (IF px = py THEN t ELSE Sets!Linked(t, px, py))
        /\ rl = (IF px # py /\ rk[px] = rk[py] THEN [rk EXCEPT ![px] = @ + 1] ELSE rk)
    BY <1>2, <1>3 DEF Sets!Unite
  <1>5. RankedForest(p, bl, rk)
    BY <1>2, <1>4 DEF SetsAreSound
  <1>6. /\ Forest(t, bl, D) /\ RootOf(t, bl, i, px) /\ RootOf(t, bl, j, py)
        /\ RankedForest(t, bl, rk)
    BY <1>1, <1>2, <1>3, <1>5, TwiceCompressedIs
  <1>7. /\ px \in Sets!Elements /\ t[px] = px /\ Of(bl, px) = Of(bl, i)
        /\ py \in Sets!Elements /\ t[py] = py /\ Of(bl, py) = Of(bl, j)
    BY <1>6 DEF RootOf
  <1>8. Partitions(bl)
    BY <1>6 DEF Forest
  <1>9. /\ cl = JoinedTo(bl, Of(bl, px), Of(bl, py)) /\ cl = JoinedTo(bl, Of(bl, py), Of(bl, px))
        /\ px = py => cl = bl
    BY <1>2, <1>7, <1>8, BlocksJoin
  <1>10. (\E C : Forest(g, cl, C)) /\ RankedForest(g, cl, rl)
    <2>1. CASE px = py
      <3>1. g = t /\ rl = rk /\ cl = bl
        BY <1>4, <1>9, <2>1
      <3>2. QED  BY <1>6, <3>1
    <2>2. CASE px # py /\ rk[px] < rk[py]
      <3>1. rk[px] \in Nat /\ rk[py] \in Nat
        BY <1>5, <1>7 DEF RankedForest
      <3>2. g = [t EXCEPT ![px] = py] /\ rl = rk /\ rk[px] # rk[py] /\ rk[px] <= rk[py]
        BY <1>2, <1>4, <2>2, <3>1 DEF Sets!Linked
      <3>3. rl = Lifted(rk, px, py)
        BY <3>2 DEF Lifted
      <3>4. \E C : Forest(g, cl, C)
        BY <1>6, <1>7, <1>9, <2>2, <3>2, LinkIsForest
      <3>5. RankedForest(g, cl, rl)
        BY <1>6, <1>7, <1>9, <2>2, <3>2, <3>3, LinkIsRanked
      <3>6. QED  BY <3>4, <3>5
    <2>3. CASE px # py /\ ~ (rk[px] < rk[py])
      <3>1. rk[px] \in Nat /\ rk[py] \in Nat
        BY <1>5, <1>7 DEF RankedForest
      <3>2. g = [t EXCEPT ![py] = px] /\ rk[py] <= rk[px] /\ py # px
        BY <1>2, <1>4, <2>3, <3>1 DEF Sets!Linked
      <3>3. rl = Lifted(rk, py, px)
        BY <1>4, <2>3 DEF Lifted
      <3>4. \E C : Forest(g, cl, C)
        BY <1>6, <1>7, <1>9, <3>2, LinkIsForest
      <3>5. RankedForest(g, cl, rl)
        BY <1>6, <1>7, <1>9, <3>2, <3>3, LinkIsRanked
      <3>6. QED  BY <3>4, <3>5
    <2>4. QED  BY <2>1, <2>2, <2>3
  <1>11. QED  BY <1>2, <1>4, <1>10 DEF SetsAreSound

LEMMA ConnectedIsSound ==
    ASSUME SetsAreSound, NEW i \in Sets!Elements, NEW j \in Sets!Elements, Sets!Connected(i, j)
    PROVE  SetsAreSound'
  <1>1. PICK D : Forest(parent, blocks, D)
    BY DEF SetsAreSound
  <1>2. PICK t : t = Sets!Compressed(Sets!Compressed(parent, i), j)
    OBVIOUS
  <1>3. uversion = "ranked" /\ parent' = t /\ rank' = rank /\ blocks' = blocks /\ uversion' = uversion
    BY <1>2 DEF Sets!Connected
  <1>4. RankedForest(parent, blocks, rank)
    BY <1>3 DEF SetsAreSound
  <1>5. Forest(t, blocks, D) /\ RankedForest(t, blocks, rank)
    BY <1>1, <1>2, <1>4, TwiceCompressedIs
  <1>6. QED  BY <1>3, <1>5 DEF SetsAreSound

LEMMA SetsStepIsSound ==
    ASSUME SetsAreSound, Sets!Next \/ UNCHANGED setVars
    PROVE  SetsAreSound'
  <1>1. CASE Sets!Next
    <2>1. PICK i \in Sets!Elements, j \in Sets!Elements :
             Sets!merge(i, j) \/ Sets!Unite(i, j) \/ Sets!Connected(i, j)
      BY <1>1 DEF Sets!Next
    <2>2. QED  BY <2>1, MergeIsSound, UniteIsSound, ConnectedIsSound
  <1>2. CASE UNCHANGED setVars
    BY <1>2 DEF setVars, SetsAreSound
  <1>3. QED  BY <1>1, <1>2

LEMMA SameCardinality == \A S : Sets!Cardinality(S) = Cardinality(S)
  BY DEF Sets!Cardinality, Cardinality

LEMMA SetsAreRight ==
    ASSUME SetsAreSound
    PROVE  Sets!ConnectedIsRight /\ Sets!CountIsRight /\ Sets!RanksBoundPaths
  <1>1. PICK D : Forest(parent, blocks, D)
    BY DEF SetsAreSound
  <1>2. ASSUME NEW i \in Sets!Elements, NEW j \in Sets!Elements
        PROVE  Sets!Up(parent, i) = Sets!Up(parent, j) <=> Sets!Block(i) = Sets!Block(j)
    <2>1. PICK x1, y1 : x1 = Sets!Up(parent, i) /\ y1 = Sets!Up(parent, j)
      OBVIOUS
    <2>2. RootOf(parent, blocks, i, x1) /\ RootOf(parent, blocks, j, y1)
      BY <1>1, <2>1, UpIsRoot
    <2>3. x1 = y1 <=> Of(blocks, i) = Of(blocks, j)
      BY <1>1, <2>2 DEF RootOf, Forest
    <2>4. Sets!Block(i) = Of(blocks, i) /\ Sets!Block(j) = Of(blocks, j)
      BY DEF Sets!Block, Of
    <2>5. QED  BY <2>1, <2>3, <2>4
  <1>3. Sets!ConnectedIsRight
    BY <1>2 DEF Sets!ConnectedIsRight
  <1>4. Sets!CountIsRight
    <2>1. uversion = "counted" => cnt = Cardinality(blocks)
      BY DEF SetsAreSound
    <2>2. QED  BY <2>1, SameCardinality DEF Sets!CountIsRight
  <1>5. ASSUME uversion = "ranked", NEW i \in Sets!Elements
        PROVE  /\ parent[i] # i => rank[i] < rank[parent[i]]
               /\ parent[i] = i => Cardinality(Sets!Block(i)) >= 2^(rank[i] - 1)
    <2>1. RankedForest(parent, blocks, rank)
      BY <1>5 DEF SetsAreSound
    <2>2. Sets!Block(i) = Of(blocks, i)
      BY DEF Sets!Block, Of
    <2>3. Power(rank[i] - 1) = 2^(rank[i] - 1)
      BY DEF Power
    <2>4. parent[i] = i => Cardinality(Of(blocks, i)) >= Power(rank[i] - 1)
      BY <2>1 DEF RankedForest
    <2>5. parent[i] # i => rank[i] < rank[parent[i]]
      BY <2>1 DEF RankedForest, Ranked
    <2>6. QED  BY <2>2, <2>3, <2>4, <2>5
  <1>6. Sets!RanksBoundPaths
    <2>1. uversion = "ranked" =>
            /\ \A i \in Sets!Elements : parent[i] # i => rank[i] < rank[parent[i]]
            /\ \A i \in Sets!Elements : parent[i] = i => Cardinality(Sets!Block(i)) >= 2^(rank[i] - 1)
      BY <1>5
    <2>2. QED  BY <2>1, SameCardinality DEF Sets!RanksBoundPaths
  <1>7. QED  BY <1>3, <1>4, <1>6

(***************************************************************************)
(* All of the structures.                                                  *)
(***************************************************************************)

\* What stays true, and that the nodes that can be reached are the nodes in use.
StructuresInv == DraftsAreSane /\ QueueIsSound /\ SetsAreSound

LEMMA StructuresInitially ==
    ASSUME SumInit
    PROVE  StructuresInv /\ KB!Init /\ Queue!KB!Init
  <1>1. DraftInit /\ Queue!Init /\ Sets!Init
    BY DEF SumInit
  <1>2. DraftsAreSane
    BY <1>1, DraftInitIsSane
  <1>3. QueueIsSound /\ Queue!Held = {}
    BY <1>1, QueueInitIsSound
  <1>4. SetsAreSound
    BY <1>1, SetsInitIsSound
  <1>5. KB!Init
    <2>1. Init
      BY <1>1 DEF DraftInit
    <2>2. InTree = used
      BY <1>2, SaneIsRedBlack DEF DraftsAreSane
    <2>3. QED  BY <2>1, <2>2, NoTreeIsEmptyBag
  <1>6. Queue!KB!Init
    BY <1>1, <1>3 DEF Queue!KB!Init, Queue!Init
  <1>7. QED  BY <1>2, <1>3, <1>4, <1>5, <1>6 DEF StructuresInv

\* A step of the run is a step of each structure or leaves it alone.
LEMMA StepsOfParts ==
    ASSUME [SumNext]_allVars
    PROVE  /\ DraftNext \/ UNCHANGED <<vars, draftVars>>
           /\ Queue!Next \/ UNCHANGED queueVars
           /\ Sets!Next \/ UNCHANGED setVars
  <1>1. CASE part = "tree" /\ DraftNext /\ UNCHANGED exceptTree
    BY <1>1 DEF exceptTree
  <1>2. CASE part = "queue" /\ Queue!Next /\ UNCHANGED exceptQueue
    BY <1>2 DEF exceptQueue
  <1>3. CASE part = "sets" /\ Sets!Next /\ UNCHANGED exceptSets
    BY <1>3 DEF exceptSets
  <1>4. CASE part = "pure" /\ Pure!Next /\ UNCHANGED exceptPure
    BY <1>4 DEF exceptPure
  <1>5. CASE UNCHANGED allVars
    BY <1>5 DEF allVars
  <1>6. QED  BY <1>1, <1>2, <1>3, <1>4, <1>5 DEF SumNext

LEMMA StructuresStep ==
    ASSUME StructuresInv, [SumNext]_allVars
    PROVE  StructuresInv'
  <1>1. DraftsAreSane /\ QueueIsSound /\ SetsAreSound
    BY DEF StructuresInv
  <1>2. /\ DraftNext \/ UNCHANGED <<vars, draftVars>>
        /\ Queue!Next \/ UNCHANGED queueVars
        /\ Sets!Next \/ UNCHANGED setVars
    BY StepsOfParts
  <1>3. DraftsAreSane'
    BY <1>1, <1>2, DraftStepIsSane
  <1>4. QueueIsSound'
    BY <1>1, <1>2, QueueStepIsSound
  <1>5. SetsAreSound'
    BY <1>1, <1>2, SetsStepIsSound
  <1>6. QED  BY <1>3, <1>4, <1>5 DEF StructuresInv

LEMMA StructuresConclude == StructuresInv => StructuresAreSound /\ InTree = used
  <1>1. ASSUME StructuresInv
        PROVE  StructuresAreSound /\ InTree = used
    <2>1. Sane(tree, used, pc, x) /\ EndsWhere /\ QueueIsSound /\ SetsAreSound
      BY <1>1 DEF StructuresInv, DraftsAreSane
    <2>2. RedBlack /\ SearchFinds /\ InTree = used
      BY <2>1, SaneIsRedBlack, SaneSearches
    <2>3. Queue!HeapOrder /\ Queue!TopIsGreatest
      BY <2>1, QueueIsInOrder
    <2>4. Sets!ConnectedIsRight /\ Sets!CountIsRight /\ Sets!RanksBoundPaths
      BY <2>1, SetsAreRight
    <2>5. QED  BY <2>1, <2>2, <2>3, <2>4 DEF StructuresAreSound
  <1>2. QED  BY <1>1

LEMMA StructuresAlways == SumSpec => []StructuresInv
  <1>1. SumInit => StructuresInv
    BY StructuresInitially
  <1>2. StructuresInv /\ [SumNext]_allVars => StructuresInv'
    BY StructuresStep
  <1>3. QED  BY <1>1, <1>2, PTL DEF SumSpec

\* Each step is a step of the bags that the tree and the queue promise to be.
LEMMA BagSteps ==
    ASSUME StructuresInv, InTree = used, InTree' = used', [SumNext]_allVars
    PROVE  [KB!Next]_(KB!vars) /\ [Queue!KB!Next]_(Queue!KB!vars)
  <1>1. SearchFinds /\ QueueIsSound
    BY SaneSearches DEF StructuresInv, DraftsAreSane
  <1>2. /\ DraftNext \/ UNCHANGED <<vars, draftVars>>
        /\ Queue!Next \/ UNCHANGED queueVars
    BY StepsOfParts
  <1>3. Next \/ UNCHANGED vars
    BY <1>2, DraftsFollow
  <1>4. KB!Next \/ UNCHANGED <<InTree, pc # "idle">>
    BY <1>1, <1>3, TreeStepIsBagStep
  <1>5. [KB!Next]_(KB!vars)
    BY <1>4 DEF KB!vars
  <1>6. Queue!KB!Next \/ UNCHANGED <<Queue!Held, hpc # "idle">>
    BY <1>1, <1>2, QueueStepIsSound
  <1>7. [Queue!KB!Next]_(Queue!KB!vars)
    BY <1>6 DEF Queue!KB!vars
  <1>8. QED  BY <1>5, <1>7

\* The red-black tree of rb_tree.hpp stays balanced, in order and complete through every
\* turn of its fixups, and search finds what is there; a draft meets its slip only where
\* EndsWhere says.  The heap of priority_queue.hpp stays in order and its top is a
\* greatest element.  Both versions of union_find connect what was merged and nothing
\* else, count() is the number of components, and ranks bound the ways to a root.
THEOREM StructuresStaySound == SumSpec => []StructuresAreSound
  <1>1. SumSpec => []StructuresInv
    BY StructuresAlways
  <1>2. StructuresInv => StructuresAreSound
    BY StructuresConclude
  <1>3. QED  BY <1>1, <1>2, PTL

\* Whatever insertions, removals, rotations and swaps do to the tree and to the heap, a
\* call adds the one copy or takes the one copy it is for, and nothing else changes what
\* they hold.
THEOREM TreeAndQueueAreBags == SumSpec => ImplementsKeyBag /\ Queue!KB!Safe
  <1>1. SumSpec => []StructuresInv
    BY StructuresAlways
  <1>2. StructuresInv => InTree = used
    BY StructuresConclude
  <1>3. StructuresInv /\ InTree = used /\ (InTree = used)' /\ [SumNext]_allVars
            => [KB!Next]_(KB!vars) /\ [Queue!KB!Next]_(Queue!KB!vars)
    BY BagSteps
  <1>4. SumInit => KB!Init /\ Queue!KB!Init
    BY StructuresInitially
  <1>5. QED  BY <1>1, <1>2, <1>3, <1>4, PTL DEF SumSpec, ImplementsKeyBag, KB!Safe, Queue!KB!Safe
================================================================================
