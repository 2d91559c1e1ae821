------------------------------- MODULE UnionFind -------------------------------
(***************************************************************************)
(* algo/union_find.hpp ("counted": links roots as they come and counts the *)
(* components) and algo/union_find_v2.hpp ("ranked": links by rank and     *)
(* compresses the path of every Find, those of a query too).               *)
(***************************************************************************)
EXTENDS Naturals, FiniteSets

CONSTANT N

VARIABLES version, parent, rank, cnt,
          blocks   \* what has been merged: a partition of the elements

vars == <<version, parent, rank, cnt, blocks>>

Elements == 0..(N - 1)

Init == /\ version \in {"counted", "ranked"}
        /\ parent = [i \in Elements |-> i]
        /\ rank = [i \in Elements |-> 1]
        /\ cnt = N
        /\ blocks = {{i} : i \in Elements}

\* find's loop: the element after i steps up.
Up(p, i) == LET walk[j \in 0..N] == IF j = 0 THEN i ELSE p[walk[j - 1]] IN walk[N]

\* The elements find passes, i among them.
Path(p, i) ==
    LET walk[j \in 0..N] == IF j = 0 THEN {i}
                            ELSE walk[j - 1] \cup {p[k] : k \in walk[j - 1]}
    IN walk[N]

\* The recursive Find of v2: all of the path ends up under the root.
Compressed(p, i) == [k \in Elements |-> IF k \in Path(p, i) THEN Up(p, i) ELSE p[k]]

Block(i) == CHOOSE b \in blocks : i \in b

Joined(i, j) == (blocks \ {Block(i), Block(j)}) \cup {Block(i) \cup Block(j)}

-------------------------------------------------------------------------------

merge(p, q) ==
    /\ version = "counted"
    /\ LET x == Up(parent, p)
           y == Up(parent, q)
       IN /\ x # y
          /\ parent' = [parent EXCEPT ![x] = y]
    /\ cnt' = cnt - 1
    /\ blocks' = Joined(p, q)
    /\ UNCHANGED <<version, rank>>

\* The root of smaller rank goes under the other.
Linked(t, px, py) == IF rank[px] < rank[py] THEN [t EXCEPT ![px] = py]
                     ELSE [t EXCEPT ![py] = px]

Unite(p, q) ==
    /\ version = "ranked"
    /\ \E t \in {Compressed(Compressed(parent, p), q)} :
          LET px == t[p]
              py == t[q]
          IN /\ parent' = IF px = py THEN t ELSE Linked(t, px, py)
             /\ rank' = IF px # py /\ rank[px] = rank[py]
                        THEN [rank EXCEPT ![px] = @ + 1] ELSE rank
    /\ blocks' = Joined(p, q)
    /\ UNCHANGED <<version, cnt>>

\* A query changes nothing but the paths it walked.
Connected(p, q) ==
    /\ version = "ranked"
    /\ parent' = Compressed(Compressed(parent, p), q)
    /\ UNCHANGED <<version, rank, cnt, blocks>>

Next == \E p, q \in Elements : merge(p, q) \/ Unite(p, q) \/ Connected(p, q)

-------------------------------------------------------------------------------

\* Two elements have the same root when and only when they were merged, directly or
\* through others, whatever paths were compressed since.
ConnectedIsRight ==
    \A i, j \in Elements : Up(parent, i) = Up(parent, j) <=> Block(i) = Block(j)

\* count() is the number of components.
CountIsRight == version = "counted" => cnt = Cardinality(blocks)

\* What linking by rank is for: no way to a root is longer than its rank, and a root
\* of rank r has 2^(r - 1) elements below it at least, so ways are short.
RanksBoundPaths ==
    version = "ranked" =>
        /\ \A i \in Elements : parent[i] # i => rank[i] < rank[parent[i]]
        /\ \A i \in Elements : parent[i] = i => Cardinality(Block(i)) >= 2^(rank[i] - 1)
===============================================================================
