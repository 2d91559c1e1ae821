---------------------------- MODULE TournamentTree ----------------------------
(***************************************************************************)
(* data_struct/tree: win_tree.cpp keeps in tree[1] the leaf with the least *)
(* value, loser_tree.cpp in tree[0] the one with the greatest and in every *)
(* other node the leaf that lost there.  A constructor or a replacement is *)
(* one action: nothing can come between its turns.                         *)
(***************************************************************************)
EXTENDS Integers, FiniteSets

CONSTANTS MaxLeaves,
          Values,
          Garbage    \* what an out-of-bounds read can yield

VARIABLES kind,   \* "none" before the constructor, "winner", "loser"
          leaves, tree,
          undefined,  \* leaves[-1] was read
          misused     \* a leaf that is not the winner was replaced

TournamentTreeAssumption ==
    MaxLeaves \in Nat /\ Values \subseteq Int /\ Garbage \subseteq Int

vars == <<kind, leaves, tree, undefined, misused>>

Init == /\ kind = "none"
        /\ leaves = <<>> /\ tree = <<>>
        /\ undefined = FALSE /\ misused = FALSE

k(l) == Cardinality(DOMAIN l)

-------------------------------------------------------------------------------

\* The child of node i whose leaf wins there.
Winning(l, t, i) == IF l[t[2 * i]] <= l[t[2 * i + 1]] THEN t[2 * i] ELSE t[2 * i + 1]

\* build: the leaves' numbers at k and above, then the matches from the last node up.
WinnerBuilt(l) ==
    LET n == k(l)
        play[i \in 1..n] ==   \* the tree once the nodes from i on are decided
            IF i = n THEN [j \in 0..(2 * n - 1) |-> IF j >= n THEN j - n ELSE -1]
            ELSE LET t == play[i + 1] IN [t EXCEPT ![i] = Winning(l, t, i)]
        t == play[1]
    IN [t EXCEPT ![0] = t[1]]

\* adjust: the matches on the way from the leaf to node 1 are played again.
WinnerAdjusted(l, t, leaf) ==
    LET n == k(l)
        node[i \in 0..n] == IF i = 0 THEN n + leaf ELSE node[i - 1] \div 2
        play[i \in 0..n] ==
            IF i = 0 THEN t
            ELSE LET u == play[i - 1]
                 IN IF node[i] < 1 THEN u ELSE [u EXCEPT ![node[i]] = Winning(l, u, node[i])]
        u == play[n]
    IN [u EXCEPT ![0] = u[1]]

\* adjust of the loser tree: s goes up and changes places with who is beaten by it or,
\* while the tree is built, with the -1 of a node nobody has come to.  That -1 may be
\* compared further up: before stands for leaves[-1].  The result is the tree and
\* whether that was read.
LoserAdjusted(l, tr, s, before) ==
    LET n == k(l)
        value(i) == IF i = -1 THEN before ELSE l[i]
        up[i \in 0..n] ==   \* <<tree, t, parent, leaves[-1] was read>>
            IF i = 0 THEN <<tr, s, (s + n) \div 2, FALSE>>
            ELSE LET u == up[i - 1]
                     there == u[1][u[3]]
                     swap == there = -1 \/ value(u[2]) < value(there)
                 IN IF u[3] = 0 THEN u
                    ELSE <<IF swap THEN [u[1] EXCEPT ![u[3]] = u[2]] ELSE u[1],
                           IF swap THEN there ELSE u[2],
                           u[3] \div 2,
                           u[4] \/ (there # -1 /\ u[2] = -1)>>
    IN <<[up[n][1] EXCEPT ![0] = up[n][2]], up[n][4]>>

LoserBuilt(l, before) ==
    LET n == k(l)
        build[i \in 0..n] ==   \* after the leaves from i on
            IF i = n THEN <<[j \in 0..(n - 1) |-> -1], FALSE>>
            ELSE LET b == build[i + 1]
                     a == LoserAdjusted(l, b[1], i, before)
                 IN <<a[1], b[2] \/ a[2]>>
    IN build[0]

-------------------------------------------------------------------------------

Inputs == UNION {[0..n -> Values] : n \in 0..(MaxLeaves - 1)}

ConstructWinner(l) ==
    /\ kind = "none"
    /\ kind' = "winner" /\ leaves' = l /\ tree' = WinnerBuilt(l)
    /\ UNCHANGED <<undefined, misused>>

ConstructLoser(l) ==
    /\ kind = "none"
    /\ kind' = "loser" /\ leaves' = l
    /\ \E before \in Garbage : \E b \in {LoserBuilt(l, before)} :
          tree' = b[1] /\ undefined' = b[2]
    /\ UNCHANGED misused

winner == tree[0]

popAndReplaceWinner(leaf, v) ==
    /\ kind = "winner"
    /\ \E l \in {[leaves EXCEPT ![leaf] = v]} :
          leaves' = l /\ tree' = WinnerAdjusted(l, tree, leaf)
    /\ UNCHANGED <<kind, undefined, misused>>

\* After an undefined read the tree is not followed further.
popAndReplaceLoser(leaf, v) ==
    /\ kind = "loser" /\ ~undefined /\ ~misused
    /\ misused' = (leaf # winner)
    /\ \E l \in {[leaves EXCEPT ![leaf] = v]} :
          leaves' = l /\ tree' = LoserAdjusted(l, tree, leaf, v)[1]
    /\ UNCHANGED <<kind, undefined>>

Next == \/ \E l \in Inputs : ConstructWinner(l) \/ ConstructLoser(l)
        \/ \E leaf \in DOMAIN leaves, v \in Values :
              popAndReplaceWinner(leaf, v) \/ popAndReplaceLoser(leaf, v)

-------------------------------------------------------------------------------

\* The winner tree's winner has the least value whatever leaf is replaced; the loser
\* tree's has the greatest while only winners are replaced.
WinnerIsRight ==
    /\ kind = "winner" => \A i \in DOMAIN leaves : leaves[winner] <= leaves[i]
    /\ kind = "loser" /\ ~undefined /\ ~misused =>
           \A i \in DOMAIN leaves : leaves[winner] >= leaves[i]

\* The loser tree is built from -1s that it lets move up and then compares: with four
\* leaves, as main has them, its constructor reads leaves[-1], and with six or more;
\* with up to three it does not, nor with five, where each -1 is met by another.
ReadsBeforeItsLeaves ==
    kind = "loser" => (undefined <=> k(leaves) = 4 \/ k(leaves) >= 6)
===============================================================================
