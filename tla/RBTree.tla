-------------------------------- MODULE RBTree --------------------------------
(***************************************************************************)
(* data_struct/rb_tree.hpp: a red-black tree whose leaves, and the root's  *)
(* parent, are one shared sentinel node nil.  A call of Insert or Remove   *)
(* is one action up to its fixup; then each turn of the fixup's loop is an *)
(* action, and the end of the loop another.                                *)
(*                                                                         *)
(* A node has a key of its own, KeyOf: `new` yields any unused node of     *)
(* that key, `delete` makes it unused.  So the nodes bound the tree's size *)
(* and how often a key can be in it; keys may be equal.  The pairs of      *)
(* functions the code writes once per direction are one operator with the  *)
(* direction as a parameter.  Destroy is called by nobody and left out.    *)
(* After it, the drafts of the same tree.                                  *)
(***************************************************************************)
EXTENDS Integers, FiniteSets

CONSTANTS Nodes,  \* the nodes `new` can yield
          KeyOf,  \* the key of each
          nil,    \* the sentinel
          nullptr

ASSUME RBTreeAssumption ==
    /\ IsFiniteSet(Nodes)
    /\ KeyOf \in [Nodes -> Int]
    /\ nil # nullptr /\ {nil, nullptr} \cap Nodes = {}

RED == "red"
BLACK == "black"
Directions == {"left", "right"}

VARIABLES
    tree,  \* root, and the fields color, left, right, parent of every node
    used,  \* the nodes that are allocated
    pc,    \* "idle", or the fixup that is running: "insert" or "delete"
    x      \* the fixup's node (z in InsertFixup); nullptr when idle

vars == <<tree, used, pc, x>>

Keys == {KeyOf[n] : n \in Nodes}
AllNodes == Nodes \cup {nil}
Pointers == AllNodes \cup {nullptr}

-------------------------------------------------------------------------------

Other(d) == IF d = "left" THEN "right" ELSE "left"

\* Which child of its parent n is.  (The code asks for the left one first.)
Side(t, n) == IF n = t.left[t.parent[n]] THEN "left" ELSE "right"

\* v takes u's place under u's parent, or as the root.
ReplaceChild(t, u, v) ==
    IF t.parent[u] = nil THEN [t EXCEPT !.root = v]
    ELSE [t EXCEPT ![Side(t, u)][t.parent[u]] = v]

\* Bug: the subtree between the two nodes is dropped.
RotateDroppingInner(t, n, d) ==
    LET o == Other(d)
        up == t[o][n]
    IN [ReplaceChild(t, n, up) EXCEPT ![o][n] = nil,
                                      ![d][up] = n,
                                      !.parent[up] = t.parent[n],
                                      !.parent[n] = up]

\* LeftRotate for d = "left", RightRotate for d = "right": n goes down in
\* direction d and its other child comes up.
Rotate(t, n, d) ==
    LET o == Other(d)
        up == t[o][n]
        inner == t[d][up]
        moved == IF inner = nil THEN t
                 ELSE [t EXCEPT !.parent[inner] = n]
    IN [ReplaceChild(moved, n, up) EXCEPT ![o][n] = inner,
                                          ![d][up] = n,
                                          !.parent[up] = t.parent[n],
                                          !.parent[n] = up]

\* v may be nil: its parent is set all the same, which DeleteFixup relies on.
Transplant(t, u, v) ==
    [ReplaceChild(t, u, v) EXCEPT !.parent[v] = t.parent[u]]

\* The loops that go down the tree make at most one turn per node.
Turns == Cardinality(Nodes)

Down(t, n, k) == IF k < KeyOf[n] THEN t.left[n] ELSE t.right[n]

Search(t, k) ==
    LET walk[i \in 0..Turns] ==
            IF i = 0 THEN t.root
            ELSE LET n == walk[i - 1]
                 IN IF n = nil \/ KeyOf[n] = k THEN n ELSE Down(t, n, k)
        found == walk[Turns]
    IN IF found = nil THEN nullptr ELSE found

\* The node the loop of Insert leaves in y: the parent of the new node.
InsertionPoint(t, k) ==
    LET walk[i \in 0..Turns] ==   \* <<y, x>>
            IF i = 0 THEN <<nil, t.root>>
            ELSE LET w == walk[i - 1]
                 IN IF w[2] = nil THEN w ELSE <<w[2], Down(t, w[2], k)>>
    IN walk[Turns][1]

Minimum(t, n) ==
    LET walk[i \in 0..Turns] ==
            IF i = 0 THEN n
            ELSE LET m == walk[i - 1]
                 IN IF t.left[m] = nil THEN m ELSE t.left[m]
    IN walk[Turns]

-------------------------------------------------------------------------------

Init == /\ tree = [root |-> nil,
                   color |-> [n \in AllNodes |-> IF n = nil THEN BLACK ELSE RED],
                   left |-> [n \in AllNodes |-> nullptr],
                   right |-> [n \in AllNodes |-> nullptr],
                   parent |-> [n \in AllNodes |-> nullptr]]
        /\ used = {}
        /\ pc = "idle"
        /\ x = nullptr

\* The tree with the new node z linked in, red, under y.
Linked(t, z, y) ==
    LET linked == IF y = nil THEN [t EXCEPT !.root = z]
                  ELSE IF KeyOf[z] < KeyOf[y] THEN [t EXCEPT !.left[y] = z]
                  ELSE [t EXCEPT !.right[y] = z]
    IN [linked EXCEPT !.parent[z] = y, !.left[z] = nil, !.right[z] = nil]

Insert(k) ==
    /\ pc = "idle"
    /\ \E z \in Nodes \ used :
          /\ KeyOf[z] = k
          /\ tree' = Linked(tree, z, InsertionPoint(tree, k))
          /\ used' = used \cup {z}
          /\ pc' = "insert" /\ x' = z

\* One turn of InsertFixup's loop with a red uncle: the fault moves up.
InsertRecolor ==
    /\ pc = "insert" /\ tree.color[tree.parent[x]] = RED
    /\ LET p == tree.parent[x]
           g == tree.parent[p]
           uncle == tree[Other(Side(tree, p))][g]
       IN /\ tree.color[uncle] = RED
          /\ tree' = [tree EXCEPT !.color[p] = BLACK,
                                  !.color[uncle] = BLACK,
                                  !.color[g] = RED]
          /\ x' = g
    /\ UNCHANGED <<used, pc>>

\* One turn of it with a black uncle: one rotation, or two.
InsertRotate ==
    /\ pc = "insert" /\ tree.color[tree.parent[x]] = RED
    /\ LET p == tree.parent[x]
           d == Side(tree, p)
           inner == x = tree[Other(d)][p]
           z == IF inner THEN p ELSE x
       IN /\ tree.color[tree[Other(d)][tree.parent[p]]] = BLACK
          /\ \E t \in {IF inner THEN Rotate(tree, p, d) ELSE tree} :
                LET g == t.parent[t.parent[z]]
                IN tree' = Rotate([t EXCEPT !.color[t.parent[z]] = BLACK,
                                            !.color[g] = RED],
                                  g, Other(d))
          /\ x' = z
    /\ UNCHANGED <<used, pc>>

InsertDone ==
    /\ pc = "insert" /\ tree.color[tree.parent[x]] # RED
    /\ tree' = [tree EXCEPT !.color[tree.root] = BLACK]
    /\ pc' = "idle" /\ x' = nullptr
    /\ UNCHANGED used

\* Bug: the successor keeps its own color.
SplicedKeepingColor(t, z, y) ==
    LET detached == IF t.parent[y] = z
                    THEN [t EXCEPT !.parent[t.right[y]] = y]
                    ELSE LET u == Transplant(t, y, t.right[y])
                         IN [u EXCEPT !.right[y] = u.right[z],
                                      !.parent[u.right[z]] = y]
        placed == Transplant(detached, z, y)
    IN [placed EXCEPT !.left[y] = placed.left[z],
                      !.parent[placed.left[z]] = y]

\* The tree without z when z has two children: its successor y, which leaves
\* its own right child behind, takes its place and its color.
Spliced(t, z, y) ==
    LET detached == IF t.parent[y] = z
                    THEN [t EXCEPT !.parent[t.right[y]] = y]
                    ELSE LET u == Transplant(t, y, t.right[y])
                         IN [u EXCEPT !.right[y] = u.right[z],
                                      !.parent[u.right[z]] = y]
        placed == Transplant(detached, z, y)
    IN [placed EXCEPT !.left[y] = placed.left[z],
                      !.parent[placed.left[z]] = y,
                      !.color[y] = placed.color[z]]

\* What `delete` leaves of a node is never read.
Freed(t, z) == [t EXCEPT !.color[z] = RED, !.left[z] = nullptr,
                         !.right[z] = nullptr, !.parent[z] = nullptr]

\* A key that Search does not find changes nothing: no step.
Remove(k) ==
    /\ pc = "idle" /\ Search(tree, k) # nullptr
    /\ LET z == Search(tree, k)
           two == tree.left[z] # nil /\ tree.right[z] # nil
           y == IF two THEN Minimum(tree, tree.right[z]) ELSE z
           child == IF y = z /\ tree.left[z] # nil THEN tree.left[z]
                    ELSE tree.right[y]
           t == IF two THEN Spliced(tree, z, y) ELSE Transplant(tree, z, child)
       IN /\ tree' = Freed(t, z)
          /\ used' = used \ {z}
          /\ IF tree.color[y] = BLACK   \* y_original_color
             THEN pc' = "delete" /\ x' = child
             ELSE UNCHANGED <<pc, x>>

DeleteLoops == pc = "delete" /\ x # tree.root /\ tree.color[x] = BLACK

\* The first part of a turn of DeleteFixup's loop: a red sibling is rotated
\* away, so that the sibling the rest of the turn works on is black.
BlackSibling(t, d) ==
    LET p == t.parent[x]
        w == t[Other(d)][p]
    IN IF t.color[w] = RED
       THEN Rotate([t EXCEPT !.color[w] = BLACK, !.color[p] = RED], p, d)
       ELSE t

BlackChildren(t, w) == t.color[t.left[w]] = BLACK /\ t.color[t.right[w]] = BLACK

\* The sibling's children are black: it turns red, the fault moves up.
DeleteRecolor ==
    /\ DeleteLoops
    /\ LET d == Side(tree, x) IN
       \E t \in {BlackSibling(tree, d)} :
          LET w == t[Other(d)][t.parent[x]]
          IN /\ BlackChildren(t, w)
             /\ tree' = [t EXCEPT !.color[w] = RED]
             /\ x' = t.parent[x]
    /\ UNCHANGED <<used, pc>>

\* The tree with a red child of the black sibling w on w's outer side.
RedOutside(t, w, d) ==
    LET o == Other(d)
    IN IF t.color[t[o][w]] = BLACK
       THEN Rotate([t EXCEPT !.color[t[d][w]] = BLACK, !.color[w] = RED], w, o)
       ELSE t

\* The sibling has a red child: one rotation or two mend the tree.
DeleteRotate ==
    /\ DeleteLoops
    /\ LET d == Side(tree, x)
           o == Other(d)
       IN \E t \in {BlackSibling(tree, d)} :
             /\ ~BlackChildren(t, t[o][t.parent[x]])
             /\ \E u \in {RedOutside(t, t[o][t.parent[x]], d)} :
                   LET p == u.parent[x]
                       w == u[o][p]
                   IN tree' = Rotate([u EXCEPT !.color[w] = u.color[p],
                                               !.color[p] = BLACK,
                                               !.color[u[o][w]] = BLACK],
                                     p, d)
    /\ x' = tree'.root
    /\ UNCHANGED <<used, pc>>

DeleteDone ==
    /\ pc = "delete" /\ ~DeleteLoops
    /\ tree' = [tree EXCEPT !.color[x] = BLACK]
    /\ pc' = "idle" /\ x' = nullptr
    /\ UNCHANGED used

Fixup == \/ InsertRecolor \/ InsertRotate \/ InsertDone
         \/ DeleteRecolor \/ DeleteRotate \/ DeleteDone

Next == (\E k \in Keys : Insert(k) \/ Remove(k)) \/ Fixup

Spec == Init /\ [][Next]_vars

\* A call that has started goes on.
FairSpec == Spec /\ WF_vars(Fixup)

-------------------------------------------------------------------------------

TypeOK ==
    /\ tree.root \in AllNodes
    /\ tree.color \in [AllNodes -> {RED, BLACK}]
    /\ \A f \in {"left", "right", "parent"} : tree[f] \in [AllNodes -> Pointers]
    /\ used \subseteq Nodes
    /\ pc \in {"idle", "insert", "delete"}
    /\ x \in Pointers /\ (x = nullptr <=> pc = "idle")

\* The edges <<parent, child, number of black nodes from the root down to the
\* child>>.  The node DeleteFixup holds, or nil in its place under the parent
\* Transplant gave it, counts as black once more.
Edge(p, c, blacks) ==
    LET extra == pc = "delete" /\ c = x /\ (c # nil \/ p = tree.parent[nil])
    IN <<p, c, blacks + (IF tree.color[c] = BLACK THEN 1 ELSE 0)
                      + (IF extra THEN 1 ELSE 0)>>

Edges ==
    LET reach[i \in 0..Turns] ==
            IF i = 0 THEN {Edge(tree.parent[tree.root], tree.root, 0)}
            ELSE UNION {IF e[2] = nil THEN {e}
                        ELSE {e} \cup {Edge(e[2], tree[d][e[2]], e[3]) : d \in Directions} :
                            e \in reach[i - 1]}
    IN reach[Turns]

Links(edges) == {e \in edges : e[2] # nil}

\* The tree holds exactly the nodes that were inserted and not removed, the
\* links up agree with the links down, and it is balanced: every way down has
\* as many black nodes as any other, and no red node has a red parent.  In a
\* fixup, its node x alone may be wrong: red under a red parent or as the root
\* in InsertFixup; red, or black and counted twice, in DeleteFixup.  The
\* sentinel stays black and childless.
RedBlack ==
    LET edges == Edges
        links == Links(edges)
    IN
    /\ {e[2] : e \in links} = used
    /\ \A e \in links : tree.parent[e[2]] = IF e[2] = tree.root THEN nil ELSE e[1]
    /\ \A n \in used : tree.left[n] = tree.right[n] => tree.left[n] = nil
    /\ Cardinality({e[3] : e \in edges \ links}) = 1
    /\ \A n \in used \ {x} : tree.color[n] = RED =>
           /\ n # tree.root
           /\ tree.color[tree.parent[n]] = BLACK \/ (pc = "delete" /\ tree.parent[n] = x)
    /\ tree.color[nil] = BLACK
    /\ tree.left[nil] = nullptr /\ tree.right[nil] = nullptr

\* Whatever was rotated and spliced, Search finds a key when and only when a
\* node with it is in the tree, and the node it finds has that key.
SearchFinds ==
    \A k \in Keys :
        LET n == Search(tree, k)
        IN IF \E m \in used : KeyOf[m] = k THEN n \in used /\ KeyOf[n] = k
           ELSE n = nullptr

\* The tree is the bag of keys it promises to be: a rotation neither loses nor
\* doubles a key, an insertion adds one copy and a removal takes one, and a
\* fixup's loop ends.
InTree == {e[2] : e \in Links(Edges)}
KB == INSTANCE KeyBag WITH Copies <- Nodes, bag <- InTree, busy <- (pc # "idle")
ImplementsKeyBag == KB!Safe

-------------------------------------------------------------------------------
(***************************************************************************)
(* The drafts in data_struct/rb_tree: rbtree_self_vv.hpp ("vv"),           *)
(* rbtree_self.hpp ("self") and refer.cpp ("refer").  Their functions do   *)
(* what those of rb_tree.hpp do, but for one slip each, which the          *)
(* Miscodes operators name: there the model of a draft ends.               *)
(*                                                                         *)
(* vv has the sentinel of rb_tree.hpp.  self and refer have null pointers  *)
(* for leaves: nil stands for those.  Their tests `x == nullptr || x->color*)
(* == BLACK` read as nil being black, and the parent of nil is their       *)
(* xParent.  The `break` of self's DeleteFixup for a missing sibling is    *)
(* not in the model: a tree that is balanced up to x has one.              *)
(***************************************************************************)
VARIABLES draft,  \* "vv", "self" or "refer"; "none" for rb_tree.hpp
          ended   \* the draft has met its slip

draftVars == <<draft, ended>>

DraftInit == /\ draft \in {"none", "vv", "self", "refer"}
             /\ Init
             /\ ended = FALSE

InsertLoops == pc = "insert" /\ tree.color[tree.parent[x]] = RED

IsRightChild(t, n) == t.parent[n] # nil /\ n = t.right[t.parent[n]]

-------------------------------------------------------------------------------

VvInsert(k) == Insert(k)

\* RightRotate assigns where it should compare (line 55): a node that is a right
\* child is rotated into the place of its parent's left child.
VvInsertMiscodes ==
    /\ InsertLoops
    /\ LET p == tree.parent[x]
           g == tree.parent[p]
           uncle == tree[Other(Side(tree, p))][g]
       IN /\ tree.color[uncle] = BLACK
          /\ IF Side(tree, p) = "left" THEN IsRightChild(tree, g)
             ELSE x = tree.left[p]

VvInsertFixup == /\ ~VvInsertMiscodes
                 /\ InsertRecolor \/ InsertRotate \/ InsertDone

VvRemove(k) == Remove(k)

\* The same in DeleteFixup: the sibling w of a left child is itself a right child
\* when its red child is on the inner side, and the parent of a right child may
\* be one, at the latest when a red sibling has been rotated above it.
VvDeleteMiscodes ==
    /\ DeleteLoops
    /\ LET p == tree.parent[x]
           d == Side(tree, x)
           red == tree.color[tree[Other(d)][p]] = RED
       IN IF d = "right"
          THEN \/ red /\ IsRightChild(tree, p)
               \/ \E t \in {BlackSibling(tree, d)} :
                     ~BlackChildren(t, t.left[p]) /\ IsRightChild(t, p)
          ELSE \E t \in {BlackSibling(tree, d)} :
                  LET w == t.right[p]
                  IN ~BlackChildren(t, w) /\ t.color[t.right[w]] = BLACK

VvDeleteFixup == /\ ~VvDeleteMiscodes
                 /\ DeleteRecolor \/ DeleteRotate \/ DeleteDone

-------------------------------------------------------------------------------

SelfInsert(k) == Insert(k)

\* Line 90 asks for the color of the uncle's parent.  Without an uncle that is a
\* null dereference; and a red uncle is not seen, for his parent is black.
SelfMiscodes ==
    /\ InsertLoops
    /\ LET p == tree.parent[x]
           uncle == tree.left[tree.parent[p]]
       IN /\ Side(tree, p) = "right"
          /\ uncle = nil \/ tree.color[uncle] = RED

SelfInsertFixup == /\ ~SelfMiscodes
                   /\ InsertRecolor \/ InsertRotate \/ InsertDone

SelfRemove(k) == Remove(k)

SelfDeleteFixup == DeleteRecolor \/ DeleteRotate \/ DeleteDone

-------------------------------------------------------------------------------

ReferInsert(k) == Insert(k)

ReferInsertFixup == InsertRecolor \/ InsertRotate \/ InsertDone

\* xParent stays null when the successor is not the right child of the node removed
\* (lines 180-184): fatal if deleteFixup has to start from an empty place there.
ReferForgetsParent(k) ==
    LET z == Search(tree, k)
        y == Minimum(tree, tree.right[z])
    IN /\ tree.left[z] # nil /\ tree.right[z] # nil
       /\ y # tree.right[z]
       /\ tree.color[y] = BLACK /\ tree.right[y] = nil

ReferRemove(k) == Remove(k)

ReferDeleteFixup == DeleteRecolor \/ DeleteRotate \/ DeleteDone

-------------------------------------------------------------------------------

DraftInsert(k) == \/ draft = "vv" /\ VvInsert(k)
                  \/ draft = "self" /\ SelfInsert(k)
                  \/ draft = "refer" /\ ReferInsert(k)

DraftRemove(k) == \/ draft = "vv" /\ VvRemove(k) /\ UNCHANGED ended
                  \/ draft = "self" /\ SelfRemove(k) /\ UNCHANGED ended
                  \/ draft = "refer" /\ ReferRemove(k) /\ ended' = ReferForgetsParent(k)

DraftFixup == \/ draft = "vv" /\ (VvInsertFixup \/ VvDeleteFixup)
              \/ draft = "self" /\ (SelfInsertFixup \/ SelfDeleteFixup)
              \/ draft = "refer" /\ (ReferInsertFixup \/ ReferDeleteFixup)

Miscoded == /\ \/ draft = "vv" /\ (VvInsertMiscodes \/ VvDeleteMiscodes)
               \/ draft = "self" /\ SelfMiscodes
            /\ ended' = TRUE
            /\ UNCHANGED vars

DraftNext ==
    /\ \/ draft = "none" /\ Next /\ UNCHANGED ended
       \/ /\ ~ended
          /\ \/ (\E k \in Keys : DraftInsert(k)) /\ UNCHANGED ended
             \/ \E k \in Keys : DraftRemove(k)
             \/ DraftFixup /\ UNCHANGED ended
             \/ Miscoded
    /\ UNCHANGED draft

-------------------------------------------------------------------------------

\* The slips need a tree of some size, and nothing else ends a draft: an insertion of
\* self under a red right child, a removal of refer that starts its fixup at an empty
\* place, either fixup of vv.
EndsWhere ==
    ended => /\ Cardinality(used) >= 3
             /\ draft = "self" => pc = "insert"
             /\ draft = "refer" => pc = "delete" /\ x = nil /\ Cardinality(used) >= 4
===============================================================================
