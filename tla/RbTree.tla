------------------------------- MODULE RbTree -------------------------------
(***************************************************************************)
(* The red-black tree of zbaselib_rbtree.c: insertion, deletion and the    *)
(* loops that repair the colours afterwards, one turn a step.  One caller  *)
(* uses the tree; the library takes no lock here.                          *)
(*                                                                         *)
(* A node is the pair of a key and a copy: its key never changes, no       *)
(* address is compared by order, and equal keys may be in the tree.  The   *)
(* two sides are values, so that what the code writes twice, for the left  *)
(* and for the right, is written once.                                     *)
(*                                                                         *)
(* A parent that is out of date, that of a root whose old root was freed   *)
(* and that of the sentinel when no deletion is under way, is Null here,   *)
(* so that a step that read it would be an error.                          *)
(***************************************************************************)
EXTENDS Integers, FiniteSets

CONSTANTS
    Keys,      \* the keys, numbers above NULL
    Copies,    \* how often a key may be in the tree: a bound on its size
    Sentinel, Null

NoKey == 0  \* a NULL key, and the key of the sentinel

ASSUME RbTreeAssumption ==
    /\ Keys \subseteq Nat \ {NoKey} /\ IsFiniteSet(Keys)
    /\ IsFiniteSet(Copies) /\ Copies # {}
    /\ Sentinel # Null /\ {Sentinel, Null} \cap (Keys \X Copies) = {}

Nodes == Keys \X Copies
Cells == Nodes \cup {Sentinel}
Links == Cells \cup {Null}
Sides == {"left", "right"}

VARIABLES
    tree,   \* root, child on each side, parent, and the set of red nodes
    treeSize, \* size
    at,     \* "idle", or the loop of "push" or "delete" the caller is in
    node,   \* the node that loop looks at: node in push, temp in delete
    reply   \* the key the last call returned, if it was popmin

treeVars == <<tree, treeSize, at, node, reply>>

Key(n) == IF n = Sentinel THEN NoKey ELSE n[1]
Other(side) == IF side = "left" THEN "right" ELSE "left"

-----------------------------------------------------------------------------
(* Walks.  A walk of Cardinality(Nodes) steps gets to the end of any path. *)

Steps == 0 .. Cardinality(Nodes)

(* The last node before the sentinel on the way that Way points out.       *)
Bottom(t, start, Way(_)) ==
    LET walk[i \in Steps] ==
            IF i = 0 THEN start
            ELSE LET n == walk[i - 1]
                     c == t.child[Way(n)][n]
                 IN  IF c = Sentinel THEN n ELSE c
    IN  walk[Cardinality(Nodes)]

Leftmost(t, n)  == LET Left(m) == "left" IN Bottom(t, n, Left)
Rightmost(t, n) == LET Right(m) == "right" IN Bottom(t, n, Right)

(* zbaselib_rbtree_find: the node with the key, or the NULL child of the   *)
(* sentinel.                                                               *)
Find(t, k) ==
    LET walk[i \in 0 .. Cardinality(Nodes) + 1] ==
            IF i = 0 THEN t.root
            ELSE LET n == walk[i - 1]
                 IN  IF n = Null \/ Key(n) = k THEN n
                     ELSE t.child[IF Key(n) > k THEN "left" ELSE "right"][n]
    IN  walk[Cardinality(Nodes) + 1]

(* A node that is allocated has children, if only the sentinel.            *)
InTree == {n \in Nodes : tree.child["left"][n] # Null}

-----------------------------------------------------------------------------
(* Changes of a tree *)

Paint(t, reds, blacks) == [t EXCEPT !.red = (@ \cup reds) \ blacks]
CopyColor(t, n, m) == IF m \in t.red THEN Paint(t, {n}, {}) ELSE Paint(t, {}, {n})

SideOf(t, n) == IF n = t.child["left"][t.parent[n]] THEN "left" ELSE "right"

(* What pointed down to n points to m.                                     *)
Hang(t, n, m) ==
    IF n = t.root THEN [t EXCEPT !.root = m]
    ELSE [t EXCEPT !.child[SideOf(t, n)][t.parent[n]] = m]

SetParent(t, n, p) == [t EXCEPT !.parent[n] = p]
SetParentUnlessSentinel(t, n, p) == IF n = Sentinel THEN t ELSE SetParent(t, n, p)

(* The child pointers of a rotation: up gets node, node gets inner.        *)
Relink(t, side, n, up, inner) ==
    [t EXCEPT !.child[Other(side)][n] = inner, !.child[side][up] = n]

(* left_rotate and right_rotate: node goes down to the side, its child on  *)
(* the other side takes its place.                                         *)
Forgets_Rotate(t, side, n) ==
    LET up    == t.child[Other(side)][n]
        inner == t.child[side][up]
        t1 == Hang(SetParent(t, up, t.parent[n]), n, up)
        t2 == Relink(t1, side, n, up, inner)
    IN  SetParent(t2, n, up)

Rotate(t, side, n) ==
    LET up    == t.child[Other(side)][n]
        inner == t.child[side][up]
        t1 == Hang(SetParent(t, up, t.parent[n]), n, up)
        t2 == Relink(t1, side, n, up, inner)
    IN  SetParentUnlessSentinel(SetParent(t2, n, up), inner, n)

-----------------------------------------------------------------------------
(* zbaselib_rbtree_push *)

Swapped_InsertSide(k, n) == IF k < Key(n) THEN "right" ELSE "left"
InsertSide(k, n) == IF k < Key(n) THEN "left" ELSE "right"

PushFirst(n) ==
    /\ tree' = [Paint(tree, {}, {n}) EXCEPT
                    !.root = n,
                    !.child = [s \in Sides |-> [@[s] EXCEPT ![n] = Sentinel]],
                    !.parent[n] = Null]
    /\ treeSize' = treeSize + 1
    /\ UNCHANGED <<at, node>>

(* zbaselib_rbtree_insert_value *)
PushBelow(n) ==
    LET Way(m) == InsertSide(Key(n), m)
        p == Bottom(tree, tree.root, Way)
        t == [tree EXCEPT !.child[Way(p)][p] = n]
    IN  /\ tree' = [Paint(t, {n}, {}) EXCEPT
                        !.child = [s \in Sides |-> [@[s] EXCEPT ![n] = Sentinel]],
                        !.parent[n] = p]
        /\ at' = "push" /\ node' = n
        /\ UNCHANGED treeSize

Push(k) ==
    /\ at = "idle"
    /\ \E c \in Copies : <<k, c>> \notin InTree
    /\ LET n == <<k, CHOOSE c \in Copies : <<k, c>> \notin InTree>>
       IN \/ tree.root = Sentinel /\ PushFirst(n)
          \/ tree.root # Sentinel /\ PushBelow(n)
    /\ reply' = NoKey

TwoReds == node # tree.root /\ tree.parent[node] \in tree.red

NodesParent == tree.parent[node]
NodesGrandparent == tree.parent[NodesParent]

(* The uncle is red: the problem moves up to the grandparent.              *)
PushRecolour ==
    LET uncle == tree.child[Other(SideOf(tree, NodesParent))][NodesGrandparent]
    IN  /\ at = "push" /\ TwoReds
        /\ uncle \in tree.red
        /\ tree' = Paint(tree, {NodesGrandparent}, {NodesParent, uncle})
        /\ node' = NodesGrandparent
        /\ UNCHANGED <<treeSize, at, reply>>

PushRotate ==
    LET side  == SideOf(tree, NodesParent)
        bent  == node = tree.child[Other(side)][NodesParent]
        n     == IF bent THEN NodesParent ELSE node
        t     == IF bent THEN Rotate(tree, side, n) ELSE tree
        p     == t.parent[n]
        g     == t.parent[p]
    IN  /\ at = "push" /\ TwoReds
        /\ tree.child[Other(side)][NodesGrandparent] \notin tree.red
        /\ tree' = Rotate(Paint(t, {g}, {p}), Other(side), g)
        /\ node' = n
        /\ UNCHANGED <<treeSize, at, reply>>

PushEnd ==
    /\ at = "push" /\ ~TwoReds
    /\ tree' = Paint(tree, {}, {tree.root})
    /\ treeSize' = treeSize + 1
    /\ at' = "idle" /\ node' = Null
    /\ UNCHANGED reply

-----------------------------------------------------------------------------
(* zbaselib_rbtree_delete *)

(* The node that leaves its place: n, or the next one if n has two         *)
(* children; and the child that takes that place, maybe the sentinel.      *)
Subst(n) ==
    IF \E s \in Sides : tree.child[s][n] = Sentinel THEN n
    ELSE Leftmost(tree, tree.child["right"][n])

Heir(n) ==
    LET s == Subst(n)
    IN  tree.child[IF tree.child["left"][s] = Sentinel THEN "right" ELSE "left"][s]

(* subst gets the place, the children and the colour of n.                 *)
Forgets_TakePlace(t, s, n) ==
    LET t1 == Hang([t EXCEPT !.child = [side \in Sides |-> [@[side] EXCEPT ![s] = t.child[side][n]]],
                             !.parent[s] = t.parent[n]], n, s)
        t2 == SetParentUnlessSentinel(t1, t1.child["left"][s], s)
    IN  SetParentUnlessSentinel(t2, t2.child["right"][s], s)

TakePlace(t, s, n) ==
    LET t1 == Hang([t EXCEPT !.child = [side \in Sides |-> [@[side] EXCEPT ![s] = t.child[side][n]]],
                             !.parent[s] = t.parent[n]], n, s)
        t2 == SetParentUnlessSentinel(t1, t1.child["left"][s], s)
    IN  CopyColor(SetParentUnlessSentinel(t2, t2.child["right"][s], s), s, n)

Freed(t, n) ==
    [Paint(t, {}, {n}) EXCEPT
        !.child = [s \in Sides |-> [@[s] EXCEPT ![n] = Null]],
        !.parent = [m \in Cells |-> IF m = n \/ @[m] = n THEN Null ELSE @[m]]]

Forgotten(t) == SetParent(t, Sentinel, Null)

Unlinked(n) ==
    LET s  == Subst(n)
        h  == Heir(n)
        above == tree.parent[s]
        t  == SetParent(Hang(tree, s, h), h,
                     IF s # n /\ above = n THEN s ELSE above)
    IN  Freed(IF s = n THEN t ELSE TakePlace(t, s, n), n)

Fewer(n) == n - 1

Delete(n) ==
    /\ at = "idle"
    /\ \/ (* subst is the root, and has one child at most *)
          /\ Subst(n) = tree.root
          /\ tree' = Freed([Paint(tree, {}, {Heir(n)}) EXCEPT !.root = Heir(n)], n)
          /\ treeSize' = Fewer(treeSize)
          /\ UNCHANGED <<at, node>>
       \/ /\ Subst(n) # tree.root
          /\ Subst(n) \in tree.red
          /\ tree' = Forgotten(Unlinked(n))
          /\ treeSize' = Fewer(treeSize)
          /\ UNCHANGED <<at, node>>
       \/ /\ Subst(n) # tree.root
          /\ Subst(n) \notin tree.red
          /\ tree' = Unlinked(n)
          /\ at' = "delete" /\ node' = Heir(n)
          /\ UNCHANGED treeSize

BlackShort == node # tree.root /\ node \notin tree.red

(* The sibling, after the rotation that makes it black.                    *)
BlackSibling(side) ==
    LET w == tree.child[Other(side)][NodesParent]
    IN  IF w \in tree.red THEN Rotate(Paint(tree, {NodesParent}, {w}), side, NodesParent) ELSE tree

(* Both children of the sibling are black: the lack moves up.              *)
Stays_Lacking(n, p) == n
Lacking(n, p) == p

DeleteRecolour ==
    LET side == SideOf(tree, node)
        t    == BlackSibling(side)
        w    == t.child[Other(side)][NodesParent]
    IN  /\ at = "delete" /\ BlackShort
        /\ \A s \in Sides : t.child[s][w] \notin t.red
        /\ tree' = Paint(t, {w}, {})
        /\ node' = Lacking(node, NodesParent)
        /\ UNCHANGED <<treeSize, at, reply>>

(* A child of the sibling is red: one or two rotations end the repair.     *)
DeleteRotate ==
    LET side == SideOf(tree, node)
        far  == Other(side)
        t    == BlackSibling(side)
        w    == t.child[far][NodesParent]
        t1   == IF t.child[far][w] \in t.red THEN t
                ELSE Rotate(Paint(t, {w}, {t.child[side][w]}), far, w)
        w1   == t1.child[far][NodesParent]
        t2   == Paint(CopyColor(t1, w1, NodesParent), {}, {NodesParent, t1.child[far][w1]})
    IN  /\ at = "delete" /\ BlackShort
        /\ \E s \in Sides : t.child[s][w] \in t.red
        /\ tree' = Rotate(t2, side, NodesParent)
        /\ node' = tree'.root
        /\ UNCHANGED <<treeSize, at, reply>>

DeleteEnd ==
    /\ at = "delete" /\ ~BlackShort
    /\ tree' = Forgotten(Paint(tree, {}, {node}))
    /\ treeSize' = Fewer(treeSize)
    /\ at' = "idle" /\ node' = Null
    /\ UNCHANGED reply

-----------------------------------------------------------------------------
(* The functions that look for a node; getmin, getmax and find change      *)
(* nothing.                                                                *)

GetMin == IF treeSize = 0 THEN NoKey ELSE Key(Leftmost(tree, tree.root))
GetMax == IF treeSize = 0 THEN NoKey ELSE Key(Rightmost(tree, tree.root))

PopMin ==
    /\ treeSize # 0
    /\ Delete(Leftmost(tree, tree.root))
    /\ reply' = GetMin

DelNode(k) ==
    /\ Find(tree, k) # Null
    /\ Delete(Find(tree, k))
    /\ reply' = NoKey

-----------------------------------------------------------------------------
(* zbaselib_rbtree_init *)
TreeInit ==
    /\ tree = [root   |-> Sentinel,
               child  |-> [s \in Sides |-> [n \in Cells |-> Null]],
               parent |-> [n \in Cells |-> Null],
               red    |-> {}]
    /\ treeSize = 0
    /\ at = "idle" /\ node = Null
    /\ reply = NoKey

Repair == PushRecolour \/ PushRotate \/ PushEnd
          \/ DeleteRecolour \/ DeleteRotate \/ DeleteEnd

TreeNext ==
    \/ \E k \in Keys : Push(k) \/ DelNode(k)
    \/ PopMin
    \/ Repair

TreeSpec == TreeInit /\ [][TreeNext]_treeVars

-----------------------------------------------------------------------------
(* Properties *)

TreeTypeOK ==
    /\ tree.root \in Cells
    /\ tree.child \in [Sides -> [Cells -> Links]]
    /\ tree.parent \in [Cells -> Links]
    /\ tree.red \in SUBSET Nodes
    /\ treeSize \in 0 .. Cardinality(Nodes)
    /\ at \in {"idle", "push", "delete"}
    /\ node \in Links
    /\ reply \in Keys \cup {NoKey}

(* The nodes above n, up to the root: its parent is not kept up.           *)
Above[n \in Cells] ==
    LET walk[i \in Steps] ==
            LET m == walk[i - 1]
            IN  IF i = 0 THEN {tree.parent[n]}
                ELSE m \cup {tree.parent[k] : k \in m \ {tree.root, Null, Sentinel}}
    IN  IF n = tree.root THEN {} ELSE walk[Cardinality(Nodes)]

ParentsAgree ==
    /\ \A n \in InTree \ {tree.root} : tree.root \in Above[n]
    /\ \A n \in InTree, s \in Sides :
          /\ tree.child[s][n] \in InTree \cup {Sentinel}
          /\ tree.child[s][n] # Sentinel => tree.parent[tree.child[s][n]] = n
    /\ \A n \in InTree \ {tree.root} : \E s \in Sides : tree.child[s][tree.parent[n]] = n

Ordered ==
    \A n \in InTree :
        LET path == Above[n] \cup {n}
        IN  \A m \in path \ {n} :
               /\ tree.child["left"][m] \in path => Key(n) <= Key(m)
               /\ tree.child["right"][m] \in path => Key(n) >= Key(m)

(* In every turn of every call the nodes that were not freed hang below    *)
(* the root, the parents agree with the children and the keys are in       *)
(* order, whatever was rotated or moved; the sentinel has no children,     *)
(* which find relies on.  When no call is under way, size counts the       *)
(* nodes, find finds every key in the tree and no other, and getmin and    *)
(* getmax return the ends of the order.                                    *)
SearchTree ==
    /\ TreeTypeOK
    /\ ParentsAgree
    /\ Ordered
    /\ \A s \in Sides : tree.child[s][Sentinel] = Null
    /\ at = "idle" =>
          LET held == {Key(n) : n \in InTree}
          IN  /\ treeSize = Cardinality(InTree)
              /\ held = {k \in Keys : Find(tree, k) # Null}
              /\ \A k \in held : GetMin <= k /\ k <= GetMax

(* The places where a path from the root ends, and the black nodes on it,  *)
(* with one more if it meets the node that lacks one while a deletion is   *)
(* repaired; that may be the sentinel in just this place.                  *)
Ends == {e \in InTree \X Sides : tree.child[e[2]][e[1]] = Sentinel}

Blacks(n, s) ==
    LET path == Above[n] \cup {n}
        here == node = Sentinel /\ tree.parent[Sentinel] = n /\ SideOf(tree, Sentinel) = s
    IN  Cardinality(path \ tree.red)
        + IF at = "delete" /\ (node \in path \/ here) THEN 1 ELSE 0

(* The colours are right, or wrong in one place that the loop under way    *)
(* stands on: no red node has a red parent, except the node the loop looks *)
(* at and, in a deletion, its children; and every way down meets the same  *)
(* number of black nodes, where a deletion counts one more for the node it *)
(* looks at.                                                               *)
RedBlack ==
    /\ Sentinel \notin tree.red
    /\ at # "push" => tree.root \notin tree.red
    /\ \A n \in (InTree \cap tree.red) \ {tree.root} :
          tree.parent[n] \in tree.red =>
              \/ n = node
              \/ at = "delete" /\ tree.parent[n] = node
    /\ Cardinality({Blacks(e[1], e[2]) : e \in Ends}) <= 1

(* The loops that repair the tree end: with every turn the node they look  *)
(* at is nearer to the root, or it was the last turn.                      *)
Depth == Cardinality(Above[node])
Unfinished == (at = "push" /\ TwoReds) \/ (at = "delete" /\ BlackShort)
RepairAdvances == [][at # "idle" /\ at' = at => Depth' < Depth \/ ~Unfinished']_treeVars

Bag == INSTANCE PriorityBag WITH
    Nothing <- NoKey,
    content <- [k \in Keys |-> Cardinality({n \in InTree : Key(n) = k})]

(* The tree implements a bag that gives back its smallest key: nothing is  *)
(* lost by a rotation or by moving the next node into a deleted one's      *)
(* place.                                                                  *)
ImplementsPriorityBag == Bag!Spec
=============================================================================
