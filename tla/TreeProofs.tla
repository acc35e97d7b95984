---------------------------- MODULE TreeProofs ------------------------------
(***************************************************************************)
(* Proofs about the red-black tree, for every set of keys, every number of *)
(* copies and every height.                                                *)
(*                                                                         *)
(* The tree has no depth that an induction could start from: what it is, a *)
(* set of pointers, is said without one.  Every node has a place in an     *)
(* order of all nodes and an interval around it, that of a child inside    *)
(* that of its parent; and a number of black nodes that every way down     *)
(* from it meets.  Rotations and deletions change a few of these, and what *)
(* is said of each node and its children gives what the properties say of  *)
(* whole paths.                                                            *)
(***************************************************************************)
EXTENDS RbTree, SequenceFacts, FiniteSetTheorems

(* What a tree is, as a value: its parts and their types.                  *)
Trees == [root : Cells, child : [Sides -> [Cells -> Links]],
          parent : [Cells -> Links], red : SUBSET Nodes]

(* The nodes of a tree.                                                    *)
Alloc(t) == {n \in Nodes : t.child["left"][n] # Null}

(* Children and parents agree.                                             *)
Linked(t) ==
    /\ t \in Trees
    /\ \A s \in Sides : t.child[s][Sentinel] = Null
    /\ t.root \in Alloc(t) \cup {Sentinel}
    /\ t.root = Sentinel => Alloc(t) = {}
    /\ \A n \in Alloc(t), s \in Sides :
          /\ t.child[s][n] \in Alloc(t) \cup {Sentinel}
          /\ t.child[s][n] # Sentinel =>
                t.child[s][n] # t.root /\ t.parent[t.child[s][n]] = n
    /\ \A n \in Alloc(t) \ {t.root} :
          t.parent[n] \in Alloc(t) /\ \E s \in Sides : t.child[s][t.parent[n]] = n

(* Place x is on this side of place y.                                     *)
Toward(s, x, y) == IF s = "left" THEN x < y ELSE y < x

(* Place x is between the bounds of node m.                                *)
Between(b, m, x) == b["left"][m] < x /\ x < b["right"][m]

(* Each node has a place in the order and an interval around it.           *)
Placed(t, pos, b) ==
    /\ pos \in [Nodes -> Int] /\ b \in [Sides -> [Nodes -> Int]]
    /\ \A x, y \in Alloc(t) : pos[x] = pos[y] => x = y
    /\ \A x, y \in Alloc(t) : pos[x] < pos[y] => Key(x) <= Key(y)
    /\ \A m \in Alloc(t) : Between(b, m, pos[m])
    /\ \A m \in Alloc(t), s \in Sides :
          t.child[s][m] # Sentinel =>
              /\ ~Toward(s, b[s][t.child[s][m]], b[s][m])
              /\ ~Toward(Other(s), b[Other(s)][t.child[s][m]], pos[m])
    /\ \A m, x \in Alloc(t), s \in Sides :
          Between(b, m, pos[x]) /\ Toward(s, pos[x], pos[m]) =>
              t.child[s][m] # Sentinel /\ Between(b, t.child[s][m], pos[x])
    /\ \A x \in Alloc(t) : Between(b, t.root, pos[x])

(* Every way down from a node meets as many black nodes.                   *)
Weighed(t, bh, place) ==
    /\ bh \in [Cells -> Nat] /\ bh[Sentinel] = 0
    /\ \A m \in Alloc(t), s \in Sides :
          bh[m] = bh[t.child[s][m]] + (IF place = <<m, s>> THEN 1 ELSE 0)
                  + (IF m \in t.red THEN 0 ELSE 1)

(* The place that is one black node short: none, or above the node that a  *)
(* deletion looks at.                                                      *)
NoPlace == <<Null, "left">>
PlaceOf(t, a, nd) ==
    IF a = "delete" /\ nd # t.root THEN <<t.parent[nd], SideOf(t, nd)>> ELSE NoPlace

Colored(t, a, nd) ==
    /\ t.red \subseteq Alloc(t)
    /\ t.root \in t.red => a = "push" /\ nd = t.root
    /\ \A n \in Alloc(t) \ {t.root} :
          n \in t.red /\ t.parent[n] \in t.red =>
              \/ a # "idle" /\ n = nd
              \/ a = "delete" /\ t.parent[n] = nd

Counted(t, size, a, nd) ==
    /\ size \in 0 .. Cardinality(Nodes)
    /\ a \in {"idle", "push", "delete"}
    /\ a = "idle" => nd = Null /\ size = Cardinality(Alloc(t))
    /\ a = "push" => nd \in t.red /\ size = Cardinality(Alloc(t)) - 1
    /\ a = "delete" =>
          /\ size = Cardinality(Alloc(t)) + 1
          /\ nd \in Alloc(t) \cup {Sentinel}
          /\ t.root # Sentinel
          /\ nd = Sentinel => t.parent[Sentinel] \in Alloc(t)
          /\ nd # t.root => t.child[SideOf(t, nd)][t.parent[nd]] = nd

(* What holds in every turn of every call.                                 *)
Sound(t, size, a, nd) ==
    /\ Linked(t)
    /\ \E pos, b : Placed(t, pos, b)
    /\ \E bh : Weighed(t, bh, PlaceOf(t, a, nd))
    /\ Colored(t, a, nd)
    /\ Counted(t, size, a, nd)

TreeInv == Sound(tree, treeSize, at, node) /\ reply \in Keys \cup {NoKey}
-----------------------------------------------------------------------------
(* Constants, sides, and the operators that change one part of a tree.     *)

(* What the assumption on the constants says of the cells and links.       *)
LEMMA Constants ==
    /\ Sentinel \notin Nodes /\ Null \notin Nodes /\ Sentinel # Null
    /\ Sentinel \in Cells /\ Nodes \subseteq Cells /\ Cells \subseteq Links
    /\ Null \notin Cells /\ Null \in Links
    /\ \A c \in Cells : c # Sentinel => c \in Nodes
BY RbTreeAssumption DEF Nodes, Cells, Links

(* There are finitely many nodes.                                          *)
LEMMA NodesAreFinite == IsFiniteSet(Nodes) /\ Cardinality(Nodes) \in Nat
<1>1. IsFiniteSet(Keys) /\ IsFiniteSet(Copies)
  BY RbTreeAssumption
<1>2. IsFiniteSet(Keys \X Copies)
  BY ONLY <1>1, FS_Product
<1>3. IsFiniteSet(Nodes)
  BY <1>2 DEF Nodes
<1> QED
  BY ONLY <1>3, FS_CardinalityType

(* The key of a node is one of the keys, and not that of the sentinel.     *)
LEMMA KeyIs ==
    ASSUME NEW n \in Nodes
    PROVE  Key(n) \in Keys /\ Key(n) \in Nat /\ Key(n) # NoKey /\ Key(n) = n[1]
BY Constants, RbTreeAssumption DEF Key, Nodes

(* There are two sides.                                                    *)
LEMMA SidesAre ==
    ASSUME NEW s \in Sides
    PROVE  /\ "left" \in Sides /\ "right" \in Sides /\ Other("left") = "right"
           /\ Other(s) \in Sides /\ Other(s) # s /\ Other(Other(s)) = s
           /\ \A x \in Sides : x = s \/ x = Other(s)
BY DEF Sides, Other

(* Paint changes colours and nothing else.                                 *)
LEMMA PaintIs ==
    ASSUME NEW t \in Trees, NEW reds, NEW blacks, reds \subseteq Nodes
    PROVE  /\ Paint(t, reds, blacks) \in Trees
           /\ Paint(t, reds, blacks).root = t.root
           /\ Paint(t, reds, blacks).child = t.child
           /\ Paint(t, reds, blacks).parent = t.parent
           /\ Paint(t, reds, blacks).red = (t.red \cup reds) \ blacks
BY DEF Paint, Trees

(* SetParent changes one parent and nothing else.                          *)
LEMMA SetParentIs ==
    ASSUME NEW t \in Trees, NEW n \in Cells, NEW p \in Links
    PROVE  /\ SetParent(t, n, p) \in Trees
           /\ SetParent(t, n, p).root = t.root
           /\ SetParent(t, n, p).child = t.child
           /\ SetParent(t, n, p).red = t.red
           /\ \A m \in Cells : SetParent(t, n, p).parent[m] = IF m = n THEN p ELSE t.parent[m]
BY DEF SetParent, Trees

(* Hang changes the root or one child and nothing else.                    *)
LEMMA HangIs ==
    ASSUME NEW t \in Trees, NEW n \in Cells, NEW m \in Cells,
           n # t.root => t.parent[n] \in Nodes
    PROVE  /\ Hang(t, n, m) \in Trees
           /\ Hang(t, n, m).root = IF n = t.root THEN m ELSE t.root
           /\ Hang(t, n, m).parent = t.parent
           /\ Hang(t, n, m).red = t.red
           /\ \A s \in Sides, x \in Cells :
                 Hang(t, n, m).child[s][x] =
                     IF n # t.root /\ x = t.parent[n] /\ s = SideOf(t, n) THEN m
                     ELSE t.child[s][x]
<1>1. CASE n = t.root
  BY <1>1 DEF Hang, Trees
<1>2. CASE n # t.root
  <2>1. SideOf(t, n) \in Sides /\ t.parent[n] \in Cells /\ m \in Links
    BY <1>2, Constants DEF SideOf, Sides
  <2> QED
    BY <1>2, <2>1 DEF Hang, Trees
<1> QED
  BY <1>1, <1>2

(* The same for the functions that move pointers, on a sound tree.         *)
LEMMA AllocIs ==
    ASSUME NEW t
    PROVE  Alloc(t) \subseteq Nodes /\ \A n \in Nodes : n \in Alloc(t) <=> t.child["left"][n] # Null
BY DEF Alloc

(* A rotation: node n goes down to the side, its other child up.           *)
Up(t, side, n) == t.child[Other(side)][n]
Inner(t, side, n) == t.child[side][Up(t, side, n)]

(* What a rotation makes of a tree: which pointers it sets, and that it    *)
(* changes no others and no colour.                                        *)
LEMMA RotateIs ==
    ASSUME NEW t \in Trees, NEW side \in Sides, NEW n \in Nodes,
           NEW up, up = Up(t, side, n), up \in Nodes, up # n,
           NEW inner, inner = Inner(t, side, n), inner \in Cells, inner # up,
           n # t.root => t.parent[n] \in Nodes,
           NEW r, r = Rotate(t, side, n)
    PROVE  /\ r \in Trees
           /\ r.red = t.red
           /\ r.root = IF n = t.root THEN up ELSE t.root
           /\ \A m \in Cells : r.parent[m] =
                 IF m = inner /\ inner # Sentinel THEN n
                 ELSE IF m = n THEN up
                 ELSE IF m = up THEN t.parent[n]
                 ELSE t.parent[m]
           /\ \A s \in Sides, m \in Cells : r.child[s][m] =
                 IF m = up /\ s = side THEN n
                 ELSE IF m = n /\ s = Other(side) THEN inner
                 ELSE IF n # t.root /\ m = t.parent[n] /\ s = SideOf(t, n) THEN up
                 ELSE t.child[s][m]
<1>1. /\ n \in Cells /\ up \in Cells /\ inner \in Cells /\ t.parent[n] \in Links
      /\ n # Sentinel /\ up # Sentinel /\ Other(side) \in Sides
  BY Constants, SidesAre DEF Trees
<1>2. PICK a : a = SetParent(t, up, t.parent[n])
  OBVIOUS
<1>3. /\ a \in Trees /\ a.root = t.root /\ a.child = t.child /\ a.red = t.red
      /\ \A m \in Cells : a.parent[m] = IF m = up THEN t.parent[n] ELSE t.parent[m]
  BY ONLY <1>1, <1>2, t \in Trees, SetParentIs
<1>4. a.parent[n] = t.parent[n] /\ SideOf(a, n) = SideOf(t, n)
  BY <1>1, <1>3 DEF SideOf
<1>5. PICK h : h = Hang(a, n, up)
  OBVIOUS
<1>6. /\ h \in Trees /\ h.root = IF n = t.root THEN up ELSE t.root
      /\ h.parent = a.parent /\ h.red = t.red
      /\ \A s \in Sides, m \in Cells :
            h.child[s][m] = IF n # t.root /\ m = t.parent[n] /\ s = SideOf(t, n) THEN up
                            ELSE t.child[s][m]
  <2>1. n # a.root => a.parent[n] \in Nodes
    BY <1>3, <1>4
  <2>2. /\ Hang(a, n, up) \in Trees
        /\ Hang(a, n, up).root = IF n = a.root THEN up ELSE a.root
        /\ Hang(a, n, up).parent = a.parent
        /\ Hang(a, n, up).red = a.red
        /\ \A s \in Sides, x \in Cells :
              Hang(a, n, up).child[s][x] =
                  IF n # a.root /\ x = a.parent[n] /\ s = SideOf(a, n) THEN up
                  ELSE a.child[s][x]
    BY ONLY SMTT(30), <1>1, <1>3, <2>1, HangIs
  <2> QED
    BY ONLY <1>3, <1>4, <1>5, <2>2
<1>7. PICK d : d = Relink(h, side, n, up, inner)
  OBVIOUS
<1>8. /\ d \in Trees /\ d.root = h.root /\ d.parent = h.parent /\ d.red = h.red
      /\ \A s \in Sides, m \in Cells :
            d.child[s][m] = IF m = up /\ s = side THEN n
                            ELSE IF m = n /\ s = Other(side) THEN inner
                            ELSE h.child[s][m]
  <2>1. inner \in Links /\ n \in Links /\ side # Other(side)
    BY <1>1, Constants, SidesAre
  <2> QED
    BY ZenonT(40), <1>1, <1>6, <1>7, <2>1 DEF Trees, Relink
<1>9. PICK e : e = SetParent(d, n, up)
  OBVIOUS
<1>10. /\ e \in Trees /\ e.root = d.root /\ e.child = d.child /\ e.red = d.red
       /\ \A m \in Cells : e.parent[m] = IF m = n THEN up ELSE d.parent[m]
  <2>1. d \in Trees /\ n \in Cells /\ up \in Links
    BY <1>8, Constants
  <2>2. /\ SetParent(d, n, up) \in Trees
        /\ SetParent(d, n, up).root = d.root
        /\ SetParent(d, n, up).child = d.child
        /\ SetParent(d, n, up).red = d.red
        /\ \A m \in Cells : SetParent(d, n, up).parent[m] = IF m = n THEN up ELSE d.parent[m]
    BY ONLY <2>1, SetParentIs
  <2> QED
    BY ONLY <1>9, <2>2
<1>11. r = SetParentUnlessSentinel(e, inner, n)
  <2>1. up = t.child[Other(side)][n] /\ inner = t.child[side][up]
    BY ONLY up = Up(t, side, n), inner = Inner(t, side, n) DEF Up, Inner
  <2> QED
    BY ONLY <1>2, <1>5, <1>7, <1>9, <2>1, r = Rotate(t, side, n), Zenon DEF Rotate
<1>12. /\ r \in Trees /\ r.root = e.root /\ r.child = e.child /\ r.red = e.red
       /\ \A m \in Cells : r.parent[m] = IF m = inner /\ inner # Sentinel THEN n ELSE e.parent[m]
  <2>1. CASE inner = Sentinel
    BY <1>10, <1>11, <2>1 DEF SetParentUnlessSentinel
  <2>2. CASE inner # Sentinel
    <3>0. e \in Trees /\ inner \in Cells /\ n \in Links
      BY <1>10, Constants
    <3>1. r = SetParent(e, inner, n)
      BY <1>11, <2>2 DEF SetParentUnlessSentinel
    <3>2. /\ SetParent(e, inner, n) \in Trees
          /\ SetParent(e, inner, n).root = e.root
          /\ SetParent(e, inner, n).child = e.child
          /\ SetParent(e, inner, n).red = e.red
          /\ \A m \in Cells :
                SetParent(e, inner, n).parent[m] = IF m = inner THEN n ELSE e.parent[m]
      BY ONLY <3>0, SetParentIs
    <3> QED
      BY ONLY <2>2, <3>1, <3>2
  <2> QED
    BY <2>1, <2>2
<1>13. \A m \in Cells : r.parent[m] =
                 IF m = inner /\ inner # Sentinel THEN n
                 ELSE IF m = n THEN up
                 ELSE IF m = up THEN t.parent[n]
                 ELSE t.parent[m]
  BY ONLY <1>3, <1>6, <1>8, <1>10, <1>12
<1>14. \A s \in Sides, m \in Cells : r.child[s][m] =
                 IF m = up /\ s = side THEN n
                 ELSE IF m = n /\ s = Other(side) THEN inner
                 ELSE IF n # t.root /\ m = t.parent[n] /\ s = SideOf(t, n) THEN up
                 ELSE t.child[s][m]
  BY ONLY <1>6, <1>8, <1>10, <1>12
<1> QED
  BY ONLY <1>6, <1>8, <1>10, <1>12, <1>13, <1>14

-----------------------------------------------------------------------------
(* What the order says of a node and its child on one side.                *)
LEMMA ChildIs ==
    ASSUME NEW t, NEW pos, NEW b, Linked(t), Placed(t, pos, b),
           NEW m \in Alloc(t), NEW s \in Sides,
           NEW c, c = t.child[s][m], c # Sentinel
    PROVE  /\ c \in Alloc(t) /\ c \in Nodes /\ c # m /\ c # t.root /\ t.parent[c] = m
           /\ c # t.child[Other(s)][m] /\ SideOf(t, c) = s
           /\ Between(b, m, pos[c]) /\ ~Between(b, c, pos[m])
           /\ Toward(s, pos[c], pos[m])
           /\ \A x \in Int : Between(b, c, x) => Between(b, m, x) /\ Toward(s, x, pos[m])
<1>1. c \in Alloc(t) /\ c \in Nodes /\ c # t.root /\ t.parent[c] = m /\ m \in Nodes
  BY AllocIs, Constants DEF Linked
<1>2. /\ pos[c] \in Int /\ pos[m] \in Int
      /\ b["left"][c] \in Int /\ b["right"][c] \in Int
      /\ b["left"][m] \in Int /\ b["right"][m] \in Int
  BY <1>1, SidesAre DEF Placed
<1>3. /\ Between(b, m, pos[m]) /\ Between(b, c, pos[c])
      /\ ~Toward(s, b[s][c], b[s][m]) /\ ~Toward(Other(s), b[Other(s)][c], pos[m])
  BY <1>1 DEF Placed
<1>4. \A x \in Int : Between(b, c, x) => Between(b, m, x) /\ Toward(s, x, pos[m])
  BY ONLY <1>2, <1>3, s \in Sides DEF Between, Toward, Other, Sides
<1>5. Between(b, m, pos[c]) /\ Toward(s, pos[c], pos[m]) /\ ~Between(b, c, pos[m])
  BY ONLY <1>2, <1>3, <1>4 DEF Toward
<1>6. c # m
  BY ONLY <1>3, <1>5
<1>7. c # t.child[Other(s)][m]
  <2> SUFFICES ASSUME c = t.child[Other(s)][m] PROVE FALSE
    OBVIOUS
  <2>1. ~Toward(Other(s), b[Other(s)][c], b[Other(s)][m]) /\ ~Toward(s, b[s][c], pos[m])
    BY SidesAre DEF Placed
  <2> QED
    BY ONLY <1>2, <1>3, <1>5, <2>1, s \in Sides DEF Between, Toward, Other, Sides
<1>8. SideOf(t, c) = s
  BY <1>1, <1>7 DEF SideOf, Sides, Other
<1> QED
  BY <1>1, <1>4, <1>5, <1>6, <1>7, <1>8

(* The parent of a node, the other way round.                              *)
LEMMA ParentIs ==
    ASSUME NEW t, NEW pos, NEW b, Linked(t), Placed(t, pos, b),
           NEW c \in Alloc(t), c # t.root
    PROVE  /\ t.parent[c] \in Alloc(t) /\ t.parent[c] \in Nodes /\ t.parent[c] # c
           /\ SideOf(t, c) \in Sides /\ t.child[SideOf(t, c)][t.parent[c]] = c
<1>1. t.parent[c] \in Alloc(t) /\ \E s \in Sides : t.child[s][t.parent[c]] = c
  BY DEF Linked
<1>2. PICK s \in Sides : t.child[s][t.parent[c]] = c
  BY <1>1
<1>3. c # Sentinel
  BY AllocIs, Constants
<1>4. SideOf(t, c) = s /\ c # t.parent[c]
  BY ONLY Linked(t), Placed(t, pos, b), <1>1, <1>2, <1>3, ChildIs
<1> QED
  BY <1>1, <1>2, <1>4, AllocIs

(* What surrounds a rotation.                                              *)
LEMMA AroundRotation ==
    ASSUME NEW t, NEW pos, NEW b, Linked(t), Placed(t, pos, b),
           NEW side \in Sides, NEW n \in Alloc(t), Up(t, side, n) # Sentinel,
           NEW up, up = Up(t, side, n), NEW inner, inner = Inner(t, side, n),
           NEW r, r = Rotate(t, side, n)
    PROVE  /\ n \in Nodes /\ up \in Alloc(t) /\ up \in Nodes /\ up # n /\ up # t.root
           /\ inner \in Alloc(t) \cup {Sentinel} /\ inner \in Cells
           /\ inner # up /\ inner # n
           /\ n # t.root =>
                 /\ t.parent[n] \in Alloc(t) /\ t.parent[n] \in Nodes
                 /\ t.parent[n] # n /\ t.parent[n] # up
                 /\ SideOf(t, n) \in Sides /\ t.child[SideOf(t, n)][t.parent[n]] = n
           /\ r \in Trees /\ r.red = t.red
           /\ r.root = IF n = t.root THEN up ELSE t.root
           /\ \A m \in Cells : r.parent[m] =
                 IF m = inner /\ inner # Sentinel THEN n
                 ELSE IF m = n THEN up
                 ELSE IF m = up THEN t.parent[n]
                 ELSE t.parent[m]
           /\ \A s \in Sides, m \in Cells : r.child[s][m] =
                 IF m = up /\ s = side THEN n
                 ELSE IF m = n /\ s = Other(side) THEN inner
                 ELSE IF n # t.root /\ m = t.parent[n] /\ s = SideOf(t, n) THEN up
                 ELSE t.child[s][m]
<1>1. n \in Nodes /\ n # Sentinel /\ Other(side) \in Sides /\ t \in Trees
  BY AllocIs, Constants, SidesAre DEF Linked
<1>2. up = t.child[Other(side)][n] /\ inner = t.child[side][up] /\ up # Sentinel
  BY DEF Up, Inner
<1>3. /\ up \in Alloc(t) /\ up \in Nodes /\ up # n /\ up # t.root /\ t.parent[up] = n
      /\ Between(b, n, pos[up]) /\ ~Between(b, up, pos[n])
  BY ONLY Linked(t), Placed(t, pos, b), <1>1, <1>2, n \in Alloc(t), ChildIs
<1>4. inner \in Alloc(t) \cup {Sentinel} /\ inner \in Cells
  BY <1>1, <1>2, <1>3, AllocIs, Constants DEF Linked
<1>5. inner # up /\ inner # n
  <2>1. CASE inner = Sentinel
    BY <1>1, <1>2, <2>1
  <2>2. CASE inner # Sentinel
    <3>1. inner # up /\ ~Between(b, inner, pos[up]) /\ Between(b, up, pos[inner])
      BY ONLY Linked(t), Placed(t, pos, b), <1>2, <1>3, <2>2, side \in Sides, ChildIs
    <3> QED
      BY <1>3, <3>1
  <2> QED
    BY <2>1, <2>2
<1>6. n # t.root =>
        /\ t.parent[n] \in Alloc(t) /\ t.parent[n] \in Nodes
        /\ t.parent[n] # n
        /\ SideOf(t, n) \in Sides /\ t.child[SideOf(t, n)][t.parent[n]] = n
  BY ONLY Linked(t), Placed(t, pos, b), n \in Alloc(t), ParentIs
<1>7. n # t.root => t.parent[n] # up
  <2> SUFFICES ASSUME n # t.root, t.parent[n] = up PROVE FALSE
    OBVIOUS
  <2>1. Between(b, up, pos[n])
    BY ONLY Linked(t), Placed(t, pos, b), <1>1, <1>3, <1>6, n # t.root, t.parent[n] = up, ChildIs
  <2> QED
    BY <1>3, <2>1
<1>8. n # t.root => t.parent[n] \in Nodes
  BY <1>6
<1>9. /\ r \in Trees /\ r.red = t.red
      /\ r.root = IF n = t.root THEN up ELSE t.root
      /\ \A m \in Cells : r.parent[m] =
            IF m = inner /\ inner # Sentinel THEN n
            ELSE IF m = n THEN up
            ELSE IF m = up THEN t.parent[n]
            ELSE t.parent[m]
      /\ \A s \in Sides, m \in Cells : r.child[s][m] =
            IF m = up /\ s = side THEN n
            ELSE IF m = n /\ s = Other(side) THEN inner
            ELSE IF n # t.root /\ m = t.parent[n] /\ s = SideOf(t, n) THEN up
            ELSE t.child[s][m]
  BY ONLY <1>1, <1>3, <1>4, <1>5, <1>8, side \in Sides, up = Up(t, side, n),
          inner = Inner(t, side, n), r = Rotate(t, side, n), RotateIs
<1> QED
  BY ONLY <1>1, <1>3, <1>4, <1>5, <1>6, <1>7, <1>9

(* A rotation keeps the same nodes linked.                                 *)
LEMMA RotateLinked ==
    ASSUME NEW t, NEW pos, NEW b, Linked(t), Placed(t, pos, b),
           NEW side \in Sides, NEW n \in Alloc(t), Up(t, side, n) # Sentinel,
           NEW r, r = Rotate(t, side, n)
    PROVE  Linked(r) /\ Alloc(r) = Alloc(t)
<1>1. PICK up : up = Up(t, side, n)
  OBVIOUS
<1>2. PICK inner : inner = Inner(t, side, n)
  OBVIOUS
<1>3. /\ n \in Nodes /\ up \in Alloc(t) /\ up \in Nodes /\ up # n /\ up # t.root
      /\ inner \in Alloc(t) \cup {Sentinel} /\ inner \in Cells
      /\ inner # up /\ inner # n
      /\ n # t.root =>
            /\ t.parent[n] \in Alloc(t) /\ t.parent[n] \in Nodes
            /\ t.parent[n] # n /\ t.parent[n] # up
            /\ SideOf(t, n) \in Sides /\ t.child[SideOf(t, n)][t.parent[n]] = n
      /\ r \in Trees /\ r.red = t.red
      /\ r.root = IF n = t.root THEN up ELSE t.root
      /\ \A m \in Cells : r.parent[m] =
            IF m = inner /\ inner # Sentinel THEN n
            ELSE IF m = n THEN up
            ELSE IF m = up THEN t.parent[n]
            ELSE t.parent[m]
      /\ \A s \in Sides, m \in Cells : r.child[s][m] =
            IF m = up /\ s = side THEN n
            ELSE IF m = n /\ s = Other(side) THEN inner
            ELSE IF n # t.root /\ m = t.parent[n] /\ s = SideOf(t, n) THEN up
            ELSE t.child[s][m]
  BY ONLY Linked(t), Placed(t, pos, b), side \in Sides, n \in Alloc(t), Up(t, side, n) # Sentinel,
          <1>1, <1>2, r = Rotate(t, side, n), AroundRotation
<1>4. /\ \A s \in Sides : t.child[s][Sentinel] = Null
      /\ \A m \in Alloc(t), s \in Sides :
            /\ t.child[s][m] \in Alloc(t) \cup {Sentinel}
            /\ t.child[s][m] # Sentinel =>
                  t.child[s][m] # t.root /\ t.parent[t.child[s][m]] = m
      /\ \A m \in Alloc(t) \ {t.root} :
            t.parent[m] \in Alloc(t) /\ \E s \in Sides : t.child[s][t.parent[m]] = m
      /\ t.root \in Alloc(t) \cup {Sentinel} /\ (t.root = Sentinel => Alloc(t) = {})
  BY DEF Linked
<1>5. /\ Sentinel \in Cells /\ Sentinel \notin Nodes /\ Null \notin Cells /\ Nodes \subseteq Cells
      /\ Alloc(t) \subseteq Nodes /\ Sentinel \notin Alloc(t)
  BY Constants, AllocIs
<1>6. Alloc(r) = Alloc(t)
  <2>1. \A m \in Nodes : r.child["left"][m] # Null <=> t.child["left"][m] # Null
    <3> SUFFICES ASSUME NEW m \in Nodes
                 PROVE  r.child["left"][m] # Null <=> t.child["left"][m] # Null
      OBVIOUS
    <3>1. "left" \in Sides /\ m \in Cells
      BY <1>5 DEF Sides
    <3>2. m \in Alloc(t) => t.child["left"][m] # Null
      BY AllocIs
    <3> QED
      BY ONLY <1>3, <1>5, <3>1, <3>2
  <2> QED
    BY <2>1 DEF Alloc
<1>7. \A s \in Sides : r.child[s][Sentinel] = Null
  BY ONLY <1>3, <1>4, <1>5
<1>8. /\ \A m \in Alloc(t), s \in Sides :
            t.child[s][m] # Sentinel => SideOf(t, t.child[s][m]) = s
      /\ Other(side) \in Sides /\ Other(side) # side
      /\ t.child[Other(side)][n] = up /\ t.child[side][up] = inner
  <2>1. ASSUME NEW m \in Alloc(t), NEW s \in Sides, t.child[s][m] # Sentinel
        PROVE  SideOf(t, t.child[s][m]) = s
    BY ONLY Linked(t), Placed(t, pos, b), <2>1, ChildIs
  <2> QED
    BY <1>1, <1>2, <2>1, SidesAre DEF Up, Inner
<1>9. ASSUME NEW m \in Alloc(t), NEW s \in Sides
      PROVE  /\ r.child[s][m] \in Alloc(t) \cup {Sentinel}
             /\ r.child[s][m] # Sentinel =>
                   r.child[s][m] # r.root /\ r.parent[r.child[s][m]] = m
  <2>1. m \in Cells /\ m # Sentinel /\ n \in Cells /\ up \in Cells /\ n # Sentinel /\ up # Sentinel
    BY <1>3, <1>5
  <2>2. CASE m = up /\ s = side
    <3>1. r.child[s][m] = n /\ r.parent[n] = up /\ n # r.root
      BY ONLY <1>3, <2>1, <2>2
    <3> QED
      BY ONLY <2>2, <3>1, n \in Alloc(t)
  <2>3. CASE m = n /\ s = Other(side)
    <3>1. r.child[s][m] = inner
      BY ONLY <1>3, <1>8, <2>1, <2>3
    <3>2. inner # Sentinel => r.parent[inner] = n /\ inner # r.root
      BY ONLY <1>3, <1>4, <1>8, side \in Sides
    <3> QED
      BY ONLY <1>3, <2>3, <3>1, <3>2
  <2>4. CASE n # t.root /\ m = t.parent[n] /\ s = SideOf(t, n)
    <3>1. r.child[s][m] = up /\ r.parent[up] = m /\ up # r.root
      BY ONLY <1>3, <1>8, <2>1, <2>4
    <3> QED
      BY ONLY <1>3, <3>1
  <2>5. CASE /\ ~(m = up /\ s = side) /\ ~(m = n /\ s = Other(side))
             /\ ~(n # t.root /\ m = t.parent[n] /\ s = SideOf(t, n))
    <3>1. r.child[s][m] = t.child[s][m]
      BY ONLY <1>3, <2>1, <2>5
    <3>2. PICK c : c = t.child[s][m]
      OBVIOUS
    <3>3. ASSUME c # Sentinel PROVE c # r.root /\ r.parent[c] = m
      <4>1. c # t.root /\ t.parent[c] = m /\ SideOf(t, c) = s /\ c \in Cells
        BY <1>4, <1>5, <1>8, <3>2, <3>3
      <4>2. c # up
        BY ONLY <1>4, <1>8, <1>3, <1>5, <2>5, <4>1, n \in Alloc(t)
      <4>3. inner # Sentinel => c # inner
        BY ONLY <1>4, <1>8, <1>3, <2>5, <4>1, side \in Sides
      <4>4. c # n
        BY ONLY <2>5, <4>1
      <4> QED
        BY ONLY <1>3, <3>3, <4>1, <4>2, <4>3, <4>4
    <3> QED
      BY ONLY <1>4, <3>1, <3>2, <3>3, m \in Alloc(t), s \in Sides
  <2> QED
    BY ONLY <2>2, <2>3, <2>4, <2>5
<1>10. ASSUME NEW m \in Alloc(t) \ {r.root}
      PROVE  r.parent[m] \in Alloc(t) /\ \E s \in Sides : r.child[s][r.parent[m]] = m
  <2>1. m \in Cells /\ m # Sentinel /\ n \in Cells /\ up \in Cells /\ n # Sentinel /\ up # Sentinel
    BY <1>3, <1>5
  <2>2. CASE m = inner
    <3>1. r.parent[m] = n /\ r.child[Other(side)][n] = m
      BY ONLY <1>3, <1>8, <2>1, <2>2
    <3> QED
      BY ONLY <1>8, <3>1, n \in Alloc(t)
  <2>3. CASE m = n
    <3>1. r.parent[m] = up /\ r.child[side][up] = m
      BY ONLY <1>3, <2>1, <2>3, side \in Sides
    <3> QED
      BY ONLY <1>3, <3>1, side \in Sides
  <2>4. CASE m = up
    <3>1. n # t.root
      BY ONLY <1>3, <2>4, m \in Alloc(t) \ {r.root}
    <3>2. r.parent[m] = t.parent[n] /\ t.parent[n] \in Cells
      BY ONLY <1>3, <1>5, <2>1, <2>4, <3>1
    <3>3. r.child[SideOf(t, n)][t.parent[n]] = m
      BY ONLY <1>3, <2>4, <3>1, <3>2
    <3> QED
      BY ONLY <1>3, <3>1, <3>2, <3>3
  <2>5. CASE m # inner /\ m # n /\ m # up
    <3>1. m # t.root
      BY ONLY <1>3, <2>5, m \in Alloc(t) \ {r.root}
    <3>2. t.parent[m] \in Alloc(t) /\ \E s \in Sides : t.child[s][t.parent[m]] = m
      BY ONLY <1>4, <3>1, m \in Alloc(t) \ {r.root}
    <3>3. PICK s \in Sides : t.child[s][t.parent[m]] = m
      BY ONLY <3>2
    <3>4. r.parent[m] = t.parent[m] /\ t.parent[m] \in Cells
      BY ONLY <1>3, <1>5, <2>1, <2>5, <3>2
    <3>5. r.child[s][t.parent[m]] = m
      BY ONLY <1>3, <1>8, <2>5, <3>3, <3>4
    <3> QED
      BY ONLY <3>2, <3>4, <3>5
  <2> QED
    BY ONLY <2>2, <2>3, <2>4, <2>5
<1>11. r.root \in Alloc(t) /\ Alloc(t) # {}
  BY ONLY <1>3, <1>4, <1>5
<1> QED
  BY ONLY <1>3, <1>5, <1>6, <1>7, <1>9, <1>10, <1>11 DEF Linked

(* The bounds after a rotation: those of the two nodes change.             *)
Bounds(b, pos, side, n, up) ==
    [s \in Sides |-> [m \in Nodes |->
        IF m = up THEN b[s][n]
        ELSE IF m = n /\ s = Other(side) THEN pos[up]
        ELSE b[s][m]]]

(* A rotation leaves every node in its place; the intervals of its two     *)
(* nodes change.                                                           *)
LEMMA RotatePlaced ==
    ASSUME NEW t, NEW pos, NEW b, Linked(t), Placed(t, pos, b),
           NEW side \in Sides, NEW n \in Alloc(t), Up(t, side, n) # Sentinel,
           NEW r, r = Rotate(t, side, n)
    PROVE  Placed(r, pos, Bounds(b, pos, side, n, Up(t, side, n)))
<1>1. PICK up : up = Up(t, side, n)
  OBVIOUS
<1>2. PICK inner : inner = Inner(t, side, n)
  OBVIOUS
<1>3. /\ n \in Nodes /\ up \in Alloc(t) /\ up \in Nodes /\ up # n /\ up # t.root
      /\ inner \in Alloc(t) \cup {Sentinel} /\ inner \in Cells
      /\ inner # up /\ inner # n
      /\ n # t.root =>
            /\ t.parent[n] \in Alloc(t) /\ t.parent[n] \in Nodes
            /\ t.parent[n] # n /\ t.parent[n] # up
            /\ SideOf(t, n) \in Sides /\ t.child[SideOf(t, n)][t.parent[n]] = n
      /\ r \in Trees /\ r.red = t.red
      /\ r.root = IF n = t.root THEN up ELSE t.root
      /\ \A m \in Cells : r.parent[m] =
            IF m = inner /\ inner # Sentinel THEN n
            ELSE IF m = n THEN up
            ELSE IF m = up THEN t.parent[n]
            ELSE t.parent[m]
      /\ \A s \in Sides, m \in Cells : r.child[s][m] =
            IF m = up /\ s = side THEN n
            ELSE IF m = n /\ s = Other(side) THEN inner
            ELSE IF n # t.root /\ m = t.parent[n] /\ s = SideOf(t, n) THEN up
            ELSE t.child[s][m]
  BY ONLY Linked(t), Placed(t, pos, b), side \in Sides, n \in Alloc(t), Up(t, side, n) # Sentinel,
          <1>1, <1>2, r = Rotate(t, side, n), AroundRotation
<1>4. PICK b2 : b2 = Bounds(b, pos, side, n, up)
  OBVIOUS
<1>5. /\ Alloc(r) = Alloc(t) /\ Alloc(t) \subseteq Nodes /\ Nodes \subseteq Cells
      /\ Sentinel \notin Alloc(t)
  BY RotateLinked, AllocIs, Constants
<1>6. /\ pos \in [Nodes -> Int] /\ b \in [Sides -> [Nodes -> Int]]
      /\ \A m \in Alloc(t) : Between(b, m, pos[m])
  BY DEF Placed
<1>7. /\ b2 \in [Sides -> [Nodes -> Int]]
      /\ \A s \in Sides, m \in Nodes : b2[s][m] =
            IF m = up THEN b[s][n]
            ELSE IF m = n /\ s = Other(side) THEN pos[up]
            ELSE b[s][m]
  <2>1. pos[up] \in Int /\ n \in Nodes /\ up \in Nodes
    BY <1>3, <1>6
  <2> QED
    BY ONLY <1>4, <1>6, <2>1 DEF Bounds
<1>8. /\ Other(side) \in Sides /\ Other(side) # side /\ Other(Other(side)) = side
      /\ t.child[Other(side)][n] = up /\ t.child[side][up] = inner
      /\ \A s \in Sides : s = side \/ s = Other(side)
      /\ "left" \in Sides /\ "right" \in Sides
  BY <1>1, <1>2, SidesAre DEF Up, Inner
<1>9. /\ ~Toward(Other(side), b[Other(side)][up], b[Other(side)][n])
      /\ ~Toward(side, b[side][up], pos[n])
      /\ inner # Sentinel =>
            /\ ~Toward(side, b[side][inner], b[side][up])
            /\ ~Toward(Other(side), b[Other(side)][inner], pos[up])
      /\ Toward(Other(side), pos[up], pos[n])
  <2>1. up # Sentinel
    BY <1>1
  <2>2. Toward(Other(side), pos[up], pos[n])
    BY ONLY Linked(t), Placed(t, pos, b), n \in Alloc(t), <1>8, <2>1, ChildIs
  <2> QED
    BY <1>3, <1>8, <2>1, <2>2 DEF Placed
(* What lies within the new bounds of the two.                             *)
<1>10. \A x \in Int : /\ Between(b2, up, x) <=> Between(b, n, x)
                      /\ Between(b2, n, x) <=> Between(b, n, x) /\ Toward(side, x, pos[up])
  <2> SUFFICES ASSUME NEW x \in Int
               PROVE  /\ Between(b2, up, x) <=> Between(b, n, x)
                      /\ Between(b2, n, x) <=> Between(b, n, x) /\ Toward(side, x, pos[up])
    OBVIOUS
  <2>1. /\ b2["left"][up] = b["left"][n] /\ b2["right"][up] = b["right"][n]
        /\ b2[side][n] = b[side][n] /\ b2[Other(side)][n] = pos[up]
    BY ONLY <1>3, <1>7, <1>8, side \in Sides
  <2>2. /\ pos[up] \in Int /\ b["left"][n] \in Int /\ b["right"][n] \in Int
        /\ pos[n] \in Int /\ Between(b, n, pos[up])
    <3>1. Between(b, n, pos[up])
      BY ONLY Linked(t), Placed(t, pos, b), n \in Alloc(t), <1>8, <1>3, <1>5, ChildIs
    <3> QED
      BY ONLY <1>3, <1>6, <1>8, <3>1
  <2> QED
    BY ONLY <2>1, <2>2, side \in Sides DEF Between, Toward, Sides, Other
<1>11. \A m \in Alloc(t), x \in Int : m # up /\ m # n => (Between(b2, m, x) <=> Between(b, m, x))
  BY ONLY <1>5, <1>7, <1>8 DEF Between
<1>12. \A m \in Alloc(t) : Between(b2, m, pos[m])
  <2> SUFFICES ASSUME NEW m \in Alloc(t) PROVE Between(b2, m, pos[m])
    OBVIOUS
  <2>1. Between(b, m, pos[m]) /\ pos[m] \in Int /\ pos[up] \in Int /\ pos[n] \in Int
    BY <1>3, <1>5, <1>6
  <2>2. Between(b, n, pos[up]) /\ Toward(side, pos[n], pos[up])
    <3>1. Between(b, n, pos[up])
      BY ONLY Linked(t), Placed(t, pos, b), n \in Alloc(t), <1>8, <1>3, <1>5, ChildIs
    <3> QED
      BY ONLY <1>9, <2>1, <3>1, side \in Sides DEF Toward, Sides, Other
  <2> QED
    BY ONLY <1>10, <1>11, <2>1, <2>2
<1>13. ASSUME NEW m \in Alloc(t), NEW s \in Sides,
              ~(m = up /\ s = side), ~(m = n /\ s = Other(side)),
              ~(n # t.root /\ m = t.parent[n] /\ s = SideOf(t, n)),
              t.child[s][m] # Sentinel
       PROVE  /\ r.child[s][m] = t.child[s][m]
              /\ t.child[s][m] \in Alloc(t) /\ t.child[s][m] # up /\ t.child[s][m] # n
  <2>1. PICK c : c = t.child[s][m]
    OBVIOUS
  <2>2. c \in Alloc(t) /\ c # t.root /\ t.parent[c] = m /\ SideOf(t, c) = s
    BY ONLY Linked(t), Placed(t, pos, b), <1>13, <2>1, ChildIs
  <2>3. SideOf(t, up) = Other(side) /\ t.parent[up] = n
    BY ONLY Linked(t), Placed(t, pos, b), <1>3, <1>5, <1>8, n \in Alloc(t), ChildIs
  <2>4. c # up /\ c # n
    BY ONLY <1>13, <2>2, <2>3
  <2>5. r.child[s][m] = c
    BY ONLY <1>3, <1>5, <1>13, <2>1
  <2> QED
    BY ONLY <2>1, <2>2, <2>4, <2>5
<1>14. ASSUME NEW m \in Alloc(t), NEW s \in Sides, r.child[s][m] # Sentinel
       PROVE  /\ ~Toward(s, b2[s][r.child[s][m]], b2[s][m])
              /\ ~Toward(Other(s), b2[Other(s)][r.child[s][m]], pos[m])
  <2>0. /\ m \in Cells /\ m \in Nodes /\ up \in Cells /\ n \in Cells
        /\ pos[m] \in Int /\ pos[up] \in Int /\ pos[n] \in Int
        /\ Other(s) \in Sides
        /\ \A x \in Sides : b[x][m] \in Int /\ b[x][n] \in Int /\ b[x][up] \in Int
    BY <1>3, <1>5, <1>6, SidesAre
  <2>1. CASE m = up /\ s = side
    <3>1. r.child[s][m] = n /\ b2[s][n] = b[s][n] /\ b2[s][m] = b[s][n] /\ b2[Other(s)][n] = pos[up]
      BY ONLY <1>3, <1>7, <1>8, <2>0, <2>1
    <3> QED
      BY ONLY <2>0, <2>1, <3>1 DEF Toward
  <2>2. CASE m = n /\ s = Other(side)
    <3>1. r.child[s][m] = inner /\ b2[s][m] = pos[up]
      BY ONLY <1>3, <1>7, <1>8, <2>0, <2>2
    <3>2. inner # Sentinel /\ inner \in Alloc(t) /\ inner \in Nodes
      BY ONLY <1>3, <1>5, <1>14, <3>1
    <3>3. b2[s][inner] = b[s][inner] /\ b2[side][inner] = b[side][inner] /\ b[side][inner] \in Int
      BY ONLY <1>3, <1>6, <1>7, <3>2, s \in Sides, side \in Sides
    <3>4. Other(s) = side
      BY ONLY <1>8, <2>2
    <3>5. ~Toward(s, b2[s][inner], pos[up])
      BY ONLY <1>9, <2>2, <3>2, <3>3
    <3>6. ~Toward(side, b[side][inner], pos[n])
      BY ONLY <1>9, <2>0, <3>2, <3>3, side \in Sides DEF Toward
    <3> QED
      BY ONLY <2>2, <3>1, <3>3, <3>4, <3>5, <3>6
  <2>3. CASE n # t.root /\ m = t.parent[n] /\ s = SideOf(t, n)
    <3>1. r.child[s][m] = up /\ m # up /\ m # n
      BY ONLY <1>3, <1>8, <2>0, <2>3
    <3>2. b2[s][up] = b[s][n] /\ b2[Other(s)][up] = b[Other(s)][n] /\ b2[s][m] = b[s][m]
      BY ONLY <1>3, <1>7, <2>0, <3>1, s \in Sides
    <3>3. t.child[s][m] = n /\ n # Sentinel
      BY ONLY <1>3, <1>5, <2>3, n \in Alloc(t)
    <3>4. ~Toward(s, b[s][n], b[s][m]) /\ ~Toward(Other(s), b[Other(s)][n], pos[m])
      BY <3>3 DEF Placed
    <3> QED
      BY ONLY <3>1, <3>2, <3>4
  <2>4. CASE /\ ~(m = up /\ s = side) /\ ~(m = n /\ s = Other(side))
             /\ ~(n # t.root /\ m = t.parent[n] /\ s = SideOf(t, n))
    <3>1. r.child[s][m] = t.child[s][m]
      BY ONLY <1>3, <2>0, <2>4
    <3>2. PICK c : c = t.child[s][m]
      OBVIOUS
    <3>3. c # Sentinel /\ c \in Alloc(t) /\ c # up /\ c # n
      BY ONLY <1>13, <1>14, <2>4, <3>1, <3>2
    <3>4. /\ b2[s][c] = b[s][c] /\ b2[Other(s)][c] = b[Other(s)][c]
          /\ b[s][c] \in Int
      BY ONLY <1>5, <1>6, <1>7, <2>0, <3>3, s \in Sides
    <3>5. ~Toward(s, b[s][c], b[s][m]) /\ ~Toward(Other(s), b[Other(s)][c], pos[m])
      BY <3>2, <3>3 DEF Placed
    <3>6. ~Toward(s, b[s][c], b2[s][m])
      <4>1. CASE m = up
        <5>1. s = Other(side) /\ b2[s][m] = b[s][n] /\ ~Toward(s, b[s][m], b[s][n])
          BY ONLY <1>7, <1>8, <1>9, <2>0, <2>4, <4>1, s \in Sides
        <5> QED
          BY ONLY <2>0, <3>4, <3>5, <5>1, s \in Sides DEF Toward
      <4>2. CASE m # up
        BY ONLY <1>7, <2>0, <2>4, <3>5, <4>2, s \in Sides
      <4> QED
        BY ONLY <4>1, <4>2
    <3> QED
      BY ONLY <3>1, <3>2, <3>4, <3>5, <3>6
  <2> QED
    BY ONLY <2>1, <2>2, <2>3, <2>4
<1>15. ASSUME NEW m \in Alloc(t), NEW x \in Alloc(t), NEW s \in Sides,
              Between(b2, m, pos[x]), Toward(s, pos[x], pos[m])
       PROVE  r.child[s][m] # Sentinel /\ Between(b2, r.child[s][m], pos[x])
  <2>0. /\ m \in Cells /\ x \in Nodes /\ up \in Cells /\ n \in Cells /\ n # Sentinel /\ up # Sentinel
        /\ pos[m] \in Int /\ pos[up] \in Int /\ pos[n] \in Int /\ pos[x] \in Int
    BY <1>3, <1>5, <1>6
  <2>1. ASSUME NEW k \in Alloc(t), NEW y \in Sides, Between(b, k, pos[x]), Toward(y, pos[x], pos[k])
        PROVE  t.child[y][k] # Sentinel /\ Between(b, t.child[y][k], pos[x])
    BY <2>1 DEF Placed
  <2>2. CASE m = up /\ s = side
    <3>1. r.child[s][m] = n /\ Between(b2, n, pos[x])
      BY ONLY <1>3, <1>10, <1>15, <2>0, <2>2
    <3> QED
      BY ONLY <2>0, <3>1
  <2>3. CASE m = n /\ s = Other(side)
    <3>1. Between(b, n, pos[x]) /\ Toward(side, pos[x], pos[up]) /\ Toward(Other(side), pos[x], pos[n])
      BY ONLY <1>10, <1>15, <2>0, <2>3
    <3>2. Between(b, up, pos[x])
      BY ONLY <1>8, <2>1, <3>1, n \in Alloc(t)
    <3>3. inner # Sentinel /\ Between(b, inner, pos[x])
      BY ONLY <1>3, <1>8, <2>1, <3>1, <3>2, side \in Sides
    <3>4. r.child[s][m] = inner
      BY ONLY <1>3, <1>8, <2>0, <2>3
    <3> QED
      BY ONLY <1>3, <1>11, <2>0, <3>3, <3>4
  <2>4. CASE n # t.root /\ m = t.parent[n] /\ s = SideOf(t, n)
    <3>1. r.child[s][m] = up /\ m # up /\ m # n /\ t.child[s][m] = n
      BY ONLY <1>3, <1>8, <2>0, <2>4
    <3>2. Between(b, m, pos[x])
      BY ONLY <1>11, <1>15, <2>0, <3>1
    <3>3. Between(b, n, pos[x])
      BY ONLY <1>15, <2>1, <3>1, <3>2
    <3> QED
      BY ONLY <1>10, <2>0, <3>1, <3>3
  <2>5. CASE /\ ~(m = up /\ s = side) /\ ~(m = n /\ s = Other(side))
             /\ ~(n # t.root /\ m = t.parent[n] /\ s = SideOf(t, n))
    <3>1. Between(b, m, pos[x])
      <4>1. CASE m = up
        <5>1. s = Other(side) /\ Between(b, n, pos[x]) /\ Toward(Other(side), pos[x], pos[up])
          BY ONLY <1>8, <1>10, <1>15, <2>0, <2>5, <4>1
        <5>2. Toward(Other(side), pos[x], pos[n])
          BY ONLY <1>9, <2>0, <5>1 DEF Toward
        <5> QED
          BY ONLY <1>8, <2>1, <4>1, <5>1, <5>2, n \in Alloc(t)
      <4>2. CASE m # up
        BY ONLY <1>10, <1>11, <1>15, <2>0, <4>2
      <4> QED
        BY ONLY <4>1, <4>2
    <3>2. t.child[s][m] # Sentinel /\ Between(b, t.child[s][m], pos[x])
      BY ONLY <1>15, <2>1, <3>1
    <3>3. /\ r.child[s][m] = t.child[s][m]
          /\ t.child[s][m] \in Alloc(t) /\ t.child[s][m] # up /\ t.child[s][m] # n
      BY ONLY <1>13, <2>5, <3>2
    <3> QED
      BY ONLY <1>11, <2>0, <3>2, <3>3
  <2> QED
    BY ONLY <2>2, <2>3, <2>4, <2>5
<1>16. \A x \in Alloc(t) : Between(b2, r.root, pos[x])
  <2>1. \A x \in Alloc(t) : Between(b, t.root, pos[x]) /\ pos[x] \in Int
    BY <1>5, <1>6 DEF Placed
  <2>2. t.root \in Alloc(t)
    BY DEF Linked
  <2> QED
    BY ONLY <1>3, <1>10, <1>11, <2>1, <2>2
<1>17. /\ \A x, y \in Alloc(t) : pos[x] = pos[y] => x = y
       /\ \A x, y \in Alloc(t) : pos[x] < pos[y] => Key(x) <= Key(y)
  BY DEF Placed
<1> QED
  BY ONLY <1>1, <1>4, <1>5, <1>6, <1>7, <1>12, <1>14, <1>15, <1>16, <1>17 DEF Placed

-----------------------------------------------------------------------------
(* Colours.  Two trees that differ in their colours only.                  *)
SameShape(t, u) == u \in Trees /\ u.root = t.root /\ u.child = t.child /\ u.parent = t.parent

(* What the pointers alone decide holds of every tree with the same ones.  *)
LEMMA SameShapeKeeps ==
    ASSUME NEW t, NEW u, SameShape(t, u), Linked(t)
    PROVE  /\ Linked(u) /\ Alloc(u) = Alloc(t)
           /\ \A pos, b : Placed(t, pos, b) => Placed(u, pos, b)
           /\ \A s, n : Up(u, s, n) = Up(t, s, n) /\ Inner(u, s, n) = Inner(t, s, n)
           /\ \A n : SideOf(u, n) = SideOf(t, n)
<1>1. Alloc(u) = Alloc(t)
  BY DEF SameShape, Alloc
<1>2. Linked(u)
  BY ONLY <1>1, SameShape(t, u), Linked(t) DEF SameShape, Linked
<1>3. \A pos, b : Placed(t, pos, b) => Placed(u, pos, b)
  BY ONLY <1>1, SameShape(t, u) DEF SameShape, Placed
<1>4. \A s, n : Up(u, s, n) = Up(t, s, n) /\ Inner(u, s, n) = Inner(t, s, n)
  BY DEF SameShape, Up, Inner
<1>5. \A n : SideOf(u, n) = SideOf(t, n)
  BY DEF SameShape, SideOf
<1> QED
  BY ONLY <1>1, <1>2, <1>3, <1>4, <1>5

(* Paint keeps the pointers.                                               *)
LEMMA PaintSameShape ==
    ASSUME NEW t \in Trees, NEW reds, NEW blacks, reds \subseteq Nodes
    PROVE  /\ SameShape(t, Paint(t, reds, blacks))
           /\ Paint(t, reds, blacks).red = (t.red \cup reds) \ blacks
BY PaintIs DEF SameShape

(* A rotation of a red node up, after which it has the colour of the node  *)
(* that goes down, and that one is red, changes no count of black nodes.   *)
LEMMA RotateWeighed ==
    ASSUME NEW t, NEW pos, NEW b, NEW bh, NEW place,
           Linked(t), Placed(t, pos, b), Weighed(t, bh, place),
           NEW side \in Sides, NEW n \in Alloc(t),
           NEW up, up = Up(t, side, n), up # Sentinel, up \in t.red,
           NEW u, SameShape(t, u), n \in u.red, up \in u.red <=> n \in t.red,
           \A m \in Nodes : m # n /\ m # up => (m \in u.red <=> m \in t.red),
           \A s \in Sides : place # <<up, s>>, place # <<n, Other(side)>>,
           NEW r, r = Rotate(u, side, n)
    PROVE  Weighed(r, [bh EXCEPT ![n] = bh[up], ![up] = bh[n]], place)
<1>1. PICK inner : inner = Inner(t, side, n)
  OBVIOUS
<1>2. PICK bh2 : bh2 = [bh EXCEPT ![n] = bh[up], ![up] = bh[n]]
  OBVIOUS
<1>3. /\ Linked(u) /\ Alloc(u) = Alloc(t) /\ Placed(u, pos, b)
      /\ Up(u, side, n) = up /\ Inner(u, side, n) = inner /\ SideOf(u, n) = SideOf(t, n)
  BY <1>1, SameShapeKeeps
<1>4. /\ n \in Nodes /\ up \in Alloc(t) /\ up \in Nodes /\ up # n
      /\ inner \in Alloc(t) \cup {Sentinel} /\ inner # up /\ inner # n
      /\ n # u.root =>
            /\ u.parent[n] \in Alloc(t)
            /\ u.parent[n] # n /\ u.parent[n] # up
            /\ u.child[SideOf(t, n)][u.parent[n]] = n
      /\ r.red = u.red
      /\ \A s \in Sides, m \in Cells : r.child[s][m] =
            IF m = up /\ s = side THEN n
            ELSE IF m = n /\ s = Other(side) THEN inner
            ELSE IF n # u.root /\ m = u.parent[n] /\ s = SideOf(t, n) THEN up
            ELSE u.child[s][m]
  <2>1. /\ Linked(u) /\ Placed(u, pos, b) /\ n \in Alloc(u)
        /\ Up(u, side, n) # Sentinel /\ up = Up(u, side, n)
        /\ inner = Inner(u, side, n) /\ r = Rotate(u, side, n)
    BY ONLY <1>3, n \in Alloc(t), up # Sentinel, r = Rotate(u, side, n)
  <2>2. /\ n \in Nodes /\ up \in Alloc(u) /\ up \in Nodes /\ up # n /\ up # u.root
        /\ inner \in Alloc(u) \cup {Sentinel} /\ inner \in Cells
        /\ inner # up /\ inner # n
        /\ n # u.root =>
              /\ u.parent[n] \in Alloc(u) /\ u.parent[n] \in Nodes
              /\ u.parent[n] # n /\ u.parent[n] # up
              /\ SideOf(u, n) \in Sides /\ u.child[SideOf(u, n)][u.parent[n]] = n
        /\ r \in Trees /\ r.red = u.red
        /\ r.root = IF n = u.root THEN up ELSE u.root
        /\ \A m \in Cells : r.parent[m] =
              IF m = inner /\ inner # Sentinel THEN n
              ELSE IF m = n THEN up
              ELSE IF m = up THEN u.parent[n]
              ELSE u.parent[m]
        /\ \A s \in Sides, m \in Cells : r.child[s][m] =
              IF m = up /\ s = side THEN n
              ELSE IF m = n /\ s = Other(side) THEN inner
              ELSE IF n # u.root /\ m = u.parent[n] /\ s = SideOf(u, n) THEN up
              ELSE u.child[s][m]
    BY ONLY <2>1, side \in Sides, AroundRotation
  <2> QED
    BY ONLY <1>3, <2>2
<1>5. /\ bh \in [Cells -> Nat] /\ bh[Sentinel] = 0
      /\ \A m \in Alloc(t), s \in Sides :
            bh[m] = bh[t.child[s][m]] + (IF place = <<m, s>> THEN 1 ELSE 0)
                    + (IF m \in t.red THEN 0 ELSE 1)
  BY DEF Weighed
<1>6. /\ Sentinel \in Cells /\ Sentinel \notin Nodes /\ Nodes \subseteq Cells
      /\ Alloc(t) \subseteq Nodes
  BY Constants, AllocIs
<1>7. /\ bh2 \in [Cells -> Nat] /\ bh2[n] = bh[up] /\ bh2[up] = bh[n]
      /\ \A m \in Cells : m # n /\ m # up => bh2[m] = bh[m]
  BY ONLY <1>2, <1>4, <1>5, <1>6
<1>8. /\ Other(side) \in Sides /\ Other(side) # side /\ u.child = t.child
      /\ t.child[Other(side)][n] = up /\ t.child[side][up] = inner
      /\ \A s \in Sides : s = side \/ s = Other(side)
  BY <1>1, SidesAre DEF Up, Inner, SameShape
<1>9. Alloc(r) = Alloc(t)
  BY ONLY <1>3, side \in Sides, n \in Alloc(t), up # Sentinel, r = Rotate(u, side, n), RotateLinked
<1>10. /\ bh[n] \in Nat /\ bh[up] \in Nat /\ bh[inner] \in Nat /\ bh[inner] = bh[up]
       /\ bh[n] = bh[up] + (IF n \in t.red THEN 0 ELSE 1)
  <2>1. bh[up] = bh[inner] + 0 + 0
    BY ONLY <1>4, <1>5, <1>8, up \in t.red, \A s \in Sides : place # <<up, s>>, side \in Sides
  <2>2. bh[n] = bh[up] + 0 + (IF n \in t.red THEN 0 ELSE 1)
    BY ONLY <1>5, <1>8, n \in Alloc(t), place # <<n, Other(side)>>
  <2>3. bh[n] \in Nat /\ bh[up] \in Nat /\ bh[inner] \in Nat
    BY ONLY <1>4, <1>5, <1>6
  <2> QED
    BY ONLY <2>1, <2>2, <2>3
<1>11. ASSUME NEW m \in Alloc(t), NEW s \in Sides
       PROVE  bh2[m] = bh2[r.child[s][m]] + (IF place = <<m, s>> THEN 1 ELSE 0)
                       + (IF m \in r.red THEN 0 ELSE 1)
  <2>0. /\ m \in Cells /\ m \in Nodes
        /\ bh[m] = bh[t.child[s][m]] + (IF place = <<m, s>> THEN 1 ELSE 0)
                   + (IF m \in t.red THEN 0 ELSE 1)
    BY ONLY <1>5, <1>6, m \in Alloc(t)
  <2>1. CASE m = up /\ s = side
    <3>1. r.child[s][m] = n /\ place # <<m, s>> /\ (m \in r.red <=> n \in t.red)
      BY <1>4, <2>0, <2>1
    <3> QED
      BY ONLY <1>7, <1>10, <2>1, <3>1
  <2>2. CASE m = n /\ s = Other(side)
    <3>1. r.child[s][m] = inner /\ place # <<m, s>> /\ m \in r.red
      BY <1>4, <1>8, <2>0, <2>2
    <3>2. bh2[inner] = bh[inner]
      BY ONLY <1>4, <1>6, <1>7
    <3> QED
      BY ONLY <1>7, <1>10, <2>2, <3>1, <3>2
  <2>3. CASE n # u.root /\ m = u.parent[n] /\ s = SideOf(t, n)
    <3>1. r.child[s][m] = up /\ m # up /\ m # n /\ t.child[s][m] = n
      BY ONLY <1>4, <1>8, <2>0, <2>3
    <3>2. m \in r.red <=> m \in t.red
      BY <1>4, <2>0, <3>1
    <3> QED
      BY ONLY <1>7, <2>0, <3>1, <3>2
  <2>4. CASE /\ ~(m = up /\ s = side) /\ ~(m = n /\ s = Other(side))
             /\ ~(n # u.root /\ m = u.parent[n] /\ s = SideOf(t, n))
    <3>1. PICK c : c = t.child[s][m]
      OBVIOUS
    <3>2. r.child[s][m] = c
      BY ONLY <1>4, <1>8, <2>0, <2>4, <3>1
    <3>3. c \in Cells /\ c # up /\ c # n
      <4>1. CASE c = Sentinel
        BY ONLY <1>4, <1>6, <4>1
      <4>2. CASE c # Sentinel
        <5>1. c \in Alloc(t) /\ c # t.root /\ t.parent[c] = m /\ SideOf(t, c) = s
          BY ONLY Linked(t), Placed(t, pos, b), <3>1, <4>2, ChildIs
        <5>2. SideOf(t, up) = Other(side) /\ t.parent[up] = n
          BY ONLY Linked(t), Placed(t, pos, b), <1>8, n \in Alloc(t), up # Sentinel, ChildIs
        <5>3. u.root = t.root /\ u.parent = t.parent
          BY DEF SameShape
        <5> QED
          BY ONLY <1>6, <2>4, <5>1, <5>2, <5>3
      <4> QED
        BY ONLY <4>1, <4>2
    <3>4. bh2[c] = bh[c] /\ bh[c] \in Nat /\ bh[m] \in Nat
      BY ONLY <1>5, <1>7, <2>0, <3>3
    <3>5. CASE m = up
      <4>1. place # <<m, s>> /\ m \in t.red /\ (m \in r.red <=> n \in t.red)
        BY <1>4, <3>5
      <4> QED
        BY ONLY <1>7, <1>10, <2>0, <3>1, <3>2, <3>4, <3>5, <4>1
    <3>6. CASE m = n
      <4>1. m \in r.red
        BY <1>4, <3>6
      <4> QED
        BY ONLY <1>7, <1>10, <2>0, <3>1, <3>2, <3>4, <3>6, <4>1
    <3>7. CASE m # n /\ m # up
      <4>1. m \in r.red <=> m \in t.red
        BY <1>4, <2>0, <3>7
      <4> QED
        BY ONLY <1>7, <2>0, <3>1, <3>2, <3>4, <3>7, <4>1
    <3> QED
      BY ONLY <3>5, <3>6, <3>7
  <2> QED
    BY ONLY <2>1, <2>2, <2>3, <2>4
<1>12. bh2[Sentinel] = 0
  BY ONLY <1>4, <1>5, <1>6, <1>7
<1>13. Weighed(r, bh2, place)
  BY ONLY <1>7, <1>9, <1>11, <1>12 DEF Weighed
<1> QED
  BY ONLY <1>2, <1>13

-----------------------------------------------------------------------------
(* Walks.  The nodes in the interval of a node: its subtree.               *)
Inside(t, pos, b, m) == {x \in Alloc(t) : Between(b, m, pos[x])}

(* A subtree is finite and holds the node it is below.                     *)
LEMMA InsideIs ==
    ASSUME NEW t, NEW pos, NEW b, Linked(t), Placed(t, pos, b), NEW m \in Alloc(t)
    PROVE  /\ m \in Inside(t, pos, b, m)
           /\ Inside(t, pos, b, m) \subseteq Nodes
           /\ IsFiniteSet(Inside(t, pos, b, m))
           /\ Cardinality(Inside(t, pos, b, m)) \in 1 .. Cardinality(Nodes)
<1>1. m \in Inside(t, pos, b, m) /\ Inside(t, pos, b, m) \subseteq Nodes
  BY AllocIs DEF Inside, Placed
<1>2. PICK I : I = Inside(t, pos, b, m)
  OBVIOUS
<1>3. /\ IsFiniteSet(I) /\ Cardinality(I) \in Nat
      /\ Cardinality(I) <= Cardinality(Nodes) /\ Cardinality(Nodes) \in Nat
  BY <1>1, <1>2, NodesAreFinite, FS_Subset, FS_CardinalityType
<1>4. Cardinality(I) # 0
  BY ONLY <1>1, <1>2, <1>3, FS_EmptySet
<1> QED
  BY <1>1, <1>2, <1>3, <1>4

(* The subtree of a child is smaller.                                      *)
LEMMA InsideChild ==
    ASSUME NEW t, NEW pos, NEW b, Linked(t), Placed(t, pos, b),
           NEW m \in Alloc(t), NEW s \in Sides, NEW c, c = t.child[s][m], c # Sentinel
    PROVE  /\ Inside(t, pos, b, c) \subseteq Inside(t, pos, b, m)
           /\ m \notin Inside(t, pos, b, c)
           /\ Cardinality(Inside(t, pos, b, c)) < Cardinality(Inside(t, pos, b, m))
<1>1. /\ c \in Alloc(t) /\ ~Between(b, c, pos[m])
      /\ \A x \in Int : Between(b, c, x) => Between(b, m, x)
  BY ChildIs
<1>2. \A x \in Alloc(t) : pos[x] \in Int
  BY AllocIs DEF Placed
<1>3. PICK I : I = Inside(t, pos, b, m)
  OBVIOUS
<1>4. PICK J : J = Inside(t, pos, b, c)
  OBVIOUS
<1>5. J \subseteq I /\ m \in I /\ m \notin J
  BY <1>1, <1>2, <1>3, <1>4, InsideIs DEF Inside
<1>6. IsFiniteSet(I)
  BY <1>3, InsideIs
<1>7. J # I
  BY <1>5
<1>8. /\ Cardinality(J) <= Cardinality(I)
      /\ Cardinality(J) = Cardinality(I) => J = I
      /\ Cardinality(J) \in Nat /\ Cardinality(I) \in Nat
  BY ONLY <1>5, <1>6, FS_Subset, FS_CardinalityType
<1> QED
  BY ONLY <1>3, <1>4, <1>5, <1>7, <1>8

(* A walk down that stops where it cannot go on has stopped after as many  *)
(* steps as there are nodes, and is in every set that no step leaves.      *)
LEMMA BottomIs ==
    ASSUME NEW t, NEW pos, NEW b, Linked(t), Placed(t, pos, b),
           NEW w \in [Alloc(t) -> Sides], NEW S, S \subseteq Alloc(t),
           \A m \in S : t.child[w[m]][m] # Sentinel => t.child[w[m]][m] \in S,
           NEW f, f[0] \in S,
           \A i \in 1 .. Cardinality(Nodes) : f[i - 1] \in S =>
              f[i] = IF t.child[w[f[i - 1]]][f[i - 1]] = Sentinel THEN f[i - 1]
                     ELSE t.child[w[f[i - 1]]][f[i - 1]]
    PROVE  /\ f[Cardinality(Nodes)] \in S
           /\ t.child[w[f[Cardinality(Nodes)]]][f[Cardinality(Nodes)]] = Sentinel
<1>1. PICK N \in Nat : N = Cardinality(Nodes)
  BY NodesAreFinite
<1>2. \A i \in 0 .. N : f[i] \in S
  <2>1. ASSUME NEW i \in 1 .. N, f[i - 1] \in S PROVE f[i] \in S
    BY <1>1, <2>1
  <2> QED
    BY ONLY <2>1, f[0] \in S, WalkStays
<1> DEFINE Stuck(i) == t.child[w[f[i]]][f[i]] = Sentinel
           Size(i) == Cardinality(Inside(t, pos, b, f[i]))
           P == {i \in Nat : i \in 0 .. N => Stuck(i) \/ Size(i) <= N - i}
<1>3. 0 \in P
  <2>1. f[0] \in Alloc(t) /\ N - 0 = N
    BY <1>2
  <2>2. Size(0) <= N
    BY <1>1, <2>1, InsideIs
  <2> QED
    BY <2>1, <2>2
<1>4. ASSUME NEW i \in Nat, i \in P PROVE i + 1 \in P
  <2> SUFFICES ASSUME i + 1 \in 0 .. N PROVE Stuck(i + 1) \/ Size(i + 1) <= N - (i + 1)
    OBVIOUS
  <2>1. i \in 0 .. N /\ i + 1 \in 1 .. N /\ (i + 1) - 1 = i
    OBVIOUS
  <2>2. f[i] \in S /\ f[i] \in Alloc(t) /\ f[i + 1] \in Alloc(t) /\ w[f[i]] \in Sides
    BY <1>2, <2>1
  <2>3. f[i + 1] = IF Stuck(i) THEN f[i] ELSE t.child[w[f[i]]][f[i]]
    BY <1>1, <2>1, <2>2
  <2>4. CASE Stuck(i)
    BY <2>3, <2>4
  <2>5. CASE ~Stuck(i)
    <3>1. f[i + 1] = t.child[w[f[i]]][f[i]] /\ f[i + 1] # Sentinel
      BY <2>3, <2>5
    <3>2. Size(i + 1) < Size(i)
      BY ONLY Linked(t), Placed(t, pos, b), <2>2, <3>1, InsideChild
    <3>3. Size(i) \in Int /\ Size(i + 1) \in Int
      BY <2>2, InsideIs
    <3>4. Size(i) <= N - i
      BY <1>4, <2>1, <2>5
    <3> HIDE DEF Size
    <3> QED
      BY <3>2, <3>3, <3>4
  <2> QED
    BY <2>4, <2>5
<1>5. N \in P
  <2> HIDE DEF P
  <2>1. \A i \in Nat : i \in P
    BY ONLY <1>3, <1>4, Induct
  <2> QED
    BY <2>1
<1>6. f[N] \in S /\ f[N] \in Alloc(t) /\ N \in 0 .. N
  BY <1>2
<1>7. Size(N) \in Nat /\ Size(N) >= 1
  BY <1>6, InsideIs
<1>8. Stuck(N) \/ Size(N) <= N - N
  BY <1>5, <1>6
<1>9. Stuck(N)
  <2> HIDE DEF Size, Stuck
  <2> QED
    BY ONLY <1>7, <1>8
<1> QED
  BY <1>1, <1>6, <1>9

(* Such a walk.                                                            *)
CanDescend(t, w, S, n) ==
    \E f \in [0 .. Cardinality(Nodes) -> S] :
       /\ f[0] = n
       /\ \A i \in 1 .. Cardinality(Nodes) :
             f[i] = IF t.child[w[f[i - 1]]][f[i - 1]] = Sentinel THEN f[i - 1]
                    ELSE t.child[w[f[i - 1]]][f[i - 1]]

(* There is such a walk, so that the recursive functions of the model are  *)
(* defined.                                                                *)
LEMMA DescentExists ==
    ASSUME NEW t, NEW w \in [Alloc(t) -> Sides], NEW S, S \subseteq Alloc(t),
           \A m \in S : t.child[w[m]][m] # Sentinel => t.child[w[m]][m] \in S,
           NEW n \in S
    PROVE  CanDescend(t, w, S, n)
<1>1. PICK N \in Nat : N = Cardinality(Nodes)
  BY NodesAreFinite
<1>2. PICK g : g = [m \in S |-> IF t.child[w[m]][m] = Sentinel THEN m ELSE t.child[w[m]][m]]
  OBVIOUS
<1>3. g \in [S -> S] /\ n \in S /\ N \in Nat
  BY <1>2
<1>4. PICK f \in [0 .. N -> S] : f[0] = n /\ \A i \in 1 .. N : f[i] = g[f[i - 1]]
  <2>1. CanWalk(S, g, n, N)
    BY ONLY SMTT(30), <1>3, WalkExists
  <2> QED
    BY ONLY <2>1 DEF CanWalk
<1>5. ASSUME NEW i \in 1 .. N
      PROVE  f[i] = IF t.child[w[f[i - 1]]][f[i - 1]] = Sentinel THEN f[i - 1]
                    ELSE t.child[w[f[i - 1]]][f[i - 1]]
  <2>1. f[i - 1] \in S /\ f[i] = g[f[i - 1]]
    BY <1>4
  <2> QED
    BY ONLY <1>2, <2>1
<1> QED
  BY <1>1, <1>4, <1>5 DEF CanDescend

(* Leftmost, Rightmost and the place of an insertion end on a node without *)
(* a child on that side, in every set that no step leaves.                 *)
LEMMA LeftmostIs ==
    ASSUME NEW t, NEW pos, NEW b, Linked(t), Placed(t, pos, b),
           NEW S, S \subseteq Alloc(t),
           \A m \in S : t.child["left"][m] # Sentinel => t.child["left"][m] \in S,
           NEW n \in S
    PROVE  Leftmost(t, n) \in S /\ t.child["left"][Leftmost(t, n)] = Sentinel
<1>1. PICK N \in Nat : N = Cardinality(Nodes) /\ Steps = 0 .. N
  BY NodesAreFinite DEF Steps
<1>2. PICK w : w = [m \in Alloc(t) |-> "left"]
  OBVIOUS
<1>3. /\ w \in [Alloc(t) -> Sides] /\ \A m \in S : w[m] = "left"
      /\ \A m \in S : t.child[w[m]][m] # Sentinel => t.child[w[m]][m] \in S
  BY <1>2 DEF Sides
<1>4. PICK f \in [0 .. N -> S] :
         /\ f[0] = n
         /\ \A i \in 1 .. N :
               f[i] = IF t.child[w[f[i - 1]]][f[i - 1]] = Sentinel THEN f[i - 1]
                      ELSE t.child[w[f[i - 1]]][f[i - 1]]
  <2>1. S \subseteq Alloc(t) /\ n \in S
    OBVIOUS
  <2>2. CanDescend(t, w, S, n)
    BY ONLY <1>3, <2>1, DescentExists
  <2> QED
    BY ONLY <1>1, <2>2 DEF CanDescend
<1>5. f = [i \in Steps |-> IF i = 0 THEN n
                           ELSE LET m == f[i - 1]
                                    c == t.child["left"][m]
                                IN  IF c = Sentinel THEN m ELSE c]
  <2>1. ASSUME NEW i \in 0 .. N, i # 0
        PROVE  f[i] = IF t.child["left"][f[i - 1]] = Sentinel THEN f[i - 1]
                      ELSE t.child["left"][f[i - 1]]
    <3>1. i \in 1 .. N /\ f[i - 1] \in S
      BY <2>1
    <3> QED
      BY <1>3, <1>4, <3>1
  <2> QED
    BY ONLY <1>1, <1>4, <2>1
<1>6. PICK h : /\ h = [i \in Steps |-> IF i = 0 THEN n
                                       ELSE LET m == h[i - 1]
                                                c == t.child["left"][m]
                                            IN  IF c = Sentinel THEN m ELSE c]
               /\ Leftmost(t, n) = h[Cardinality(Nodes)]
  BY ONLY <1>5, Zenon DEF Leftmost, Bottom
<1>7. /\ h[0] = n
      /\ \A i \in 1 .. N : h[i] = IF t.child["left"][h[i - 1]] = Sentinel THEN h[i - 1]
                                  ELSE t.child["left"][h[i - 1]]
  <2>1. 0 \in Steps /\ \A i \in 1 .. N : i \in Steps /\ i # 0
    BY ONLY <1>1
  <2>2. \A i \in Steps : h[i] = IF i = 0 THEN n
                                ELSE IF t.child["left"][h[i - 1]] = Sentinel THEN h[i - 1]
                                ELSE t.child["left"][h[i - 1]]
    BY ONLY <1>6, Zenon
  <2> QED
    BY ONLY <2>1, <2>2
<1>8. /\ h[0] \in S /\ S \subseteq Alloc(t)
      /\ \A i \in 1 .. Cardinality(Nodes) : h[i - 1] \in S =>
            h[i] = IF t.child[w[h[i - 1]]][h[i - 1]] = Sentinel THEN h[i - 1]
                   ELSE t.child[w[h[i - 1]]][h[i - 1]]
  BY <1>1, <1>3, <1>7
<1>9. /\ h[Cardinality(Nodes)] \in S
      /\ t.child[w[h[Cardinality(Nodes)]]][h[Cardinality(Nodes)]] = Sentinel
  BY ONLY Linked(t), Placed(t, pos, b), <1>3, <1>8, BottomIs
<1> QED
  BY Zenon, <1>3, <1>6, <1>9

(* The mirror image of LeftmostIs.                                         *)
LEMMA RightmostIs ==
    ASSUME NEW t, NEW pos, NEW b, Linked(t), Placed(t, pos, b),
           NEW S, S \subseteq Alloc(t),
           \A m \in S : t.child["right"][m] # Sentinel => t.child["right"][m] \in S,
           NEW n \in S
    PROVE  Rightmost(t, n) \in S /\ t.child["right"][Rightmost(t, n)] = Sentinel
<1>1. PICK N \in Nat : N = Cardinality(Nodes) /\ Steps = 0 .. N
  BY NodesAreFinite DEF Steps
<1>2. PICK w : w = [m \in Alloc(t) |-> "right"]
  OBVIOUS
<1>3. /\ w \in [Alloc(t) -> Sides] /\ \A m \in S : w[m] = "right"
      /\ \A m \in S : t.child[w[m]][m] # Sentinel => t.child[w[m]][m] \in S
  BY <1>2 DEF Sides
<1>4. PICK f \in [0 .. N -> S] :
         /\ f[0] = n
         /\ \A i \in 1 .. N :
               f[i] = IF t.child[w[f[i - 1]]][f[i - 1]] = Sentinel THEN f[i - 1]
                      ELSE t.child[w[f[i - 1]]][f[i - 1]]
  <2>1. S \subseteq Alloc(t) /\ n \in S
    OBVIOUS
  <2>2. CanDescend(t, w, S, n)
    BY ONLY <1>3, <2>1, DescentExists
  <2> QED
    BY ONLY <1>1, <2>2 DEF CanDescend
<1>5. f = [i \in Steps |-> IF i = 0 THEN n
                           ELSE LET m == f[i - 1]
                                    c == t.child["right"][m]
                                IN  IF c = Sentinel THEN m ELSE c]
  <2>1. ASSUME NEW i \in 0 .. N, i # 0
        PROVE  f[i] = IF t.child["right"][f[i - 1]] = Sentinel THEN f[i - 1]
                      ELSE t.child["right"][f[i - 1]]
    <3>1. i \in 1 .. N /\ f[i - 1] \in S
      BY <2>1
    <3> QED
      BY <1>3, <1>4, <3>1
  <2> QED
    BY ONLY <1>1, <1>4, <2>1
<1>6. PICK h : /\ h = [i \in Steps |-> IF i = 0 THEN n
                                       ELSE LET m == h[i - 1]
                                                c == t.child["right"][m]
                                            IN  IF c = Sentinel THEN m ELSE c]
               /\ Rightmost(t, n) = h[Cardinality(Nodes)]
  BY ONLY <1>5, Zenon DEF Rightmost, Bottom
<1>7. /\ h[0] = n
      /\ \A i \in 1 .. N : h[i] = IF t.child["right"][h[i - 1]] = Sentinel THEN h[i - 1]
                                  ELSE t.child["right"][h[i - 1]]
  <2>1. 0 \in Steps /\ \A i \in 1 .. N : i \in Steps /\ i # 0
    BY ONLY <1>1
  <2>2. \A i \in Steps : h[i] = IF i = 0 THEN n
                                ELSE IF t.child["right"][h[i - 1]] = Sentinel THEN h[i - 1]
                                ELSE t.child["right"][h[i - 1]]
    BY ONLY <1>6, Zenon
  <2> QED
    BY ONLY <2>1, <2>2
<1>8. /\ h[0] \in S /\ S \subseteq Alloc(t)
      /\ \A i \in 1 .. Cardinality(Nodes) : h[i - 1] \in S =>
            h[i] = IF t.child[w[h[i - 1]]][h[i - 1]] = Sentinel THEN h[i - 1]
                   ELSE t.child[w[h[i - 1]]][h[i - 1]]
  BY <1>1, <1>3, <1>7
<1>9. /\ h[Cardinality(Nodes)] \in S
      /\ t.child[w[h[Cardinality(Nodes)]]][h[Cardinality(Nodes)]] = Sentinel
  BY ONLY Linked(t), Placed(t, pos, b), <1>3, <1>8, BottomIs
<1> QED
  BY Zenon, <1>3, <1>6, <1>9

(* The node below which a new key is put.                                  *)
InsertPlace(t, n, k) == LET Way(m) == InsertSide(k, m) IN Bottom(t, n, Way)

(* The descent of an insertion, the same way.                              *)
LEMMA InsertPlaceIs ==
    ASSUME NEW t, NEW pos, NEW b, Linked(t), Placed(t, pos, b),
           NEW k \in Nat,
           NEW S, S \subseteq Alloc(t),
           \A m \in S : t.child[InsertSide(k, m)][m] # Sentinel => t.child[InsertSide(k, m)][m] \in S,
           NEW n \in S
    PROVE  /\ InsertPlace(t, n, k) \in S
           /\ t.child[InsertSide(k, InsertPlace(t, n, k))][InsertPlace(t, n, k)] = Sentinel
<1>1. PICK N \in Nat : N = Cardinality(Nodes) /\ Steps = 0 .. N
  BY NodesAreFinite DEF Steps
<1>2. PICK w : w = [m \in Alloc(t) |-> InsertSide(k, m)]
  OBVIOUS
<1>3. /\ w \in [Alloc(t) -> Sides] /\ \A m \in S : w[m] = InsertSide(k, m)
      /\ \A m \in S : t.child[w[m]][m] # Sentinel => t.child[w[m]][m] \in S
  BY <1>2 DEF Sides, InsertSide
<1>4. PICK f \in [0 .. N -> S] :
         /\ f[0] = n
         /\ \A i \in 1 .. N :
               f[i] = IF t.child[w[f[i - 1]]][f[i - 1]] = Sentinel THEN f[i - 1]
                      ELSE t.child[w[f[i - 1]]][f[i - 1]]
  <2>1. S \subseteq Alloc(t) /\ n \in S
    OBVIOUS
  <2>2. CanDescend(t, w, S, n)
    BY ONLY <1>3, <2>1, DescentExists
  <2> QED
    BY ONLY <1>1, <2>2 DEF CanDescend
<1>5. f = [i \in Steps |-> IF i = 0 THEN n
                           ELSE LET m == f[i - 1]
                                    c == t.child[InsertSide(k, m)][m]
                                IN  IF c = Sentinel THEN m ELSE c]
  <2>1. ASSUME NEW i \in 0 .. N, i # 0
        PROVE  f[i] = IF t.child[InsertSide(k, f[i - 1])][f[i - 1]] = Sentinel THEN f[i - 1]
                      ELSE t.child[InsertSide(k, f[i - 1])][f[i - 1]]
    <3>1. i \in 1 .. N /\ f[i - 1] \in S
      BY <2>1
    <3> QED
      BY <1>3, <1>4, <3>1
  <2> QED
    BY ONLY <1>1, <1>4, <2>1
<1>6. PICK h : /\ h = [i \in Steps |-> IF i = 0 THEN n
                                       ELSE LET m == h[i - 1]
                                                c == t.child[InsertSide(k, m)][m]
                                            IN  IF c = Sentinel THEN m ELSE c]
               /\ InsertPlace(t, n, k) = h[Cardinality(Nodes)]
  BY ONLY <1>5, Zenon DEF InsertPlace, Bottom
<1>7. /\ h[0] = n
      /\ \A i \in 1 .. N : h[i] = IF t.child[InsertSide(k, h[i - 1])][h[i - 1]] = Sentinel THEN h[i - 1]
                                  ELSE t.child[InsertSide(k, h[i - 1])][h[i - 1]]
  <2>1. h[0] = n
    BY ONLY <1>1, <1>6
  <2>2. ASSUME NEW i \in 1 .. N
        PROVE  h[i] = IF t.child[InsertSide(k, h[i - 1])][h[i - 1]] = Sentinel THEN h[i - 1]
                      ELSE t.child[InsertSide(k, h[i - 1])][h[i - 1]]
    <3>1. i \in Steps /\ i # 0
      BY <1>1
    <3> QED
      BY ONLY Zenon, <1>6, <3>1
  <2> QED
    BY ONLY <2>1, <2>2
<1>8. /\ h[0] \in S /\ S \subseteq Alloc(t)
      /\ \A i \in 1 .. Cardinality(Nodes) : h[i - 1] \in S =>
            h[i] = IF t.child[w[h[i - 1]]][h[i - 1]] = Sentinel THEN h[i - 1]
                   ELSE t.child[w[h[i - 1]]][h[i - 1]]
  BY <1>1, <1>3, <1>7
<1>9. /\ h[Cardinality(Nodes)] \in S
      /\ t.child[w[h[Cardinality(Nodes)]]][h[Cardinality(Nodes)]] = Sentinel
  BY ONLY Linked(t), Placed(t, pos, b), <1>3, <1>8, BottomIs
<1> QED
  BY Zenon, <1>3, <1>6, <1>9

-----------------------------------------------------------------------------
(* A new leaf.  Places are spread so that there is one for it next to the  *)
(* node it hangs below.                                                    *)
Apart(side, x) == IF side = "left" THEN 3 * x - 1 ELSE 3 * x + 1

LeafPlaces(pos, side, p, n) ==
    [m \in Nodes |-> IF m = n THEN Apart(side, pos[p]) ELSE 3 * pos[m]]

LeafBounds(b, pos, side, p, n) ==
    [s \in Sides |-> [m \in Nodes |->
        IF m = n THEN (IF s = side THEN 3 * b[s][p] ELSE 3 * pos[p])
        ELSE IF s = side THEN 3 * b[s][m]
        ELSE IF side = "left" THEN 3 * b[s][m] - 2 ELSE 3 * b[s][m] + 2]]

(* The tree u is t with node n as a leaf on one side of p.                 *)
WithLeaf(t, u, side, p, n) ==
    /\ u \in Trees /\ u.root = t.root
    /\ \A s \in Sides, m \in Cells :
          u.child[s][m] = IF m = n THEN Sentinel
                          ELSE IF m = p /\ s = side THEN n ELSE t.child[s][m]
    /\ \A m \in Cells : u.parent[m] = IF m = n THEN p ELSE t.parent[m]

(* A new leaf keeps the pointers linked.                                   *)
LEMMA LeafLinked ==
    ASSUME NEW t, NEW u, Linked(t), NEW p \in Alloc(t), NEW side \in Sides,
           t.child[side][p] = Sentinel, NEW n \in Nodes \ Alloc(t),
           WithLeaf(t, u, side, p, n)
    PROVE  Linked(u) /\ Alloc(u) = Alloc(t) \cup {n}
<1>1. /\ u \in Trees /\ u.root = t.root
      /\ \A s \in Sides, m \in Cells :
            u.child[s][m] = IF m = n THEN Sentinel
                            ELSE IF m = p /\ s = side THEN n ELSE t.child[s][m]
      /\ \A m \in Cells : u.parent[m] = IF m = n THEN p ELSE t.parent[m]
  BY DEF WithLeaf
<1>2. /\ Alloc(t) \subseteq Nodes /\ n \in Cells /\ n # Sentinel /\ n # Null /\ p # Sentinel
      /\ p # n /\ Sentinel \in Cells /\ Sentinel # Null /\ Nodes \subseteq Cells
      /\ Sentinel \notin Alloc(t) /\ Sentinel \notin Nodes /\ "left" \in Sides
  BY AllocIs, Constants DEF Sides
<1>3. /\ \A s \in Sides : t.child[s][Sentinel] = Null
      /\ t.root \in Alloc(t) \cup {Sentinel} /\ (t.root = Sentinel => Alloc(t) = {})
      /\ \A m \in Alloc(t), s \in Sides :
            /\ t.child[s][m] \in Alloc(t) \cup {Sentinel}
            /\ t.child[s][m] # Sentinel =>
                  t.child[s][m] # t.root /\ t.parent[t.child[s][m]] = m
      /\ \A m \in Alloc(t) \ {t.root} :
            t.parent[m] \in Alloc(t) /\ \E s \in Sides : t.child[s][t.parent[m]] = m
  BY DEF Linked
<1>4. Alloc(u) = Alloc(t) \cup {n}
  <2>1. \A m \in Nodes : m \in Alloc(u) <=> m \in Alloc(t) \/ m = n
    <3> SUFFICES ASSUME NEW m \in Nodes PROVE m \in Alloc(u) <=> m \in Alloc(t) \/ m = n
      OBVIOUS
    <3>1. /\ m \in Alloc(u) <=> u.child["left"][m] # Null
          /\ m \in Alloc(t) <=> t.child["left"][m] # Null
      BY AllocIs
    <3>2. u.child["left"][m] = IF m = n THEN Sentinel
                               ELSE IF m = p /\ "left" = side THEN n ELSE t.child["left"][m]
      BY <1>1, <1>2
    <3> QED
      BY ONLY <1>2, <3>1, <3>2, p \in Alloc(t)
  <2>2. Alloc(u) \subseteq Nodes
    BY AllocIs
  <2> QED
    BY ONLY <1>2, <2>1, <2>2, n \in Nodes \ Alloc(t)
<1>5. \A s \in Sides : u.child[s][Sentinel] = Null
  BY ONLY <1>1, <1>2, <1>3
<1>6. ASSUME NEW m \in Alloc(t) \cup {n}, NEW s \in Sides
      PROVE  /\ u.child[s][m] \in Alloc(t) \cup {n} \cup {Sentinel}
             /\ u.child[s][m] # Sentinel =>
                   u.child[s][m] # t.root /\ u.parent[u.child[s][m]] = m
  <2>1. CASE m = n
    BY ONLY <1>1, <1>2, <2>1
  <2>2. CASE m = p /\ s = side
    BY ONLY <1>1, <1>2, <1>3, <2>2, n \in Nodes \ Alloc(t), p \in Alloc(t)
  <2>3. CASE m # n /\ ~(m = p /\ s = side)
    <3>1. m \in Alloc(t) /\ u.child[s][m] = t.child[s][m]
      BY ONLY <1>1, <1>2, <2>3
    <3>2. t.child[s][m] # n
      BY ONLY <1>2, <1>3, <3>1, n \in Nodes \ Alloc(t)
    <3>3. t.child[s][m] \in Cells
      BY ONLY <1>2, <1>3, <3>1
    <3> QED
      BY ONLY <1>1, <1>3, <3>1, <3>2, <3>3
  <2> QED
    BY ONLY <2>1, <2>2, <2>3
<1>7. ASSUME NEW m \in (Alloc(t) \cup {n}) \ {t.root}
      PROVE  u.parent[m] \in Alloc(t) /\ \E s \in Sides : u.child[s][u.parent[m]] = m
  <2>1. CASE m = n
    BY ONLY <1>1, <1>2, <2>1, p \in Alloc(t), side \in Sides
  <2>2. CASE m # n
    <3>1. m \in Alloc(t) \ {t.root} /\ u.parent[m] = t.parent[m]
      BY ONLY <1>1, <1>2, <2>2
    <3>2. PICK s \in Sides : t.child[s][t.parent[m]] = m
      BY ONLY <1>3, <3>1
    <3>3. t.parent[m] \in Alloc(t) /\ t.parent[m] # n /\ t.parent[m] \in Cells
      BY ONLY <1>2, <1>3, <3>1, n \in Nodes \ Alloc(t)
    <3>4. ~(t.parent[m] = p /\ s = side)
      BY ONLY <1>2, <3>1, <3>2, t.child[side][p] = Sentinel
    <3>5. u.child[s][t.parent[m]] = m
      BY ONLY <1>1, <3>2, <3>3, <3>4
    <3> QED
      BY ONLY <3>1, <3>3, <3>5
  <2> QED
    BY ONLY <2>1, <2>2
<1>8. u.root \in Alloc(t) \cup {n} \cup {Sentinel} /\ u.root # Sentinel
  BY ONLY <1>1, <1>3, p \in Alloc(t)
<1> QED
  BY ONLY <1>1, <1>4, <1>5, <1>6, <1>7, <1>8 DEF Linked

(* Its place is next to that of p, between the same bounds of old nodes.   *)
LEMMA LeafPlaced ==
    ASSUME NEW t, NEW u, NEW pos, NEW b, Linked(t), Placed(t, pos, b),
           NEW p \in Alloc(t), NEW side \in Sides,
           t.child[side][p] = Sentinel, NEW n \in Nodes \ Alloc(t),
           WithLeaf(t, u, side, p, n),
           \A x \in Alloc(t) : /\ pos[x] < pos[p] => Key(x) <= Key(n)
                               /\ pos[p] < pos[x] => Key(n) <= Key(x),
           side = "left" => Key(n) <= Key(p),
           side = "right" => Key(p) <= Key(n)
    PROVE  Placed(u, LeafPlaces(pos, side, p, n), LeafBounds(b, pos, side, p, n))
<1>1. PICK pos2 : pos2 = LeafPlaces(pos, side, p, n)
  OBVIOUS
<1>2. PICK b2 : b2 = LeafBounds(b, pos, side, p, n)
  OBVIOUS
<1>3. /\ Alloc(u) = Alloc(t) \cup {n} /\ Alloc(t) \subseteq Nodes /\ Nodes \subseteq Cells
      /\ Sentinel \notin Alloc(t) /\ n \in Nodes /\ n \notin Alloc(t) /\ n # Sentinel
      /\ p \in Nodes /\ p # n /\ p \in Alloc(t)
  BY ZenonT(40), LeafLinked, AllocIs, Constants
<1>4. /\ pos \in [Nodes -> Int] /\ b \in [Sides -> [Nodes -> Int]]
      /\ \A x, y \in Alloc(t) : pos[x] = pos[y] => x = y
      /\ \A x, y \in Alloc(t) : pos[x] < pos[y] => Key(x) <= Key(y)
      /\ \A m \in Alloc(t) : Between(b, m, pos[m])
      /\ \A m \in Alloc(t), s \in Sides :
            t.child[s][m] # Sentinel =>
                /\ ~Toward(s, b[s][t.child[s][m]], b[s][m])
                /\ ~Toward(Other(s), b[Other(s)][t.child[s][m]], pos[m])
      /\ \A m, x \in Alloc(t), s \in Sides :
            Between(b, m, pos[x]) /\ Toward(s, pos[x], pos[m]) =>
                t.child[s][m] # Sentinel /\ Between(b, t.child[s][m], pos[x])
      /\ \A x \in Alloc(t) : Between(b, t.root, pos[x])
  BY DEF Placed
<1>5. /\ u.root = t.root
      /\ \A s \in Sides, m \in Cells :
            u.child[s][m] = IF m = n THEN Sentinel
                            ELSE IF m = p /\ s = side THEN n ELSE t.child[s][m]
  BY DEF WithLeaf
<1>6. PICK q \in Int : q = Apart(side, pos[p])
  BY <1>3, <1>4 DEF Apart
<1>7. /\ pos2 \in [Nodes -> Int] /\ pos2[n] = q
      /\ \A m \in Alloc(t) : pos2[m] = 3 * pos[m] /\ pos[m] \in Int /\ m \in Nodes
  <2>1. pos2 = [m \in Nodes |-> IF m = n THEN q ELSE 3 * pos[m]]
    BY ONLY <1>1, <1>6 DEF LeafPlaces
  <2>2. \A m \in Alloc(t) : m \in Nodes /\ m # n
    BY ONLY <1>3
  <2> QED
    BY ONLY <1>3, <1>4, <2>1, <2>2
<1>8. /\ b2 \in [Sides -> [Nodes -> Int]]
      /\ \A s \in Sides : b2[s][n] = IF s = side THEN 3 * b[s][p] ELSE 3 * pos[p]
      /\ \A s \in Sides, m \in Alloc(t) :
            /\ b[s][m] \in Int
            /\ b2[s][m] = IF s = side THEN 3 * b[s][m]
                          ELSE IF side = "left" THEN 3 * b[s][m] - 2 ELSE 3 * b[s][m] + 2
  <2>1. b2 = [s \in Sides |-> [m \in Nodes |->
                IF m = n THEN (IF s = side THEN 3 * b[s][p] ELSE 3 * pos[p])
                ELSE IF s = side THEN 3 * b[s][m]
                ELSE IF side = "left" THEN 3 * b[s][m] - 2 ELSE 3 * b[s][m] + 2]]
    BY ONLY <1>2 DEF LeafBounds
  <2>2. \A m \in Alloc(t) : m \in Nodes /\ m # n
    BY ONLY <1>3
  <2>3. \A s \in Sides, m \in Nodes : b[s][m] \in Int /\ pos[m] \in Int
    BY ONLY <1>4
  <2> QED
    BY ONLY <1>3, <2>1, <2>2, <2>3
<1>9. \A m \in Alloc(t), y \in Int : Between(b2, m, 3 * y) <=> Between(b, m, y)
  <2> SUFFICES ASSUME NEW m \in Alloc(t), NEW y \in Int
               PROVE  Between(b2, m, 3 * y) <=> Between(b, m, y)
    OBVIOUS
  <2> QED
    BY ONLY <1>8, side \in Sides DEF Between, Sides
<1>10. \A m \in Alloc(t) : Between(b2, m, q) <=> Between(b, m, pos[p])
  <2> SUFFICES ASSUME NEW m \in Alloc(t)
               PROVE  Between(b2, m, q) <=> Between(b, m, pos[p])
    OBVIOUS
  <2>1. pos[p] \in Int
    BY <1>3, <1>7
  <2> QED
    BY ONLY <1>6, <1>8, <2>1, side \in Sides DEF Between, Sides, Apart
<1>11. Between(b2, n, q)
  <2>1. pos[p] \in Int /\ Between(b, p, pos[p])
    BY <1>3, <1>4, <1>7
  <2> QED
    BY ONLY <1>3, <1>6, <1>8, <2>1, side \in Sides DEF Between, Sides, Apart
<1>12. \A x \in Alloc(t) : ~Between(b2, n, 3 * pos[x])
  <2> SUFFICES ASSUME NEW x \in Alloc(t), Between(b2, n, 3 * pos[x]) PROVE FALSE
    OBVIOUS
  <2>1. pos[p] \in Int /\ Between(b, p, pos[p]) /\ pos[x] \in Int
    BY <1>3, <1>4, <1>7
  <2>2. Between(b, p, pos[x]) /\ Toward(side, pos[x], pos[p])
    BY ONLY <1>3, <1>8, <2>1, Between(b2, n, 3 * pos[x]), side \in Sides
       DEF Between, Toward, Sides
  <2> QED
    BY ONLY <1>3, <1>4, <2>2, t.child[side][p] = Sentinel, side \in Sides
<1>13. \A m \in Alloc(t), s \in Sides :
          /\ Toward(s, q, 3 * pos[m]) <=> IF m = p THEN s = side ELSE Toward(s, pos[p], pos[m])
          /\ Toward(s, 3 * pos[m], q) <=> IF m = p THEN s # side ELSE Toward(s, pos[m], pos[p])
  <2> SUFFICES ASSUME NEW m \in Alloc(t), NEW s \in Sides
               PROVE  /\ Toward(s, q, 3 * pos[m]) <=> IF m = p THEN s = side
                                                       ELSE Toward(s, pos[p], pos[m])
                      /\ Toward(s, 3 * pos[m], q) <=> IF m = p THEN s # side
                                                       ELSE Toward(s, pos[m], pos[p])
    OBVIOUS
  <2>1. pos[p] \in Int /\ pos[m] \in Int /\ (m # p => pos[m] # pos[p])
    BY <1>3, <1>4, <1>7
  <2> QED
    BY ONLY <1>6, <2>1, side \in Sides, s \in Sides DEF Toward, Apart, Sides
<1>14. \A x, y \in Alloc(u) : pos2[x] = pos2[y] => x = y
  <2>1. \A x \in Alloc(t) : 3 * pos[x] # q
    BY ONLY <1>3, <1>6, <1>7, side \in Sides DEF Apart, Sides
  <2>2. \A x, y \in Alloc(t) : pos2[x] = pos2[y] => x = y
    <3> SUFFICES ASSUME NEW x \in Alloc(t), NEW y \in Alloc(t), pos2[x] = pos2[y]
                 PROVE  x = y
      OBVIOUS
    <3>1. 3 * pos[x] = 3 * pos[y] /\ pos[x] \in Int /\ pos[y] \in Int
      BY ONLY <1>7, pos2[x] = pos2[y]
    <3>2. pos[x] = pos[y]
      BY ONLY <3>1
    <3> QED
      BY ONLY <1>4, <3>2
  <2> QED
    BY ONLY <1>3, <1>7, <2>1, <2>2
<1>15. \A x, y \in Alloc(u) : pos2[x] < pos2[y] => Key(x) <= Key(y)
  <2>1. \A x, y \in Alloc(t) : pos2[x] < pos2[y] => Key(x) <= Key(y)
    BY ONLY <1>4, <1>7
  <2>2. ASSUME NEW x \in Alloc(t)
        PROVE  (pos2[x] < q => Key(x) <= Key(n)) /\ (q < pos2[x] => Key(n) <= Key(x))
    <3>1. /\ 3 * pos[x] < q => (x # p /\ pos[x] < pos[p]) \/ (x = p /\ side = "right")
          /\ q < 3 * pos[x] => (x # p /\ pos[p] < pos[x]) \/ (x = p /\ side = "left")
      BY <1>13, SidesAre DEF Toward, Sides
    <3> QED
      BY <1>7, <3>1
  <2> QED
    BY ONLY <1>3, <1>7, <2>1, <2>2
<1>16. \A m \in Alloc(u) : Between(b2, m, pos2[m])
  BY ONLY <1>3, <1>4, <1>7, <1>9, <1>11
<1>17. ASSUME NEW m \in Alloc(u), NEW s \in Sides, u.child[s][m] # Sentinel
       PROVE  /\ ~Toward(s, b2[s][u.child[s][m]], b2[s][m])
              /\ ~Toward(Other(s), b2[Other(s)][u.child[s][m]], pos2[m])
  <2>1. m \in Alloc(t) /\ m # n /\ m \in Cells /\ pos2[m] = 3 * pos[m] /\ pos[m] \in Int
    BY ONLY <1>3, <1>5, <1>7, <1>17
  <2>2. CASE m = p /\ s = side
    <3>1. u.child[s][m] = n
      BY ONLY <1>5, <2>1, <2>2
    <3>2. Other(s) \in Sides /\ Other(s) # s
      BY SidesAre
    <3> QED
      BY ONLY <1>8, <2>1, <2>2, <3>1, <3>2, s \in Sides DEF Toward
  <2>3. CASE ~(m = p /\ s = side)
    <3>1. PICK c : c = t.child[s][m]
      OBVIOUS
    <3>2. u.child[s][m] = c /\ c # Sentinel
      BY ONLY <1>5, <1>17, <2>1, <2>3, <3>1
    <3>3. c \in Alloc(t)
      BY <2>1, <3>1, <3>2 DEF Linked
    <3>4. ~Toward(s, b[s][c], b[s][m]) /\ ~Toward(Other(s), b[Other(s)][c], pos[m])
      BY ONLY <1>4, <2>1, <3>1, <3>2, s \in Sides
    <3>5. /\ b[s][c] \in Int /\ b[s][m] \in Int /\ b[Other(s)][c] \in Int
          /\ b2[s][c] = IF s = side THEN 3 * b[s][c]
                        ELSE IF side = "left" THEN 3 * b[s][c] - 2 ELSE 3 * b[s][c] + 2
          /\ b2[s][m] = IF s = side THEN 3 * b[s][m]
                        ELSE IF side = "left" THEN 3 * b[s][m] - 2 ELSE 3 * b[s][m] + 2
          /\ b2[Other(s)][c] = IF Other(s) = side THEN 3 * b[Other(s)][c]
                               ELSE IF side = "left" THEN 3 * b[Other(s)][c] - 2
                                    ELSE 3 * b[Other(s)][c] + 2
      <4>1. Other(s) \in Sides
        BY SidesAre
      <4> QED
        BY ONLY <1>8, <2>1, <3>3, <4>1, s \in Sides
    <3> QED
      BY ONLY <2>1, <3>2, <3>4, <3>5, s \in Sides, side \in Sides DEF Toward, Other, Sides
  <2> QED
    BY ONLY <2>2, <2>3
<1>18. ASSUME NEW m \in Alloc(u), NEW x \in Alloc(u), NEW s \in Sides,
              Between(b2, m, pos2[x]), Toward(s, pos2[x], pos2[m])
       PROVE  u.child[s][m] # Sentinel /\ Between(b2, u.child[s][m], pos2[x])
  <2>1. m # n
    <3> SUFFICES ASSUME m = n PROVE FALSE
      OBVIOUS
    <3>1. CASE x = n
      BY ONLY <1>6, <1>7, <1>18, <3>1, m = n, s \in Sides DEF Toward, Sides
    <3>2. CASE x # n
      BY ONLY <1>3, <1>7, <1>12, <1>18, <3>2, m = n
    <3> QED
      BY ONLY <3>1, <3>2
  <2>2. m \in Alloc(t) /\ m \in Cells /\ pos2[m] = 3 * pos[m] /\ pos[m] \in Int
    BY ONLY <1>3, <1>7, <2>1
  <2>3. CASE m = p /\ s = side /\ x = n
    <3>1. u.child[s][m] = n
      BY ONLY <1>3, <1>5, <2>1, <2>2, <2>3
    <3> QED
      BY ONLY <1>3, <1>7, <1>11, <2>3, <3>1
  <2>4. CASE ~(m = p /\ s = side /\ x = n)
    <3>1. PICK y \in Alloc(t) : /\ Between(b, m, pos[y]) /\ Toward(s, pos[y], pos[m])
                                /\ y = IF x = n THEN p ELSE x
      <4>1. CASE x = n
        <5>1. m # p
          BY ONLY <1>7, <1>13, <1>18, <2>2, <2>4, <4>1, s \in Sides
        <5> QED
          BY ONLY <1>3, <1>7, <1>10, <1>13, <1>18, <2>2, <4>1, <5>1, s \in Sides
      <4>2. CASE x # n
        <5>1. x \in Alloc(t) /\ pos2[x] = 3 * pos[x] /\ pos[x] \in Int
          BY ONLY <1>3, <1>7, <4>2
        <5>2. Between(b, m, pos[x])
          BY ONLY <1>9, <1>18, <2>2, <5>1
        <5>3. Toward(s, pos[x], pos[m])
          BY ONLY <1>18, <2>2, <5>1 DEF Toward
        <5> QED
          BY ONLY <4>2, <5>1, <5>2, <5>3
      <4> QED
        BY ONLY <4>1, <4>2
    <3>2. PICK c : c = t.child[s][m]
      OBVIOUS
    <3>3. c # Sentinel /\ Between(b, c, pos[y])
      BY ONLY <1>4, <2>2, <3>1, <3>2, s \in Sides
    <3>4. c \in Alloc(t)
      BY <2>2, <3>2, <3>3 DEF Linked
    <3>5. ~(m = p /\ s = side)
      BY ONLY <3>2, <3>3, t.child[side][p] = Sentinel
    <3>6. u.child[s][m] = c
      BY ONLY <1>5, <2>1, <2>2, <3>2, <3>5
    <3>7. Between(b2, c, pos2[x])
      BY ONLY <1>3, <1>7, <1>9, <1>10, <3>1, <3>3, <3>4, x \in Alloc(u)
    <3> QED
      BY ONLY <3>3, <3>6, <3>7
  <2> QED
    BY ONLY <2>3, <2>4
<1>19. \A x \in Alloc(u) : Between(b2, u.root, pos2[x])
  <2>1. t.root \in Alloc(t)
    BY <1>3 DEF Linked
  <2> QED
    BY ONLY <1>3, <1>4, <1>5, <1>7, <1>9, <1>10, <2>1
<1>20. Placed(u, pos2, b2)
  BY ONLY <1>7, <1>8, <1>14, <1>15, <1>16, <1>17, <1>18, <1>19 DEF Placed
<1> QED
  BY ONLY <1>1, <1>2, <1>20

(* A red leaf adds no weight.                                              *)
LEMMA LeafWeighed ==
    ASSUME NEW t, NEW u, NEW bh, Linked(t), Weighed(t, bh, NoPlace),
           NEW p \in Alloc(t), NEW side \in Sides,
           t.child[side][p] = Sentinel, NEW n \in Nodes \ Alloc(t),
           WithLeaf(t, u, side, p, n), u.red = t.red \cup {n}
    PROVE  Weighed(u, [bh EXCEPT ![n] = 0], NoPlace)
<1>1. PICK bh2 : bh2 = [bh EXCEPT ![n] = 0]
  OBVIOUS
<1>2. /\ Alloc(u) = Alloc(t) \cup {n} /\ Alloc(t) \subseteq Nodes /\ Nodes \subseteq Cells
      /\ Sentinel \notin Alloc(t) /\ n \in Nodes /\ n \notin Alloc(t) /\ n # Sentinel
      /\ Sentinel \in Cells /\ Null \notin Nodes
  <2>1. Alloc(u) = Alloc(t) \cup {n}
    BY ONLY Linked(t), p \in Alloc(t), side \in Sides, t.child[side][p] = Sentinel,
            n \in Nodes \ Alloc(t), WithLeaf(t, u, side, p, n), LeafLinked
  <2> QED
    BY <2>1, AllocIs, Constants
<1>3. /\ bh \in [Cells -> Nat] /\ bh[Sentinel] = 0
      /\ \A m \in Alloc(t), s \in Sides :
            bh[m] = bh[t.child[s][m]] + 0 + (IF m \in t.red THEN 0 ELSE 1)
  <2>1. \A m \in Alloc(t), s \in Sides : NoPlace # <<m, s>>
    BY <1>2 DEF NoPlace
  <2> QED
    BY <2>1 DEF Weighed
<1>4. /\ bh2 \in [Cells -> Nat] /\ bh2[n] = 0
      /\ \A m \in Cells : m # n => bh2[m] = bh[m]
  BY ONLY <1>1, <1>2, <1>3
<1>5. \A s \in Sides, m \in Cells :
            u.child[s][m] = IF m = n THEN Sentinel
                            ELSE IF m = p /\ s = side THEN n ELSE t.child[s][m]
  BY DEF WithLeaf
<1>6. ASSUME NEW m \in Alloc(u), NEW s \in Sides
      PROVE  bh2[m] = bh2[u.child[s][m]] + (IF NoPlace = <<m, s>> THEN 1 ELSE 0)
                      + (IF m \in u.red THEN 0 ELSE 1)
  <2>1. NoPlace # <<m, s>> /\ m \in Cells
    BY ONLY <1>2, m \in Alloc(u) DEF NoPlace
  <2>2. bh2[m] = bh2[u.child[s][m]] + 0 + (IF m \in u.red THEN 0 ELSE 1)
    <3>1. CASE m = n
      BY ONLY <1>2, <1>3, <1>4, <1>5, <3>1, u.red = t.red \cup {n}, s \in Sides
    <3>2. CASE m = p /\ s = side
      <4>1. m \in Alloc(t) /\ m # n /\ u.child[s][m] = n /\ t.child[s][m] = Sentinel
        BY ONLY <1>2, <1>5, <3>2, t.child[side][p] = Sentinel, p \in Alloc(t), side \in Sides
      <4>2. m \in u.red <=> m \in t.red
        BY ONLY <4>1, u.red = t.red \cup {n}
      <4> QED
        BY ONLY <1>2, <1>3, <1>4, <4>1, <4>2, s \in Sides
    <3>3. CASE m # n /\ ~(m = p /\ s = side)
      <4>1. m \in Alloc(t) /\ m \in Cells /\ u.child[s][m] = t.child[s][m]
        BY ONLY <1>2, <1>5, <3>3, m \in Alloc(u)
      <4>2. t.child[s][m] \in Alloc(t) \cup {Sentinel}
        BY <4>1 DEF Linked
      <4>3. t.child[s][m] \in Cells /\ t.child[s][m] # n
        BY ONLY <1>2, <4>2
      <4>4. m \in u.red <=> m \in t.red
        BY ONLY <3>3, u.red = t.red \cup {n}
      <4> QED
        BY ONLY <1>3, <1>4, <3>3, <4>1, <4>3, <4>4
    <3> QED
      BY ONLY <3>1, <3>2, <3>3
  <2> QED
    BY ONLY <2>1, <2>2
<1>7. bh2[Sentinel] = 0
  BY ONLY <1>2, <1>3, <1>4
<1>8. Weighed(u, bh2, NoPlace)
  BY ONLY <1>4, <1>6, <1>7 DEF Weighed
<1> QED
  BY ONLY <1>1, <1>8

(* The node that a descent for a key ends at, and the side that is free.   *)
LEMMA InsertPlaceOrders ==
    ASSUME NEW t, NEW pos, NEW b, Linked(t), Placed(t, pos, b),
           t.root # Sentinel, NEW k \in Nat,
           NEW p, p = InsertPlace(t, t.root, k), NEW side, side = InsertSide(k, p)
    PROVE  /\ p \in Alloc(t) /\ side \in Sides /\ t.child[side][p] = Sentinel
           /\ \A x \in Alloc(t) : /\ pos[x] < pos[p] => Key(x) <= k
                                  /\ pos[p] < pos[x] => k <= Key(x)
           /\ side = "left" => k <= Key(p)
           /\ side = "right" => Key(p) <= k
<1>1. /\ pos \in [Nodes -> Int] /\ b \in [Sides -> [Nodes -> Int]]
      /\ \A x, y \in Alloc(t) : pos[x] = pos[y] => x = y
      /\ \A x, y \in Alloc(t) : pos[x] < pos[y] => Key(x) <= Key(y)
      /\ \A m \in Alloc(t) : Between(b, m, pos[m])
      /\ \A m, x \in Alloc(t), s \in Sides :
            Between(b, m, pos[x]) /\ Toward(s, pos[x], pos[m]) =>
                t.child[s][m] # Sentinel /\ Between(b, t.child[s][m], pos[x])
      /\ \A x \in Alloc(t) : Between(b, t.root, pos[x])
  BY DEF Placed
<1>2. /\ Alloc(t) \subseteq Nodes
      /\ \A m \in Alloc(t) : Key(m) \in Nat /\ pos[m] \in Int
      /\ \A m \in Alloc(t), s \in Sides : b[s][m] \in Int
      /\ "left" \in Sides /\ "right" \in Sides /\ t.root \in Alloc(t)
  <2>1. Alloc(t) \subseteq Nodes /\ t.root \in Alloc(t)
    BY AllocIs DEF Linked
  <2> QED
    BY <1>1, <2>1, KeyIs DEF Sides
<1> DEFINE Right(m, x) == /\ pos[x] < pos[m] => Key(x) <= k
                          /\ pos[m] < pos[x] => k <= Key(x)
           S == {m \in Alloc(t) : \A x \in Alloc(t) : ~Between(b, m, pos[x]) => Right(m, x)}
<1>3. S \subseteq Alloc(t) /\ t.root \in S
  BY <1>1, <1>2
<1>4. ASSUME NEW m \in S, t.child[InsertSide(k, m)][m] # Sentinel
      PROVE  t.child[InsertSide(k, m)][m] \in S
  <2>1. PICK s \in Sides : s = InsertSide(k, m)
    BY DEF InsertSide, Sides
  <2>2. PICK c : c = t.child[s][m]
    OBVIOUS
  <2>3. /\ c \in Alloc(t) /\ Between(b, m, pos[c]) /\ Toward(s, pos[c], pos[m])
        /\ m \in Alloc(t)
    <3>1. m \in Alloc(t) /\ c # Sentinel
      BY <1>4, <2>1, <2>2
    <3> QED
      BY ONLY Linked(t), Placed(t, pos, b), <2>2, <3>1, s \in Sides, ChildIs
  <2>4. ASSUME NEW x \in Alloc(t), ~Between(b, c, pos[x]) PROVE Right(c, x)
    <3>1. /\ pos[x] \in Int /\ pos[m] \in Int /\ pos[c] \in Int /\ Key(x) \in Nat /\ Key(m) \in Nat
          /\ b["left"][m] \in Int /\ b["right"][m] \in Int
          /\ Between(b, m, pos[m]) /\ (pos[x] = pos[m] => x = m)
          /\ pos[m] < pos[x] => Key(m) <= Key(x)
          /\ pos[x] < pos[m] => Key(x) <= Key(m)
      BY <1>1, <1>2, <2>3
    <3>2. s = IF k < Key(m) THEN "left" ELSE "right"
      BY <2>1 DEF InsertSide
    <3>3. CASE Between(b, m, pos[x])
      <4>1. ~Toward(s, pos[x], pos[m])
        BY ONLY <1>1, <2>2, <2>3, <2>4, <3>3, s \in Sides
      <4> QED
        BY ONLY <2>3, <3>1, <3>2, <4>1 DEF Toward
    <3>4. CASE ~Between(b, m, pos[x])
      <4>1. Right(m, x)
        BY <3>4
      <4> QED
        BY ONLY <2>3, <3>1, <3>4, <4>1 DEF Between
    <3> QED
      BY ONLY <3>3, <3>4
  <2>5. c \in S
    BY ONLY <2>3, <2>4
  <2> QED
    BY ONLY <2>1, <2>2, <2>5
<1> HIDE DEF S, Right
<1>5. p \in S /\ t.child[side][p] = Sentinel
  <2>1. /\ InsertPlace(t, t.root, k) \in S
        /\ t.child[InsertSide(k, InsertPlace(t, t.root, k))][InsertPlace(t, t.root, k)] = Sentinel
    BY ONLY Linked(t), Placed(t, pos, b), k \in Nat, <1>3, <1>4, InsertPlaceIs
  <2> QED
    BY ONLY <2>1, p = InsertPlace(t, t.root, k), side = InsertSide(k, p)
<1>6. p \in Alloc(t) /\ side \in Sides
  BY <1>3, <1>5 DEF InsertSide, Sides
<1>7. \A x \in Alloc(t) : ~Between(b, p, pos[x]) => Right(p, x)
  BY <1>5 DEF S
<1>8. Key(p) \in Nat /\ side = IF k < Key(p) THEN "left" ELSE "right"
  BY <1>2, <1>6 DEF InsertSide
<1>9. ASSUME NEW x \in Alloc(t)
      PROVE  /\ pos[x] < pos[p] => Key(x) <= k
             /\ pos[p] < pos[x] => k <= Key(x)
  <2>1. CASE Between(b, p, pos[x])
    <3>1. ~Toward(side, pos[x], pos[p])
      BY ONLY <1>1, <1>5, <1>6, <2>1
    <3>2. /\ pos[x] \in Int /\ pos[p] \in Int /\ Key(x) \in Nat
          /\ pos[p] < pos[x] => Key(p) <= Key(x)
          /\ pos[x] < pos[p] => Key(x) <= Key(p)
      BY ONLY <1>1, <1>2, <1>6
    <3> QED
      BY ONLY <1>8, <3>1, <3>2, k \in Nat DEF Toward
  <2>2. CASE ~Between(b, p, pos[x])
    BY <1>7, <2>2 DEF Right
  <2> QED
    BY ONLY <2>1, <2>2
<1>10. (side = "left" => k <= Key(p)) /\ (side = "right" => Key(p) <= k)
  BY ONLY <1>8, k \in Nat
<1> QED
  BY ONLY <1>5, <1>6, <1>9, <1>10

-----------------------------------------------------------------------------
(* The steps, as changes of trees.  First what soundness says when no call *)
(* is under way and in push.                                               *)
LEMMA PlaceIsNone ==
    ASSUME NEW t, NEW a, NEW nd, a # "delete" \/ nd = t.root
    PROVE  PlaceOf(t, a, nd) = NoPlace
  BY DEF PlaceOf

(* More nodes than there are cannot be in a tree.                          *)
LEMMA AllocIsFinite ==
    ASSUME NEW t
    PROVE  /\ IsFiniteSet(Alloc(t)) /\ Cardinality(Alloc(t)) \in Nat
           /\ Cardinality(Alloc(t)) <= Cardinality(Nodes) /\ Cardinality(Nodes) \in Nat
  BY AllocIs, NodesAreFinite, FS_Subset, FS_CardinalityType

(* The node that push adds.                                                *)
WithNode(t, u, n) == Alloc(u) = Alloc(t) \cup {n}

(* A push below a node leaves a sound tree, in the turn where the loop     *)
(* looks at the new node.                                                  *)
LEMMA LeafSound ==
    ASSUME NEW t, NEW u, NEW size, Sound(t, size, "idle", Null), t.root # Sentinel,
           NEW n \in Nodes \ Alloc(t),
           NEW p, p = InsertPlace(t, t.root, Key(n)),
           NEW side, side = InsertSide(Key(n), p),
           WithLeaf(t, u, side, p, n), u.red = t.red \cup {n}
    PROVE  Sound(u, size, "push", n) /\ WithNode(t, u, n)
<1>1. /\ Linked(t) /\ Colored(t, "idle", Null) /\ Counted(t, size, "idle", Null)
      /\ Key(n) \in Nat
  BY KeyIs DEF Sound
<1>2. PICK pos, b : Placed(t, pos, b)
  BY DEF Sound
<1>3. PICK bh : Weighed(t, bh, NoPlace)
  BY PlaceIsNone DEF Sound
<1>4. /\ p \in Alloc(t) /\ side \in Sides /\ t.child[side][p] = Sentinel
      /\ \A x \in Alloc(t) : /\ pos[x] < pos[p] => Key(x) <= Key(n)
                             /\ pos[p] < pos[x] => Key(n) <= Key(x)
      /\ side = "left" => Key(n) <= Key(p)
      /\ side = "right" => Key(p) <= Key(n)
  BY ONLY <1>1, <1>2, t.root # Sentinel, p = InsertPlace(t, t.root, Key(n)),
          side = InsertSide(Key(n), p), InsertPlaceOrders
<1>5. Linked(u) /\ Alloc(u) = Alloc(t) \cup {n}
  <2>1. Linked(t) /\ p \in Alloc(t) /\ side \in Sides /\ t.child[side][p] = Sentinel
    BY <1>1, <1>4
  <2>2. n \in Nodes \ Alloc(t) /\ WithLeaf(t, u, side, p, n)
    OBVIOUS
  <2>3. Alloc(u) = Alloc(t) \cup {n}
    <3>1. PICK v : v = Alloc(u)
      OBVIOUS
    <3>2. PICK w : w = Alloc(t) \cup {n}
      OBVIOUS
    <3>3. v = w
      BY ONLY <2>1, <2>2, <3>1, <3>2, LeafLinked
    <3> QED
      BY <3>1, <3>2, <3>3
  <2>4. Linked(u)
    BY ONLY <2>1, <2>2, LeafLinked
  <2> QED
    BY ONLY <2>3, <2>4
<1>6. Placed(u, LeafPlaces(pos, side, p, n), LeafBounds(b, pos, side, p, n))
  BY ONLY <1>1, <1>2, <1>4, n \in Nodes \ Alloc(t), WithLeaf(t, u, side, p, n), LeafPlaced
<1>7. Weighed(u, [bh EXCEPT ![n] = 0], NoPlace)
  BY ONLY <1>1, <1>3, <1>4, n \in Nodes \ Alloc(t), WithLeaf(t, u, side, p, n),
          u.red = t.red \cup {n}, LeafWeighed
<1>8. PlaceOf(u, "push", n) = NoPlace
  BY PlaceIsNone
<1>9. Colored(u, "push", n)
  <2>1. /\ u.root = t.root /\ t.root \in Alloc(t) /\ n \in Cells /\ n \notin Alloc(t)
        /\ Alloc(t) \subseteq Cells
        /\ \A m \in Cells : u.parent[m] = IF m = n THEN p ELSE t.parent[m]
    BY <1>1, AllocIs, Constants DEF WithLeaf, Linked
  <2>2. \A m \in Alloc(t) \ {t.root} : t.parent[m] \in Alloc(t)
    BY <1>1 DEF Linked
  <2>3. /\ t.red \subseteq Alloc(t) /\ t.root \notin t.red
        /\ \A m \in Alloc(t) \ {t.root} : ~(m \in t.red /\ t.parent[m] \in t.red)
    BY <1>1 DEF Colored
  <2>4. ASSUME NEW m \in Alloc(u) \ {u.root}, m \in u.red, u.parent[m] \in u.red
        PROVE  m = n
    <3> SUFFICES ASSUME m # n PROVE FALSE
      OBVIOUS
    <3>1. m \in Alloc(t) \ {t.root} /\ m \in t.red
      BY ONLY <1>5, <2>1, <2>4, m # n, u.red = t.red \cup {n}
    <3>2. u.parent[m] = t.parent[m] /\ t.parent[m] \in Alloc(t)
      BY ONLY <2>1, <2>2, <3>1, m # n
    <3> QED
      BY ONLY <2>1, <2>3, <2>4, <3>1, <3>2, u.red = t.red \cup {n}
  <2>5. u.red \subseteq Alloc(u) /\ u.root \notin u.red
    BY ONLY <1>5, <2>1, <2>3, u.red = t.red \cup {n}
  <2> QED
    BY ONLY <2>4, <2>5 DEF Colored
<1>10. Counted(u, size, "push", n)
  <2>1. /\ Cardinality(Alloc(u)) = Cardinality(Alloc(t)) + 1
        /\ Cardinality(Alloc(t)) \in Nat
    BY <1>5, AllocIsFinite, FS_AddElement
  <2>2. size = Cardinality(Alloc(t)) /\ size \in 0 .. Cardinality(Nodes)
    BY <1>1 DEF Counted
  <2>3. n \in u.red
    OBVIOUS
  <2> QED
    BY ONLY <2>1, <2>2, <2>3 DEF Counted
<1> QED
  BY ONLY <1>5, <1>6, <1>7, <1>8, <1>9, <1>10 DEF Sound, WithNode

(* The first node of a tree is black, and no repair is needed.             *)
LEMMA FirstSound ==
    ASSUME NEW t, NEW u, NEW size, Sound(t, size, "idle", Null), t.root = Sentinel,
           NEW n \in Nodes, u \in Trees, u.root = n, u.red = t.red \ {n},
           \A s \in Sides, m \in Cells :
              u.child[s][m] = IF m = n THEN Sentinel ELSE t.child[s][m]
    PROVE  Sound(u, size + 1, "idle", Null) /\ WithNode(t, u, n)
<1>1. /\ Linked(t) /\ Colored(t, "idle", Null) /\ Counted(t, size, "idle", Null)
      /\ Alloc(t) = {} /\ Alloc(u) \subseteq Nodes
      /\ \A s \in Sides : t.child[s][Sentinel] = Null
  BY AllocIs DEF Sound, Linked
<1>2. /\ n # Sentinel /\ Sentinel # Null /\ Sentinel \in Cells /\ Nodes \subseteq Cells
      /\ "left" \in Sides /\ n # Null /\ Null \notin Nodes
  BY Constants DEF Sides
<1>3. Alloc(u) = {n}
  <2>1. \A m \in Nodes : m \in Alloc(u) <=> m = n
    <3> SUFFICES ASSUME NEW m \in Nodes PROVE m \in Alloc(u) <=> m = n
      OBVIOUS
    <3>1. /\ m \in Alloc(u) <=> u.child["left"][m] # Null
          /\ t.child["left"][m] = Null
      BY <1>1, AllocIs
    <3>2. u.child["left"][m] = IF m = n THEN Sentinel ELSE t.child["left"][m]
      BY <1>2
    <3> QED
      BY ONLY <1>2, <3>1, <3>2
  <2> QED
    BY ONLY <1>1, <2>1, n \in Nodes
<1>4. \A s \in Sides : u.child[s][n] = Sentinel /\ u.child[s][Sentinel] = Null
  BY <1>1, <1>2
<1>5. Linked(u)
  BY ONLY <1>2, <1>3, <1>4, u \in Trees, u.root = n DEF Linked
<1>6. \E pos, b : Placed(u, pos, b)
  <2>1. PICK pos : pos = [m \in Nodes |-> 0]
    OBVIOUS
  <2>2. PICK b : b = [s \in Sides |-> [m \in Nodes |-> IF s = "left" THEN -1 ELSE 1]]
    OBVIOUS
  <2>3. pos \in [Nodes -> Int] /\ b \in [Sides -> [Nodes -> Int]]
    BY ONLY <2>1, <2>2
  <2>4. pos[n] = 0 /\ b["left"][n] = -1 /\ b["right"][n] = 1
    BY ONLY <2>1, <2>2, n \in Nodes DEF Sides
  <2>5. Between(b, n, pos[n]) /\ \A s \in Sides : ~Toward(s, pos[n], pos[n])
    BY ONLY <2>4 DEF Between, Toward
  <2>6. /\ \A x, y \in Alloc(u) : pos[x] = pos[y] => x = y
        /\ \A x, y \in Alloc(u) : pos[x] < pos[y] => Key(x) <= Key(y)
        /\ \A m \in Alloc(u) : Between(b, m, pos[m])
        /\ \A x \in Alloc(u) : Between(b, u.root, pos[x])
    BY ONLY <1>3, <2>4, <2>5, u.root = n
  <2>7. /\ \A m \in Alloc(u), s \in Sides :
              u.child[s][m] # Sentinel =>
                  /\ ~Toward(s, b[s][u.child[s][m]], b[s][m])
                  /\ ~Toward(Other(s), b[Other(s)][u.child[s][m]], pos[m])
        /\ \A m, x \in Alloc(u), s \in Sides :
              Between(b, m, pos[x]) /\ Toward(s, pos[x], pos[m]) =>
                  u.child[s][m] # Sentinel /\ Between(b, u.child[s][m], pos[x])
    BY ONLY <1>3, <1>4, <2>5
  <2>8. Placed(u, pos, b)
    BY ONLY <2>3, <2>6, <2>7 DEF Placed
  <2> QED
    BY <2>8
<1>7. u.red = {}
  BY ONLY <1>1, u.red = t.red \ {n} DEF Colored
<1>8. \E bh : Weighed(u, bh, NoPlace)
  <2>1. PICK bh : bh = [m \in Cells |-> IF m = n THEN 1 ELSE 0]
    OBVIOUS
  <2>2. /\ bh \in [Cells -> Nat] /\ bh[Sentinel] = 0 /\ bh[n] = 1
    BY ONLY <1>2, <2>1, n \in Nodes
  <2>3. \A s \in Sides : NoPlace # <<n, s>>
    BY <1>2 DEF NoPlace
  <2>4. Weighed(u, bh, NoPlace)
    BY ONLY <1>3, <1>4, <1>7, <2>2, <2>3 DEF Weighed
  <2> QED
    BY <2>4
<1>9. PlaceOf(u, "idle", Null) = NoPlace
  BY PlaceIsNone
<1>10. Colored(u, "idle", Null)
  BY ONLY <1>3, <1>7 DEF Colored
<1>11. Counted(u, size + 1, "idle", Null)
  <2>1. /\ Cardinality({n}) = 1 /\ Cardinality(Alloc(t)) = 0
        /\ Cardinality(Alloc(u)) <= Cardinality(Nodes) /\ Cardinality(Nodes) \in Nat
    BY <1>1, FS_EmptySet, FS_Singleton, AllocIsFinite
  <2>2. size = Cardinality(Alloc(t))
    BY <1>1 DEF Counted
  <2> QED
    BY ONLY <1>3, <2>1, <2>2 DEF Counted
<1> QED
  BY ONLY <1>1, <1>3, <1>5, <1>6, <1>8, <1>9, <1>10, <1>11 DEF Sound, WithNode

(* A push keeps the tree sound and adds one node with its key.             *)
LEMMA PushSound ==
    ASSUME TreeInv, NEW k \in Keys, Push(k)
    PROVE  TreeInv' /\ \E n \in Nodes \ Alloc(tree) : Key(n) = k /\ WithNode(tree, tree', n)
<1>1. /\ Sound(tree, treeSize, at, node) /\ at = "idle"
      /\ reply' = NoKey
  BY DEF TreeInv, Push
<1>2. node = Null /\ tree \in Trees /\ tree.red \subseteq Nodes
  <2>1. node = Null /\ Linked(tree) /\ Colored(tree, at, node)
    BY <1>1 DEF Sound, Counted
  <2> QED
    BY <2>1, AllocIs DEF Linked, Colored
<1>3. Sound(tree, treeSize, "idle", Null)
  BY <1>1, <1>2
<1>4. PICK n \in Nodes \ Alloc(tree) : /\ Key(n) = k
                                       /\ \/ tree.root = Sentinel /\ PushFirst(n)
                                          \/ tree.root # Sentinel /\ PushBelow(n)
  <2>1. PICK c \in Copies : /\ <<k, c>> \notin InTree
                            /\ \/ tree.root = Sentinel /\ PushFirst(<<k, c>>)
                               \/ tree.root # Sentinel /\ PushBelow(<<k, c>>)
    BY DEF Push
  <2>2. <<k, c>> \in Nodes \ Alloc(tree)
    BY <2>1 DEF Nodes, Alloc, InTree
  <2>3. Key(<<k, c>>) = k
    BY <2>2, KeyIs
  <2> QED
    BY <2>1, <2>2, <2>3
<1>5. n \in Nodes /\ n \in Cells /\ n \in Links /\ n # Sentinel /\ Sentinel \in Cells
      /\ Sentinel \in Links /\ Null \in Links /\ Null \notin Nodes
      /\ Nodes \subseteq Cells
  BY <1>4, Constants
<1>6. CASE tree.root = Sentinel /\ PushFirst(n)
  <2>1. PICK v : v = Paint(tree, {}, {n})
    OBVIOUS
  <2>2. /\ v \in Trees /\ v.child = tree.child /\ v.parent = tree.parent
        /\ v.red = tree.red \ {n} /\ v.root = tree.root
    <3>1. {} \subseteq Nodes
      OBVIOUS
    <3>2. tree \in Trees
      BY <1>2
    <3>3. /\ Paint(tree, {}, {n}) \in Trees
          /\ Paint(tree, {}, {n}).root = tree.root
          /\ Paint(tree, {}, {n}).child = tree.child
          /\ Paint(tree, {}, {n}).parent = tree.parent
          /\ Paint(tree, {}, {n}).red = (tree.red \cup {}) \ {n}
      BY ONLY <3>1, <3>2, PaintIs
    <3> QED
      BY ONLY <2>1, <3>3
  <2>3. /\ tree' = [v EXCEPT !.root = n,
                        !.child = [s \in Sides |-> [@[s] EXCEPT ![n] = Sentinel]],
                        !.parent[n] = Null]
        /\ treeSize' = treeSize + 1 /\ at' = "idle" /\ node' = Null
    BY ONLY <1>1, <1>2, <1>6, <2>1 DEF PushFirst
  <2>4. PICK u : u = [v EXCEPT !.root = n,
                        !.child = [s \in Sides |-> [@[s] EXCEPT ![n] = Sentinel]],
                        !.parent[n] = Null]
    BY ZenonT(40)
  <2>5. /\ u \in Trees /\ u.root = n /\ u.red = tree.red \ {n}
        /\ \A s \in Sides, m \in Cells :
              u.child[s][m] = IF m = n THEN Sentinel ELSE tree.child[s][m]
    BY ONLY Zenon, <1>5, <2>2, <2>4 DEF Trees
  <2>6. Sound(u, treeSize + 1, "idle", Null) /\ WithNode(tree, u, n)
    BY ONLY <1>3, <1>5, <1>6, <2>5, FirstSound
  <2> QED
    BY ONLY <1>1, <1>4, <2>3, <2>4, <2>6 DEF TreeInv
<1>7. CASE tree.root # Sentinel /\ PushBelow(n)
  <2>1. PICK p : p = InsertPlace(tree, tree.root, Key(n))
    OBVIOUS
  <2>2. PICK side : side = InsertSide(Key(n), p)
    OBVIOUS
  <2>3. PICK t : t = [tree EXCEPT !.child[side][p] = n]
    OBVIOUS
  <2>4. PICK u : u = [Paint(t, {n}, {}) EXCEPT
                          !.child = [s \in Sides |-> [@[s] EXCEPT ![n] = Sentinel]],
                          !.parent[n] = p]
    OBVIOUS
  <2>5. tree' = u /\ at' = "push" /\ node' = n /\ treeSize' = treeSize
    BY ONLY <1>7, <2>1, <2>2, <2>3, <2>4, Zenon DEF PushBelow, InsertPlace
  <2>6. p \in Alloc(tree) /\ p \in Nodes /\ side \in Sides
    <3>1. Linked(tree) /\ \E pos, b : Placed(tree, pos, b)
      BY <1>1 DEF Sound
    <3>2. PICK pos, b : Placed(tree, pos, b)
      BY <3>1
    <3>3. Key(n) \in Nat
      BY <1>5, KeyIs
    <3>4. p \in Alloc(tree) /\ side \in Sides
      BY ONLY <1>7, <2>1, <2>2, <3>1, <3>2, <3>3, InsertPlaceOrders
    <3> QED
      BY <3>4, AllocIs
  <2>7. t \in Trees /\ t.root = tree.root /\ t.parent = tree.parent /\ t.red = tree.red
        /\ \A s \in Sides, m \in Cells :
              t.child[s][m] = IF s = side /\ m = p THEN n ELSE tree.child[s][m]
    BY ONLY <1>2, <1>5, <2>3, <2>6 DEF Trees
  <2>8. PICK v : v = Paint(t, {n}, {})
    OBVIOUS
  <2>9. /\ v \in Trees /\ v.child = t.child /\ v.parent = t.parent
        /\ v.red = t.red \cup {n} /\ v.root = t.root
    <3>1. {n} \subseteq Nodes /\ t \in Trees
      BY <1>5, <2>7
    <3>2. /\ Paint(t, {n}, {}) \in Trees
          /\ Paint(t, {n}, {}).root = t.root
          /\ Paint(t, {n}, {}).child = t.child
          /\ Paint(t, {n}, {}).parent = t.parent
          /\ Paint(t, {n}, {}).red = (t.red \cup {n}) \ {}
      BY ONLY <3>1, PaintIs
    <3> QED
      BY ONLY <2>8, <3>2
  <2>10. u = [v EXCEPT !.child = [s \in Sides |-> [@[s] EXCEPT ![n] = Sentinel]],
                       !.parent[n] = p]
    BY ONLY SMTT(30), <2>4, <2>8
  <2>11. /\ u \in Trees /\ u.root = v.root /\ u.red = v.red
         /\ \A s \in Sides, m \in Cells :
               u.child[s][m] = IF m = n THEN Sentinel ELSE v.child[s][m]
         /\ \A m \in Cells : u.parent[m] = IF m = n THEN p ELSE v.parent[m]
    <3>1. p \in Links
      BY <2>6, Constants
    <3> QED
      BY ONLY Zenon, <1>5, <2>9, <2>10, <3>1 DEF Trees
  <2>12. WithLeaf(tree, u, side, p, n) /\ u.red = tree.red \cup {n}
    BY ONLY <1>5, <2>7, <2>9, <2>11 DEF WithLeaf
  <2>13. Sound(u, treeSize, "push", n) /\ WithNode(tree, u, n)
    BY ONLY <1>3, <1>4, <1>7, <2>1, <2>2, <2>12, LeafSound
  <2> QED
    BY ONLY <1>1, <1>4, <2>5, <2>13 DEF TreeInv
<1> QED
  BY ONLY <1>4, <1>6, <1>7

-----------------------------------------------------------------------------
(* The loop of push, on two red nodes.  What it can rely on.               *)
LEMMA TwoRedsAre ==
    ASSUME NEW t, NEW size, NEW n, Sound(t, size, "push", n),
           n # t.root, t.parent[n] \in t.red,
           NEW p, p = t.parent[n], NEW g, g = t.parent[p]
    PROVE  /\ Linked(t) /\ t \in Trees /\ t.red \subseteq Alloc(t) /\ t.root \notin t.red
           /\ n \in Alloc(t) /\ n \in t.red
           /\ p \in Alloc(t) /\ p \in t.red /\ p # t.root /\ p # n
           /\ g \in Alloc(t) /\ g \notin t.red /\ g # p /\ g # n
           /\ SideOf(t, n) \in Sides /\ t.child[SideOf(t, n)][p] = n
           /\ SideOf(t, p) \in Sides /\ t.child[SideOf(t, p)][g] = p
           /\ \A m \in Alloc(t) \ {t.root} : m \in t.red /\ t.parent[m] \in t.red => m = n
<1>1. Linked(t) /\ Colored(t, "push", n) /\ Counted(t, size, "push", n) /\ t \in Trees
  BY DEF Sound, Linked
<1>2. PICK pos, b : Placed(t, pos, b)
  BY DEF Sound
<1>3. /\ n \in t.red /\ t.red \subseteq Alloc(t) /\ t.root \notin t.red
      /\ \A m \in Alloc(t) \ {t.root} : m \in t.red /\ t.parent[m] \in t.red => m = n
  BY <1>1 DEF Colored, Counted
<1>4. n \in Alloc(t) /\ n # t.root
  BY <1>3
<1>5. /\ p \in Alloc(t) /\ p # n
      /\ SideOf(t, n) \in Sides /\ t.child[SideOf(t, n)][p] = n
  BY ONLY <1>1, <1>2, <1>4, p = t.parent[n], ParentIs
<1>6. p \in t.red /\ p # t.root /\ p \in Alloc(t)
  BY <1>3, <1>5
<1>7. /\ g \in Alloc(t) /\ g # p
      /\ SideOf(t, p) \in Sides /\ t.child[SideOf(t, p)][g] = p
  BY ONLY <1>1, <1>2, <1>6, g = t.parent[p], ParentIs
<1>8. g \notin t.red
  BY ONLY <1>3, <1>5, <1>6, g = t.parent[p]
<1> QED
  BY ONLY <1>1, <1>3, <1>4, <1>5, <1>6, <1>7, <1>8

(* Two nodes and the black node above them change colours.                 *)
LEMMA PushRecolourSound ==
    ASSUME NEW t, NEW size, NEW n, Sound(t, size, "push", n),
           n # t.root, t.parent[n] \in t.red,
           NEW p, p = t.parent[n], NEW g, g = t.parent[p],
           NEW uncle, uncle = t.child[Other(SideOf(t, p))][g], uncle \in t.red
    PROVE  Sound(Paint(t, {g}, {p, uncle}), size, "push", g)
<1>1. PICK side : side = SideOf(t, p)
  BY SMTT(30)
<1>2. PICK r : r = Paint(t, {g}, {p, uncle})
  OBVIOUS
<1>3. /\ Linked(t) /\ t \in Trees /\ t.red \subseteq Alloc(t) /\ t.root \notin t.red
      /\ n \in Alloc(t) /\ n \in t.red
      /\ p \in Alloc(t) /\ p \in t.red /\ p # t.root /\ p # n
      /\ g \in Alloc(t) /\ g \notin t.red /\ g # p /\ g # n
      /\ SideOf(t, p) \in Sides /\ t.child[SideOf(t, p)][g] = p
      /\ \A m \in Alloc(t) \ {t.root} : m \in t.red /\ t.parent[m] \in t.red => m = n
  BY ONLY Sound(t, size, "push", n), n # t.root, t.parent[n] \in t.red,
          p = t.parent[n], g = t.parent[p], TwoRedsAre
<1>4. /\ uncle \in Alloc(t) /\ side \in Sides /\ Other(side) \in Sides /\ Other(side) # side
      /\ t.child[side][g] = p /\ t.child[Other(side)][g] = uncle
      /\ \A s \in Sides : s = side \/ s = Other(side)
      /\ Alloc(t) \subseteq Nodes /\ Nodes \subseteq Cells /\ Sentinel \notin Nodes
      /\ Sentinel \in Cells
  <2>1. side \in Sides
    BY <1>1, <1>3
  <2> QED
    BY <1>1, <1>3, <2>1, SidesAre, AllocIs, Constants
<1>5. /\ SameShape(t, r) /\ r.red = (t.red \cup {g}) \ {p, uncle}
      /\ r.root = t.root /\ r.parent = t.parent /\ r.child = t.child
  <2>1. {g} \subseteq Nodes /\ t \in Trees
    BY <1>3, <1>4
  <2>2. /\ SameShape(t, Paint(t, {g}, {p, uncle}))
        /\ Paint(t, {g}, {p, uncle}).red = (t.red \cup {g}) \ {p, uncle}
    BY ONLY <2>1, PaintSameShape
  <2> QED
    BY ONLY <1>2, <2>2 DEF SameShape
<1>6. /\ Linked(r) /\ Alloc(r) = Alloc(t)
      /\ \A pos, b : Placed(t, pos, b) => Placed(r, pos, b)
  BY ONLY <1>3, <1>5, SameShapeKeeps
<1>7. PICK pos, b : Placed(t, pos, b)
  BY DEF Sound
<1>8. p # uncle /\ uncle # g /\ t.parent[uncle] = g /\ t.parent[p] = g
  <2>1. /\ t.child[Other(side)][g] # Sentinel /\ g \in Alloc(t)
    BY <1>3, <1>4
  <2>2. uncle # g /\ t.parent[uncle] = g
    BY ONLY <1>3, <1>4, <1>7, <2>1, ChildIs
  <2>3. t.child[side][g] # Sentinel /\ p # t.child[Other(side)][g]
    <3>1. t.child[side][g] # Sentinel
      BY <1>3, <1>4
    <3> QED
      BY ONLY <1>3, <1>4, <1>7, <3>1, ChildIs
  <2> QED
    BY ONLY <1>4, <2>2, <2>3, g = t.parent[p]
<1>9. PICK bh : Weighed(t, bh, NoPlace)
  BY PlaceIsNone DEF Sound
<1>10. PICK bh2 : bh2 = [bh EXCEPT ![p] = @ + 1, ![uncle] = @ + 1]
  BY Zenon
<1>11. /\ bh \in [Cells -> Nat] /\ bh[Sentinel] = 0
       /\ \A m \in Alloc(t), s \in Sides :
             bh[m] = bh[t.child[s][m]] + (IF NoPlace = <<m, s>> THEN 1 ELSE 0)
                     + (IF m \in t.red THEN 0 ELSE 1)
  BY <1>9 DEF Weighed
<1>12. \A m \in Alloc(t), s \in Sides : NoPlace # <<m, s>>
  BY <1>4, Constants DEF NoPlace
<1>13. /\ bh2 \in [Cells -> Nat]
       /\ \A m \in Cells : bh2[m] = IF m = p \/ m = uncle THEN bh[m] + 1 ELSE bh[m]
  <2>1. p \in Cells /\ uncle \in Cells
    BY <1>3, <1>4
  <2> QED
    BY ONLY <1>8, <1>10, <1>11, <2>1
<1>14. ASSUME NEW m \in Alloc(t), NEW s \in Sides
       PROVE  bh2[m] = bh2[t.child[s][m]] + (IF NoPlace = <<m, s>> THEN 1 ELSE 0)
                       + (IF m \in r.red THEN 0 ELSE 1)
  <2>1. PICK c : c = t.child[s][m]
    OBVIOUS
  <2>2. c \in Cells /\ m \in Cells /\ (c # Sentinel => t.parent[c] = m)
    BY ONLY <1>3, <1>4, <2>1 DEF Linked
  <2>3. bh[m] = bh[c] + (IF m \in t.red THEN 0 ELSE 1) /\ bh[m] \in Nat /\ bh[c] \in Nat
    BY ONLY <1>11, <1>12, <2>1, <2>2, m \in Alloc(t), s \in Sides
  <2>4. bh2[m] = bh2[c] + (IF m \in r.red THEN 0 ELSE 1) /\ bh2[c] \in Nat
    <3>1. CASE m = g
      <4>1. c = p \/ c = uncle
        BY ONLY <1>4, <2>1, <3>1, s \in Sides
      <4> QED
        BY ONLY <1>3, <1>5, <1>8, <1>13, <2>2, <2>3, <3>1, <4>1
    <3>2. CASE m # g
      <4>1. c # p /\ c # uncle
        BY ONLY <1>3, <1>4, <1>8, <2>2, <3>2
      <4>2. CASE m = p \/ m = uncle
        BY ONLY <1>3, <1>5, <1>13, <2>2, <2>3, <4>1, <4>2, uncle \in t.red
      <4>3. CASE ~(m = p \/ m = uncle)
        BY ONLY <1>5, <1>13, <2>2, <2>3, <3>2, <4>1, <4>3
      <4> QED
        BY ONLY <4>2, <4>3
    <3> QED
      BY ONLY <3>1, <3>2
  <2> QED
    BY ONLY <1>12, <2>1, <2>4, m \in Alloc(t), s \in Sides
<1>15. bh2[Sentinel] = 0
  BY ONLY <1>3, <1>4, <1>11, <1>13
<1>16. Weighed(r, bh2, NoPlace)
  BY ONLY <1>5, <1>6, <1>13, <1>14, <1>15 DEF Weighed
<1>17. Colored(r, "push", g)
  <2>1. r.red \subseteq Alloc(t) /\ (r.root \in r.red => g = r.root)
    BY ONLY <1>3, <1>5
  <2>2. ASSUME NEW m \in Alloc(t) \ {t.root}, m \in r.red, t.parent[m] \in r.red, m # g
        PROVE  FALSE
    <3>1. m \in t.red /\ m # p /\ m # uncle
      BY ONLY <1>5, <2>2
    <3>2. t.parent[m] # g
      <4>1. \E s \in Sides : t.child[s][t.parent[m]] = m
        BY Zenon, <1>3 DEF Linked
      <4> QED
        BY ONLY SMTT(30), <1>4, <3>1, <4>1
    <3>3. t.parent[m] \in t.red /\ t.parent[m] # p
      BY ONLY <1>5, <2>2, <3>2
    <3> QED
      BY ONLY <1>3, <2>2, <3>1, <3>3, p = t.parent[n]
  <2> QED
    BY ONLY <1>5, <1>6, <2>1, <2>2 DEF Colored
<1>18. Counted(r, size, "push", g)
  <2>1. g \in r.red
    BY ONLY <1>3, <1>5, <1>8
  <2>2. Counted(t, size, "push", n)
    BY DEF Sound
  <2> QED
    BY ONLY <1>6, <2>1, <2>2 DEF Counted
<1>19. PlaceOf(r, "push", g) = NoPlace
  BY PlaceIsNone
<1> QED
  BY ONLY <1>2, <1>6, <1>7, <1>16, <1>17, <1>18, <1>19 DEF Sound

(* The trees have the same nodes.                                          *)
SameNodes(t, r) == Alloc(r) = Alloc(t)

(* The two red nodes, on one side each, below a node whose other child is  *)
(* black.                                                                  *)
RedPair(t, side, n, p, g) ==
    /\ t.red \subseteq Alloc(t) /\ t.root \notin t.red
    /\ n \in t.red /\ p \in t.red /\ n # p
    /\ g \in Alloc(t) /\ g \notin t.red /\ g # p /\ p # t.root
    /\ t.child[side][p] = n /\ t.child[side][g] = p
    /\ t.child[Other(side)][g] \notin t.red
    /\ \A m \in Alloc(t) \ {t.root} : m \in t.red /\ t.parent[m] \in t.red => m = n

(* The rotation that ends the repair.                                      *)
LEMMA StraightSound ==
    ASSUME NEW t, NEW pos, NEW b, NEW bh, NEW size, Linked(t), Placed(t, pos, b),
           Weighed(t, bh, NoPlace), size \in 0 .. Cardinality(Nodes),
           size = Cardinality(Alloc(t)) - 1,
           NEW side \in Sides, NEW n, NEW p, NEW g, RedPair(t, side, n, p, g),
           NEW r, r = Rotate(Paint(t, {g}, {p}), Other(side), g)
    PROVE  Sound(r, size, "push", n) /\ r.parent[n] \notin r.red /\ SameNodes(t, r)
<1>1. PICK u : u = Paint(t, {g}, {p})
  OBVIOUS
<1>2. r = Rotate(u, Other(side), g)
  BY <1>1
<1>3. PICK far \in Sides : /\ far = Other(side) /\ Other(far) = side /\ far # side
                           /\ \A s \in Sides : s = far \/ s = side
  BY SidesAre
<1>4. /\ t.red \subseteq Alloc(t) /\ t.root \notin t.red
      /\ n \in t.red /\ p \in t.red /\ n # p
      /\ g \in Alloc(t) /\ g \notin t.red /\ g # p /\ p # t.root
      /\ t.child[side][p] = n /\ t.child[side][g] = p
      /\ t.child[far][g] \notin t.red
      /\ \A m \in Alloc(t) \ {t.root} : m \in t.red /\ t.parent[m] \in t.red => m = n
  BY <1>3 DEF RedPair
<1>5. /\ Alloc(t) \subseteq Nodes /\ Nodes \subseteq Cells /\ Sentinel \notin Nodes
      /\ t \in Trees /\ g \in Nodes /\ n \in Alloc(t) /\ p \in Alloc(t)
      /\ n # Sentinel /\ p # Sentinel /\ n # g
  BY <1>4, AllocIs, Constants DEF Linked
<1>6. /\ SameShape(t, u) /\ u.red = (t.red \cup {g}) \ {p}
      /\ u.root = t.root /\ u.parent = t.parent /\ u.child = t.child
  <2>1. {g} \subseteq Nodes /\ t \in Trees
    BY <1>5
  <2>2. /\ SameShape(t, Paint(t, {g}, {p}))
        /\ Paint(t, {g}, {p}).red = (t.red \cup {g}) \ {p}
    BY ONLY <2>1, PaintSameShape
  <2> QED
    BY ONLY <1>1, <2>2 DEF SameShape
<1>7. Linked(u) /\ Alloc(u) = Alloc(t) /\ Placed(u, pos, b)
  BY ONLY <1>6, Linked(t), Placed(t, pos, b), SameShapeKeeps
<1>8. /\ Up(t, far, g) = p /\ Up(u, far, g) = p /\ Up(u, far, g) # Sentinel
      /\ Inner(u, far, g) = t.child[far][p]
  BY ONLY <1>3, <1>4, <1>5, <1>6 DEF Up, Inner
<1>9. PICK inner : inner = t.child[far][p]
  OBVIOUS
<1>10. Linked(r) /\ Alloc(r) = Alloc(u)
  <2>1. g \in Alloc(u)
    BY <1>4, <1>7
  <2>2. Linked(r)
    BY ONLY <1>2, <1>3, <1>7, <1>8, <2>1, RotateLinked
  <2>3. PICK v : v = Alloc(r)
    OBVIOUS
  <2>4. PICK w : w = Alloc(u)
    OBVIOUS
  <2>5. v = w
    BY ONLY <1>2, <1>3, <1>7, <1>8, <2>1, <2>3, <2>4, RotateLinked
  <2> QED
    BY ONLY <2>2, <2>3, <2>4, <2>5
<1>11. Placed(r, pos, Bounds(b, pos, far, g, Up(u, far, g)))
  <2>1. g \in Alloc(u)
    BY <1>4, <1>7
  <2> QED
    BY ONLY <1>2, <1>3, <1>7, <1>8, <2>1, RotatePlaced
<1>12. Weighed(r, [bh EXCEPT ![g] = bh[p], ![p] = bh[g]], NoPlace)
  <2>1. g \in u.red /\ (p \in u.red <=> g \in t.red)
    BY ONLY <1>4, <1>6
  <2>2. \A m \in Nodes : m # g /\ m # p => (m \in u.red <=> m \in t.red)
    BY ONLY <1>6
  <2>3. \A s \in Sides : NoPlace # <<p, s>> /\ NoPlace # <<g, Other(far)>>
    BY <1>5, Constants DEF NoPlace
  <2>4. p = Up(t, far, g) /\ p # Sentinel /\ p \in t.red /\ g \in Alloc(t) /\ far \in Sides
    BY <1>4, <1>5, <1>8
  <2>5. r = Rotate(u, far, g)
    BY <1>2, <1>3
  <2> QED
    BY ONLY Linked(t), Placed(t, pos, b), Weighed(t, bh, NoPlace), <1>6, <2>1, <2>2, <2>3,
            <2>4, <2>5, RotateWeighed
<1>13. /\ r.red = u.red
       /\ r.root = IF g = t.root THEN p ELSE t.root
       /\ \A m \in Cells : r.parent[m] =
             IF m = inner /\ inner # Sentinel THEN g
             ELSE IF m = g THEN p
             ELSE IF m = p THEN t.parent[g]
             ELSE t.parent[m]
       /\ inner # p /\ inner # g /\ inner # n
  <2>1. g \in Alloc(u) /\ p = Up(u, far, g) /\ inner = Inner(u, far, g) /\ r = Rotate(u, far, g)
    BY <1>2, <1>3, <1>4, <1>7, <1>8, <1>9
  <2>2. /\ r.red = u.red
        /\ r.root = IF g = u.root THEN p ELSE u.root
        /\ \A m \in Cells : r.parent[m] =
              IF m = inner /\ inner # Sentinel THEN g
              ELSE IF m = g THEN p
              ELSE IF m = p THEN u.parent[g]
              ELSE u.parent[m]
        /\ inner # p /\ inner # g
    BY ONLY <1>3, <1>7, <1>8, <2>1, AroundRotation
  <2>3. inner # n
    <3>1. n # t.child[Other(side)][p]
      BY ONLY Linked(t), Placed(t, pos, b), <1>4, <1>5, side \in Sides, ChildIs
    <3> QED
      BY ONLY <1>3, <1>9, <3>1
  <2> QED
    BY ONLY <1>6, <2>2, <2>3
<1>14. t.parent[n] = p /\ n # t.root
  BY ONLY Linked(t), Placed(t, pos, b), <1>4, <1>5, side \in Sides, ChildIs
<1>15. Colored(r, "push", n)
  <2>1. r.red \subseteq Alloc(r)
    BY ONLY <1>4, <1>6, <1>7, <1>10, <1>13
  <2>2. r.root \notin r.red
    BY ONLY <1>4, <1>6, <1>13
  <2>3. ASSUME NEW m \in Alloc(r) \ {r.root}, m \in r.red, r.parent[m] \in r.red
        PROVE  m = n
    <3> SUFFICES ASSUME m # n PROVE FALSE
      OBVIOUS
    <3>1. m \in Alloc(t) /\ m \in Cells /\ m # Sentinel /\ m # p
      BY ONLY <1>5, <1>6, <1>7, <1>10, <1>13, <2>3
    <3>2. m # g
      BY ONLY <1>4, <1>6, <1>13, <2>3, <3>1
    <3>3. m \in t.red
      BY ONLY <1>6, <1>13, <2>3, <3>2
    <3>4. m # t.root
      BY ONLY <1>4, <3>3
    <3>5. m # inner
      <4>1. ASSUME m = inner PROVE FALSE
        <5>1. t.parent[m] = p
          BY ONLY Linked(t), Placed(t, pos, b), <1>3, <1>5, <1>9, <3>1, <4>1, ChildIs
        <5> QED
          BY ONLY <1>4, <3>1, <3>3, <3>4, <5>1, m # n
      <4> QED
        BY <4>1
    <3>6. r.parent[m] = t.parent[m]
      BY ONLY <1>13, <3>1, <3>2, <3>5
    <3>7. t.parent[m] # g
      <4>1. \E s \in Sides : t.child[s][t.parent[m]] = m
        BY <3>1, <3>4 DEF Linked
      <4> QED
        BY ONLY <1>3, <1>4, <3>1, <3>3, <4>1
    <3>8. t.parent[m] \in t.red
      BY ONLY <1>6, <1>13, <2>3, <3>6, <3>7
    <3> QED
      BY ONLY <1>4, <3>1, <3>3, <3>4, <3>8, m # n
  <2> QED
    BY ONLY <2>1, <2>2, <2>3 DEF Colored
<1>16. r.parent[n] \notin r.red /\ n \in r.red
  <2>1. n \in Cells
    BY <1>5
  <2> QED
    BY ONLY <1>4, <1>5, <1>6, <1>13, <1>14, <2>1
<1>17. Counted(r, size, "push", n)
  BY ONLY <1>7, <1>10, <1>16, size \in 0 .. Cardinality(Nodes), size = Cardinality(Alloc(t)) - 1
     DEF Counted
<1>18. PlaceOf(r, "push", n) = NoPlace
  BY PlaceIsNone
<1>19. Sound(r, size, "push", n)
  BY ONLY <1>10, <1>11, <1>12, <1>15, <1>17, <1>18 DEF Sound
<1> QED
  BY ONLY <1>1, <1>2, <1>7, <1>10, <1>16, <1>19 DEF SameNodes

(* Two red nodes on different sides: the first rotation puts them on one.  *)
LEMMA BentIs ==
    ASSUME NEW t, NEW pos, NEW b, NEW bh, Linked(t), Placed(t, pos, b),
           Weighed(t, bh, NoPlace), NEW side \in Sides,
           NEW n \in Alloc(t), NEW p \in Alloc(t), NEW g \in Alloc(t),
           t.red \subseteq Alloc(t), t.root \notin t.red, n \in t.red, p \in t.red,
           g \notin t.red, t.child[Other(side)][p] = n, t.child[side][g] = p,
           t.child[Other(side)][g] \notin t.red,
           \A m \in Alloc(t) \ {t.root} : m \in t.red /\ t.parent[m] \in t.red => m = n,
           NEW r, r = Rotate(t, side, p)
    PROVE  /\ Linked(r) /\ SameNodes(t, r) /\ Placed(r, pos, Bounds(b, pos, side, p, n))
           /\ Weighed(r, [bh EXCEPT ![p] = bh[n], ![n] = bh[p]], NoPlace)
           /\ RedPair(r, side, p, n, g)
           /\ r.parent[p] = n /\ r.parent[n] = g
<1>1. PICK far \in Sides : /\ far = Other(side) /\ Other(far) = side /\ far # side
                           /\ \A s \in Sides : s = far \/ s = side
  BY SidesAre
<1>2. /\ Alloc(t) \subseteq Nodes /\ Nodes \subseteq Cells /\ Sentinel \notin Nodes
      /\ t \in Trees /\ n # Sentinel /\ p # Sentinel
  BY AllocIs, Constants DEF Linked
<1>3. n = Up(t, side, p) /\ Up(t, side, p) # Sentinel
  BY ONLY <1>2, t.child[Other(side)][p] = n DEF Up
<1>4. PICK inner : inner = Inner(t, side, p)
  OBVIOUS
<1>5. inner = t.child[side][n]
  BY ONLY <1>3, <1>4 DEF Inner
<1>6. Linked(r) /\ Alloc(r) = Alloc(t)
  <2>1. Linked(r)
    BY ONLY Linked(t), Placed(t, pos, b), side \in Sides, p \in Alloc(t), <1>3,
            r = Rotate(t, side, p), RotateLinked
  <2>2. PICK v : v = Alloc(r)
    OBVIOUS
  <2>3. PICK w : w = Alloc(t)
    OBVIOUS
  <2>4. v = w
    BY ONLY Linked(t), Placed(t, pos, b), side \in Sides, p \in Alloc(t), <1>3,
            r = Rotate(t, side, p), <2>2, <2>3, RotateLinked
  <2> QED
    BY ONLY <2>1, <2>2, <2>3, <2>4
<1>7. Placed(r, pos, Bounds(b, pos, side, p, n))
  <2>1. Placed(r, pos, Bounds(b, pos, side, p, Up(t, side, p)))
    BY ONLY Linked(t), Placed(t, pos, b), side \in Sides, p \in Alloc(t), <1>3,
            r = Rotate(t, side, p), RotatePlaced
  <2> QED
    BY ONLY <1>3, <2>1
<1>8. Weighed(r, [bh EXCEPT ![p] = bh[n], ![n] = bh[p]], NoPlace)
  <2>1. SameShape(t, t)
    BY <1>2 DEF SameShape
  <2>2. \A s \in Sides : NoPlace # <<n, s>> /\ NoPlace # <<p, Other(side)>>
    BY <1>2, Constants DEF NoPlace
  <2>3. n \in t.red <=> p \in t.red
    OBVIOUS
  <2>4. \A m \in Nodes : m # p /\ m # n => (m \in t.red <=> m \in t.red)
    OBVIOUS
  <2>5. n # Sentinel
    BY <1>2
  <2> QED
    BY ONLY Linked(t), Placed(t, pos, b), Weighed(t, bh, NoPlace), side \in Sides,
            p \in Alloc(t), <1>3, n \in t.red, p \in t.red, <2>1, <2>2, <2>3, <2>4, <2>5,
            r = Rotate(t, side, p), RotateWeighed
<1>9. /\ n # p /\ n # t.root
      /\ p # t.root =>
            /\ t.parent[p] \in Alloc(t) /\ t.parent[p] # n
            /\ t.child[SideOf(t, p)][t.parent[p]] = p
      /\ r.red = t.red
      /\ r.root = IF p = t.root THEN n ELSE t.root
      /\ \A m \in Cells : r.parent[m] =
            IF m = inner /\ inner # Sentinel THEN p
            ELSE IF m = p THEN n
            ELSE IF m = n THEN t.parent[p]
            ELSE t.parent[m]
      /\ \A s \in Sides, m \in Cells : r.child[s][m] =
            IF m = n /\ s = side THEN p
            ELSE IF m = p /\ s = Other(side) THEN inner
            ELSE IF p # t.root /\ m = t.parent[p] /\ s = SideOf(t, p) THEN n
            ELSE t.child[s][m]
      /\ inner # n /\ inner # p
  BY ONLY Linked(t), Placed(t, pos, b), side \in Sides, p \in Alloc(t), <1>3, <1>4,
          r = Rotate(t, side, p), AroundRotation
<1>10. t.parent[p] = g /\ p # t.root /\ SideOf(t, p) = side /\ g # p
  <2>1. p = t.child[side][g] /\ p # Sentinel
    BY <1>2
  <2> QED
    BY ONLY Linked(t), Placed(t, pos, b), side \in Sides, g \in Alloc(t), <2>1, ChildIs
<1>11. g # n
  BY ONLY n \in t.red, g \notin t.red
<1>12. p \in Cells /\ n \in Cells /\ g \in Cells
  BY <1>2
<1>13. r.parent[p] = n /\ r.parent[n] = g
  BY ONLY <1>9, <1>10, <1>12
<1>14. r.child[side][n] = p /\ r.child[side][g] = n /\ r.child[Other(side)][g] = t.child[Other(side)][g]
  BY ONLY <1>1, <1>9, <1>10, <1>11, <1>12, side \in Sides
<1>15. ASSUME NEW m \in Alloc(t) \ {t.root}, m \in t.red, r.parent[m] \in t.red
       PROVE  m = p
  <2> SUFFICES ASSUME m # p PROVE FALSE
    OBVIOUS
  <2>1. m # n
    BY ONLY <1>13, <1>15, g \notin t.red
  <2>2. m \in Cells /\ m # Sentinel
    BY <1>2
  <2>3. m # inner
    <3>1. ASSUME m = inner PROVE FALSE
      <4>1. t.parent[m] = n
        BY ONLY Linked(t), Placed(t, pos, b), side \in Sides, n \in Alloc(t), <1>5, <2>2,
                <3>1, ChildIs
      <4> QED
        BY ONLY <1>15, <2>1, <4>1, n \in t.red,
                \A x \in Alloc(t) \ {t.root} : x \in t.red /\ t.parent[x] \in t.red => x = n
    <3> QED
      BY <3>1
  <2>4. r.parent[m] = t.parent[m]
    BY ONLY <1>9, <2>1, <2>2, <2>3, m # p
  <2> QED
    BY ONLY <1>15, <2>1, <2>4,
            \A x \in Alloc(t) \ {t.root} : x \in t.red /\ t.parent[x] \in t.red => x = n
<1>16. r.root = t.root
  BY ONLY <1>9, <1>10
<1>17. RedPair(r, side, p, n, g)
  BY ONLY <1>6, <1>9, <1>11, <1>14, <1>15, <1>16, n \in t.red, p \in t.red, g \notin t.red,
          t.red \subseteq Alloc(t), t.root \notin t.red, g \in Alloc(t),
          t.child[Other(side)][g] \notin t.red
     DEF RedPair
<1> QED
  BY ONLY <1>6, <1>7, <1>8, <1>13, <1>17 DEF SameNodes

(* The tree after the rotations and the node that the loop then looks at.  *)
PushTurned(t, nd) ==
    LET up   == t.parent[nd]
        side == SideOf(t, up)
        bent == nd = t.child[Other(side)][up]
        n    == IF bent THEN up ELSE nd
        u    == IF bent THEN Rotate(t, side, n) ELSE t
        p    == u.parent[n]
        g    == u.parent[p]
    IN  [tree |-> Rotate(Paint(u, {g}, {p}), Other(side), g), node |-> n]

RedBelowRed(t, nd) == nd # t.root /\ t.parent[nd] \in t.red
BlackUncle(t, nd) ==
    t.child[Other(SideOf(t, t.parent[nd]))][t.parent[t.parent[nd]]] \notin t.red

(* The turn that rotates, once or twice: the two red nodes are apart       *)
(* afterwards.                                                             *)
LEMMA PushRotateSound ==
    ASSUME NEW t, NEW size, NEW nd, Sound(t, size, "push", nd),
           RedBelowRed(t, nd), BlackUncle(t, nd),
           NEW r, r = PushTurned(t, nd).tree, NEW n, n = PushTurned(t, nd).node
    PROVE  Sound(r, size, "push", n) /\ r.parent[n] \notin r.red /\ SameNodes(t, r)
<1>a. PICK up : up = t.parent[nd]
  OBVIOUS
<1>b. PICK side : side = SideOf(t, up)
  OBVIOUS
<1>c. PICK u : u = IF nd = t.child[Other(side)][up] THEN Rotate(t, side, n) ELSE t
  OBVIOUS
<1>d. PICK p : p = u.parent[n]
  OBVIOUS
<1>e. PICK g : g = u.parent[p]
  OBVIOUS
<1>f. /\ n = IF nd = t.child[Other(side)][up] THEN up ELSE nd
      /\ nd # t.root /\ t.parent[nd] \in t.red
      /\ t.child[Other(side)][t.parent[up]] \notin t.red
  BY ZenonT(40), <1>a, <1>b DEF PushTurned, RedBelowRed, BlackUncle
<1>g. r = Rotate(Paint(u, {g}, {p}), Other(side), g)
  BY ONLY Zenon, <1>a, <1>b, <1>c, <1>d, <1>e, <1>f, r = PushTurned(t, nd).tree DEF PushTurned
<1>1. PICK top : top = t.parent[up]
  OBVIOUS
<1>2. /\ Linked(t) /\ t \in Trees /\ t.red \subseteq Alloc(t) /\ t.root \notin t.red
      /\ nd \in Alloc(t) /\ nd \in t.red
      /\ up \in Alloc(t) /\ up \in t.red /\ up # t.root /\ up # nd
      /\ top \in Alloc(t) /\ top \notin t.red /\ top # up /\ top # nd
      /\ SideOf(t, nd) \in Sides /\ t.child[SideOf(t, nd)][up] = nd
      /\ side \in Sides /\ t.child[side][top] = up
      /\ \A m \in Alloc(t) \ {t.root} : m \in t.red /\ t.parent[m] \in t.red => m = nd
  <2>1. /\ Linked(t) /\ t \in Trees /\ t.red \subseteq Alloc(t) /\ t.root \notin t.red
        /\ nd \in Alloc(t) /\ nd \in t.red
        /\ up \in Alloc(t) /\ up \in t.red /\ up # t.root /\ up # nd
        /\ top \in Alloc(t) /\ top \notin t.red /\ top # up /\ top # nd
        /\ SideOf(t, nd) \in Sides /\ t.child[SideOf(t, nd)][up] = nd
        /\ SideOf(t, up) \in Sides /\ t.child[SideOf(t, up)][top] = up
        /\ \A m \in Alloc(t) \ {t.root} : m \in t.red /\ t.parent[m] \in t.red => m = nd
    BY ONLY Sound(t, size, "push", nd), <1>f, <1>a, <1>1, TwoRedsAre
  <2> QED
    BY ONLY <2>1, <1>b
<1>3. PICK pos, b : Placed(t, pos, b)
  BY DEF Sound
<1>4. PICK bh : Weighed(t, bh, NoPlace)
  BY PlaceIsNone DEF Sound
<1>5. size \in 0 .. Cardinality(Nodes) /\ size = Cardinality(Alloc(t)) - 1
  BY DEF Sound, Counted
<1>6. t.child[Other(side)][top] \notin t.red
  BY <1>1, <1>f
<1>7. CASE nd = t.child[Other(side)][up]
  <2>1. n = up /\ u = Rotate(t, side, up)
    BY ONLY <1>7, <1>c, <1>f
  <2>2. /\ Linked(u) /\ Placed(u, pos, Bounds(b, pos, side, up, nd))
        /\ Weighed(u, [bh EXCEPT ![up] = bh[nd], ![nd] = bh[up]], NoPlace)
        /\ RedPair(u, side, up, nd, top)
        /\ u.parent[up] = nd /\ u.parent[nd] = top /\ SameNodes(t, u)
    BY ONLY SMTT(30), <1>2, <1>3, <1>4, <1>6, <1>7, <2>1, BentIs
  <2>3. Alloc(u) = Alloc(t)
    BY ONLY <2>2 DEF SameNodes
  <2>4. p = nd /\ g = top /\ r = Rotate(Paint(u, {top}, {nd}), Other(side), top)
    BY ONLY <2>1, <2>2, <1>d, <1>e, <1>g
  <2>5. size \in 0 .. Cardinality(Nodes) /\ size = Cardinality(Alloc(u)) - 1 /\ side \in Sides
    BY <1>2, <1>5, <2>3
  <2>6. Sound(r, size, "push", up) /\ r.parent[up] \notin r.red /\ SameNodes(u, r)
    BY ONLY ZenonT(40), <2>2, <2>4, <2>5, StraightSound
  <2> QED
    BY ONLY <2>1, <2>3, <2>6 DEF SameNodes
<1>8. CASE nd # t.child[Other(side)][up]
  <2>1. n = nd /\ u = t
    BY ONLY <1>8, <1>c, <1>f
  <2>2. p = up /\ g = top
    BY ONLY <1>1, <2>1, <1>d, <1>e, <1>a
  <2>3. t.child[side][up] = nd
    <3>1. SideOf(t, nd) = side \/ SideOf(t, nd) = Other(side)
      BY <1>2, SidesAre
    <3> QED
      BY ONLY <1>2, <1>8, <3>1
  <2>4. RedPair(t, side, nd, up, top)
    BY ONLY <1>2, <1>6, <2>3 DEF RedPair
  <2>5. side \in Sides
    BY <1>2
  <2>6. r = Rotate(Paint(t, {top}, {up}), Other(side), top)
    BY ONLY <2>1, <2>2, <1>g
  <2>7. Sound(r, size, "push", nd) /\ r.parent[nd] \notin r.red /\ SameNodes(t, r)
    BY ONLY <1>2, <1>3, <1>4, <1>5, <2>4, <2>5, <2>6, StraightSound
  <2> QED
    BY ONLY <2>1, <2>7
<1> QED
  BY ONLY <1>7, <1>8

(* The root can be black whenever the heights agree: no node is above it.  *)
LEMMA BlackRootWeighed ==
    ASSUME NEW t, NEW bh, Linked(t), Weighed(t, bh, NoPlace), t.root \in Alloc(t),
           NEW n, n = t.root
    PROVE  \E h : Weighed(Paint(t, {}, {n}), h, NoPlace)
<1>1. PICK r : r = Paint(t, {}, {n})
  OBVIOUS
<1>2. /\ Alloc(t) \subseteq Nodes /\ Nodes \subseteq Cells /\ Sentinel \notin Nodes
      /\ t \in Trees /\ Sentinel \in Cells /\ n \in Alloc(t)
  BY AllocIs, Constants DEF Linked
<1>3. /\ SameShape(t, r) /\ r.red = t.red \ {n} /\ r.child = t.child
  <2>1. {} \subseteq Nodes /\ t \in Trees
    BY <1>2
  <2>2. /\ SameShape(t, Paint(t, {}, {n}))
        /\ Paint(t, {}, {n}).red = (t.red \cup {}) \ {n}
    BY ONLY <2>1, PaintSameShape
  <2> QED
    BY ONLY <1>1, <2>2 DEF SameShape
<1>4. Alloc(r) = Alloc(t)
  BY ONLY <1>3 DEF Alloc
<1>5. /\ bh \in [Cells -> Nat] /\ bh[Sentinel] = 0
      /\ \A m \in Alloc(t), s \in Sides :
            bh[m] = bh[t.child[s][m]] + (IF NoPlace = <<m, s>> THEN 1 ELSE 0)
                    + (IF m \in t.red THEN 0 ELSE 1)
  BY DEF Weighed
<1>6. \A m \in Alloc(t), s \in Sides : NoPlace # <<m, s>>
  BY <1>2, Constants DEF NoPlace
<1>7. PICK h : h = [bh EXCEPT ![n] = @ + (IF n \in t.red THEN 1 ELSE 0)]
  OBVIOUS
<1>8. /\ h \in [Cells -> Nat] /\ h[n] = bh[n] + (IF n \in t.red THEN 1 ELSE 0)
      /\ \A m \in Cells : m # n => h[m] = bh[m]
  BY ONLY <1>2, <1>5, <1>7
<1>9. ASSUME NEW m \in Alloc(t), NEW s \in Sides
      PROVE  h[m] = h[t.child[s][m]] + (IF NoPlace = <<m, s>> THEN 1 ELSE 0)
                    + (IF m \in r.red THEN 0 ELSE 1)
  <2>1. PICK c : c = t.child[s][m]
    OBVIOUS
  <2>2. c \in Cells /\ m \in Cells /\ c # n
    BY <1>2, <2>1 DEF Linked
  <2>3. bh[m] = bh[c] + (IF m \in t.red THEN 0 ELSE 1) /\ bh[m] \in Nat /\ bh[c] \in Nat
    BY ONLY <1>5, <1>6, <2>1, <2>2, m \in Alloc(t), s \in Sides
  <2>4. h[m] = h[c] + (IF m \in r.red THEN 0 ELSE 1) /\ h[c] \in Nat
    BY ONLY <1>3, <1>8, <2>2, <2>3
  <2> QED
    BY ONLY <1>6, <2>1, <2>4, m \in Alloc(t), s \in Sides
<1>10. h[Sentinel] = 0
  BY ONLY <1>2, <1>5, <1>8
<1>11. Weighed(r, h, NoPlace)
  BY ONLY <1>3, <1>4, <1>8, <1>9, <1>10 DEF Weighed
<1> QED
  BY <1>1, <1>11

(* The end of a push paints the root black.                                *)
LEMMA PushEndSound ==
    ASSUME NEW t, NEW size, NEW n, Sound(t, size, "push", n),
           n = t.root \/ t.parent[n] \notin t.red
    PROVE  Sound(Paint(t, {}, {t.root}), size + 1, "idle", Null)
<1>1. PICK r : r = Paint(t, {}, {t.root})
  OBVIOUS
<1>2. Linked(t) /\ Colored(t, "push", n) /\ Counted(t, size, "push", n) /\ t \in Trees
  BY DEF Sound, Linked
<1>3. PICK pos, b : Placed(t, pos, b)
  BY DEF Sound
<1>4. PICK bh : Weighed(t, bh, NoPlace)
  BY PlaceIsNone DEF Sound
<1>5. /\ n \in t.red /\ t.red \subseteq Alloc(t) /\ n \in Alloc(t)
      /\ \A m \in Alloc(t) \ {t.root} : m \in t.red /\ t.parent[m] \in t.red => m = n
      /\ size = Cardinality(Alloc(t)) - 1
  BY <1>2 DEF Colored, Counted
<1>6. t.root \in Alloc(t)
  BY <1>2, <1>5 DEF Linked
<1>7. /\ SameShape(t, r) /\ r.red = t.red \ {t.root} /\ r.parent = t.parent /\ r.root = t.root
  <2>1. {} \subseteq Nodes
    OBVIOUS
  <2>2. /\ SameShape(t, Paint(t, {}, {t.root}))
        /\ Paint(t, {}, {t.root}).red = (t.red \cup {}) \ {t.root}
    BY ONLY <1>2, <2>1, PaintSameShape
  <2> QED
    BY ONLY <1>1, <2>2 DEF SameShape
<1>8. Linked(r) /\ Alloc(r) = Alloc(t) /\ Placed(r, pos, b)
  BY ONLY <1>2, <1>3, <1>7, SameShapeKeeps
<1>9. PICK h : Weighed(r, h, NoPlace)
  BY <1>1, <1>2, <1>4, <1>6, BlackRootWeighed
<1>10. Colored(r, "idle", Null)
  <2>1. r.red \subseteq Alloc(t) /\ r.root \notin r.red
    BY ONLY <1>5, <1>7
  <2>2. \A m \in Alloc(t) \ {t.root} : ~(m \in r.red /\ t.parent[m] \in r.red)
    BY ONLY <1>5, <1>7, n = t.root \/ t.parent[n] \notin t.red
  <2> QED
    BY ONLY <1>7, <1>8, <2>1, <2>2 DEF Colored
<1>11. Counted(r, size + 1, "idle", Null)
  <2>1. /\ Cardinality(Alloc(t)) \in Nat /\ Cardinality(Alloc(t)) <= Cardinality(Nodes)
        /\ Cardinality(Nodes) \in Nat
    BY AllocIsFinite
  <2>2. size + 1 = Cardinality(Alloc(t))
    BY ONLY <1>5, <2>1
  <2> QED
    BY ONLY <1>8, <2>1, <2>2 DEF Counted
<1>12. PlaceOf(r, "idle", Null) = NoPlace
  BY PlaceIsNone
<1> QED
  BY ONLY <1>1, <1>8, <1>9, <1>10, <1>11, <1>12 DEF Sound

(* The three turns of the loop.                                            *)
LEMMA PushRecolourKeeps ==
    ASSUME TreeInv, PushRecolour
    PROVE  /\ TreeInv' /\ SameNodes(tree, tree')
           /\ tree'.parent = tree.parent /\ tree'.root = tree.root
           /\ node # tree.root /\ node \in Alloc(tree)
           /\ tree.parent[node] \in Alloc(tree) /\ tree.parent[node] # tree.root
           /\ node' = tree.parent[tree.parent[node]] /\ node' \in Alloc(tree)
<1>1. /\ Sound(tree, treeSize, "push", node) /\ at = "push"
      /\ node # tree.root /\ tree.parent[node] \in tree.red /\ reply \in Keys \cup {NoKey}
  BY DEF TreeInv, PushRecolour, TwoReds
<1>2. PICK p : p = tree.parent[node]
  OBVIOUS
<1>3. PICK g : g = tree.parent[p]
  OBVIOUS
<1>4. PICK uncle : uncle = tree.child[Other(SideOf(tree, p))][g]
  BY SMTT(30)
<1>5. /\ uncle \in tree.red
      /\ tree' = Paint(tree, {g}, {p, uncle}) /\ node' = g
      /\ treeSize' = treeSize /\ at' = "push" /\ reply' = reply
  <2>1. /\ p = NodesParent /\ g = NodesGrandparent
        /\ uncle = tree.child[Other(SideOf(tree, NodesParent))][NodesGrandparent]
    BY ONLY <1>2, <1>3, <1>4 DEF NodesGrandparent, NodesParent
  <2>2. /\ uncle \in tree.red
        /\ tree' = Paint(tree, {g}, {p, uncle}) /\ node' = g
        /\ treeSize' = treeSize /\ at' = at /\ reply' = reply
    BY ONLY <2>1, PushRecolour, Zenon DEF PushRecolour
  <2> QED
    BY ONLY <1>1, <2>2
<1>6. Sound(Paint(tree, {g}, {p, uncle}), treeSize, "push", g)
  BY ONLY Zenon, <1>1, <1>2, <1>3, <1>4, <1>5, PushRecolourSound
<1>7. /\ tree \in Trees /\ node \in Alloc(tree) /\ p \in Alloc(tree) /\ p # tree.root
      /\ g \in Alloc(tree)
  BY ONLY <1>1, <1>2, <1>3, TwoRedsAre
<1>8. /\ Paint(tree, {g}, {p, uncle}).root = tree.root
      /\ Paint(tree, {g}, {p, uncle}).child = tree.child
      /\ Paint(tree, {g}, {p, uncle}).parent = tree.parent
  <2>1. {g} \subseteq Nodes
    BY <1>7, AllocIs
  <2> QED
    BY ONLY <1>7, <2>1, PaintIs
<1>9. SameNodes(tree, tree')
  BY ONLY <1>5, <1>8 DEF SameNodes, Alloc
<1> QED
  BY ONLY <1>1, <1>2, <1>3, <1>5, <1>6, <1>7, <1>8, <1>9 DEF TreeInv

(* The turn that rotates is the last one that has two red nodes.           *)
LEMMA PushRotateKeeps ==
    ASSUME TreeInv, PushRotate
    PROVE  TreeInv' /\ SameNodes(tree, tree') /\ tree'.parent[node'] \notin tree'.red
<1>1. /\ Sound(tree, treeSize, "push", node) /\ at = "push"
      /\ RedBelowRed(tree, node) /\ reply \in Keys \cup {NoKey}
  BY ZenonT(40) DEF TreeInv, PushRotate, TwoReds, RedBelowRed
<1>2. BlackUncle(tree, node)
  BY ONLY ZenonT(40), PushRotate DEF PushRotate, NodesGrandparent, NodesParent, BlackUncle
<1>3. /\ tree' = PushTurned(tree, node).tree /\ node' = PushTurned(tree, node).node
      /\ treeSize' = treeSize /\ at' = at /\ reply' = reply
  BY ONLY Zenon, PushRotate DEF PushRotate, NodesGrandparent, NodesParent, PushTurned
<1>4. PICK r : r = PushTurned(tree, node).tree
  OBVIOUS
<1>5. PICK n : n = PushTurned(tree, node).node
  OBVIOUS
<1>6. Sound(r, treeSize, "push", n) /\ r.parent[n] \notin r.red /\ SameNodes(tree, r)
  BY ONLY <1>1, <1>2, <1>4, <1>5, PushRotateSound
<1> QED
  BY ONLY <1>1, <1>3, <1>4, <1>5, <1>6 DEF TreeInv

(* The end of the loop, whatever colour the root had.                      *)
LEMMA PushEndKeeps ==
    ASSUME TreeInv, PushEnd
    PROVE  TreeInv' /\ SameNodes(tree, tree')
<1>1. /\ Sound(tree, treeSize, "push", node) /\ at = "push"
      /\ node = tree.root \/ tree.parent[node] \notin tree.red
      /\ reply \in Keys \cup {NoKey}
      /\ tree' = Paint(tree, {}, {tree.root}) /\ treeSize' = treeSize + 1
      /\ at' = "idle" /\ node' = Null /\ reply' = reply
  BY DEF TreeInv, PushEnd, TwoReds
<1>2. Sound(Paint(tree, {}, {tree.root}), treeSize + 1, "idle", Null)
  BY ONLY <1>1, PushEndSound
<1>3. Paint(tree, {}, {tree.root}).child = tree.child
  <2>1. tree \in Trees /\ {} \subseteq Nodes
    BY ONLY <1>1 DEF Sound, Linked
  <2> QED
    BY ONLY <2>1, PaintIs
<1>4. SameNodes(tree, tree')
  BY ONLY <1>1, <1>3 DEF SameNodes, Alloc
<1> QED
  BY ONLY <1>1, <1>2, <1>4 DEF TreeInv

-----------------------------------------------------------------------------
(* Deletion.  A node with one child at most leaves the tree, and its child *)
(* takes its place.                                                        *)
Remove(t, s, h) ==
    [root   |-> IF s = t.root THEN h ELSE t.root,
     child  |-> [d \in Sides |-> [m \in Cells |->
                    IF m = s THEN Null ELSE IF t.child[d][m] = s THEN h ELSE t.child[d][m]]],
     parent |-> [m \in Cells |-> IF m = h THEN t.parent[s] ELSE t.parent[m]],
     red    |-> t.red \ {s}]

(* Node s has no child on the side; h is its other child, or the sentinel. *)
Loose(t, s, h, side) == t.child[side][s] = Sentinel /\ h = t.child[Other(side)][s]

(* Remove changes two pointers at most.                                    *)
LEMMA RemoveIs ==
    ASSUME NEW t \in Trees, NEW s \in Nodes, NEW h \in Cells, NEW r, r = Remove(t, s, h)
    PROVE  /\ r \in Trees
           /\ r.root = IF s = t.root THEN h ELSE t.root
           /\ r.red = t.red \ {s}
           /\ \A d \in Sides, m \in Cells : r.child[d][m] =
                 IF m = s THEN Null ELSE IF t.child[d][m] = s THEN h ELSE t.child[d][m]
           /\ \A m \in Cells : r.parent[m] = IF m = h THEN t.parent[s] ELSE t.parent[m]
<1>1. /\ Null \in Links /\ Cells \subseteq Links /\ Nodes \subseteq Cells
  BY Constants
<1>2. /\ t.root \in Cells /\ t.red \subseteq Nodes
      /\ \A d \in Sides, m \in Cells : t.child[d][m] \in Links
      /\ \A m \in Cells : t.parent[m] \in Links
  BY DEF Trees
<1> QED
  BY ONLY <1>1, <1>2, r = Remove(t, s, h), s \in Nodes, h \in Cells DEF Remove, Trees

(* The children of s, which is the only one that has them for children.    *)
LEMMA LooseIs ==
    ASSUME NEW t, NEW pos, NEW b, Linked(t), Placed(t, pos, b),
           NEW s \in Alloc(t), NEW side \in Sides, NEW h, Loose(t, s, h, side)
    PROVE  /\ h \in Alloc(t) \cup {Sentinel} /\ h \in Cells /\ h # s /\ s \in Nodes
           /\ h # Sentinel => h # t.root /\ t.parent[h] = s
           /\ \A m \in Alloc(t) \ {t.root} : t.parent[m] = s => m = h
           /\ \A m \in Alloc(t), d \in Sides :
                 t.child[d][m] = s => s # t.root /\ m = t.parent[s] /\ d = SideOf(t, s)
           /\ s # t.root => /\ t.parent[s] \in Alloc(t) /\ t.parent[s] # s
                            /\ SideOf(t, s) \in Sides /\ t.child[SideOf(t, s)][t.parent[s]] = s
           /\ \A x \in Alloc(t) : Between(b, s, pos[x]) /\ x # s =>
                 h # Sentinel /\ Between(b, h, pos[x])
<1>1. PICK far \in Sides : far = Other(side) /\ \A d \in Sides : d = side \/ d = far
  BY SidesAre
<1>2. /\ t.child[side][s] = Sentinel /\ h = t.child[far][s]
      /\ Alloc(t) \subseteq Nodes /\ Nodes \subseteq Cells /\ Sentinel \notin Nodes
      /\ Sentinel \in Cells
  BY <1>1, AllocIs, Constants DEF Loose
<1>3. h \in Alloc(t) \cup {Sentinel}
  BY <1>1, <1>2 DEF Linked
<1>4. h # Sentinel => h # t.root /\ t.parent[h] = s /\ h # s
  <2> SUFFICES ASSUME h # Sentinel PROVE h # t.root /\ t.parent[h] = s /\ h # s
    OBVIOUS
  <2> QED
    BY ONLY Linked(t), Placed(t, pos, b), s \in Alloc(t), <1>1, <1>2, h # Sentinel, ChildIs
<1>5. ASSUME NEW m \in Alloc(t) \ {t.root}, t.parent[m] = s PROVE m = h
  <2>1. PICK d \in Sides : t.child[d][s] = m
    BY <1>5 DEF Linked
  <2> QED
    BY ONLY <1>1, <1>2, <2>1, m \in Alloc(t) \ {t.root}
<1>6. ASSUME NEW m \in Alloc(t), NEW d \in Sides, t.child[d][m] = s
      PROVE  s # t.root /\ m = t.parent[s] /\ d = SideOf(t, s)
  <2>1. s # Sentinel
    BY <1>2
  <2> QED
    BY ONLY Linked(t), Placed(t, pos, b), m \in Alloc(t), d \in Sides, <1>6, <2>1, ChildIs
<1>7. s # t.root => /\ t.parent[s] \in Alloc(t) /\ t.parent[s] # s
                    /\ SideOf(t, s) \in Sides /\ t.child[SideOf(t, s)][t.parent[s]] = s
  <2> SUFFICES ASSUME s # t.root
               PROVE  /\ t.parent[s] \in Alloc(t) /\ t.parent[s] # s
                      /\ SideOf(t, s) \in Sides /\ t.child[SideOf(t, s)][t.parent[s]] = s
    OBVIOUS
  <2> QED
    BY ONLY Linked(t), Placed(t, pos, b), s \in Alloc(t), s # t.root, ParentIs
<1>8. ASSUME NEW x \in Alloc(t), Between(b, s, pos[x]), x # s
      PROVE  h # Sentinel /\ Between(b, h, pos[x])
  <2>1. pos[x] \in Int /\ pos[s] \in Int /\ pos[x] # pos[s]
    BY <1>2, <1>8 DEF Placed
  <2>2. PICK d \in Sides : Toward(d, pos[x], pos[s])
    BY ONLY <2>1 DEF Toward, Sides
  <2>3. t.child[d][s] # Sentinel /\ Between(b, t.child[d][s], pos[x])
    BY <1>8, <2>2 DEF Placed
  <2> QED
    BY ONLY <1>1, <1>2, <2>3
<1> QED
  BY ONLY <1>2, <1>3, <1>4, <1>5, <1>6, <1>7, <1>8, s \in Alloc(t)

(* Without the node, and with its child in its place, the pointers are     *)
(* linked.                                                                 *)
LEMMA RemoveLinked ==
    ASSUME NEW t, NEW pos, NEW b, Linked(t), Placed(t, pos, b),
           NEW s \in Alloc(t), NEW side \in Sides, NEW h, Loose(t, s, h, side),
           NEW r, r = Remove(t, s, h)
    PROVE  Linked(r) /\ Alloc(r) = Alloc(t) \ {s}
<1>1. /\ h \in Alloc(t) \cup {Sentinel} /\ h \in Cells /\ h # s /\ s \in Nodes
      /\ h # Sentinel => h # t.root /\ t.parent[h] = s
      /\ \A m \in Alloc(t) \ {t.root} : t.parent[m] = s => m = h
      /\ \A m \in Alloc(t), d \in Sides :
            t.child[d][m] = s => s # t.root /\ m = t.parent[s] /\ d = SideOf(t, s)
      /\ s # t.root => /\ t.parent[s] \in Alloc(t) /\ t.parent[s] # s
                       /\ SideOf(t, s) \in Sides /\ t.child[SideOf(t, s)][t.parent[s]] = s
      /\ \A x \in Alloc(t) : Between(b, s, pos[x]) /\ x # s =>
            h # Sentinel /\ Between(b, h, pos[x])
  BY ONLY SMTT(30), Linked(t), Placed(t, pos, b), s \in Alloc(t), side \in Sides, Loose(t, s, h, side),
          LooseIs
<1>2. /\ Alloc(t) \subseteq Nodes /\ Nodes \subseteq Cells /\ Sentinel \notin Nodes
      /\ Sentinel \in Cells /\ Null \notin Cells /\ "left" \in Sides /\ t \in Trees
      /\ Null # Sentinel
  BY AllocIs, Constants DEF Linked, Sides
<1>3. /\ r \in Trees
      /\ r.root = IF s = t.root THEN h ELSE t.root
      /\ \A d \in Sides, m \in Cells : r.child[d][m] =
            IF m = s THEN Null ELSE IF t.child[d][m] = s THEN h ELSE t.child[d][m]
      /\ \A m \in Cells : r.parent[m] = IF m = h THEN t.parent[s] ELSE t.parent[m]
  <2>1. t \in Trees /\ s \in Nodes /\ h \in Cells
    BY ONLY <1>1, <1>2
  <2> QED
    BY ONLY <2>1, r = Remove(t, s, h), RemoveIs
<1>4. /\ \A d \in Sides : t.child[d][Sentinel] = Null
      /\ t.root \in Alloc(t) \cup {Sentinel} /\ (t.root = Sentinel => Alloc(t) = {})
      /\ \A m \in Alloc(t), d \in Sides :
            /\ t.child[d][m] \in Alloc(t) \cup {Sentinel}
            /\ t.child[d][m] # Sentinel =>
                  t.child[d][m] # t.root /\ t.parent[t.child[d][m]] = m
      /\ \A m \in Alloc(t) \ {t.root} :
            t.parent[m] \in Alloc(t) /\ \E d \in Sides : t.child[d][t.parent[m]] = m
  BY DEF Linked
<1>5. Alloc(r) = Alloc(t) \ {s}
  <2>1. \A m \in Nodes : m \in Alloc(r) <=> m \in Alloc(t) /\ m # s
    <3> SUFFICES ASSUME NEW m \in Nodes PROVE m \in Alloc(r) <=> m \in Alloc(t) /\ m # s
      OBVIOUS
    <3>1. /\ m \in Alloc(r) <=> r.child["left"][m] # Null
          /\ m \in Alloc(t) <=> t.child["left"][m] # Null
      BY AllocIs
    <3>2. r.child["left"][m] =
             IF m = s THEN Null ELSE IF t.child["left"][m] = s THEN h ELSE t.child["left"][m]
      BY <1>2, <1>3
    <3>3. h # Null /\ s # Null
      BY ONLY <1>1, <1>2
    <3> QED
      BY ONLY <3>1, <3>2, <3>3
  <2>2. Alloc(r) \subseteq Nodes
    BY AllocIs
  <2> QED
    BY ONLY <1>2, <2>1, <2>2
<1>6. \A d \in Sides : r.child[d][Sentinel] = Null
  <2>1. Null # s /\ Sentinel # s
    BY ONLY <1>1, <1>2
  <2> QED
    BY ONLY <1>2, <1>3, <1>4, <2>1
<1>7. ASSUME NEW m \in Alloc(t) \ {s}, NEW d \in Sides
      PROVE  /\ r.child[d][m] \in (Alloc(t) \ {s}) \cup {Sentinel}
             /\ r.child[d][m] # Sentinel =>
                   r.child[d][m] # r.root /\ r.parent[r.child[d][m]] = m
  <2>1. PICK c : c = t.child[d][m]
    OBVIOUS
  <2>2. m \in Cells /\ c \in Alloc(t) \cup {Sentinel} /\ c \in Cells
    BY ONLY <1>2, <1>4, <2>1, <1>7
  <2>3. CASE c = s
    <3>1. r.child[d][m] = h /\ s # t.root /\ m = t.parent[s]
      BY ONLY ZenonT(40), <1>1, <1>3, <1>7, <2>1, <2>2, <2>3
    <3> QED
      BY ONLY <1>1, <1>3, <3>1
  <2>4. CASE c # s
    <3>1. r.child[d][m] = c
      BY ONLY <1>3, <1>7, <2>1, <2>2, <2>4
    <3>2. ASSUME c # Sentinel
          PROVE  c # r.root /\ r.parent[c] = m
      <4>1. c # t.root /\ t.parent[c] = m
        BY ONLY <1>4, <1>7, <2>1, <3>2
      <4>2. c # h
        BY ONLY <1>1, <1>7, <3>2, <4>1
      <4> QED
        BY ONLY <1>3, <2>2, <4>1, <4>2
    <3> QED
      BY ONLY <2>2, <2>4, <3>1, <3>2
  <2> QED
    BY ONLY <2>3, <2>4
<1>8. ASSUME NEW m \in (Alloc(t) \ {s}) \ {r.root}
      PROVE  r.parent[m] \in Alloc(t) \ {s} /\ \E d \in Sides : r.child[d][r.parent[m]] = m
  <2>1. m \in Cells /\ m \in Alloc(t) /\ m # s
    BY <1>2
  <2>2. CASE m = h
    <3>1. s # t.root
      BY ONLY <1>3, <1>8, <2>2
    <3>2. r.parent[m] = t.parent[s] /\ t.parent[s] \in Alloc(t) /\ t.parent[s] # s
      BY ONLY <1>1, <1>3, <2>1, <2>2, <3>1
    <3>3. SideOf(t, s) \in Sides /\ t.child[SideOf(t, s)][t.parent[s]] = s
      BY ONLY <1>1, <3>1
    <3>4. r.child[SideOf(t, s)][t.parent[s]] = h
      BY ONLY <1>2, <1>3, <3>2, <3>3
    <3> QED
      BY ONLY <2>2, <3>2, <3>3, <3>4
  <2>3. CASE m # h
    <3>1. m # t.root
      BY ONLY <1>3, <1>8, <2>1
    <3>2. PICK d \in Sides : t.child[d][t.parent[m]] = m
      BY ONLY <1>4, <2>1, <3>1
    <3>3. r.parent[m] = t.parent[m] /\ t.parent[m] \in Alloc(t) /\ t.parent[m] # s
      BY ONLY <1>1, <1>3, <1>4, <2>1, <2>3, <3>1
    <3>4. r.child[d][t.parent[m]] = m
      BY ONLY <1>2, <1>3, <2>1, <3>2, <3>3
    <3> QED
      BY ONLY <3>3, <3>4
  <2> QED
    BY ONLY <2>2, <2>3
<1>9. r.root \in (Alloc(t) \ {s}) \cup {Sentinel}
  BY ONLY <1>1, <1>3, <1>4
<1>10. ASSUME r.root = Sentinel PROVE Alloc(t) \ {s} = {}
  <2>1. s = t.root /\ h = Sentinel
    BY ONLY <1>3, <1>4, <1>10, s \in Alloc(t)
  <2>2. \A x \in Alloc(t) : Between(b, s, pos[x])
    BY <2>1 DEF Placed
  <2> QED
    BY ONLY <1>1, <2>1, <2>2
<1> QED
  BY ONLY <1>3, <1>5, <1>6, <1>7, <1>8, <1>9, <1>10 DEF Linked

(* The other nodes keep their places and their intervals.                  *)
LEMMA RemovePlaced ==
    ASSUME NEW t, NEW pos, NEW b, Linked(t), Placed(t, pos, b),
           NEW s \in Alloc(t), NEW side \in Sides, NEW h, Loose(t, s, h, side),
           NEW r, r = Remove(t, s, h)
    PROVE  Placed(r, pos, b)
<1>1. /\ h \in Alloc(t) \cup {Sentinel} /\ h \in Cells /\ h # s /\ s \in Nodes
      /\ \A m \in Alloc(t), d \in Sides :
            t.child[d][m] = s => s # t.root /\ m = t.parent[s] /\ d = SideOf(t, s)
      /\ \A x \in Alloc(t) : Between(b, s, pos[x]) /\ x # s =>
            h # Sentinel /\ Between(b, h, pos[x])
  BY ONLY Linked(t), Placed(t, pos, b), s \in Alloc(t), side \in Sides, Loose(t, s, h, side),
          LooseIs
<1>2. /\ Alloc(t) \subseteq Nodes /\ Nodes \subseteq Cells /\ Sentinel \notin Nodes
      /\ t \in Trees /\ "left" \in Sides /\ "right" \in Sides
  BY AllocIs, Constants DEF Linked, Sides
<1>3. /\ r.root = IF s = t.root THEN h ELSE t.root
      /\ \A d \in Sides, m \in Cells : r.child[d][m] =
            IF m = s THEN Null ELSE IF t.child[d][m] = s THEN h ELSE t.child[d][m]
  <2>1. t \in Trees /\ s \in Nodes /\ h \in Cells
    BY ONLY <1>1, <1>2
  <2> QED
    BY ONLY <2>1, r = Remove(t, s, h), RemoveIs
<1>4. Alloc(r) = Alloc(t) \ {s}
  <2>1. PICK v : v = Alloc(r)
    OBVIOUS
  <2>2. PICK w : w = Alloc(t) \ {s}
    OBVIOUS
  <2>3. v = w
    BY ONLY Linked(t), Placed(t, pos, b), s \in Alloc(t), side \in Sides,
            Loose(t, s, h, side), r = Remove(t, s, h), <2>1, <2>2, RemoveLinked
  <2> QED
    BY <2>1, <2>2, <2>3
<1>5. /\ pos \in [Nodes -> Int] /\ b \in [Sides -> [Nodes -> Int]]
      /\ \A x, y \in Alloc(t) : pos[x] = pos[y] => x = y
      /\ \A x, y \in Alloc(t) : pos[x] < pos[y] => Key(x) <= Key(y)
      /\ \A m \in Alloc(t) : Between(b, m, pos[m])
      /\ \A m \in Alloc(t), d \in Sides :
            t.child[d][m] # Sentinel =>
                /\ ~Toward(d, b[d][t.child[d][m]], b[d][m])
                /\ ~Toward(Other(d), b[Other(d)][t.child[d][m]], pos[m])
      /\ \A m, x \in Alloc(t), d \in Sides :
            Between(b, m, pos[x]) /\ Toward(d, pos[x], pos[m]) =>
                t.child[d][m] # Sentinel /\ Between(b, t.child[d][m], pos[x])
      /\ \A x \in Alloc(t) : Between(b, t.root, pos[x])
  BY DEF Placed
<1>6. ASSUME h # Sentinel
      PROVE  b["left"][s] <= b["left"][h] /\ b["right"][h] <= b["right"][s]
  <2>1. h = t.child[Other(side)][s] /\ Other(side) \in Sides
    BY SidesAre DEF Loose
  <2>2. \A x \in Int : Between(b, h, x) => Between(b, s, x)
    BY ONLY Linked(t), Placed(t, pos, b), s \in Alloc(t), <1>6, <2>1, ChildIs
  <2>3. /\ b["left"][s] \in Int /\ b["left"][h] \in Int /\ b["right"][s] \in Int
        /\ b["right"][h] \in Int /\ pos[h] \in Int /\ Between(b, h, pos[h])
    BY ONLY <1>1, <1>2, <1>5, <1>6
  <2>4. /\ Between(b, h, b["left"][h] + 1) => Between(b, s, b["left"][h] + 1)
        /\ Between(b, h, b["right"][h] - 1) => Between(b, s, b["right"][h] - 1)
    BY ONLY <2>2, <2>3
  <2> QED
    BY ONLY <2>3, <2>4 DEF Between
<1>7. ASSUME NEW m \in Alloc(r), NEW d \in Sides, r.child[d][m] # Sentinel
      PROVE  /\ ~Toward(d, b[d][r.child[d][m]], b[d][m])
             /\ ~Toward(Other(d), b[Other(d)][r.child[d][m]], pos[m])
  <2>1. m \in Alloc(t) /\ m # s /\ m \in Cells
    BY ONLY <1>2, <1>4, <1>7
  <2>2. CASE t.child[d][m] = s
    <3>1. r.child[d][m] = h /\ h # Sentinel
      BY ONLY <1>3, <1>7, <2>1, <2>2
    <3>2. ~Toward(d, b[d][s], b[d][m]) /\ ~Toward(Other(d), b[Other(d)][s], pos[m])
      <4>1. s # Sentinel
        BY <1>1, <1>2
      <4> QED
        BY ONLY <1>5, <2>1, <2>2, <4>1, d \in Sides
    <3>3. \A e \in Sides : /\ b[e][s] \in Int /\ b[e][h] \in Int /\ b[e][m] \in Int
                           /\ pos[m] \in Int
      <4>1. h \in Nodes /\ m \in Nodes /\ s \in Nodes
        BY ONLY <1>1, <1>2, <2>1, <3>1
      <4> QED
        BY ONLY <1>5, <4>1
    <3>4. b["left"][s] <= b["left"][h] /\ b["right"][h] <= b["right"][s]
      BY ONLY <1>6, <3>1
    <3> QED
      BY ONLY <1>2, <3>1, <3>2, <3>3, <3>4, d \in Sides DEF Toward, Other, Sides
  <2>3. CASE t.child[d][m] # s
    <3>1. r.child[d][m] = t.child[d][m]
      BY ONLY <1>3, <1>7, <2>1, <2>3
    <3> QED
      BY ONLY <1>5, <1>7, <2>1, <3>1
  <2> QED
    BY ONLY <2>2, <2>3
<1>8. ASSUME NEW m \in Alloc(r), NEW x \in Alloc(r), NEW d \in Sides,
             Between(b, m, pos[x]), Toward(d, pos[x], pos[m])
      PROVE  r.child[d][m] # Sentinel /\ Between(b, r.child[d][m], pos[x])
  <2>1. m \in Alloc(t) /\ m # s /\ m \in Cells /\ x \in Alloc(t) /\ x # s
    BY ONLY <1>2, <1>4, <1>8
  <2>2. t.child[d][m] # Sentinel /\ Between(b, t.child[d][m], pos[x])
    BY ONLY <1>5, <1>8, <2>1
  <2>3. r.child[d][m] = IF t.child[d][m] = s THEN h ELSE t.child[d][m]
    BY ONLY <1>3, <1>8, <2>1
  <2> QED
    BY ONLY <1>1, <2>1, <2>2, <2>3
<1>9. \A x \in Alloc(r) : Between(b, r.root, pos[x])
  BY ONLY <1>1, <1>3, <1>4, <1>5
<1>10. /\ \A x, y \in Alloc(r) : pos[x] = pos[y] => x = y
       /\ \A x, y \in Alloc(r) : pos[x] < pos[y] => Key(x) <= Key(y)
       /\ \A m \in Alloc(r) : Between(b, m, pos[m])
  BY ONLY <1>4, <1>5
<1> QED
  BY ONLY <1>5, <1>7, <1>8, <1>9, <1>10 DEF Placed

(* The heights are right, but for the place of a black node that is gone.  *)
LEMMA RemoveWeighed ==
    ASSUME NEW t, NEW pos, NEW b, NEW bh, Linked(t), Placed(t, pos, b),
           Weighed(t, bh, NoPlace),
           NEW s \in Alloc(t), NEW side \in Sides, NEW h, Loose(t, s, h, side),
           NEW r, r = Remove(t, s, h),
           NEW place, place = IF s \in t.red \/ s = t.root THEN NoPlace
                              ELSE <<t.parent[s], SideOf(t, s)>>
    PROVE  Weighed(r, bh, place)
<1>1. /\ h \in Alloc(t) \cup {Sentinel} /\ h \in Cells /\ h # s /\ s \in Nodes
      /\ \A m \in Alloc(t), d \in Sides :
            t.child[d][m] = s => s # t.root /\ m = t.parent[s] /\ d = SideOf(t, s)
      /\ s # t.root => t.child[SideOf(t, s)][t.parent[s]] = s
  BY ONLY Linked(t), Placed(t, pos, b), s \in Alloc(t), side \in Sides, Loose(t, s, h, side),
          LooseIs
<1>2. /\ Alloc(t) \subseteq Nodes /\ Nodes \subseteq Cells /\ Sentinel \notin Nodes
      /\ t \in Trees /\ "left" \in Sides /\ "right" \in Sides /\ Sentinel \in Cells
  BY AllocIs, Constants DEF Linked, Sides
<1>3. /\ r.red = t.red \ {s}
      /\ \A d \in Sides, m \in Cells : r.child[d][m] =
            IF m = s THEN Null ELSE IF t.child[d][m] = s THEN h ELSE t.child[d][m]
  <2>1. t \in Trees /\ s \in Nodes /\ h \in Cells
    BY ONLY <1>1, <1>2
  <2> QED
    BY ONLY <2>1, r = Remove(t, s, h), RemoveIs
<1>4. Alloc(r) = Alloc(t) \ {s}
  <2>1. PICK v : v = Alloc(r)
    OBVIOUS
  <2>2. PICK w : w = Alloc(t) \ {s}
    OBVIOUS
  <2>3. v = w
    BY ONLY Linked(t), Placed(t, pos, b), s \in Alloc(t), side \in Sides,
            Loose(t, s, h, side), r = Remove(t, s, h), <2>1, <2>2, RemoveLinked
  <2> QED
    BY <2>1, <2>2, <2>3
<1>5. \A m \in Alloc(t), d \in Sides : NoPlace # <<m, d>>
  BY <1>2, Constants DEF NoPlace
<1>6. /\ bh \in [Cells -> Nat] /\ bh[Sentinel] = 0
      /\ \A m \in Alloc(t), d \in Sides :
            bh[m] = bh[t.child[d][m]] + 0 + (IF m \in t.red THEN 0 ELSE 1)
  BY <1>5 DEF Weighed
<1>7. bh[s] = bh[h] + (IF s \in t.red THEN 0 ELSE 1)
  <2>1. h = t.child[Other(side)][s] /\ Other(side) \in Sides
    BY SidesAre DEF Loose
  <2> QED
    BY ONLY <1>1, <1>2, <1>6, <2>1, s \in Alloc(t)
<1>8. ASSUME NEW m \in Alloc(r), NEW d \in Sides
      PROVE  bh[m] = bh[r.child[d][m]] + (IF place = <<m, d>> THEN 1 ELSE 0)
                     + (IF m \in r.red THEN 0 ELSE 1)
  <2>1. /\ m \in Alloc(t) /\ m # s /\ m \in Cells /\ (m \in r.red <=> m \in t.red)
        /\ NoPlace # <<m, d>>
    BY ONLY <1>2, <1>3, <1>4, <1>5, <1>8
  <2>2. bh[m] = bh[t.child[d][m]] + 0 + (IF m \in t.red THEN 0 ELSE 1)
    BY ONLY <1>6, <2>1, d \in Sides
  <2>3. r.child[d][m] = IF t.child[d][m] = s THEN h ELSE t.child[d][m]
    BY ONLY <1>3, <2>1, d \in Sides
  <2>4. bh[h] \in Nat /\ bh[s] \in Nat /\ bh[m] \in Nat /\ bh[t.child[d][m]] \in Nat
    <3>1. t.child[d][m] \in Cells
      BY <1>2, <2>1 DEF Linked
    <3> QED
      BY ONLY <1>1, <1>2, <1>6, <2>1, <3>1
  <2>5. CASE t.child[d][m] = s
    <3>1. s # t.root /\ m = t.parent[s] /\ d = SideOf(t, s)
      BY ONLY <1>1, <2>1, <2>5, d \in Sides
    <3>2. place = <<m, d>> <=> s \notin t.red
      BY ONLY <2>1, <3>1, place = IF s \in t.red \/ s = t.root THEN NoPlace
                              ELSE <<t.parent[s], SideOf(t, s)>>
    <3> QED
      BY ONLY <1>7, <2>1, <2>2, <2>3, <2>4, <2>5, <3>2
  <2>6. CASE t.child[d][m] # s
    <3>1. place # <<m, d>>
      BY ONLY <1>1, <2>1, <2>6, place = IF s \in t.red \/ s = t.root THEN NoPlace
                              ELSE <<t.parent[s], SideOf(t, s)>>
    <3> QED
      BY ONLY <2>1, <2>2, <2>3, <2>4, <2>6, <3>1
  <2> QED
    BY ONLY <2>5, <2>6
<1> QED
  BY ONLY <1>6, <1>8 DEF Weighed

-----------------------------------------------------------------------------
(* A tree with other nodes in the same places: f gives the new node.       *)
Relabelled(t, r, f) ==
    /\ r \in Trees
    /\ f[Sentinel] = Sentinel
    /\ \A m \in Alloc(t) : f[m] \in Nodes
    /\ \A x, y \in Alloc(t) : f[x] = f[y] => x = y
    /\ \A y \in Nodes : y \in Alloc(r) <=> \E m \in Alloc(t) : f[m] = y
    /\ \A d \in Sides : r.child[d][Sentinel] = Null
    /\ r.root = f[t.root]
    /\ \A m \in Alloc(t), d \in Sides : r.child[d][f[m]] = f[t.child[d][m]]
    /\ \A m \in Alloc(t) \ {t.root} : r.parent[f[m]] = f[t.parent[m]]
    /\ \A m \in Alloc(t) : f[m] \in r.red <=> m \in t.red

(* The new nodes are as many as the old ones, and differ where those do.   *)
LEMMA RelabelIs ==
    ASSUME NEW t, NEW r, NEW f, Relabelled(t, r, f)
    PROVE  /\ \A m \in Alloc(t) : f[m] \in Alloc(r) /\ f[m] \in Nodes /\ f[m] # Sentinel
           /\ \A y \in Alloc(r) : \E m \in Alloc(t) : f[m] = y
           /\ \A x \in Alloc(t), y \in Alloc(t) \cup {Sentinel} : f[x] = f[y] <=> x = y
  BY AllocIs, Constants DEF Relabelled

(* With other nodes in the same places the pointers are linked.            *)
LEMMA RelabelLinked ==
    ASSUME NEW t, NEW r, NEW f, Linked(t), Relabelled(t, r, f)
    PROVE  Linked(r)
<1>1. /\ \A m \in Alloc(t) : f[m] \in Alloc(r) /\ f[m] \in Nodes /\ f[m] # Sentinel
      /\ \A y \in Alloc(r) : \E m \in Alloc(t) : f[m] = y
      /\ \A x \in Alloc(t), y \in Alloc(t) \cup {Sentinel} : f[x] = f[y] <=> x = y
      /\ f[Sentinel] = Sentinel
  BY RelabelIs DEF Relabelled
<1>2. /\ t.root \in Alloc(t) \cup {Sentinel} /\ (t.root = Sentinel => Alloc(t) = {})
      /\ \A m \in Alloc(t), d \in Sides :
            /\ t.child[d][m] \in Alloc(t) \cup {Sentinel}
            /\ t.child[d][m] # Sentinel =>
                  t.child[d][m] # t.root /\ t.parent[t.child[d][m]] = m
      /\ \A m \in Alloc(t) \ {t.root} :
            t.parent[m] \in Alloc(t) /\ \E d \in Sides : t.child[d][t.parent[m]] = m
  BY DEF Linked
<1>3. /\ r \in Trees /\ r.root = f[t.root]
      /\ \A d \in Sides : r.child[d][Sentinel] = Null
      /\ \A m \in Alloc(t), d \in Sides : r.child[d][f[m]] = f[t.child[d][m]]
      /\ \A m \in Alloc(t) \ {t.root} : r.parent[f[m]] = f[t.parent[m]]
  BY DEF Relabelled
<1>4. r.root \in Alloc(r) \cup {Sentinel} /\ (r.root = Sentinel => Alloc(r) = {})
  BY ONLY <1>1, <1>2, <1>3
<1>5. ASSUME NEW y \in Alloc(r), NEW d \in Sides
      PROVE  /\ r.child[d][y] \in Alloc(r) \cup {Sentinel}
             /\ r.child[d][y] # Sentinel =>
                   r.child[d][y] # r.root /\ r.parent[r.child[d][y]] = y
  <2>1. PICK m \in Alloc(t) : f[m] = y
    BY <1>1
  <2>2. PICK c : c = t.child[d][m]
    OBVIOUS
  <2>3. /\ r.child[d][y] = f[c] /\ c \in Alloc(t) \cup {Sentinel}
        /\ c # Sentinel => c # t.root /\ t.parent[c] = m
    BY ONLY <1>2, <1>3, <2>1, <2>2, d \in Sides
  <2>4. CASE c = Sentinel
    BY ONLY <1>1, <2>3, <2>4
  <2>5. CASE c # Sentinel
    <3>1. c \in Alloc(t) \ {t.root} /\ t.parent[c] = m
      BY ONLY <2>3, <2>5
    <3>2. r.parent[f[c]] = y
      BY ONLY <1>3, <2>1, <3>1
    <3>3. f[c] # f[t.root] /\ f[c] \in Alloc(r)
      BY ONLY <1>1, <1>2, <3>1
    <3> QED
      BY ONLY <1>3, <2>3, <3>2, <3>3
  <2> QED
    BY ONLY <2>4, <2>5
<1>6. ASSUME NEW y \in Alloc(r) \ {r.root}
      PROVE  r.parent[y] \in Alloc(r) /\ \E d \in Sides : r.child[d][r.parent[y]] = y
  <2>1. PICK m \in Alloc(t) : f[m] = y
    BY <1>1
  <2>2. m \in Alloc(t) \ {t.root}
    BY ONLY <1>3, <1>6, <2>1
  <2>3. PICK d \in Sides : t.child[d][t.parent[m]] = m
    BY ONLY <1>2, <2>2
  <2>4. t.parent[m] \in Alloc(t) /\ r.parent[y] = f[t.parent[m]]
    BY ONLY <1>2, <1>3, <2>1, <2>2
  <2>5. r.child[d][f[t.parent[m]]] = y
    BY ONLY <1>3, <2>1, <2>3, <2>4
  <2> QED
    BY ONLY <1>1, <2>4, <2>5
<1> QED
  BY ONLY <1>3, <1>4, <1>5, <1>6 DEF Linked

(* If the new nodes have the order of the old ones, they are in order.     *)
LEMMA RelabelPlaced ==
    ASSUME NEW t, NEW r, NEW f, NEW pos, NEW b, Linked(t), Placed(t, pos, b),
           Relabelled(t, r, f),
           NEW pos2 \in [Nodes -> Int], NEW b2 \in [Sides -> [Nodes -> Int]],
           \A m \in Alloc(t) : pos2[f[m]] = pos[m],
           \A m \in Alloc(t), d \in Sides : b2[d][f[m]] = b[d][m],
           \A x, y \in Alloc(t) : pos[x] < pos[y] => Key(f[x]) <= Key(f[y])
    PROVE  Placed(r, pos2, b2)
<1>1. /\ \A m \in Alloc(t) : f[m] \in Alloc(r) /\ f[m] \in Nodes /\ f[m] # Sentinel
      /\ \A y \in Alloc(r) : \E m \in Alloc(t) : f[m] = y
      /\ f[Sentinel] = Sentinel /\ "left" \in Sides /\ "right" \in Sides
  <2>1. f[Sentinel] = Sentinel /\ "left" \in Sides /\ "right" \in Sides
    BY DEF Relabelled, Sides
  <2>2. /\ \A m \in Alloc(t) : f[m] \in Alloc(r) /\ f[m] \in Nodes /\ f[m] # Sentinel
        /\ \A y \in Alloc(r) : \E m \in Alloc(t) : f[m] = y
    BY ONLY Relabelled(t, r, f), RelabelIs
  <2> QED
    BY ONLY <2>1, <2>2
<1>2. /\ \A x, y \in Alloc(t) : pos[x] = pos[y] => x = y
      /\ \A m \in Alloc(t) : Between(b, m, pos[m])
      /\ \A m \in Alloc(t), d \in Sides :
            t.child[d][m] # Sentinel =>
                /\ ~Toward(d, b[d][t.child[d][m]], b[d][m])
                /\ ~Toward(Other(d), b[Other(d)][t.child[d][m]], pos[m])
      /\ \A m, x \in Alloc(t), d \in Sides :
            Between(b, m, pos[x]) /\ Toward(d, pos[x], pos[m]) =>
                t.child[d][m] # Sentinel /\ Between(b, t.child[d][m], pos[x])
      /\ \A x \in Alloc(t) : Between(b, t.root, pos[x])
  BY DEF Placed
<1>3. /\ r.root = f[t.root]
      /\ \A m \in Alloc(t), d \in Sides : r.child[d][f[m]] = f[t.child[d][m]]
  BY DEF Relabelled
<1>4. /\ \A m \in Alloc(t), d \in Sides : t.child[d][m] \in Alloc(t) \cup {Sentinel}
      /\ t.root \in Alloc(t) \cup {Sentinel} /\ (t.root = Sentinel => Alloc(t) = {})
  BY DEF Linked
<1>5. \A m \in Alloc(t) : \A x : Between(b2, f[m], x) <=> Between(b, m, x)
  BY ONLY <1>1, \A m \in Alloc(t), d \in Sides : b2[d][f[m]] = b[d][m] DEF Between
<1>6. /\ \A x, y \in Alloc(r) : pos2[x] = pos2[y] => x = y
      /\ \A x, y \in Alloc(r) : pos2[x] < pos2[y] => Key(x) <= Key(y)
  <2> SUFFICES ASSUME NEW x \in Alloc(r), NEW y \in Alloc(r)
               PROVE  /\ pos2[x] = pos2[y] => x = y
                      /\ pos2[x] < pos2[y] => Key(x) <= Key(y)
    OBVIOUS
  <2>1. PICK v \in Alloc(t) : f[v] = x
    BY <1>1
  <2>2. PICK w \in Alloc(t) : f[w] = y
    BY <1>1
  <2>3. pos2[x] = pos[v] /\ pos2[y] = pos[w]
    BY ONLY <2>1, <2>2, \A m \in Alloc(t) : pos2[f[m]] = pos[m]
  <2> QED
    BY ONLY <1>2, <2>1, <2>2, <2>3,
            \A q, z \in Alloc(t) : pos[q] < pos[z] => Key(f[q]) <= Key(f[z])
<1>7. \A m \in Alloc(r) : Between(b2, m, pos2[m])
  BY ONLY <1>1, <1>2, <1>5, \A m \in Alloc(t) : pos2[f[m]] = pos[m]
<1>8. ASSUME NEW y \in Alloc(r), NEW d \in Sides, r.child[d][y] # Sentinel
      PROVE  /\ ~Toward(d, b2[d][r.child[d][y]], b2[d][y])
             /\ ~Toward(Other(d), b2[Other(d)][r.child[d][y]], pos2[y])
  <2>1. PICK m \in Alloc(t) : f[m] = y
    BY <1>1
  <2>2. PICK c : c = t.child[d][m]
    OBVIOUS
  <2>3. r.child[d][y] = f[c] /\ c \in Alloc(t) /\ c # Sentinel
    BY ONLY <1>1, <1>3, <1>4, <1>8, <2>1, <2>2
  <2>4. Other(d) \in Sides
    BY SidesAre
  <2>5. /\ b2[d][f[c]] = b[d][c] /\ b2[d][f[m]] = b[d][m]
        /\ b2[Other(d)][f[c]] = b[Other(d)][c] /\ pos2[f[m]] = pos[m]
    BY ONLY <2>1, <2>3, <2>4, d \in Sides, \A z \in Alloc(t) : pos2[f[z]] = pos[z],
            \A z \in Alloc(t), e \in Sides : b2[e][f[z]] = b[e][z]
  <2>6. ~Toward(d, b[d][c], b[d][m]) /\ ~Toward(Other(d), b[Other(d)][c], pos[m])
    BY ONLY <1>2, <2>1, <2>2, <2>3, d \in Sides
  <2> QED
    BY ONLY <2>1, <2>3, <2>5, <2>6
<1>9. ASSUME NEW y \in Alloc(r), NEW z \in Alloc(r), NEW d \in Sides,
             Between(b2, y, pos2[z]), Toward(d, pos2[z], pos2[y])
      PROVE  r.child[d][y] # Sentinel /\ Between(b2, r.child[d][y], pos2[z])
  <2>1. PICK m \in Alloc(t) : f[m] = y
    BY <1>1
  <2>2. PICK x \in Alloc(t) : f[x] = z
    BY <1>1
  <2>3. pos2[y] = pos[m] /\ pos2[z] = pos[x]
    BY ONLY <2>1, <2>2, \A q \in Alloc(t) : pos2[f[q]] = pos[q]
  <2>4. Between(b, m, pos[x]) /\ Toward(d, pos[x], pos[m])
    BY ONLY <1>5, <1>9, <2>1, <2>3
  <2>5. PICK c : c = t.child[d][m]
    OBVIOUS
  <2>6. c # Sentinel /\ Between(b, c, pos[x])
    BY ONLY <1>2, <2>4, <2>5, d \in Sides
  <2>7. r.child[d][y] = f[c] /\ c \in Alloc(t)
    BY ONLY <1>3, <1>4, <2>1, <2>5, <2>6, d \in Sides
  <2> QED
    BY ONLY <1>1, <1>5, <2>3, <2>6, <2>7
<1>10. \A z \in Alloc(r) : Between(b2, r.root, pos2[z])
  <2> SUFFICES ASSUME NEW z \in Alloc(r) PROVE Between(b2, r.root, pos2[z])
    OBVIOUS
  <2>1. PICK x \in Alloc(t) : f[x] = z
    BY <1>1
  <2>2. pos2[z] = pos[x] /\ t.root \in Alloc(t) /\ Between(b, t.root, pos[x])
    BY ONLY <1>2, <1>4, <2>1, \A q \in Alloc(t) : pos2[f[q]] = pos[q]
  <2> QED
    BY ONLY <1>3, <1>5, <2>2
<1> QED
  BY ONLY <1>6, <1>7, <1>8, <1>9, <1>10, pos2 \in [Nodes -> Int],
          b2 \in [Sides -> [Nodes -> Int]] DEF Placed

(* If they have the colours of the old ones, every way down weighs the     *)
(* same.                                                                   *)
LEMMA RelabelWeighed ==
    ASSUME NEW t, NEW r, NEW f, NEW bh, NEW place, Linked(t), Weighed(t, bh, place),
           Relabelled(t, r, f),
           NEW h \in [Cells -> Nat], h[Sentinel] = 0, \A m \in Alloc(t) : h[f[m]] = bh[m],
           NEW place2,
           \A m \in Alloc(t), d \in Sides : place2 = <<f[m], d>> <=> place = <<m, d>>
    PROVE  Weighed(r, h, place2)
<1>1. /\ \A y \in Alloc(r) : \E m \in Alloc(t) : f[m] = y
      /\ f[Sentinel] = Sentinel
      /\ \A m \in Alloc(t), d \in Sides : r.child[d][f[m]] = f[t.child[d][m]]
      /\ \A m \in Alloc(t) : f[m] \in r.red <=> m \in t.red
      /\ \A m \in Alloc(t), d \in Sides : t.child[d][m] \in Alloc(t) \cup {Sentinel}
  BY RelabelIs DEF Relabelled, Linked
<1>2. /\ bh[Sentinel] = 0
      /\ \A m \in Alloc(t), d \in Sides :
            bh[m] = bh[t.child[d][m]] + (IF place = <<m, d>> THEN 1 ELSE 0)
                    + (IF m \in t.red THEN 0 ELSE 1)
  BY DEF Weighed
<1>3. \A m \in Alloc(t) \cup {Sentinel} : h[f[m]] = bh[m]
  BY ONLY <1>1, <1>2, h[Sentinel] = 0, \A m \in Alloc(t) : h[f[m]] = bh[m]
<1>4. ASSUME NEW y \in Alloc(r), NEW d \in Sides
      PROVE  h[y] = h[r.child[d][y]] + (IF place2 = <<y, d>> THEN 1 ELSE 0)
                    + (IF y \in r.red THEN 0 ELSE 1)
  <2>1. PICK m \in Alloc(t) : f[m] = y
    BY <1>1
  <2>2. PICK c : c = t.child[d][m]
    OBVIOUS
  <2>3. /\ r.child[d][y] = f[c] /\ c \in Alloc(t) \cup {Sentinel}
        /\ bh[m] = bh[c] + (IF place = <<m, d>> THEN 1 ELSE 0)
                   + (IF m \in t.red THEN 0 ELSE 1)
    BY ONLY <1>1, <1>2, <2>1, <2>2, d \in Sides
  <2>4. h[y] = bh[m] /\ h[f[c]] = bh[c] /\ (y \in r.red <=> m \in t.red)
    BY ONLY <1>1, <1>3, <2>1, <2>3
  <2>5. place2 = <<y, d>> <=> place = <<m, d>>
    BY <2>1
  <2> QED
    BY ONLY <2>3, <2>4, <2>5
<1> QED
  BY ONLY <1>4, h \in [Cells -> Nat], h[Sentinel] = 0 DEF Weighed

-----------------------------------------------------------------------------
(* What the steps of a deletion do to each part of a tree.                 *)
LEMMA FreedIs ==
    ASSUME NEW t \in Trees, NEW n \in Nodes, NEW r, r = Freed(t, n)
    PROVE  /\ r \in Trees /\ r.root = t.root /\ r.red = t.red \ {n}
           /\ \A d \in Sides, m \in Cells :
                 r.child[d][m] = IF m = n THEN Null ELSE t.child[d][m]
           /\ \A m \in Cells :
                 r.parent[m] = IF m = n \/ t.parent[m] = n THEN Null ELSE t.parent[m]
<1>1. PICK u : u = Paint(t, {}, {n})
  OBVIOUS
<1>2. /\ u \in Trees /\ u.root = t.root /\ u.child = t.child /\ u.parent = t.parent
      /\ u.red = t.red \ {n}
  <2>1. {} \subseteq Nodes
    OBVIOUS
  <2>2. /\ Paint(t, {}, {n}) \in Trees
        /\ Paint(t, {}, {n}).root = t.root
        /\ Paint(t, {}, {n}).child = t.child
        /\ Paint(t, {}, {n}).parent = t.parent
        /\ Paint(t, {}, {n}).red = (t.red \cup {}) \ {n}
    BY ONLY <2>1, t \in Trees, PaintIs
  <2> QED
    BY ONLY <1>1, <2>2
<1>3. r = [u EXCEPT !.child = [s \in Sides |-> [@[s] EXCEPT ![n] = Null]],
                    !.parent = [m \in Cells |-> IF m = n \/ @[m] = n THEN Null ELSE @[m]]]
  BY ONLY <1>1, r = Freed(t, n) DEF Freed
<1>4. Null \in Links /\ n \in Cells
  BY Constants
<1>5. \A d \in Sides : u.child[d] \in [Cells -> Links]
  BY <1>2 DEF Trees
<1>6. PICK c : c = [s \in Sides |-> [u.child[s] EXCEPT ![n] = Null]]
  OBVIOUS
<1>7. PICK p : p = [m \in Cells |-> IF m = n \/ u.parent[m] = n THEN Null ELSE u.parent[m]]
  OBVIOUS
<1>8. /\ c \in [Sides -> [Cells -> Links]]
      /\ \A d \in Sides, m \in Cells : c[d][m] = IF m = n THEN Null ELSE u.child[d][m]
  BY ONLY <1>4, <1>5, <1>6
<1>9. /\ p \in [Cells -> Links]
      /\ \A m \in Cells : p[m] = IF m = n \/ u.parent[m] = n THEN Null ELSE u.parent[m]
  BY ONLY <1>2, <1>4, <1>7 DEF Trees
<1>10. r = [u EXCEPT !.child = c, !.parent = p]
  BY ONLY <1>3, <1>6, <1>7
<1>11. r \in Trees /\ r.root = u.root /\ r.red = u.red /\ r.child = c /\ r.parent = p
  BY ONLY <1>2, <1>8, <1>9, <1>10 DEF Trees
<1> QED
  BY ONLY <1>2, <1>8, <1>9, <1>11

(* Node s is out of the tree, and n is in it.                              *)
CanTakePlace(t, s, n) ==
    /\ s # n /\ (n # t.root => t.parent[n] \in Nodes /\ t.parent[n] # s)
    /\ \A d \in Sides : t.child[d][n] \in Cells

(* What r is then: t with s in the place of n.                             *)
TookPlace(t, s, n, r) ==
    /\ r \in Trees /\ r.root = IF n = t.root THEN s ELSE t.root
    /\ r.red = IF n \in t.red THEN t.red \cup {s} ELSE t.red \ {s}
    /\ \A d \in Sides, m \in Cells : r.child[d][m] =
          IF n # t.root /\ m = t.parent[n] /\ d = SideOf(t, n) THEN s
          ELSE IF m = s THEN t.child[d][n] ELSE t.child[d][m]
    /\ \A m \in Cells : r.parent[m] =
          IF m # Sentinel /\ \E d \in Sides : m = t.child[d][n] THEN s
          ELSE IF m = s THEN t.parent[n] ELSE t.parent[m]

(* TakePlace sets just the pointers that TookPlace names, and one colour.  *)
LEMMA TakePlaceIs ==
    ASSUME NEW t \in Trees, NEW s \in Nodes, NEW n \in Nodes, CanTakePlace(t, s, n)
    PROVE  TookPlace(t, s, n, TakePlace(t, s, n))
<1> DEFINE r == TakePlace(t, s, n)
<1> HIDE DEF r
<1>0. /\ s # n /\ (n # t.root => t.parent[n] \in Nodes /\ t.parent[n] # s)
      /\ \A d \in Sides : t.child[d][n] \in Cells
  BY DEF CanTakePlace
<1>1. PICK v : v = [t EXCEPT !.child = [side \in Sides |-> [@[side] EXCEPT ![s] = t.child[side][n]]],
                             !.parent[s] = t.parent[n]]
  OBVIOUS
<1>2. PICK t1 : t1 = Hang(v, n, s)
  OBVIOUS
<1>3. PICK left : left = t1.child["left"][s]
  OBVIOUS
<1>4. PICK t2 : t2 = SetParentUnlessSentinel(t1, left, s)
  OBVIOUS
<1>5. PICK right : right = t2.child["right"][s]
  OBVIOUS
<1>6. PICK t3 : t3 = SetParentUnlessSentinel(t2, right, s)
  OBVIOUS
<1>7. r = CopyColor(t3, s, n)
  BY ONLY Zenon, <1>1, <1>2, <1>3, <1>4, <1>5, <1>6 DEF r, TakePlace
<1>8. /\ s \in Cells /\ n \in Cells /\ s \in Links /\ Cells \subseteq Links
      /\ Nodes \subseteq Cells /\ Sentinel \notin Nodes
      /\ "left" \in Sides /\ "right" \in Sides /\ \A d \in Sides : d = "left" \/ d = "right"
  BY Constants DEF Sides
<1>9. /\ v \in Trees /\ v.root = t.root /\ v.red = t.red
      /\ \A d \in Sides, m \in Cells : v.child[d][m] = IF m = s THEN t.child[d][n] ELSE t.child[d][m]
      /\ \A m \in Cells : v.parent[m] = IF m = s THEN t.parent[n] ELSE t.parent[m]
  <2>1. \A d \in Sides : t.child[d][n] \in Links /\ t.child[d] \in [Cells -> Links]
    BY <1>8 DEF Trees
  <2>2. PICK c : c = [side \in Sides |-> [t.child[side] EXCEPT ![s] = t.child[side][n]]]
    OBVIOUS
  <2>3. /\ c \in [Sides -> [Cells -> Links]]
        /\ \A d \in Sides, m \in Cells : c[d][m] = IF m = s THEN t.child[d][n] ELSE t.child[d][m]
    BY ONLY <1>8, <2>1, <2>2
  <2>4. v = [t EXCEPT !.child = c, !.parent[s] = t.parent[n]]
    BY ONLY <1>1, <2>2
  <2>5. t.parent[n] \in Links
    BY <1>8 DEF Trees
  <2> QED
    BY ONLY <1>8, <2>3, <2>4, <2>5, t \in Trees DEF Trees
<1>10. SideOf(v, n) = SideOf(t, n) \/ n = t.root
  <2> SUFFICES ASSUME n # t.root PROVE SideOf(v, n) = SideOf(t, n)
    OBVIOUS
  <2>1. v.parent[n] = t.parent[n] /\ t.parent[n] \in Cells /\ t.parent[n] # s
    BY <1>0, <1>8, <1>9
  <2>2. v.child["left"][t.parent[n]] = t.child["left"][t.parent[n]]
    BY ONLY <1>8, <1>9, <2>1
  <2> QED
    BY ONLY <2>1, <2>2 DEF SideOf
<1>11. /\ t1 \in Trees /\ t1.root = IF n = t.root THEN s ELSE t.root
       /\ t1.parent = v.parent /\ t1.red = t.red
       /\ \A d \in Sides, m \in Cells : t1.child[d][m] =
             IF n # t.root /\ m = t.parent[n] /\ d = SideOf(t, n) THEN s
             ELSE IF m = s THEN t.child[d][n] ELSE t.child[d][m]
  <2>1. n # v.root => v.parent[n] \in Nodes
    BY <1>0, <1>8, <1>9
  <2>2. v \in Trees /\ n \in Cells /\ s \in Cells
    BY <1>0, <1>8, <1>9
  <2>3. /\ Hang(v, n, s) \in Trees
        /\ Hang(v, n, s).root = IF n = v.root THEN s ELSE v.root
        /\ Hang(v, n, s).parent = v.parent
        /\ Hang(v, n, s).red = v.red
        /\ \A d \in Sides, m \in Cells : Hang(v, n, s).child[d][m] =
              IF n # v.root /\ m = v.parent[n] /\ d = SideOf(v, n) THEN s ELSE v.child[d][m]
    BY ONLY <2>1, <2>2, HangIs
  <2>4. v.parent[n] = t.parent[n]
    BY <1>0, <1>8, <1>9
  <2> QED
    BY ONLY <1>2, <1>9, <1>10, <2>3, <2>4
<1>12. /\ left = t.child["left"][n] /\ left \in Cells
  BY ONLY <1>3, <1>8, <1>11, <1>0
<1>13. /\ t2 \in Trees /\ t2.root = t1.root /\ t2.child = t1.child /\ t2.red = t1.red
       /\ \A m \in Cells : t2.parent[m] = IF m # Sentinel /\ m = left THEN s ELSE t1.parent[m]
  <2>1. CASE left = Sentinel
    BY ONLY <1>4, <1>11, <2>1 DEF SetParentUnlessSentinel
  <2>2. CASE left # Sentinel
    <3>1. t2 = SetParent(t1, left, s)
      BY ONLY <1>4, <2>2 DEF SetParentUnlessSentinel
    <3>2. t1 \in Trees /\ left \in Cells /\ s \in Links
      BY ONLY <1>8, <1>11, <1>12
    <3>3. /\ SetParent(t1, left, s) \in Trees
          /\ SetParent(t1, left, s).root = t1.root
          /\ SetParent(t1, left, s).child = t1.child
          /\ SetParent(t1, left, s).red = t1.red
          /\ \A m \in Cells : SetParent(t1, left, s).parent[m] =
                IF m = left THEN s ELSE t1.parent[m]
      BY ONLY <3>2, SetParentIs
    <3> QED
      BY ONLY <2>2, <3>1, <3>3
  <2> QED
    BY ONLY <2>1, <2>2
<1>14. /\ right = t.child["right"][n] /\ right \in Cells
  BY ONLY <1>5, <1>8, <1>11, <1>13, <1>0
<1>15. /\ t3 \in Trees /\ t3.root = t2.root /\ t3.child = t2.child /\ t3.red = t2.red
       /\ \A m \in Cells : t3.parent[m] = IF m # Sentinel /\ m = right THEN s ELSE t2.parent[m]
  <2>1. CASE right = Sentinel
    BY ONLY <1>6, <1>13, <2>1 DEF SetParentUnlessSentinel
  <2>2. CASE right # Sentinel
    <3>1. t3 = SetParent(t2, right, s)
      BY ONLY <1>6, <2>2 DEF SetParentUnlessSentinel
    <3>2. t2 \in Trees /\ right \in Cells /\ s \in Links
      BY ONLY <1>8, <1>13, <1>14
    <3>3. /\ SetParent(t2, right, s) \in Trees
          /\ SetParent(t2, right, s).root = t2.root
          /\ SetParent(t2, right, s).child = t2.child
          /\ SetParent(t2, right, s).red = t2.red
          /\ \A m \in Cells : SetParent(t2, right, s).parent[m] =
                IF m = right THEN s ELSE t2.parent[m]
      BY ONLY <3>2, SetParentIs
    <3> QED
      BY ONLY <2>2, <3>1, <3>3
  <2> QED
    BY ONLY <2>1, <2>2
<1>16. /\ r \in Trees /\ r.root = t3.root /\ r.child = t3.child /\ r.parent = t3.parent
       /\ r.red = IF n \in t3.red THEN t3.red \cup {s} ELSE t3.red \ {s}
  <2>1. {s} \subseteq Nodes /\ {} \subseteq Nodes /\ t3 \in Trees
    BY <1>15
  <2>2. /\ Paint(t3, {s}, {}) \in Trees
        /\ Paint(t3, {s}, {}).root = t3.root
        /\ Paint(t3, {s}, {}).child = t3.child
        /\ Paint(t3, {s}, {}).parent = t3.parent
        /\ Paint(t3, {s}, {}).red = (t3.red \cup {s}) \ {}
    BY ONLY <2>1, PaintIs
  <2>3. /\ Paint(t3, {}, {s}) \in Trees
        /\ Paint(t3, {}, {s}).root = t3.root
        /\ Paint(t3, {}, {s}).child = t3.child
        /\ Paint(t3, {}, {s}).parent = t3.parent
        /\ Paint(t3, {}, {s}).red = (t3.red \cup {}) \ {s}
    BY ONLY <2>1, PaintIs
  <2> QED
    BY ONLY <1>7, <2>2, <2>3 DEF CopyColor
<1>17. \A m \in Cells : r.parent[m] =
          IF m # Sentinel /\ \E d \in Sides : m = t.child[d][n] THEN s
          ELSE IF m = s THEN t.parent[n] ELSE t.parent[m]
  BY ONLY <1>8, <1>9, <1>11, <1>12, <1>13, <1>14, <1>15, <1>16
<1>18. TookPlace(t, s, n, r)
  BY ONLY <1>11, <1>13, <1>15, <1>16, <1>17 DEF TookPlace
<1> QED
  BY ONLY <1>18 DEF r

(* The node that leaves its place, and its child.  If it is not n, it is   *)
(* the next one in the order.                                              *)
LEMMA SubstIs ==
    ASSUME NEW pos, NEW b, Linked(tree), Placed(tree, pos, b), NEW n \in Alloc(tree),
           NEW s, s = Subst(n), NEW h, h = Heir(n)
    PROVE  /\ s \in Alloc(tree) /\ \E side \in Sides : Loose(tree, s, h, side)
           /\ s # n => /\ s # tree.root /\ ~Between(b, s, pos[n]) /\ pos[n] < pos[s]
                       /\ \A x \in Alloc(tree) : ~(pos[n] < pos[x] /\ pos[x] < pos[s])
<1>1. "left" \in Sides /\ "right" \in Sides /\ \A d \in Sides : d = "left" \/ d = "right"
  BY DEF Sides
<1>2. h = tree.child[IF tree.child["left"][s] = Sentinel THEN "right" ELSE "left"][s]
  BY ONLY s = Subst(n), h = Heir(n) DEF Heir
<1>3. CASE \E d \in Sides : tree.child[d][n] = Sentinel
  <2>1. s = n
    BY ONLY <1>3, s = Subst(n) DEF Subst
  <2>2. \E side \in Sides : Loose(tree, s, h, side)
    <3>1. CASE tree.child["left"][s] = Sentinel
      BY <1>1, <1>2, <3>1 DEF Loose, Other
    <3>2. CASE tree.child["left"][s] # Sentinel
      BY <1>1, <1>2, <1>3, <2>1, <3>2 DEF Loose, Other
    <3> QED
      BY ONLY <3>1, <3>2
  <2> QED
    BY <2>1, <2>2
<1>4. CASE ~\E d \in Sides : tree.child[d][n] = Sentinel
  <2>1. PICK c : c = tree.child["right"][n]
    OBVIOUS
  <2>2. s = Leftmost(tree, c) /\ c # Sentinel
    BY ONLY <1>1, <1>4, <2>1, s = Subst(n) DEF Subst
  <2>3. /\ pos \in [Nodes -> Int] /\ b \in [Sides -> [Nodes -> Int]]
        /\ \A m \in Alloc(tree) : Between(b, m, pos[m])
        /\ \A m, x \in Alloc(tree), d \in Sides :
              Between(b, m, pos[x]) /\ Toward(d, pos[x], pos[m]) =>
                  tree.child[d][m] # Sentinel /\ Between(b, tree.child[d][m], pos[x])
    BY DEF Placed
  <2>4. /\ Alloc(tree) \subseteq Nodes
        /\ \A m \in Alloc(tree) : /\ pos[m] \in Int
                                  /\ b["left"][m] \in Int /\ b["right"][m] \in Int
    <3>1. Alloc(tree) \subseteq Nodes
      BY AllocIs
    <3> QED
      BY ONLY <1>1, <2>3, <3>1
  <2> DEFINE Next(m) == /\ m # tree.root /\ ~Between(b, m, pos[n]) /\ pos[n] < pos[m]
                        /\ \A x \in Alloc(tree) : pos[n] < pos[x] /\ pos[x] < pos[m]
                               => Between(b, m, pos[x])
             S == {m \in Alloc(tree) : Next(m)}
  <2>5. c \in S
    <3>1. /\ c \in Alloc(tree) /\ c # tree.root
          /\ Between(b, n, pos[c]) /\ ~Between(b, c, pos[n])
          /\ Toward("right", pos[c], pos[n])
      BY ONLY Linked(tree), Placed(tree, pos, b), n \in Alloc(tree), <1>1, <2>1, <2>2, ChildIs
    <3>2. pos[n] < pos[c]
      BY ONLY <3>1 DEF Toward
    <3>3. ASSUME NEW x \in Alloc(tree), pos[n] < pos[x], pos[x] < pos[c]
          PROVE  Between(b, c, pos[x])
      <4>1. Between(b, n, pos[x]) /\ Toward("right", pos[x], pos[n])
        BY ONLY <2>3, <2>4, <3>1, <3>3, n \in Alloc(tree) DEF Between, Toward
      <4> QED
        BY ONLY <1>1, <2>1, <2>3, <4>1, n \in Alloc(tree), x \in Alloc(tree)
    <3> QED
      BY ONLY <3>1, <3>2, <3>3
  <2>6. ASSUME NEW m \in S, tree.child["left"][m] # Sentinel
        PROVE  tree.child["left"][m] \in S
    <3>1. PICK l : l = tree.child["left"][m]
      OBVIOUS
    <3>2. m \in Alloc(tree) /\ Next(m) /\ l # Sentinel
      BY <2>6, <3>1
    <3>3. /\ l \in Alloc(tree) /\ l # tree.root
          /\ Between(b, m, pos[l]) /\ Toward("left", pos[l], pos[m])
          /\ \A x \in Int : Between(b, l, x) => Between(b, m, x)
      BY ONLY Linked(tree), Placed(tree, pos, b), <1>1, <3>1, <3>2, ChildIs
    <3>4. ~Between(b, l, pos[n]) /\ pos[n] < pos[l]
      BY ONLY <2>3, <2>4, <3>2, <3>3, n \in Alloc(tree) DEF Between, Toward
    <3>5. ASSUME NEW x \in Alloc(tree), pos[n] < pos[x], pos[x] < pos[l]
          PROVE  Between(b, l, pos[x])
      <4>1. Between(b, m, pos[x]) /\ Toward("left", pos[x], pos[m])
        BY ONLY <2>4, <3>2, <3>3, <3>5, n \in Alloc(tree) DEF Toward
      <4> QED
        BY ONLY <1>1, <2>3, <3>1, <3>2, <4>1, x \in Alloc(tree)
    <3>6. l \in S
      BY ONLY <3>3, <3>4, <3>5
    <3> QED
      BY ONLY <3>1, <3>6
  <2>7. S \subseteq Alloc(tree)
    OBVIOUS
  <2> HIDE DEF S, Next
  <2>8. s \in S /\ tree.child["left"][s] = Sentinel
    <3>1. Leftmost(tree, c) \in S /\ tree.child["left"][Leftmost(tree, c)] = Sentinel
      BY ONLY Linked(tree), Placed(tree, pos, b), <2>5, <2>6, <2>7, LeftmostIs
    <3> QED
      BY ONLY <2>2, <3>1
  <2>9. s \in Alloc(tree) /\ Next(s)
    BY <2>8 DEF S
  <2>10. ASSUME NEW x \in Alloc(tree), pos[n] < pos[x], pos[x] < pos[s] PROVE FALSE
    <3>1. Between(b, s, pos[x]) /\ Toward("left", pos[x], pos[s])
      BY <2>9, <2>10 DEF Next, Toward
    <3> QED
      BY ONLY <1>1, <2>3, <2>8, <2>9, <3>1, x \in Alloc(tree)
  <2>11. \E side \in Sides : Loose(tree, s, h, side)
    BY <1>1, <1>2, <2>8 DEF Loose, Other
  <2> QED
    BY <2>9, <2>10, <2>11 DEF Next
<1> QED
  BY ONLY <1>3, <1>4

(* The new names: subst has the place of n.                                *)
Renaming(t, s, n) == [m \in Alloc(t) \cup {Sentinel} |-> IF m = n THEN s ELSE m]

(* What Unlinked does when it moves no node.                               *)
LEMMA UnlinkedOne ==
    ASSUME NEW pos, NEW b, Linked(tree), Placed(tree, pos, b), NEW n \in Alloc(tree),
           Subst(n) = n, n # tree.root, NEW h, h = Heir(n),
           tree.red \subseteq Alloc(tree),
           NEW u, u = Remove(tree, n, h), NEW r, r = Unlinked(n),
           NEW f, f = Renaming(u, n, n)
    PROVE  Relabelled(u, r, f) /\ r.parent[h] = f[tree.parent[n]] /\ r.red \subseteq Alloc(r)
           /\ SameNodes(u, r)
<1>1. PICK side \in Sides : Loose(tree, n, h, side)
  BY ONLY Linked(tree), Placed(tree, pos, b), n \in Alloc(tree), Subst(n) = n, h = Heir(n), SubstIs
<1>2. PICK above : above = tree.parent[n]
  OBVIOUS
<1>3. /\ h \in Alloc(tree) \cup {Sentinel} /\ h \in Cells /\ h # n /\ n \in Nodes
      /\ h # Sentinel => h # tree.root /\ tree.parent[h] = n
      /\ \A m \in Alloc(tree) \ {tree.root} : tree.parent[m] = n => m = h
      /\ \A m \in Alloc(tree), d \in Sides :
            tree.child[d][m] = n => m = above /\ d = SideOf(tree, n)
      /\ above \in Alloc(tree) /\ above # n
      /\ SideOf(tree, n) \in Sides /\ tree.child[SideOf(tree, n)][above] = n
  BY ONLY Linked(tree), Placed(tree, pos, b), n \in Alloc(tree), n # tree.root, <1>1, <1>2,
          LooseIs
<1>4. /\ Alloc(tree) \subseteq Nodes /\ Nodes \subseteq Cells /\ Sentinel \notin Nodes
      /\ tree \in Trees /\ "left" \in Sides /\ Sentinel \in Cells /\ Cells \subseteq Links
      /\ Null \notin Cells
      /\ \A d \in Sides : tree.child[d][Sentinel] = Null
  BY AllocIs, Constants DEF Linked, Sides
<1>5. /\ u.root = tree.root /\ u.red = tree.red \ {n}
      /\ \A d \in Sides, m \in Cells : u.child[d][m] =
            IF m = n THEN Null ELSE IF tree.child[d][m] = n THEN h ELSE tree.child[d][m]
      /\ \A m \in Cells : u.parent[m] = IF m = h THEN above ELSE tree.parent[m]
  <2>1. tree \in Trees /\ n \in Nodes /\ h \in Cells
    BY <1>3, <1>4
  <2>2. /\ u.root = IF n = tree.root THEN h ELSE tree.root
        /\ u.red = tree.red \ {n}
        /\ \A d \in Sides, m \in Cells : u.child[d][m] =
              IF m = n THEN Null ELSE IF tree.child[d][m] = n THEN h ELSE tree.child[d][m]
        /\ \A m \in Cells : u.parent[m] = IF m = h THEN tree.parent[n] ELSE tree.parent[m]
    BY ONLY <2>1, u = Remove(tree, n, h), RemoveIs
  <2> QED
    BY ONLY <1>2, <2>2, n # tree.root
<1>6. Linked(u) /\ Alloc(u) = Alloc(tree) \ {n}
  <2>1. PICK v : v = Alloc(u)
    OBVIOUS
  <2>2. PICK w : w = Alloc(tree) \ {n}
    OBVIOUS
  <2>3. Linked(u) /\ v = w
    BY ONLY Linked(tree), Placed(tree, pos, b), n \in Alloc(tree), <1>1,
            u = Remove(tree, n, h), <2>1, <2>2, RemoveLinked
  <2> QED
    BY <2>1, <2>2, <2>3
<1>7. PICK t1 : t1 = Hang(tree, n, h)
  OBVIOUS
<1>8. /\ t1 \in Trees /\ t1.root = tree.root /\ t1.parent = tree.parent /\ t1.red = tree.red
      /\ \A d \in Sides, m \in Cells : t1.child[d][m] =
            IF m = above /\ d = SideOf(tree, n) THEN h ELSE tree.child[d][m]
  <2>1. tree \in Trees /\ n \in Cells /\ h \in Cells /\ (n # tree.root => tree.parent[n] \in Nodes)
    BY <1>2, <1>3, <1>4
  <2>2. /\ Hang(tree, n, h) \in Trees
        /\ Hang(tree, n, h).root = IF n = tree.root THEN h ELSE tree.root
        /\ Hang(tree, n, h).parent = tree.parent
        /\ Hang(tree, n, h).red = tree.red
        /\ \A d \in Sides, m \in Cells : Hang(tree, n, h).child[d][m] =
              IF n # tree.root /\ m = tree.parent[n] /\ d = SideOf(tree, n) THEN h
              ELSE tree.child[d][m]
    BY ONLY <2>1, HangIs
  <2> QED
    BY ONLY <1>2, <1>7, <2>2, n # tree.root
<1>9. PICK t2 : t2 = SetParent(t1, h, above)
  OBVIOUS
<1>10. /\ t2 \in Trees /\ t2.root = t1.root /\ t2.child = t1.child /\ t2.red = t1.red
       /\ \A m \in Cells : t2.parent[m] = IF m = h THEN above ELSE t1.parent[m]
  <2>1. t1 \in Trees /\ h \in Cells /\ above \in Links
    BY ONLY <1>3, <1>4, <1>8
  <2>2. /\ SetParent(t1, h, above) \in Trees
        /\ SetParent(t1, h, above).root = t1.root
        /\ SetParent(t1, h, above).child = t1.child
        /\ SetParent(t1, h, above).red = t1.red
        /\ \A m \in Cells : SetParent(t1, h, above).parent[m] =
              IF m = h THEN above ELSE t1.parent[m]
    BY ONLY <2>1, SetParentIs
  <2> QED
    BY ONLY <1>9, <2>2
<1>11. r = Freed(t2, n)
  BY ONLY <1>2, <1>7, <1>9, r = Unlinked(n), Subst(n) = n, h = Heir(n) DEF Unlinked
<1>12. /\ r \in Trees /\ r.root = tree.root /\ r.red = tree.red \ {n}
       /\ \A d \in Sides, m \in Cells : r.child[d][m] =
             IF m = n THEN Null
             ELSE IF m = above /\ d = SideOf(tree, n) THEN h ELSE tree.child[d][m]
       /\ \A m \in Cells : m # n => r.parent[m] =
             IF m = h THEN above ELSE IF tree.parent[m] = n THEN Null ELSE tree.parent[m]
  <2>1. t2 \in Trees /\ n \in Nodes
    BY <1>3, <1>10
  <2>2. /\ r \in Trees /\ r.root = t2.root /\ r.red = t2.red \ {n}
        /\ \A d \in Sides, m \in Cells :
              r.child[d][m] = IF m = n THEN Null ELSE t2.child[d][m]
        /\ \A m \in Cells :
              r.parent[m] = IF m = n \/ t2.parent[m] = n THEN Null ELSE t2.parent[m]
    BY ONLY <2>1, <1>11, FreedIs
  <2> QED
    BY ONLY <1>3, <1>8, <1>10, <2>2
<1>13. Alloc(r) = Alloc(tree) \ {n}
  <2>1. \A m \in Nodes : m \in Alloc(r) <=> m \in Alloc(tree) /\ m # n
    <3> SUFFICES ASSUME NEW m \in Nodes PROVE m \in Alloc(r) <=> m \in Alloc(tree) /\ m # n
      OBVIOUS
    <3>1. /\ m \in Alloc(r) <=> r.child["left"][m] # Null
          /\ m \in Alloc(tree) <=> tree.child["left"][m] # Null
      BY AllocIs
    <3>2. r.child["left"][m] =
             IF m = n THEN Null
             ELSE IF m = above /\ "left" = SideOf(tree, n) THEN h ELSE tree.child["left"][m]
      BY ONLY <1>4, <1>12, m \in Nodes
    <3>3. h # Null
      BY ONLY <1>3, <1>4
    <3> QED
      BY ONLY <1>3, <3>1, <3>2, <3>3
  <2>2. Alloc(r) \subseteq Nodes
    BY AllocIs
  <2> QED
    BY ONLY <1>4, <2>1, <2>2
<1>14. \A m \in Alloc(u) \cup {Sentinel} : f[m] = m
  BY ONLY f = Renaming(u, n, n) DEF Renaming
<1>15. \A d \in Sides : r.child[d][Sentinel] = Null
  <2>1. Sentinel # n /\ Sentinel # above
    BY ONLY <1>3, <1>4
  <2> QED
    BY ONLY <1>4, <1>12, <2>1
<1>16. ASSUME NEW m \in Alloc(u), NEW d \in Sides
       PROVE  r.child[d][f[m]] = f[u.child[d][m]]
  <2>1. m \in Alloc(tree) /\ m # n /\ m \in Cells /\ f[m] = m
    BY ONLY <1>4, <1>6, <1>14, m \in Alloc(u)
  <2>2. u.child[d][m] \in Alloc(u) \cup {Sentinel}
    BY <1>6 DEF Linked
  <2>3. f[u.child[d][m]] = u.child[d][m]
    BY ONLY <1>14, <2>2
  <2>4. r.child[d][m] = u.child[d][m]
    BY ONLY <1>3, <1>5, <1>12, <2>1, d \in Sides
  <2> QED
    BY ONLY <2>1, <2>3, <2>4
<1>17. ASSUME NEW m \in Alloc(u) \ {u.root}
       PROVE  r.parent[f[m]] = f[u.parent[m]]
  <2>1. m \in Alloc(tree) /\ m # n /\ m \in Cells /\ f[m] = m /\ m # tree.root
    BY ONLY <1>4, <1>5, <1>6, <1>14, m \in Alloc(u) \ {u.root}
  <2>2. u.parent[m] \in Alloc(u)
    BY <1>6 DEF Linked
  <2>3. f[u.parent[m]] = u.parent[m]
    BY ONLY <1>14, <2>2
  <2>4. r.parent[m] = u.parent[m]
    BY ONLY <1>3, <1>5, <1>12, <2>1
  <2> QED
    BY ONLY <2>1, <2>3, <2>4
<1>18. Relabelled(u, r, f)
  <2>1. u.root \in Alloc(u) \cup {Sentinel}
    BY <1>6 DEF Linked
  <2>2. r.root = f[u.root]
    BY ONLY <1>5, <1>12, <1>14, <2>1
  <2>3. \A m \in Alloc(u) : f[m] \in r.red <=> m \in u.red
    BY ONLY <1>5, <1>12, <1>14
  <2>4. /\ f[Sentinel] = Sentinel
        /\ \A m \in Alloc(u) : f[m] \in Nodes
        /\ \A x, y \in Alloc(u) : f[x] = f[y] => x = y
        /\ \A y \in Nodes : y \in Alloc(r) <=> \E m \in Alloc(u) : f[m] = y
    BY ONLY <1>4, <1>6, <1>13, <1>14
  <2> QED
    BY ONLY <1>12, <1>15, <1>16, <1>17, <2>2, <2>3, <2>4 DEF Relabelled
<1>19. r.parent[h] = f[tree.parent[n]]
  BY ONLY <1>2, <1>3, <1>6, <1>12, <1>14
<1> QED
  BY ONLY <1>6, <1>12, <1>13, <1>18, <1>19, tree.red \subseteq Alloc(tree) DEF SameNodes

(* What Unlinked does when it moves the next node into the place of n.     *)
LEMMA UnlinkedTwo ==
    ASSUME NEW pos, NEW b, Linked(tree), Placed(tree, pos, b), NEW n \in Alloc(tree),
           NEW s, s = Subst(n), s # n, NEW h, h = Heir(n),
           tree.red \subseteq Alloc(tree),
           NEW u, u = Remove(tree, s, h), NEW r, r = Unlinked(n),
           NEW f, f = Renaming(u, s, n)
    PROVE  Relabelled(u, r, f) /\ r.parent[h] = f[tree.parent[s]] /\ r.red \subseteq Alloc(r)
           /\ Alloc(r) = Alloc(tree) \ {n} /\ h # n
<1>1. /\ s \in Alloc(tree) /\ s # tree.root /\ ~Between(b, s, pos[n])
      /\ \E side \in Sides : Loose(tree, s, h, side)
  BY ONLY Linked(tree), Placed(tree, pos, b), n \in Alloc(tree), s = Subst(n), s # n,
          h = Heir(n), SubstIs
<1>2. PICK side \in Sides : Loose(tree, s, h, side)
  BY <1>1
<1>3. PICK above : above = tree.parent[s]
  OBVIOUS
<1>4. /\ h \in Alloc(tree) \cup {Sentinel} /\ h \in Cells /\ h # s /\ s \in Nodes
      /\ h # Sentinel => h # tree.root /\ tree.parent[h] = s
      /\ \A m \in Alloc(tree) \ {tree.root} : tree.parent[m] = s => m = h
      /\ \A m \in Alloc(tree), d \in Sides :
            tree.child[d][m] = s => m = above /\ d = SideOf(tree, s)
      /\ above \in Alloc(tree) /\ above # s
      /\ SideOf(tree, s) \in Sides /\ tree.child[SideOf(tree, s)][above] = s
  BY ONLY Linked(tree), Placed(tree, pos, b), <1>1, <1>2, <1>3, LooseIs
<1>5. /\ Alloc(tree) \subseteq Nodes /\ Nodes \subseteq Cells /\ Sentinel \notin Nodes
      /\ tree \in Trees /\ "left" \in Sides /\ Sentinel \in Cells /\ Cells \subseteq Links
      /\ Null \notin Cells /\ n \in Nodes
      /\ \A d \in Sides : tree.child[d][Sentinel] = Null
  BY AllocIs, Constants DEF Linked, Sides
(* Node n is not below s.                                                  *)
<1>6. n # h /\ (n # tree.root => tree.parent[n] # s)
  <2>1. ASSUME NEW d \in Sides, tree.child[d][s] = n PROVE FALSE
    <3>1. n # Sentinel /\ Between(b, n, pos[n]) /\ pos[n] \in Int
      BY <1>5 DEF Placed
    <3>2. \A x \in Int : Between(b, n, x) => Between(b, s, x)
      BY ONLY Linked(tree), Placed(tree, pos, b), <1>1, <2>1, <3>1, ChildIs
    <3> QED
      BY ONLY <1>1, <3>1, <3>2
  <2>2. n # h
    <3>1. h = tree.child[Other(side)][s] /\ Other(side) \in Sides
      BY <1>2, SidesAre DEF Loose
    <3> QED
      BY ONLY <2>1, <3>1
  <2>3. n # tree.root => \E d \in Sides : tree.child[d][tree.parent[n]] = n
    BY DEF Linked
  <2> QED
    BY ONLY <2>1, <2>2, <2>3
<1>7. /\ \A m \in Alloc(tree), d \in Sides :
            /\ tree.child[d][m] \in Alloc(tree) \cup {Sentinel}
            /\ tree.child[d][m] # Sentinel =>
                  tree.child[d][m] # tree.root /\ tree.parent[tree.child[d][m]] = m
      /\ \A m \in Alloc(tree) \ {tree.root} :
            tree.parent[m] \in Alloc(tree) /\ \E d \in Sides : tree.child[d][tree.parent[m]] = m
  BY DEF Linked
<1>8. n # tree.root => /\ tree.parent[n] \in Alloc(tree) /\ SideOf(tree, n) \in Sides
                       /\ tree.child[SideOf(tree, n)][tree.parent[n]] = n
  <2> SUFFICES ASSUME n # tree.root
               PROVE  /\ tree.parent[n] \in Alloc(tree) /\ SideOf(tree, n) \in Sides
                      /\ tree.child[SideOf(tree, n)][tree.parent[n]] = n
    OBVIOUS
  <2> QED
    BY ONLY Linked(tree), Placed(tree, pos, b), n \in Alloc(tree), n # tree.root, ParentIs
<1>9. \A m \in Alloc(tree), d \in Sides :
         tree.child[d][m] = n => n # tree.root /\ m = tree.parent[n] /\ d = SideOf(tree, n)
  <2> SUFFICES ASSUME NEW m \in Alloc(tree), NEW d \in Sides, tree.child[d][m] = n
               PROVE  n # tree.root /\ m = tree.parent[n] /\ d = SideOf(tree, n)
    OBVIOUS
  <2>1. n # Sentinel
    BY <1>5
  <2> QED
    BY ONLY Linked(tree), Placed(tree, pos, b), m \in Alloc(tree), d \in Sides,
            tree.child[d][m] = n, <2>1, ChildIs
<1>10. /\ u.root = tree.root /\ u.red = tree.red \ {s}
       /\ \A d \in Sides, m \in Cells : u.child[d][m] =
             IF m = s THEN Null ELSE IF tree.child[d][m] = s THEN h ELSE tree.child[d][m]
       /\ \A m \in Cells : u.parent[m] = IF m = h THEN above ELSE tree.parent[m]
  <2>1. tree \in Trees /\ s \in Nodes /\ h \in Cells
    BY <1>4, <1>5
  <2>2. /\ u.root = IF s = tree.root THEN h ELSE tree.root
        /\ u.red = tree.red \ {s}
        /\ \A d \in Sides, m \in Cells : u.child[d][m] =
              IF m = s THEN Null ELSE IF tree.child[d][m] = s THEN h ELSE tree.child[d][m]
        /\ \A m \in Cells : u.parent[m] = IF m = h THEN tree.parent[s] ELSE tree.parent[m]
    BY ONLY <2>1, u = Remove(tree, s, h), RemoveIs
  <2> QED
    BY ONLY <1>1, <1>3, <2>2
<1>11. Linked(u) /\ Alloc(u) = Alloc(tree) \ {s}
  <2>1. PICK v : v = Alloc(u)
    OBVIOUS
  <2>2. PICK w : w = Alloc(tree) \ {s}
    OBVIOUS
  <2>3. Linked(u) /\ v = w
    BY ONLY Linked(tree), Placed(tree, pos, b), <1>1, <1>2,
            u = Remove(tree, s, h), <2>1, <2>2, RemoveLinked
  <2> QED
    BY <2>1, <2>2, <2>3
<1>12. PICK t1 : t1 = Hang(tree, s, h)
  OBVIOUS
<1>13. /\ t1 \in Trees /\ t1.root = tree.root /\ t1.parent = tree.parent /\ t1.red = tree.red
       /\ \A d \in Sides, m \in Cells : t1.child[d][m] =
             IF m = above /\ d = SideOf(tree, s) THEN h ELSE tree.child[d][m]
  <2>1. tree \in Trees /\ s \in Cells /\ h \in Cells /\ (s # tree.root => tree.parent[s] \in Nodes)
    BY <1>3, <1>4, <1>5
  <2>2. /\ Hang(tree, s, h) \in Trees
        /\ Hang(tree, s, h).root = IF s = tree.root THEN h ELSE tree.root
        /\ Hang(tree, s, h).parent = tree.parent
        /\ Hang(tree, s, h).red = tree.red
        /\ \A d \in Sides, m \in Cells : Hang(tree, s, h).child[d][m] =
              IF s # tree.root /\ m = tree.parent[s] /\ d = SideOf(tree, s) THEN h
              ELSE tree.child[d][m]
    BY ONLY <2>1, HangIs
  <2> QED
    BY ONLY <1>1, <1>3, <1>12, <2>2
<1>14. PICK q : q = IF above = n THEN s ELSE above
  OBVIOUS
<1>15. PICK t2 : t2 = SetParent(t1, h, q)
  OBVIOUS
<1>16. /\ t2 \in Trees /\ t2.root = tree.root /\ t2.red = tree.red
       /\ \A d \in Sides, m \in Cells : t2.child[d][m] =
             IF m = above /\ d = SideOf(tree, s) THEN h ELSE tree.child[d][m]
       /\ \A m \in Cells : t2.parent[m] = IF m = h THEN q ELSE tree.parent[m]
  <2>1. t1 \in Trees /\ h \in Cells /\ q \in Links
    BY ONLY <1>4, <1>5, <1>13, <1>14
  <2>2. /\ SetParent(t1, h, q) \in Trees
        /\ SetParent(t1, h, q).root = t1.root
        /\ SetParent(t1, h, q).child = t1.child
        /\ SetParent(t1, h, q).red = t1.red
        /\ \A m \in Cells : SetParent(t1, h, q).parent[m] =
              IF m = h THEN q ELSE t1.parent[m]
    BY ONLY <2>1, SetParentIs
  <2> QED
    BY ONLY <1>13, <1>15, <2>2
(* In that tree n is where it was, and s is below no node.                 *)
<1>17. /\ t2.parent[n] = tree.parent[n]
       /\ n # tree.root => SideOf(t2, n) = SideOf(tree, n)
       /\ \A d \in Sides, m \in Alloc(tree) :
             t2.child[d][m] = IF tree.child[d][m] = s THEN h ELSE tree.child[d][m]
  <2>1. t2.parent[n] = tree.parent[n]
    BY ONLY <1>5, <1>6, <1>16
  <2>2. ASSUME NEW d \in Sides, NEW m \in Alloc(tree)
        PROVE  t2.child[d][m] = IF tree.child[d][m] = s THEN h ELSE tree.child[d][m]
    BY ONLY <1>4, <1>5, <1>16, <2>2
  <2>3. ASSUME n # tree.root PROVE SideOf(t2, n) = SideOf(tree, n)
    <3>1. n = t2.child["left"][tree.parent[n]] <=> n = tree.child["left"][tree.parent[n]]
      BY ONLY <1>5, <1>6, <1>8, <2>2, <2>3, s # n
    <3> QED
      BY ONLY <2>1, <3>1 DEF SideOf
  <2> QED
    BY ONLY <2>1, <2>2, <2>3
<1>18. PICK t3 : t3 = TakePlace(t2, s, n)
  OBVIOUS
<1>19. /\ t3 \in Trees /\ t3.root = IF n = tree.root THEN s ELSE tree.root
       /\ t3.red = IF n \in tree.red THEN tree.red \cup {s} ELSE tree.red \ {s}
       /\ \A d \in Sides, m \in Cells : t3.child[d][m] =
             IF n # tree.root /\ m = tree.parent[n] /\ d = SideOf(tree, n) THEN s
             ELSE IF m = s THEN t2.child[d][n] ELSE t2.child[d][m]
       /\ \A m \in Cells : t3.parent[m] =
             IF m # Sentinel /\ \E d \in Sides : m = t2.child[d][n] THEN s
             ELSE IF m = s THEN tree.parent[n] ELSE t2.parent[m]
  <2>1. n # t2.root => t2.parent[n] \in Nodes /\ t2.parent[n] # s
    BY ONLY <1>5, <1>6, <1>8, <1>16, <1>17
  <2>2. \A d \in Sides : t2.child[d][n] \in Cells
    BY ONLY <1>4, <1>5, <1>7, <1>17, n \in Alloc(tree)
  <2>3. t2 \in Trees /\ s \in Nodes /\ n \in Nodes /\ CanTakePlace(t2, s, n)
    BY ONLY <1>4, <1>5, <1>16, <2>1, <2>2, s # n DEF CanTakePlace
  <2>4. TookPlace(t2, s, n, t3)
    <3>1. TookPlace(t2, s, n, TakePlace(t2, s, n))
      BY ONLY <2>3, TakePlaceIs
    <3> QED
      BY ONLY <1>18, <3>1
  <2>5. t2.root = tree.root /\ t2.red = tree.red
    BY ONLY <1>16
  <2> QED
    BY ONLY <1>17, <2>4, <2>5 DEF TookPlace
<1>20. r = Freed(t3, n)
  BY ONLY <1>3, <1>12, <1>14, <1>15, <1>18, r = Unlinked(n), s = Subst(n), s # n, h = Heir(n)
     DEF Unlinked
<1>21. /\ r \in Trees /\ r.root = t3.root /\ r.red = t3.red \ {n}
       /\ \A d \in Sides, m \in Cells :
             r.child[d][m] = IF m = n THEN Null ELSE t3.child[d][m]
       /\ \A m \in Cells :
             r.parent[m] = IF m = n \/ t3.parent[m] = n THEN Null ELSE t3.parent[m]
  BY ONLY <1>5, <1>19, <1>20, FreedIs
<1>22. Alloc(r) = Alloc(tree) \ {n}
  <2>1. \A m \in Nodes : m \in Alloc(r) <=> m \in Alloc(tree) /\ m # n
    <3> SUFFICES ASSUME NEW m \in Nodes PROVE m \in Alloc(r) <=> m \in Alloc(tree) /\ m # n
      OBVIOUS
    <3>1. /\ m \in Alloc(r) <=> r.child["left"][m] # Null
          /\ m \in Alloc(tree) <=> tree.child["left"][m] # Null
      BY AllocIs
    <3>2. m \in Cells
      BY <1>5
    <3>3. h # Null /\ s # Null /\ above \in Alloc(tree) /\ s \in Alloc(tree)
      BY ONLY <1>1, <1>4, <1>5
    <3>4. t2.child["left"][m] # Null <=> tree.child["left"][m] # Null
      BY ONLY <1>5, <1>16, <3>1, <3>2, <3>3
    <3>5. t2.child["left"][n] # Null
      BY ONLY <1>5, <1>16, <1>17, <1>7, <3>3, n \in Alloc(tree)
    <3>6. (n # tree.root /\ m = tree.parent[n]) => m \in Alloc(tree)
      BY ONLY <1>8
    <3> QED
      BY ONLY <1>5, <1>19, <1>21, <3>1, <3>2, <3>3, <3>4, <3>5, <3>6
  <2>2. Alloc(r) \subseteq Nodes
    BY AllocIs
  <2> QED
    BY ONLY <1>5, <2>1, <2>2
<1>23. \A m \in Alloc(u) \cup {Sentinel} : f[m] = IF m = n THEN s ELSE m
  BY ONLY f = Renaming(u, s, n) DEF Renaming
<1>24. n \in Alloc(u) /\ s \notin Alloc(u) /\ n # Sentinel /\ s # Sentinel /\ f[n] = s
       /\ f[Sentinel] = Sentinel
  BY ONLY <1>1, <1>5, <1>11, <1>23, s # n, n \in Alloc(tree)
<1>25. \A d \in Sides : r.child[d][Sentinel] = Null
  <2>1. Sentinel # n /\ Sentinel # above /\ Sentinel # s /\ (n # tree.root => Sentinel # tree.parent[n])
    BY ONLY <1>4, <1>5, <1>8
  <2> QED
    BY ONLY <1>5, <1>16, <1>19, <1>21, <2>1
<1>26. ASSUME NEW m \in Alloc(u), NEW d \in Sides
       PROVE  r.child[d][f[m]] = f[u.child[d][m]]
  <2>1. m \in Alloc(tree) /\ m # s /\ m \in Cells
    BY ONLY <1>5, <1>11, m \in Alloc(u)
  <2>2. u.child[d][m] \in Alloc(u) \cup {Sentinel} /\ u.child[d][m] = t2.child[d][m]
    <3>1. u.child[d][m] \in Alloc(u) \cup {Sentinel}
      BY <1>11 DEF Linked
    <3> QED
      BY ONLY <1>10, <1>17, <2>1, <3>1, d \in Sides
  <2>3. CASE m = n
    <3>1. f[m] = s /\ s \in Cells /\ s # n
      BY ONLY <1>4, <1>5, <1>24, <2>3, s # n
    <3>2. ~(n # tree.root /\ s = tree.parent[n])
      BY ONLY <1>6
    <3>3. r.child[d][s] = t2.child[d][n]
      BY ONLY <1>19, <1>21, <3>1, <3>2, d \in Sides
    <3>4. tree.child[d][n] # n
      BY ONLY Linked(tree), Placed(tree, pos, b), <1>24, n \in Alloc(tree), d \in Sides, ChildIs
    <3>5. u.child[d][n] # n
      BY ONLY <1>6, <1>17, <2>2, <2>3, <3>4, n \in Alloc(tree), d \in Sides
    <3> QED
      BY ONLY <1>23, <2>2, <2>3, <3>1, <3>3, <3>5
  <2>4. CASE m # n
    <3>1. f[m] = m
      BY ONLY <1>23, <2>4, m \in Alloc(u)
    <3>2. CASE n # tree.root /\ m = tree.parent[n] /\ d = SideOf(tree, n)
      <4>1. r.child[d][m] = s
        BY ONLY <1>19, <1>21, <2>1, <2>4, <3>2, d \in Sides
      <4>2. tree.child[d][m] = n
        BY ONLY <1>8, <3>2
      <4>3. u.child[d][m] = n
        BY ONLY <1>17, <2>1, <2>2, <4>2, d \in Sides, s # n
      <4> QED
        BY ONLY <1>24, <3>1, <4>1, <4>3
    <3>3. CASE ~(n # tree.root /\ m = tree.parent[n] /\ d = SideOf(tree, n))
      <4>1. r.child[d][m] = t2.child[d][m]
        BY ONLY <1>19, <1>21, <2>1, <2>4, <3>3, d \in Sides
      <4>2. tree.child[d][m] # n
        BY ONLY <1>9, <2>1, <3>3, d \in Sides
      <4>3. u.child[d][m] # n
        BY ONLY <1>6, <1>17, <2>1, <2>2, <4>2, d \in Sides
      <4> QED
        BY ONLY <1>23, <2>2, <3>1, <4>1, <4>3
    <3> QED
      BY ONLY <3>2, <3>3
  <2> QED
    BY ONLY <2>3, <2>4
<1>27. ASSUME NEW m \in Alloc(u) \ {u.root}
       PROVE  r.parent[f[m]] = f[u.parent[m]]
  <2>1. m \in Alloc(tree) /\ m # s /\ m \in Cells /\ m # tree.root /\ m # Sentinel
    BY ONLY <1>5, <1>10, <1>11, m \in Alloc(u) \ {u.root}
  <2>2. u.parent[m] \in Alloc(u) /\ u.parent[m] = IF m = h THEN above ELSE tree.parent[m]
    <3>1. u.parent[m] \in Alloc(u)
      BY <1>11 DEF Linked
    <3> QED
      BY ONLY <1>10, <2>1, <3>1
  <2>3. CASE m = n
    <3>1. f[m] = s /\ s \in Cells /\ s # n /\ s # h
      BY ONLY <1>4, <1>5, <1>24, <2>3, s # n
    <3>2. \A d \in Sides : s # t2.child[d][n]
      BY ONLY <1>17, <3>1, n \in Alloc(tree)
    <3>3. t3.parent[s] = tree.parent[n]
      BY ONLY <1>19, <3>1, <3>2
    <3>4. tree.parent[n] # n /\ u.parent[m] = tree.parent[n]
      <4>1. n # tree.root
        BY ONLY <2>1, <2>3
      <4>2. tree.parent[n] # n
        BY ONLY Linked(tree), Placed(tree, pos, b), n \in Alloc(tree), <4>1, ParentIs
      <4> QED
        BY ONLY <1>6, <2>2, <2>3, <4>2
    <3>5. r.parent[s] = tree.parent[n]
      BY ONLY <1>21, <3>1, <3>3, <3>4
    <3> QED
      BY ONLY <1>23, <2>2, <3>1, <3>4, <3>5
  <2>4. CASE m # n
    <3>1. f[m] = m
      BY ONLY <1>23, <2>4, m \in Alloc(u) \ {u.root}
    <3>2. PICK p : p = u.parent[m]
      OBVIOUS
    <3>3. t3.parent[m] = IF p = n THEN s ELSE p
      <4>1. CASE \E d \in Sides : m = t2.child[d][n]
        <5>1. PICK d \in Sides : m = t2.child[d][n]
          BY <4>1
        <5>2. t3.parent[m] = s
          BY ONLY <1>19, <2>1, <5>1
        <5>3. m = IF tree.child[d][n] = s THEN h ELSE tree.child[d][n]
          BY ONLY <1>17, <5>1, n \in Alloc(tree)
        <5>4. p = n
          <6>1. CASE tree.child[d][n] = s
            BY ONLY <1>4, <2>2, <3>2, <5>3, <6>1, n \in Alloc(tree)
          <6>2. CASE tree.child[d][n] # s
            <7>1. tree.parent[m] = n
              BY ONLY <1>7, <2>1, <5>3, <6>2, n \in Alloc(tree)
            <7> QED
              BY ONLY <1>4, <2>1, <2>2, <3>2, <7>1, s # n
          <6> QED
            BY ONLY <6>1, <6>2
        <5> QED
          BY ONLY <5>2, <5>4
      <4>2. CASE ~\E d \in Sides : m = t2.child[d][n]
        <5>1. t3.parent[m] = IF m = h THEN q ELSE tree.parent[m]
          BY ONLY <1>16, <1>19, <2>1, <4>2
        <5>2. CASE m = h
          BY ONLY <1>14, <2>2, <3>2, <5>1, <5>2
        <5>3. CASE m # h
          <6>1. p = tree.parent[m]
            BY ONLY <2>2, <3>2, <5>3
          <6>2. PICK d \in Sides : tree.child[d][p] = m
            BY ONLY <1>7, <2>1, <6>1
          <6>3. p # n
            BY ONLY <1>17, <2>1, <4>2, <6>2, n \in Alloc(tree)
          <6> QED
            BY ONLY <5>1, <5>3, <6>1, <6>3
        <5> QED
          BY ONLY <5>2, <5>3
      <4> QED
        BY ONLY <4>1, <4>2
    <3>4. r.parent[m] = t3.parent[m]
      BY ONLY <1>21, <2>1, <2>4, <3>3, s # n
    <3> QED
      BY ONLY <1>23, <2>2, <3>1, <3>2, <3>3, <3>4
  <2> QED
    BY ONLY <2>3, <2>4
<1>28. Relabelled(u, r, f)
  <2>1. u.root \in Alloc(u) \cup {Sentinel}
    BY <1>11 DEF Linked
  <2>2. r.root = f[u.root]
    BY ONLY <1>10, <1>19, <1>21, <1>23, <2>1
  <2>3. \A m \in Alloc(u) : f[m] \in r.red <=> m \in u.red
    <3> SUFFICES ASSUME NEW m \in Alloc(u) PROVE f[m] \in r.red <=> m \in u.red
      OBVIOUS
    <3>1. m # s /\ f[m] = IF m = n THEN s ELSE m
      BY ONLY <1>11, <1>23, m \in Alloc(u)
    <3> QED
      BY ONLY <1>10, <1>19, <1>21, <3>1, s # n
  <2>4. /\ f[Sentinel] = Sentinel
        /\ \A m \in Alloc(u) : f[m] \in Nodes
        /\ \A x, y \in Alloc(u) : f[x] = f[y] => x = y
        /\ \A y \in Nodes : y \in Alloc(r) <=> \E m \in Alloc(u) : f[m] = y
    BY ONLY <1>1, <1>4, <1>5, <1>11, <1>22, <1>23, <1>24, s # n, n \in Alloc(tree)
  <2> QED
    BY ONLY <1>21, <1>25, <1>26, <1>27, <2>2, <2>3, <2>4 DEF Relabelled
<1>29. r.parent[h] = f[above]
  <2>1. CASE h = Sentinel
    <3>1. t3.parent[Sentinel] = q
      BY ONLY <1>5, <1>16, <1>19, <1>24, <2>1
    <3>2. q # n /\ q = f[above]
      BY ONLY <1>4, <1>11, <1>14, <1>23, s # n
    <3> QED
      BY ONLY <1>5, <1>21, <1>24, <2>1, <3>1, <3>2
  <2>2. CASE h # Sentinel
    <3>1. h \in Alloc(u) \ {u.root} /\ h # n /\ h \in Cells
      BY ONLY <1>4, <1>6, <1>10, <1>11, <2>2
    <3>2. f[h] = h /\ u.parent[h] = above
      BY ONLY <1>10, <1>23, <3>1
    <3> QED
      BY ONLY <1>27, <3>1, <3>2
  <2> QED
    BY ONLY <2>1, <2>2
<1>30. r.red \subseteq Alloc(r)
  BY ONLY <1>1, <1>19, <1>21, <1>22, s # n, tree.red \subseteq Alloc(tree)
<1> QED
  BY ONLY <1>3, <1>6, <1>22, <1>28, <1>29, <1>30

(* The cell nd hangs below a node of the tree, on the side that SideOf     *)
(* says.                                                                   *)
HangsAt(t, nd) ==
    /\ nd \in Alloc(t) \cup {Sentinel} /\ nd # t.root /\ t.root # Sentinel
    /\ t.parent[nd] \in Alloc(t) /\ t.child[SideOf(t, nd)][t.parent[nd]] = nd

(* What a deletion that has to be repaired, if a is "delete", leaves: the  *)
(* cell nd lacks a black node.  Otherwise nothing is wrong.                *)
Lacks(t, bh, a, nd) ==
    /\ Weighed(t, bh, PlaceOf(t, a, nd)) /\ Colored(t, a, nd)
    /\ (a = "idle" /\ nd = Null) \/ (a = "delete" /\ HangsAt(t, nd))

(* The tree without s, which is not the root.                              *)
LEMMA RemoveLacks ==
    ASSUME NEW t, NEW pos, NEW b, NEW bh, Linked(t), Placed(t, pos, b),
           Weighed(t, bh, NoPlace), Colored(t, "idle", Null),
           NEW s \in Alloc(t), NEW side \in Sides, NEW h, Loose(t, s, h, side),
           s # t.root, NEW u, u = Remove(t, s, h),
           NEW a, a = IF s \in t.red THEN "idle" ELSE "delete",
           NEW nd, nd = IF s \in t.red THEN Null ELSE h
    PROVE  Lacks(u, bh, a, nd)
<1>1. PICK above : above = t.parent[s]
  OBVIOUS
<1>2. PICK d : d = SideOf(t, s)
  OBVIOUS
<1>3. /\ h \in Alloc(t) \cup {Sentinel} /\ h \in Cells /\ h # s /\ s \in Nodes
      /\ h # Sentinel => h # t.root /\ t.parent[h] = s
      /\ \A m \in Alloc(t), x \in Sides : t.child[x][m] = s => m = above /\ x = d
      /\ above \in Alloc(t) /\ above # s /\ d \in Sides /\ t.child[d][above] = s
  BY ONLY Linked(t), Placed(t, pos, b), s \in Alloc(t), Loose(t, s, h, side), side \in Sides,
          s # t.root, <1>1, <1>2, LooseIs
<1>4. /\ Alloc(t) \subseteq Nodes /\ Nodes \subseteq Cells /\ Sentinel \notin Nodes
      /\ Sentinel \in Cells /\ Null \notin Nodes /\ Null # Sentinel
  BY AllocIs, Constants
<1>5. /\ t \in Trees
      /\ t.root \in Alloc(t) \cup {Sentinel} /\ (t.root = Sentinel => Alloc(t) = {})
      /\ \A m \in Alloc(t) \ {t.root} : t.parent[m] \in Alloc(t)
  BY DEF Linked
<1>6. /\ u.root = t.root /\ u.red = t.red \ {s}
      /\ \A x \in Sides, m \in Cells : u.child[x][m] =
            IF m = s THEN Null ELSE IF t.child[x][m] = s THEN h ELSE t.child[x][m]
      /\ \A m \in Cells : u.parent[m] = IF m = h THEN above ELSE t.parent[m]
  <2>1. t \in Trees /\ s \in Nodes /\ h \in Cells
    BY <1>3, <1>5
  <2>2. /\ u.root = IF s = t.root THEN h ELSE t.root
        /\ u.red = t.red \ {s}
        /\ \A x \in Sides, m \in Cells : u.child[x][m] =
              IF m = s THEN Null ELSE IF t.child[x][m] = s THEN h ELSE t.child[x][m]
        /\ \A m \in Cells : u.parent[m] = IF m = h THEN t.parent[s] ELSE t.parent[m]
    BY ONLY <2>1, u = Remove(t, s, h), RemoveIs
  <2> QED
    BY ONLY <1>1, <2>2, s # t.root
<1>7. Linked(u) /\ Alloc(u) = Alloc(t) \ {s}
  <2>1. PICK v : v = Alloc(u)
    OBVIOUS
  <2>2. PICK w : w = Alloc(t) \ {s}
    OBVIOUS
  <2>3. Linked(u) /\ v = w
    BY ONLY Linked(t), Placed(t, pos, b), s \in Alloc(t), side \in Sides, Loose(t, s, h, side),
            u = Remove(t, s, h), <2>1, <2>2, RemoveLinked
  <2> QED
    BY <2>1, <2>2, <2>3
<1>8. Placed(u, pos, b)
  BY ONLY Linked(t), Placed(t, pos, b), s \in Alloc(t), side \in Sides, Loose(t, s, h, side),
          u = Remove(t, s, h), RemovePlaced
<1>9. PICK place : place = IF s \in t.red \/ s = t.root THEN NoPlace ELSE <<t.parent[s], SideOf(t, s)>>
  OBVIOUS
<1>10. Weighed(u, bh, place)
  BY ONLY Linked(t), Placed(t, pos, b), Weighed(t, bh, NoPlace), s \in Alloc(t), side \in Sides,
          Loose(t, s, h, side), u = Remove(t, s, h), <1>9, RemoveWeighed
<1>11. u.parent[h] = above /\ u.child[d][above] = h
  BY ONLY <1>3, <1>4, <1>6
<1>12. /\ t.red \subseteq Alloc(t) /\ t.root \notin t.red
       /\ \A m \in Alloc(t) \ {t.root} : m \in t.red => t.parent[m] \notin t.red
  BY DEF Colored
<1>13. u.root # Sentinel /\ h # u.root /\ h \in Alloc(u) \cup {Sentinel} /\ above \in Alloc(u)
  BY ONLY <1>3, <1>4, <1>5, <1>6, <1>7
<1>14. u.red \subseteq Alloc(u) /\ u.root \notin u.red
  BY ONLY <1>6, <1>7, <1>12
<1>15. ASSUME NEW m \in Alloc(u) \ {u.root}, m \in u.red, u.parent[m] \in u.red
       PROVE  m = h /\ s \notin t.red
  <2>1. m \in Alloc(t) \ {t.root} /\ m \in t.red /\ m \in Cells
    BY ONLY <1>4, <1>6, <1>7, <1>15
  <2>2. m = h
    BY ONLY <1>6, <1>12, <1>15, <2>1
  <2>3. above \in t.red
    BY ONLY <1>6, <1>11, <1>15, <2>2
  <2> QED
    BY ONLY <1>1, <1>12, <2>2, <2>3, s \in Alloc(t), s # t.root
<1>16. CASE s \in t.red
  <2>1. a = "idle" /\ nd = Null /\ place = NoPlace
    BY <1>9, <1>16
  <2>2. PlaceOf(u, a, nd) = NoPlace
    BY ONLY <2>1 DEF PlaceOf
  <2>3. Colored(u, a, nd)
    BY ONLY <1>14, <1>15, <1>16 DEF Colored
  <2> QED
    BY ONLY <1>10, <2>1, <2>2, <2>3 DEF Lacks
<1>17. CASE s \notin t.red
  <2>1. a = "delete" /\ nd = h /\ place = <<above, d>>
    BY <1>1, <1>2, <1>9, <1>17
  <2>2. SideOf(u, h) = d
    <3>1. CASE h # Sentinel
      BY ONLY <1>8, <1>7, <1>11, <1>13, <1>3, <3>1, ChildIs
    <3>2. CASE h = Sentinel
      <4>1. d = "left" \/ d = "right"
        BY <1>3 DEF Sides
      <4>2. CASE d = "left"
        BY ONLY <1>11, <4>2 DEF SideOf
      <4>3. CASE d = "right"
        <5>1. /\ "left" \in Sides /\ "right" \in Sides
              /\ u.child["left"][above] \in Alloc(u) \cup {Sentinel}
          BY <1>7, <1>13 DEF Linked, Sides
        <5>2. /\ bh \in [Cells -> Nat] /\ bh[Sentinel] = 0
              /\ \A m \in Alloc(u), x \in Sides :
                    bh[m] = bh[u.child[x][m]] + (IF place = <<m, x>> THEN 1 ELSE 0)
                            + (IF m \in u.red THEN 0 ELSE 1)
          BY ONLY <1>10 DEF Weighed
        <5>3. place # <<above, "left">> /\ place = <<above, "right">>
          BY ONLY <2>1, <4>3
        <5>4. bh[above] = bh[u.child["left"][above]] + 0 + (IF above \in u.red THEN 0 ELSE 1)
          BY ONLY <1>13, <5>1, <5>2, <5>3
        <5>5. bh[above] = bh[u.child["right"][above]] + 1 + (IF above \in u.red THEN 0 ELSE 1)
          BY ONLY <1>13, <5>1, <5>2, <5>3
        <5>6. u.child["left"][above] # Sentinel
          <6> SUFFICES ASSUME u.child["left"][above] = Sentinel PROVE FALSE
            OBVIOUS
          <6>1. u.child["right"][above] = Sentinel
            BY ONLY <1>11, <3>2, <4>3
          <6> QED
            BY ONLY <5>2, <5>4, <5>5, <6>1, u.child["left"][above] = Sentinel
        <5> QED
          BY ONLY <1>11, <3>2, <4>3, <5>6 DEF SideOf
      <4> QED
        BY ONLY <4>1, <4>2, <4>3
    <3> QED
      BY ONLY <3>1, <3>2
  <2>3. PlaceOf(u, a, nd) = place
    BY ONLY <1>11, <1>13, <2>1, <2>2 DEF PlaceOf
  <2>4. HangsAt(u, nd)
    BY ONLY <1>11, <1>13, <2>1, <2>2 DEF HangsAt
  <2>5. Colored(u, a, nd)
    BY ONLY <1>14, <1>15, <2>1 DEF Colored
  <2> QED
    BY ONLY <1>10, <2>1, <2>3, <2>4, <2>5 DEF Lacks
<1> QED
  BY ONLY <1>16, <1>17

(* A renaming that keeps the cell a deletion looks at, and the order.      *)
KeepsCell(t, r, f, a, nd) ==
    a = "delete" => f[nd] = nd /\ r.parent[nd] = f[t.parent[nd]]

KeepsOrder(t, pos, f) ==
    \A x, y \in Alloc(t) : pos[x] < pos[y] => Key(f[x]) <= Key(f[y])

(* With other nodes in the same places the tree lacks a black node where   *)
(* it did.                                                                 *)
LEMMA RelabelLacks ==
    ASSUME NEW t, NEW r, NEW f, NEW pos, NEW b, NEW bh, NEW a, NEW nd,
           Linked(t), Placed(t, pos, b), Lacks(t, bh, a, nd), Relabelled(t, r, f),
           KeepsOrder(t, pos, f), KeepsCell(t, r, f, a, nd), r.red \subseteq Alloc(r)
    PROVE  Linked(r) /\ \E p2, b2, h2 : Placed(r, p2, b2) /\ Lacks(r, h2, a, nd)
<1>1. Linked(r)
  BY ONLY Linked(t), Relabelled(t, r, f), RelabelLinked
<1>2. /\ \A m \in Alloc(t) : f[m] \in Alloc(r) /\ f[m] \in Nodes /\ f[m] # Sentinel
      /\ \A y \in Alloc(r) : \E m \in Alloc(t) : f[m] = y
      /\ \A x \in Alloc(t), y \in Alloc(t) \cup {Sentinel} : f[x] = f[y] <=> x = y
  BY ONLY Relabelled(t, r, f), RelabelIs
<1>3. /\ Alloc(t) \subseteq Nodes /\ Nodes \subseteq Cells /\ Sentinel \notin Nodes
      /\ Sentinel \in Cells /\ Null \notin Nodes /\ Null # Sentinel
      /\ Alloc(r) \subseteq Nodes
  BY AllocIs, Constants
<1>4. /\ f[Sentinel] = Sentinel /\ r.root = f[t.root]
      /\ \A m \in Alloc(t), d \in Sides : r.child[d][f[m]] = f[t.child[d][m]]
      /\ \A m \in Alloc(t) \ {t.root} : r.parent[f[m]] = f[t.parent[m]]
      /\ \A m \in Alloc(t) : f[m] \in r.red <=> m \in t.red
  BY DEF Relabelled
<1>5. /\ pos \in [Nodes -> Int] /\ b \in [Sides -> [Nodes -> Int]]
      /\ bh \in [Cells -> Nat] /\ bh[Sentinel] = 0
      /\ "left" \in Sides /\ "right" \in Sides
  BY DEF Placed, Lacks, Weighed, Sides
<1>6. \E g : \A m \in Alloc(t) : g[f[m]] = m
  <2> DEFINE g == [y \in Alloc(r) |-> CHOOSE m \in Alloc(t) : f[m] = y]
  <2>1. ASSUME NEW m \in Alloc(t) PROVE g[f[m]] = m
    <3>1. f[m] \in Alloc(r)
      BY ONLY <1>2, m \in Alloc(t)
    <3>2. PICK c : c = CHOOSE x \in Alloc(t) : f[x] = f[m]
      OBVIOUS
    <3>3. c \in Alloc(t) /\ f[c] = f[m]
      BY ONLY <3>2, m \in Alloc(t), Zenon
    <3>4. c = m
      BY ONLY <1>2, <3>3, m \in Alloc(t)
    <3>5. g[f[m]] = c
      BY ONLY <3>1, <3>2, Zenon
    <3> QED
      BY ONLY <3>4, <3>5
  <2> HIDE DEF g
  <2> QED
    BY <2>1
<1>7. PICK g : \A m \in Alloc(t) : g[f[m]] = m
  BY <1>6
<1>8. PICK p2 : p2 = [y \in Nodes |-> IF y \in Alloc(r) THEN pos[g[y]] ELSE 0]
  OBVIOUS
<1>9. PICK b2 : b2 = [d \in Sides |-> [y \in Nodes |-> IF y \in Alloc(r) THEN b[d][g[y]] ELSE 0]]
  OBVIOUS
<1>10. PICK h2 : h2 = [y \in Cells |-> IF y \in Alloc(r) THEN bh[g[y]] ELSE 0]
  OBVIOUS
<1>11. \A y \in Alloc(r) : g[y] \in Nodes /\ g[y] \in Cells
  BY ONLY <1>2, <1>3, <1>7
<1>12. p2 \in [Nodes -> Int] /\ \A m \in Alloc(t) : p2[f[m]] = pos[m]
  <2>1. \A y \in Alloc(r) : pos[g[y]] \in Int
    BY ONLY <1>5, <1>11
  <2> QED
    BY ONLY <1>2, <1>7, <1>8, <2>1
<1>13. /\ b2 \in [Sides -> [Nodes -> Int]]
       /\ \A m \in Alloc(t), d \in Sides : b2[d][f[m]] = b[d][m]
  <2>1. \A y \in Alloc(r), d \in Sides : b[d][g[y]] \in Int
    BY ONLY <1>5, <1>11
  <2> QED
    BY ONLY <1>2, <1>7, <1>9, <2>1
<1>14. /\ h2 \in [Cells -> Nat] /\ h2[Sentinel] = 0
       /\ \A m \in Alloc(t) : h2[f[m]] = bh[m]
  <2>1. \A y \in Alloc(r) : bh[g[y]] \in Nat
    BY ONLY <1>5, <1>11
  <2> QED
    BY ONLY <1>2, <1>3, <1>7, <1>10, <2>1
<1>15. Placed(r, p2, b2)
  <2>1. \A x, y \in Alloc(t) : pos[x] < pos[y] => Key(f[x]) <= Key(f[y])
    BY DEF KeepsOrder
  <2> QED
    BY ONLY Linked(t), Placed(t, pos, b), Relabelled(t, r, f), <1>12, <1>13, <2>1, RelabelPlaced
<1>16. /\ t.red \subseteq Alloc(t)
       /\ t.root \in t.red => a = "push" /\ nd = t.root
       /\ \A m \in Alloc(t) \ {t.root} : m \in t.red /\ t.parent[m] \in t.red =>
              (a # "idle" /\ m = nd) \/ (a = "delete" /\ t.parent[m] = nd)
       /\ (a = "idle" /\ nd = Null) \/ (a = "delete" /\ HangsAt(t, nd))
       /\ Weighed(t, bh, PlaceOf(t, a, nd))
  BY DEF Lacks, Colored
<1>17. /\ t.root \in Alloc(t) \cup {Sentinel}
       /\ \A m \in Alloc(t) \ {t.root} : t.parent[m] \in Alloc(t)
       /\ \A m \in Alloc(t), d \in Sides : t.child[d][m] \in Alloc(t) \cup {Sentinel}
  BY DEF Linked
<1>18. r.root \notin r.red
  <2>1. t.root \notin t.red
    BY ONLY <1>16
  <2>2. CASE t.root = Sentinel
    BY ONLY <1>3, <1>4, <2>2, r.red \subseteq Alloc(r)
  <2>3. CASE t.root # Sentinel
    BY ONLY <1>4, <1>17, <2>1, <2>3
  <2> QED
    BY ONLY <2>2, <2>3
<1>19. ASSUME NEW y \in Alloc(r) \ {r.root}, y \in r.red, r.parent[y] \in r.red
       PROVE  (a # "idle" /\ y = nd) \/ (a = "delete" /\ r.parent[y] = nd)
  <2>1. PICK m \in Alloc(t) : f[m] = y
    BY <1>2
  <2>2. m # t.root /\ m \in t.red /\ t.parent[m] \in Alloc(t) /\ r.parent[y] = f[t.parent[m]]
    BY ONLY <1>4, <1>17, <1>19, <2>1
  <2>3. t.parent[m] \in t.red
    BY ONLY <1>4, <1>19, <2>2
  <2>4. a = "delete" /\ (m = nd \/ t.parent[m] = nd)
    BY ONLY <1>16, <2>2, <2>3
  <2>5. f[nd] = nd
    BY ONLY <2>4, KeepsCell(t, r, f, a, nd) DEF KeepsCell
  <2> QED
    BY ONLY <2>1, <2>2, <2>4, <2>5
<1>20. Colored(r, a, nd)
  BY ONLY <1>18, <1>19, r.red \subseteq Alloc(r) DEF Colored
<1>21. CASE a = "idle" /\ nd = Null
  <2>1. PlaceOf(t, a, nd) = NoPlace /\ PlaceOf(r, a, nd) = NoPlace
    BY ONLY <1>21 DEF PlaceOf
  <2>2. \A m \in Alloc(t), d \in Sides : NoPlace = <<f[m], d>> <=> NoPlace = <<m, d>>
    BY ONLY <1>2, <1>3 DEF NoPlace
  <2>3. Weighed(t, bh, NoPlace)
    BY <1>16, <2>1
  <2>4. Weighed(r, h2, NoPlace)
    BY ONLY Linked(t), <2>3, Relabelled(t, r, f), <1>14, <2>2, RelabelWeighed
  <2>5. Lacks(r, h2, a, nd)
    BY ONLY <1>20, <1>21, <2>1, <2>4 DEF Lacks
  <2> QED
    BY <1>1, <1>15, <2>5
<1>22. CASE a = "delete" /\ HangsAt(t, nd)
  <2>1. f[nd] = nd /\ r.parent[nd] = f[t.parent[nd]]
    BY ONLY <1>22, KeepsCell(t, r, f, a, nd) DEF KeepsCell
  <2>2. PICK above : above = t.parent[nd]
    OBVIOUS
  <2>3. PICK d : d = SideOf(t, nd)
    OBVIOUS
  <2>4. /\ nd \in Alloc(t) \cup {Sentinel} /\ nd # t.root /\ t.root \in Alloc(t)
        /\ above \in Alloc(t) /\ t.child[d][above] = nd /\ d \in Sides
    BY ONLY <1>5, <1>17, <1>22, <2>2, <2>3 DEF HangsAt, SideOf
  <2>5. r.parent[nd] = f[above] /\ r.root # nd /\ r.root # Sentinel
    BY ONLY <1>2, <1>4, <2>1, <2>2, <2>4
  <2>6. SideOf(r, nd) = d
    <3>1. r.child["left"][f[above]] = f[t.child["left"][above]]
      BY ONLY <1>4, <1>5, <2>4
    <3>2. t.child["left"][above] \in Alloc(t) \cup {Sentinel}
      BY ONLY <1>5, <1>17, <2>4
    <3>3. nd = r.child["left"][f[above]] <=> nd = t.child["left"][above]
      BY ONLY <1>2, <1>4, <2>1, <2>4, <3>1, <3>2
    <3>4. SideOf(t, nd) = IF nd = t.child["left"][above] THEN "left" ELSE "right"
      BY ONLY <2>2 DEF SideOf
    <3>5. SideOf(r, nd) = IF nd = r.child["left"][f[above]] THEN "left" ELSE "right"
      BY ONLY <2>5 DEF SideOf
    <3> QED
      BY ONLY <2>3, <3>3, <3>4, <3>5
  <2>7. PlaceOf(t, a, nd) = <<above, d>> /\ PlaceOf(r, a, nd) = <<f[above], d>>
    BY ONLY <1>22, <2>2, <2>3, <2>4, <2>5, <2>6 DEF PlaceOf
  <2>8. PICK place : place = <<above, d>>
    OBVIOUS
  <2>9. PICK place2 : place2 = <<f[above], d>>
    OBVIOUS
  <2>10. \A m \in Alloc(t), x \in Sides : place2 = <<f[m], x>> <=> place = <<m, x>>
    BY ONLY <1>2, <2>4, <2>8, <2>9
  <2>11. Weighed(t, bh, place)
    BY <1>16, <2>7, <2>8
  <2>12. Weighed(r, h2, place2)
    BY ONLY Linked(t), <2>11, Relabelled(t, r, f), <1>14, <2>10, RelabelWeighed
  <2>13. HangsAt(r, nd)
    <3>1. f[above] \in Alloc(r) /\ (nd \in Alloc(r) \cup {Sentinel})
      BY ONLY <1>2, <2>1, <2>4
    <3>2. r.child[d][f[above]] = nd
      BY ONLY <1>4, <2>1, <2>4
    <3> QED
      BY ONLY <2>5, <2>6, <3>1, <3>2 DEF HangsAt
  <2>14. Lacks(r, h2, a, nd)
    BY ONLY <1>20, <1>22, <2>7, <2>9, <2>12, <2>13 DEF Lacks
  <2> QED
    BY <1>1, <1>15, <2>14
<1> QED
  BY ONLY <1>16, <1>21, <1>22

(* The tree r is t with one node fewer.                                    *)
WithoutNode(t, r, n) == Alloc(r) = Alloc(t) \ {n}

(* A tree that lost subst, which is not the root.                          *)
LEMMA UnlinkedLacks ==
    ASSUME NEW pos, NEW b, NEW bh, Linked(tree), Placed(tree, pos, b),
           Weighed(tree, bh, NoPlace), Colored(tree, "idle", Null),
           NEW n \in Alloc(tree), NEW s, s = Subst(n), s # tree.root,
           NEW h, h = Heir(n), NEW r, r = Unlinked(n),
           NEW a, a = IF s \in tree.red THEN "idle" ELSE "delete",
           NEW nd, nd = IF s \in tree.red THEN Null ELSE h
    PROVE  /\ Linked(r) /\ \E p2, b2, h2 : Placed(r, p2, b2) /\ Lacks(r, h2, a, nd)
           /\ WithoutNode(tree, r, n)
<1>1. /\ s \in Alloc(tree) /\ \E side \in Sides : Loose(tree, s, h, side)
      /\ s # n => /\ s # tree.root /\ ~Between(b, s, pos[n]) /\ pos[n] < pos[s]
                  /\ \A x \in Alloc(tree) : ~(pos[n] < pos[x] /\ pos[x] < pos[s])
  BY ONLY Linked(tree), Placed(tree, pos, b), n \in Alloc(tree), s = Subst(n),
          h = Heir(n), SubstIs
<1>2. PICK side \in Sides : Loose(tree, s, h, side)
  BY <1>1
<1>3. /\ h \in Alloc(tree) \cup {Sentinel} /\ h \in Cells /\ h # s /\ s \in Nodes
  BY ONLY Linked(tree), Placed(tree, pos, b), <1>1, <1>2, LooseIs
<1>4. PICK u : u = Remove(tree, s, h)
  OBVIOUS
<1>5. PICK f : f = Renaming(u, s, n)
  OBVIOUS
<1>6. Linked(u) /\ Alloc(u) = Alloc(tree) \ {s}
  <2>1. PICK v : v = Alloc(u)
    OBVIOUS
  <2>2. PICK w : w = Alloc(tree) \ {s}
    OBVIOUS
  <2>3. Linked(u) /\ v = w
    BY ONLY Linked(tree), Placed(tree, pos, b), <1>1, <1>2, <1>4, <2>1, <2>2, RemoveLinked
  <2> QED
    BY <2>1, <2>2, <2>3
<1>7. Placed(u, pos, b)
  BY ONLY Linked(tree), Placed(tree, pos, b), <1>1, <1>2, <1>4, RemovePlaced
<1>8. Lacks(u, bh, a, nd)
  BY ONLY Linked(tree), Placed(tree, pos, b), Weighed(tree, bh, NoPlace),
          Colored(tree, "idle", Null), <1>1, <1>2, <1>4, s # tree.root,
          a = (IF s \in tree.red THEN "idle" ELSE "delete"),
          nd = (IF s \in tree.red THEN Null ELSE h), RemoveLacks
<1>9. tree.red \subseteq Alloc(tree)
  BY DEF Colored
<1>10. /\ Relabelled(u, r, f) /\ r.parent[h] = f[tree.parent[s]] /\ r.red \subseteq Alloc(r)
       /\ Alloc(r) = Alloc(tree) \ {n} /\ h # n
  <2>1. CASE s = n
    <3>1. Relabelled(u, r, f) /\ r.parent[h] = f[tree.parent[n]] /\ r.red \subseteq Alloc(r)
          /\ SameNodes(u, r)
      <4>1. u = Remove(tree, n, h) /\ f = Renaming(u, n, n) /\ Subst(n) = n /\ n # tree.root
        BY ONLY Zenon, <1>4, <1>5, <2>1, s = Subst(n), s # tree.root
      <4> QED
        BY ONLY Linked(tree), Placed(tree, pos, b), n \in Alloc(tree), <1>9, <4>1,
                h = Heir(n), r = Unlinked(n), UnlinkedOne
    <3> QED
      BY ONLY <1>3, <1>6, <2>1, <3>1 DEF SameNodes
  <2>2. CASE s # n
    BY ONLY Linked(tree), Placed(tree, pos, b), n \in Alloc(tree), s = Subst(n), <2>2,
            h = Heir(n), <1>9, <1>4, r = Unlinked(n), <1>5, UnlinkedTwo
  <2> QED
    BY ONLY <2>1, <2>2
<1>11. \A m \in Alloc(u) \cup {Sentinel} : f[m] = IF m = n THEN s ELSE m
  BY ONLY <1>5 DEF Renaming
<1>12. KeepsCell(u, r, f, a, nd)
  <2>1. f[h] = h
    BY ONLY <1>3, <1>6, <1>10, <1>11
  <2>2. u.parent[h] = tree.parent[s]
    <3>1. tree \in Trees /\ s \in Nodes /\ h \in Cells
      BY <1>3 DEF Linked
    <3>2. \A m \in Cells : u.parent[m] = IF m = h THEN tree.parent[s] ELSE tree.parent[m]
      BY ONLY <3>1, <1>4, RemoveIs
    <3> QED
      BY ONLY <1>3, <3>2
  <2> QED
    BY ONLY <1>10, <2>1, <2>2, a = (IF s \in tree.red THEN "idle" ELSE "delete"),
            nd = (IF s \in tree.red THEN Null ELSE h) DEF KeepsCell
<1>13. KeepsOrder(u, pos, f)
  <2> SUFFICES ASSUME NEW x \in Alloc(u), NEW y \in Alloc(u), pos[x] < pos[y]
               PROVE  Key(f[x]) <= Key(f[y])
    BY DEF KeepsOrder
  <2>1. /\ \A v, w \in Alloc(tree) : pos[v] = pos[w] => v = w
        /\ \A v, w \in Alloc(tree) : pos[v] < pos[w] => Key(v) <= Key(w)
        /\ \A v \in Alloc(tree) : pos[v] \in Int
    <3>1. pos \in [Nodes -> Int] /\ Alloc(tree) \subseteq Nodes
      BY AllocIs DEF Placed
    <3> QED
      BY <3>1 DEF Placed
  <2>2. x \in Alloc(tree) /\ y \in Alloc(tree) /\ x # s /\ y # s
    BY ONLY <1>6, x \in Alloc(u), y \in Alloc(u)
  <2>3. f[x] = (IF x = n THEN s ELSE x) /\ f[y] = (IF y = n THEN s ELSE y)
    BY ONLY <1>11, x \in Alloc(u), y \in Alloc(u)
  <2>4. CASE x = n
    <3>1. y # n /\ pos[n] < pos[s]
      BY ONLY <1>1, <2>1, <2>2, <2>4, pos[x] < pos[y]
    <3>2. pos[s] < pos[y]
      BY ONLY <1>1, <2>1, <2>2, <2>4, pos[x] < pos[y]
    <3> QED
      BY ONLY <1>1, <2>1, <2>2, <2>3, <2>4, <3>1, <3>2
  <2>5. CASE y = n
    <3>1. x # n /\ pos[n] < pos[s]
      BY ONLY <1>1, <2>1, <2>2, <2>5, pos[x] < pos[y]
    <3>2. pos[x] < pos[s]
      BY ONLY <1>1, <2>1, <2>2, <2>5, <3>1, pos[x] < pos[y]
    <3> QED
      BY ONLY <1>1, <2>1, <2>2, <2>3, <2>5, <3>1, <3>2
  <2>6. CASE x # n /\ y # n
    BY ONLY <2>1, <2>2, <2>3, <2>6, pos[x] < pos[y]
  <2> QED
    BY ONLY <2>4, <2>5, <2>6
<1>14. Linked(r) /\ \E p2, b2, h2 : Placed(r, p2, b2) /\ Lacks(r, h2, a, nd)
  <2>1. Relabelled(u, r, f) /\ r.red \subseteq Alloc(r) /\ Linked(u)
    BY <1>6, <1>10
  <2> QED
    BY ONLY <1>7, <1>8, <1>12, <1>13, <2>1, RelabelLacks
<1> QED
  BY ONLY <1>10, <1>14 DEF WithoutNode

(* A tree that lost its root, which had one child at most.                 *)
LEMMA RootGoneLacks ==
    ASSUME NEW pos, NEW b, NEW bh, Linked(tree), Placed(tree, pos, b),
           Weighed(tree, bh, NoPlace), Colored(tree, "idle", Null),
           NEW n \in Alloc(tree), Subst(n) = tree.root, NEW h, h = Heir(n),
           NEW r, r = Freed([Paint(tree, {}, {h}) EXCEPT !.root = h], n)
    PROVE  /\ Linked(r) /\ \E p2, b2, h2 : Placed(r, p2, b2) /\ Lacks(r, h2, "idle", Null)
           /\ WithoutNode(tree, r, n)
<1>0. PICK s : s = Subst(n)
  OBVIOUS
<1>1. /\ s \in Alloc(tree) /\ \E side \in Sides : Loose(tree, s, h, side)
      /\ s # n => /\ s # tree.root /\ ~Between(b, s, pos[n]) /\ pos[n] < pos[s]
                  /\ \A x \in Alloc(tree) : ~(pos[n] < pos[x] /\ pos[x] < pos[s])
  BY ONLY Linked(tree), Placed(tree, pos, b), n \in Alloc(tree), <1>0,
          h = Heir(n), SubstIs
<1>2. s = n /\ n = tree.root
  BY ONLY <1>0, <1>1, Subst(n) = tree.root
<1>3. PICK side \in Sides : Loose(tree, n, h, side)
  BY <1>1, <1>2
<1>4. /\ h \in Alloc(tree) \cup {Sentinel} /\ h \in Cells /\ h # n /\ n \in Nodes
      /\ \A m \in Alloc(tree) \ {tree.root} : tree.parent[m] = n => m = h
      /\ \A m \in Alloc(tree), d \in Sides :
            tree.child[d][m] = n =>
               n # tree.root /\ m = tree.parent[n] /\ d = SideOf(tree, n)
  BY ONLY Linked(tree), Placed(tree, pos, b), n \in Alloc(tree), <1>3, LooseIs
<1>5. /\ Alloc(tree) \subseteq Nodes /\ Nodes \subseteq Cells /\ Sentinel \notin Nodes
      /\ Sentinel \in Cells /\ Null \notin Nodes /\ Null # Sentinel /\ {} \subseteq Nodes
      /\ tree \in Trees /\ \A d \in Sides : tree.child[d][Sentinel] = Null
      /\ \A m \in Alloc(tree) \ {tree.root} : tree.parent[m] \in Alloc(tree)
  BY AllocIs, Constants DEF Linked
<1>6. PICK u : u = Remove(tree, n, h)
  OBVIOUS
<1>7. /\ u \in Trees /\ u.root = h /\ u.red = tree.red \ {n}
      /\ \A x \in Sides, m \in Cells : u.child[x][m] =
            IF m = n THEN Null ELSE IF tree.child[x][m] = n THEN h ELSE tree.child[x][m]
      /\ \A m \in Cells : u.parent[m] = IF m = h THEN tree.parent[n] ELSE tree.parent[m]
  <2>1. /\ u \in Trees /\ u.root = IF n = tree.root THEN h ELSE tree.root
        /\ u.red = tree.red \ {n}
        /\ \A x \in Sides, m \in Cells : u.child[x][m] =
              IF m = n THEN Null ELSE IF tree.child[x][m] = n THEN h ELSE tree.child[x][m]
        /\ \A m \in Cells : u.parent[m] = IF m = h THEN tree.parent[n] ELSE tree.parent[m]
    <3>1. tree \in Trees /\ n \in Nodes /\ h \in Cells
      BY <1>4, <1>5
    <3> QED
      BY ONLY <3>1, <1>6, RemoveIs
  <2> QED
    BY ONLY <1>2, <2>1
<1>8. Linked(u) /\ Alloc(u) = Alloc(tree) \ {n}
  <2>1. PICK v : v = Alloc(u)
    OBVIOUS
  <2>2. PICK w : w = Alloc(tree) \ {n}
    OBVIOUS
  <2>3. Linked(u) /\ v = w
    BY ONLY Linked(tree), Placed(tree, pos, b), n \in Alloc(tree), <1>3, <1>6, <2>1, <2>2,
            RemoveLinked
  <2> QED
    BY <2>1, <2>2, <2>3
<1>9. Placed(u, pos, b)
  BY ONLY Linked(tree), Placed(tree, pos, b), n \in Alloc(tree), <1>3, <1>6, RemovePlaced
<1>10. Weighed(u, bh, NoPlace)
  <2>1. PICK place : place = IF n \in tree.red \/ n = tree.root THEN NoPlace
                             ELSE <<tree.parent[n], SideOf(tree, n)>>
    OBVIOUS
  <2>2. Weighed(u, bh, place)
    BY ONLY Linked(tree), Placed(tree, pos, b), Weighed(tree, bh, NoPlace), n \in Alloc(tree),
            <1>3, <1>6, <2>1, RemoveWeighed
  <2> QED
    BY <1>2, <2>1, <2>2
<1>11. PICK v : v = Paint(u, {}, {h})
  OBVIOUS
<1>12. SameShape(u, v) /\ v.red = u.red \ {h}
  <2>1. u \in Trees /\ {} \subseteq Nodes
    BY <1>5, <1>7
  <2>2. SameShape(u, Paint(u, {}, {h})) /\ Paint(u, {}, {h}).red = (u.red \cup {}) \ {h}
    BY ONLY <2>1, PaintSameShape
  <2> QED
    BY ONLY <1>11, <2>2
<1>13. /\ Linked(v) /\ Placed(v, pos, b) /\ Alloc(v) = Alloc(tree) \ {n}
       /\ v.root = h /\ v.child = u.child /\ v.parent = u.parent
  <2>1. /\ Linked(v) /\ Alloc(v) = Alloc(u)
        /\ \A p, c : Placed(u, p, c) => Placed(v, p, c)
    BY ONLY <1>8, <1>12, SameShapeKeeps
  <2>2. v.root = h /\ v.child = u.child /\ v.parent = u.parent
    BY ONLY <1>7, <1>12 DEF SameShape
  <2> QED
    BY ONLY <1>8, <1>9, <2>1, <2>2
<1>14. PICK h2 : Weighed(v, h2, NoPlace)
  <2>1. CASE h = Sentinel
    <3>1. Alloc(v) = {}
      BY <1>13, <2>1 DEF Linked
    <3>2. Weighed(v, bh, NoPlace)
      BY <1>10, <3>1 DEF Weighed
    <3> QED
      BY <3>2
  <2>2. CASE h # Sentinel
    <3>1. u.root \in Alloc(u) /\ h = u.root
      BY ONLY <1>4, <1>7, <1>8, <2>2
    <3>2. \E x : Weighed(Paint(u, {}, {h}), x, NoPlace)
      BY ONLY <1>8, <1>10, <3>1, BlackRootWeighed
    <3> QED
      BY <1>11, <3>2
  <2> QED
    BY ONLY <2>1, <2>2
<1>15. Lacks(v, h2, "idle", Null)
  <2>1. /\ tree.red \subseteq Alloc(tree)
        /\ \A m \in Alloc(tree) \ {tree.root} : m \in tree.red => tree.parent[m] \notin tree.red
    BY DEF Colored
  <2>2. ASSUME NEW m \in Alloc(v) \ {v.root}, m \in v.red, v.parent[m] \in v.red PROVE FALSE
    <3>1. m \in Alloc(tree) \ {tree.root} /\ m \in tree.red /\ m # h /\ m \in Cells
      BY ONLY <1>2, <1>5, <1>7, <1>12, <1>13, <2>2
    <3>2. v.parent[m] = tree.parent[m] /\ v.red \subseteq tree.red
      BY ONLY <1>7, <1>12, <1>13, <3>1
    <3> QED
      BY ONLY <2>1, <2>2, <3>1, <3>2
  <2>3. v.red \subseteq Alloc(v) /\ v.root \notin v.red
    BY ONLY <1>7, <1>12, <1>13, <2>1
  <2>4. Colored(v, "idle", Null)
    BY ONLY <2>2, <2>3 DEF Colored
  <2>5. PlaceOf(v, "idle", Null) = NoPlace
    BY DEF PlaceOf
  <2> QED
    BY ONLY <1>14, <2>4, <2>5 DEF Lacks
<1>16. PICK f : f = Renaming(u, n, n)
  OBVIOUS
<1>17. \A m \in Alloc(v) \cup {Sentinel} : f[m] = m
  BY ONLY <1>8, <1>13, <1>16 DEF Renaming
<1>18. PICK t1 : t1 = [Paint(tree, {}, {h}) EXCEPT !.root = h]
  OBVIOUS
<1>19. /\ t1 \in Trees /\ t1.root = h /\ t1.red = tree.red \ {h}
       /\ t1.child = tree.child /\ t1.parent = tree.parent
  <2>1. PICK w : w = Paint(tree, {}, {h})
    OBVIOUS
  <2>2. /\ Paint(tree, {}, {h}) \in Trees
        /\ Paint(tree, {}, {h}).root = tree.root
        /\ Paint(tree, {}, {h}).child = tree.child
        /\ Paint(tree, {}, {h}).parent = tree.parent
        /\ Paint(tree, {}, {h}).red = (tree.red \cup {}) \ {h}
    <3>1. tree \in Trees /\ {} \subseteq Nodes
      BY <1>5
    <3> QED
      BY ONLY <3>1, PaintIs
  <2>3. t1 = [w EXCEPT !.root = h]
    BY ONLY <1>18, <2>1
  <2>4. /\ w \in Trees /\ w.red = tree.red \ {h}
        /\ w.child = tree.child /\ w.parent = tree.parent
    BY ONLY <2>1, <2>2
  <2> QED
    BY ONLY <1>4, <2>3, <2>4 DEF Trees
<1>20. /\ r \in Trees /\ r.root = h /\ r.red = (tree.red \ {h}) \ {n}
       /\ \A d \in Sides, m \in Cells :
             r.child[d][m] = IF m = n THEN Null ELSE tree.child[d][m]
       /\ \A m \in Cells :
             r.parent[m] = IF m = n \/ tree.parent[m] = n THEN Null ELSE tree.parent[m]
  <2>1. r = Freed(t1, n)
    BY ONLY <1>18, r = Freed([Paint(tree, {}, {h}) EXCEPT !.root = h], n)
  <2>2. /\ r \in Trees /\ r.root = t1.root /\ r.red = t1.red \ {n}
        /\ \A d \in Sides, m \in Cells :
              r.child[d][m] = IF m = n THEN Null ELSE t1.child[d][m]
        /\ \A m \in Cells :
              r.parent[m] = IF m = n \/ t1.parent[m] = n THEN Null ELSE t1.parent[m]
    <3>1. t1 \in Trees /\ n \in Nodes
      BY <1>4, <1>19
    <3> QED
      BY ONLY <2>1, <3>1, FreedIs
  <2> QED
    BY ONLY <1>19, <2>2
<1>21. Alloc(r) = Alloc(tree) \ {n}
  <2>1. \A m \in Nodes : m \in Alloc(r) <=> m \in Alloc(tree) /\ m # n
    <3> SUFFICES ASSUME NEW m \in Nodes PROVE m \in Alloc(r) <=> m \in Alloc(tree) /\ m # n
      OBVIOUS
    <3>1. /\ m \in Alloc(r) <=> r.child["left"][m] # Null
          /\ m \in Alloc(tree) <=> tree.child["left"][m] # Null
      BY AllocIs
    <3>2. m \in Cells /\ "left" \in Sides
      BY <1>5 DEF Sides
    <3> QED
      BY ONLY <1>20, <3>1, <3>2
  <2>2. Alloc(r) \subseteq Nodes
    BY AllocIs
  <2> QED
    BY ONLY <1>5, <2>1, <2>2
<1>22. Relabelled(v, r, f)
  <2>1. \A d \in Sides : r.child[d][Sentinel] = Null
    BY ONLY <1>4, <1>5, <1>20
  <2>2. r.root = f[v.root] /\ f[Sentinel] = Sentinel
    BY ONLY <1>4, <1>13, <1>17, <1>20
  <2>3. ASSUME NEW m \in Alloc(v), NEW d \in Sides
        PROVE  r.child[d][f[m]] = f[v.child[d][m]]
    <3>1. m \in Alloc(tree) /\ m # n /\ m \in Cells /\ f[m] = m
      BY ONLY <1>5, <1>13, <1>17, <2>3
    <3>2. v.child[d][m] \in Alloc(v) \cup {Sentinel}
      BY <1>13 DEF Linked
    <3>3. tree.child[d][m] # n
      BY ONLY <1>2, <1>4, <3>1, d \in Sides
    <3>4. v.child[d][m] = tree.child[d][m] /\ r.child[d][m] = tree.child[d][m]
      BY ONLY <1>7, <1>13, <1>20, <3>1, <3>3, d \in Sides
    <3> QED
      BY ONLY <1>17, <3>1, <3>2, <3>4
  <2>4. ASSUME NEW m \in Alloc(v) \ {v.root}
        PROVE  r.parent[f[m]] = f[v.parent[m]]
    <3>1. m \in Alloc(tree) \ {tree.root} /\ m # n /\ m # h /\ m \in Cells /\ f[m] = m
      BY ONLY <1>2, <1>5, <1>13, <1>17, <2>4
    <3>2. v.parent[m] \in Alloc(v)
      BY <1>13 DEF Linked
    <3>3. tree.parent[m] # n
      BY ONLY <1>4, <3>1
    <3>4. v.parent[m] = tree.parent[m] /\ r.parent[m] = tree.parent[m]
      BY ONLY <1>7, <1>13, <1>20, <3>1, <3>3
    <3> QED
      BY ONLY <1>17, <3>1, <3>2, <3>4
  <2>5. \A m \in Alloc(v) : f[m] \in r.red <=> m \in v.red
    BY ONLY <1>7, <1>12, <1>17, <1>20
  <2>6. /\ \A m \in Alloc(v) : f[m] \in Nodes
        /\ \A x, y \in Alloc(v) : f[x] = f[y] => x = y
        /\ \A y \in Nodes : y \in Alloc(r) <=> \E m \in Alloc(v) : f[m] = y
    BY ONLY <1>5, <1>13, <1>17, <1>21
  <2> QED
    BY ONLY <1>20, <2>1, <2>2, <2>3, <2>4, <2>5, <2>6 DEF Relabelled
<1>23. KeepsOrder(v, pos, f)
  BY <1>13, <1>17 DEF KeepsOrder, Placed
<1>24. KeepsCell(v, r, f, "idle", Null)
  BY DEF KeepsCell
<1>25. r.red \subseteq Alloc(r)
  <2>1. tree.red \subseteq Alloc(tree)
    BY DEF Colored
  <2> QED
    BY ONLY <1>20, <1>21, <2>1
<1>26. Linked(r) /\ \E p2, b2, x2 : Placed(r, p2, b2) /\ Lacks(r, x2, "idle", Null)
  <2>1. Linked(v) /\ Placed(v, pos, b)
    BY <1>13
  <2> QED
    BY ONLY <1>15, <1>22, <1>23, <1>24, <1>25, <2>1, RelabelLacks
<1> QED
  BY ONLY <1>21, <1>26 DEF WithoutNode

(* Forgetting the parent of the sentinel changes nothing in the tree.      *)
LEMMA ForgottenLacks ==
    ASSUME NEW t, NEW pos, NEW b, NEW bh, Linked(t), Placed(t, pos, b),
           Lacks(t, bh, "idle", Null), NEW r, r = Forgotten(t)
    PROVE  /\ Linked(r) /\ \E p2, b2, h2 : Placed(r, p2, b2) /\ Lacks(r, h2, "idle", Null)
           /\ SameNodes(t, r)
<1>1. /\ Alloc(t) \subseteq Nodes /\ Nodes \subseteq Cells /\ Sentinel \notin Nodes
      /\ Sentinel \in Cells /\ Null \in Links /\ t \in Trees
      /\ \A d \in Sides : t.child[d][Sentinel] = Null
  BY AllocIs, Constants DEF Linked
<1>2. /\ r \in Trees /\ r.root = t.root /\ r.child = t.child /\ r.red = t.red
      /\ \A m \in Cells : r.parent[m] = IF m = Sentinel THEN Null ELSE t.parent[m]
  <2>1. r = SetParent(t, Sentinel, Null)
    BY ONLY r = Forgotten(t) DEF Forgotten
  <2>2. /\ SetParent(t, Sentinel, Null) \in Trees
        /\ SetParent(t, Sentinel, Null).root = t.root
        /\ SetParent(t, Sentinel, Null).child = t.child
        /\ SetParent(t, Sentinel, Null).red = t.red
        /\ \A m \in Cells : SetParent(t, Sentinel, Null).parent[m] =
              IF m = Sentinel THEN Null ELSE t.parent[m]
    <3>1. t \in Trees /\ Sentinel \in Cells /\ Null \in Links
      BY <1>1
    <3> QED
      BY ONLY <3>1, SetParentIs
  <2> QED
    BY ONLY <2>1, <2>2
<1>3. Alloc(r) = Alloc(t)
  BY ONLY <1>2 DEF Alloc
<1>4. PICK f : f = [m \in Alloc(t) \cup {Sentinel} |-> m]
  OBVIOUS
<1>5. \A m \in Alloc(t) \cup {Sentinel} : f[m] = m
  BY ONLY <1>4
<1>6. Relabelled(t, r, f)
  <2>1. /\ t.root \in Alloc(t) \cup {Sentinel}
        /\ \A m \in Alloc(t) \ {t.root} : t.parent[m] \in Alloc(t)
        /\ \A m \in Alloc(t), d \in Sides : t.child[d][m] \in Alloc(t) \cup {Sentinel}
    BY DEF Linked
  <2>2. \A d \in Sides : r.child[d][Sentinel] = Null
    BY ONLY <1>1, <1>2
  <2>3. /\ \A m \in Alloc(t), d \in Sides : r.child[d][f[m]] = f[t.child[d][m]]
        /\ \A m \in Alloc(t) \ {t.root} : r.parent[f[m]] = f[t.parent[m]]
        /\ r.root = f[t.root] /\ f[Sentinel] = Sentinel
        /\ \A m \in Alloc(t) : f[m] \in r.red <=> m \in t.red
    BY ONLY <1>1, <1>2, <1>5, <2>1
  <2>4. /\ \A m \in Alloc(t) : f[m] \in Nodes
        /\ \A x, y \in Alloc(t) : f[x] = f[y] => x = y
        /\ \A y \in Nodes : y \in Alloc(r) <=> \E m \in Alloc(t) : f[m] = y
    BY ONLY <1>1, <1>3, <1>5
  <2> QED
    BY ONLY <1>2, <2>2, <2>3, <2>4 DEF Relabelled
<1>7. KeepsOrder(t, pos, f)
  BY <1>5 DEF KeepsOrder, Placed
<1>8. KeepsCell(t, r, f, "idle", Null)
  BY DEF KeepsCell
<1>9. r.red \subseteq Alloc(r)
  <2>1. t.red \subseteq Alloc(t)
    BY DEF Lacks, Colored
  <2> QED
    BY ONLY <1>2, <1>3, <2>1
<1>10. Linked(r) /\ \E p2, b2, x2 : Placed(r, p2, b2) /\ Lacks(r, x2, "idle", Null)
  BY ONLY Linked(t), Placed(t, pos, b), Lacks(t, bh, "idle", Null), <1>6, <1>7, <1>8, <1>9,
          RelabelLacks
<1> QED
  BY ONLY <1>3, <1>10 DEF SameNodes

(* A tree that lacks nothing, or a black node in one place, is sound with  *)
(* the size that delete counts.                                            *)
LEMMA LacksSound ==
    ASSUME NEW t, NEW pos, NEW b, NEW bh, NEW a, NEW nd, NEW size,
           Linked(t), Placed(t, pos, b), Lacks(t, bh, a, nd),
           size = Cardinality(Alloc(t)) + (IF a = "delete" THEN 1 ELSE 0),
           size \in 0 .. Cardinality(Nodes)
    PROVE  Sound(t, size, a, nd)
<1>1. /\ Weighed(t, bh, PlaceOf(t, a, nd)) /\ Colored(t, a, nd)
      /\ (a = "idle" /\ nd = Null) \/ (a = "delete" /\ HangsAt(t, nd))
  BY DEF Lacks
<1>2. Cardinality(Alloc(t)) \in Nat
  BY AllocIsFinite
<1>3. Counted(t, size, a, nd)
  <2>1. CASE a = "idle" /\ nd = Null
    BY ONLY <1>2, <2>1, size = Cardinality(Alloc(t)) + (IF a = "delete" THEN 1 ELSE 0),
            size \in 0 .. Cardinality(Nodes) DEF Counted
  <2>2. CASE a = "delete" /\ HangsAt(t, nd)
    BY ONLY <1>2, <2>2, size = Cardinality(Alloc(t)) + (IF a = "delete" THEN 1 ELSE 0),
            size \in 0 .. Cardinality(Nodes) DEF Counted, HangsAt
  <2> QED
    BY ONLY <1>1, <2>1, <2>2
<1> QED
  BY ONLY Linked(t), Placed(t, pos, b), <1>1, <1>3 DEF Sound

(* delete, up to the loop that repairs the colours.                        *)
LEMMA DeleteSound ==
    ASSUME TreeInv, NEW n \in Alloc(tree), Delete(n), reply' \in Keys \cup {NoKey}
    PROVE  TreeInv' /\ WithoutNode(tree, tree', n)
<1>1. Sound(tree, treeSize, at, node) /\ at = "idle"
  BY ONLY TreeInv, Delete(n) DEF TreeInv, Delete
<1>2. node = Null /\ treeSize = Cardinality(Alloc(tree)) /\ treeSize \in 0 .. Cardinality(Nodes)
  BY ONLY <1>1 DEF Sound, Counted
<1>3. PICK pos, b, bh : Linked(tree) /\ Placed(tree, pos, b) /\ Weighed(tree, bh, NoPlace)
                        /\ Colored(tree, "idle", Null)
  <2>1. PlaceOf(tree, at, node) = NoPlace
    BY ONLY <1>1 DEF PlaceOf
  <2> QED
    BY ONLY <1>1, <1>2, <2>1 DEF Sound
<1>4. PICK s : s = Subst(n)
  OBVIOUS
<1>5. PICK h : h = Heir(n)
  OBVIOUS
<1>6. PICK r : r = tree'
  OBVIOUS
<1>7. ASSUME NEW x, WithoutNode(tree, x, n)
      PROVE  /\ Cardinality(Alloc(x)) = treeSize - 1 /\ treeSize - 1 \in 0 .. Cardinality(Nodes)
             /\ Cardinality(Alloc(x)) \in Nat
  <2>1. Alloc(x) = Alloc(tree) \ {n}
    BY ONLY <1>7 DEF WithoutNode
  <2>2. IsFiniteSet(Alloc(tree)) /\ IsFiniteSet(Alloc(x)) /\ Cardinality(Alloc(x)) \in Nat
    BY AllocIsFinite
  <2>3. Cardinality(Alloc(tree) \ {n}) = Cardinality(Alloc(tree)) - 1
    BY ONLY <2>2, n \in Alloc(tree), FS_RemoveElement
  <2>4. Cardinality(Nodes) \in Nat
    BY NodesAreFinite
  <2> QED
    BY ONLY <1>2, <2>1, <2>2, <2>3, <2>4
<1>8. CASE s = tree.root
  <2>1. /\ r = Freed([Paint(tree, {}, {h}) EXCEPT !.root = h], n)
        /\ treeSize' = treeSize - 1 /\ at' = "idle" /\ node' = Null
    BY ONLY <1>1, <1>2, <1>4, <1>5, <1>6, <1>8, Delete(n) DEF Delete, Fewer
  <2>2. /\ Linked(r) /\ \E p2, b2, h2 : Placed(r, p2, b2) /\ Lacks(r, h2, "idle", Null)
        /\ WithoutNode(tree, r, n)
    <3>1. Subst(n) = tree.root
      BY <1>4, <1>8
    <3> QED
      BY ONLY <1>3, <1>5, <2>1, <3>1, n \in Alloc(tree), RootGoneLacks
  <2>3. Sound(r, treeSize - 1, "idle", Null)
    <3>1. PICK p2, b2, h2 : Placed(r, p2, b2) /\ Lacks(r, h2, "idle", Null)
      BY <2>2
    <3>2. /\ Cardinality(Alloc(r)) = treeSize - 1 /\ treeSize - 1 \in 0 .. Cardinality(Nodes)
          /\ Cardinality(Alloc(r)) \in Nat
      BY ONLY <2>2, <1>7
    <3>3. PICK size : size = treeSize - 1
      OBVIOUS
    <3>4. PICK a : a = "idle"
      OBVIOUS
    <3>5. /\ size = Cardinality(Alloc(r)) + (IF a = "delete" THEN 1 ELSE 0)
          /\ size \in 0 .. Cardinality(Nodes) /\ Linked(r)
          /\ Placed(r, p2, b2) /\ Lacks(r, h2, a, Null)
      BY ONLY <2>2, <3>1, <3>2, <3>3, <3>4
    <3>6. Sound(r, size, a, Null)
      BY ONLY <3>5, LacksSound
    <3> QED
      BY ONLY <3>3, <3>4, <3>6
  <2> QED
    BY ONLY <1>6, <2>1, <2>2, <2>3, reply' \in Keys \cup {NoKey} DEF TreeInv
<1>9. CASE s # tree.root
  <2>1. PICK u : u = Unlinked(n)
    OBVIOUS
  <2>2. PICK a : a = IF s \in tree.red THEN "idle" ELSE "delete"
    OBVIOUS
  <2>3. PICK nd : nd = IF s \in tree.red THEN Null ELSE h
    OBVIOUS
  <2>4. /\ Linked(u) /\ \E p2, b2, h2 : Placed(u, p2, b2) /\ Lacks(u, h2, a, nd)
        /\ WithoutNode(tree, u, n)
    BY ONLY <1>3, <1>4, <1>5, <1>9, <2>1, <2>2, <2>3, n \in Alloc(tree), UnlinkedLacks
  <2>5. CASE s \in tree.red
    <3>1. /\ r = Forgotten(u) /\ treeSize' = treeSize - 1 /\ at' = "idle" /\ node' = Null
      BY ONLY <1>1, <1>2, <1>4, <1>6, <1>9, <2>1, <2>5, Delete(n) DEF Delete, Fewer
    <3>2. a = "idle" /\ nd = Null
      BY <2>2, <2>3, <2>5
    <3>3. /\ Linked(r) /\ \E p2, b2, h2 : Placed(r, p2, b2) /\ Lacks(r, h2, "idle", Null)
          /\ SameNodes(u, r)
      <4>1. PICK p2, b2, h2 : Placed(u, p2, b2) /\ Lacks(u, h2, "idle", Null)
        BY <2>4, <3>2
      <4>2. Linked(u)
        BY <2>4
      <4> QED
        BY ONLY <3>1, <4>1, <4>2, ForgottenLacks
    <3>4. WithoutNode(tree, r, n)
      BY ONLY <2>4, <3>3 DEF WithoutNode, SameNodes
    <3>5. Sound(r, treeSize - 1, "idle", Null)
      <4>1. PICK p2, b2, h2 : Placed(r, p2, b2) /\ Lacks(r, h2, "idle", Null)
        BY <3>3
      <4>2. /\ Cardinality(Alloc(r)) = treeSize - 1 /\ treeSize - 1 \in 0 .. Cardinality(Nodes)
            /\ Cardinality(Alloc(r)) \in Nat
        BY ONLY <3>4, <1>7
      <4>3. PICK size : size = treeSize - 1
        OBVIOUS
      <4>4. PICK a2 : a2 = "idle"
        OBVIOUS
      <4>5. /\ size = Cardinality(Alloc(r)) + (IF a2 = "delete" THEN 1 ELSE 0)
            /\ size \in 0 .. Cardinality(Nodes) /\ Linked(r)
            /\ Placed(r, p2, b2) /\ Lacks(r, h2, a2, Null)
        BY ONLY <3>3, <4>1, <4>2, <4>3, <4>4
      <4>6. Sound(r, size, a2, Null)
        BY ONLY <4>5, LacksSound
      <4> QED
        BY ONLY <4>3, <4>4, <4>6
    <3> QED
      BY ONLY <1>6, <3>1, <3>4, <3>5, reply' \in Keys \cup {NoKey} DEF TreeInv
  <2>6. CASE s \notin tree.red
    <3>1. /\ r = u /\ treeSize' = treeSize /\ at' = "delete" /\ node' = h
      BY ONLY <1>4, <1>5, <1>6, <1>9, <2>1, <2>6, Delete(n) DEF Delete
    <3>2. a = "delete" /\ nd = h
      BY <2>2, <2>3, <2>6
    <3>3. Sound(r, treeSize, "delete", h)
      <4>1. PICK p2, b2, h2 : Placed(u, p2, b2) /\ Lacks(u, h2, a, nd)
        BY <2>4
      <4>2. Cardinality(Alloc(u)) = treeSize - 1 /\ Cardinality(Alloc(u)) \in Nat
        BY ONLY <2>4, <1>7
      <4>3. treeSize = Cardinality(Alloc(u)) + (IF a = "delete" THEN 1 ELSE 0)
        BY ONLY <1>2, <3>2, <4>2
      <4>4. Linked(u)
        BY <2>4
      <4>5. Sound(u, treeSize, a, nd)
        BY ONLY <1>2, <4>1, <4>3, <4>4, LacksSound
      <4> QED
        BY ONLY <3>1, <3>2, <4>5
    <3> QED
      BY ONLY <1>6, <2>4, <3>1, <3>3, reply' \in Keys \cup {NoKey} DEF TreeInv
  <2> QED
    BY ONLY <2>5, <2>6
<1> QED
  BY ONLY <1>8, <1>9

-----------------------------------------------------------------------------
(* The loop of delete.  The cell nd, on this side of p, lacks a black      *)
(* node; its sibling is a node, and no red node has a red parent.          *)
Short(t, pos, b, bh, side, p, nd) ==
    /\ Linked(t) /\ Placed(t, pos, b) /\ Weighed(t, bh, <<p, side>>)
    /\ side \in Sides /\ p \in Alloc(t) /\ nd \in Alloc(t) \cup {Sentinel}
    /\ t.child[side][p] = nd /\ t.parent[nd] = p /\ nd \notin t.red
    /\ t.child[Other(side)][p] \in Alloc(t)
    /\ t.red \subseteq Alloc(t) /\ t.root \notin t.red
    /\ \A m \in Alloc(t) \ {t.root} : m \in t.red => t.parent[m] \notin t.red

(* The sibling is a node because its side is not short of one.             *)
LEMMA SiblingExists ==
    ASSUME NEW t, NEW bh, NEW side \in Sides, NEW p \in Alloc(t), Linked(t),
           Weighed(t, bh, <<p, side>>)
    PROVE  t.child[Other(side)][p] \in Alloc(t)
<1>1. /\ Other(side) \in Sides /\ Other(side) # side
      /\ t.child[side][p] \in Alloc(t) \cup {Sentinel}
      /\ t.child[Other(side)][p] \in Alloc(t) \cup {Sentinel}
      /\ Alloc(t) \subseteq Cells /\ Sentinel \in Cells
  BY SidesAre, AllocIs, Constants DEF Linked
<1>2. PICK place : place = <<p, side>>
  OBVIOUS
<1>3. /\ bh \in [Cells -> Nat] /\ bh[Sentinel] = 0
      /\ \A m \in Alloc(t), s \in Sides :
            bh[m] = bh[t.child[s][m]] + (IF place = <<m, s>> THEN 1 ELSE 0)
                    + (IF m \in t.red THEN 0 ELSE 1)
  BY <1>2 DEF Weighed
<1>4. place # <<p, Other(side)>>
  BY ONLY <1>1, <1>2
<1>5. bh[p] = bh[t.child[side][p]] + 1 + (IF p \in t.red THEN 0 ELSE 1)
  BY ONLY <1>2, <1>3, p \in Alloc(t), side \in Sides
<1>6. bh[p] = bh[t.child[Other(side)][p]] + 0 + (IF p \in t.red THEN 0 ELSE 1)
  BY ONLY <1>1, <1>3, <1>4, p \in Alloc(t)
<1>7. bh[t.child[side][p]] \in Nat /\ bh[t.child[Other(side)][p]] \in Nat
  BY ONLY <1>1, <1>3
<1>8. t.child[Other(side)][p] # Sentinel
  BY ONLY <1>3, <1>5, <1>6, <1>7
<1> QED
  BY ONLY <1>1, <1>8

(* What soundness says of the node that the loop looks at and of its       *)
(* parent.                                                                 *)
LEMMA ShortIs ==
    ASSUME NEW t, NEW size, NEW nd, Sound(t, size, "delete", nd), nd # t.root, nd \notin t.red,
           NEW p, p = t.parent[nd], NEW side, side = SideOf(t, nd)
    PROVE  \E pos, b, bh : Short(t, pos, b, bh, side, p, nd)
<1>1. Linked(t) /\ Colored(t, "delete", nd) /\ Counted(t, size, "delete", nd)
  BY DEF Sound
<1>2. PICK pos, b : Placed(t, pos, b)
  BY DEF Sound
<1>3. PICK bh : Weighed(t, bh, <<p, side>>)
  BY DEF Sound, PlaceOf
<1>4. /\ nd \in Alloc(t) \cup {Sentinel} /\ (nd = Sentinel => p \in Alloc(t))
      /\ t.child[side][p] = nd
  BY ONLY <1>1, nd # t.root, p = t.parent[nd], side = SideOf(t, nd) DEF Counted
<1>5. p \in Alloc(t) /\ side \in Sides
  <2>1. nd # Sentinel => p \in Alloc(t)
    BY ONLY <1>1, <1>4, nd # t.root, p = t.parent[nd] DEF Linked
  <2> QED
    BY ONLY <1>4, <2>1, side = SideOf(t, nd) DEF SideOf, Sides
<1>6. /\ t.red \subseteq Alloc(t) /\ t.root \notin t.red
      /\ \A m \in Alloc(t) \ {t.root} : m \in t.red => t.parent[m] \notin t.red
  BY ONLY <1>1, nd # t.root, nd \notin t.red DEF Colored
<1>7. t.child[Other(side)][p] \in Alloc(t)
  BY ONLY <1>1, <1>3, <1>5, SiblingExists
<1>8. Short(t, pos, b, bh, side, p, nd)
  BY ONLY <1>1, <1>2, <1>3, <1>4, <1>5, <1>6, <1>7, p = t.parent[nd], nd \notin t.red DEF Short
<1> QED
  BY <1>8

(* The side that SideOf says is the right one: the sibling is a node.      *)
LEMMA ShortSide ==
    ASSUME NEW t, NEW pos, NEW b, NEW bh, NEW side, NEW p, NEW nd,
           Short(t, pos, b, bh, side, p, nd)
    PROVE  /\ nd # t.root /\ nd # p /\ t.child[Other(side)][p] # nd
           /\ t.child[Other(side)][p] # p /\ SideOf(t, nd) = side
<1>1. /\ Linked(t) /\ Placed(t, pos, b)
      /\ side \in Sides /\ p \in Alloc(t) /\ nd \in Alloc(t) \cup {Sentinel}
      /\ t.child[side][p] = nd /\ t.parent[nd] = p
      /\ t.child[Other(side)][p] \in Alloc(t)
  BY DEF Short
<1>2. /\ Other(side) \in Sides /\ Other(Other(side)) = side /\ Other("left") = "right"
      /\ Alloc(t) \subseteq Nodes /\ Sentinel \notin Nodes
      /\ side = "left" \/ side = "right"
      /\ t.root = Sentinel => Alloc(t) = {}
  BY <1>1, SidesAre, AllocIs, Constants DEF Linked, Sides
<1>3. PICK w : w = t.child[Other(side)][p]
  OBVIOUS
<1>4. w # Sentinel /\ w # p
  <2>1. w # Sentinel
    BY ONLY <1>1, <1>2, <1>3
  <2> QED
    BY ONLY <1>1, <1>2, <1>3, <2>1, ChildIs
<1>5. w # nd
  BY ONLY <1>1, <1>2, <1>3, <1>4, ChildIs
<1>6. nd # t.root /\ nd # p
  <2>1. CASE nd = Sentinel
    BY ONLY <1>1, <1>2, <2>1
  <2>2. CASE nd # Sentinel
    BY ONLY <1>1, <2>2, ChildIs
  <2> QED
    BY ONLY <2>1, <2>2
<1>7. SideOf(t, nd) = side
  <2>1. CASE side = "left"
    BY ONLY <1>1, <2>1 DEF SideOf
  <2>2. CASE side = "right"
    <3>1. Other(side) = "left"
      BY ONLY <2>2 DEF Other
    <3>2. nd # t.child["left"][t.parent[nd]]
      BY ONLY <1>1, <1>3, <1>5, <3>1
    <3> QED
      BY ONLY <2>2, <3>2 DEF SideOf
  <2> QED
    BY ONLY <1>2, <2>1, <2>2
<1> QED
  BY ONLY <1>3, <1>4, <1>5, <1>6, <1>7

(* BlackSibling turns a red sibling up, and the next sibling is black.     *)
SiblingTurned(t, side, p) ==
    LET w == t.child[Other(side)][p]
    IN  IF w \in t.red THEN Rotate(Paint(t, {p}, {w}), side, p) ELSE t

(* With a black sibling the place is one black node short as before.       *)
LEMMA SiblingTurnedIs ==
    ASSUME NEW t, NEW pos, NEW b, NEW bh, NEW side, NEW p, NEW nd,
           Short(t, pos, b, bh, side, p, nd), NEW u, u = SiblingTurned(t, side, p)
    PROVE  /\ \E b2, h2 : Short(u, pos, b2, h2, side, p, nd)
           /\ u.child[Other(side)][p] \notin u.red /\ SameNodes(t, u)
           /\ u = t \/ p \in u.red
<1>1. /\ Linked(t) /\ Placed(t, pos, b) /\ Weighed(t, bh, <<p, side>>)
      /\ side \in Sides /\ p \in Alloc(t) /\ nd \in Alloc(t) \cup {Sentinel}
      /\ t.child[side][p] = nd /\ t.parent[nd] = p /\ nd \notin t.red
      /\ t.child[Other(side)][p] \in Alloc(t)
      /\ t.red \subseteq Alloc(t) /\ t.root \notin t.red
      /\ \A m \in Alloc(t) \ {t.root} : m \in t.red => t.parent[m] \notin t.red
  BY DEF Short
<1>2. PICK w : w = t.child[Other(side)][p]
  OBVIOUS
<1>3. CASE w \notin t.red
  <2>1. u = t
    BY ONLY <1>2, <1>3, u = SiblingTurned(t, side, p) DEF SiblingTurned
  <2> QED
    BY <1>2, <1>3, <2>1 DEF SameNodes
<1>4. CASE w \in t.red
  <2>1. PICK v : v = Paint(t, {p}, {w})
    OBVIOUS
  <2>2. u = Rotate(v, side, p)
    BY ONLY <1>2, <1>4, <2>1, u = SiblingTurned(t, side, p) DEF SiblingTurned
  <2>3. /\ Other(side) \in Sides /\ Other(side) # side /\ Other(Other(side)) = side
        /\ Alloc(t) \subseteq Nodes /\ Nodes \subseteq Cells /\ Sentinel \notin Nodes
        /\ Sentinel \in Cells /\ t \in Trees /\ p \in Nodes /\ p \in Cells /\ nd \in Cells
        /\ \A s \in Sides : s = side \/ s = Other(side)
    <3>1. Alloc(t) \subseteq Nodes /\ Nodes \subseteq Cells /\ Sentinel \notin Nodes
          /\ Sentinel \in Cells
      BY AllocIs, Constants
    <3>2. t \in Trees
      BY <1>1 DEF Linked
    <3> QED
      BY <1>1, <3>1, <3>2, SidesAre
  <2>4. /\ SameShape(t, v) /\ v.red = (t.red \cup {p}) \ {w}
        /\ v.root = t.root /\ v.child = t.child /\ v.parent = t.parent
    <3>1. t \in Trees /\ {p} \subseteq Nodes
      BY <2>3
    <3>2. /\ SameShape(t, Paint(t, {p}, {w}))
          /\ Paint(t, {p}, {w}).red = (t.red \cup {p}) \ {w}
      BY ONLY <3>1, PaintSameShape
    <3> QED
      BY ONLY <2>1, <3>2 DEF SameShape
  <2>5. /\ Linked(v) /\ Alloc(v) = Alloc(t) /\ Placed(v, pos, b)
        /\ SideOf(v, p) = SideOf(t, p)
    BY ONLY <1>1, <2>4, SameShapeKeeps
  <2>6. /\ w # Sentinel /\ w \in Alloc(t) /\ w # p /\ w # t.root /\ t.parent[w] = p /\ w # nd
        /\ p \notin t.red
    <3>1. w # Sentinel
      BY ONLY <1>1, <1>2, <2>3
    <3>2. w \in Alloc(t) /\ w # p /\ w # t.root /\ t.parent[w] = p
          /\ w # t.child[Other(Other(side))][p]
      BY ONLY <1>1, <1>2, <2>3, <3>1, ChildIs
    <3> QED
      BY ONLY <1>1, <1>4, <2>3, <3>1, <3>2
  <2>7. PICK inner : inner = v.child[side][w]
    OBVIOUS
  <2>8. Up(v, side, p) = w /\ Inner(v, side, p) = inner /\ Up(t, side, p) = w
    BY ONLY <1>2, <2>4, <2>7 DEF Up, Inner
  <2>9. /\ inner \in Alloc(t) \cup {Sentinel} /\ inner \in Cells /\ inner # w /\ inner # p
        /\ p # t.root => /\ t.parent[p] \in Alloc(t) /\ t.parent[p] # p /\ t.parent[p] # w
                         /\ SideOf(t, p) \in Sides /\ t.child[SideOf(t, p)][t.parent[p]] = p
        /\ u.red = v.red
        /\ u.root = IF p = t.root THEN w ELSE t.root
        /\ \A m \in Cells : u.parent[m] =
              IF m = inner /\ inner # Sentinel THEN p
              ELSE IF m = p THEN w
              ELSE IF m = w THEN t.parent[p]
              ELSE t.parent[m]
        /\ \A s \in Sides, m \in Cells : u.child[s][m] =
              IF m = w /\ s = side THEN p
              ELSE IF m = p /\ s = Other(side) THEN inner
              ELSE IF p # t.root /\ m = t.parent[p] /\ s = SideOf(t, p) THEN w
              ELSE t.child[s][m]
    <3>1. /\ p \in Nodes /\ w \in Alloc(v) /\ w \in Nodes /\ w # p /\ w # v.root
          /\ inner \in Alloc(v) \cup {Sentinel} /\ inner \in Cells
          /\ inner # w /\ inner # p
          /\ p # v.root =>
                /\ v.parent[p] \in Alloc(v) /\ v.parent[p] \in Nodes
                /\ v.parent[p] # p /\ v.parent[p] # w
                /\ SideOf(v, p) \in Sides /\ v.child[SideOf(v, p)][v.parent[p]] = p
          /\ u \in Trees /\ u.red = v.red
          /\ u.root = IF p = v.root THEN w ELSE v.root
          /\ \A m \in Cells : u.parent[m] =
                IF m = inner /\ inner # Sentinel THEN p
                ELSE IF m = p THEN w
                ELSE IF m = w THEN v.parent[p]
                ELSE v.parent[m]
          /\ \A s \in Sides, m \in Cells : u.child[s][m] =
                IF m = w /\ s = side THEN p
                ELSE IF m = p /\ s = Other(side) THEN inner
                ELSE IF p # v.root /\ m = v.parent[p] /\ s = SideOf(v, p) THEN w
                ELSE v.child[s][m]
      <4>1. /\ Linked(v) /\ Placed(v, pos, b) /\ side \in Sides /\ p \in Alloc(v)
            /\ Up(v, side, p) # Sentinel /\ w = Up(v, side, p) /\ inner = Inner(v, side, p)
        BY ONLY <1>1, <2>5, <2>6, <2>8
      <4> QED
        BY ONLY <4>1, <2>2, AroundRotation
    <3> QED
      BY ONLY <2>4, <2>5, <3>1
  <2>10. /\ Linked(u) /\ Alloc(u) = Alloc(t)
         /\ Placed(u, pos, Bounds(b, pos, side, p, w))
    <3>1. /\ Linked(v) /\ Placed(v, pos, b) /\ side \in Sides /\ p \in Alloc(v)
          /\ Up(v, side, p) # Sentinel
      BY ONLY <1>1, <2>5, <2>6, <2>8
    <3>2. PICK x : x = Alloc(u)
      OBVIOUS
    <3>3. PICK y : y = Alloc(v)
      OBVIOUS
    <3>4. Linked(u) /\ x = y
      BY ONLY <3>1, <2>2, <3>2, <3>3, RotateLinked
    <3>5. Placed(u, pos, Bounds(b, pos, side, p, Up(v, side, p)))
      BY ONLY <3>1, <2>2, RotatePlaced
    <3> QED
      BY ONLY <2>5, <2>8, <3>2, <3>3, <3>4, <3>5
  <2>11. PICK place : place = <<p, side>>
    OBVIOUS
  <2>12. PICK h2 : Weighed(u, h2, place)
    <3>1. /\ p \in v.red /\ (w \in v.red <=> p \in t.red)
          /\ \A m \in Nodes : m # p /\ m # w => (m \in v.red <=> m \in t.red)
      BY ONLY <2>4, <2>6
    <3>2. \A s \in Sides : place # <<w, s>> /\ place # <<p, Other(side)>>
      BY ONLY <2>3, <2>6, <2>11
    <3>3. Weighed(t, bh, place)
      BY <1>1, <2>11
    <3>4. w = Up(t, side, p) /\ w # Sentinel
      BY <2>6, <2>8
    <3>5. Weighed(u, [bh EXCEPT ![p] = bh[w], ![w] = bh[p]], place)
      BY ONLY <1>1, <1>4, <2>2, <2>4, <3>1, <3>2, <3>3, <3>4, RotateWeighed
    <3> QED
      BY <3>5
  <2>13. /\ u.child[side][p] = nd /\ u.parent[nd] = p /\ u.child[Other(side)][p] = inner
    <3>1. u.child[side][p] = nd /\ u.child[Other(side)][p] = inner
      BY ONLY <1>1, <2>3, <2>6, <2>9
    <3>2. nd # p
      <4>1. CASE nd = Sentinel
        BY ONLY <2>3, <4>1
      <4>2. CASE nd # Sentinel
        BY ONLY <1>1, <4>2, ChildIs
      <4> QED
        BY ONLY <4>1, <4>2
    <3>3. u.parent[nd] = p
      BY ONLY <1>1, <2>3, <2>6, <2>9, <3>2
    <3> QED
      BY ONLY <3>1, <3>3
  <2>14. inner \notin u.red /\ nd \notin u.red
    <3>1. nd # p
      BY ONLY <2>4, <2>9, <1>1, <2>3, <2>10, <2>13, ChildIs
    <3>2. nd \notin u.red
      BY ONLY <1>1, <2>4, <2>9, <3>1
    <3>3. inner \notin t.red
      <4>1. CASE inner = Sentinel
        BY ONLY <1>1, <2>3, <4>1
      <4>2. CASE inner # Sentinel
        <5>1. inner = t.child[side][w]
          BY ONLY <2>4, <2>7
        <5>2. inner \in Alloc(t) /\ inner # t.root /\ t.parent[inner] = w
          BY ONLY <1>1, <2>6, <4>2, <5>1, ChildIs
        <5> QED
          BY ONLY <1>1, <1>4, <5>2
      <4> QED
        BY ONLY <4>1, <4>2
    <3> QED
      BY ONLY <2>4, <2>9, <3>2, <3>3
  <2>15. u.child[Other(side)][p] \in Alloc(u)
    <3>1. p \in Alloc(u) /\ Weighed(u, h2, <<p, side>>)
      BY <1>1, <2>10, <2>11, <2>12
    <3> QED
      BY ONLY <1>1, <2>10, <3>1, SiblingExists
  <2>16. u.red \subseteq Alloc(u) /\ u.root \notin u.red
    BY ONLY <1>1, <2>4, <2>6, <2>9, <2>10
  <2>17. ASSUME NEW m \in Alloc(u) \ {u.root}, m \in u.red, u.parent[m] \in u.red
         PROVE  FALSE
    <3>1. m \in Alloc(t) /\ m \in Cells /\ m # w /\ m # inner
      BY ONLY <2>3, <2>4, <2>9, <2>10, <2>14, <2>17
    <3>2. m # p /\ m \in t.red
      BY ONLY <2>3, <2>4, <2>9, <2>17, <3>1
    <3>3. u.parent[m] = t.parent[m] /\ m # t.root
      BY ONLY <1>1, <2>9, <3>1, <3>2
    <3>4. t.parent[m] = p
      BY ONLY <1>1, <2>4, <2>9, <2>17, <3>1, <3>2, <3>3
    <3>5. \E s \in Sides : t.child[s][p] = m
      BY <1>1, <3>1, <3>3, <3>4 DEF Linked
    <3> QED
      BY ONLY <1>1, <1>2, <2>3, <3>1, <3>2, <3>5
  <2>18. Short(u, pos, Bounds(b, pos, side, p, w), h2, side, p, nd)
    <3>1. p \in Alloc(u) /\ nd \in Alloc(u) \cup {Sentinel} /\ Weighed(u, h2, <<p, side>>)
      BY <1>1, <2>10, <2>11, <2>12
    <3> QED
      BY ONLY <1>1, <2>10, <2>13, <2>14, <2>15, <2>16, <2>17, <3>1 DEF Short
  <2>19. p \in u.red
    BY ONLY <2>4, <2>6, <2>9
  <2> QED
    BY <2>10, <2>13, <2>14, <2>18, <2>19 DEF SameNodes
<1> QED
  BY ONLY <1>3, <1>4

(* The sibling and its children are black: it becomes red, and p lacks a   *)
(* black node instead.                                                     *)
LEMMA DeleteRecolourSound ==
    ASSUME NEW t, NEW pos, NEW b, NEW bh, NEW side, NEW p, NEW nd,
           Short(t, pos, b, bh, side, p, nd), NEW w, w = t.child[Other(side)][p],
           w \notin t.red, \A s \in Sides : t.child[s][w] \notin t.red,
           NEW size, size \in 0 .. Cardinality(Nodes), size = Cardinality(Alloc(t)) + 1,
           NEW r, r = Paint(t, {w}, {})
    PROVE  Sound(r, size, "delete", p) /\ SameNodes(t, r)
<1>1. /\ Linked(t) /\ Placed(t, pos, b) /\ Weighed(t, bh, <<p, side>>)
      /\ side \in Sides /\ p \in Alloc(t) /\ nd \in Alloc(t) \cup {Sentinel}
      /\ t.child[side][p] = nd /\ t.parent[nd] = p /\ nd \notin t.red
      /\ w \in Alloc(t)
      /\ t.red \subseteq Alloc(t) /\ t.root \notin t.red
      /\ \A m \in Alloc(t) \ {t.root} : m \in t.red => t.parent[m] \notin t.red
  BY DEF Short
<1>2. nd # t.root /\ nd # p /\ w # nd /\ w # p
  BY ONLY Short(t, pos, b, bh, side, p, nd), w = t.child[Other(side)][p], ShortSide
<1>3. /\ Other(side) \in Sides /\ Other(side) # side
      /\ Alloc(t) \subseteq Nodes /\ Nodes \subseteq Cells /\ Sentinel \notin Nodes
      /\ Sentinel \in Cells /\ t \in Trees /\ p \in Nodes /\ p \in Cells /\ w \in Cells
      /\ \A s \in Sides : s = side \/ s = Other(side)
  <2>1. Alloc(t) \subseteq Nodes /\ Nodes \subseteq Cells /\ Sentinel \notin Nodes
        /\ Sentinel \in Cells
    BY AllocIs, Constants
  <2>2. t \in Trees
    BY <1>1 DEF Linked
  <2> QED
    BY <1>1, <2>1, <2>2, SidesAre
<1>4. /\ SameShape(t, r) /\ r.red = t.red \cup {w}
      /\ r.root = t.root /\ r.child = t.child /\ r.parent = t.parent
  <2>1. t \in Trees /\ {w} \subseteq Nodes
    BY <1>1, <1>3
  <2>2. /\ SameShape(t, Paint(t, {w}, {}))
        /\ Paint(t, {w}, {}).red = (t.red \cup {w}) \ {}
    BY ONLY <2>1, PaintSameShape
  <2> QED
    BY ONLY <2>2, r = Paint(t, {w}, {}) DEF SameShape
<1>5. Linked(r) /\ Alloc(r) = Alloc(t) /\ Placed(r, pos, b)
  BY ONLY <1>1, <1>4, SameShapeKeeps
<1>6. /\ w # t.root /\ t.parent[w] = p
      /\ t.root \in Alloc(t) \cup {Sentinel} /\ (t.root = Sentinel => Alloc(t) = {})
      /\ \A m \in Alloc(t), s \in Sides :
            /\ t.child[s][m] \in Alloc(t) \cup {Sentinel}
            /\ t.child[s][m] # Sentinel =>
                  t.child[s][m] # t.root /\ t.parent[t.child[s][m]] = m
      /\ \A m \in Alloc(t) \ {t.root} :
            t.parent[m] \in Alloc(t) /\ \E s \in Sides : t.child[s][t.parent[m]] = m
  <2>1. w # Sentinel
    BY ONLY <1>1, <1>3
  <2>2. w # t.root /\ t.parent[w] = p
    BY ONLY <1>1, <1>3, <2>1, w = t.child[Other(side)][p], ChildIs
  <2> QED
    BY <1>1, <2>2 DEF Linked
<1>7. PICK place : place = <<p, side>>
  OBVIOUS
<1>8. PICK place2 : place2 = PlaceOf(r, "delete", p)
  OBVIOUS
<1>9. p # t.root => /\ t.parent[p] \in Alloc(t) /\ t.parent[p] # p
                    /\ SideOf(t, p) \in Sides /\ t.child[SideOf(t, p)][t.parent[p]] = p
  <2> SUFFICES ASSUME p # t.root
               PROVE  /\ t.parent[p] \in Alloc(t) /\ t.parent[p] # p
                      /\ SideOf(t, p) \in Sides /\ t.child[SideOf(t, p)][t.parent[p]] = p
    OBVIOUS
  <2> QED
    BY ONLY <1>1, p # t.root, ParentIs
<1>10. SideOf(r, p) = SideOf(t, p)
  BY ONLY <1>4 DEF SideOf
<1>11. place2 = IF p # t.root THEN <<t.parent[p], SideOf(t, p)>> ELSE NoPlace
  BY ONLY <1>4, <1>8, <1>10 DEF PlaceOf
<1>12. \A m \in Alloc(t), s \in Sides :
          place2 = <<m, s>> <=> t.child[s][m] = p
  <2> SUFFICES ASSUME NEW m \in Alloc(t), NEW s \in Sides
               PROVE  place2 = <<m, s>> <=> t.child[s][m] = p
    OBVIOUS
  <2>1. CASE p = t.root
    <3>1. place2 # <<m, s>>
      BY <1>3, <1>11, <2>1, Constants DEF NoPlace
    <3>2. t.child[s][m] # p
      BY ONLY <1>1, <1>3, <1>6, <2>1, m \in Alloc(t), s \in Sides
    <3> QED
      BY <3>1, <3>2
  <2>2. CASE p # t.root
    <3>1. ASSUME t.child[s][m] = p PROVE m = t.parent[p] /\ s = SideOf(t, p)
      <4>1. p # Sentinel
        BY <1>3
      <4> QED
        BY ONLY <1>1, <3>1, <4>1, m \in Alloc(t), s \in Sides, ChildIs
    <3> QED
      BY ONLY <1>9, <1>11, <2>2, <3>1
  <2> QED
    BY ONLY <2>1, <2>2
<1>13. /\ bh \in [Cells -> Nat] /\ bh[Sentinel] = 0
       /\ \A m \in Alloc(t), s \in Sides :
             bh[m] = bh[t.child[s][m]] + (IF place = <<m, s>> THEN 1 ELSE 0)
                     + (IF m \in t.red THEN 0 ELSE 1)
  BY <1>1, <1>7 DEF Weighed
<1>14. bh[w] \in Nat \ {0} /\ bh[p] \in Nat \ {0} /\ bh[nd] \in Nat
  <2>1. t.child["left"][w] \in Cells /\ "left" \in Sides /\ nd \in Cells
    BY ONLY <1>1, <1>3, <1>6 DEF Sides
  <2>2. place # <<w, "left">> /\ place = <<p, side>>
    BY ONLY <1>2, <1>7
  <2>3. bh[w] = bh[t.child["left"][w]] + 0 + 1
    BY ONLY <1>1, <1>13, <2>1, <2>2, w \notin t.red
  <2>4. bh[p] = bh[nd] + 1 + (IF p \in t.red THEN 0 ELSE 1)
    BY ONLY <1>1, <1>13, <2>2
  <2>5. bh[t.child["left"][w]] \in Nat /\ bh[nd] \in Nat
    BY ONLY <1>13, <2>1
  <2> QED
    BY ONLY <2>3, <2>4, <2>5
<1>15. PICK h2 : h2 = [bh EXCEPT ![w] = @ - 1, ![p] = @ - 1]
  OBVIOUS
<1>16. /\ h2 \in [Cells -> Nat]
       /\ \A m \in Cells : h2[m] = IF m = w \/ m = p THEN bh[m] - 1 ELSE bh[m]
  BY ONLY <1>2, <1>3, <1>13, <1>14, <1>15
<1>17. ASSUME NEW m \in Alloc(t), NEW s \in Sides
       PROVE  h2[m] = h2[t.child[s][m]] + (IF place2 = <<m, s>> THEN 1 ELSE 0)
                      + (IF m \in r.red THEN 0 ELSE 1)
  <2>1. PICK c : c = t.child[s][m]
    OBVIOUS
  <2>2. c \in Cells /\ m \in Cells /\ (c # Sentinel => t.parent[c] = m)
    BY ONLY <1>3, <1>6, <2>1, m \in Alloc(t), s \in Sides
  <2>3. /\ bh[m] = bh[c] + (IF place = <<m, s>> THEN 1 ELSE 0) + (IF m \in t.red THEN 0 ELSE 1)
        /\ bh[m] \in Nat /\ bh[c] \in Nat
    BY ONLY <1>13, <2>1, <2>2, m \in Alloc(t), s \in Sides
  <2>4. (place = <<m, s>> <=> m = p /\ s = side) /\ (place2 = <<m, s>> <=> c = p)
    BY ONLY <1>7, <1>12, <2>1, m \in Alloc(t), s \in Sides
  <2>5. c = w => m = p /\ c # p
    BY ONLY <1>1, <1>2, <1>3, <1>6, <2>2
  <2>6. CASE m = p
    <3>1. c = IF s = side THEN nd ELSE w
      BY ONLY <1>1, <1>3, <2>1, <2>6, s \in Sides, w = t.child[Other(side)][p]
    <3>2. p \in r.red <=> p \in t.red
      BY ONLY <1>2, <1>4
    <3>3. s = side => c = nd
      BY ONLY <3>1
    <3>4. s # side => c = w
      BY ONLY <3>1
    <3>5. CASE s = side
      BY ONLY <1>2, <1>3, <1>16, <2>2, <2>3, <2>4, <2>6, <3>2, <3>3, <3>5, <2>1, <1>14
    <3>6. CASE s # side
      BY ONLY <1>2, <1>3, <1>16, <2>2, <2>3, <2>4, <2>6, <3>2, <3>4, <3>6, <2>1, <1>14
    <3> QED
      BY ONLY <3>5, <3>6
  <2>7. CASE m # p
    <3>1. c # w
      BY ONLY <2>5, <2>7
    <3>2. CASE m = w
      <4>1. c # p /\ m \in r.red
        <5>1. c # p
          <6> SUFFICES ASSUME c = p PROVE FALSE
            OBVIOUS
          <6>1. ~Between(b, p, pos[w]) /\ Between(b, p, pos[w])
            <7>1. c # Sentinel /\ w # Sentinel
              BY ONLY <1>1, <1>3, c = p
            <7>2. ~Between(b, c, pos[m])
              BY ONLY <1>1, <2>1, <7>1, m \in Alloc(t), s \in Sides, ChildIs
            <7>3. Between(b, p, pos[w])
              BY ONLY <1>1, <1>3, <7>1, w = t.child[Other(side)][p], ChildIs
            <7> QED
              BY ONLY <3>2, <7>2, <7>3, c = p
          <6> QED
            BY <6>1
        <5> QED
          BY ONLY <1>4, <3>2, <5>1
      <4> QED
        BY ONLY <1>14, <1>16, <2>1, <2>2, <2>3, <2>4, <2>7, <3>1, <3>2, <4>1, w \notin t.red
    <3>3. CASE m # w
      <4>1. m \in r.red <=> m \in t.red
        BY ONLY <1>4, <3>3
      <4>2. CASE c = p
        BY ONLY <1>14, <1>16, <2>1, <2>2, <2>3, <2>4, <2>7, <3>3, <4>1, <4>2
      <4>3. CASE c # p
        BY ONLY <1>14, <1>16, <2>1, <2>2, <2>3, <2>4, <2>7, <3>1, <3>3, <4>1, <4>3
      <4> QED
        BY ONLY <4>2, <4>3
    <3> QED
      BY ONLY <3>2, <3>3
  <2> QED
    BY ONLY <2>6, <2>7
<1>18. h2[Sentinel] = 0
  BY ONLY <1>1, <1>3, <1>13, <1>16
<1>19. Weighed(r, h2, place2)
  BY ONLY <1>4, <1>5, <1>16, <1>17, <1>18 DEF Weighed
<1>20. Colored(r, "delete", p)
  <2>1. r.red \subseteq Alloc(t) /\ r.root \notin r.red
    BY ONLY <1>1, <1>4, <1>6
  <2>2. ASSUME NEW m \in Alloc(t) \ {t.root}, m \in r.red, t.parent[m] \in r.red
        PROVE  t.parent[m] = p
    <3>1. CASE m = w
      BY <1>6, <3>1
    <3>2. CASE m # w
      <4>1. t.parent[m] = w
        BY ONLY <1>1, <1>4, <2>2, <3>2
      <4>2. \E s \in Sides : t.child[s][w] = m
        BY ONLY <1>6, <2>2, <4>1
      <4> QED
        BY ONLY <1>4, <2>2, <3>2, <4>2, \A s \in Sides : t.child[s][w] \notin t.red
    <3> QED
      BY ONLY <3>1, <3>2
  <2> QED
    BY ONLY <1>4, <1>5, <2>1, <2>2 DEF Colored
<1>21. Counted(r, size, "delete", p)
  <2>1. p # Sentinel /\ r.root # Sentinel
    BY ONLY <1>1, <1>3, <1>4, <1>6
  <2>2. p # r.root => r.child[SideOf(r, p)][r.parent[p]] = p
    BY ONLY <1>4, <1>9, <1>10
  <2> QED
    BY ONLY <1>1, <1>5, <2>1, <2>2, size = Cardinality(Alloc(t)) + 1,
            size \in 0 .. Cardinality(Nodes) DEF Counted
<1> QED
  BY ONLY <1>5, <1>8, <1>19, <1>20, <1>21 DEF Sound, SameNodes

(* The end of the loop: the cell it looks at is painted black.             *)
LEMMA DeleteEndSound ==
    ASSUME NEW t, NEW size, NEW nd, Sound(t, size, "delete", nd),
           nd = t.root \/ nd \in t.red, NEW r, r = Forgotten(Paint(t, {}, {nd})),
           NEW less, less = size - 1
    PROVE  Sound(r, less, "idle", Null) /\ SameNodes(t, r)
<1>1. Linked(t) /\ Colored(t, "delete", nd) /\ Counted(t, size, "delete", nd) /\ t \in Trees
  BY DEF Sound, Linked
<1>2. PICK pos, b : Placed(t, pos, b)
  BY DEF Sound
<1>3. PICK place : place = PlaceOf(t, "delete", nd)
  OBVIOUS
<1>4. PICK bh : Weighed(t, bh, place)
  BY <1>3 DEF Sound
<1>5. /\ t.red \subseteq Alloc(t) /\ t.root \notin t.red /\ nd \in Alloc(t)
      /\ \A m \in Alloc(t) \ {t.root} :
            m \in t.red /\ t.parent[m] \in t.red => m = nd \/ t.parent[m] = nd
      /\ size = Cardinality(Alloc(t)) + 1 /\ size \in 0 .. Cardinality(Nodes)
  <2>1. t.root \in Alloc(t) \/ t.root = Sentinel
    BY <1>1 DEF Linked
  <2> QED
    BY ONLY <1>1, <2>1, nd = t.root \/ nd \in t.red DEF Colored, Counted
<1>6. /\ Alloc(t) \subseteq Nodes /\ Nodes \subseteq Cells /\ Sentinel \notin Nodes
      /\ Null \notin Nodes /\ Sentinel \in Cells /\ {} \subseteq Nodes
  BY AllocIs, Constants
<1>7. PICK v : v = Paint(t, {}, {nd})
  OBVIOUS
<1>8. /\ SameShape(t, v) /\ v.red = t.red \ {nd}
      /\ v.root = t.root /\ v.child = t.child /\ v.parent = t.parent
  <2>1. /\ SameShape(t, Paint(t, {}, {nd}))
        /\ Paint(t, {}, {nd}).red = (t.red \cup {}) \ {nd}
    BY ONLY <1>1, <1>6, PaintSameShape
  <2> QED
    BY ONLY <1>7, <2>1 DEF SameShape
<1>9. Linked(v) /\ Alloc(v) = Alloc(t) /\ Placed(v, pos, b)
  BY ONLY <1>1, <1>2, <1>8, SameShapeKeeps
<1>10. /\ bh \in [Cells -> Nat] /\ bh[Sentinel] = 0
       /\ \A m \in Alloc(t), s \in Sides :
             bh[m] = bh[t.child[s][m]] + (IF place = <<m, s>> THEN 1 ELSE 0)
                     + (IF m \in t.red THEN 0 ELSE 1)
  BY <1>4 DEF Weighed
<1>11. \A m \in Alloc(t), s \in Sides : NoPlace # <<m, s>>
  BY <1>6 DEF NoPlace
<1>12. \E h : Weighed(v, h, NoPlace)
  <2>1. CASE nd = t.root
    <3>1. place = NoPlace /\ v.red = t.red
      BY ONLY <1>3, <1>5, <1>8, <2>1 DEF PlaceOf
    <3>2. Weighed(v, bh, NoPlace)
      BY ONLY <1>4, <1>8, <1>9, <3>1 DEF Weighed
    <3> QED
      BY <3>2
  <2>2. CASE nd # t.root
    <3>1. nd \in t.red
      BY <2>2
    <3>2. place = <<t.parent[nd], SideOf(t, nd)>>
      BY ONLY <1>3, <2>2 DEF PlaceOf
    <3>3. PICK h : h = [bh EXCEPT ![nd] = @ + 1]
      OBVIOUS
    <3>4. /\ h \in [Cells -> Nat]
          /\ \A m \in Cells : h[m] = IF m = nd THEN bh[m] + 1 ELSE bh[m]
      BY ONLY <1>5, <1>6, <1>10, <3>3
    <3>5. /\ t.parent[nd] \in Alloc(t) /\ t.child[SideOf(t, nd)][t.parent[nd]] = nd
      BY ONLY <1>1, <1>2, <1>5, <2>2, ParentIs
    <3>6. ASSUME NEW m \in Alloc(t), NEW s \in Sides
          PROVE  h[m] = h[t.child[s][m]] + (IF NoPlace = <<m, s>> THEN 1 ELSE 0)
                        + (IF m \in v.red THEN 0 ELSE 1)
      <4>1. PICK c : c = t.child[s][m]
        OBVIOUS
      <4>2. c \in Cells /\ m \in Cells
        BY <1>1, <1>6, <4>1 DEF Linked
      <4>3. /\ bh[m] = bh[c] + (IF place = <<m, s>> THEN 1 ELSE 0)
                       + (IF m \in t.red THEN 0 ELSE 1)
            /\ bh[m] \in Nat /\ bh[c] \in Nat
        BY ONLY <1>10, <4>1, <4>2, m \in Alloc(t), s \in Sides
      <4>4. c = nd => m = t.parent[nd] /\ s = SideOf(t, nd) /\ c # m
        <5> SUFFICES ASSUME c = nd PROVE m = t.parent[nd] /\ s = SideOf(t, nd) /\ c # m
          OBVIOUS
        <5>1. c # Sentinel
          BY <1>5, <1>6
        <5>2. t.parent[c] = m /\ SideOf(t, c) = s /\ c # m
          BY ONLY <1>1, <1>2, <4>1, <5>1, m \in Alloc(t), s \in Sides, ChildIs
        <5> QED
          BY ONLY <5>2, c = nd
      <4>5. place = <<m, s>> <=> c = nd
        BY ONLY <3>2, <3>5, <4>1, <4>4
      <4>6. h[m] = h[c] + (IF m \in v.red THEN 0 ELSE 1) /\ h[c] \in Nat
        <5>1. CASE c = nd
          BY ONLY <1>8, <3>4, <4>2, <4>3, <4>4, <4>5, <5>1
        <5>2. CASE c # nd /\ m = nd
          BY ONLY <1>8, <3>1, <3>4, <4>2, <4>3, <4>5, <5>2
        <5>3. CASE c # nd /\ m # nd
          BY ONLY <1>8, <3>4, <4>2, <4>3, <4>5, <5>3
        <5> QED
          BY ONLY <5>1, <5>2, <5>3
      <4> QED
        BY ONLY <1>11, <4>1, <4>6, m \in Alloc(t), s \in Sides
    <3>7. h[Sentinel] = 0
      BY ONLY <1>5, <1>6, <1>10, <3>4
    <3>8. Weighed(v, h, NoPlace)
      BY ONLY <1>8, <1>9, <3>4, <3>6, <3>7 DEF Weighed
    <3> QED
      BY <3>8
  <2> QED
    BY ONLY <2>1, <2>2
<1>13. PICK h : Weighed(v, h, NoPlace)
  BY <1>12
<1>14. Lacks(v, h, "idle", Null)
  <2>1. v.red \subseteq Alloc(v) /\ v.root \notin v.red
    BY ONLY <1>5, <1>8, <1>9
  <2>2. \A m \in Alloc(v) \ {v.root} : ~(m \in v.red /\ v.parent[m] \in v.red)
    BY ONLY <1>5, <1>8, <1>9
  <2>3. Colored(v, "idle", Null)
    BY ONLY <2>1, <2>2 DEF Colored
  <2>4. PlaceOf(v, "idle", Null) = NoPlace
    BY DEF PlaceOf
  <2> QED
    BY ONLY <1>13, <2>3, <2>4 DEF Lacks
<1>15. r = Forgotten(v)
  BY ONLY <1>7, r = Forgotten(Paint(t, {}, {nd}))
<1>16. /\ Linked(r) /\ \E p2, b2, h2 : Placed(r, p2, b2) /\ Lacks(r, h2, "idle", Null)
       /\ SameNodes(v, r)
  BY ONLY <1>9, <1>14, <1>15, ForgottenLacks
<1>17. SameNodes(t, r)
  BY ONLY <1>9, <1>16 DEF SameNodes
<1>18. Sound(r, less, "idle", Null)
  <2>1. PICK p2, b2, h2 : Placed(r, p2, b2) /\ Lacks(r, h2, "idle", Null)
    BY <1>16
  <2>2. /\ Cardinality(Alloc(t)) \in Nat /\ Cardinality(Alloc(t)) <= Cardinality(Nodes)
        /\ Cardinality(Nodes) \in Nat
    BY AllocIsFinite
  <2>3. PICK a : a = "idle"
    OBVIOUS
  <2>4. Alloc(r) = Alloc(t)
    BY ONLY <1>17 DEF SameNodes
  <2>5. /\ less = Cardinality(Alloc(r)) + (IF a = "delete" THEN 1 ELSE 0)
        /\ less \in 0 .. Cardinality(Nodes)
    BY ONLY <1>5, <2>2, <2>3, <2>4, less = size - 1
  <2>6. Linked(r) /\ Placed(r, p2, b2) /\ Lacks(r, h2, a, Null)
    BY ONLY <1>16, <2>1, <2>3
  <2>7. Sound(r, less, a, Null)
    BY ONLY <2>5, <2>6, LacksSound
  <2> QED
    BY ONLY <2>3, <2>7
<1> QED
  BY ONLY <1>17, <1>18

(* The first of two rotations: a red child of the sibling turns up, so     *)
(* that the far child of the sibling is red.                               *)
FarTurned(t, side, p) ==
    LET w == t.child[Other(side)][p]
    IN  IF t.child[Other(side)][w] \in t.red THEN t
        ELSE Rotate(Paint(t, {w}, {t.child[side][w]}), Other(side), w)

(* With a red child of the sibling on the far side it still is.            *)
LEMMA FarTurnedIs ==
    ASSUME NEW t, NEW pos, NEW b, NEW bh, NEW side, NEW p, NEW nd,
           Short(t, pos, b, bh, side, p, nd), NEW w, w = t.child[Other(side)][p],
           w \notin t.red, \E s \in Sides : t.child[s][w] \in t.red,
           NEW u, u = FarTurned(t, side, p)
    PROVE  /\ \E b2, h2 : Short(u, pos, b2, h2, side, p, nd)
           /\ u.child[Other(side)][p] \notin u.red
           /\ u.child[Other(side)][u.child[Other(side)][p]] \in u.red
           /\ SameNodes(t, u)
<1>1. /\ Linked(t) /\ Placed(t, pos, b) /\ Weighed(t, bh, <<p, side>>)
      /\ side \in Sides /\ p \in Alloc(t) /\ nd \in Alloc(t) \cup {Sentinel}
      /\ t.child[side][p] = nd /\ t.parent[nd] = p /\ nd \notin t.red
      /\ w \in Alloc(t)
      /\ t.red \subseteq Alloc(t) /\ t.root \notin t.red
      /\ \A m \in Alloc(t) \ {t.root} : m \in t.red => t.parent[m] \notin t.red
  BY DEF Short
<1>2. PICK far : far = Other(side)
  OBVIOUS
<1>3. CASE t.child[far][w] \in t.red
  <2>1. u = t
    BY ONLY <1>2, <1>3, u = FarTurned(t, side, p), w = t.child[Other(side)][p] DEF FarTurned
  <2> QED
    BY <1>2, <1>3, <2>1 DEF SameNodes
<1>4. CASE t.child[far][w] \notin t.red
  <2>0. /\ far \in Sides /\ far # side /\ Other(far) = side
        /\ \A s \in Sides : s = side \/ s = far
    BY <1>1, <1>2, SidesAre
  <2>1. PICK x : x = t.child[side][w]
    OBVIOUS
  <2>2. PICK v : v = Paint(t, {w}, {x})
    OBVIOUS
  <2>3. u = Rotate(v, far, w) /\ x \in t.red
    <3>1. x \in t.red
      BY ONLY <1>4, <2>0, <2>1, \E s \in Sides : t.child[s][w] \in t.red
    <3> QED
      BY ONLY <1>2, <1>4, <2>1, <2>2, <3>1, u = FarTurned(t, side, p),
              w = t.child[Other(side)][p] DEF FarTurned
  <2>4. /\ Alloc(t) \subseteq Nodes /\ Nodes \subseteq Cells /\ Sentinel \notin Nodes
        /\ Sentinel \in Cells /\ t \in Trees /\ p \in Nodes /\ p \in Cells /\ nd \in Cells
        /\ w \in Cells /\ w \in Nodes
    <3>1. Alloc(t) \subseteq Nodes /\ Nodes \subseteq Cells /\ Sentinel \notin Nodes
          /\ Sentinel \in Cells
      BY AllocIs, Constants
    <3>2. t \in Trees
      BY <1>1 DEF Linked
    <3> QED
      BY <1>1, <3>1, <3>2
  <2>5. /\ SameShape(t, v) /\ v.red = (t.red \cup {w}) \ {x}
        /\ v.root = t.root /\ v.child = t.child /\ v.parent = t.parent
    <3>1. t \in Trees /\ {w} \subseteq Nodes
      BY <2>4
    <3>2. /\ SameShape(t, Paint(t, {w}, {x}))
          /\ Paint(t, {w}, {x}).red = (t.red \cup {w}) \ {x}
      BY ONLY <3>1, PaintSameShape
    <3> QED
      BY ONLY <2>2, <3>2 DEF SameShape
  <2>6. /\ Linked(v) /\ Alloc(v) = Alloc(t) /\ Placed(v, pos, b)
        /\ SideOf(v, w) = SideOf(t, w)
    BY ONLY <1>1, <2>5, SameShapeKeeps
  <2>7. /\ w # Sentinel /\ w # p /\ w # t.root /\ t.parent[w] = p /\ w # nd
        /\ SideOf(t, w) = far
        /\ x # Sentinel /\ x \in Alloc(t) /\ x # w /\ x # t.root /\ t.parent[x] = w
    <3>1. w # Sentinel /\ x # Sentinel
      BY ONLY <1>1, <2>3, <2>4
    <3>2. /\ w # p /\ w # t.root /\ t.parent[w] = p
          /\ w # t.child[Other(far)][p] /\ SideOf(t, w) = far
      BY ONLY <1>1, <1>2, <2>0, <3>1, w = t.child[Other(side)][p], ChildIs
    <3>3. x \in Alloc(t) /\ x # w /\ x # t.root /\ t.parent[x] = w
      BY ONLY <1>1, <2>1, <3>1, ChildIs
    <3> QED
      BY ONLY <1>1, <2>0, <3>1, <3>2, <3>3
  <2>8. PICK inner : inner = v.child[far][x]
    OBVIOUS
  <2>9. Up(v, far, w) = x /\ Inner(v, far, w) = inner /\ Up(t, far, w) = x
    BY ONLY <2>0, <2>1, <2>5, <2>8 DEF Up, Inner
  <2>10. /\ inner \in Alloc(t) \cup {Sentinel} /\ inner \in Cells /\ inner # w /\ inner # x
         /\ p # x /\ u.red = v.red /\ u.root = t.root
         /\ \A m \in Cells : u.parent[m] =
              IF m = inner /\ inner # Sentinel THEN w
              ELSE IF m = w THEN x
              ELSE IF m = x THEN p
              ELSE t.parent[m]
         /\ \A s \in Sides, m \in Cells : u.child[s][m] =
              IF m = x /\ s = far THEN w
              ELSE IF m = w /\ s = side THEN inner
              ELSE IF m = p /\ s = far THEN x
              ELSE t.child[s][m]
    <3>1. /\ w \in Nodes /\ x \in Alloc(v) /\ x \in Nodes /\ x # w /\ x # v.root
          /\ inner \in Alloc(v) \cup {Sentinel} /\ inner \in Cells
          /\ inner # x /\ inner # w
          /\ w # v.root =>
                /\ v.parent[w] \in Alloc(v) /\ v.parent[w] \in Nodes
                /\ v.parent[w] # w /\ v.parent[w] # x
                /\ SideOf(v, w) \in Sides /\ v.child[SideOf(v, w)][v.parent[w]] = w
          /\ u \in Trees /\ u.red = v.red
          /\ u.root = IF w = v.root THEN x ELSE v.root
          /\ \A m \in Cells : u.parent[m] =
                IF m = inner /\ inner # Sentinel THEN w
                ELSE IF m = w THEN x
                ELSE IF m = x THEN v.parent[w]
                ELSE v.parent[m]
          /\ \A s \in Sides, m \in Cells : u.child[s][m] =
                IF m = x /\ s = far THEN w
                ELSE IF m = w /\ s = Other(far) THEN inner
                ELSE IF w # v.root /\ m = v.parent[w] /\ s = SideOf(v, w) THEN x
                ELSE v.child[s][m]
      <4>1. /\ Linked(v) /\ Placed(v, pos, b) /\ far \in Sides /\ w \in Alloc(v)
            /\ Up(v, far, w) # Sentinel /\ x = Up(v, far, w) /\ inner = Inner(v, far, w)
        BY ONLY <1>1, <2>0, <2>6, <2>7, <2>9
      <4> QED
        BY ONLY <4>1, <2>3, AroundRotation
    <3> QED
      BY ONLY <2>0, <2>5, <2>6, <2>7, <3>1
  <2>11. /\ Linked(u) /\ Alloc(u) = Alloc(t)
         /\ Placed(u, pos, Bounds(b, pos, far, w, x))
    <3>1. /\ Linked(v) /\ Placed(v, pos, b) /\ far \in Sides /\ w \in Alloc(v)
          /\ Up(v, far, w) # Sentinel
      BY ONLY <1>1, <2>0, <2>6, <2>7, <2>9
    <3>2. PICK y : y = Alloc(u)
      OBVIOUS
    <3>3. PICK z : z = Alloc(v)
      OBVIOUS
    <3>4. Linked(u) /\ y = z
      BY ONLY <3>1, <2>3, <3>2, <3>3, RotateLinked
    <3>5. Placed(u, pos, Bounds(b, pos, far, w, Up(v, far, w)))
      BY ONLY <3>1, <2>3, RotatePlaced
    <3> QED
      BY ONLY <2>6, <2>9, <3>2, <3>3, <3>4, <3>5
  <2>12. PICK place : place = <<p, side>>
    OBVIOUS
  <2>13. PICK h2 : Weighed(u, h2, place)
    <3>1. /\ w \in v.red /\ (x \in v.red <=> w \in t.red)
          /\ \A m \in Nodes : m # w /\ m # x => (m \in v.red <=> m \in t.red)
      BY ONLY <2>5, <2>7, w \notin t.red
    <3>2. \A s \in Sides : place # <<x, s>> /\ place # <<w, Other(far)>>
      BY ONLY <2>7, <2>10, <2>12
    <3>3. Weighed(t, bh, place)
      BY <1>1, <2>12
    <3>4. x = Up(t, far, w) /\ x # Sentinel /\ far \in Sides
      BY <2>0, <2>7, <2>9
    <3>5. Weighed(u, [bh EXCEPT ![w] = bh[x], ![x] = bh[w]], place)
      BY ONLY <1>1, <2>3, <2>5, <3>1, <3>2, <3>3, <3>4, RotateWeighed
    <3> QED
      BY <3>5
  <2>14. /\ u.child[side][p] = nd /\ u.parent[nd] = p /\ u.child[far][p] = x
         /\ u.child[far][x] = w
    <3>1. u.child[side][p] = nd /\ u.child[far][p] = x /\ u.child[far][x] = w
      BY ONLY <1>1, <2>0, <2>4, <2>7, <2>10
    <3>2. nd # x
      BY ONLY <1>1, <2>3
    <3>3. inner # Sentinel => t.parent[inner] = x
      <4> SUFFICES ASSUME inner # Sentinel PROVE t.parent[inner] = x
        OBVIOUS
      <4>1. inner = t.child[far][x]
        BY ONLY <2>5, <2>8
      <4> QED
        BY ONLY <1>1, <2>0, <2>7, <4>1, inner # Sentinel, ChildIs
    <3>4. u.parent[nd] = p
      BY ONLY <1>1, <2>4, <2>7, <2>10, <3>2, <3>3
    <3> QED
      BY ONLY <3>1, <3>4
  <2>15. /\ nd \notin u.red /\ x \notin u.red /\ w \in u.red /\ x \in Alloc(u)
         /\ u.red \subseteq Alloc(u) /\ u.root \notin u.red
    BY ONLY <1>1, <2>3, <2>5, <2>7, <2>10, <2>11
  <2>16. ASSUME NEW m \in Alloc(u) \ {u.root}, m \in u.red, u.parent[m] \in u.red
         PROVE  FALSE
    <3>1. m \in Alloc(t) \ {t.root} /\ m \in Cells /\ m # x
      BY ONLY <2>4, <2>5, <2>10, <2>11, <2>16
    <3>2. m # w
      BY ONLY <2>4, <2>10, <2>15, <2>16
    <3>3. m \in t.red
      BY ONLY <2>5, <2>10, <2>16, <3>2
    <3>4. m # inner
      <4> SUFFICES ASSUME m = inner PROVE FALSE
        OBVIOUS
      <4>1. inner = t.child[far][x] /\ inner # Sentinel
        BY ONLY <2>4, <2>5, <2>8, <3>1, m = inner
      <4>2. t.parent[inner] = x
        BY ONLY <1>1, <2>0, <2>7, <4>1, ChildIs
      <4> QED
        BY ONLY <1>1, <2>3, <3>1, <3>3, <4>2, m = inner
    <3>5. u.parent[m] = t.parent[m]
      BY ONLY <2>10, <3>1, <3>2, <3>4
    <3>6. t.parent[m] = w
      BY ONLY <1>1, <2>5, <2>10, <2>16, <3>1, <3>3, <3>5
    <3>7. \E s \in Sides : t.child[s][w] = m
      BY <1>1, <3>1, <3>6 DEF Linked
    <3> QED
      BY ONLY <1>4, <2>0, <2>1, <3>1, <3>3, <3>7
  <2>17. Short(u, pos, Bounds(b, pos, far, w, x), h2, side, p, nd)
    <3>1. p \in Alloc(u) /\ nd \in Alloc(u) \cup {Sentinel} /\ Weighed(u, h2, <<p, side>>)
      BY <1>1, <2>11, <2>12, <2>13
    <3> QED
      BY ONLY <1>1, <1>2, <2>11, <2>14, <2>15, <2>16, <3>1 DEF Short
  <2> QED
    BY <1>2, <2>11, <2>14, <2>15, <2>17 DEF SameNodes
<1> QED
  BY ONLY <1>3, <1>4

(* The last rotation: the sibling takes the place and the colour of p, and *)
(* p and the far child of the sibling become black.                        *)
LEMMA LastTurnSound ==
    ASSUME NEW t, NEW pos, NEW b, NEW bh, NEW side, NEW p, NEW nd,
           Short(t, pos, b, bh, side, p, nd), NEW w, w = t.child[Other(side)][p],
           w \notin t.red, NEW z, z = t.child[Other(side)][w], z \in t.red,
           NEW size, size \in 0 .. Cardinality(Nodes), size = Cardinality(Alloc(t)) + 1,
           NEW r, r = Rotate(Paint(CopyColor(t, w, p), {}, {p, z}), side, p)
    PROVE  Sound(r, size, "delete", r.root) /\ SameNodes(t, r)
<1>1. /\ Linked(t) /\ Placed(t, pos, b) /\ Weighed(t, bh, <<p, side>>)
      /\ side \in Sides /\ p \in Alloc(t) /\ nd \in Alloc(t) \cup {Sentinel}
      /\ t.child[side][p] = nd /\ t.parent[nd] = p /\ nd \notin t.red
      /\ w \in Alloc(t)
      /\ t.red \subseteq Alloc(t) /\ t.root \notin t.red
      /\ \A m \in Alloc(t) \ {t.root} : m \in t.red => t.parent[m] \notin t.red
  BY DEF Short
<1>2. PICK far : far = Other(side)
  OBVIOUS
<1>3. /\ far \in Sides /\ far # side /\ Other(far) = side
      /\ \A s \in Sides : s = side \/ s = far
      /\ t.child[far][p] = w /\ t.child[far][w] = z
  BY <1>1, <1>2, SidesAre
<1>4. /\ Alloc(t) \subseteq Nodes /\ Nodes \subseteq Cells /\ Sentinel \notin Nodes
      /\ Sentinel \in Cells /\ t \in Trees /\ p \in Nodes /\ p \in Cells /\ nd \in Cells
      /\ w \in Cells /\ w \in Nodes /\ z \in Alloc(t) /\ z \in Cells /\ Null \notin Nodes
  <2>1. Alloc(t) \subseteq Nodes /\ Nodes \subseteq Cells /\ Sentinel \notin Nodes
        /\ Sentinel \in Cells /\ Null \notin Nodes
    BY AllocIs, Constants
  <2>2. t \in Trees
    BY <1>1 DEF Linked
  <2> QED
    BY <1>1, <2>1, <2>2
<1>5. PICK v : v = Paint(CopyColor(t, w, p), {}, {p, z})
  OBVIOUS
<1>6. PICK reds : reds = (IF p \in t.red THEN t.red \cup {w} ELSE t.red \ {w}) \ {p, z}
  OBVIOUS
<1>7. /\ SameShape(t, v) /\ v.red = reds
      /\ v.root = t.root /\ v.child = t.child /\ v.parent = t.parent
  <2>1. PICK x : x = CopyColor(t, w, p)
    OBVIOUS
  <2>2. /\ Paint(t, {w}, {}) \in Trees
        /\ Paint(t, {w}, {}).root = t.root
        /\ Paint(t, {w}, {}).child = t.child
        /\ Paint(t, {w}, {}).parent = t.parent
        /\ Paint(t, {w}, {}).red = (t.red \cup {w}) \ {}
    <3>1. t \in Trees /\ {w} \subseteq Nodes
      BY <1>4
    <3> QED
      BY ONLY <3>1, PaintIs
  <2>3. /\ Paint(t, {}, {w}) \in Trees
        /\ Paint(t, {}, {w}).root = t.root
        /\ Paint(t, {}, {w}).child = t.child
        /\ Paint(t, {}, {w}).parent = t.parent
        /\ Paint(t, {}, {w}).red = (t.red \cup {}) \ {w}
    <3>1. t \in Trees /\ {} \subseteq Nodes
      BY <1>4
    <3> QED
      BY ONLY <3>1, PaintIs
  <2>4. /\ x \in Trees /\ x.root = t.root /\ x.child = t.child /\ x.parent = t.parent
        /\ x.red = IF p \in t.red THEN t.red \cup {w} ELSE t.red \ {w}
    BY ONLY <2>1, <2>2, <2>3 DEF CopyColor
  <2>5. /\ Paint(x, {}, {p, z}) \in Trees
        /\ Paint(x, {}, {p, z}).root = x.root
        /\ Paint(x, {}, {p, z}).child = x.child
        /\ Paint(x, {}, {p, z}).parent = x.parent
        /\ Paint(x, {}, {p, z}).red = (x.red \cup {}) \ {p, z}
    <3>1. x \in Trees /\ {} \subseteq Nodes
      BY <2>4
    <3> QED
      BY ONLY <3>1, PaintIs
  <2>6. v = Paint(x, {}, {p, z})
    BY ONLY <1>5, <2>1
  <2>7. v \in Trees /\ v.root = t.root /\ v.child = t.child /\ v.parent = t.parent /\ v.red = reds
    BY ONLY <1>6, <2>4, <2>5, <2>6
  <2> QED
    BY ONLY <2>7 DEF SameShape
<1>8. /\ Linked(v) /\ Alloc(v) = Alloc(t) /\ Placed(v, pos, b)
      /\ SideOf(v, p) = SideOf(t, p)
  BY ONLY <1>1, <1>7, SameShapeKeeps
<1>9. /\ w # Sentinel /\ w # p /\ w # t.root /\ t.parent[w] = p /\ w # nd
      /\ SideOf(t, w) = far /\ Between(b, p, pos[w])
      /\ \A x \in Int : Between(b, w, x) => Between(b, p, x)
      /\ z # Sentinel /\ z # w /\ z # t.root /\ t.parent[z] = w /\ SideOf(t, z) = far
      /\ Between(b, w, pos[z])
  <2>1. w # Sentinel /\ z # Sentinel
    BY ONLY <1>1, <1>4
  <2>2. /\ w # p /\ w # t.root /\ t.parent[w] = p
        /\ w # t.child[Other(far)][p] /\ SideOf(t, w) = far /\ Between(b, p, pos[w])
        /\ \A x \in Int : Between(b, w, x) => Between(b, p, x)
    BY ONLY <1>1, <1>3, <2>1, ChildIs
  <2>3. /\ z # w /\ z # t.root /\ t.parent[z] = w /\ SideOf(t, z) = far
        /\ Between(b, w, pos[z])
    BY ONLY <1>1, <1>3, <2>1, ChildIs
  <2> QED
    BY ONLY <1>1, <1>3, <2>1, <2>2, <2>3
<1>10. z # p /\ z # nd /\ (p # t.root => t.parent[p] # z)
  <2>1. Between(b, p, pos[z])
    <3>1. pos[z] \in Int
      BY Zenon, <1>1, <1>4 DEF Placed
    <3> QED
      BY ONLY SMTT(30), <1>9, <3>1
  <2>2. z # p
    <3>1. ~Between(b, w, pos[p])
      BY ONLY <1>1, <1>3, <1>9, ChildIs
    <3> QED
      BY ONLY <1>9, <3>1
  <2>3. ASSUME p # t.root, t.parent[p] = z PROVE FALSE
    <3>1. SideOf(t, p) \in Sides /\ t.child[SideOf(t, p)][z] = p
      BY ONLY <1>1, <2>3, ParentIs
    <3>2. ~Between(b, p, pos[z])
      <4>1. p # Sentinel
        BY ONLY <1>4
      <4> QED
        BY ONLY <1>1, <1>4, <3>1, <4>1, ChildIs
    <3> QED
      BY ONLY <2>1, <3>2
  <2> QED
    BY ONLY <1>1, <2>2, <2>3, z \in t.red
<1>11. PICK inner : inner = t.child[side][w]
  OBVIOUS
<1>12. Up(v, side, p) = w /\ Inner(v, side, p) = inner
  BY ONLY <1>2, <1>3, <1>7, <1>11 DEF Up, Inner
<1>13. /\ inner \in Alloc(t) \cup {Sentinel} /\ inner \in Cells /\ inner # w /\ inner # p
       /\ p # t.root => /\ t.parent[p] \in Alloc(t) /\ t.parent[p] # p /\ t.parent[p] # w
                        /\ SideOf(t, p) \in Sides /\ t.child[SideOf(t, p)][t.parent[p]] = p
       /\ r.red = reds /\ r.root = IF p = t.root THEN w ELSE t.root
       /\ \A m \in Cells : r.parent[m] =
             IF m = inner /\ inner # Sentinel THEN p
             ELSE IF m = p THEN w
             ELSE IF m = w THEN t.parent[p]
             ELSE t.parent[m]
       /\ \A s \in Sides, m \in Cells : r.child[s][m] =
             IF m = w /\ s = side THEN p
             ELSE IF m = p /\ s = far THEN inner
             ELSE IF p # t.root /\ m = t.parent[p] /\ s = SideOf(t, p) THEN w
             ELSE t.child[s][m]
  <2>1. /\ p \in Nodes /\ w \in Alloc(v) /\ w \in Nodes /\ w # p /\ w # v.root
        /\ inner \in Alloc(v) \cup {Sentinel} /\ inner \in Cells
        /\ inner # w /\ inner # p
        /\ p # v.root =>
              /\ v.parent[p] \in Alloc(v) /\ v.parent[p] \in Nodes
              /\ v.parent[p] # p /\ v.parent[p] # w
              /\ SideOf(v, p) \in Sides /\ v.child[SideOf(v, p)][v.parent[p]] = p
        /\ r \in Trees /\ r.red = v.red
        /\ r.root = IF p = v.root THEN w ELSE v.root
        /\ \A m \in Cells : r.parent[m] =
              IF m = inner /\ inner # Sentinel THEN p
              ELSE IF m = p THEN w
              ELSE IF m = w THEN v.parent[p]
              ELSE v.parent[m]
        /\ \A s \in Sides, m \in Cells : r.child[s][m] =
              IF m = w /\ s = side THEN p
              ELSE IF m = p /\ s = Other(side) THEN inner
              ELSE IF p # v.root /\ m = v.parent[p] /\ s = SideOf(v, p) THEN w
              ELSE v.child[s][m]
    <3>1. /\ Linked(v) /\ Placed(v, pos, b) /\ side \in Sides /\ p \in Alloc(v)
          /\ Up(v, side, p) # Sentinel /\ w = Up(v, side, p) /\ inner = Inner(v, side, p)
      BY ONLY <1>1, <1>8, <1>9, <1>12
    <3>2. r = Rotate(v, side, p)
      BY ONLY <1>5, r = Rotate(Paint(CopyColor(t, w, p), {}, {p, z}), side, p)
    <3> QED
      BY ONLY <3>1, <3>2, AroundRotation
  <2> QED
    BY ONLY <1>2, <1>7, <1>8, <2>1
<1>14. /\ Linked(r) /\ Alloc(r) = Alloc(t)
       /\ Placed(r, pos, Bounds(b, pos, side, p, w))
  <2>1. /\ Linked(v) /\ Placed(v, pos, b) /\ side \in Sides /\ p \in Alloc(v)
        /\ Up(v, side, p) # Sentinel
    BY ONLY <1>1, <1>8, <1>9, <1>12
  <2>2. r = Rotate(v, side, p)
    BY ONLY <1>5, r = Rotate(Paint(CopyColor(t, w, p), {}, {p, z}), side, p)
  <2>3. PICK x : x = Alloc(r)
    OBVIOUS
  <2>4. PICK y : y = Alloc(v)
    OBVIOUS
  <2>5. Linked(r) /\ x = y
    BY ONLY <2>1, <2>2, <2>3, <2>4, RotateLinked
  <2>6. Placed(r, pos, Bounds(b, pos, side, p, Up(v, side, p)))
    BY ONLY <2>1, <2>2, RotatePlaced
  <2> QED
    BY ONLY <1>8, <1>12, <2>3, <2>4, <2>5, <2>6
(* The black nodes on the ways down before and after.                      *)
<1>15. PICK place : place = <<p, side>>
  OBVIOUS
<1>16. /\ bh \in [Cells -> Nat] /\ bh[Sentinel] = 0
       /\ \A m \in Alloc(t), s \in Sides :
             bh[m] = bh[t.child[s][m]] + (IF place = <<m, s>> THEN 1 ELSE 0)
                     + (IF m \in t.red THEN 0 ELSE 1)
  BY <1>1, <1>15 DEF Weighed
<1>17. /\ inner # z /\ (inner # Sentinel => t.parent[inner] = w)
  <2>1. inner # z
    BY ONLY <1>1, <1>3, <1>9, <1>11, ChildIs
  <2>2. inner # Sentinel => t.parent[inner] = w
    BY ONLY <1>1, <1>11, ChildIs
  <2> QED
    BY ONLY <2>1, <2>2
<1>18. /\ bh[p] = bh[nd] + 1 + (IF p \in t.red THEN 0 ELSE 1)
       /\ bh[p] = bh[w] + (IF p \in t.red THEN 0 ELSE 1)
       /\ bh[w] = bh[inner] + 1 /\ bh[w] = bh[z] + 1
       /\ bh[p] \in Nat /\ bh[nd] \in Nat /\ bh[w] \in Nat /\ bh[inner] \in Nat /\ bh[z] \in Nat
  <2>1. place # <<p, far>> /\ place # <<w, far>> /\ place # <<w, side>>
    BY ONLY <1>3, <1>9, <1>15
  <2>2. bh[p] \in Nat /\ bh[nd] \in Nat /\ bh[w] \in Nat /\ bh[inner] \in Nat /\ bh[z] \in Nat
    BY ONLY <1>4, <1>13, <1>16
  <2>3. bh[p] = bh[nd] + 1 + (IF p \in t.red THEN 0 ELSE 1)
    BY ONLY <1>1, <1>15, <1>16
  <2>4. bh[p] = bh[w] + 0 + (IF p \in t.red THEN 0 ELSE 1)
    BY ONLY <1>1, <1>3, <1>16, <2>1
  <2>5. bh[w] = bh[inner] + 0 + 1
    BY ONLY <1>1, <1>11, <1>16, <2>1, w \notin t.red
  <2>6. bh[w] = bh[z] + 0 + 1
    BY ONLY SMTT(30), <1>1, <1>3, <1>16, <2>1, w \notin t.red
  <2> QED
    BY ONLY <2>2, <2>3, <2>4, <2>5, <2>6
<1>19. PICK h2 : h2 = [bh EXCEPT ![p] = bh[w], ![z] = bh[z] + 1, ![w] = bh[p]]
  OBVIOUS
<1>20. /\ h2 \in [Cells -> Nat]
       /\ \A m \in Cells : h2[m] = IF m = p THEN bh[w] ELSE IF m = z THEN bh[z] + 1
                                   ELSE IF m = w THEN bh[p] ELSE bh[m]
  BY ONLY <1>4, <1>9, <1>10, <1>16, <1>18, <1>19
<1>21. /\ p \notin reds /\ z \notin reds /\ (w \in reds <=> p \in t.red)
       /\ \A m : m # p /\ m # z /\ m # w => (m \in reds <=> m \in t.red)
  BY ONLY <1>6, <1>9, <1>10
<1>22. \A m \in Alloc(t), s \in Sides : NoPlace # <<m, s>>
  BY ONLY <1>4 DEF NoPlace
<1>23. ASSUME NEW m \in Alloc(t), NEW s \in Sides
       PROVE  h2[m] = h2[r.child[s][m]] + (IF NoPlace = <<m, s>> THEN 1 ELSE 0)
                      + (IF m \in r.red THEN 0 ELSE 1)
  <2>1. m \in Cells /\ NoPlace # <<m, s>> /\ r.red = reds
    BY ONLY <1>4, <1>13, <1>22, m \in Alloc(t), s \in Sides
  <2>2. PICK c : c = t.child[s][m]
    OBVIOUS
  <2>3. /\ bh[m] = bh[c] + (IF place = <<m, s>> THEN 1 ELSE 0) + (IF m \in t.red THEN 0 ELSE 1)
        /\ bh[m] \in Nat /\ bh[c] \in Nat /\ c \in Cells
    <3>1. c \in Cells
      BY <1>1, <1>4, <2>2 DEF Linked
    <3> QED
      BY ONLY SMTT(30), <1>16, <2>1, <2>2, <3>1, m \in Alloc(t), s \in Sides
  <2>4. h2[m] = h2[r.child[s][m]] + (IF m \in reds THEN 0 ELSE 1) /\ h2[r.child[s][m]] \in Nat
    <3>1. CASE m = w /\ s = side
      <4>1. r.child[s][m] = p
        BY ONLY <1>13, <2>1, <3>1, s \in Sides
      <4> QED
        BY ONLY <1>4, <1>9, <1>10, <1>18, <1>20, <1>21, <3>1, <4>1
    <3>2. CASE m = p /\ s = far
      <4>1. r.child[s][m] = inner
        BY ONLY <1>9, <1>13, <2>1, <3>2, s \in Sides
      <4>2. h2[inner] = bh[inner]
        BY ONLY <1>13, <1>17, <1>20
      <4> QED
        BY ONLY <1>4, <1>18, <1>20, <1>21, <3>2, <4>1, <4>2
    <3>3. CASE p # t.root /\ m = t.parent[p] /\ s = SideOf(t, p)
      <4>1. m # p /\ m # w /\ m # z /\ c = p
        BY ONLY <1>10, <1>13, <2>2, <3>3
      <4>2. r.child[s][m] = w
        BY ONLY <1>13, <2>1, <3>3, <4>1, s \in Sides
      <4>3. place # <<m, s>>
        BY ONLY <1>15, <4>1
      <4>4. h2[m] = bh[m] /\ h2[w] = bh[p] /\ (m \in reds <=> m \in t.red)
        BY ONLY <1>4, <1>9, <1>10, <1>20, <1>21, <2>1, <4>1
      <4> QED
        BY ONLY <1>18, <2>3, <4>1, <4>2, <4>3, <4>4
    <3>4. CASE /\ ~(m = w /\ s = side) /\ ~(m = p /\ s = far)
               /\ ~(p # t.root /\ m = t.parent[p] /\ s = SideOf(t, p))
      <4>1. r.child[s][m] = c
        BY ONLY <1>13, <2>1, <2>2, <3>4, s \in Sides
      <4>2. c # Sentinel => c # t.root /\ t.parent[c] = m /\ SideOf(t, c) = s /\ c # m
        BY ONLY <1>1, <2>2, m \in Alloc(t), s \in Sides, ChildIs
      <4>3. c # p /\ c # w
        BY ONLY <1>4, <1>9, <3>4, <4>2
      <4>4. c = z => m = w /\ s = far
        BY ONLY <1>9, <4>2
      <4>5. CASE m = w
        <5>1. c = z
          BY ONLY <1>3, <2>2, <3>4, <4>5, s \in Sides
        <5> QED
          BY ONLY <1>4, <1>9, <1>10, <1>18, <1>20, <1>21, <4>1, <4>5, <5>1
      <4>6. CASE m = p
        <5>1. c = nd
          BY ONLY <1>1, <1>3, <2>2, <3>4, <4>6, s \in Sides
        <5>2. h2[nd] = bh[nd]
          BY ONLY <1>4, <1>9, <1>10, <1>20, <4>3, <5>1
        <5> QED
          BY ONLY <1>4, <1>18, <1>20, <1>21, <4>1, <4>6, <5>1, <5>2
      <4>7. CASE m = z
        <5>1. place # <<m, s>> /\ h2[c] = bh[c] /\ h2[m] = bh[m] + 1 /\ m \notin reds
          BY ONLY <1>9, <1>10, <1>15, <1>20, <1>21, <2>1, <2>3, <4>3, <4>4, <4>7
        <5> QED
          BY ONLY <2>3, <4>1, <4>7, <5>1, z \in t.red
      <4>8. CASE m # w /\ m # p /\ m # z
        <5>1. /\ place # <<m, s>> /\ h2[c] = bh[c] /\ h2[m] = bh[m]
              /\ m \in reds <=> m \in t.red
          BY ONLY <1>15, <1>20, <1>21, <2>1, <2>3, <4>3, <4>4, <4>8
        <5> QED
          BY ONLY <2>3, <4>1, <5>1
      <4> QED
        BY ONLY <4>5, <4>6, <4>7, <4>8
    <3> QED
      BY ONLY <3>1, <3>2, <3>3, <3>4
  <2> QED
    BY ONLY <2>1, <2>4
<1>24. h2[Sentinel] = 0
  BY ONLY <1>1, <1>4, <1>16, <1>20
<1>25. Weighed(r, h2, NoPlace)
  BY ONLY <1>14, <1>20, <1>23, <1>24 DEF Weighed
<1>26. Colored(r, "delete", r.root)
  <2>1. r.red \subseteq Alloc(r)
    BY ONLY <1>1, <1>6, <1>13, <1>14
  <2>2. r.root \notin r.red
    <3>1. CASE p = t.root
      BY ONLY <1>1, <1>13, <1>21, <3>1
    <3>2. CASE p # t.root
      BY ONLY <1>1, <1>9, <1>13, <1>21, <3>2
    <3> QED
      BY ONLY <3>1, <3>2
  <2>3. ASSUME NEW m \in Alloc(r) \ {r.root}, m \in r.red, r.parent[m] \in r.red
        PROVE  FALSE
    <3>1. m \in Alloc(t) /\ m \in Cells /\ m # p /\ m # z /\ r.red = reds
      BY ONLY <1>4, <1>13, <1>14, <1>21, <2>3
    <3>2. m # inner
      BY ONLY <1>13, <1>4, <1>21, <2>3, <3>1
    <3>3. CASE m = w
      <4>1. p \in t.red /\ r.parent[m] = t.parent[p] /\ p # t.root
        BY ONLY <1>13, <1>21, <2>3, <3>1, <3>2, <3>3, <1>9
      <4>2. t.parent[p] # p /\ t.parent[p] # w /\ t.parent[p] # z /\ t.parent[p] \notin t.red
        BY ONLY <1>1, <1>10, <1>13, <4>1
      <4> QED
        BY ONLY <1>21, <2>3, <3>1, <4>1, <4>2
    <3>4. CASE m # w
      <4>1. m \in t.red /\ r.parent[m] = t.parent[m]
        BY ONLY <1>13, <1>21, <2>3, <3>1, <3>2, <3>4
      <4>2. t.parent[m] \notin t.red
        BY ONLY <1>1, <3>1, <4>1
      <4>3. t.parent[m] = w
        BY ONLY <1>21, <2>3, <3>1, <4>1, <4>2
      <4>4. m # t.root
        BY ONLY <1>1, <4>1
      <4>5. \E s \in Sides : t.child[s][w] = m
        BY ONLY <1>1, <3>1, <4>3, <4>4 DEF Linked
      <4> QED
        BY ONLY <1>3, <1>11, <3>1, <3>2, <4>5
    <3> QED
      BY ONLY <3>3, <3>4
  <2> QED
    BY ONLY <2>1, <2>2, <2>3 DEF Colored
<1>27. Counted(r, size, "delete", r.root)
  <2>1. r.root \in Alloc(r) /\ r.root # Sentinel
    <3>1. t.root \in Alloc(t)
      BY <1>1 DEF Linked
    <3> QED
      BY ONLY SMTT(30), <1>1, <1>4, <1>13, <1>14, <3>1
  <2> QED
    BY ONLY <1>14, <2>1, size = Cardinality(Alloc(t)) + 1,
            size \in 0 .. Cardinality(Nodes) DEF Counted
<1>28. PlaceOf(r, "delete", r.root) = NoPlace
  BY DEF PlaceOf
<1> QED
  BY ONLY <1>14, <1>25, <1>26, <1>27, <1>28 DEF Sound, SameNodes

(* The tree after the rotations that end the repair.                       *)
DeleteTurned(t, nd) ==
    LET side == SideOf(t, nd)
        p    == t.parent[nd]
        far  == Other(side)
        u    == SiblingTurned(t, side, p)
        v    == FarTurned(u, side, p)
        w    == v.child[far][p]
    IN  Rotate(Paint(CopyColor(v, w, p), {}, {p, v.child[far][w]}), side, p)

(* The three turns of the loop.                                            *)
LEMMA DeleteRecolourKeeps ==
    ASSUME TreeInv, DeleteRecolour
    PROVE  /\ TreeInv' /\ SameNodes(tree, tree')
           /\ node' = tree.parent[node] /\ node # tree.root
           /\ (tree'.parent = tree.parent /\ tree'.root = tree.root) \/ node' \in tree'.red
<1>1. /\ Sound(tree, treeSize, "delete", node) /\ at = "delete"
      /\ node # tree.root /\ node \notin tree.red /\ reply \in Keys \cup {NoKey}
  BY DEF TreeInv, DeleteRecolour, BlackShort
<1>2. PICK p : p = tree.parent[node]
  OBVIOUS
<1>3. PICK side : side = SideOf(tree, node)
  OBVIOUS
<1>4. PICK u : u = SiblingTurned(tree, side, p)
  OBVIOUS
<1>5. PICK w : w = u.child[Other(side)][p]
  BY SMTT(30)
<1>6. /\ \A s \in Sides : u.child[s][w] \notin u.red
      /\ tree' = Paint(u, {w}, {}) /\ node' = p
      /\ treeSize' = treeSize /\ at' = "delete" /\ reply' = reply
  <2>1. BlackSibling(side) = u
    BY ONLY <1>2, <1>4 DEF BlackSibling, SiblingTurned, NodesParent
  <2> QED
    BY ONLY Zenon, <1>1, <1>2, <1>3, <1>5, <2>1, DeleteRecolour DEF DeleteRecolour, NodesParent, Lacking
<1>7. PICK pos, b, bh : Short(tree, pos, b, bh, side, p, node)
  BY ONLY <1>1, <1>2, <1>3, ShortIs
<1>8. /\ \E b2, h2 : Short(u, pos, b2, h2, side, p, node)
      /\ u.child[Other(side)][p] \notin u.red /\ SameNodes(tree, u)
      /\ u = tree \/ p \in u.red
  BY ONLY <1>4, <1>7, SiblingTurnedIs
<1>9. PICK b2, h2 : Short(u, pos, b2, h2, side, p, node)
  BY ONLY <1>8
<1>10. treeSize = Cardinality(Alloc(u)) + 1 /\ treeSize \in 0 .. Cardinality(Nodes)
  BY ONLY <1>1, <1>8 DEF Sound, Counted, SameNodes
<1>11. PICK r : r = Paint(u, {w}, {})
  OBVIOUS
<1>12. Sound(r, treeSize, "delete", p) /\ SameNodes(u, r)
  <2>1. w \notin u.red
    BY ONLY <1>5, <1>8
  <2> QED
    BY ONLY <1>5, <1>6, <1>9, <1>10, <1>11, <2>1, DeleteRecolourSound
<1>13. r.parent = u.parent /\ r.root = u.root /\ r.red = u.red \cup {w}
  <2>1. u \in Trees /\ {w} \subseteq Nodes
    <3>1. w \in Alloc(u) /\ Linked(u)
      BY ONLY <1>5, <1>9 DEF Short
    <3> QED
      BY <3>1, AllocIs DEF Linked
  <2>2. /\ Paint(u, {w}, {}) \in Trees
        /\ Paint(u, {w}, {}).root = u.root
        /\ Paint(u, {w}, {}).child = u.child
        /\ Paint(u, {w}, {}).parent = u.parent
        /\ Paint(u, {w}, {}).red = (u.red \cup {w}) \ {}
    BY ONLY <2>1, PaintIs
  <2> QED
    BY ONLY <1>11, <2>2
<1>14. TreeInv' /\ SameNodes(tree, tree')
  BY ONLY <1>1, <1>6, <1>8, <1>11, <1>12 DEF TreeInv, SameNodes
<1>15. (tree'.parent = tree.parent /\ tree'.root = tree.root) \/ node' \in tree'.red
  BY ONLY <1>6, <1>8, <1>11, <1>13
<1> QED
  BY ONLY <1>1, <1>2, <1>6, <1>14, <1>15

(* The turn that ends the repair: the loop looks at the root afterwards.   *)
LEMMA DeleteRotateKeeps ==
    ASSUME TreeInv, DeleteRotate
    PROVE  TreeInv' /\ SameNodes(tree, tree') /\ node' = tree'.root
<1>1. /\ Sound(tree, treeSize, "delete", node) /\ at = "delete"
      /\ node # tree.root /\ node \notin tree.red /\ reply \in Keys \cup {NoKey}
  BY Zenon DEF TreeInv, DeleteRotate, BlackShort
<1>2. PICK p : p = tree.parent[node]
  OBVIOUS
<1>3. PICK side : side = SideOf(tree, node)
  OBVIOUS
<1>4. PICK u : u = SiblingTurned(tree, side, p)
  OBVIOUS
<1>5. PICK x : x = u.child[Other(side)][p]
  OBVIOUS
<1>6. PICK v : v = FarTurned(u, side, p)
  OBVIOUS
<1>7. PICK w : w = v.child[Other(side)][p]
  OBVIOUS
<1>8. PICK z : z = v.child[Other(side)][w]
  OBVIOUS
<1>9. /\ \E s \in Sides : u.child[s][x] \in u.red
      /\ tree' = DeleteTurned(tree, node) /\ node' = tree'.root
      /\ treeSize' = treeSize /\ at' = "delete" /\ reply' = reply
  <2>1. BlackSibling(side) = u
    BY ONLY <1>2, <1>4 DEF BlackSibling, SiblingTurned, NodesParent
  <2>2. \E s \in Sides : u.child[s][x] \in u.red
    BY ONLY ZenonT(40), <1>2, <1>3, <1>5, <2>1, DeleteRotate DEF DeleteRotate, NodesParent
  <2>3. tree' = DeleteTurned(tree, node)
    BY ONLY Zenon, DeleteRotate DEF DeleteRotate, NodesParent, DeleteTurned, BlackSibling,
       SiblingTurned, FarTurned
  <2> QED
    BY ONLY ZenonT(40), <1>1, <2>2, <2>3, DeleteRotate DEF DeleteRotate
<1>10. PICK pos, b, bh : Short(tree, pos, b, bh, side, p, node)
  BY ONLY <1>1, <1>2, <1>3, ShortIs
<1>11. /\ \E b2, h2 : Short(u, pos, b2, h2, side, p, node)
       /\ u.child[Other(side)][p] \notin u.red /\ SameNodes(tree, u)
       /\ u = tree \/ p \in u.red
  BY ONLY <1>4, <1>10, SiblingTurnedIs
<1>12. PICK b2, h2 : Short(u, pos, b2, h2, side, p, node)
  BY ONLY <1>11
<1>13. /\ \E b3, h3 : Short(v, pos, b3, h3, side, p, node)
       /\ v.child[Other(side)][p] \notin v.red
       /\ v.child[Other(side)][v.child[Other(side)][p]] \in v.red
       /\ SameNodes(u, v)
  <2>1. x \notin u.red
    BY ONLY <1>5, <1>11
  <2> QED
    BY ONLY <1>5, <1>6, <1>9, <1>12, <2>1, FarTurnedIs
<1>14. PICK b3, h3 : Short(v, pos, b3, h3, side, p, node)
  BY ONLY <1>13
<1>15. treeSize = Cardinality(Alloc(v)) + 1 /\ treeSize \in 0 .. Cardinality(Nodes)
  BY ONLY <1>1, <1>11, <1>13 DEF Sound, Counted, SameNodes
<1>16. PICK r : r = Rotate(Paint(CopyColor(v, w, p), {}, {p, z}), side, p)
  OBVIOUS
<1>17. Sound(r, treeSize, "delete", r.root) /\ SameNodes(v, r)
  <2>1. w \notin v.red /\ z \in v.red
    BY ONLY <1>7, <1>8, <1>13
  <2> QED
    BY ONLY <1>7, <1>8, <1>14, <1>15, <1>16, <2>1, LastTurnSound
<1>18. tree' = r
  BY ONLY Zenon, <1>2, <1>3, <1>4, <1>6, <1>7, <1>8, <1>9, <1>16 DEF DeleteTurned
<1> QED
  BY ONLY <1>1, <1>9, <1>11, <1>13, <1>17, <1>18 DEF TreeInv, SameNodes

(* The end of a deletion counts the node and forgets the parent of the     *)
(* sentinel.                                                               *)
LEMMA DeleteEndKeeps ==
    ASSUME TreeInv, DeleteEnd
    PROVE  TreeInv' /\ SameNodes(tree, tree')
<1>1. /\ Sound(tree, treeSize, "delete", node)
      /\ node = tree.root \/ node \in tree.red
      /\ reply \in Keys \cup {NoKey}
      /\ tree' = Forgotten(Paint(tree, {}, {node}))
      /\ treeSize' = treeSize - 1 /\ at' = "idle" /\ node' = Null /\ reply' = reply
  BY DEF TreeInv, DeleteEnd, BlackShort, Fewer
<1>2. PICK r : r = Forgotten(Paint(tree, {}, {node}))
  OBVIOUS
<1>3. PICK less : less = treeSize - 1
  OBVIOUS
<1>4. Sound(r, less, "idle", Null) /\ SameNodes(tree, r)
  BY ONLY <1>1, <1>2, <1>3, DeleteEndSound
<1> QED
  BY ONLY <1>1, <1>2, <1>3, <1>4 DEF TreeInv

-----------------------------------------------------------------------------
(* What the functions that look for a node find.  A set that the way to    *)
(* the left does not leave: the nodes that hold all smaller places.        *)
LEMMA LeftmostIsLeast ==
    ASSUME NEW t, NEW pos, NEW b, Linked(t), Placed(t, pos, b), t.root # Sentinel,
           NEW l, l = Leftmost(t, t.root)
    PROVE  l \in Alloc(t) /\ \A x \in Alloc(t) : Key(l) <= Key(x)
<1>1. /\ pos \in [Nodes -> Int] /\ b \in [Sides -> [Nodes -> Int]]
      /\ \A x, y \in Alloc(t) : pos[x] = pos[y] => x = y
      /\ \A x, y \in Alloc(t) : pos[x] < pos[y] => Key(x) <= Key(y)
      /\ \A m, x \in Alloc(t), s \in Sides :
            Between(b, m, pos[x]) /\ Toward(s, pos[x], pos[m]) =>
                t.child[s][m] # Sentinel /\ Between(b, t.child[s][m], pos[x])
      /\ \A x \in Alloc(t) : Between(b, t.root, pos[x])
  BY DEF Placed
<1>2. /\ Alloc(t) \subseteq Nodes /\ t.root \in Alloc(t) /\ "left" \in Sides
      /\ \A m \in Alloc(t) : Key(m) \in Nat /\ pos[m] \in Int
  <2>1. Alloc(t) \subseteq Nodes /\ t.root \in Alloc(t)
    BY AllocIs DEF Linked
  <2> QED
    BY <1>1, <2>1, KeyIs DEF Sides
<1> DEFINE S == {m \in Alloc(t) : \A x \in Alloc(t) : pos[x] < pos[m] => Between(b, m, pos[x])}
<1>3. S \subseteq Alloc(t) /\ t.root \in S
  BY <1>1, <1>2
<1>4. ASSUME NEW m \in S, t.child["left"][m] # Sentinel
      PROVE  t.child["left"][m] \in S
  <2>1. PICK c : c = t.child["left"][m]
    OBVIOUS
  <2>2. m \in Alloc(t) /\ c # Sentinel
    BY <1>4, <2>1
  <2>3. c \in Alloc(t) /\ Toward("left", pos[c], pos[m])
    BY ONLY Linked(t), Placed(t, pos, b), <1>2, <2>1, <2>2, ChildIs
  <2>4. ASSUME NEW x \in Alloc(t), pos[x] < pos[c] PROVE Between(b, c, pos[x])
    <3>1. pos[x] < pos[m]
      <4>1. pos[x] \in Int /\ pos[c] \in Int /\ pos[m] \in Int
        BY ONLY <1>2, <2>2, <2>3, x \in Alloc(t)
      <4> QED
        BY ONLY <2>3, <2>4, <4>1 DEF Toward
    <3>2. Between(b, m, pos[x])
      BY <3>1
    <3>3. Toward("left", pos[x], pos[m])
      BY ONLY <3>1 DEF Toward
    <3> QED
      BY ONLY <1>1, <1>2, <2>1, <2>2, <3>2, <3>3, x \in Alloc(t)
  <2> QED
    BY ONLY <2>1, <2>3, <2>4
<1>5. l \in S /\ t.child["left"][l] = Sentinel
  <2> HIDE DEF S
  <2>1. /\ Leftmost(t, t.root) \in S
        /\ t.child["left"][Leftmost(t, t.root)] = Sentinel
    BY ONLY Linked(t), Placed(t, pos, b), <1>3, <1>4, LeftmostIs
  <2> QED
    BY ONLY <2>1, l = Leftmost(t, t.root)
<1>6. ASSUME NEW x \in Alloc(t) PROVE Key(l) <= Key(x)
  <2>1. l \in Alloc(t) /\ (pos[x] < pos[l] => Between(b, l, pos[x]))
    BY <1>5
  <2>2. ~(pos[x] < pos[l])
    <3> SUFFICES ASSUME pos[x] < pos[l] PROVE FALSE
      OBVIOUS
    <3>1. Toward("left", pos[x], pos[l]) /\ Between(b, l, pos[x])
      BY ONLY <2>1, pos[x] < pos[l] DEF Toward
    <3> QED
      BY ONLY <1>1, <1>2, <1>5, <2>1, <3>1, x \in Alloc(t)
  <2>3. CASE x = l
    BY ONLY <1>2, <2>1, <2>3
  <2>4. CASE x # l
    <3>1. pos[l] \in Int /\ pos[x] \in Int /\ pos[x] # pos[l]
      BY ONLY <1>1, <1>2, <2>1, <2>4, x \in Alloc(t)
    <3>2. pos[l] < pos[x]
      BY ONLY <2>2, <3>1
    <3> QED
      BY ONLY <1>1, <2>1, <3>2, x \in Alloc(t)
  <2> QED
    BY ONLY <2>3, <2>4
<1> QED
  BY ONLY <1>3, <1>5, <1>6

(* The mirror image of LeftmostIsLeast.                                    *)
LEMMA RightmostIsGreatest ==
    ASSUME NEW t, NEW pos, NEW b, Linked(t), Placed(t, pos, b), t.root # Sentinel,
           NEW l, l = Rightmost(t, t.root)
    PROVE  l \in Alloc(t) /\ \A x \in Alloc(t) : Key(x) <= Key(l)
<1>1. /\ pos \in [Nodes -> Int] /\ b \in [Sides -> [Nodes -> Int]]
      /\ \A x, y \in Alloc(t) : pos[x] = pos[y] => x = y
      /\ \A x, y \in Alloc(t) : pos[x] < pos[y] => Key(x) <= Key(y)
      /\ \A m, x \in Alloc(t), s \in Sides :
            Between(b, m, pos[x]) /\ Toward(s, pos[x], pos[m]) =>
                t.child[s][m] # Sentinel /\ Between(b, t.child[s][m], pos[x])
      /\ \A x \in Alloc(t) : Between(b, t.root, pos[x])
  BY DEF Placed
<1>2. /\ Alloc(t) \subseteq Nodes /\ t.root \in Alloc(t) /\ "right" \in Sides
      /\ \A m \in Alloc(t) : Key(m) \in Nat /\ pos[m] \in Int
  <2>1. Alloc(t) \subseteq Nodes /\ t.root \in Alloc(t)
    BY AllocIs DEF Linked
  <2> QED
    BY <1>1, <2>1, KeyIs DEF Sides
<1> DEFINE S == {m \in Alloc(t) : \A x \in Alloc(t) : pos[m] < pos[x] => Between(b, m, pos[x])}
<1>3. S \subseteq Alloc(t) /\ t.root \in S
  BY <1>1, <1>2
<1>4. ASSUME NEW m \in S, t.child["right"][m] # Sentinel
      PROVE  t.child["right"][m] \in S
  <2>1. PICK c : c = t.child["right"][m]
    OBVIOUS
  <2>2. m \in Alloc(t) /\ c # Sentinel
    BY <1>4, <2>1
  <2>3. c \in Alloc(t) /\ Toward("right", pos[c], pos[m])
    BY ONLY Linked(t), Placed(t, pos, b), <1>2, <2>1, <2>2, ChildIs
  <2>4. ASSUME NEW x \in Alloc(t), pos[c] < pos[x] PROVE Between(b, c, pos[x])
    <3>1. pos[m] < pos[x]
      <4>1. pos[x] \in Int /\ pos[c] \in Int /\ pos[m] \in Int
        BY ONLY <1>2, <2>2, <2>3, x \in Alloc(t)
      <4> QED
        BY ONLY <2>3, <2>4, <4>1 DEF Toward
    <3>2. Between(b, m, pos[x])
      BY <3>1
    <3>3. Toward("right", pos[x], pos[m])
      BY ONLY <3>1 DEF Toward
    <3> QED
      BY ONLY <1>1, <1>2, <2>1, <2>2, <3>2, <3>3, x \in Alloc(t)
  <2> QED
    BY ONLY <2>1, <2>3, <2>4
<1>5. l \in S /\ t.child["right"][l] = Sentinel
  <2> HIDE DEF S
  <2>1. /\ Rightmost(t, t.root) \in S
        /\ t.child["right"][Rightmost(t, t.root)] = Sentinel
    BY ONLY Linked(t), Placed(t, pos, b), <1>3, <1>4, RightmostIs
  <2> QED
    BY ONLY <2>1, l = Rightmost(t, t.root)
<1>6. ASSUME NEW x \in Alloc(t) PROVE Key(x) <= Key(l)
  <2>1. l \in Alloc(t) /\ (pos[l] < pos[x] => Between(b, l, pos[x]))
    BY <1>5
  <2>2. ~(pos[l] < pos[x])
    <3> SUFFICES ASSUME pos[l] < pos[x] PROVE FALSE
      OBVIOUS
    <3>1. Toward("right", pos[x], pos[l]) /\ Between(b, l, pos[x])
      BY ONLY <2>1, pos[l] < pos[x] DEF Toward
    <3> QED
      BY ONLY <1>1, <1>2, <1>5, <2>1, <3>1, x \in Alloc(t)
  <2>3. CASE x = l
    BY ONLY <1>2, <2>1, <2>3
  <2>4. CASE x # l
    <3>1. pos[l] \in Int /\ pos[x] \in Int /\ pos[x] # pos[l]
      BY ONLY <1>1, <1>2, <2>1, <2>4, x \in Alloc(t)
    <3>2. pos[x] < pos[l]
      BY ONLY <2>2, <3>1
    <3> QED
      BY ONLY <1>1, <2>1, <3>2, x \in Alloc(t)
  <2> QED
    BY ONLY <2>3, <2>4
<1> QED
  BY ONLY <1>3, <1>5, <1>6

(* The way down of find keeps every node with the key below it, and gets   *)
(* to one, or to the child of the sentinel, before its turns are over.     *)
LEMMA FindIs ==
    ASSUME NEW t, NEW pos, NEW b, Linked(t), Placed(t, pos, b), NEW k \in Keys,
           NEW r, r = Find(t, k)
    PROVE  \/ r = Null /\ \A x \in Alloc(t) : Key(x) # k
           \/ r \in Alloc(t) /\ Key(r) = k
<1>1. /\ pos \in [Nodes -> Int] /\ b \in [Sides -> [Nodes -> Int]]
      /\ \A x, y \in Alloc(t) : pos[x] = pos[y] => x = y
      /\ \A x, y \in Alloc(t) : pos[x] < pos[y] => Key(x) <= Key(y)
      /\ \A m, x \in Alloc(t), s \in Sides :
            Between(b, m, pos[x]) /\ Toward(s, pos[x], pos[m]) =>
                t.child[s][m] # Sentinel /\ Between(b, t.child[s][m], pos[x])
      /\ \A x \in Alloc(t) : Between(b, t.root, pos[x])
  BY DEF Placed
<1>2. /\ Alloc(t) \subseteq Nodes /\ t.root \in Alloc(t) \cup {Sentinel}
      /\ t.root = Sentinel => Alloc(t) = {}
      /\ \A s \in Sides : t.child[s][Sentinel] = Null
      /\ \A m \in Alloc(t), s \in Sides : t.child[s][m] \in Alloc(t) \cup {Sentinel}
      /\ Sentinel # Null /\ Sentinel \notin Alloc(t) /\ Null \notin Alloc(t)
  BY AllocIs, Constants DEF Linked
<1>3. /\ \A m \in Alloc(t) : Key(m) \in Nat /\ pos[m] \in Int
      /\ Key(Sentinel) # k /\ Key(Sentinel) = 0 /\ k \in Nat /\ k > 0
  BY <1>1, <1>2, KeyIs, RbTreeAssumption DEF Key, NoKey
<1>4. PICK N \in Nat : N = Cardinality(Nodes)
  BY NodesAreFinite
<1> DEFINE Way(m) == IF Key(m) > k THEN "left" ELSE "right"
           Then(m) == IF m = Null \/ Key(m) = k THEN m ELSE t.child[Way(m)][m]
<1>5. PICK M : M = Alloc(t) \cup {Sentinel, Null}
  OBVIOUS
<1>6. \A m : Way(m) \in Sides
  BY DEF Sides
<1>7. /\ \A m \in Alloc(t) : Key(m) # k => Then(m) \in Alloc(t) \cup {Sentinel}
      /\ \A m : Key(m) = k => Then(m) = m
      /\ Then(Null) = Null /\ Then(Sentinel) = Null
  <2> HIDE DEF Way
  <2> QED
    BY <1>2, <1>3, <1>6
<1>8. PICK g : g = [m \in M |-> Then(m)]
  OBVIOUS
<1>9. g \in [M -> M]
  <2> HIDE DEF Then
  <2>1. \A m \in M : Then(m) \in M
    BY ONLY <1>5, <1>7
  <2> QED
    BY ONLY <1>8, <2>1
<1>10. PICK last \in Nat : last = N + 1
  OBVIOUS
<1>11. PICK f : f \in [0 .. last -> M] /\ f[0] = t.root /\ \A i \in 1 .. last : f[i] = g[f[i - 1]]
  <2>1. t.root \in M
    BY <1>2, <1>5
  <2>2. CanWalk(M, g, t.root, last)
    BY ONLY <1>9, <2>1, last \in Nat, WalkExists
  <2> QED
    BY ONLY <2>2 DEF CanWalk
<1>12. f = [i \in 0 .. Cardinality(Nodes) + 1 |->
              IF i = 0 THEN t.root
              ELSE LET n == f[i - 1]
                   IN  IF n = Null \/ Key(n) = k THEN n
                       ELSE t.child[IF Key(n) > k THEN "left" ELSE "right"][n]]
  <2>1. ASSUME NEW i \in 0 .. last, i # 0 PROVE f[i] = Then(f[i - 1])
    <3>1. i \in 1 .. last /\ i - 1 \in 0 .. last
      BY ONLY <2>1, last \in Nat
    <3>2. f[i - 1] \in M
      BY ONLY <1>11, <3>1
    <3> HIDE DEF Then
    <3> QED
      BY ONLY <1>8, <1>11, <3>1, <3>2
  <2> QED
    BY ONLY <1>4, <1>10, <1>11, <2>1
<1>13. PICK h : /\ h = [i \in 0 .. Cardinality(Nodes) + 1 |->
                          IF i = 0 THEN t.root
                          ELSE LET n == h[i - 1]
                               IN  IF n = Null \/ Key(n) = k THEN n
                                   ELSE t.child[IF Key(n) > k THEN "left" ELSE "right"][n]]
                /\ Find(t, k) = h[Cardinality(Nodes) + 1]
  BY ONLY <1>12, ZenonT(40) DEF Find
<1>14. /\ h[0] = t.root
       /\ \A i \in 1 .. last : h[i] = Then(h[i - 1])
       /\ r = h[last]
  <2>1. h[0] = t.root
    <3>1. 0 \in 0 .. Cardinality(Nodes) + 1
      BY ONLY <1>4
    <3> QED
      BY ONLY <1>13, <3>1
  <2>2. ASSUME NEW i \in 1 .. last PROVE h[i] = Then(h[i - 1])
    <3>1. i \in 0 .. Cardinality(Nodes) + 1 /\ i # 0
      BY ONLY <1>4, <1>10, i \in 1 .. last
    <3> QED
      BY ONLY Zenon, <1>13, <3>1
  <2> QED
    BY ONLY Zenon, <1>4, <1>10, <1>13, <2>1, <2>2, r = Find(t, k)
(* The invariant of the walk.                                              *)
<1> DEFINE Has(m) == \A x \in Alloc(t) : Key(x) = k => Between(b, m, pos[x])
           Room(m) == Cardinality(Inside(t, pos, b, m))
           Good(i, m) == /\ m \in M
                         /\ m \in Alloc(t) => Has(m) /\ (Key(m) # k => Room(m) + i <= N)
                         /\ m \in {Sentinel, Null} => \A x \in Alloc(t) : Key(x) # k
                         /\ m = Sentinel => i <= N
<1>15. Good(0, h[0])
  <2>1. t.root \in Alloc(t) => Room(t.root) \in 1 .. N
    BY ONLY Linked(t), Placed(t, pos, b), <1>4, InsideIs
  <2> HIDE DEF Room
  <2> QED
    BY ONLY <1>1, <1>2, <1>4, <1>5, <1>14, <2>1
<1>16. ASSUME NEW i \in Nat, i + 1 \in 1 .. last, Good(i, h[i])
       PROVE  Good(i + 1, h[i + 1])
  <2>1. PICK m : m = h[i]
    OBVIOUS
  <2>2. PICK c : c = Then(m)
    OBVIOUS
  <2>3. h[i + 1] = c
    <3>1. (i + 1) - 1 = i
      OBVIOUS
    <3> HIDE DEF Then
    <3> QED
      BY ONLY <1>14, <1>16, <2>1, <2>2, <3>1
  <2>4. Good(i, m)
    BY <1>16, <2>1
  <2>5. CASE m \in {Sentinel, Null}
    <3>1. c = Null
      BY ONLY <1>7, <2>2, <2>5
    <3> HIDE DEF Then, Has, Room
    <3> QED
      BY ONLY <1>2, <1>5, <2>3, <2>4, <2>5, <3>1
  <2>6. CASE m \in Alloc(t) /\ Key(m) = k
    <3>1. c = m
      BY ONLY <1>7, <2>2, <2>6
    <3> HIDE DEF Then, Has, Room
    <3> QED
      BY ONLY <1>2, <1>5, <2>3, <2>4, <2>6, <3>1
  <2>7. CASE m \in Alloc(t) /\ Key(m) # k
    <3>1. PICK s \in Sides : s = Way(m)
      BY <1>6
    <3>2. c = t.child[s][m] /\ c \in Alloc(t) \cup {Sentinel} /\ m # Null
      BY ONLY <1>2, <1>7, <2>2, <2>7, <3>1
    <3>3. Has(m) /\ Room(m) + i <= N
      BY ONLY <2>4, <2>7
    <3>4. ASSUME NEW x \in Alloc(t), Key(x) = k
          PROVE  c # Sentinel /\ Between(b, c, pos[x])
      <4>1. /\ Key(m) \in Nat /\ pos[m] \in Int /\ pos[x] \in Int
            /\ pos[m] < pos[x] => Key(m) <= Key(x)
            /\ pos[x] < pos[m] => Key(x) <= Key(m)
            /\ pos[x] # pos[m]
        BY ONLY <1>1, <1>3, <2>7, <3>4
      <4>2. Toward(s, pos[x], pos[m])
        BY ONLY <1>3, <2>7, <3>1, <3>4, <4>1 DEF Toward
      <4>3. Between(b, m, pos[x])
        BY ONLY <3>3, <3>4
      <4> QED
        BY ONLY <1>1, <2>7, <3>2, <4>2, <4>3, x \in Alloc(t), s \in Sides
    <3>5. Room(m) \in 1 .. N
      BY ONLY Linked(t), Placed(t, pos, b), <1>4, <2>7, InsideIs
    <3>6. CASE c = Sentinel
      <4>1. \A x \in Alloc(t) : Key(x) # k
        BY ONLY <3>4, <3>6
      <4>2. i + 1 <= N
        <5> HIDE DEF Room
        <5> QED
          BY ONLY <3>3, <3>5, i \in Nat, N \in Nat
      <4> QED
        BY ONLY <1>2, <1>5, <2>3, <3>6, <4>1, <4>2
    <3>7. CASE c \in Alloc(t)
      <4>1. c # Sentinel
        BY ONLY <1>2, <3>7
      <4>2. Room(c) < Room(m)
        BY ONLY Linked(t), Placed(t, pos, b), <2>7, <3>2, <4>1, s \in Sides, InsideChild
      <4>3. Room(c) \in 1 .. N
        BY ONLY Linked(t), Placed(t, pos, b), <1>4, <3>7, InsideIs
      <4>4. Has(c)
        BY ONLY <3>4
      <4>5. Room(c) + (i + 1) <= N
        <5> HIDE DEF Room
        <5> QED
          BY ONLY <3>3, <3>5, <4>2, <4>3, i \in Nat, N \in Nat
      <4> HIDE DEF Room, Has
      <4> QED
        BY ONLY <1>2, <1>5, <2>3, <3>7, <4>4, <4>5
    <3> QED
      BY ONLY <3>2, <3>6, <3>7
  <2>8. m \in M
    BY ONLY <2>4
  <2> QED
    BY ONLY <1>5, <2>5, <2>6, <2>7, <2>8
<1>17. Good(last, h[last])
  <2> DEFINE P == {i \in Nat : i \in 0 .. last => Good(i, h[i])}
  <2> HIDE DEF Good
  <2>1. 0 \in P
    BY <1>15
  <2>2. ASSUME NEW i \in Nat, i \in P PROVE i + 1 \in P
    <3>1. CASE i + 1 \in 0 .. last
      <4>1. i \in 0 .. last /\ i + 1 \in 1 .. last
        BY ONLY <3>1, i \in Nat, last \in Nat
      <4>2. Good(i + 1, h[i + 1])
        BY ONLY <1>16, <2>2, <4>1
      <4> QED
        BY <4>2
    <3>2. CASE i + 1 \notin 0 .. last
      BY <3>2
    <3> QED
      BY <3>1, <3>2
  <2> HIDE DEF P
  <2>3. \A i \in Nat : i \in P
    BY ONLY <2>1, <2>2, Induct
  <2> QED
    BY <2>3 DEF P
<1>18. Good(last, r)
  BY ONLY <1>14, <1>17
<1>19. CASE r \in Alloc(t)
  <2>1. Room(r) \in 1 .. N
    BY ONLY Linked(t), Placed(t, pos, b), <1>4, <1>19, InsideIs
  <2>2. Key(r) # k => Room(r) + last <= N
    BY ONLY <1>18, <1>19
  <2> HIDE DEF Room
  <2>3. ~(Room(r) + last <= N)
    BY ONLY <1>10, <2>1, N \in Nat
  <2> QED
    BY ONLY <1>19, <2>2, <2>3
<1>20. CASE r = Sentinel
  <2>1. last <= N
    BY ONLY <1>18, <1>20
  <2> QED
    BY ONLY <1>10, <2>1, N \in Nat
<1>21. CASE r = Null
  <2>1. \A x \in Alloc(t) : Key(x) # k
    BY ONLY <1>18, <1>21
  <2> QED
    BY ONLY <1>21, <2>1
<1>22. r \in M
  BY ONLY <1>18
<1> QED
  BY ONLY <1>5, <1>19, <1>20, <1>21, <1>22

-----------------------------------------------------------------------------
(* The calls.                                                              *)
LEMMA PopMinIs ==
    ASSUME TreeInv, PopMin
    PROVE  \E n \in Alloc(tree) :
              /\ Delete(n) /\ reply' = Key(n)
              /\ \A x \in Alloc(tree) : Key(n) <= Key(x)
<1>1. Sound(tree, treeSize, at, node) /\ at = "idle" /\ treeSize # 0
  BY DEF TreeInv, PopMin, Delete
<1>2. treeSize = Cardinality(Alloc(tree)) /\ Linked(tree)
  BY ONLY <1>1 DEF Sound, Counted
<1>3. tree.root # Sentinel
  <2>1. Alloc(tree) # {}
    BY ONLY <1>1, <1>2, FS_EmptySet
  <2> QED
    BY ONLY <1>2, <2>1 DEF Linked
<1>4. PICK pos, b : Placed(tree, pos, b)
  BY ONLY <1>1 DEF Sound
<1>5. PICK n : n = Leftmost(tree, tree.root)
  OBVIOUS
<1>6. n \in Alloc(tree) /\ \A x \in Alloc(tree) : Key(n) <= Key(x)
  BY ONLY <1>2, <1>3, <1>4, <1>5, LeftmostIsLeast
<1>7. Delete(n) /\ reply' = Key(n)
  BY ONLY <1>1, <1>5, PopMin DEF PopMin, GetMin
<1> QED
  BY ONLY <1>6, <1>7

(* delnode deletes a node with the key it is given.                        *)
LEMMA DelNodeIs ==
    ASSUME TreeInv, NEW k \in Keys, DelNode(k)
    PROVE  \E n \in Alloc(tree) : Delete(n) /\ reply' = NoKey /\ Key(n) = k
<1>1. Linked(tree) /\ \E pos, b : Placed(tree, pos, b)
  BY DEF TreeInv, Sound
<1>2. PICK pos, b : Placed(tree, pos, b)
  BY <1>1
<1>3. PICK n : n = Find(tree, k)
  OBVIOUS
<1>4. n # Null /\ Delete(n) /\ reply' = NoKey
  BY ONLY <1>3, DelNode(k) DEF DelNode
<1>5. n \in Alloc(tree) /\ Key(n) = k
  BY ONLY <1>1, <1>2, <1>3, <1>4, k \in Keys, FindIs
<1> QED
  BY ONLY <1>4, <1>5

(* The empty tree is sound.                                                *)
LEMMA TreeInitSound == TreeInit => TreeInv
<1> SUFFICES ASSUME TreeInit PROVE TreeInv
  OBVIOUS
<1>1. PICK t : t = tree
  OBVIOUS
<1>2. /\ t = [root   |-> Sentinel,
              child  |-> [s \in Sides |-> [n \in Cells |-> Null]],
              parent |-> [n \in Cells |-> Null],
              red    |-> {}]
      /\ treeSize = 0 /\ at = "idle" /\ node = Null /\ reply = NoKey
  BY <1>1 DEF TreeInit
<1>3. /\ t \in Trees /\ t.root = Sentinel /\ t.red = {}
      /\ \A s \in Sides, n \in Cells : t.child[s][n] = Null
  BY <1>2, Constants DEF Trees
<1>4. Alloc(t) = {}
  BY <1>3, Constants DEF Alloc, Sides
<1>5. Linked(t)
  BY <1>3, <1>4, Constants DEF Linked
<1>6. \E pos, b : Placed(t, pos, b)
  <2>1. PICK pos, b : pos = [n \in Nodes |-> 0] /\ b = [s \in Sides |-> [n \in Nodes |-> 0]]
    OBVIOUS
  <2>2. pos \in [Nodes -> Int] /\ b \in [Sides -> [Nodes -> Int]]
    BY <2>1
  <2>3. Placed(t, pos, b)
    BY <1>4, <2>2 DEF Placed
  <2> QED
    BY <2>3
<1>7. \E bh : Weighed(t, bh, PlaceOf(t, "idle", Null))
  <2>1. PICK bh : bh = [n \in Cells |-> 0]
    OBVIOUS
  <2>2. Weighed(t, bh, PlaceOf(t, "idle", Null))
    BY <1>4, <2>1, Constants DEF Weighed
  <2> QED
    BY <2>2
<1>8. Colored(t, "idle", Null)
  BY <1>3, <1>4 DEF Colored
<1>9. Counted(t, 0, "idle", Null)
  BY <1>4, NodesAreFinite, FS_EmptySet DEF Counted
<1>10. Sound(t, 0, "idle", Null)
  BY ONLY <1>5, <1>6, <1>7, <1>8, <1>9 DEF Sound
<1> QED
  BY ONLY <1>1, <1>2, <1>10 DEF TreeInv

(* Every step keeps the tree sound.                                        *)
LEMMA TreeStepSound ==
    ASSUME TreeInv, [TreeNext]_treeVars
    PROVE  TreeInv'
<1>1. ASSUME NEW k \in Keys, Push(k) PROVE TreeInv'
  BY ONLY TreeInv, <1>1, PushSound
<1>2. ASSUME NEW k \in Keys, DelNode(k) PROVE TreeInv'
  <2>1. PICK n \in Alloc(tree) : Delete(n) /\ reply' = NoKey
    BY ONLY TreeInv, <1>2, DelNodeIs
  <2>2. reply' \in Keys \cup {NoKey}
    BY <2>1
  <2> QED
    BY ONLY TreeInv, <2>1, <2>2, DeleteSound
<1>3. CASE PopMin
  <2>1. PICK n \in Alloc(tree) : Delete(n) /\ reply' = Key(n)
    BY ONLY TreeInv, <1>3, PopMinIs
  <2>2. reply' \in Keys \cup {NoKey}
    BY <2>1, AllocIs, KeyIs
  <2> QED
    BY ONLY TreeInv, <2>1, <2>2, DeleteSound
<1>4. CASE PushRecolour \/ PushRotate \/ PushEnd
  BY ONLY TreeInv, <1>4, PushRecolourKeeps, PushRotateKeeps, PushEndKeeps
<1>5. CASE DeleteRecolour
  BY ONLY TreeInv, <1>5, DeleteRecolourKeeps
<1>6. CASE DeleteRotate
  BY ONLY TreeInv, <1>6, DeleteRotateKeeps
<1>7. CASE DeleteEnd
  BY ONLY TreeInv, <1>7, DeleteEndKeeps
<1>8. CASE UNCHANGED treeVars
  BY <1>8 DEF TreeInv, treeVars
<1> QED
  BY ONLY <1>1, <1>2, <1>3, <1>4, <1>5, <1>6, <1>7, <1>8, [TreeNext]_treeVars
     DEF TreeNext, Repair

(* In every turn of every call, for every set of keys and every number of  *)
(* copies, the pointers agree, the keys are in order, every way down meets *)
(* as many black nodes, but for the place where a deletion is repaired,    *)
(* and size counts the nodes.                                              *)
THEOREM TreeInvariant == TreeSpec => []TreeInv
<1>1. TreeInv /\ [TreeNext]_treeVars => TreeInv'
  BY TreeStepSound
<1> QED
  BY <1>1, TreeInitSound, PTL DEF TreeSpec

-----------------------------------------------------------------------------
(* The path from the root to a node: the nodes whose intervals hold it.    *)
Path(t, pos, b, n) == {k \in Alloc(t) : Between(b, k, pos[n])}

(* The interval of a node that another one's holds is inside it; and that  *)
(* of its parent holds the node as well.                                   *)
Holds(t, pos, b, k, m) ==
    /\ m # t.root
    /\ Between(b, k, pos[t.parent[m]])
    /\ ~Between(b, m, pos[k])
    /\ \A x \in Int : Between(b, m, x) => Between(b, k, x)

(* If the interval of a node holds the place of another one, the other's   *)
(* subtree is below it. By induction on the size of the subtree.           *)
LEMMA HoldsIs ==
    ASSUME NEW t, NEW pos, NEW b, Linked(t), Placed(t, pos, b),
           NEW k \in Alloc(t), NEW m \in Alloc(t), k # m, Between(b, k, pos[m])
    PROVE  Holds(t, pos, b, k, m)
<1>1. /\ pos \in [Nodes -> Int]
      /\ \A x, y \in Alloc(t) : pos[x] = pos[y] => x = y
      /\ \A x \in Alloc(t) : Between(b, x, pos[x])
      /\ \A y, x \in Alloc(t), s \in Sides :
            Between(b, y, pos[x]) /\ Toward(s, pos[x], pos[y]) =>
                t.child[s][y] # Sentinel /\ Between(b, t.child[s][y], pos[x])
  BY DEF Placed
<1>2. \A x \in Alloc(t) : pos[x] \in Int
  BY <1>1, AllocIs
<1> DEFINE Room(y) == Cardinality(Inside(t, pos, b, y))
           P == {i \in Nat : \A y \in Alloc(t) :
                    Room(y) <= i /\ y # m /\ Between(b, y, pos[m]) => Holds(t, pos, b, y, m)}
<1>3. 0 \in P
  <2>1. ASSUME NEW y \in Alloc(t) PROVE ~(Room(y) <= 0)
    <3>1. Room(y) \in 1 .. Cardinality(Nodes)
      BY ONLY Linked(t), Placed(t, pos, b), y \in Alloc(t), InsideIs
    <3> HIDE DEF Room
    <3> QED
      BY ONLY <3>1, NodesAreFinite
  <2> HIDE DEF Room
  <2> QED
    BY ONLY <2>1
<1>4. ASSUME NEW i \in Nat, i \in P PROVE i + 1 \in P
  <2> SUFFICES ASSUME NEW y \in Alloc(t), Room(y) <= i + 1, y # m, Between(b, y, pos[m])
               PROVE  Holds(t, pos, b, y, m)
    OBVIOUS
  <2>1. PICK s \in Sides : Toward(s, pos[m], pos[y])
    <3>1. pos[m] \in Int /\ pos[y] \in Int /\ pos[m] # pos[y]
      BY ONLY <1>1, <1>2, y # m, y \in Alloc(t), m \in Alloc(t)
    <3>2. Toward("left", pos[m], pos[y]) \/ Toward("right", pos[m], pos[y])
      BY ONLY <3>1 DEF Toward
    <3> QED
      BY ONLY <3>2, SidesAre DEF Sides
  <2>2. PICK c : c = t.child[s][y]
    OBVIOUS
  <2>3. c # Sentinel /\ Between(b, c, pos[m])
    BY ONLY <1>1, <2>1, <2>2, Between(b, y, pos[m]), y \in Alloc(t), m \in Alloc(t)
  <2>4. /\ c \in Alloc(t) /\ c # t.root /\ t.parent[c] = y /\ ~Between(b, c, pos[y])
        /\ \A x \in Int : Between(b, c, x) => Between(b, y, x) /\ Toward(s, x, pos[y])
    BY ONLY Linked(t), Placed(t, pos, b), <2>2, <2>3, y \in Alloc(t), s \in Sides, ChildIs
  <2>5. CASE c = m
    BY ONLY <1>1, <2>4, <2>5, y \in Alloc(t) DEF Holds
  <2>6. CASE c # m
    <3>1. Room(c) < Room(y)
      BY ONLY Linked(t), Placed(t, pos, b), <2>2, <2>3, y \in Alloc(t), s \in Sides, InsideChild
    <3>2. Room(c) \in 1 .. Cardinality(Nodes)
      BY ONLY Linked(t), Placed(t, pos, b), <2>4, InsideIs
    <3>3. Room(y) \in 1 .. Cardinality(Nodes)
      BY ONLY Linked(t), Placed(t, pos, b), y \in Alloc(t), InsideIs
    <3>4. Room(c) <= i
      <4> HIDE DEF Room
      <4> QED
        BY ONLY <3>1, <3>2, <3>3, Room(y) <= i + 1, i \in Nat, NodesAreFinite
    <3>5. Holds(t, pos, b, c, m)
      BY ONLY <1>4, <2>3, <2>4, <2>6, <3>4
    <3>6. m # t.root /\ t.parent[m] \in Alloc(t)
      BY ONLY <3>5, Linked(t), m \in Alloc(t) DEF Holds, Linked
    <3>7. pos[t.parent[m]] \in Int /\ pos[y] \in Int
      BY ONLY <1>2, <3>6, y \in Alloc(t)
    <3> QED
      BY ONLY <2>4, <3>5, <3>6, <3>7 DEF Holds
  <2> QED
    BY ONLY <2>5, <2>6
<1>5. \A i \in Nat : i \in P
  <2> HIDE DEF P
  <2> QED
    BY ONLY <1>3, <1>4, Induct
<1>6. Room(k) \in Nat
  <2>1. Room(k) \in 1 .. Cardinality(Nodes)
    BY ONLY Linked(t), Placed(t, pos, b), k \in Alloc(t), InsideIs
  <2> HIDE DEF Room
  <2> QED
    BY ONLY <2>1, NodesAreFinite
<1>7. Room(k) \in P
  BY ONLY <1>5, <1>6
<1>8. Room(k) <= Room(k)
  <2> HIDE DEF Room
  <2> QED
    BY ONLY <1>6
<1> HIDE DEF Room, Holds
<1> QED
  BY ONLY <1>7, <1>8, k # m, Between(b, k, pos[m]), k \in Alloc(t)

(* The path to a node is that to its parent, and the node.                 *)
LEMMA PathIs ==
    ASSUME NEW t, NEW pos, NEW b, Linked(t), Placed(t, pos, b), NEW n \in Alloc(t)
    PROVE  /\ n \in Path(t, pos, b, n) /\ t.root \in Path(t, pos, b, n)
           /\ Path(t, pos, b, n) \subseteq Alloc(t)
           /\ IsFiniteSet(Path(t, pos, b, n))
           /\ Cardinality(Path(t, pos, b, n)) \in 1 .. Cardinality(Nodes)
           /\ n = t.root => Path(t, pos, b, n) = {n}
           /\ n # t.root =>
                 /\ t.parent[n] \in Alloc(t)
                 /\ n \notin Path(t, pos, b, t.parent[n])
                 /\ Path(t, pos, b, n) = Path(t, pos, b, t.parent[n]) \cup {n}
<1>1. /\ pos \in [Nodes -> Int]
      /\ \A x \in Alloc(t) : Between(b, x, pos[x])
      /\ \A x \in Alloc(t) : Between(b, t.root, pos[x])
      /\ t.root \in Alloc(t)
  BY AllocIs, Constants DEF Placed, Linked
<1>2. PICK A : A = Path(t, pos, b, n)
  OBVIOUS
<1>3. n \in A /\ t.root \in A /\ A \subseteq Alloc(t)
  BY <1>1, <1>2 DEF Path
<1>4. IsFiniteSet(A) /\ Cardinality(A) \in 1 .. Cardinality(Nodes)
  <2>1. A \subseteq Nodes
    BY <1>3, AllocIs
  <2>2. /\ IsFiniteSet(A) /\ Cardinality(A) \in Nat
        /\ Cardinality(A) <= Cardinality(Nodes) /\ Cardinality(Nodes) \in Nat
    BY ONLY <2>1, NodesAreFinite, FS_Subset, FS_CardinalityType
  <2>3. Cardinality(A) # 0
    BY ONLY <1>3, <2>2, FS_EmptySet
  <2> QED
    BY ONLY <2>2, <2>3
<1>5. ASSUME NEW k \in A, k # n PROVE Holds(t, pos, b, k, n)
  <2>1. k \in Alloc(t) /\ Between(b, k, pos[n])
    BY ONLY <1>2, <1>5 DEF Path
  <2> QED
    BY ONLY Linked(t), Placed(t, pos, b), <1>5, <2>1, n \in Alloc(t), HoldsIs
<1>6. CASE n = t.root
  <2>1. \A k \in A : k = n
    BY ONLY <1>5, <1>6 DEF Holds
  <2>2. A = {n}
    BY ONLY <1>3, <2>1
  <2> QED
    BY ONLY <1>2, <1>3, <1>4, <1>6, <2>2
<1>7. CASE n # t.root
  <2>1. PICK p : p = t.parent[n]
    OBVIOUS
  <2>2. p \in Alloc(t) /\ SideOf(t, n) \in Sides /\ t.child[SideOf(t, n)][p] = n
    BY ONLY Linked(t), Placed(t, pos, b), <1>7, <2>1, n \in Alloc(t), ParentIs
  <2>3. n # Sentinel
    BY AllocIs, Constants
  <2>4. Between(b, p, pos[n]) /\ ~Between(b, n, pos[p])
    BY ONLY Linked(t), Placed(t, pos, b), <2>2, <2>3, ChildIs
  <2>5. PICK B : B = Path(t, pos, b, p)
    OBVIOUS
  <2>6. n \notin B
    BY ONLY <2>4, <2>5 DEF Path
  <2>7. A \subseteq B \cup {n}
    <3>1. ASSUME NEW k \in A, k # n PROVE k \in B
      <4>1. Between(b, k, pos[p])
        BY ONLY <1>5, <2>1, <3>1 DEF Holds
      <4> QED
        BY ONLY <1>3, <2>5, <4>1, k \in A DEF Path
    <3> QED
      BY ONLY <3>1
  <2>8. B \subseteq A
    <3>1. ASSUME NEW k \in B PROVE k \in A
      <4>1. k \in Alloc(t) /\ Between(b, k, pos[p])
        BY ONLY <2>5, <3>1 DEF Path
      <4>2. CASE k = p
        BY ONLY <1>2, <2>2, <2>4, <4>2 DEF Path
      <4>3. CASE k # p
        <5>1. Holds(t, pos, b, k, p)
          BY ONLY Linked(t), Placed(t, pos, b), <2>2, <4>1, <4>3, HoldsIs
        <5>2. \A x \in Int : Between(b, p, x) => Between(b, k, x)
          BY ONLY <5>1 DEF Holds
        <5>3. pos[n] \in Int
          BY <1>1, AllocIs
        <5>4. Between(b, k, pos[n])
          BY ONLY <2>4, <5>2, <5>3
        <5> QED
          BY ONLY <1>2, <4>1, <5>4 DEF Path
      <4> QED
        BY ONLY <4>2, <4>3
    <3> QED
      BY ONLY <3>1
  <2>9. A = B \cup {n}
    BY ONLY <1>3, <2>7, <2>8
  <2> QED
    BY ONLY <1>2, <1>3, <1>4, <1>7, <2>1, <2>2, <2>5, <2>6, <2>9
<1> QED
  BY ONLY <1>6, <1>7

(* Along a path every node is as far from its end as paths differ: a node  *)
(* other than the last has a child on the path.                            *)
LEMMA PathGoesOn ==
    ASSUME NEW t, NEW pos, NEW b, Linked(t), Placed(t, pos, b),
           NEW p \in Alloc(t), NEW a \in Path(t, pos, b, p)
    PROVE  /\ a # t.root => t.parent[a] \in Path(t, pos, b, p)
           /\ Cardinality(Path(t, pos, b, a)) <= Cardinality(Path(t, pos, b, p))
           /\ a # p =>
                 \E c \in Path(t, pos, b, p) :
                    /\ t.parent[c] = a /\ c # t.root
                    /\ Cardinality(Path(t, pos, b, c)) = Cardinality(Path(t, pos, b, a)) + 1
<1>1. /\ pos \in [Nodes -> Int]
      /\ \A x, y \in Alloc(t) : pos[x] = pos[y] => x = y
      /\ \A x \in Alloc(t) : Between(b, x, pos[x])
      /\ \A y, x \in Alloc(t), s \in Sides :
            Between(b, y, pos[x]) /\ Toward(s, pos[x], pos[y]) =>
                t.child[s][y] # Sentinel /\ Between(b, t.child[s][y], pos[x])
  BY DEF Placed
<1>2. \A x \in Alloc(t) : pos[x] \in Int
  BY <1>1, AllocIs
<1>3. a \in Alloc(t) /\ Between(b, a, pos[p])
  BY DEF Path
<1>4. a # p => \A x \in Int : Between(b, p, x) => Between(b, a, x)
  <2>1. a # p => Holds(t, pos, b, a, p)
    BY ONLY Linked(t), Placed(t, pos, b), <1>3, p \in Alloc(t), HoldsIs
  <2> QED
    BY ONLY <2>1 DEF Holds
<1>5. \A x \in Int : Between(b, p, x) => Between(b, a, x)
  BY ONLY <1>4
<1>6. PICK A : A = Path(t, pos, b, a)
  OBVIOUS
<1>7. PICK B : B = Path(t, pos, b, p)
  OBVIOUS
<1>8. IsFiniteSet(B) /\ IsFiniteSet(A)
  <2>1. IsFiniteSet(Path(t, pos, b, p))
    BY ONLY Linked(t), Placed(t, pos, b), p \in Alloc(t), PathIs
  <2>2. IsFiniteSet(Path(t, pos, b, a))
    BY ONLY Linked(t), Placed(t, pos, b), <1>3, PathIs
  <2> QED
    BY ONLY <1>6, <1>7, <2>1, <2>2
<1>9. A \subseteq B
  <2>1. ASSUME NEW k \in A PROVE k \in B
    <3>1. k \in Alloc(t) /\ Between(b, k, pos[a])
      BY ONLY <1>6, <2>1 DEF Path
    <3>2. CASE k = a
      BY ONLY <1>3, <1>7, <3>2 DEF Path
    <3>3. CASE k # a
      <4>1. Holds(t, pos, b, k, a)
        BY ONLY Linked(t), Placed(t, pos, b), <1>3, <3>1, <3>3, HoldsIs
      <4>2. \A x \in Int : Between(b, a, x) => Between(b, k, x)
        BY ONLY <4>1 DEF Holds
      <4>3. Between(b, k, pos[p])
        BY ONLY <1>2, <1>3, <4>2, p \in Alloc(t)
      <4> QED
        BY ONLY <1>7, <3>1, <4>3 DEF Path
    <3> QED
      BY ONLY <3>2, <3>3
  <2> QED
    BY ONLY <2>1
<1>10. Cardinality(A) <= Cardinality(B)
  BY ONLY <1>8, <1>9, FS_Subset
<1>11. ASSUME a # t.root PROVE t.parent[a] \in B
  <2>1. PICK q : q = t.parent[a]
    OBVIOUS
  <2>2. q \in Alloc(t) /\ A = Path(t, pos, b, q) \cup {a}
    BY ONLY Linked(t), Placed(t, pos, b), <1>3, <1>6, <1>11, <2>1, PathIs
  <2>3. q \in Path(t, pos, b, q)
    BY ONLY Linked(t), Placed(t, pos, b), <2>2, PathIs
  <2> QED
    BY ONLY <1>9, <2>1, <2>2, <2>3
<1>12. ASSUME a # p
       PROVE \E c \in B : /\ t.parent[c] = a /\ c # t.root
                          /\ Cardinality(Path(t, pos, b, c)) = Cardinality(A) + 1
  <2>1. PICK s \in Sides : Toward(s, pos[p], pos[a])
    <3>1. pos[p] \in Int /\ pos[a] \in Int /\ pos[p] # pos[a]
      BY ONLY <1>1, <1>2, <1>3, <1>12, p \in Alloc(t)
    <3>2. Toward("left", pos[p], pos[a]) \/ Toward("right", pos[p], pos[a])
      BY ONLY <3>1 DEF Toward
    <3> QED
      BY ONLY <3>2 DEF Sides
  <2>2. PICK c : c = t.child[s][a]
    OBVIOUS
  <2>3. c # Sentinel /\ Between(b, c, pos[p])
    BY ONLY <1>1, <1>3, <2>1, <2>2, p \in Alloc(t)
  <2>4. c \in Alloc(t) /\ c # t.root /\ t.parent[c] = a
    BY ONLY Linked(t), Placed(t, pos, b), <1>3, <2>2, <2>3, s \in Sides, ChildIs
  <2>5. a \notin {c} /\ c \notin A /\ Path(t, pos, b, c) = A \cup {c}
    BY ONLY Linked(t), Placed(t, pos, b), <1>6, <2>4, PathIs
  <2>6. Cardinality(A \cup {c}) = Cardinality(A) + 1
    BY ONLY <1>8, <2>5, FS_AddElement
  <2>7. c \in B
    BY ONLY <1>7, <2>3, <2>4 DEF Path
  <2> QED
    BY ONLY <2>4, <2>5, <2>6, <2>7
<1> QED
  BY ONLY <1>6, <1>7, <1>10, <1>11, <1>12

(* Above follows the parents: it is the path to the parent.                *)
LEMMA AboveIs ==
    ASSUME NEW pos, NEW b, Linked(tree), Placed(tree, pos, b),
           NEW n \in Cells, n # tree.root, NEW p \in Alloc(tree), p = tree.parent[n]
    PROVE  Above[n] = Path(tree, pos, b, p)
<1>1. PICK N \in Nat : N = Cardinality(Nodes) /\ Steps = 0 .. N
  BY NodesAreFinite DEF Steps
<1>3. tree.parent \in [Cells -> Links] /\ p \in Links /\ Linked(tree) /\ Placed(tree, pos, b)
      /\ p = tree.parent[n] /\ p \in Alloc(tree)
  BY AllocIs, Constants DEF Linked, Trees
<1> DEFINE Then(m) == m \cup {tree.parent[k] : k \in m \ {tree.root, Null, Sentinel}}
<1>4. PICK g : g = [m \in SUBSET Links |-> Then(m)]
  OBVIOUS
<1>5. g \in [SUBSET Links -> SUBSET Links]
  <2>1. ASSUME NEW m \in SUBSET Links PROVE Then(m) \in SUBSET Links
    <3>1. ASSUME NEW k \in m \ {tree.root, Null, Sentinel} PROVE tree.parent[k] \in Links
      <4>1. k \in Cells
        BY DEF Links
      <4> QED
        BY ONLY <1>3, <4>1
    <3> QED
      BY <3>1
  <2> HIDE DEF Then
  <2> QED
    BY ONLY <1>4, <2>1
<1>6. PICK f : /\ f \in [0 .. N -> SUBSET Links] /\ f[0] = {p}
               /\ \A i \in 1 .. N : f[i] = g[f[i - 1]]
  <2>1. {p} \in SUBSET Links
    BY <1>3
  <2>2. CanWalk(SUBSET Links, g, {p}, N)
    <3>1. PICK x : x = {p}
      OBVIOUS
    <3>2. x \in SUBSET Links
      BY ONLY <2>1, <3>1
    <3>3. CanWalk(SUBSET Links, g, x, N)
      BY ONLY <1>5, <3>2, N \in Nat, WalkExists
    <3> QED
      BY ONLY <3>1, <3>3
  <2> QED
    BY ONLY <2>2 DEF CanWalk
<1>7. f = [i \in Steps |->
              LET m == f[i - 1]
              IN  IF i = 0 THEN {tree.parent[n]}
                  ELSE m \cup {tree.parent[k] : k \in m \ {tree.root, Null, Sentinel}}]
  <2>1. ASSUME NEW i \in 0 .. N, i # 0 PROVE f[i] = Then(f[i - 1])
    <3>1. i \in 1 .. N /\ i - 1 \in 0 .. N
      BY ONLY <2>1, N \in Nat
    <3>2. f[i - 1] \in SUBSET Links
      BY ONLY <1>6, <3>1
    <3> HIDE DEF Then
    <3> QED
      BY ONLY <1>4, <1>6, <3>1, <3>2
  <2>2. f = [i \in Steps |-> IF i = 0 THEN {p} ELSE Then(f[i - 1])]
    <3> HIDE DEF Then
    <3> QED
      BY ONLY <1>1, <1>6, <2>1
  <2> QED
    BY ONLY <1>3, <2>2, Zenon
<1>8. PICK h : /\ h = [i \in Steps |->
                          LET m == h[i - 1]
                          IN  IF i = 0 THEN {tree.parent[n]}
                              ELSE m \cup {tree.parent[k] : k \in m \ {tree.root, Null, Sentinel}}]
               /\ Above[n] = h[Cardinality(Nodes)]
  BY ONLY <1>7, n \in Cells, n # tree.root, Zenon DEF Above
<1>9. h[0] = {p} /\ \A i \in 1 .. N : h[i] = Then(h[i - 1])
  <2>1. h[0] = {p}
    <3>1. 0 \in Steps
      BY ONLY <1>1
    <3> QED
      BY ONLY <1>3, <1>8, <3>1
  <2>2. ASSUME NEW i \in 1 .. N PROVE h[i] = Then(h[i - 1])
    <3>1. i \in Steps /\ i # 0
      BY ONLY <1>1, i \in 1 .. N
    <3> QED
      BY ONLY <1>8, <3>1
  <2> QED
    BY ONLY <2>1, <2>2
<1>10. PICK B : B = Path(tree, pos, b, p)
  OBVIOUS
<1> DEFINE Size(a) == Cardinality(Path(tree, pos, b, a))
           P == {i \in Nat : i \in 0 .. N =>
                   /\ h[i] \subseteq B
                   /\ \A a \in B : Cardinality(B) <= Size(a) + i => a \in h[i]}
<1>11. /\ p \in B /\ B \subseteq Alloc(tree) /\ Cardinality(B) \in 1 .. N
  BY ONLY <1>1, <1>3, <1>10, PathIs
<1>12. \A a \in Alloc(tree) : Size(a) \in 1 .. N
  <2>1. ASSUME NEW a \in Alloc(tree) PROVE Size(a) \in 1 .. N
    BY ONLY <1>1, <1>3, a \in Alloc(tree), PathIs
  <2> QED
    BY ONLY <2>1
<1>13. \A a \in B : /\ a # tree.root => tree.parent[a] \in B
                    /\ a # p => \E c \in B : tree.parent[c] = a /\ c # tree.root /\ Size(c) = Size(a) + 1
  <2>1. ASSUME NEW a \in B
        PROVE  /\ a # tree.root => tree.parent[a] \in B
               /\ a # p => \E c \in B : tree.parent[c] = a /\ c # tree.root /\ Size(c) = Size(a) + 1
    BY ONLY <1>3, <1>10, a \in B, PathGoesOn
  <2> QED
    BY ONLY <2>1
<1>14. \A a \in B : a # Null /\ a # Sentinel
  BY <1>11, AllocIs, Constants
<1>15. 0 \in P
  <2>1. ASSUME NEW a \in B, Cardinality(B) <= Size(a) + 0 PROVE a = p
    <3> SUFFICES ASSUME a # p PROVE FALSE
      OBVIOUS
    <3>1. PICK c \in B : Size(c) = Size(a) + 1
      BY ONLY <1>13, a \in B, a # p
    <3>2. Size(c) <= Cardinality(B)
      BY ONLY <1>3, <1>10, c \in B, PathGoesOn
    <3>3. Size(a) \in 1 .. N
      BY ONLY <1>11, <1>12, a \in B
    <3> HIDE DEF Size
    <3> QED
      BY ONLY <1>11, <2>1, <3>1, <3>2, <3>3
  <2> HIDE DEF Size
  <2> QED
    BY ONLY <1>9, <1>11, <2>1
<1>16. ASSUME NEW i \in Nat, i \in P PROVE i + 1 \in P
  <2> SUFFICES ASSUME i + 1 \in 0 .. N
               PROVE  /\ h[i + 1] \subseteq B
                      /\ \A a \in B : Cardinality(B) <= Size(a) + (i + 1) => a \in h[i + 1]
    OBVIOUS
  <2>1. i \in 0 .. N /\ i + 1 \in 1 .. N /\ (i + 1) - 1 = i
    BY ONLY i \in Nat, i + 1 \in 0 .. N, N \in Nat
  <2>2. h[i + 1] = h[i] \cup {tree.parent[k] : k \in h[i] \ {tree.root, Null, Sentinel}}
    BY ONLY <1>9, <2>1
  <2>3. h[i] \subseteq B /\ \A a \in B : Cardinality(B) <= Size(a) + i => a \in h[i]
    BY ONLY <1>16, <2>1
  <2>4. h[i + 1] \subseteq B
    <3> HIDE DEF Size
    <3> QED
      BY ONLY <1>13, <2>2, <2>3
  <2>5. ASSUME NEW a \in B, Cardinality(B) <= Size(a) + (i + 1) PROVE a \in h[i + 1]
    <3>1. Size(a) \in 1 .. N
      BY ONLY <1>11, <1>12, a \in B
    <3>2. CASE Cardinality(B) <= Size(a) + i
      BY ONLY <2>2, <2>3, <3>2, a \in B
    <3>3. CASE ~(Cardinality(B) <= Size(a) + i)
      <4>1. a # p
        <5>1. Size(p) = Cardinality(B)
          BY ONLY <1>10
        <5> HIDE DEF Size
        <5> QED
          BY ONLY <3>1, <3>3, <5>1, i \in Nat, N \in Nat
      <4>2. PICK c \in B : tree.parent[c] = a /\ c # tree.root /\ Size(c) = Size(a) + 1
        BY ONLY <1>13, <4>1, a \in B
      <4>3. Cardinality(B) <= Size(c) + i
        <5> HIDE DEF Size
        <5> QED
          BY ONLY <1>11, <2>5, <3>1, <4>2, i \in Nat, N \in Nat
      <4>4. c \in h[i] \ {tree.root, Null, Sentinel}
        <5>1. c \in h[i]
          BY ONLY <2>3, <4>3, c \in B
        <5> QED
          BY ONLY <1>14, <4>2, <5>1
      <4> QED
        BY ONLY <2>2, <4>2, <4>4
    <3> QED
      BY ONLY <3>2, <3>3
  <2> QED
    BY ONLY <2>4, <2>5
<1>17. \A i \in Nat : i \in P
  <2> HIDE DEF P
  <2> QED
    BY ONLY <1>15, <1>16, Induct
<1>18. h[N] \subseteq B /\ \A a \in B : Cardinality(B) <= Size(a) + N => a \in h[N]
  <2>1. N \in P /\ N \in 0 .. N
    BY ONLY <1>17, N \in Nat
  <2> QED
    BY ONLY <2>1
<1>19. B \subseteq h[N]
  <2>1. ASSUME NEW a \in B PROVE a \in h[N]
    <3>1. Size(a) \in 1 .. N
      BY ONLY <1>11, <1>12, a \in B
    <3>2. Cardinality(B) <= Size(a) + N
      <4> HIDE DEF Size
      <4> QED
        BY ONLY <1>11, <3>1, N \in Nat
    <3> QED
      BY ONLY <1>18, <3>2, a \in B
  <2> QED
    BY ONLY <2>1
<1> QED
  BY ONLY <1>1, <1>8, <1>10, <1>18, <1>19

(* What the checked properties say of a node that is in the tree.          *)
LEMMA AboveNode ==
    ASSUME NEW pos, NEW b, Linked(tree), Placed(tree, pos, b), NEW n \in Alloc(tree)
    PROVE  /\ Above[n] \cup {n} = Path(tree, pos, b, n)
           /\ Above[n] = Path(tree, pos, b, n) \ {n}
<1>1. PICK A : A = Path(tree, pos, b, n)
  OBVIOUS
<1>2. n \in Cells
  BY AllocIs, Constants
<1>3. CASE n = tree.root
  <2>1. Above[n] = {}
    BY ONLY <1>2, <1>3 DEF Above
  <2>2. A = {n}
    BY ONLY Linked(tree), Placed(tree, pos, b), <1>1, <1>3, n \in Alloc(tree), PathIs
  <2> QED
    BY ONLY <1>1, <2>1, <2>2
<1>4. CASE n # tree.root
  <2>1. PICK p : p = tree.parent[n]
    OBVIOUS
  <2>2. /\ p \in Alloc(tree) /\ n \notin Path(tree, pos, b, p)
        /\ A = Path(tree, pos, b, p) \cup {n}
    BY ONLY Linked(tree), Placed(tree, pos, b), <1>1, <1>4, <2>1, n \in Alloc(tree), PathIs
  <2>3. Above[n] = Path(tree, pos, b, p)
    BY ONLY Linked(tree), Placed(tree, pos, b), <1>2, <1>4, <2>1, <2>2, AboveIs
  <2> QED
    BY ONLY <1>1, <2>2, <2>3
<1> QED
  BY ONLY <1>3, <1>4

(* The nodes in the tree, by either name.                                  *)
LEMMA InTreeIs == InTree = Alloc(tree)
BY DEF InTree, Alloc

(* The type invariant is part of soundness.                                *)
LEMMA TreeTyped == TreeInv => TreeTypeOK
<1> SUFFICES ASSUME TreeInv PROVE TreeTypeOK
  OBVIOUS
<1>1. /\ Linked(tree) /\ Colored(tree, at, node) /\ Counted(tree, treeSize, at, node)
      /\ reply \in Keys \cup {NoKey}
  BY DEF TreeInv, Sound
<1>2. tree \in Trees
  BY ONLY <1>1 DEF Linked
<1>3. /\ tree.root \in Cells /\ tree.child \in [Sides -> [Cells -> Links]]
      /\ tree.parent \in [Cells -> Links] /\ tree.red \in SUBSET Nodes
  BY ONLY <1>2 DEF Trees
<1>4. /\ treeSize \in 0 .. Cardinality(Nodes) /\ at \in {"idle", "push", "delete"}
      /\ node \in Alloc(tree) \cup {Sentinel, Null}
  BY ONLY <1>1 DEF Counted, Colored
<1>5. node \in Links
  BY ONLY <1>4, AllocIs, Constants
<1> QED
  BY ONLY <1>1, <1>3, <1>4, <1>5 DEF TreeTypeOK

(* A sound tree is a search tree.                                          *)
LEMMA TreeOrdered == TreeInv => SearchTree
<1> SUFFICES ASSUME TreeInv PROVE SearchTree
  OBVIOUS
<1>1. Linked(tree) /\ Counted(tree, treeSize, at, node) /\ TreeTypeOK
  BY TreeTyped DEF TreeInv, Sound
<1>2. PICK pos, b : Placed(tree, pos, b)
  BY DEF TreeInv, Sound
<1>3. /\ \A x, y \in Alloc(tree) : pos[x] < pos[y] => Key(x) <= Key(y)
      /\ \A x \in Alloc(tree) : Between(b, x, pos[x])
  BY ONLY <1>2 DEF Placed
<1>4. ParentsAgree
  <2>1. ASSUME NEW n \in Alloc(tree) \ {tree.root} PROVE tree.root \in Above[n]
    <3>1. tree.root \in Path(tree, pos, b, n)
      BY ONLY <1>1, <1>2, n \in Alloc(tree) \ {tree.root}, PathIs
    <3>2. Above[n] = Path(tree, pos, b, n) \ {n}
      BY ONLY <1>1, <1>2, n \in Alloc(tree) \ {tree.root}, AboveNode
    <3> QED
      BY ONLY <3>1, <3>2, n \in Alloc(tree) \ {tree.root}
  <2>2. /\ \A n \in Alloc(tree), s \in Sides :
              /\ tree.child[s][n] \in Alloc(tree) \cup {Sentinel}
              /\ tree.child[s][n] # Sentinel => tree.parent[tree.child[s][n]] = n
        /\ \A n \in Alloc(tree) \ {tree.root} :
              \E s \in Sides : tree.child[s][tree.parent[n]] = n
    BY ONLY <1>1 DEF Linked
  <2> QED
    BY ONLY <2>1, <2>2, InTreeIs DEF ParentsAgree
<1>5. Ordered
  <2> SUFFICES ASSUME NEW n \in Alloc(tree),
                      NEW path, path = Above[n] \cup {n}, NEW m \in path \ {n}
               PROVE  /\ tree.child["left"][m] \in path => Key(n) <= Key(m)
                      /\ tree.child["right"][m] \in path => Key(n) >= Key(m)
    BY InTreeIs DEF Ordered
  <2>1. path = Path(tree, pos, b, n)
    BY ONLY <1>1, <1>2, n \in Alloc(tree), path = Above[n] \cup {n}, AboveNode
  <2>2. m \in Alloc(tree) /\ \A k \in path : k \in Alloc(tree) /\ Between(b, k, pos[n])
    BY ONLY <2>1, m \in path \ {n} DEF Path
  <2>3. pos[n] \in Int /\ Key(n) \in Nat /\ Key(m) \in Nat
    <3>1. n \in Nodes /\ m \in Nodes
      BY <2>2, AllocIs
    <3>2. pos \in [Nodes -> Int]
      BY ONLY <1>2 DEF Placed
    <3> QED
      BY ONLY <3>1, <3>2, KeyIs
  <2>4. ASSUME NEW s \in Sides, tree.child[s][m] \in path
        PROVE  Toward(s, pos[n], pos[m])
    <3>1. PICK c : c = tree.child[s][m]
      OBVIOUS
    <3>2. c \in Alloc(tree) /\ Between(b, c, pos[n])
      BY ONLY <2>2, <2>4, <3>1
    <3>3. c # Sentinel
      BY ONLY <3>2, AllocIs, Constants
    <3>4. \A x \in Int : Between(b, c, x) => Between(b, m, x) /\ Toward(s, x, pos[m])
      BY ONLY <1>1, <1>2, <2>2, <3>1, <3>3, s \in Sides, ChildIs
    <3> QED
      BY ONLY <2>3, <3>2, <3>4
  <2>5. ASSUME tree.child["left"][m] \in path PROVE Key(n) <= Key(m)
    <3>1. Toward("left", pos[n], pos[m])
      BY ONLY <2>4, <2>5 DEF Sides
    <3> QED
      BY ONLY <1>3, <2>2, <3>1, n \in Alloc(tree) DEF Toward
  <2>6. ASSUME tree.child["right"][m] \in path PROVE Key(n) >= Key(m)
    <3>1. Toward("right", pos[n], pos[m])
      BY ONLY <2>4, <2>6 DEF Sides
    <3>2. Key(m) <= Key(n)
      BY ONLY <1>3, <2>2, <3>1, n \in Alloc(tree) DEF Toward
    <3> QED
      BY ONLY <2>3, <3>2
  <2> QED
    BY ONLY <2>5, <2>6
<1>6. \A s \in Sides : tree.child[s][Sentinel] = Null
  BY ONLY <1>1 DEF Linked
<1>7. ASSUME at = "idle", NEW held, held = {Key(n) : n \in InTree}
      PROVE  /\ treeSize = Cardinality(InTree)
             /\ held = {k \in Keys : Find(tree, k) # Null}
             /\ \A k \in held : GetMin <= k /\ k <= GetMax
  <2>1. treeSize = Cardinality(Alloc(tree))
    BY ONLY <1>1, <1>7 DEF Counted
  <2>2. \A n \in Alloc(tree) : Key(n) \in Keys
    BY AllocIs, KeyIs
  <2>3. ASSUME NEW k \in Keys PROVE k \in held <=> Find(tree, k) # Null
    <3>1. PICK r : r = Find(tree, k)
      OBVIOUS
    <3>2. \/ r = Null /\ \A x \in Alloc(tree) : Key(x) # k
          \/ r \in Alloc(tree) /\ Key(r) = k
      BY ONLY <1>1, <1>2, <3>1, k \in Keys, FindIs
    <3>3. r \in Alloc(tree) => r # Null
      BY AllocIs, Constants
    <3> QED
      BY ONLY <1>7, <3>1, <3>2, <3>3, InTreeIs
  <2>4. held \subseteq Keys
    BY ONLY <1>7, <2>2, InTreeIs
  <2>5. held = {k \in Keys : Find(tree, k) # Null}
    BY ONLY <2>3, <2>4
  <2>6. ASSUME NEW x \in Alloc(tree) PROVE GetMin <= Key(x) /\ Key(x) <= GetMax
    <3>1. tree.root # Sentinel
      BY ONLY <1>1, x \in Alloc(tree) DEF Linked
    <3>2. treeSize # 0
      <4>1. IsFiniteSet(Alloc(tree)) /\ Alloc(tree) # {}
        BY AllocIsFinite
      <4> QED
        BY ONLY <2>1, <4>1, FS_EmptySet
    <3>3. PICK l : l = Leftmost(tree, tree.root)
      OBVIOUS
    <3>4. PICK r : r = Rightmost(tree, tree.root)
      OBVIOUS
    <3>5. \A y \in Alloc(tree) : Key(l) <= Key(y)
      BY ONLY <1>1, <1>2, <3>1, <3>3, LeftmostIsLeast
    <3>6. \A y \in Alloc(tree) : Key(y) <= Key(r)
      BY ONLY <1>1, <1>2, <3>1, <3>4, RightmostIsGreatest
    <3>7. GetMin = Key(l) /\ GetMax = Key(r)
      BY ONLY <3>2, <3>3, <3>4 DEF GetMin, GetMax
    <3> QED
      BY ONLY <3>5, <3>6, <3>7, x \in Alloc(tree)
  <2>7. \A k \in held : GetMin <= k /\ k <= GetMax
    BY ONLY <1>7, <2>6, InTreeIs
  <2> QED
    BY ONLY <2>1, <2>5, <2>7, InTreeIs
<1> QED
  BY ONLY <1>1, <1>4, <1>5, <1>6, <1>7 DEF SearchTree

(* In every turn of every call the nodes hang below the root, parents and  *)
(* children agree and the keys are in order; when no call is under way,    *)
(* size counts the nodes, find finds just the keys in the tree, and getmin *)
(* and getmax return the ends of the order.                                *)
THEOREM SearchTreeCorrect == TreeSpec => []SearchTree
BY TreeInvariant, TreeOrdered, PTL

-----------------------------------------------------------------------------
(* The black nodes on a path, one more for the node that lacks one, and    *)
(* those below its end, are as many as below the root.                     *)
Lack(a, nd, path) == IF a = "delete" /\ nd \in path THEN 1 ELSE 0
Black(t, m) == IF m \in t.red THEN 0 ELSE 1

(* A path that is one node longer has one black node more, or as many.     *)
LEMMA BlackOfNode ==
    ASSUME NEW t, NEW m, NEW S, IsFiniteSet(S), m \notin S
    PROVE  /\ Cardinality((S \cup {m}) \ t.red) = Cardinality(S \ t.red) + Black(t, m)
           /\ Cardinality(S \ t.red) \in Nat
<1>1. PICK B : B = S \ t.red
  OBVIOUS
<1>2. IsFiniteSet(B) /\ Cardinality(B) \in Nat
  <2>1. B \subseteq S
    BY <1>1
  <2> QED
    BY ONLY <2>1, IsFiniteSet(S), FS_Subset, FS_CardinalityType
<1>3. CASE m \in t.red
  <2>1. (S \cup {m}) \ t.red = B
    BY ONLY <1>1, <1>3
  <2>2. Black(t, m) = 0
    BY ONLY <1>3 DEF Black
  <2> QED
    BY ONLY <1>1, <1>2, <2>1, <2>2
<1>4. CASE m \notin t.red
  <2>1. (S \cup {m}) \ t.red = B \cup {m} /\ m \notin B
    BY ONLY <1>1, <1>4, m \notin S
  <2>2. Black(t, m) = 1
    BY ONLY <1>4 DEF Black
  <2>3. Cardinality(B \cup {m}) = Cardinality(B) + 1
    BY ONLY <1>2, <2>1, FS_AddElement
  <2> QED
    BY ONLY <1>1, <1>2, <2>1, <2>2, <2>3
<1> QED
  BY ONLY <1>3, <1>4

(* By induction on the length of the path: what is above a node and what   *)
(* is below it weigh together what the root does.                          *)
LEMMA PathWeighs ==
    ASSUME NEW t, NEW pos, NEW b, NEW bh, NEW a, NEW nd, Linked(t), Placed(t, pos, b),
           Weighed(t, bh, PlaceOf(t, a, nd)),
           a = "delete" /\ nd # t.root => t.child[SideOf(t, nd)][t.parent[nd]] = nd,
           NEW n \in Alloc(t)
    PROVE  Cardinality(Path(t, pos, b, n) \ t.red) + Lack(a, nd, Path(t, pos, b, n)) + bh[n]
               = bh[t.root] + Lack(a, nd, {t.root}) + Black(t, n)
<1>1. /\ \A m \in Cells : bh[m] \in Nat
      /\ \A m \in Alloc(t), s \in Sides :
            bh[m] = bh[t.child[s][m]] + (IF PlaceOf(t, a, nd) = <<m, s>> THEN 1 ELSE 0)
                    + Black(t, m)
  BY DEF Weighed, Black
<1>2. \A m \in Alloc(t) : bh[m] \in Nat /\ m # Sentinel /\ m # Null
  BY <1>1, AllocIs, Constants
<1> DEFINE Way(m) == Path(t, pos, b, m)
           Even(m) == Cardinality(Way(m) \ t.red) + Lack(a, nd, Way(m)) + bh[m]
                         = bh[t.root] + Lack(a, nd, {t.root}) + Black(t, m)
           P == {i \in Nat : \A m \in Alloc(t) : Cardinality(Way(m)) <= i => Even(m)}
<1>3. \A m, path : Black(t, m) \in 0 .. 1 /\ Lack(a, nd, path) \in 0 .. 1
  BY DEF Black, Lack
<1>4. 0 \in P
  <2>1. ASSUME NEW m \in Alloc(t) PROVE ~(Cardinality(Way(m)) <= 0)
    <3>1. Cardinality(Way(m)) \in 1 .. Cardinality(Nodes)
      BY ONLY Linked(t), Placed(t, pos, b), m \in Alloc(t), PathIs
    <3> HIDE DEF Way
    <3> QED
      BY ONLY <3>1, NodesAreFinite
  <2> HIDE DEF Way, Even
  <2> QED
    BY ONLY <2>1
<1>5. ASSUME NEW i \in Nat, i \in P PROVE i + 1 \in P
  <2> SUFFICES ASSUME NEW m \in Alloc(t), Cardinality(Way(m)) <= i + 1 PROVE Even(m)
    OBVIOUS
  <2>1. PICK M : M = Way(m)
    OBVIOUS
  <2>2. CASE m = t.root
    <3>1. M = {m}
      BY ONLY Linked(t), Placed(t, pos, b), <2>1, <2>2, m \in Alloc(t), PathIs
    <3>2. Cardinality(M \ t.red) = Black(t, m)
      <4>1. IsFiniteSet({}) /\ m \notin {} /\ Cardinality({}) = 0
        BY FS_EmptySet
      <4>2. PICK E : E = {}
        OBVIOUS
      <4>3. Cardinality((E \cup {m}) \ t.red) = Cardinality(E \ t.red) + Black(t, m)
        BY ONLY <4>1, <4>2, BlackOfNode
      <4>4. E \cup {m} = M /\ E \ t.red = E
        BY ONLY <3>1, <4>2
      <4>5. Black(t, m) \in 0 .. 1
        BY ONLY <1>3
      <4> QED
        BY ONLY <4>1, <4>2, <4>3, <4>4, <4>5
    <3>3. bh[m] \in Nat /\ Black(t, m) \in 0 .. 1 /\ Lack(a, nd, {m}) \in 0 .. 1
      BY ONLY <1>2, <1>3, m \in Alloc(t)
    <3>4. Cardinality(M \ t.red) + Lack(a, nd, M) + bh[m]
               = bh[t.root] + Lack(a, nd, {t.root}) + Black(t, m)
      BY ONLY <2>2, <3>1, <3>2, <3>3
    <3> QED
      BY ONLY <2>1, <3>4
  <2>3. CASE m # t.root
    <3>1. PICK p : p = t.parent[m]
      OBVIOUS
    <3>2. PICK A : A = Way(p)
      OBVIOUS
    <3>3. p \in Alloc(t) /\ m \notin A /\ M = A \cup {m}
      BY ONLY Linked(t), Placed(t, pos, b), <2>1, <2>3, <3>1, <3>2, m \in Alloc(t), PathIs
    <3>4. IsFiniteSet(A) /\ Cardinality(A) \in 1 .. Cardinality(Nodes) /\ A \subseteq Alloc(t)
          /\ p \in A
      BY ONLY Linked(t), Placed(t, pos, b), <3>2, <3>3, PathIs
    <3>5. Even(p)
      <4>1. Cardinality(M) = Cardinality(A) + 1
        BY ONLY <3>3, <3>4, FS_AddElement
      <4>2. Cardinality(M) <= i + 1
        BY ONLY <2>1, Cardinality(Way(m)) <= i + 1
      <4>3. Cardinality(A) <= i
        BY ONLY <3>4, <4>1, <4>2, i \in Nat, NodesAreFinite
      <4>4. Cardinality(Way(p)) <= i
        BY ONLY <3>2, <4>3
      <4> HIDE DEF Even, Way
      <4> QED
        BY ONLY <1>5, <3>3, <4>4
    <3>6. Cardinality(A \ t.red) + Lack(a, nd, A) + bh[p]
               = bh[t.root] + Lack(a, nd, {t.root}) + Black(t, p)
      BY ONLY <3>2, <3>5
    <3>7. /\ Cardinality(M \ t.red) = Cardinality(A \ t.red) + Black(t, m)
          /\ Cardinality(A \ t.red) \in Nat
      BY ONLY <3>3, <3>4, BlackOfNode
    <3>8. PICK s : s = SideOf(t, m)
      OBVIOUS
    <3>9. s \in Sides /\ t.child[s][p] = m
      BY ONLY Linked(t), Placed(t, pos, b), <2>3, <3>1, <3>8, m \in Alloc(t), ParentIs
    <3>10. PICK here : here = IF PlaceOf(t, a, nd) = <<p, s>> THEN 1 ELSE 0
      OBVIOUS
    <3>11. bh[p] = bh[m] + here + Black(t, p)
      BY ONLY <1>1, <3>3, <3>9, <3>10
    <3>12. Lack(a, nd, M) = Lack(a, nd, A) + here /\ here \in 0 .. 1
      <4>1. PlaceOf(t, a, nd) = <<p, s>> <=> a = "delete" /\ nd = m
        <5>1. ASSUME PlaceOf(t, a, nd) = <<p, s>> PROVE a = "delete" /\ nd = m
          <6>1. p # Null
            BY ONLY <1>2, <3>3
          <6>2. a = "delete" /\ nd # t.root
            BY ONLY <5>1, <6>1 DEF PlaceOf, NoPlace
          <6>3. t.parent[nd] = p /\ SideOf(t, nd) = s
            BY ONLY <5>1, <6>2 DEF PlaceOf
          <6> QED
            BY ONLY <3>9, <6>2, <6>3,
               a = "delete" /\ nd # t.root => t.child[SideOf(t, nd)][t.parent[nd]] = nd
        <5>2. ASSUME a = "delete", nd = m PROVE PlaceOf(t, a, nd) = <<p, s>>
          BY ONLY <2>3, <3>1, <3>8, <5>2 DEF PlaceOf
        <5> QED
          BY ONLY <5>1, <5>2
      <4>2. nd \in M <=> nd \in A \/ nd = m
        BY ONLY <3>3
      <4> QED
        BY ONLY <3>3, <3>10, <4>1, <4>2 DEF Lack
    <3>13. /\ bh[m] \in Nat /\ bh[p] \in Nat /\ bh[t.root] \in Nat
           /\ Black(t, m) \in 0 .. 1 /\ Black(t, p) \in 0 .. 1
           /\ Lack(a, nd, A) \in 0 .. 1 /\ Lack(a, nd, {t.root}) \in 0 .. 1
      <4>1. t.root \in Alloc(t)
        BY ONLY Linked(t), m \in Alloc(t), <1>2 DEF Linked
      <4> QED
        BY ONLY <1>2, <1>3, <3>3, <4>1, m \in Alloc(t)
    <3>14. Cardinality(M \ t.red) + Lack(a, nd, M) + bh[m]
               = bh[t.root] + Lack(a, nd, {t.root}) + Black(t, m)
      <4>1. PICK x : x = Cardinality(A \ t.red)
        OBVIOUS
      <4>2. PICK y : y = Lack(a, nd, A)
        OBVIOUS
      <4>3. PICK z : z = bh[t.root] + Lack(a, nd, {t.root})
        OBVIOUS
      <4>4. z \in Nat
        BY ONLY <3>13, <4>3
      <4>5. x + y + bh[p] = z + Black(t, p)
        BY ONLY <3>6, <4>1, <4>2, <4>3
      <4>6. x + Black(t, m) + (y + here) + bh[m] = z + Black(t, m)
        BY ONLY <3>7, <3>11, <3>12, <3>13, <4>1, <4>2, <4>4, <4>5
      <4> QED
        BY ONLY <3>7, <3>12, <4>1, <4>2, <4>3, <4>6
    <3> QED
      BY ONLY <2>1, <3>14
  <2> QED
    BY ONLY <2>2, <2>3
<1>6. \A i \in Nat : i \in P
  <2> HIDE DEF P
  <2> QED
    BY ONLY <1>4, <1>5, Induct
<1>7. Cardinality(Way(n)) \in Nat /\ Cardinality(Way(n)) <= Cardinality(Way(n))
  <2>1. Cardinality(Way(n)) \in 1 .. Cardinality(Nodes)
    BY ONLY Linked(t), Placed(t, pos, b), n \in Alloc(t), PathIs
  <2> HIDE DEF Way
  <2> QED
    BY ONLY <2>1, NodesAreFinite
<1>8. Even(n)
  <2>1. Cardinality(Way(n)) \in P
    BY ONLY <1>6, <1>7
  <2> HIDE DEF Even, Way
  <2> QED
    BY ONLY <1>7, <2>1, n \in Alloc(t)
<1> QED
  BY ONLY <1>8

(* A sound tree is balanced.                                               *)
LEMMA TreeBalanced == TreeInv => RedBlack
<1> SUFFICES ASSUME TreeInv PROVE RedBlack
  OBVIOUS
<1>1. /\ Linked(tree) /\ Colored(tree, at, node) /\ Counted(tree, treeSize, at, node)
  BY DEF TreeInv, Sound
<1>2. PICK pos, b : Placed(tree, pos, b)
  BY DEF TreeInv, Sound
<1>3. PICK bh : Weighed(tree, bh, PlaceOf(tree, at, node))
  BY DEF TreeInv, Sound
<1>4. at = "delete" /\ node # tree.root => tree.child[SideOf(tree, node)][tree.parent[node]] = node
  BY ONLY <1>1 DEF Counted
<1>5. PICK most : most = bh[tree.root] + Lack(at, node, {tree.root})
  OBVIOUS
<1>6. ASSUME NEW e \in Ends PROVE Blacks(e[1], e[2]) = most
  <2>1. PICK n, s : n = e[1] /\ s = e[2]
    OBVIOUS
  <2>2. n \in Alloc(tree) /\ s \in Sides /\ tree.child[s][n] = Sentinel
    BY <2>1, InTreeIs DEF Ends
  <2>3. PICK path : path = Path(tree, pos, b, n)
    OBVIOUS
  <2>4. Above[n] \cup {n} = path
    BY ONLY <1>1, <1>2, <2>2, <2>3, AboveNode
  <2>5. PICK here : here = (node = Sentinel /\ tree.parent[Sentinel] = n
                                /\ SideOf(tree, Sentinel) = s)
    OBVIOUS
  <2>6. Blacks(n, s) = Cardinality(path \ tree.red)
                       + IF at = "delete" /\ (node \in path \/ here) THEN 1 ELSE 0
    BY ONLY <2>4, <2>5, Zenon DEF Blacks
  <2>7. Cardinality(path \ tree.red) + Lack(at, node, path) + bh[n]
            = bh[tree.root] + Lack(at, node, {tree.root}) + Black(tree, n)
    <3>1. Cardinality(Path(tree, pos, b, n) \ tree.red)
              + Lack(at, node, Path(tree, pos, b, n)) + bh[n]
              = bh[tree.root] + Lack(at, node, {tree.root}) + Black(tree, n)
      <4>1. PICK a : a = at
        OBVIOUS
      <4>2. /\ Linked(tree) /\ Placed(tree, pos, b) /\ Weighed(tree, bh, PlaceOf(tree, a, node))
            /\ a = "delete" /\ node # tree.root =>
                  tree.child[SideOf(tree, node)][tree.parent[node]] = node
            /\ n \in Alloc(tree)
        BY ONLY <1>1, <1>2, <1>3, <1>4, <2>2, <4>1
      <4>3. Cardinality(Path(tree, pos, b, n) \ tree.red)
                + Lack(a, node, Path(tree, pos, b, n)) + bh[n]
                = bh[tree.root] + Lack(a, node, {tree.root}) + Black(tree, n)
        BY ONLY SMTT(30), <4>2, PathWeighs
      <4> QED
        BY ONLY <4>1, <4>3
    <3> QED
      BY ONLY <2>3, <3>1
  <2>8. bh[n] = (IF PlaceOf(tree, at, node) = <<n, s>> THEN 1 ELSE 0) + Black(tree, n)
    <3>1. /\ bh[n] = bh[tree.child[s][n]] + (IF PlaceOf(tree, at, node) = <<n, s>> THEN 1 ELSE 0)
                     + Black(tree, n)
          /\ bh[Sentinel] = 0
      BY ONLY <1>3, <2>2 DEF Weighed, Black
    <3> QED
      BY ONLY <2>2, <3>1 DEF Black
  <2>9. PlaceOf(tree, at, node) = <<n, s>> <=> at = "delete" /\ here
    <3>1. tree.root \in Alloc(tree) /\ tree.root # Sentinel /\ n # Null
      <4>1. Sentinel \notin Alloc(tree) /\ Null \notin Alloc(tree)
        BY AllocIs, Constants
      <4> QED
        BY ONLY <1>1, <2>2, <4>1 DEF Linked
    <3>2. ASSUME PlaceOf(tree, at, node) = <<n, s>> PROVE at = "delete" /\ here
      <4>1. at = "delete" /\ node # tree.root
        BY ONLY <3>1, <3>2 DEF PlaceOf, NoPlace
      <4>2. tree.parent[node] = n /\ SideOf(tree, node) = s
        BY ONLY <3>2, <4>1 DEF PlaceOf
      <4>3. node = Sentinel
        BY ONLY <1>4, <2>2, <4>1, <4>2
      <4> QED
        BY ONLY <2>5, <4>1, <4>2, <4>3
    <3>3. ASSUME at = "delete" /\ here PROVE PlaceOf(tree, at, node) = <<n, s>>
      BY ONLY <2>5, <3>1, <3>3 DEF PlaceOf
    <3> QED
      BY ONLY <3>2, <3>3
  <2>10. ~(node \in path /\ here)
    <3>1. Sentinel \notin path
      BY <2>3, AllocIs, Constants DEF Path
    <3> QED
      BY ONLY <2>5, <3>1
  <2>11. PICK x : x = Cardinality(path \ tree.red)
    OBVIOUS
  <2>12. x \in Nat
    <3>1. IsFiniteSet(path)
      BY ONLY <1>1, <1>2, <2>2, <2>3, PathIs
    <3>2. path \ tree.red \subseteq path
      OBVIOUS
    <3> QED
      BY ONLY <2>11, <3>1, <3>2, FS_Subset, FS_CardinalityType
  <2>13. most \in Nat /\ Black(tree, n) \in 0 .. 1
    <3>1. tree.root \in Cells /\ bh \in [Cells -> Nat]
      BY ONLY <1>1, <1>3 DEF Linked, Trees, Weighed
    <3>2. bh[tree.root] \in Nat
      BY ONLY <3>1
    <3> QED
      BY ONLY <1>5, <3>2 DEF Lack, Black
  <2>14. x + Lack(at, node, path) + bh[n] = most + Black(tree, n)
    BY ONLY <1>5, <2>7, <2>11
  <2>15. PICK y : y = IF at = "delete" /\ here THEN 1 ELSE 0
    OBVIOUS
  <2>16. bh[n] = y + Black(tree, n)
    BY ONLY <2>8, <2>9, <2>15
  <2>17. x + Lack(at, node, path) + (y + Black(tree, n)) = most + Black(tree, n)
    BY ONLY <2>14, <2>16
  <2>18. Blacks(n, s) = x + (IF at = "delete" /\ (node \in path \/ here) THEN 1 ELSE 0)
    BY ONLY <2>6, <2>11
  <2>19. (IF at = "delete" /\ (node \in path \/ here) THEN 1 ELSE 0) = Lack(at, node, path) + y
         /\ Lack(at, node, path) \in 0 .. 1 /\ y \in 0 .. 1
    BY ONLY <2>10, <2>15 DEF Lack
  <2>20. x + (Lack(at, node, path) + y) = most
    BY ONLY <2>12, <2>13, <2>17, <2>19
  <2> QED
    BY ONLY <2>1, <2>18, <2>19, <2>20
<1>7. Cardinality({Blacks(e[1], e[2]) : e \in Ends}) <= 1
  <2>1. PICK all : all = {Blacks(e[1], e[2]) : e \in Ends}
    OBVIOUS
  <2>2. all \subseteq {most}
    BY ONLY <1>6, <2>1
  <2>3. IsFiniteSet({most}) /\ Cardinality({most}) = 1
    BY FS_Singleton
  <2>4. Cardinality(all) <= 1
    BY ONLY <2>2, <2>3, FS_Subset
  <2> QED
    BY ONLY <2>1, <2>4
<1>8. /\ tree.red \subseteq Alloc(tree)
      /\ tree.root \in tree.red => at = "push"
      /\ \A n \in Alloc(tree) \ {tree.root} :
            n \in tree.red /\ tree.parent[n] \in tree.red =>
                n = node \/ (at = "delete" /\ tree.parent[n] = node)
  BY ONLY <1>1 DEF Colored
<1>9. Sentinel \notin tree.red
  BY <1>8, AllocIs, Constants
<1>10. \A n \in (InTree \cap tree.red) \ {tree.root} :
          tree.parent[n] \in tree.red =>
              \/ n = node
              \/ at = "delete" /\ tree.parent[n] = node
  BY ONLY <1>8, InTreeIs
<1> QED
  BY ONLY <1>7, <1>8, <1>9, <1>10 DEF RedBlack

(* In every turn of every call the colours are right, or wrong in the one  *)
(* place the loop stands on, and every way down from the root meets the    *)
(* same number of black nodes, with one more where a deletion lacks one.   *)
THEOREM RedBlackCorrect == TreeSpec => []RedBlack
BY TreeInvariant, TreeBalanced, PTL

-----------------------------------------------------------------------------
(* The loops end.                                                          *)
LEMMA AboveParent ==
    ASSUME NEW pos, NEW b, Linked(tree), Placed(tree, pos, b),
           NEW n \in Cells, n # tree.root, NEW p \in Alloc(tree), p = tree.parent[n]
    PROVE  /\ Cardinality(Above[p]) < Cardinality(Above[n])
           /\ Cardinality(Above[p]) \in Nat /\ Cardinality(Above[n]) \in Nat
<1>1. PICK B : B = Path(tree, pos, b, p)
  OBVIOUS
<1>2. Above[n] = B
  BY ONLY Linked(tree), Placed(tree, pos, b), <1>1, n \in Cells, n # tree.root,
          p \in Alloc(tree), p = tree.parent[n], AboveIs
<1>3. Above[p] = B \ {p}
  BY ONLY Linked(tree), Placed(tree, pos, b), <1>1, p \in Alloc(tree), AboveNode
<1>4. p \in B /\ IsFiniteSet(B)
  BY ONLY Linked(tree), Placed(tree, pos, b), <1>1, p \in Alloc(tree), PathIs
<1>5. Cardinality(B \ {p}) = Cardinality(B) - 1 /\ Cardinality(B) \in Nat
  BY ONLY <1>4, FS_RemoveElement, FS_CardinalityType
<1>6. IsFiniteSet(B \ {p})
  BY ONLY <1>4, FS_RemoveElement
<1>7. Cardinality(B \ {p}) \in Nat
  BY ONLY <1>6, FS_CardinalityType
<1> QED
  BY ONLY <1>2, <1>3, <1>5, <1>7

(* What is above a node depends on the parents and the root alone.         *)
LEMMA SameAbove ==
    ASSUME tree'.parent = tree.parent, tree'.root = tree.root
    PROVE  Above' = Above
BY DEF Above

(* A turn of either loop, one case for each way it can go.                 *)
LEMMA TurnsAdvance ==
    ASSUME TreeInv, [TreeNext]_treeVars, at # "idle", at' = at, ~UNCHANGED treeVars
    PROVE  Depth' < Depth \/ ~Unfinished'
<1>1. CASE PushRecolour
  <2>1. /\ tree'.parent = tree.parent /\ tree'.root = tree.root
        /\ node # tree.root /\ node \in Alloc(tree)
        /\ tree.parent[node] \in Alloc(tree) /\ tree.parent[node] # tree.root
        /\ node' = tree.parent[tree.parent[node]] /\ node' \in Alloc(tree)
    BY ONLY TreeInv, <1>1, PushRecolourKeeps
  <2>2. Above' = Above
    BY ONLY <2>1, SameAbove
  <2>3. PICK pos, b : Linked(tree) /\ Placed(tree, pos, b)
    BY DEF TreeInv, Sound
  <2>4. PICK p : p = tree.parent[node]
    OBVIOUS
  <2>5. PICK g : g = tree.parent[p]
    OBVIOUS
  <2>6. node \in Cells /\ p \in Cells
    BY <2>1, <2>4, AllocIs, Constants
  <2>7. /\ Cardinality(Above[p]) < Cardinality(Above[node])
        /\ Cardinality(Above[p]) \in Nat /\ Cardinality(Above[node]) \in Nat
    BY ONLY <2>1, <2>3, <2>4, <2>6, AboveParent
  <2>8. /\ Cardinality(Above[g]) < Cardinality(Above[p])
        /\ Cardinality(Above[g]) \in Nat
    BY ONLY <2>1, <2>3, <2>4, <2>5, <2>6, AboveParent
  <2>9. Cardinality(Above[g]) < Cardinality(Above[node])
    BY ONLY <2>7, <2>8
  <2>10. node' = g
    BY ONLY <2>1, <2>4, <2>5
  <2> QED
    BY ONLY <2>2, <2>9, <2>10 DEF Depth
<1>2. CASE PushRotate
  <2>1. tree'.parent[node'] \notin tree'.red
    BY ONLY TreeInv, <1>2, PushRotateKeeps
  <2>2. at' = "push"
    BY ONLY Zenon, <1>2, at' = at DEF PushRotate
  <2> QED
    BY ONLY <2>1, <2>2 DEF Unfinished, TwoReds
<1>3. CASE PushEnd \/ DeleteEnd
  BY ONLY <1>3, at' = at, at # "idle" DEF PushEnd, DeleteEnd
<1>4. CASE DeleteRecolour
  <2>1. /\ node' = tree.parent[node] /\ node # tree.root
        /\ (tree'.parent = tree.parent /\ tree'.root = tree.root) \/ node' \in tree'.red
    BY ONLY TreeInv, <1>4, DeleteRecolourKeeps
  <2>2. at' = "delete" /\ at = "delete"
    BY ONLY <1>4, at' = at DEF DeleteRecolour
  <2>3. CASE node' \in tree'.red
    BY ONLY <2>2, <2>3 DEF Unfinished, BlackShort
  <2>4. CASE tree'.parent = tree.parent /\ tree'.root = tree.root
    <3>1. Above' = Above
      BY ONLY <2>4, SameAbove
    <3>2. PICK pos, b : Linked(tree) /\ Placed(tree, pos, b)
      BY DEF TreeInv, Sound
    <3>3. PICK p : p = tree.parent[node]
      OBVIOUS
    <3>4. node \in Cells /\ p \in Alloc(tree)
      <4>1. /\ node \in Alloc(tree) \cup {Sentinel}
            /\ node = Sentinel => tree.parent[Sentinel] \in Alloc(tree)
        BY <2>2 DEF TreeInv, Sound, Counted
      <4>2. \A n \in Alloc(tree) \ {tree.root} : tree.parent[n] \in Alloc(tree)
        BY ONLY <3>2 DEF Linked
      <4>3. p \in Alloc(tree)
        BY ONLY <2>1, <3>3, <4>1, <4>2
      <4> QED
        BY <4>1, <4>3, AllocIs, Constants
    <3>5. Cardinality(Above[p]) < Cardinality(Above[node])
      BY ONLY <2>1, <3>2, <3>3, <3>4, AboveParent
    <3> QED
      BY ONLY <2>1, <3>1, <3>3, <3>5 DEF Depth
  <2> QED
    BY ONLY <2>1, <2>3, <2>4
<1>5. CASE DeleteRotate
  <2>1. node' = tree'.root
    BY ONLY TreeInv, <1>5, DeleteRotateKeeps
  <2>2. at' = "delete"
    BY ONLY Zenon, <1>5, at' = at DEF DeleteRotate
  <2> QED
    BY ONLY <2>1, <2>2 DEF Unfinished, BlackShort
<1>6. ASSUME NEW k \in Keys, Push(k) \/ DelNode(k) PROVE FALSE
  BY ONLY <1>6, at # "idle" DEF Push, DelNode, Delete
<1>7. CASE PopMin
  BY ONLY <1>7, at # "idle" DEF PopMin, Delete
<1> QED
  BY ONLY <1>1, <1>2, <1>3, <1>4, <1>5, <1>6, <1>7, [TreeNext]_treeVars, ~UNCHANGED treeVars
     DEF TreeNext, Repair

(* A turn of a loop that does not end the repair takes it nearer to the    *)
(* root, for trees of any height: the loops cannot go round in circles.    *)
THEOREM RepairCorrect == TreeSpec => RepairAdvances
<1>1. TreeInv /\ [TreeNext]_treeVars =>
          [at # "idle" /\ at' = at => Depth' < Depth \/ ~Unfinished']_treeVars
  BY TurnsAdvance
<1> QED
  BY <1>1, TreeInvariant, PTL DEF TreeSpec, RepairAdvances

-----------------------------------------------------------------------------
(* The bag.  How often each key is in the tree, and the change of a step   *)
(* that adds or takes out one node.                                        *)
WithKey(S, k) == {n \in S : Key(n) = k}
Count(S, k) == Cardinality(WithKey(S, k))

(* A key is counted if some node has it.                                   *)
LEMMA CountIs ==
    ASSUME NEW S, IsFiniteSet(S), NEW k
    PROVE  /\ IsFiniteSet(WithKey(S, k)) /\ Count(S, k) \in Nat
           /\ Count(S, k) > 0 <=> \E n \in S : Key(n) = k
<1>1. PICK K : K = WithKey(S, k)
  OBVIOUS
<1>2. K \subseteq S /\ (K # {} <=> \E n \in S : Key(n) = k)
  BY ONLY <1>1 DEF WithKey
<1>3. IsFiniteSet(K) /\ Cardinality(K) \in Nat
  BY ONLY <1>2, IsFiniteSet(S), FS_Subset, FS_CardinalityType
<1>4. Cardinality(K) = 0 <=> K = {}
  BY ONLY <1>3, FS_EmptySet
<1>5. Cardinality(K) > 0 <=> K # {}
  BY ONLY <1>3, <1>4
<1> QED
  BY ONLY <1>1, <1>2, <1>3, <1>5 DEF Count

(* One node more, and its key is counted once more.                        *)
LEMMA CountAdded ==
    ASSUME NEW S, IsFiniteSet(S), NEW n, n \notin S, NEW k, NEW T, T = S \cup {n}
    PROVE  Count(T, k) = IF k = Key(n) THEN Count(S, k) + 1 ELSE Count(S, k)
<1>1. PICK K : K = WithKey(S, k)
  OBVIOUS
<1>2. IsFiniteSet(K) /\ n \notin K
  BY ONLY <1>1, IsFiniteSet(S), n \notin S, CountIs DEF WithKey
<1>3. CASE k = Key(n)
  <2>1. WithKey(T, k) = K \cup {n}
    BY ONLY <1>1, <1>3, T = S \cup {n} DEF WithKey
  <2>2. Cardinality(K \cup {n}) = Cardinality(K) + 1
    BY ONLY <1>2, FS_AddElement
  <2> QED
    BY ONLY <1>1, <1>3, <2>1, <2>2 DEF Count
<1>4. CASE k # Key(n)
  <2>1. WithKey(T, k) = K
    BY ONLY <1>1, <1>4, T = S \cup {n} DEF WithKey
  <2> QED
    BY ONLY <1>1, <1>4, <2>1 DEF Count
<1> QED
  BY ONLY <1>3, <1>4

(* One node less, and its key is counted once less.                        *)
LEMMA CountRemoved ==
    ASSUME NEW S, IsFiniteSet(S), NEW n \in S, NEW k, NEW T, T = S \ {n}
    PROVE  Count(T, k) = IF k = Key(n) THEN Count(S, k) - 1 ELSE Count(S, k)
<1>1. IsFiniteSet(T) /\ n \notin T /\ S = T \cup {n}
  BY FS_RemoveElement
<1>2. Count(S, k) = IF k = Key(n) THEN Count(T, k) + 1 ELSE Count(T, k)
  BY ONLY <1>1, CountAdded
<1>3. Count(T, k) \in Nat
  BY ONLY <1>1, CountIs
<1> QED
  BY ONLY <1>2, <1>3

(* The bag that a tree is.                                                 *)
Content(t) == [k \in Keys |-> Count(Alloc(t), k)]

(* The empty tree is the empty bag.                                        *)
LEMMA BagInit == TreeInit => Bag!Init
<1> SUFFICES ASSUME TreeInit PROVE Bag!Init
  OBVIOUS
<1>1. reply = NoKey /\ \A n \in Cells : tree.child["left"][n] = Null
  BY DEF TreeInit, Sides
<1>2. InTree = {}
  BY <1>1, Constants DEF InTree
<1>3. \A k \in Keys : Cardinality({n \in InTree : Key(n) = k}) = 0
  BY ONLY <1>2, FS_EmptySet
<1> QED
  BY ONLY <1>1, <1>3 DEF Bag!Init

(* A step that counts a key once more adds it to the bag.                  *)
LEMMA BagAdds ==
    ASSUME NEW k \in Keys, reply' = NoKey,
           Content(tree') = [Content(tree) EXCEPT ![k] = @ + 1]
    PROVE  Bag!Add(k)
BY DEF Bag!Add, Content, Count, WithKey, InTree, Alloc

(* A step that counts a key once less takes it from the bag.               *)
LEMMA BagTakes ==
    ASSUME NEW k \in Keys, Content(tree') = [Content(tree) EXCEPT ![k] = @ - 1]
    PROVE  Bag!Take(k)
BY DEF Bag!Take, Content, Count, WithKey, InTree, Alloc

(* The bag holds the keys of the nodes.                                    *)
LEMMA BagHeld == Bag!Held = {Key(n) : n \in Alloc(tree)}
<1>1. \A k : Count(Alloc(tree), k) > 0 <=> \E n \in Alloc(tree) : Key(n) = k
  BY AllocIsFinite, CountIs
<1>2. Bag!Held = {k \in Keys : Content(tree)[k] > 0}
  BY DEF Bag!Held, Content, Count, WithKey, InTree, Alloc
<1>3. \A k \in Keys : Content(tree)[k] = Count(Alloc(tree), k)
  BY DEF Content
<1>4. \A n \in Alloc(tree) : Key(n) \in Keys
  BY AllocIs, KeyIs
<1> QED
  BY ONLY <1>1, <1>2, <1>3, <1>4

(* A push adds its key to the bag.                                         *)
LEMMA BagPush ==
    ASSUME TreeInv, NEW k \in Keys, Push(k)
    PROVE  Bag!Add(k)
<1>1. reply' = NoKey
  BY DEF Push
<1>2. PICK n \in Nodes \ Alloc(tree) : Key(n) = k /\ WithNode(tree, tree', n)
  BY ONLY TreeInv, k \in Keys, Push(k), PushSound
<1>3. PICK S : S = Alloc(tree)
  OBVIOUS
<1>4. PICK T : T = Alloc(tree')
  OBVIOUS
<1>5. IsFiniteSet(S) /\ T = S \cup {n} /\ n \notin S
  <2>1. IsFiniteSet(Alloc(tree))
    BY AllocIsFinite
  <2> QED
    BY ONLY <1>2, <1>3, <1>4, <2>1 DEF WithNode
<1>6. ASSUME NEW j \in Keys
      PROVE  Count(T, j) = IF j = k THEN Count(S, j) + 1 ELSE Count(S, j)
  <2>1. Count(T, j) = IF j = Key(n) THEN Count(S, j) + 1 ELSE Count(S, j)
    BY ONLY <1>5, CountAdded
  <2> QED
    BY ONLY <1>2, <2>1
<1>7. Content(tree') = [Content(tree) EXCEPT ![k] = @ + 1]
  BY ONLY <1>3, <1>4, <1>6, k \in Keys DEF Content
<1> QED
  BY ONLY <1>1, <1>7, k \in Keys, BagAdds

(* A deletion takes the key of the node from the bag, which held it.       *)
LEMMA BagDelete ==
    ASSUME NEW n \in Alloc(tree), WithoutNode(tree, tree', n),
           NEW k \in Keys, Key(n) = k
    PROVE  k \in Bag!Held /\ Bag!Take(k)
<1>1. PICK S : S = Alloc(tree)
  OBVIOUS
<1>2. PICK T : T = Alloc(tree')
  OBVIOUS
<1>3. IsFiniteSet(S) /\ T = S \ {n} /\ n \in S
  <2>1. IsFiniteSet(Alloc(tree))
    BY AllocIsFinite
  <2> QED
    BY ONLY <1>1, <1>2, <2>1, n \in Alloc(tree), WithoutNode(tree, tree', n) DEF WithoutNode
<1>4. ASSUME NEW j \in Keys
      PROVE  Count(T, j) = IF j = k THEN Count(S, j) - 1 ELSE Count(S, j)
  <2>1. Count(T, j) = IF j = Key(n) THEN Count(S, j) - 1 ELSE Count(S, j)
    BY ONLY <1>3, CountRemoved
  <2> QED
    BY ONLY <2>1, Key(n) = k
<1>5. Content(tree') = [Content(tree) EXCEPT ![k] = @ - 1]
  BY ONLY <1>1, <1>2, <1>4, k \in Keys DEF Content
<1>6. Bag!Take(k)
  BY ONLY <1>5, k \in Keys, BagTakes
<1>7. k \in Bag!Held
  BY ONLY BagHeld, n \in Alloc(tree), Key(n) = k
<1> QED
  BY ONLY <1>6, <1>7

(* A turn of a repair does not change the bag.                             *)
LEMMA BagStutters ==
    ASSUME SameNodes(tree, tree'), reply' = reply
    PROVE  UNCHANGED Bag!vars
<1>1. Alloc(tree') = Alloc(tree)
  BY DEF SameNodes
<1>2. Content(tree') = Content(tree)
  BY ONLY <1>1 DEF Content
<1>3. Bag!vars' = <<Content(tree'), reply'>> /\ Bag!vars = <<Content(tree), reply>>
  BY DEF Bag!vars, Content, Count, WithKey, InTree, Alloc
<1> QED
  BY ONLY <1>2, <1>3, reply' = reply

(* Every step is one of the bag, or changes nothing there.                 *)
LEMMA BagStep ==
    ASSUME TreeInv, [TreeNext]_treeVars
    PROVE  [Bag!Next]_Bag!vars
<1>1. ASSUME NEW k \in Keys, Push(k) PROVE Bag!Next
  <2>1. Bag!Add(k)
    BY ONLY TreeInv, <1>1, BagPush
  <2> QED
    BY ONLY <2>1, k \in Keys DEF Bag!Next
<1>2. ASSUME NEW k \in Keys, DelNode(k) PROVE Bag!Next
  <2>1. PICK n \in Alloc(tree) : Delete(n) /\ reply' = NoKey /\ Key(n) = k
    BY ONLY TreeInv, <1>2, DelNodeIs
  <2>2. reply' \in Keys \cup {NoKey}
    BY ONLY <2>1
  <2>3. WithoutNode(tree, tree', n)
    BY ONLY TreeInv, <2>1, <2>2, DeleteSound
  <2>4. k \in Bag!Held /\ Bag!Take(k)
    BY ONLY <2>1, <2>3, k \in Keys, BagDelete
  <2>5. Bag!Delete(k)
    BY ONLY <2>1, <2>4 DEF Bag!Delete
  <2> QED
    BY ONLY <2>5, k \in Keys DEF Bag!Next
<1>3. CASE PopMin
  <2>1. PICK n \in Alloc(tree) : /\ Delete(n) /\ reply' = Key(n)
                                 /\ \A x \in Alloc(tree) : Key(n) <= Key(x)
    BY ONLY TreeInv, <1>3, PopMinIs
  <2>2. PICK k \in Keys : k = Key(n)
    BY <2>1, AllocIs, KeyIs
  <2>3. WithoutNode(tree, tree', n)
    <3>1. reply' \in Keys \cup {NoKey}
      BY ONLY <2>1, <2>2
    <3> QED
      BY ONLY TreeInv, <2>1, <3>1, DeleteSound
  <2>4. k \in Bag!Held /\ Bag!Take(k)
    BY ONLY <2>2, <2>3, n \in Alloc(tree), BagDelete
  <2>5. \A j \in Bag!Held : k <= j
    BY ONLY <2>1, <2>2, BagHeld
  <2>6. \A j \in Bag!Held : j \in Nat
    <3>1. \A x \in Alloc(tree) : Key(x) \in Nat
      BY AllocIs, KeyIs
    <3> QED
      BY ONLY <3>1, BagHeld
  <2>7. Bag!Least = k
    <3>1. PICK H : H = Bag!Held
      OBVIOUS
    <3>2. k \in H /\ \A j \in H : k <= j /\ j \in Nat
      BY ONLY <2>4, <2>5, <2>6, <3>1
    <3>3. (CHOOSE x \in H : \A j \in H : x <= j) = k
      BY ONLY <3>2
    <3> QED
      BY ONLY <3>1, <3>3 DEF Bag!Least
  <2>8. Bag!PopMin
    BY ONLY <2>1, <2>2, <2>4, <2>7 DEF Bag!PopMin
  <2> QED
    BY ONLY <2>8 DEF Bag!Next
<1>4. CASE Repair
  <2>1. SameNodes(tree, tree')
    BY ONLY TreeInv, <1>4, PushRecolourKeeps, PushRotateKeeps, PushEndKeeps,
       DeleteRecolourKeeps, DeleteRotateKeeps, DeleteEndKeeps DEF Repair
  <2>2. reply' = reply
    BY ONLY Zenon, <1>4
       DEF Repair, PushRecolour, PushRotate, PushEnd, DeleteRecolour, DeleteRotate, DeleteEnd
  <2> QED
    BY ONLY <2>1, <2>2, BagStutters
<1>5. CASE UNCHANGED treeVars
  <2>1. tree' = tree /\ reply' = reply
    BY ONLY <1>5 DEF treeVars
  <2> QED
    BY ONLY <2>1, BagStutters DEF SameNodes
<1> QED
  BY ONLY <1>1, <1>2, <1>3, <1>4, <1>5, [TreeNext]_treeVars DEF TreeNext

(* The tree is a bag that gives back its smallest key and deletes any, for *)
(* every set of keys: no rotation and no move of the next node into the    *)
(* place of a deleted one loses a key.                                     *)
THEOREM TreeIsBag == TreeSpec => ImplementsPriorityBag
<1>1. TreeInv /\ [TreeNext]_treeVars => [Bag!Next]_Bag!vars
  BY BagStep
<1> QED
  BY <1>1, BagInit, TreeInvariant, PTL DEF TreeSpec, ImplementsPriorityBag, Bag!Spec

=============================================================================
