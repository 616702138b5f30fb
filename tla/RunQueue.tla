------------------------------ MODULE RunQueue ------------------------------
(***************************************************************************)
(* The run queue of the completely fair scheduler (parasol/src/            *)
(* para_library.c 7796-8150): a red-black tree of scheduling entities with *)
(* a pointer to its leftmost node.  A tree is a record of                  *)
(*   root, leftmost   nodes, or Nil                                        *)
(*   up, child[side]  the pointers of every node                           *)
(*   red              the red nodes (Nil is black)                         *)
(*   si, key          the entity and the key of every node in use          *)
(* The code has each of its loops and cases twice, for left and for right; *)
(* here a side is a parameter.  Nil is one node shared by all trees, whose *)
(* parent counts only within one deletion.                                 *)
(***************************************************************************)
EXTENDS Integers, FiniteSets, SequencesExt

CONSTANTS Size,         \* nodes of a tree
          Keys,         \* values of a key
          None

ASSUME RunQueueAssumption == Size \in Nat \ {0} /\ Keys \subseteq Nat /\ Keys # {}

Nil == 0
RBNodes == 1..Size
Sides == {"left", "right"}
Other(side) == IF side = "left" THEN "right" ELSE "left"

EmptyTree ==
  [root |-> Nil, leftmost |-> Nil, up |-> [n \in 0..Size |-> Nil],
   child |-> [s \in Sides |-> [n \in 0..Size |-> Nil]], red |-> {},
   si |-> [n \in RBNodes |-> None], key |-> [n \in RBNodes |-> 0]]

SideOf(t, n) == IF t.child["left"][t.up[n]] = n THEN "left" ELSE "right"

\* Node y takes the place of x under the parent of x.
InPlaceOf(t, x, y) ==
  LET p == t.up[x]
  IN IF p = Nil THEN [t EXCEPT !.root = y, !.up[y] = p]
                ELSE [t EXCEPT !.child[SideOf(t, x)][p] = y, !.up[y] = p]

\* rotate_left and rotate_right: x goes down to the given side.
Rotate(t, x, side) ==
  LET y == t.child[Other(side)][x]
      b == t.child[side][y]
  IN [InPlaceOf(t, x, y) EXCEPT !.child[Other(side)][x] = b, !.child[side][y] = x,
                                !.up[b] = IF b = Nil THEN @ ELSE x, !.up[x] = y]

Painted(t, blacks, reds) == [t EXCEPT !.red = (@ \ blacks) \cup reds]

\* insert_rb_color.  Below a red node: the uncle is red and both are painted, or the
\* node is brought to the outer side of its parent and the grandparent goes down.
Parent(t, n) == t.up[n]
Uncle(t, n) == t.child[Other(SideOf(t, Parent(t, n)))][Parent(t, Parent(t, n))]
IsInner(t, n) == SideOf(t, n) # SideOf(t, Parent(t, n))

LowerGrandparent(t, n) ==
  LET p == Parent(t, n)
      g == Parent(t, p)
  IN Rotate(Painted(t, {p}, {g}), g, Other(SideOf(t, p)))

RECURSIVE InsertColor(_, _)
InsertColor(t, n) ==
  LET p == Parent(t, n)
      g == Parent(t, p)
  IN CASE n = t.root \/ p \notin t.red -> Painted(t, {t.root}, {})
       [] n # t.root /\ p \in t.red /\ Uncle(t, n) \in t.red ->
            InsertColor(Painted(t, {p, Uncle(t, n)}, {g}), g)
       [] n # t.root /\ p \in t.red /\ Uncle(t, n) \notin t.red /\ IsInner(t, n) ->
            InsertColor(LowerGrandparent(Rotate(t, p, SideOf(t, p)), p), p)
       [] OTHER -> InsertColor(LowerGrandparent(t, n), n)

RECURSIVE Descend(_, _, _)
Descend(t, p, key) ==
  LET side == IF t.key[p] <= key THEN "right" ELSE "left"
  IN IF t.child[side][p] = Nil THEN <<p, side>> ELSE Descend(t, t.child[side][p], key)

Unused(t) == CHOOSE n \in RBNodes : t.si[n] = None /\ \A m \in RBNodes : t.si[m] = None => n <= m

\* insert_rb_node, and the new node's entity.
InsertNode(t, n, key, si) ==
  LET at == Descend(t, t.root, key)
      a == [t EXCEPT !.key[n] = key, !.si[n] = si, !.red = @ \cup {n},
                     !.leftmost = IF t.root = Nil \/ \A m \in RBNodes : t.si[m] # None => t.key[m] > key
                                  THEN n ELSE @]
  IN IF t.root = Nil THEN InsertColor([a EXCEPT !.root = n], n)
                     ELSE InsertColor([a EXCEPT !.up[n] = at[1], !.child[at[2]][at[1]] = n], n)

\* delete_rb_color: the subtree of x lacks a black node.  A red sibling is made a
\* black one; a black sibling with black children becomes red, and the parent lacks the
\* node; otherwise its far child is made red, and the parent goes down.
Sibling(t, x) == t.child[Other(SideOf(t, x))][Parent(t, x)]
Near(t, x) == t.child[SideOf(t, x)][Sibling(t, x)]
Far(t, x) == t.child[Other(SideOf(t, x))][Sibling(t, x)]

BlackSibling(t, x) ==
  IF Sibling(t, x) \in t.red
  THEN Rotate(Painted(t, {Sibling(t, x)}, {Parent(t, x)}), Parent(t, x), SideOf(t, x))
  ELSE t

RedFar(t, x) ==
  IF Far(t, x) \in t.red THEN t
  ELSE Rotate(Painted(t, {Near(t, x)}, {Sibling(t, x)}), Sibling(t, x), Other(SideOf(t, x)))

LowerParent(t, x) ==
  LET p == Parent(t, x)
      v == Sibling(t, x)
      a == IF p \in t.red THEN Painted(t, {p, Far(t, x)}, {v}) ELSE Painted(t, {v, Far(t, x)}, {})
  IN Rotate(a, p, SideOf(t, x))

RootBlack(t) == Painted(t, {t.root}, {})

RECURSIVE DeleteColor(_, _)
DeleteColor(t, x) ==
  IF x = t.root \/ x \in t.red THEN Painted(t, {x}, {})
  ELSE LET a == BlackSibling(t, x)
       IN IF {Near(a, x), Far(a, x)} \cap a.red = {}
          THEN DeleteColor(Painted(a, {}, {Sibling(a, x)}), Parent(a, x))
          ELSE RootBlack(LowerParent(RedFar(a, x), x))

RECURSIVE LeftmostOf(_, _)
LeftmostOf(t, n) ==
  IF n = Nil \/ t.child["left"][n] = Nil THEN n ELSE LeftmostOf(t, t.child["left"][n])

\* The node that delete_rb_node takes out of the tree for node n; rb_set_data moves
\* its entity to n.
TakenOut(t, n) ==
  IF \E s \in Sides : t.child[s][n] = Nil THEN n ELSE LeftmostOf(t, t.child["right"][n])

Freed(t, y) ==
  [t EXCEPT !.up[y] = Nil, !.up[Nil] = Nil, !.child["left"][y] = Nil, !.child["right"][y] = Nil,
            !.si[y] = None, !.key[y] = 0, !.red = @ \ {y}]

RefreshLeftmost(t, n) == IF t.leftmost = n THEN [t EXCEPT !.leftmost = LeftmostOf(t, t.root)] ELSE t

SpliceOut(t, n, y, x) ==
  LET a == [InPlaceOf(t, y, x) EXCEPT !.si[n] = t.si[y], !.key[n] = t.key[y]]
  IN IF y \in t.red THEN a ELSE DeleteColor(a, x)

OnlyChild(t, y) == t.child[IF t.child["left"][y] # Nil THEN "left" ELSE "right"][y]

\* delete_rb_node
DeleteNode(t, n) ==
  LET y == TakenOut(t, n)
  IN RefreshLeftmost(Freed(SpliceOut(t, n, y, OnlyChild(t, y)), y), n)

-----------------------------------------------------------------------------
InUse(t) == {n \in RBNodes : t.si[n] # None}

RECURSIVE InOrder(_, _)
InOrder(t, n) ==
  IF n = Nil THEN <<>>
  ELSE InOrder(t, t.child["left"][n]) \o <<n>> \o InOrder(t, t.child["right"][n])

\* The number of black nodes on every path from n down to Nil, or -1 if it is not
\* the same on all.
RECURSIVE BlackHeight(_, _)
BlackHeight(t, n) ==
  IF n = Nil THEN 0
  ELSE LET l == BlackHeight(t, t.child["left"][n])
           r == BlackHeight(t, t.child["right"][n])
       IN IF l # r \/ l = -1 THEN -1 ELSE l + (IF n \in t.red THEN 0 ELSE 1)

RedBlack(t) ==
  /\ t.root \notin t.red
  /\ \A n \in t.red : t.up[n] # Nil /\ t.up[n] \notin t.red
  /\ BlackHeight(t, t.root) # -1

\* The pointers of the nodes in use make up one tree.
Linked(t) ==
  /\ Range(InOrder(t, t.root)) = InUse(t) /\ IsInjective(InOrder(t, t.root))
  /\ \A n \in InUse(t), s \in Sides : t.child[s][n] # Nil => t.up[t.child[s][n]] = n
=============================================================================
