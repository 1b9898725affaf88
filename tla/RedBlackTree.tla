---------------------------- MODULE RedBlackTree ----------------------------
(***************************************************************************)
(* The red-black tree of src/lib/rbtree.c as operators on a tree           *)
(* [root, node]: node maps every key to its node, so a key stands for the  *)
(* pointer to the node that holds it.  Keys are positive numbers, ordered  *)
(* as strcmp orders the names; Nil is NULL.  The code's branches for a     *)
(* left and a right child mirror each other: here they are one, with the   *)
(* side as a parameter.                                                    *)
(***************************************************************************)
EXTENDS Integers, FiniteSets

Nil == 0
Opposite(side) == IF side = "left" THEN "right" ELSE "left"

\* rbtree_init: one node, black, without an element; it is the root of the first insertion.
EmptyTree == [root |-> Nil, node |-> [k \in {} |-> Nil]]

NewNode(parent, red, elem) ==
    [left |-> Nil, right |-> Nil, parent |-> parent, red |-> red, elem |-> elem]

Red(t, k) == k # Nil /\ t.node[k].red

\* The assignment of v to field f of the node at k, if there is one.
Set(node, k, f, v) == IF k = Nil THEN node ELSE [node EXCEPT ![k][f] = v]

\* rbtree_set_color, which ignores NULL.
Paint(t, k, red) == [root |-> t.root, node |-> Set(t.node, k, "red", red)]

\* Mutant: the child that changes sides keeps its parent.
RotateKeepsParent(t, x, side) ==
    LET c == t.node[x][Opposite(side)]
        p == t.node[x].parent
        n1 == Set(t.node, c, "parent", p)
        n2 == Set(n1, x, Opposite(side), t.node[c][side])
        n3 == Set(n2, c, side, x)
        n4 == Set(n3, x, "parent", c)
    IN  [root |-> IF p = Nil THEN c ELSE t.root,
         node |-> Set(n4, p, IF p # Nil /\ t.node[p].right = x THEN "right" ELSE "left", c)]

\* rbtree_rotate_left and rbtree_rotate_right: x goes down to `side`, its other child c up.
Rotate(t, x, side) ==
    LET c == t.node[x][Opposite(side)]
        p == t.node[x].parent
        inner == t.node[c][side]
        n1 == Set(t.node, c, "parent", p)
        n2 == Set(n1, x, Opposite(side), inner)
        n3 == Set(n2, inner, "parent", x)
        n4 == Set(n3, c, side, x)
        n5 == Set(n4, x, "parent", c)
    IN  [root |-> IF p = Nil THEN c ELSE t.root,
         node |-> Set(n5, p, IF p # Nil /\ t.node[p].right = x THEN "right" ELSE "left", c)]

\* The loop of rbtree_fix_tree is over; s is its tree and its red node.
Fixed(s) == s.target = s.tree.root \/ ~ Red(s.tree, s.tree.node[s.target].parent)

\* A round of the loop.
FixRound(s) ==
    LET t == s.tree
        x == s.target
        p == t.node[x].parent
        g == t.node[p].parent
        side == IF p = t.node[g].left THEN "left" ELSE "right"
        uncle == t.node[g][Opposite(side)]
        inside == x = t.node[p][Opposite(side)]
        u == IF inside THEN Rotate(t, p, side) ELSE t
        y == IF inside THEN p ELSE x
        q == u.node[y].parent
    IN  IF Red(t, uncle)
        THEN [tree |-> Paint(Paint(Paint(t, p, FALSE), uncle, FALSE), g, TRUE), target |-> g]
        ELSE [tree |-> Rotate(Paint(Paint(u, q, FALSE), g, TRUE), g, Opposite(side)), target |-> y]

\* rbtree_fix_tree from the red node x on.  A round that is not the last moves to a node that
\* has more nodes below it, so the loop has fewer rounds than the tree has nodes.
FixTree(t, x) ==
    LET rounds == Cardinality(DOMAIN t.node)
        after[n \in 0..rounds] ==
            IF n = 0 THEN [tree |-> t, target |-> x]
            ELSE LET s == after[n - 1] IN IF Fixed(s) THEN s ELSE FixRound(s)
        u == after[rounds].tree
    IN  Paint(u, u.root, FALSE)

\* The child of x on the way to k.
Towards(t, x, k) == t.node[x][IF k > x THEN "right" ELSE "left"]

\* Where the loop of rbtree_insert ends: at k, or at the node below which k is missing.
Place(t, k) ==
    LET rounds == Cardinality(DOMAIN t.node)
        after[n \in 0..rounds] ==
            IF n = 0 THEN t.root
            ELSE LET x == after[n - 1]
                 IN  IF x = k \/ Towards(t, x, k) = Nil THEN x ELSE Towards(t, x, k)
    IN  after[rounds]

\* A red node for k below x.
Hang(t, x, k, elem) ==
    [root |-> t.root,
     node |-> [i \in DOMAIN t.node \cup {k} |->
                 IF i = k THEN NewNode(x, TRUE, elem)
                 ELSE IF i = x THEN [t.node[x] EXCEPT ![IF k > x THEN "right" ELSE "left"] = k]
                 ELSE t.node[i]]]

\* rbtree_insert: fill the empty root, overwrite the element of an equal key, or hang a red
\* node where the search ends and repair the tree.
Insert(t, k, elem) ==
    LET x == Place(t, k)
    IN  IF t.root = Nil THEN [root |-> k, node |-> [i \in {k} |-> NewNode(Nil, FALSE, elem)]]
        ELSE IF x = k THEN [root |-> t.root, node |-> Set(t.node, k, "elem", elem)]
        ELSE FixTree(Hang(t, x, k, elem), k)

\* rbtree_search_node: the element of key k, Nil if there is none.
Search(t, k) ==
    LET from[x \in DOMAIN t.node \cup {Nil}] ==
            CASE x = Nil -> Nil
              [] x = k -> t.node[x].elem
              [] OTHER -> from[IF k < x THEN t.node[x].left ELSE t.node[x].right]
    IN  from[t.root]

---------------------------------------------------------------------------
(* What a red-black tree is. *)

\* Numbers of black nodes on the ways from x down to Nil.
BlackHeights(t, x) ==
    LET heights[y \in DOMAIN t.node \cup {Nil}] ==
            IF y = Nil THEN {0}
            ELSE {h + (IF Red(t, y) THEN 0 ELSE 1) :
                     h \in heights[t.node[y].left] \cup heights[t.node[y].right]}
    IN  heights[x]

\* The keys at x and below.
Below(t, x) ==
    LET below[y \in DOMAIN t.node \cup {Nil}] ==
            IF y = Nil THEN {}
            ELSE {y} \cup below[t.node[y].left] \cup below[t.node[y].right]
    IN  below[x]

IsRedBlack(t) ==
    /\ ~ Red(t, t.root)
    /\ t.root # Nil => t.node[t.root].parent = Nil
    /\ Below(t, t.root) = DOMAIN t.node
    /\ \A x \in DOMAIN t.node :
          /\ \A y \in Below(t, t.node[x].left) : y < x
          /\ \A y \in Below(t, t.node[x].right) : x < y
          /\ \A y \in {t.node[x].left, t.node[x].right} \ {Nil} : t.node[y].parent = x
          /\ Red(t, x) => ~ Red(t, t.node[x].parent)
    /\ Cardinality(BlackHeights(t, t.root)) = 1

=============================================================================
