------------------------- MODULE RedBlackTreeProofs -------------------------
(***************************************************************************)
(* rbtree.c for trees of any size, first part: what the rotations, a round *)
(* of rbtree_fix_tree and the assignments of rbtree_insert do to a tree.   *)
(***************************************************************************)
EXTENDS RedBlackTree, TLAPS

(***************************************************************************)
(* Trees over a set D of keys, with elements in E                          *)
(***************************************************************************)
Sides  == {"left", "right"}
Links  == {"left", "right", "parent"}
Fields == {"left", "right", "parent", "red", "elem"}

NodeOf(D, E) == [left : D \cup {Nil}, right : D \cup {Nil}, parent : D \cup {Nil}, red : BOOLEAN, elem : E]
Nodes(D, E)  == [D -> NodeOf(D, E)]
Tree(D, E)   == [root : D \cup {Nil}, node : Nodes(D, E)]

\* M is N after the assignment of v to field f of node z.
Assigned(D, N, M, z, f, v) ==
    \A y \in D : \A h \in Fields : M[y][h] = IF y = z /\ h = f THEN v ELSE N[y][h]

\* Assigning to a link of a node; a pointer that is NULL is not followed.
LEMMA SetLink ==
    ASSUME NEW D, Nil \notin D, NEW E, NEW N \in Nodes(D, E), NEW z \in D \cup {Nil},
           NEW f \in Links, NEW v \in D \cup {Nil}
    PROVE  Set(N, z, f, v) \in Nodes(D, E) /\ Assigned(D, N, Set(N, z, f, v), z, f, v)
<1>1. CASE z = Nil
    <2>1. Set(N, z, f, v) = N
        BY <1>1 DEF Set
    <2>2. \A y \in D : y # z
        BY <1>1
    <2>. QED
        BY <2>1, <2>2 DEF Assigned
<1>2. CASE z # Nil
    <2>0. z \in D /\ N[z] \in NodeOf(D, E)
        BY <1>2 DEF Nodes
    <2>1. [N[z] EXCEPT ![f] = v] \in NodeOf(D, E)
       BY <2>0 DEF NodeOf, Links
    <2>2. \A h \in Fields : [N[z] EXCEPT ![f] = v][h] = IF h = f THEN v ELSE N[z][h]
       BY <2>0 DEF NodeOf, Links, Fields
    <2>3. Set(N, z, f, v) = [N EXCEPT ![z] = [N[z] EXCEPT ![f] = v]]
       BY <1>2 DEF Set
    <2>. QED
       BY <2>0, <2>1, <2>2, <2>3 DEF Nodes, Assigned
<1>. QED
    BY <1>1, <1>2

\* Assigning to the colour of a node.
LEMMA SetColour ==
    ASSUME NEW D, Nil \notin D, NEW E, NEW N \in Nodes(D, E), NEW z \in D \cup {Nil}, NEW v \in BOOLEAN
    PROVE  Set(N, z, "red", v) \in Nodes(D, E) /\ Assigned(D, N, Set(N, z, "red", v), z, "red", v)
<1>1. CASE z = Nil
    <2>1. Set(N, z, "red", v) = N
        BY <1>1 DEF Set
    <2>2. \A y \in D : y # z
        BY <1>1
    <2>. QED
        BY <2>1, <2>2 DEF Assigned
<1>2. CASE z # Nil
    <2>0. z \in D /\ N[z] \in NodeOf(D, E)
        BY <1>2 DEF Nodes
    <2>1. [N[z] EXCEPT !["red"] = v] \in NodeOf(D, E)
       BY <2>0 DEF NodeOf
    <2>2. \A h \in Fields : [N[z] EXCEPT !["red"] = v][h] = IF h = "red" THEN v ELSE N[z][h]
       BY <2>0 DEF NodeOf, Fields
    <2>3. Set(N, z, "red", v) = [N EXCEPT ![z] = [N[z] EXCEPT !["red"] = v]]
       BY <1>2 DEF Set
    <2>. QED
       BY <2>0, <2>1, <2>2, <2>3, Zenon DEF Nodes, Assigned
<1>. QED
    BY <1>1, <1>2

\* Assigning to the element of a node.
LEMMA SetElem ==
    ASSUME NEW D, Nil \notin D, NEW E, NEW N \in Nodes(D, E), NEW z \in D \cup {Nil}, NEW v \in E
    PROVE  Set(N, z, "elem", v) \in Nodes(D, E) /\ Assigned(D, N, Set(N, z, "elem", v), z, "elem", v)
<1>1. CASE z = Nil
    <2>1. Set(N, z, "elem", v) = N
        BY <1>1 DEF Set
    <2>2. \A y \in D : y # z
        BY <1>1
    <2>. QED
        BY <2>1, <2>2 DEF Assigned
<1>2. CASE z # Nil
    <2>0. z \in D /\ N[z] \in NodeOf(D, E)
        BY <1>2 DEF Nodes
    <2>1. [N[z] EXCEPT !["elem"] = v] \in NodeOf(D, E)
       BY <2>0 DEF NodeOf
    <2>2. \A h \in Fields : [N[z] EXCEPT !["elem"] = v][h] = IF h = "elem" THEN v ELSE N[z][h]
       BY <2>0 DEF NodeOf, Fields
    <2>3. Set(N, z, "elem", v) = [N EXCEPT ![z] = [N[z] EXCEPT !["elem"] = v]]
       BY <1>2 DEF Set
    <2>. QED
       BY <2>0, <2>1, <2>2, <2>3, Zenon DEF Nodes, Assigned
<1>. QED
    BY <1>1, <1>2

\* What the rotation of x changes.
Rotated(D, t, u, x, c, p, i, side, at) ==
    /\ u.root = IF p = Nil THEN c ELSE t.root
    /\ \A y \in D : \A h \in Fields : u.node[y][h] =
            IF y = p /\ h = at THEN c
            ELSE IF y = x /\ h = "parent" THEN c
            ELSE IF y = c /\ h = side THEN x
            ELSE IF y = i /\ h = "parent" THEN x
            ELSE IF y = x /\ h = Opposite(side) THEN i
            ELSE IF y = c /\ h = "parent" THEN p
            ELSE t.node[y][h]

\* The assignments of rbtree_rotate, in its order, come to what Rotated says.
LEMMA RotateWrites ==
    ASSUME NEW D, Nil \notin D, NEW E, NEW t \in Tree(D, E), NEW x \in D, NEW side \in Sides,
           NEW c \in D, t.node[x][Opposite(side)] = c,
           NEW p, t.node[x].parent = p, NEW i, t.node[c][side] = i,
           NEW at, at = IF p # Nil /\ t.node[p].right = x THEN "right" ELSE "left"
    PROVE  Rotate(t, x, side) \in Tree(D, E) /\ Rotated(D, t, Rotate(t, x, side), x, c, p, i, side, at)
<1>. DEFINE o == Opposite(side)
<1>0. /\ side \in Links /\ o \in Links /\ at \in Links /\ "parent" \in Links
      /\ side # o /\ side # "parent" /\ o # "parent"
    BY DEF Sides, Links, Fields, Opposite
<1>. DEFINE N1 == Set(t.node, c, "parent", p)
            N2 == Set(N1, x, o, i)
            N3 == Set(N2, i, "parent", x)
            N4 == Set(N3, c, side, x)
            N5 == Set(N4, x, "parent", c)
            N6 == Set(N5, p, at, c)
<1>1. Rotate(t, x, side) = [root |-> IF p = Nil THEN c ELSE t.root, node |-> N6]
    BY Zenon DEF Rotate
<1>2. t.node \in Nodes(D, E) /\ p \in D \cup {Nil} /\ i \in D \cup {Nil} /\ t.root \in D \cup {Nil}
    <2>1. t.node \in Nodes(D, E) /\ t.root \in D \cup {Nil}
        BY DEF Tree
    <2>2. t.node[x] \in NodeOf(D, E) /\ t.node[c] \in NodeOf(D, E)
        BY <2>1 DEF Nodes
    <2>. QED
        BY <1>0, <2>1, <2>2 DEF NodeOf, Sides
<1>3. c \in D \cup {Nil} /\ x \in D \cup {Nil}
    OBVIOUS
<1>. HIDE DEF o
<1>4. N1 \in Nodes(D, E) /\ Assigned(D, t.node, N1, c, "parent", p)
    BY <1>0, <1>2, <1>3, SetLink, SMTT(30)
<1>. HIDE DEF N1
<1>5. N2 \in Nodes(D, E) /\ Assigned(D, N1, N2, x, o, i)
    BY <1>0, <1>2, <1>3, <1>4, SetLink
<1>. HIDE DEF N2
<1>6. N3 \in Nodes(D, E) /\ Assigned(D, N2, N3, i, "parent", x)
    BY <1>0, <1>2, <1>3, <1>5, SetLink
<1>. HIDE DEF N3
<1>7. N4 \in Nodes(D, E) /\ Assigned(D, N3, N4, c, side, x)
    BY <1>0, <1>2, <1>3, <1>6, SetLink
<1>. HIDE DEF N4
<1>8. N5 \in Nodes(D, E) /\ Assigned(D, N4, N5, x, "parent", c)
    BY <1>0, <1>2, <1>3, <1>7, SetLink
<1>. HIDE DEF N5
<1>9. N6 \in Nodes(D, E) /\ Assigned(D, N5, N6, p, at, c)
    BY <1>0, <1>2, <1>3, <1>8, SetLink, SMTT(30)
<1>. HIDE DEF N6
<1>10. Rotate(t, x, side) \in Tree(D, E)
    BY <1>1, <1>2, <1>3, <1>9 DEF Tree
<1>11. /\ Rotate(t, x, side).root = (IF p = Nil THEN c ELSE t.root)
       /\ Rotate(t, x, side).node = N6
    BY <1>1
<1>. HIDE DEF Rotate
<1>. QED
    BY <1>0, <1>4, <1>5, <1>6, <1>7, <1>8, <1>9, <1>10, <1>11 DEF Assigned, Rotated, o

(***************************************************************************)
(* Search trees                                                            *)
(***************************************************************************)
\* Children and parents agree, and every node but the root is a child.
Linked(D, t) ==
    /\ D # {} => t.root \in D
    /\ t.root \in D => t.node[t.root].parent = Nil
    /\ \A x \in D : \A s \in Sides : t.node[x][s] # Nil => t.node[t.node[x][s]].parent = x
    /\ \A x \in D : x # t.root => t.node[x].parent \in D /\ \E s \in Sides : t.node[t.node[x].parent][s] = x

\* y belongs on side s of x.
Beyond(s, y, x) == IF s = "left" THEN y < x ELSE x < y

\* B[x] are the keys at x and below.
Ordered(D, t, B) ==
    /\ B \in [D \cup {Nil} -> SUBSET D]
    /\ B[Nil] = {}
    /\ \A x \in D : B[x] = {x} \cup B[t.node[x].left] \cup B[t.node[x].right]
    /\ \A x \in D : \A s \in Sides : \A y \in B[t.node[x][s]] : Beyond(s, y, x)
    /\ B[t.root] = D

\* The order of the keys, as the two sides see it.
Order(D) ==
    /\ \A s \in Sides : \A x \in D : ~ Beyond(s, x, x)
    /\ \A s \in Sides : \A x, y \in D : Beyond(s, x, y) <=> Beyond(Opposite(s), y, x)
    /\ \A s \in Sides : \A x, y, z \in D : Beyond(s, x, y) /\ Beyond(s, y, z) => Beyond(s, x, z)

\* Numbers are ordered.
LEMMA OrderHolds == ASSUME NEW D, D \subseteq Nat PROVE Order(D)
BY DEF Sides, Beyond, Opposite, Order

\* There are two sides.
LEMMA TwoSides ==
    /\ \A s \in Sides : Opposite(s) \in Sides /\ Opposite(Opposite(s)) = s /\ s # Opposite(s)
    /\ \A s, r \in Sides : r = s \/ r = Opposite(s)
BY DEF Sides, Opposite

\* The type of a link.
LEMMA LinkType ==
    ASSUME NEW D, NEW E, NEW t \in Tree(D, E)
    PROVE  /\ t.root \in D \cup {Nil}
           /\ \A x \in D : /\ \A s \in Sides : t.node[x][s] \in D \cup {Nil}
                           /\ t.node[x].parent \in D \cup {Nil}
                           /\ t.node[x].red \in BOOLEAN /\ t.node[x].elem \in E
<1>1. t.node \in Nodes(D, E) /\ t.root \in D \cup {Nil}
    BY DEF Tree
<1>2. \A x \in D : t.node[x] \in NodeOf(D, E)
    BY <1>1 DEF Nodes
<1>. QED
    BY <1>1, <1>2 DEF NodeOf, Sides

\* The keys below x, on either side.
LEMMA BelowSides ==
    ASSUME NEW D, NEW t, NEW B, Ordered(D, t, B), NEW x \in D, NEW s \in Sides
    PROVE  B[x] = {x} \cup B[t.node[x][s]] \cup B[t.node[x][Opposite(s)]]
<1>1. B[x] = {x} \cup B[t.node[x].left] \cup B[t.node[x].right]
    BY DEF Ordered
<1>2. CASE s = "left"
    BY <1>1, <1>2 DEF Opposite
<1>3. CASE s = "right"
    BY <1>1, <1>3 DEF Opposite
<1>. QED
    BY <1>2, <1>3 DEF Sides

SearchTree(D, E, t, B) ==
    Nil \notin D /\ D \subseteq Nat \ {0} /\ t \in Tree(D, E) /\ Linked(D, t) /\ Ordered(D, t, B)

\* A node is among the keys at it and below.
LEMMA SelfBelow ==
    ASSUME NEW D, NEW E, NEW t, NEW B, SearchTree(D, E, t, B), NEW x \in D
    PROVE  x \in B[x]
<1>1. B[x] = {x} \cup B[t.node[x].left] \cup B[t.node[x].right]
    BY DEF SearchTree, Ordered
<1>. QED
    BY <1>1

\* The nodes next to x, of which c goes up.
Near(D, t, x, c, p, i, side) ==
    /\ x \in D /\ c \in D /\ side \in Sides
    /\ t.node[x][Opposite(side)] = c /\ t.node[x].parent = p /\ t.node[c][side] = i

\* They are all different.
Apart(D, t, x, c, p, i, side) ==
    /\ c # x /\ p # x /\ p # c /\ i # x /\ i # c /\ (i # Nil => i # p)
    /\ t.node[x][side] # c /\ t.node[c][Opposite(side)] # x
    /\ x # t.root => p \in D
    /\ p = Nil => x = t.root

\* The two children of a node are different.
LEMMA Siblings ==
    ASSUME NEW D, NEW E, NEW t, NEW B, SearchTree(D, E, t, B), NEW z \in D, NEW s \in Sides, t.node[z][s] # Nil
    PROVE  t.node[z][s] # t.node[z][Opposite(s)]
<1>. DEFINE y == t.node[z][s]
<1>1. Order(D) /\ y \in D /\ Opposite(s) \in Sides
    <2>1. D \subseteq Nat /\ t \in Tree(D, E)
        BY DEF SearchTree
    <2>2. Order(D)
        BY <2>1, OrderHolds
    <2>3. y \in D \cup {Nil}
        BY <2>1, LinkType
    <2>. QED
        BY <2>2, <2>3, TwoSides
<1>2. y \in B[y]
    BY <1>1, SelfBelow
<1>3. SUFFICES ASSUME t.node[z][Opposite(s)] = y PROVE FALSE
    OBVIOUS
<1>4. Beyond(s, y, z) /\ Beyond(Opposite(s), y, z)
    BY <1>1, <1>2, <1>3, Zenon DEF SearchTree, Ordered
<1>5. Beyond(Opposite(s), z, y)
    BY <1>1, <1>4 DEF Order
<1>6. Beyond(Opposite(s), y, y)
    BY <1>1, <1>4, <1>5 DEF Order
<1>. QED
    BY <1>1, <1>6 DEF Order

\* A node is none of those near it.
LEMMA Distinct ==
    ASSUME NEW D, NEW E, NEW t, NEW B, SearchTree(D, E, t, B),
           NEW x, NEW c, NEW p, NEW i, NEW side, Near(D, t, x, c, p, i, side)
    PROVE  Apart(D, t, x, c, p, i, side)
<1>. USE DEF SearchTree, Near
<1>. DEFINE o == Opposite(side)
<1>0. Order(D)
    BY OrderHolds, Zenon
<1>1. o \in Sides /\ Opposite(o) = side
    BY TwoSides
<1>2. /\ B \in [D \cup {Nil} -> SUBSET D]
      /\ \A y \in D : \A s \in Sides : \A z \in B[t.node[y][s]] : Beyond(s, z, y)
    BY DEF Ordered
<1>21. ASSUME NEW y \in D, NEW s \in Sides PROVE B[t.node[y][s]] \subseteq B[y] /\ y \in B[y]
    <2>1. B[y] = {y} \cup B[t.node[y][s]] \cup B[t.node[y][Opposite(s)]]
        BY BelowSides
    <2>. QED
        BY <2>1
<1>3. i \in D \cup {Nil} /\ p \in D \cup {Nil}
    BY LinkType
<1>22. \A y \in D : \A s \in Sides : y \notin B[t.node[y][s]]
    BY <1>0, <1>2 DEF Order
<1>. HIDE DEF o
<1>4. c \in B[c] /\ Beyond(o, c, x) /\ c # x
    BY <1>0, <1>1, <1>2, <1>21 DEF o, Order
<1>5. B[i] \subseteq B[c] /\ (i \in D => i \in B[i] /\ Beyond(side, i, c) /\ Beyond(o, i, x))
    BY <1>1, <1>2, <1>21, Zenon DEF o
<1>6. i # c /\ i # x
    BY <1>0, <1>1, <1>3, <1>5 DEF Order
<1>7. x \notin B[c]
    BY <1>1, <1>22 DEF o
<1>8. ASSUME x # t.root PROVE p \in D /\ \E s \in Sides : t.node[p][s] = x
    BY <1>8 DEF Linked
<1>9. ASSUME x # t.root
      PROVE x \in B[p] /\ x # p /\ (\A s \in Sides : t.node[p][s] = x => Beyond(s, x, p))
    <2>1. PICK s \in Sides : t.node[p][s] = x
        BY <1>8, <1>9
    <2>2. x \in B[x]
        BY <1>21, TwoSides, Zenon
    <2>0. p \in D
        BY <1>8, <1>9
    <2>3. x \in B[p] /\ x # p
        BY <1>21, <1>22, <2>0, <2>1, <2>2
    <2>. QED
        BY <1>2, <1>8, <1>9, <2>2, <2>3, Zenon
<1>10. x = t.root => p = Nil
    BY DEF Linked
<1>11. p # x /\ p # c /\ (i # Nil => i # p)
    BY <1>3, <1>5, <1>7, <1>9, <1>10
<1>12. t.node[x][side] # c
    <2>1. ~(Beyond(o, c, x) /\ Beyond(side, c, x))
        BY <1>0, <1>1 DEF Order
    <2>. QED
        BY <1>2, <1>4, <2>1, Zenon
<1>13. t.node[c][o] # x
    <2>1. B[t.node[c][o]] \subseteq B[c] /\ x \in B[x]
        BY <1>1, <1>21
    <2>. QED
        BY <1>7, <2>1
<1>15. p = Nil => x = t.root
    BY <1>8
<1>. QED
    BY <1>4, <1>6, <1>8, <1>11, <1>12, <1>13, <1>15 DEF o, Apart

\* Every pointer to x now points to c, which has x below it; i has changed sides.
Turned(D, t, u, x, c, p, i, side) ==
    /\ u.node[c][side] = x /\ u.node[c][Opposite(side)] = t.node[c][Opposite(side)] /\ u.node[c].parent = p
    /\ u.node[x][Opposite(side)] = i /\ u.node[x][side] = t.node[x][side] /\ u.node[x].parent = c
    /\ \A z \in D \ {x, c} : \A s \in Sides :
            u.node[z][s] = IF t.node[z][s] = x THEN c ELSE t.node[z][s]
    /\ \A z \in D \ {x, c} : u.node[z].parent = IF z = i THEN x ELSE t.node[z].parent
    /\ u.root = IF t.root = x THEN c ELSE t.root
    /\ \A z \in D : u.node[z].red = t.node[z].red /\ u.node[z].elem = t.node[z].elem

\* In a search tree no two of the nodes that rbtree_rotate writes to are the same, so its
\* assignments do not undo each other.
LEMMA RotateTurns ==
    ASSUME NEW D, NEW E, NEW t, NEW B, SearchTree(D, E, t, B),
           NEW x, NEW c, NEW p, NEW i, NEW side, Near(D, t, x, c, p, i, side)
    PROVE  Rotate(t, x, side) \in Tree(D, E) /\ Turned(D, t, Rotate(t, x, side), x, c, p, i, side)
<1>. DEFINE at == IF p # Nil /\ t.node[p].right = x THEN "right" ELSE "left"
            u == Rotate(t, x, side)
<1>0. /\ Nil \notin D /\ t \in Tree(D, E) /\ Linked(D, t) /\ x \in D /\ c \in D /\ side \in Sides
      /\ t.node[x][Opposite(side)] = c /\ t.node[x].parent = p /\ t.node[c][side] = i
    BY DEF SearchTree, Near
<1>1. u \in Tree(D, E) /\ Rotated(D, t, u, x, c, p, i, side, at)
    BY <1>0, RotateWrites
<1>2. /\ c # x /\ p # x /\ p # c /\ i # x /\ i # c /\ (i # Nil => i # p)
      /\ x # t.root => p \in D
      /\ p = Nil => x = t.root
    BY <1>0, Distinct DEF Apart
<1>3. /\ Opposite(side) \in Sides /\ side # Opposite(side) /\ Sides \subseteq Fields /\ "parent" \in Fields
      /\ "parent" \notin Sides /\ at \in Sides /\ "red" \in Fields /\ "elem" \in Fields
      /\ "red" \notin Sides /\ "elem" \notin Sides /\ "red" # "parent" /\ "elem" # "parent"
    BY <1>0, TwoSides DEF Sides, Fields
<1>4. /\ t.root = x => p = Nil
      /\ \A z \in D : \A s \in Sides : t.node[z][s] = x => z = p
      /\ x # t.root => \E s \in Sides : t.node[p][s] = x
    BY <1>0 DEF Linked
<1>5. ASSUME p # Nil PROVE t.node[p][at] = x /\ t.node[p][Opposite(at)] # x
    <2>0. x # t.root /\ p \in D /\ x # Nil
        BY <1>0, <1>2, <1>4, <1>5
    <2>1. t.node[p][at] = x
        <3>1. CASE t.node[p].right = x
            BY <1>0, <1>5, <3>1
        <3>2. CASE t.node[p].right # x
            BY <1>0, <1>4, <2>0, <3>2 DEF Sides
        <3>. QED
            BY <1>0, <3>1, <3>2
    <2>. QED
        BY <1>0, <1>3, <2>0, <2>1, Siblings
<1>. HIDE DEF at, u
<1>6. \A y \in D : \A h \in Fields : u.node[y][h] =
            IF y = p /\ h = at THEN c
            ELSE IF y = x /\ h = "parent" THEN c
            ELSE IF y = c /\ h = side THEN x
            ELSE IF y = i /\ h = "parent" THEN x
            ELSE IF y = x /\ h = Opposite(side) THEN i
            ELSE IF y = c /\ h = "parent" THEN p
            ELSE t.node[y][h]
    BY <1>0, <1>1 DEF Rotated
<1>7. u.root = IF t.root = x THEN c ELSE t.root
    BY <1>0, <1>1, <1>2, <1>4 DEF Rotated
<1>8. /\ u.node[c][side] = x /\ u.node[c][Opposite(side)] = t.node[c][Opposite(side)] /\ u.node[c]["parent"] = p
      /\ u.node[x][Opposite(side)] = i /\ u.node[x][side] = t.node[x][side] /\ u.node[x]["parent"] = c
    BY <1>0, <1>2, <1>3, <1>6
<1>9. ASSUME NEW z \in D \ {x, c}, NEW s \in Sides
      PROVE  u.node[z][s] = IF t.node[z][s] = x THEN c ELSE t.node[z][s]
    <2>1. u.node[z][s] = IF z = p /\ s = at THEN c ELSE t.node[z][s]
        BY <1>0, <1>3, <1>6
    <2>2. CASE z = p
        <3>1. p # Nil
            BY <1>0, <2>2
        <3>2. s = at \/ s = Opposite(at)
            BY <1>0, <1>3, TwoSides
        <3>. QED
            BY <1>0, <1>3, <1>5, <2>1, <2>2, <3>1, <3>2
    <2>3. CASE z # p
        BY <1>0, <1>4, <2>1, <2>3
    <2>. QED
        BY <1>0, <2>2, <2>3
<1>10. \A z \in D \ {x, c} : u.node[z]["parent"] = IF z = i THEN x ELSE t.node[z]["parent"]
    BY <1>0, <1>3, <1>6
<1>11. \A z \in D : u.node[z]["red"] = t.node[z]["red"] /\ u.node[z]["elem"] = t.node[z]["elem"]
    BY <1>0, <1>3, <1>6
<1>12. Turned(D, t, u, x, c, p, i, side)
    BY <1>0, <1>7, <1>8, <1>9, <1>10, <1>11 DEF Turned
<1>. QED
    BY <1>0, <1>1, <1>12 DEF u

\* A rotation keeps children and parents in agreement.
LEMMA TurnedLinked ==
    ASSUME NEW D, NEW E, NEW t, NEW B, SearchTree(D, E, t, B),
           NEW x, NEW c, NEW p, NEW i, NEW side, Near(D, t, x, c, p, i, side),
           NEW u \in Tree(D, E), Turned(D, t, u, x, c, p, i, side)
    PROVE  Linked(D, u)
<1>0. /\ Nil \notin D /\ t \in Tree(D, E) /\ Linked(D, t) /\ x \in D /\ c \in D /\ side \in Sides
      /\ t.node[x][Opposite(side)] = c /\ t.node[x].parent = p /\ t.node[c][side] = i
    BY DEF SearchTree, Near
<1>1. /\ c # x /\ p # x /\ p # c /\ i # x /\ i # c /\ (i # Nil => i # p)
      /\ t.node[x][side] # c /\ t.node[c][Opposite(side)] # x
      /\ x # t.root => p \in D
      /\ p = Nil => x = t.root
    BY <1>0, Distinct DEF Apart
<1>2. /\ Opposite(side) \in Sides /\ side # Opposite(side) /\ Opposite(Opposite(side)) = side
      /\ \A s \in Sides : s = side \/ s = Opposite(side)
    BY <1>0, TwoSides
<1>3. /\ D # {} => t.root \in D
      /\ t.root \in D => t.node[t.root].parent = Nil
      /\ \A z \in D : \A s \in Sides : t.node[z][s] # Nil => t.node[t.node[z][s]].parent = z
      /\ \A z \in D : z # t.root => t.node[z].parent \in D /\ \E s \in Sides : t.node[t.node[z].parent][s] = z
    BY <1>0 DEF Linked
<1>4. \A z \in D : \A s \in Sides : t.node[z][s] \in D \cup {Nil} /\ u.node[z][s] \in D \cup {Nil}
    BY <1>0, LinkType
<1>5. /\ u.node[c][side] = x /\ u.node[c][Opposite(side)] = t.node[c][Opposite(side)] /\ u.node[c].parent = p
      /\ u.node[x][Opposite(side)] = i /\ u.node[x][side] = t.node[x][side] /\ u.node[x].parent = c
      /\ \A z \in D \ {x, c} : \A s \in Sides :
            u.node[z][s] = IF t.node[z][s] = x THEN c ELSE t.node[z][s]
      /\ \A z \in D \ {x, c} : u.node[z].parent = IF z = i THEN x ELSE t.node[z].parent
      /\ u.root = IF t.root = x THEN c ELSE t.root
    BY <1>0 DEF Turned
<1>50. c # Nil /\ t.node[c].parent = x /\ (i # Nil => t.node[i].parent = c)
    BY <1>0, <1>2, <1>3
<1>51. /\ i # Nil => i # t.node[c][Opposite(side)]
       /\ t.node[x][side] # x /\ t.node[c][Opposite(side)] # c
    <2>1. i # Nil => i # t.node[c][Opposite(side)]
        BY <1>0, Siblings
    <2>0. \A z \in D : \A s \in Sides : t.node[z][s] = z => t.node[z].parent = z
        BY <1>0, <1>3
    <2>2. t.node[x][side] # x
        BY <1>0, <1>1, <2>0
    <2>3. t.node[c][Opposite(side)] # c
        BY <1>0, <1>1, <1>2, <1>50, <2>0
    <2>. QED
        BY <1>0, <2>1, <2>2, <2>3
<1>6. u.root \in D /\ u.node[u.root].parent = Nil
    <2>1. CASE t.root = x
        BY <1>0, <1>3, <1>5, <2>1
    <2>2. CASE t.root # x
        <3>1. t.root \in D /\ t.node[t.root].parent = Nil
            BY <1>0, <1>3
        <3>2. t.root # c
            BY <1>0, <1>50, <3>1
        <3>3. t.root # i
            BY <1>0, <1>50, <3>1
        <3>4. u.root = t.root /\ t.root \in D \ {x, c}
            BY <1>0, <1>5, <2>2, <3>1, <3>2
        <3>5. u.node[t.root].parent = t.node[t.root].parent
            BY <1>0, <1>5, <3>3, <3>4
        <3>. QED
            BY <1>0, <3>1, <3>4, <3>5
    <2>. QED
        BY <1>0, <2>1, <2>2
<1>7. ASSUME NEW z \in D, NEW s \in Sides, u.node[z][s] # Nil PROVE u.node[u.node[z][s]].parent = z
    <2>. DEFINE w == t.node[z][s]
    <2>0. w # Nil => w \in D /\ t.node[w].parent = z
        BY <1>0, <1>3, <1>4
    <2>1. CASE z = c /\ s = side
        BY <1>0, <1>5, <2>1
    <2>2. CASE z = c /\ s = Opposite(side)
        <3>1. u.node[z][s] = w /\ w # Nil
            BY <1>0, <1>5, <1>7, <2>2
        <3>2. w \in D \ {x, c} /\ w # i
            BY <1>0, <1>1, <1>51, <2>0, <2>2, <3>1
        <3>. QED
            BY <1>0, <1>5, <2>0, <3>1, <3>2
    <2>3. CASE z = x /\ s = side
        <3>1. u.node[z][s] = w /\ w # Nil
            BY <1>0, <1>5, <1>7, <2>3
        <3>2. w \in D \ {x, c} /\ w # i
            BY <1>0, <1>1, <1>50, <1>51, <2>0, <2>3, <3>1
        <3>. QED
            BY <1>0, <1>5, <2>0, <3>1, <3>2
    <2>4. CASE z = x /\ s = Opposite(side)
        <3>1. u.node[z][s] = i /\ i \in D \ {x, c}
            BY <1>0, <1>1, <1>4, <1>5, <1>7, <2>4
        <3>. QED
            BY <1>0, <1>5, <2>4, <3>1
    <2>5. CASE z \notin {x, c}
        <3>1. CASE w = x
            BY <1>0, <1>3, <1>5, <2>0, <2>5, <3>1
        <3>2. CASE w # x
            <4>1. u.node[z][s] = w /\ w # Nil
                BY <1>0, <1>5, <1>7, <2>5, <3>2
            <4>2. w \in D \ {x, c} /\ w # i
                BY <1>0, <1>50, <2>0, <2>5, <3>2, <4>1
            <4>. QED
                BY <1>0, <1>5, <2>0, <4>1, <4>2
        <3>. QED
            BY <1>0, <3>1, <3>2
    <2>. QED
        BY <1>0, <1>2, <2>1, <2>2, <2>3, <2>4, <2>5
<1>8. ASSUME NEW z \in D, z # u.root
      PROVE  u.node[z].parent \in D /\ \E s \in Sides : u.node[u.node[z].parent][s] = z
    <2>1. CASE z = x
        BY <1>0, <1>5, <2>1
    <2>2. CASE z = c
        <3>1. x # t.root
            BY <1>0, <1>5, <1>8, <2>2
        <3>2. p \in D \ {x, c} /\ \E s \in Sides : t.node[p][s] = x
            BY <1>0, <1>1, <1>3, <3>1
        <3>3. \E s \in Sides : u.node[p][s] = c
            BY <1>0, <1>5, <3>2
        <3>. QED
            BY <1>0, <1>5, <2>2, <3>2, <3>3
    <2>3. CASE z = i
        BY <1>0, <1>1, <1>2, <1>5, <2>3
    <2>4. CASE z \notin {x, c, i}
        <3>. DEFINE w == t.node[z].parent
        <3>1. z # t.root /\ u.node[z].parent = w
            BY <1>0, <1>5, <1>8, <2>4
        <3>2. w \in D
            BY <1>0, <1>3, <3>1
        <3>3. PICK s \in Sides : t.node[w][s] = z
            BY <1>0, <1>3, <3>1
        <3>. HIDE DEF w
        <3>4. CASE w = x
            <4>1. s # Opposite(side)
                BY <1>0, <2>4, <3>3, <3>4
            <4>2. s = side
                BY <1>0, <1>2, <4>1
            <4>. QED
                BY <1>0, <1>5, <3>1, <3>2, <3>3, <3>4, <4>2
        <3>5. CASE w = c
            <4>1. s # side
                BY <1>0, <2>4, <3>3, <3>5
            <4>2. s = Opposite(side)
                BY <1>0, <1>2, <4>1
            <4>. QED
                BY <1>0, <1>5, <3>1, <3>2, <3>3, <3>5, <4>2
        <3>6. CASE w \notin {x, c}
            <4>1. u.node[w][s] = z
                BY <1>0, <1>5, <2>4, <3>2, <3>3, <3>6
            <4>. QED
                BY <1>0, <3>1, <3>2, <4>1
        <3>. QED
            BY <1>0, <3>4, <3>5, <3>6
    <2>. QED
        BY <1>0, <2>1, <2>2, <2>3, <2>4
<1>. QED
    BY <1>0, <1>6, <1>7, <1>8 DEF Linked

\* The keys below every node after the rotation.
BelowTurned(t, B, x, c, i, side) ==
    [B EXCEPT ![x] = {x} \cup B[t.node[x][side]] \cup B[i], ![c] = B[x]]

\* A rotation keeps the order of the keys.
LEMMA TurnedOrdered ==
    ASSUME NEW D, NEW E, NEW t, NEW B, SearchTree(D, E, t, B),
           NEW x, NEW c, NEW p, NEW i, NEW side, Near(D, t, x, c, p, i, side),
           NEW u \in Tree(D, E), Turned(D, t, u, x, c, p, i, side)
    PROVE  Ordered(D, u, BelowTurned(t, B, x, c, i, side))
<1>0. /\ Nil \notin D /\ t \in Tree(D, E) /\ Linked(D, t) /\ x \in D /\ c \in D /\ side \in Sides
      /\ t.node[x][Opposite(side)] = c /\ t.node[x].parent = p /\ t.node[c][side] = i
      /\ Ordered(D, t, B) /\ D \subseteq Nat
    BY DEF SearchTree, Near
<1>. DEFINE o == Opposite(side)
            a == t.node[x][side]
            b == t.node[c][o]
            A == BelowTurned(t, B, x, c, i, side)
<1>1. c # x /\ i # x /\ i # c /\ a # c /\ b # x
    BY <1>0, Distinct DEF Apart
<1>2. o \in Sides /\ side # o /\ Opposite(o) = side /\ \A s \in Sides : s = side \/ s = o
    BY <1>0, TwoSides
<1>3. \A z \in D : \A s \in Sides : t.node[z][s] # Nil => t.node[t.node[z][s]].parent = z
    BY <1>0, Zenon DEF Linked
<1>4. \A z \in D : \A s \in Sides : t.node[z][s] \in D \cup {Nil} /\ u.node[z][s] \in D \cup {Nil}
    BY <1>0, LinkType
<1>5. t.node[c].parent = x /\ c # Nil /\ x # Nil
    BY <1>0, <1>2, <1>3
<1>6. a # x /\ b # c
    <2>0. \A z \in D : \A s \in Sides : t.node[z][s] = z => t.node[z].parent = z
        BY <1>0, <1>3
    <2>1. t.node[x].parent # x
        BY <1>0, Distinct DEF Apart
    <2>. QED
        BY <1>0, <1>1, <1>2, <1>5, <2>0, <2>1
<1>7. \A z \in D : \A s \in Sides : t.node[z][s] = c => z = x
    BY <1>0, <1>3, <1>5
<1>8. /\ u.node[c][side] = x /\ u.node[c][o] = b
      /\ u.node[x][o] = i /\ u.node[x][side] = a
      /\ \A z \in D \ {x, c} : \A s \in Sides :
            u.node[z][s] = IF t.node[z][s] = x THEN c ELSE t.node[z][s]
      /\ u.root = IF t.root = x THEN c ELSE t.root
    BY <1>0 DEF Turned
<1>9. /\ B \in [D \cup {Nil} -> SUBSET D] /\ B[Nil] = {} /\ B[t.root] = D
      /\ \A z \in D : \A s \in Sides : \A y \in B[t.node[z][s]] : Beyond(s, y, z)
    BY <1>0 DEF Ordered
<1>10. B[x] = {x} \cup B[a] \cup B[c] /\ B[c] = {c} \cup B[i] \cup B[b]
    <2>1. \A z \in D : \A s \in Sides : B[z] = {z} \cup B[t.node[z][s]] \cup B[t.node[z][Opposite(s)]]
        BY <1>0, BelowSides
    <2>. QED
        BY <1>0, <2>1
<1>11. a \in D \cup {Nil} /\ i \in D \cup {Nil} /\ b \in D \cup {Nil}
    BY <1>0, <1>2, <1>4
<1>. HIDE DEF a, b, o
<1>12. /\ A \in [D \cup {Nil} -> SUBSET D] /\ A[x] = {x} \cup B[a] \cup B[i] /\ A[c] = B[x]
       /\ \A z \in (D \cup {Nil}) \ {x, c} : A[z] = B[z]
    <2>1. B[a] \subseteq D /\ B[i] \subseteq D /\ B[x] \subseteq D
        BY <1>0, <1>9, <1>11
    <2>. DEFINE S == {x} \cup B[a] \cup B[i]
                T == B[x]
    <2>2. A = [B EXCEPT ![x] = S, ![c] = T]
        BY <1>0, Zenon DEF BelowTurned, a
    <2>3. S \in SUBSET D /\ T \in SUBSET D
        BY <1>0, <2>1
    <2>. HIDE DEF A, S, T
    <2>4. /\ A \in [D \cup {Nil} -> SUBSET D] /\ A[x] = S /\ A[c] = T
          /\ \A z \in (D \cup {Nil}) \ {x, c} : A[z] = B[z]
        BY <1>0, <1>1, <1>9, <2>2, <2>3, Zenon
    <2>. QED
        BY <1>0, <2>4 DEF S, T
<1>. HIDE DEF A
<1>13. A[Nil] = {} /\ A[a] = B[a] /\ A[i] = B[i] /\ A[b] = B[b]
    BY <1>0, <1>1, <1>5, <1>6, <1>9, <1>11, <1>12, Zenon
<1>14. ASSUME NEW z \in D \ {x, c}, NEW s \in Sides PROVE A[u.node[z][s]] = B[t.node[z][s]]
    <2>1. CASE t.node[z][s] = x
        BY <1>0, <1>8, <1>12, <2>1
    <2>2. CASE t.node[z][s] # x
        <3>1. u.node[z][s] = t.node[z][s] /\ t.node[z][s] \in (D \cup {Nil}) \ {x, c}
            BY <1>0, <1>4, <1>7, <1>8, <2>2
        <3>. QED
            BY <1>0, <1>12, <3>1, Zenon
    <2>. QED
        BY <1>0, <2>1, <2>2
<1>15. ASSUME NEW z \in D PROVE A[z] = {z} \cup A[u.node[z].left] \cup A[u.node[z].right]
    <2>1. A[z] = {z} \cup A[u.node[z][side]] \cup A[u.node[z][o]]
        <3>1. CASE z = x
            BY <1>0, <1>8, <1>12, <1>13, <3>1
        <3>2. CASE z = c
            BY <1>0, <1>8, <1>10, <1>12, <1>13, <3>2
        <3>3. CASE z \notin {x, c}
            <4>1. B[z] = {z} \cup B[t.node[z][side]] \cup B[t.node[z][o]]
                BY <1>0, BelowSides DEF o
            <4>2. A[z] = B[z]
                BY <1>0, <1>12, <3>3
            <4>. QED
                BY <1>0, <1>2, <1>14, <3>3, <4>1, <4>2
        <3>. QED
            BY <1>0, <3>1, <3>2, <3>3
    <2>2. CASE side = "left"
        BY <1>0, <2>1, <2>2 DEF o, Opposite
    <2>3. CASE side = "right"
        BY <1>0, <2>1, <2>3 DEF o, Opposite
    <2>. QED
        BY <1>0, <2>2, <2>3 DEF Sides
<1>16. Order(D)
    BY <1>0, OrderHolds, Zenon
<1>17. Beyond(o, c, x) /\ Beyond(side, x, c)
    <2>1. c \in B[c]
        BY <1>0, <1>10
    <2>2. Beyond(o, c, x)
        BY <1>0, <1>2, <1>9, <2>1 DEF o
    <2>. QED
        BY <1>0, <1>2, <1>16, <2>2 DEF Order
<1>18. ASSUME NEW z \in D, NEW s \in Sides, NEW y \in A[u.node[z][s]] PROVE Beyond(s, y, z)
    <2>1. CASE z = c /\ s = side
        <3>1. y \in {x} \cup B[a] \cup B[i]
            BY <1>0, <1>8, <1>12, <1>18, <2>1
        <3>2. CASE y = x
            BY <1>0, <1>17, <2>1, <3>2
        <3>3. CASE y \in B[a]
            <4>1. Beyond(side, y, x) /\ y \in D
                BY <1>0, <1>9, <1>11, <3>3 DEF a
            <4>. QED
                BY <1>0, <1>16, <1>17, <2>1, <4>1 DEF Order
        <3>4. CASE y \in B[i]
            BY <1>0, <1>9, <2>1, <3>4
        <3>. QED
            BY <1>0, <3>1, <3>2, <3>3, <3>4
    <2>2. CASE z = c /\ s = o
        BY <1>0, <1>2, <1>8, <1>9, <1>13, <1>18, <2>2, ZenonT(30) DEF b
    <2>3. CASE z = x /\ s = side
        BY <1>0, <1>8, <1>9, <1>13, <1>18, <2>3, Zenon DEF a
    <2>4. CASE z = x /\ s = o
        <3>1. y \in B[i]
            BY <1>0, <1>8, <1>13, <1>18, <2>4
        <3>2. y \in B[c]
            BY <1>0, <1>10, <3>1
        <3>. QED
            BY <1>0, <1>2, <1>9, <2>4, <3>2 DEF o
    <2>5. CASE z \notin {x, c}
        BY <1>0, <1>9, <1>14, <1>18, <2>5, ZenonT(30)
    <2>. QED
        BY <1>0, <1>2, <2>1, <2>2, <2>3, <2>4, <2>5
<1>19. A[u.root] = D
    <2>1. CASE t.root = x
        BY <1>0, <1>8, <1>9, <1>12, <2>1
    <2>2. CASE t.root # x
        <3>1. t.root # c /\ t.root \in D \cup {Nil}
            BY <1>0, <1>5, LinkType DEF Linked
        <3>. QED
            BY <1>0, <1>8, <1>9, <1>12, <2>2, <3>1, Zenon
    <2>. QED
        BY <1>0, <2>1, <2>2
<1>20. A \in [D \cup {Nil} -> SUBSET D] /\ A[Nil] = {}
    BY <1>0, <1>12, <1>13
<1>. QED
    BY <1>0, <1>15, <1>18, <1>19, <1>20 DEF Ordered, A

(***************************************************************************)
(* Colours                                                                 *)
(***************************************************************************)
\* The links are the same.
SameLinks(D, t, u) ==
    u.root = t.root /\ \A z \in D : \A h \in Links : u.node[z][h] = t.node[z][h]

\* The colour of k becomes v.
Painted(D, E, t, u, k, v) ==
    /\ u \in Tree(D, E) /\ SameLinks(D, t, u)
    /\ \A z \in D : u.node[z].red = IF z = k THEN v ELSE t.node[z].red
    /\ \A z \in D : u.node[z].elem = t.node[z].elem

\* Paint changes one colour.
LEMMA PaintIs ==
    ASSUME NEW D, Nil \notin D, NEW E, NEW t \in Tree(D, E), NEW k \in D \cup {Nil}, NEW v \in BOOLEAN
    PROVE  Painted(D, E, t, Paint(t, k, v), k, v)
<1>. DEFINE N == Set(t.node, k, "red", v)
<1>1. t.node \in Nodes(D, E) /\ t.root \in D \cup {Nil}
    BY DEF Tree
<1>2. N \in Nodes(D, E) /\ Assigned(D, t.node, N, k, "red", v)
    BY <1>1, SetColour
<1>. HIDE DEF N
<1>3. Paint(t, k, v) = [root |-> t.root, node |-> N]
    BY DEF Paint, N
<1>4. Paint(t, k, v) \in Tree(D, E)
    BY <1>1, <1>2, <1>3 DEF Tree
<1>5. Paint(t, k, v).root = t.root /\ Paint(t, k, v).node = N
    BY <1>3
<1>6. \A z \in D : N[z]["red"] = IF z = k THEN v ELSE t.node[z]["red"]
    BY <1>2 DEF Assigned, Fields
<1>7. \A z \in D : N[z]["elem"] = t.node[z]["elem"] /\ \A h \in Links : N[z][h] = t.node[z][h]
    BY <1>2 DEF Assigned, Fields, Links
<1>. QED
    BY <1>4, <1>5, <1>6, <1>7 DEF SameLinks, Painted

\* The same for red, and below for black.
LEMMA PaintRed ==
    ASSUME NEW D, Nil \notin D, NEW E, NEW t \in Tree(D, E), NEW k \in D \cup {Nil}
    PROVE  Painted(D, E, t, Paint(t, k, TRUE), k, TRUE)
<1>1. PICK v \in BOOLEAN : TRUE = v
    BY Zenon
<1>2. Painted(D, E, t, Paint(t, k, v), k, v)
    BY PaintIs, Zenon
<1>. QED
    BY <1>1, <1>2, Zenon

\* The same for black.
LEMMA PaintBlack ==
    ASSUME NEW D, Nil \notin D, NEW E, NEW t \in Tree(D, E), NEW k \in D \cup {Nil}
    PROVE  Painted(D, E, t, Paint(t, k, FALSE), k, FALSE)
<1>1. PICK v \in BOOLEAN : FALSE = v
    BY Zenon
<1>2. Painted(D, E, t, Paint(t, k, v), k, v)
    BY PaintIs, Zenon
<1>. QED
    BY <1>1, <1>2, Zenon

\* The shape of a tree does not depend on its colours.
LEMMA SameShape ==
    ASSUME NEW D, NEW E, NEW t, NEW B, SearchTree(D, E, t, B), NEW u \in Tree(D, E), SameLinks(D, t, u)
    PROVE  SearchTree(D, E, u, B)
<1>1. /\ u.root = t.root
      /\ \A z \in D : /\ \A s \in Sides : u.node[z][s] = t.node[z][s]
                      /\ u.node[z].parent = t.node[z].parent
                      /\ u.node[z].left = t.node[z].left /\ u.node[z].right = t.node[z].right
    BY DEF SameLinks, Links, Sides
<1>2. \A z \in D : \A s \in Sides : t.node[z][s] \in D \cup {Nil} /\ t.node[z].parent \in D \cup {Nil}
    BY LinkType DEF SearchTree
<1>3. Linked(D, u)
    <2>1. Linked(D, t)
        BY DEF SearchTree
    <2>2. D # {} => u.root \in D
        BY <1>1, <2>1 DEF Linked
    <2>3. u.root \in D => u.node[u.root].parent = Nil
        BY <1>1, <2>1 DEF Linked
    <2>4. ASSUME NEW z \in D, NEW s \in Sides, u.node[z][s] # Nil PROVE u.node[u.node[z][s]].parent = z
        <3>1. u.node[z][s] = t.node[z][s] /\ t.node[z][s] \in D
            BY <1>1, <1>2, <2>4
        <3>2. t.node[t.node[z][s]].parent = z
            BY <2>1, <2>4, <3>1 DEF Linked
        <3>. QED
            BY <1>1, <3>1, <3>2
    <2>5. ASSUME NEW z \in D, z # u.root
          PROVE  u.node[z].parent \in D /\ \E s \in Sides : u.node[u.node[z].parent][s] = z
        <3>1. t.node[z].parent \in D /\ \E s \in Sides : t.node[t.node[z].parent][s] = z
            BY <1>1, <2>1, <2>5 DEF Linked
        <3>2. u.node[z].parent = t.node[z].parent
            BY <1>1
        <3>. QED
            BY <1>1, <3>1, <3>2
    <2>. QED
        BY <2>2, <2>3, <2>4, <2>5 DEF Linked
<1>4. Ordered(D, u, B)
    BY <1>1 DEF SearchTree, Ordered
<1>. QED
    BY <1>3, <1>4 DEF SearchTree

Black(t, x) == IF t.node[x].red THEN 0 ELSE 1

\* H[x] is the number of black nodes on every way from x down.
Balanced(D, t, H) ==
    /\ H \in [D \cup {Nil} -> Nat] /\ H[Nil] = 0
    /\ \A x \in D : \A s \in Sides : H[x] = H[t.node[x][s]] + Black(t, x)

\* The colours of x and c are exchanged.
Exchanged(D, t, u, x, c) ==
    \A z \in D : u.node[z].red = IF z = x THEN t.node[c].red ELSE IF z = c THEN t.node[x].red ELSE t.node[z].red

\* A rotation that exchanges the colours of x and its red child c keeps the balance.
LEMMA TurnedBalanced ==
    ASSUME NEW D, NEW E, NEW t, NEW B, SearchTree(D, E, t, B), NEW H, Balanced(D, t, H),
           NEW x, NEW c, NEW p, NEW i, NEW side, Near(D, t, x, c, p, i, side), t.node[c].red,
           NEW v, SameLinks(D, t, v), Exchanged(D, t, v, x, c),
           NEW u \in Tree(D, E), Turned(D, v, u, x, c, p, i, side)
    PROVE  Balanced(D, u, [H EXCEPT ![x] = H[c], ![c] = H[x]])
<1>. DEFINE o == Opposite(side)
            a == t.node[x][side]
            b == t.node[c][o]
            A == [H EXCEPT ![x] = H[c], ![c] = H[x]]
<1>0. /\ Nil \notin D /\ t \in Tree(D, E) /\ Linked(D, t) /\ x \in D /\ c \in D /\ side \in Sides
      /\ t.node[x][o] = c /\ t.node[x].parent = p /\ t.node[c][side] = i
    BY DEF SearchTree, Near
<1>1. c # x /\ i # x /\ i # c /\ a # c /\ b # x
    BY Distinct DEF Apart
<1>2. o \in Sides /\ side # o /\ \A s \in Sides : s = side \/ s = o
    BY <1>0, TwoSides
<1>3. \A z \in D : \A s \in Sides : t.node[z][s] # Nil => t.node[t.node[z][s]].parent = z
    BY <1>0 DEF Linked
<1>4. \A z \in D : \A s \in Sides : t.node[z][s] \in D \cup {Nil}
    BY <1>0, LinkType
<1>5. t.node[c].parent = x /\ c # Nil /\ x # Nil
    BY <1>0, <1>2, <1>3
<1>6. a # x /\ b # c
    <2>0. \A z \in D : \A s \in Sides : t.node[z][s] = z => t.node[z].parent = z
        BY <1>0, <1>3
    <2>1. t.node[x].parent # x
        BY <1>0, Distinct DEF Apart
    <2>. QED
        BY <1>0, <1>1, <1>2, <1>5, <2>0, <2>1
<1>7. \A z \in D : \A s \in Sides : t.node[z][s] = c => z = x
    BY <1>0, <1>3, <1>5
<1>8. \A z \in D : \A s \in Sides : v.node[z][s] = t.node[z][s]
    BY DEF SameLinks, Links, Sides
<1>9. /\ u.node[c][side] = x /\ u.node[c][o] = b /\ u.node[x][o] = i /\ u.node[x][side] = a
      /\ \A z \in D \ {x, c} : \A s \in Sides :
            u.node[z][s] = IF t.node[z][s] = x THEN c ELSE t.node[z][s]
      /\ \A z \in D : u.node[z].red = v.node[z].red
    BY <1>0, <1>2, <1>8 DEF Turned
<1>10. /\ Black(u, x) = 0 /\ Black(u, c) = Black(t, x) /\ Black(t, c) = 0
       /\ \A z \in D \ {x, c} : Black(u, z) = Black(t, z)
    <2>1. \A z \in D : u.node[z].red = IF z = x THEN t.node[c].red ELSE IF z = c THEN t.node[x].red ELSE t.node[z].red
        <3>1. \A z \in D : u.node[z].red = v.node[z].red
            BY <1>9
        <3>2. \A z \in D : v.node[z].red = IF z = x THEN t.node[c].red ELSE IF z = c THEN t.node[x].red ELSE t.node[z].red
            BY Zenon DEF Exchanged
        <3>. QED
            BY <3>1, <3>2, Zenon
    <2>2. u.node[x].red = t.node[c].red /\ u.node[c].red = t.node[x].red
        BY <1>0, <1>1, <2>1, Zenon
    <2>3. \A z \in D \ {x, c} : u.node[z].red = t.node[z].red
        BY <2>1, Zenon
    <2>. QED
        BY <2>2, <2>3 DEF Black
<1>11. /\ H \in [D \cup {Nil} -> Nat] /\ H[Nil] = 0
       /\ \A z \in D : \A s \in Sides : H[z] = H[t.node[z][s]] + Black(t, z)
    BY DEF Balanced
<1>12. /\ A \in [D \cup {Nil} -> Nat] /\ A[x] = H[c] /\ A[c] = H[x]
       /\ \A z \in (D \cup {Nil}) \ {x, c} : A[z] = H[z]
    BY <1>0, <1>1, <1>11
<1>13. a \in (D \cup {Nil}) \ {x, c} /\ i \in (D \cup {Nil}) \ {x, c} /\ b \in (D \cup {Nil}) \ {x, c}
    BY <1>0, <1>1, <1>2, <1>4, <1>6
<1>14. \A z \in D : Black(t, z) \in {0, 1}
    BY DEF Black
<1>15. /\ H[x] = H[a] + Black(t, x) /\ H[x] = H[c] + Black(t, x)
       /\ H[c] = H[i] + 0 /\ H[c] = H[b] + 0
    <2>1. H[x] = H[t.node[x][side]] + Black(t, x) /\ H[x] = H[t.node[x][o]] + Black(t, x)
        BY <1>0, <1>2, <1>11
    <2>2. H[c] = H[t.node[c][side]] + Black(t, c) /\ H[c] = H[t.node[c][o]] + Black(t, c)
        BY <1>0, <1>2, <1>11
    <2>. QED
        BY <1>0, <1>10, <2>1, <2>2
<1>. HIDE DEF a, b, o, A
<1>16. H[a] \in Nat /\ H[b] \in Nat /\ H[i] \in Nat /\ H[c] \in Nat /\ H[x] \in Nat /\ Black(t, x) \in {0, 1}
    BY <1>0, <1>11, <1>13, <1>14
<1>17. ASSUME NEW z \in D, NEW s \in Sides PROVE A[z] = A[u.node[z][s]] + Black(u, z)
    <2>1. CASE z = x /\ s = side
        <3>1. A[z] = H[c] /\ A[u.node[z][s]] = H[a] /\ Black(u, z) = 0
            BY <1>9, <1>10, <1>12, <1>13, <2>1
        <3>. QED
            BY <1>15, <1>16, <3>1
    <2>2. CASE z = x /\ s = o
        <3>1. A[z] = H[c] /\ A[u.node[z][s]] = H[i] /\ Black(u, z) = 0
            BY <1>9, <1>10, <1>12, <1>13, <2>2
        <3>. QED
            BY <1>15, <1>16, <3>1
    <2>3. CASE z = c /\ s = side
        <3>1. A[z] = H[x] /\ A[u.node[z][s]] = H[c] /\ Black(u, z) = Black(t, x)
            BY <1>9, <1>10, <1>12, <2>3
        <3>. QED
            BY <1>15, <1>16, <3>1
    <2>4. CASE z = c /\ s = o
        <3>1. A[z] = H[x] /\ A[u.node[z][s]] = H[b] /\ Black(u, z) = Black(t, x)
            BY <1>9, <1>10, <1>12, <1>13, <2>4
        <3>. QED
            BY <1>15, <1>16, <3>1
    <2>5. CASE z \notin {x, c}
        <3>1. A[z] = H[z] /\ Black(u, z) = Black(t, z) /\ H[z] = H[t.node[z][s]] + Black(t, z)
            BY <1>10, <1>11, <1>12, <2>5
        <3>2. A[u.node[z][s]] = H[t.node[z][s]]
            <4>1. CASE t.node[z][s] = x
                BY <1>9, <1>12, <2>5, <4>1
            <4>2. CASE t.node[z][s] # x
                <5>1. u.node[z][s] = t.node[z][s] /\ t.node[z][s] \in (D \cup {Nil}) \ {x, c}
                    BY <1>4, <1>7, <1>9, <2>5, <4>2
                <5>. QED
                    BY <1>12, <5>1
            <4>. QED
                BY <4>1, <4>2
        <3>. QED
            BY <3>1, <3>2
    <2>. QED
        BY <1>2, <2>1, <2>2, <2>3, <2>4, <2>5
<1>18. A[Nil] = 0
    BY <1>0, <1>5, <1>11, <1>12
<1>. QED
    BY <1>12, <1>17, <1>18, Zenon DEF Balanced, A

(***************************************************************************)
(* The loop of rbtree_fix_tree                                             *)
(***************************************************************************)
\* A red-black tree, but for the red node x, which may be the root or have a red parent.
Half(D, E, t, x, B, H) ==
    /\ SearchTree(D, E, t, B) /\ Balanced(D, t, H)
    /\ x \in D /\ t.node[x].red
    /\ t.root = x \/ ~ t.node[t.root].red
    /\ \A z \in D \ {x} : t.node[z].red /\ t.node[z].parent # Nil => ~ t.node[t.node[z].parent].red

\* The parent and the grandparent that a round of the loop sees.
Kin(D, t, x, p, g, side) ==
    /\ x \in D /\ p \in D /\ g \in D /\ side \in Sides
    /\ t.node[x].parent = p /\ t.node[p].parent = g /\ t.node[g][side] = p
    /\ t.node[p].red /\ ~ t.node[g].red
    /\ x # t.root /\ p # t.root

\* The nodes that a round of the loop looks at are different.
LEMMA KinApart ==
    ASSUME NEW D, NEW E, NEW t, NEW B, SearchTree(D, E, t, B),
           NEW x, NEW p, NEW g, NEW side, Kin(D, t, x, p, g, side), t.node[x].red
    PROVE  /\ x # p /\ g # p /\ g # x /\ Nil \notin {x, p, g}
           /\ t.node[g][Opposite(side)] \in (D \cup {Nil}) \ {p, g, x}
<1>1. /\ Nil \notin D /\ t \in Tree(D, E) /\ Linked(D, t) /\ Ordered(D, t, B) /\ D \subseteq Nat
      /\ x \in D /\ p \in D /\ g \in D /\ side \in Sides /\ x # t.root /\ p # t.root
      /\ t.node[x].parent = p /\ t.node[p].parent = g /\ t.node[g][side] = p
    BY DEF SearchTree, Kin
<1>2. g # p /\ g # x
    BY DEF Kin
<1>3. x # p
    BY <1>1, <1>2
<1>4. Opposite(side) \in Sides
    BY <1>1, TwoSides
<1>5. t.node[g][Opposite(side)] # p
    BY <1>1, Siblings
<1>6. t.node[g][Opposite(side)] \in D \cup {Nil}
    BY <1>1, <1>4, LinkType
<1>7. t.node[g][Opposite(side)] # x
    BY <1>1, <1>2, <1>3, <1>4 DEF Linked
<1>8. t.node[g][Opposite(side)] # g
    <2>1. SUFFICES ASSUME t.node[g][Opposite(side)] = g PROVE FALSE
        OBVIOUS
    <2>2. g \in B[g]
        BY <1>1 DEF Ordered
    <2>3. Beyond(Opposite(side), g, g)
        BY <1>1, <1>4, <2>1, <2>2 DEF Ordered
    <2>4. Order(D)
        BY <1>1, OrderHolds
    <2>. QED
        BY <1>1, <1>4, <2>3, <2>4 DEF Order
<1>. QED
    BY <1>1, <1>2, <1>3, <1>5, <1>6, <1>7, <1>8

\* The loop goes on only below a grandparent.
LEMMA KinExists ==
    ASSUME NEW D, NEW E, NEW t, NEW x, NEW B, NEW H, Half(D, E, t, x, B, H),
           NEW r, r.tree = t, r.target = x, ~ Fixed(r),
           NEW p, t.node[x].parent = p, NEW g, t.node[p].parent = g,
           NEW side, (IF p = t.node[g].left THEN "left" ELSE "right") = side
    PROVE  Kin(D, t, x, p, g, side)
<1>1. /\ Nil \notin D /\ t \in Tree(D, E) /\ Linked(D, t) /\ x \in D
      /\ t.root = x \/ ~ t.node[t.root].red
      /\ \A z \in D \ {x} : t.node[z].red /\ t.node[z].parent # Nil => ~ t.node[t.node[z].parent].red
    BY DEF Half, SearchTree
<1>2. x # t.root /\ p # Nil /\ t.node[p].red
    BY DEF Fixed, Red
<1>3. p \in D
    BY <1>1, <1>2 DEF Linked
<1>4. p # t.root
    BY <1>1, <1>2
<1>5. g \in D /\ \E s \in Sides : t.node[g][s] = p
    BY <1>1, <1>3, <1>4 DEF Linked
<1>6. side \in Sides /\ t.node[g][side] = p
    <2>1. t.node[g]["left"] = p \/ t.node[g]["right"] = p
        BY <1>5 DEF Sides
    <2>2. CASE p = t.node[g].left
        BY <2>2 DEF Sides
    <2>3. CASE p # t.node[g].left
        BY <2>1, <2>3 DEF Sides
    <2>. QED
        BY <2>2, <2>3
<1>7. p # x
    <2>1. SUFFICES ASSUME p = x PROVE FALSE
        OBVIOUS
    <2>2. g = x
        BY <2>1
    <2>3. PICK s \in Sides : t.node[x][s] = x
        BY <1>5, <2>1, <2>2
    <2>4. PICK A : Ordered(D, t, A) /\ D \subseteq Nat
        BY DEF Half, SearchTree
    <2>5. x \in A[x]
        BY <1>1, <2>4 DEF Ordered
    <2>6. Beyond(s, x, x)
        BY <1>1, <2>3, <2>4, <2>5 DEF Ordered
    <2>7. Order(D)
        BY <2>4, OrderHolds, Zenon
    <2>. QED
        BY <1>1, <2>3, <2>6, <2>7 DEF Order
<1>8. ~ t.node[g].red
    BY <1>1, <1>2, <1>3, <1>5, <1>7
<1>. QED
    BY <1>1, <1>2, <1>3, <1>4, <1>5, <1>6, <1>8 DEF Kin

\* The elements are the same.
Kept(D, t, u) == \A z \in D : u.node[z].elem = t.node[z].elem

\* What a round assigns with a red uncle w, and with a black one.
Flipped(t, p, w, g) == Paint(Paint(Paint(t, p, FALSE), w, FALSE), g, TRUE)
Lifted(t, q, g, side) == Rotate(Paint(Paint(t, q, FALSE), g, TRUE), g, Opposite(side))

\* A red uncle: the colours of two generations are exchanged and the grandparent is next.
LEMMA Flip ==
    ASSUME NEW D, NEW E, NEW t, NEW x, NEW B, NEW H, Half(D, E, t, x, B, H),
           NEW p, NEW g, NEW side, Kin(D, t, x, p, g, side),
           NEW w, t.node[g][Opposite(side)] = w, Red(t, w),
           NEW u, Flipped(t, p, w, g) = u
    PROVE  (\E K : Half(D, E, u, g, B, K)) /\ Kept(D, t, u)
<1>. DEFINE t1 == Paint(t, p, FALSE)
            t2 == Paint(t1, w, FALSE)
            v == Paint(t2, g, TRUE)
            A == [H EXCEPT ![p] = H[p] + 1, ![w] = H[w] + 1]
<1>1. /\ SearchTree(D, E, t, B) /\ Nil \notin D /\ t \in Tree(D, E) /\ Linked(D, t) /\ Balanced(D, t, H)
      /\ x \in D /\ p \in D /\ g \in D /\ side \in Sides
      /\ t.node[x].red /\ t.node[p].red /\ ~ t.node[g].red
      /\ t.root = x \/ ~ t.node[t.root].red
      /\ \A z \in D \ {x} : t.node[z].red /\ t.node[z].parent # Nil => ~ t.node[t.node[z].parent].red
      /\ t.node[x].parent = p /\ t.node[p].parent = g /\ t.node[g][side] = p
      /\ x # t.root /\ p # t.root /\ w # Nil /\ t.node[w].red
    BY DEF Half, SearchTree, Kin, Red
<1>a. /\ x \in D /\ p \in D /\ g \in D /\ Nil \notin D
      /\ t.root \in D /\ t.node[t.root].parent = Nil /\ t.root # x /\ ~ t.node[t.root].red
    BY <1>1 DEF Linked
<1>b. \A z \in D : \A s \in Sides : t.node[z][s] # Nil => t.node[t.node[z][s]].parent = z
    BY <1>1 DEF Linked
<1>c. \A z \in D \ {x} : t.node[z].red => t.node[z].parent \in D /\ ~ t.node[t.node[z].parent].red
    <2>1. \A z \in D \ {t.root} : t.node[z].parent \in D
        BY <1>1 DEF Linked
    <2>2. \A z \in D \ {x} : t.node[z].red /\ t.node[z].parent # Nil => ~ t.node[t.node[z].parent].red
        BY <1>1
    <2>. QED
        BY <1>a, <2>1, <2>2
<1>2. x # p /\ g # p /\ g # x /\ w \in D \ {p, g, x}
    <2>1. SearchTree(D, E, t, B) /\ t.node[x].red /\ w # Nil
        BY <1>1, Zenon
    <2>2. x # p /\ g # p /\ g # x /\ t.node[g][Opposite(side)] \in (D \cup {Nil}) \ {p, g, x}
        BY <2>1, KinApart
    <2>. QED
        BY <2>1, <2>2, Zenon
<1>3. Painted(D, E, t, t1, p, FALSE)
    BY <1>1, PaintBlack, Zenon
<1>. HIDE DEF t1
<1>4. Painted(D, E, t1, t2, w, FALSE)
    <2>1. t1 \in Tree(D, E) /\ w \in D \cup {Nil}
        BY <1>2, <1>3 DEF Painted
    <2>. QED
        BY <1>1, <2>1, PaintBlack, Zenon
<1>. HIDE DEF t2
<1>5. Painted(D, E, t2, v, g, TRUE)
    <2>1. t2 \in Tree(D, E) /\ g \in D \cup {Nil}
        BY <1>1, <1>4 DEF Painted
    <2>. QED
        BY <1>1, <2>1, PaintRed, Zenon
<1>. HIDE DEF v
<1>6. SameLinks(D, t, v)
    <2>1. SameLinks(D, t, t1) /\ SameLinks(D, t1, t2) /\ SameLinks(D, t2, v)
        BY <1>3, <1>4, <1>5, Zenon DEF Painted
    <2>. QED
        BY <2>1, Zenon DEF SameLinks
<1>7. /\ v.node[g].red /\ ~ v.node[p].red /\ ~ v.node[w].red
      /\ \A z \in D \ {p, w, g} : v.node[z].red = t.node[z].red
    <2>0. /\ \A z \in D : t1.node[z].red = IF z = p THEN FALSE ELSE t.node[z].red
          /\ \A z \in D : t2.node[z].red = IF z = w THEN FALSE ELSE t1.node[z].red
          /\ \A z \in D : v.node[z].red = IF z = g THEN TRUE ELSE t2.node[z].red
        BY <1>3, <1>4, <1>5, Zenon DEF Painted
    <2>1. \A z \in D \ {p, w, g} : v.node[z].red = t.node[z].red
        BY <2>0, Zenon
    <2>2. t1.node[p].red = FALSE /\ t2.node[p].red = t1.node[p].red /\ v.node[p].red = t2.node[p].red
        <3>1. p \in D /\ p # w /\ p # g
            BY <1>1, <1>2
        <3>2. t1.node[p].red = FALSE
            BY <1>1, <2>0, Zenon
        <3>3. t2.node[p].red = t1.node[p].red /\ v.node[p].red = t2.node[p].red
            BY <2>0, <3>1, Zenon
        <3>. QED
            BY <3>2, <3>3
    <2>3. t2.node[w].red = FALSE /\ v.node[w].red = t2.node[w].red
        <3>1. w \in D /\ w # g
            BY <1>2
        <3>. QED
            BY <2>0, <3>1, Zenon
    <2>4. v.node[g].red = TRUE
        BY <1>1, <2>0, Zenon
    <2>. QED
        BY <2>1, <2>2, <2>3, <2>4
<1>8. SearchTree(D, E, v, B)
    BY <1>1, <1>5, <1>6, SameShape DEF Painted
<1>9. /\ v.root = t.root
      /\ \A z \in D : v.node[z].parent = t.node[z].parent /\ \A s \in Sides : v.node[z][s] = t.node[z][s]
    BY <1>6 DEF SameLinks, Links, Sides
<1>10. t.root \in D /\ t.root # p /\ t.root # w
    <2>1. t.node[w].red /\ p # t.root
        BY <1>1
    <2>. QED
        BY <1>a, <2>1
<1>11. v.root = g \/ ~ v.node[v.root].red
    BY <1>1, <1>7, <1>9, <1>10
<1>12. ASSUME NEW z \in D \ {g}, v.node[z].red, v.node[z].parent # Nil
       PROVE  ~ v.node[v.node[z].parent].red
    <2>1. z \notin {p, w} /\ t.node[z].red
        BY <1>7, <1>12
    <2>2. CASE z = x
        BY <1>1, <1>7, <1>9, <2>2
    <2>3. CASE z # x
        <3>1. ~ t.node[t.node[z].parent].red /\ t.node[z].parent \in D
            BY <1>c, <2>1, <2>3
        <3>2. t.node[z].parent # g
            <4>1. z # t.root
                BY <1>a, <2>1
            <4>2. \E s \in Sides : t.node[t.node[z].parent][s] = z
                BY <1>1, <4>1 DEF Linked
            <4>3. \A s \in Sides : t.node[g][s] \in {p, w}
                BY <1>1, TwoSides
            <4>. QED
                BY <2>1, <4>2, <4>3
        <3>. QED
            BY <1>7, <1>9, <3>1, <3>2
    <2>. QED
        BY <2>2, <2>3
<1>13. Balanced(D, v, A)
    <2>1. /\ H \in [D \cup {Nil} -> Nat] /\ H[Nil] = 0
          /\ \A z \in D : \A s \in Sides : H[z] = H[t.node[z][s]] + Black(t, z)
        BY <1>1 DEF Balanced
    <2>2. /\ A \in [D \cup {Nil} -> Nat] /\ A[p] = H[p] + 1 /\ A[w] = H[w] + 1
          /\ \A z \in (D \cup {Nil}) \ {p, w} : A[z] = H[z]
        BY <1>a, <1>2, <2>1
    <2>. HIDE DEF A
    <2>3. /\ Black(v, p) = 1 /\ Black(v, w) = 1 /\ Black(v, g) = 0
          /\ Black(t, p) = 0 /\ Black(t, w) = 0 /\ Black(t, g) = 1
        BY <1>1, <1>7 DEF Black
    <2>4. \A z \in D \ {p, w, g} : Black(v, z) = Black(t, z)
        BY <1>7 DEF Black
    <2>5. \A z \in D : \A s \in Sides : t.node[z][s] \in D \cup {Nil}
        BY <1>1, LinkType
    <2>6. t.node[w].parent = g /\ t.node[p].parent = g /\ \A s \in Sides : t.node[g][s] \in {p, w}
        BY <1>1, <1>b, TwoSides
    <2>7. \A z \in D \ {g} : \A s \in Sides : t.node[z][s] \in (D \cup {Nil}) \ {p, w}
        <3>1. p # Nil /\ w # Nil
            BY <1>a, <1>2
        <3>. QED
            BY <1>b, <2>5, <2>6, <3>1
    <2>8. ASSUME NEW z \in D, NEW s \in Sides PROVE A[z] = A[v.node[z][s]] + Black(v, z)
        <3>1. H[z] = H[t.node[z][s]] + Black(t, z) /\ v.node[z][s] = t.node[z][s]
            BY <1>9, <2>1
        <3>2. CASE z = g
            <4>1. t.node[z][s] \in {p, w}
                BY <2>6, <3>2
            <4>2. A[t.node[z][s]] = H[t.node[z][s]] + 1 /\ A[z] = H[z]
                BY <1>a, <1>2, <2>2, <3>2, <4>1
            <4>3. H[t.node[z][s]] \in Nat
                BY <1>a, <1>2, <2>1, <4>1
            <4>. QED
                BY <2>3, <3>1, <3>2, <4>2, <4>3
        <3>3. CASE z \in {p, w}
            <4>1. A[t.node[z][s]] = H[t.node[z][s]] /\ A[z] = H[z] + 1 /\ H[t.node[z][s]] \in Nat
                BY <1>2, <2>1, <2>2, <2>7, <3>3
            <4>. QED
                BY <2>3, <3>1, <3>3, <4>1
        <3>4. CASE z \notin {p, w, g}
            <4>1. A[t.node[z][s]] = H[t.node[z][s]] /\ A[z] = H[z]
                BY <2>2, <2>7, <3>4
            <4>. QED
                BY <2>4, <3>1, <3>4, <4>1
        <3>. QED
            BY <3>2, <3>3, <3>4
    <2>9. A[Nil] = 0
        BY <1>a, <1>2, <2>1, <2>2
    <2>. QED
        BY <2>2, <2>8, <2>9 DEF Balanced
<1>14. Half(D, E, v, g, B, A)
    BY <1>1, <1>7, <1>8, <1>11, <1>12, <1>13 DEF Half
<1>15. Kept(D, t, v)
    BY <1>3, <1>4, <1>5 DEF Kept, Painted
<1>. QED
    BY <1>14, <1>15, Zenon DEF v, t2, t1, Flipped

\* An inner grandchild becomes an outer one.
LEMMA Inner ==
    ASSUME NEW D, NEW E, NEW t, NEW x, NEW B, NEW H, Half(D, E, t, x, B, H),
           NEW p, NEW g, NEW side, Kin(D, t, x, p, g, side), t.node[p][Opposite(side)] = x,
           NEW u, Rotate(t, p, side) = u
    PROVE  /\ (\E A, K : Half(D, E, u, p, A, K)) /\ Kept(D, t, u)
           /\ Kin(D, u, p, x, g, side) /\ u.node[x][side] = p
           /\ u.node[g][Opposite(side)] = t.node[g][Opposite(side)]
           /\ \A z \in D : u.node[z].red = t.node[z].red
<1>. DEFINE i == t.node[x][side]
            A == BelowTurned(t, B, p, x, i, side)
            K == [H EXCEPT ![p] = H[x], ![x] = H[p]]
            w == t.node[g][Opposite(side)]
<1>1. /\ SearchTree(D, E, t, B) /\ Nil \notin D /\ t \in Tree(D, E) /\ Linked(D, t) /\ Balanced(D, t, H)
      /\ x \in D /\ p \in D /\ g \in D /\ side \in Sides
      /\ t.node[x].red /\ t.node[p].red /\ ~ t.node[g].red
      /\ t.root = x \/ ~ t.node[t.root].red
      /\ \A z \in D \ {x} : t.node[z].red /\ t.node[z].parent # Nil => ~ t.node[t.node[z].parent].red
      /\ t.node[x].parent = p /\ t.node[p].parent = g /\ t.node[g][side] = p
      /\ x # t.root /\ p # t.root
    BY DEF Half, SearchTree, Kin
<1>a. /\ x \in D /\ p \in D /\ g \in D /\ Nil \notin D
      /\ t.root \in D /\ t.node[t.root].parent = Nil /\ t.root # x /\ ~ t.node[t.root].red
    BY <1>1 DEF Linked
<1>b. \A z \in D : \A s \in Sides : t.node[z][s] # Nil => t.node[t.node[z][s]].parent = z
    BY <1>1 DEF Linked
<1>c. \A z \in D \ {x} : t.node[z].red => t.node[z].parent \in D /\ ~ t.node[t.node[z].parent].red
    <2>1. \A z \in D \ {t.root} : t.node[z].parent \in D
        BY <1>1 DEF Linked
    <2>2. \A z \in D \ {x} : t.node[z].red /\ t.node[z].parent # Nil => ~ t.node[t.node[z].parent].red
        BY <1>1
    <2>. QED
        BY <1>a, <2>1, <2>2
<1>2. x # p /\ g # p /\ g # x /\ w \in (D \cup {Nil}) \ {p, g, x}
    BY <1>1, KinApart
<1>3. Near(D, t, p, x, g, i, side)
    BY <1>1 DEF Near
<1>. HIDE DEF i, w
<1>4. u \in Tree(D, E) /\ Turned(D, t, u, p, x, g, i, side)
    BY <1>1, <1>3, RotateTurns
<1>5. Linked(D, u) /\ Ordered(D, u, A)
    BY <1>1, <1>3, <1>4, TurnedLinked, TurnedOrdered
<1>6. SearchTree(D, E, u, A)
    BY <1>1, <1>4, <1>5 DEF SearchTree
<1>7. \A z \in D : u.node[z].red = t.node[z].red
    BY <1>4 DEF Turned
<1>8. Balanced(D, u, K)
    <2>1. SameLinks(D, t, t)
        BY DEF SameLinks
    <2>2. Exchanged(D, t, t, p, x)
        <3>1. \A z \in D : t.node[z].red \in BOOLEAN
            BY <1>1, LinkType
        <3>2. t.node[x].red = TRUE /\ t.node[p].red = TRUE
            BY <1>1, <3>1
        <3>. QED
            BY <1>1, <3>2, Zenon DEF Exchanged
    <2>. QED
        BY <1>1, <1>3, <1>4, <2>1, <2>2, TurnedBalanced, Zenon
<1>9. /\ u.node[x][side] = p /\ u.node[x].parent = g /\ u.node[p].parent = x /\ u.root = t.root
      /\ u.node[g][side] = x
      /\ \A z \in D \ {p, x} : u.node[z].parent = IF z = i THEN p ELSE t.node[z].parent
    <2>1. /\ u.node[x][side] = p /\ u.node[x].parent = g /\ u.node[p].parent = x
          /\ u.root = IF t.root = p THEN x ELSE t.root
          /\ \A z \in D \ {p, x} : u.node[z].parent = IF z = i THEN p ELSE t.node[z].parent
        BY <1>4 DEF Turned
    <2>2. \A z \in D \ {p, x} : \A s \in Sides : u.node[z][s] = IF t.node[z][s] = p THEN x ELSE t.node[z][s]
        BY <1>4 DEF Turned
    <2>3. g \in D \ {p, x} /\ side \in Sides /\ t.node[g][side] = p /\ t.root # p
        BY <1>1, <1>2
    <2>. QED
        BY <2>1, <2>2, <2>3
<1>10. u.node[g][Opposite(side)] = w
    <2>1. Opposite(side) \in Sides
        BY <1>1, TwoSides
    <2>2. g \in D \ {p, x} /\ t.node[g][Opposite(side)] = w /\ w # p
        BY <1>a, <1>2 DEF w
    <2>3. \A z \in D \ {p, x} : \A s \in Sides : u.node[z][s] = IF t.node[z][s] = p THEN x ELSE t.node[z][s]
        BY <1>4 DEF Turned
    <2>. QED
        BY <2>1, <2>2, <2>3
<1>11. Kin(D, u, p, x, g, side)
    BY <1>1, <1>7, <1>9 DEF Kin
<1>12. u.root = p \/ ~ u.node[u.root].red
    BY <1>a, <1>7, <1>9
<1>13. ASSUME NEW z \in D \ {p}, u.node[z].red, u.node[z].parent # Nil
       PROVE  ~ u.node[u.node[z].parent].red
    <2>1. t.node[z].red
        BY <1>7, <1>13
    <2>2. CASE z = x
        BY <1>1, <1>7, <1>9, <2>2
    <2>3. CASE z # x
        <3>1. z # i
            <4>1. i # Nil => t.node[i].parent = x
                BY <1>1, <1>b DEF i
            <4>2. t.node[x].red /\ x # Nil
                BY <1>1
            <4>. QED
                BY <1>a, <1>c, <2>1, <2>3, <4>1, <4>2
        <3>2. u.node[z].parent = t.node[z].parent
            BY <1>9, <1>13, <2>3, <3>1
        <3>3. ~ t.node[t.node[z].parent].red /\ t.node[z].parent \in D
            BY <1>c, <1>13, <2>1, <2>3
        <3>. QED
            BY <1>7, <3>2, <3>3
    <2>. QED
        BY <2>2, <2>3
<1>14. Half(D, E, u, p, A, K)
    BY <1>1, <1>6, <1>7, <1>8, <1>12, <1>13 DEF Half
<1>15. Kept(D, t, u)
    BY <1>4 DEF Kept, Turned
<1>. QED
    BY <1>7, <1>9, <1>10, <1>11, <1>14, <1>15 DEF w

\* An outer grandchild: the parent goes up, black, and the loop is over.
LEMMA Outer ==
    ASSUME NEW D, NEW E, NEW t, NEW y, NEW B, NEW H, Half(D, E, t, y, B, H),
           NEW q, NEW g, NEW side, Kin(D, t, y, q, g, side), t.node[q][side] = y,
           NEW w, t.node[g][Opposite(side)] = w, ~ Red(t, w),
           NEW v, Lifted(t, q, g, side) = v
    PROVE  /\ (\E A, K : Half(D, E, v, y, A, K)) /\ Kept(D, t, v)
           /\ v.node[y].parent = q /\ ~ v.node[q].red
<1>. DEFINE o == Opposite(side)
            i == t.node[q][o]
            h == t.node[g].parent
            t1 == Paint(t, q, FALSE)
            u == Paint(t1, g, TRUE)
            A == BelowTurned(u, B, g, q, i, o)
            K == [H EXCEPT ![g] = H[q], ![q] = H[g]]
<1>1. /\ SearchTree(D, E, t, B) /\ Nil \notin D /\ t \in Tree(D, E) /\ Linked(D, t) /\ Balanced(D, t, H)
      /\ y \in D /\ q \in D /\ g \in D /\ side \in Sides
      /\ t.node[y].red /\ t.node[q].red /\ ~ t.node[g].red
      /\ t.root = y \/ ~ t.node[t.root].red
      /\ \A z \in D \ {y} : t.node[z].red /\ t.node[z].parent # Nil => ~ t.node[t.node[z].parent].red
      /\ t.node[y].parent = q /\ t.node[q].parent = g /\ t.node[g][side] = q
      /\ y # t.root /\ q # t.root
    BY DEF Half, SearchTree, Kin
<1>a. /\ y \in D /\ q \in D /\ g \in D /\ Nil \notin D
      /\ t.root \in D /\ t.node[t.root].parent = Nil /\ t.root # y /\ ~ t.node[t.root].red
    BY <1>1 DEF Linked
<1>b. \A z \in D : \A s \in Sides : t.node[z][s] # Nil => t.node[t.node[z][s]].parent = z
    BY <1>1 DEF Linked
<1>c. \A z \in D \ {y} : t.node[z].red => t.node[z].parent \in D /\ ~ t.node[t.node[z].parent].red
    <2>1. \A z \in D \ {t.root} : t.node[z].parent \in D
        BY <1>1 DEF Linked
    <2>2. \A z \in D \ {y} : t.node[z].red /\ t.node[z].parent # Nil => ~ t.node[t.node[z].parent].red
        BY <1>1
    <2>. QED
        BY <1>a, <2>1, <2>2
<1>2. y # q /\ g # q /\ g # y /\ w \in (D \cup {Nil}) \ {q, g, y}
    <2>1. SearchTree(D, E, t, B) /\ t.node[y].red
        BY <1>1, Zenon
    <2>2. y # q /\ g # q /\ g # y /\ t.node[g][Opposite(side)] \in (D \cup {Nil}) \ {q, g, y}
        BY <2>1, KinApart, Zenon
    <2>. QED
        BY <2>2, Zenon
<1>3. o \in Sides /\ Opposite(o) = side /\ o # side /\ \A s \in Sides : s = side \/ s = o
    <2>1. side \in Sides
        BY <1>1
    <2>. QED
        BY <2>1, TwoSides
<1>4. Painted(D, E, t, t1, q, FALSE)
    <2>1. Nil \notin D /\ t \in Tree(D, E) /\ q \in D \cup {Nil}
        BY <1>1
    <2>. QED
        BY <2>1, PaintBlack, Zenon
<1>. HIDE DEF t1
<1>5. Painted(D, E, t1, u, g, TRUE)
    <2>1. t1 \in Tree(D, E) /\ g \in D \cup {Nil}
        BY <1>1, <1>4 DEF Painted
    <2>. QED
        BY <1>1, <2>1, PaintRed, Zenon
<1>6. Rotate(u, g, o) = v
    BY Zenon DEF t1, Lifted
<1>. HIDE DEF u, o
<1>7. SameLinks(D, t, u) /\ u \in Tree(D, E)
    <2>1. SameLinks(D, t, t1) /\ SameLinks(D, t1, u) /\ u \in Tree(D, E)
        BY <1>4, <1>5, Zenon DEF Painted
    <2>. QED
        BY <2>1, Zenon DEF SameLinks
<1>8. /\ u.node[g].red /\ ~ u.node[q].red
      /\ \A z \in D \ {q, g} : u.node[z].red = t.node[z].red
    <2>0. /\ \A z \in D : t1.node[z].red = IF z = q THEN FALSE ELSE t.node[z].red
          /\ \A z \in D : u.node[z].red = IF z = g THEN TRUE ELSE t1.node[z].red
        BY <1>4, <1>5, Zenon DEF Painted
    <2>1. \A z \in D \ {q, g} : u.node[z].red = t.node[z].red
        BY <2>0, Zenon
    <2>2. ~ u.node[q].red
        <3>1. q \in D /\ q # g
            BY <1>1, <1>2
        <3>2. t1.node[q].red = FALSE
            BY <2>0, <3>1, Zenon
        <3>3. u.node[q].red = t1.node[q].red
            BY <2>0, <3>1, Zenon
        <3>. QED
            BY <3>2, <3>3
    <2>3. u.node[g].red
        BY <1>1, <2>0, Zenon
    <2>. QED
        BY <2>1, <2>2, <2>3
<1>9. SearchTree(D, E, u, B)
    BY <1>1, <1>7, SameShape
<1>10. /\ u.root = t.root
       /\ \A z \in D : u.node[z].parent = t.node[z].parent /\ \A s \in Sides : u.node[z][s] = t.node[z][s]
    BY <1>7 DEF SameLinks, Links, Sides
<1>11. Near(D, u, g, q, h, i, o) /\ Near(D, t, g, q, h, i, o)
    BY <1>1, <1>3, <1>10 DEF Near
<1>. HIDE DEF i, h
<1>12. v \in Tree(D, E) /\ Turned(D, u, v, g, q, h, i, o)
    BY <1>6, <1>9, <1>11, RotateTurns
<1>13. Linked(D, v) /\ Ordered(D, v, A)
    BY <1>9, <1>11, <1>12, TurnedLinked, TurnedOrdered
<1>14. SearchTree(D, E, v, A)
    BY <1>9, <1>12, <1>13, SMTT(30) DEF SearchTree
<1>15. Balanced(D, v, K)
    <2>1. Exchanged(D, t, u, g, q)
        <3>1. \A z \in D : t.node[z].red \in BOOLEAN /\ u.node[z].red \in BOOLEAN
            BY <1>1, <1>7, LinkType
        <3>2. t.node[q].red = TRUE /\ t.node[g].red = FALSE /\ u.node[q].red = FALSE /\ u.node[g].red = TRUE
            BY <1>1, <1>8, <3>1
        <3>. QED
            BY <1>2, <1>8, <3>2, Zenon DEF Exchanged
    <2>. QED
        BY <1>1, <1>7, <1>11, <1>12, <2>1, TurnedBalanced, Zenon
<1>16. \A z \in D : v.node[z].red = u.node[z].red
    BY <1>12 DEF Turned
<1>17. /\ v.node[g].parent = q /\ v.root = IF t.root = g THEN q ELSE t.root
       /\ \A z \in D \ {g, q} : v.node[z].parent = IF z = i THEN g ELSE t.node[z].parent
    <2>1. /\ v.node[g].parent = q /\ v.root = IF u.root = g THEN q ELSE u.root
          /\ \A z \in D \ {g, q} : v.node[z].parent = IF z = i THEN g ELSE u.node[z].parent
        BY <1>12 DEF Turned
    <2>. QED
        BY <1>10, <2>1
<1>18. i # y
    <2>1. t.node[q][side] # t.node[q][Opposite(side)]
        <3>1. q \in D /\ side \in Sides /\ t.node[q][side] # Nil
            BY <1>1
        <3>2. SearchTree(D, E, t, B)
            BY <1>1, Zenon
        <3>. QED
            BY <3>1, <3>2, Siblings, Zenon
    <2>. QED
        BY <2>1 DEF i, o
<1>19. v.node[y].parent = q /\ ~ v.node[q].red /\ v.node[y].red
    BY <1>1, <1>2, <1>8, <1>16, <1>17, <1>18
<1>20. v.root = y \/ ~ v.node[v.root].red
    <2>2. CASE t.root = g
        BY <1>17, <1>19, <2>2
    <2>3. CASE t.root # g
        BY <1>a, <1>8, <1>16, <1>17, <1>19, <2>3
    <2>. QED
        BY <2>2, <2>3
<1>21. ASSUME NEW z \in D \ {y}, v.node[z].red, v.node[z].parent # Nil
       PROVE  ~ v.node[v.node[z].parent].red
    <2>1. z # q /\ v.node[z].red = u.node[z].red
        BY <1>16, <1>19, <1>21, Zenon
    <2>2. CASE z = g
        BY <1>17, <1>19, <2>2
    <2>3. CASE z # g
        <3>1. t.node[z].red
            BY <1>8, <1>21, <2>1, <2>3
        <3>2. z # i
            <4>1. i # Nil => t.node[i].parent = q
                BY <1>a, <1>b, <1>3 DEF i
            <4>2. t.node[q].red
                BY <1>1
            <4>. QED
                BY <1>a, <1>c, <1>21, <3>1, <4>1, <4>2
        <3>3. v.node[z].parent = t.node[z].parent
            BY <1>17, <2>1, <2>3, <3>2
        <3>4. ~ t.node[t.node[z].parent].red /\ t.node[z].parent \in D
            BY <1>c, <1>21, <3>1
        <3>5. t.node[z].parent # g
            <4>1. z # t.root
                BY <1>a, <3>1
            <4>2. \E s \in Sides : t.node[t.node[z].parent][s] = z
                BY <1>1, <4>1 DEF Linked
            <4>3. t.node[g][side] = q /\ t.node[g][o] = w
                BY <1>1 DEF o
            <4>4. z # w
                BY <1>a, <3>1 DEF Red
            <4>. QED
                BY <1>3, <2>1, <4>2, <4>3, <4>4
        <3>6. CASE t.node[z].parent = q
            BY <1>19, <3>3, <3>6
        <3>7. CASE t.node[z].parent # q
            <4>1. v.node[t.node[z].parent].red = u.node[t.node[z].parent].red
                BY <1>16, <3>4, Zenon
            <4>2. u.node[t.node[z].parent].red = t.node[t.node[z].parent].red
                BY <1>8, <3>4, <3>5, <3>7, Zenon
            <4>. QED
                BY <3>3, <3>4, <4>1, <4>2, Zenon
        <3>. QED
            BY <3>6, <3>7
    <2>. QED
        BY <2>2, <2>3
<1>22. Half(D, E, v, y, A, K)
    BY <1>1, <1>14, <1>15, <1>19, <1>20, <1>21 DEF Half
<1>23. Kept(D, t, v)
    <2>1. \A z \in D : v.node[z].elem = u.node[z].elem
        BY <1>12 DEF Turned
    <2>2. \A z \in D : u.node[z].elem = t.node[z].elem
        BY <1>4, <1>5 DEF Painted
    <2>. QED
        BY <2>1, <2>2 DEF Kept
<1>. QED
    BY <1>19, <1>22, <1>23

\* The three cases of a round.
LEMMA RoundIs ==
    ASSUME NEW t, NEW x, NEW p, t.node[x].parent = p, NEW g, t.node[p].parent = g,
           NEW side, (IF p = t.node[g].left THEN "left" ELSE "right") = side,
           NEW w, t.node[g][Opposite(side)] = w, NEW s, s.tree = t, s.target = x
    PROVE  /\ Red(t, w) => FixRound(s) = [tree |-> Flipped(t, p, w, g), target |-> g]
           /\ ~ Red(t, w) /\ t.node[p][Opposite(side)] = x /\ Rotate(t, p, side).node[p].parent = x =>
                FixRound(s) = [tree |-> Lifted(Rotate(t, p, side), x, g, side), target |-> p]
           /\ ~ Red(t, w) /\ t.node[p][Opposite(side)] # x =>
                FixRound(s) = [tree |-> Lifted(t, p, g, side), target |-> x]
<1>2. Red(t, w) => FixRound(s) = [tree |-> Flipped(t, p, w, g), target |-> g]
    BY Zenon DEF FixRound, Flipped
<1>3. ASSUME ~ Red(t, w), t.node[p][Opposite(side)] = x, Rotate(t, p, side).node[p].parent = x
      PROVE  FixRound(s) = [tree |-> Lifted(Rotate(t, p, side), x, g, side), target |-> p]
    BY <1>3, Zenon DEF FixRound, Lifted
<1>4. ASSUME ~ Red(t, w), t.node[p][Opposite(side)] # x
      PROVE  FixRound(s) = [tree |-> Lifted(t, p, g, side), target |-> x]
    BY <1>4, Zenon DEF FixRound, Lifted
<1>. QED
    BY <1>2, <1>3, <1>4

\* The rules of red-black trees, with the keys and the black heights below every node.
RB(D, E, t, B, H) ==
    /\ SearchTree(D, E, t, B) /\ Balanced(D, t, H)
    /\ t.root # Nil => ~ t.node[t.root].red
    /\ \A z \in D : t.node[z].red /\ t.node[z].parent # Nil => ~ t.node[t.node[z].parent].red

\* The root is painted black at the end.
LEMMA Blackened ==
    ASSUME NEW D, NEW E, NEW t, NEW x, NEW B, NEW H, Half(D, E, t, x, B, H),
           NEW s, s.tree = t, s.target = x, Fixed(s), NEW u, Paint(t, t.root, FALSE) = u
    PROVE  (\E K : RB(D, E, u, B, K)) /\ Kept(D, t, u)
<1>. DEFINE r == t.root
            K == [H EXCEPT ![r] = H[r] + Black(u, r) - Black(t, r)]
<1>1. /\ SearchTree(D, E, t, B) /\ Nil \notin D /\ t \in Tree(D, E) /\ Linked(D, t) /\ Balanced(D, t, H)
      /\ x \in D /\ t.node[x].red
      /\ r = x \/ ~ t.node[r].red
      /\ \A z \in D \ {x} : t.node[z].red /\ t.node[z].parent # Nil => ~ t.node[t.node[z].parent].red
    BY DEF Half, SearchTree
<1>2. r \in D /\ t.node[r].parent = Nil
    BY <1>1 DEF Linked
<1>3. x = r \/ t.node[x].parent = Nil \/ ~ t.node[t.node[x].parent].red
    BY DEF Fixed, Red
<1>. HIDE DEF r
<1>4. Painted(D, E, t, u, r, FALSE)
    <2>1. t \in Tree(D, E) /\ r \in D \cup {Nil} /\ Nil \notin D
        BY <1>1, <1>2
    <2>2. Paint(t, r, FALSE) = u
        BY Zenon DEF r
    <2>. QED
        BY <2>1, <2>2, PaintBlack, Zenon
<1>5. u \in Tree(D, E) /\ SameLinks(D, t, u)
    BY <1>4 DEF Painted
<1>6. /\ u.root = r /\ Kept(D, t, u)
      /\ \A z \in D : u.node[z].parent = t.node[z].parent /\ \A q \in Sides : u.node[z][q] = t.node[z][q]
    BY <1>4, <1>5 DEF SameLinks, Links, Sides, Kept, Painted, r
<1>7. ~ u.node[r].red /\ \A z \in D \ {r} : u.node[z].red = t.node[z].red
    <2>1. \A z \in D : u.node[z].red = IF z = r THEN FALSE ELSE t.node[z].red
        BY <1>4, Zenon DEF Painted
    <2>2. u.node[r].red = FALSE
        BY <1>2, <2>1, Zenon
    <2>3. \A z \in D \ {r} : u.node[z].red = t.node[z].red
        BY <2>1, Zenon
    <2>. QED
        BY <2>2, <2>3
<1>8. SearchTree(D, E, u, B)
    BY <1>1, <1>5, SameShape
<1>9. ASSUME NEW z \in D, u.node[z].red, u.node[z].parent # Nil
      PROVE  ~ u.node[u.node[z].parent].red
    <2>0. t.node[z].parent \in D \cup {Nil}
        <3>1. t \in Tree(D, E)
            BY <1>1, Zenon
        <3>. QED
            BY <3>1, LinkType, Zenon
    <2>1. z # r /\ t.node[z].red /\ u.node[z].parent = t.node[z].parent /\ t.node[z].parent \in D
        BY <1>6, <1>7, <1>9, <2>0
    <2>2. t.node[z].parent = r \/ ~ t.node[t.node[z].parent].red
        BY <1>1, <1>3, <1>9, <2>1
    <2>. QED
        BY <1>7, <2>1, <2>2
<1>10. Balanced(D, u, K)
    <2>1. /\ H \in [D \cup {Nil} -> Nat] /\ H[Nil] = 0
          /\ \A z \in D : \A q \in Sides : H[z] = H[t.node[z][q]] + Black(t, z)
        BY <1>1 DEF Balanced
    <2>2. /\ Black(u, r) = 1 /\ Black(t, r) \in {0, 1} /\ \A z \in D \ {r} : Black(u, z) = Black(t, z)
        BY <1>7 DEF Black
    <2>3. /\ K \in [D \cup {Nil} -> Nat] /\ K[r] = H[r] + (1 - Black(t, r))
          /\ \A z \in (D \cup {Nil}) \ {r} : K[z] = H[z]
        BY <1>2, <2>1, <2>2
    <2>. HIDE DEF K
    <2>4. \A z \in D : \A q \in Sides : t.node[z][q] \in (D \cup {Nil}) \ {r}
        <3>1. t \in Tree(D, E) /\ Nil \notin D
            BY <1>1, Zenon
        <3>2. \A z \in D : \A q \in Sides : t.node[z][q] \in D \cup {Nil}
            BY <3>1, LinkType, Zenon
        <3>3. \A z \in D : \A q \in Sides : t.node[z][q] # Nil => t.node[t.node[z][q]].parent = z
            BY <1>1, Zenon DEF Linked
        <3>. QED
            BY <1>2, <3>1, <3>2, <3>3
    <2>5. ASSUME NEW z \in D, NEW q \in Sides PROVE K[z] = K[u.node[z][q]] + Black(u, z)
        <3>1. /\ H[z] = H[t.node[z][q]] + Black(t, z) /\ u.node[z][q] = t.node[z][q]
              /\ K[t.node[z][q]] = H[t.node[z][q]] /\ H[t.node[z][q]] \in Nat
            <4>1. t.node[z][q] \in D \cup {Nil} /\ t.node[z][q] # r
                BY <2>4, Zenon
            <4>2. u.node[z][q] = t.node[z][q] /\ H[z] = H[t.node[z][q]] + Black(t, z)
                BY <1>6, <2>1, Zenon
            <4>3. K[t.node[z][q]] = H[t.node[z][q]]
                BY <2>3, <4>1, Zenon
            <4>4. H[t.node[z][q]] \in Nat
                BY <2>1, <4>1, Zenon
            <4>. QED
                BY <4>2, <4>3, <4>4, Zenon
        <3>2. CASE z = r
            <4>1. K[r] = H[r] + (1 - Black(t, r)) /\ Black(u, r) = 1 /\ Black(t, r) \in {0, 1}
                BY <2>2, <2>3, Zenon
            <4>. QED
                BY <3>1, <3>2, <4>1
        <3>3. CASE z # r
            <4>1. K[z] = H[z] /\ Black(u, z) = Black(t, z)
                BY <2>2, <2>3, <3>3, Zenon
            <4>. QED
                BY <3>1, <4>1
        <3>. QED
            BY <3>2, <3>3
    <2>6. K[Nil] = 0
        BY <1>1, <1>2, <2>1, <2>3
    <2>. QED
        BY <2>3, <2>5, <2>6 DEF Balanced
<1>11. RB(D, E, u, B, K)
    BY <1>6, <1>7, <1>8, <1>9, <1>10 DEF RB
<1>. QED
    BY <1>6, <1>11

(***************************************************************************)
(* A new node                                                              *)
(***************************************************************************)
\* The keys below a child are below its parent, which is not among them.
LEMMA ChildBelow ==
    ASSUME NEW D, NEW E, NEW t, NEW B, SearchTree(D, E, t, B), NEW x \in D, NEW s \in Sides
    PROVE  B[t.node[x][s]] \subseteq B[x] /\ x \notin B[t.node[x][s]] /\ x \in B[x] /\ B[x] \subseteq D
<1>. DEFINE c == t.node[x][s]
<1>1. Ordered(D, t, B) /\ D \subseteq Nat
    BY DEF SearchTree
<1>2. B[x] = {x} \cup B[t.node[x][s]] \cup B[t.node[x][Opposite(s)]]
    BY <1>1, BelowSides
<1>3. \A y \in B[c] : Beyond(s, y, x)
    BY <1>1 DEF Ordered
<1>4. B[x] \subseteq D
    BY <1>1 DEF Ordered
<1>. HIDE DEF c
<1>5. x \notin B[c]
    <2>1. Order(D)
        BY <1>1, OrderHolds, Zenon
    <2>. QED
        BY <1>3, <2>1 DEF Order
<1>6. B[c] \subseteq B[x] /\ x \in B[x]
    BY <1>2 DEF c
<1>. QED
    BY <1>4, <1>5, <1>6 DEF c

\* The side of x on which k belongs.
SideOf(x, k) == IF k > x THEN "right" ELSE "left"

\* k belongs below x.
Fits(D, t, B, k, x) ==
    /\ x \in D /\ (k \in D => k \in B[x])
    /\ \A z \in D : \A s \in Sides : x \in B[t.node[z][s]] => Beyond(s, k, z)

\* u is t with a red node for k on side r of x.
Hung(D, E, t, u, x, k, r, v) ==
    /\ u \in Tree(D \cup {k}, E) /\ u.root = t.root
    /\ \A z \in D : \A s \in Sides : u.node[z][s] = IF z = x /\ s = r THEN k ELSE t.node[z][s]
    /\ \A z \in D : u.node[z].parent = t.node[z].parent /\ u.node[z].red = t.node[z].red /\ u.node[z].elem = t.node[z].elem
    /\ \A s \in Sides : u.node[k][s] = Nil
    /\ u.node[k].parent = x /\ u.node[k].red /\ u.node[k].elem = v

\* What Hang writes.
LEMMA HangIs ==
    ASSUME NEW D, NEW E, NEW t \in Tree(D, E), NEW k, k \notin D, NEW v \in E, NEW x \in D
    PROVE  Hung(D, E, t, Hang(t, x, k, v), x, k, SideOf(x, k), v)
<1>. DEFINE u == Hang(t, x, k, v)
            r == SideOf(x, k)
            N == [i \in D \cup {k} |->
                    IF i = k THEN NewNode(x, TRUE, v)
                    ELSE IF i = x THEN [t.node[x] EXCEPT ![r] = k]
                    ELSE t.node[i]]
<1>1. t.node \in [D -> NodeOf(D, E)] /\ t.root \in D \cup {Nil} /\ DOMAIN t.node = D
    BY DEF Tree, Nodes
<1>2. u = [root |-> t.root, node |-> N]
    BY <1>1, Zenon DEF Hang, SideOf
<1>3. r \in Sides
    BY DEF SideOf, Sides
<1>. HIDE DEF r, u
<1>4. t.node[x] \in NodeOf(D, E)
    BY <1>1
<1>5. [t.node[x] EXCEPT ![r] = k] \in NodeOf(D \cup {k}, E)
    BY <1>3, <1>4 DEF NodeOf, Sides
<1>6. NewNode(x, TRUE, v) \in NodeOf(D \cup {k}, E)
    BY DEF NewNode, NodeOf
<1>7. \A i \in D : t.node[i] \in NodeOf(D \cup {k}, E)
    BY <1>1 DEF NodeOf
<1>8. /\ N \in Nodes(D \cup {k}, E) /\ N[k] = NewNode(x, TRUE, v) /\ N[x] = [t.node[x] EXCEPT ![r] = k]
      /\ \A z \in D \ {x} : N[z] = t.node[z]
    <2>1. \A i \in D \cup {k} : N[i] \in NodeOf(D \cup {k}, E)
        BY <1>5, <1>6, <1>7, Zenon
    <2>2. N \in Nodes(D \cup {k}, E)
        BY <2>1, Zenon DEF Nodes
    <2>3. N[k] = NewNode(x, TRUE, v) /\ N[x] = [t.node[x] EXCEPT ![r] = k]
        BY Zenon
    <2>4. \A z \in D \ {x} : N[z] = t.node[z]
        BY Zenon
    <2>. QED
        BY <2>2, <2>3, <2>4, Zenon
<1>. HIDE DEF N
<1>9. u.root = t.root /\ u.node = N
    BY <1>2
<1>10. u \in Tree(D \cup {k}, E)
    BY <1>1, <1>2, <1>8 DEF Tree
<1>11. /\ \A s \in Sides : N[x][s] = IF s = r THEN k ELSE t.node[x][s]
       /\ N[x].parent = t.node[x].parent /\ N[x].red = t.node[x].red /\ N[x].elem = t.node[x].elem
    BY <1>3, <1>4, <1>8 DEF NodeOf, Sides
<1>12. /\ \A s \in Sides : N[k][s] = Nil
       /\ N[k].parent = x /\ N[k].red /\ N[k].elem = v
    BY <1>8 DEF NewNode, Sides
<1>13. ASSUME NEW z \in D
       PROVE  /\ \A s \in Sides : N[z][s] = IF z = x /\ s = r THEN k ELSE t.node[z][s]
              /\ N[z].parent = t.node[z].parent /\ N[z].red = t.node[z].red /\ N[z].elem = t.node[z].elem
    <2>1. CASE z = x
        BY <1>11, <2>1
    <2>2. CASE z # x
        BY <1>8, <2>2
    <2>. QED
        BY <2>1, <2>2
<1>14. Hung(D, E, t, u, x, k, r, v)
    BY <1>9, <1>10, <1>12, <1>13 DEF Hung
<1>. QED
    BY <1>14, Zenon DEF u, r

\* The keys below every node with k hung below x.
BelowHung(D, B, x, k) ==
    [z \in D \cup {k} \cup {Nil} |-> IF z = k THEN {k} ELSE IF x \in B[z] THEN B[z] \cup {k} ELSE B[z]]

\* The tree u is t with the new key k and its element v; only k may break a rule.
HungHalf(D, E, t, u, k, v) ==
    /\ \E A, K : Half(D \cup {k}, E, u, k, A, K)
    /\ \A z \in D : u.node[z].elem = t.node[z].elem
    /\ u.node[k].elem = v

\* The new node is the only one that may break a rule.
LEMMA HangHalf ==
    ASSUME NEW D, NEW E, NEW t, NEW B, NEW H, RB(D, E, t, B, H),
           NEW k \in Nat \ {0}, k \notin D, NEW v \in E, NEW x, Fits(D, t, B, k, x), Towards(t, x, k) = Nil,
           NEW u, Hang(t, x, k, v) = u
    PROVE  HungHalf(D, E, t, u, k, v)
<1>. DEFINE r == SideOf(x, k)
            M == D \cup {k}
            A == BelowHung(D, B, x, k)
            K == [z \in M \cup {Nil} |-> IF z = k THEN 0 ELSE H[z]]
<1>1. /\ SearchTree(D, E, t, B) /\ Balanced(D, t, H) /\ Nil \notin D /\ t \in Tree(D, E)
      /\ Linked(D, t) /\ Ordered(D, t, B) /\ D \subseteq Nat \ {0} /\ x \in D
      /\ t.root # Nil => ~ t.node[t.root].red
      /\ \A z \in D : t.node[z].red /\ t.node[z].parent # Nil => ~ t.node[t.node[z].parent].red
    BY DEF RB, SearchTree, Fits
<1>2. /\ r \in Sides /\ t.node[x][r] = Nil /\ Beyond(r, k, x) /\ k # Nil /\ k # x
    <2>1. k # Nil /\ k # x /\ x \in Nat
        BY <1>1 DEF Nil
    <2>2. r \in Sides /\ Beyond(r, k, x)
        BY <2>1 DEF SideOf, Sides, Beyond
    <2>3. t.node[x][r] = Nil
        BY Zenon DEF SideOf, Towards
    <2>. QED
        BY <2>1, <2>2, <2>3
<1>3. Hung(D, E, t, u, x, k, r, v)
    BY <1>1, HangIs
<1>. HIDE DEF r
<1>4. /\ u \in Tree(M, E) /\ u.root = t.root
      /\ \A z \in D : \A s \in Sides : u.node[z][s] = IF z = x /\ s = r THEN k ELSE t.node[z][s]
      /\ \A z \in D : /\ u.node[z].parent = t.node[z].parent /\ u.node[z].red = t.node[z].red
                      /\ u.node[z].elem = t.node[z].elem
      /\ \A s \in Sides : u.node[k][s] = Nil
      /\ u.node[k].parent = x /\ u.node[k].red /\ u.node[k].elem = v
    BY <1>3 DEF Hung
<1>a. \A z \in D : \A s \in Sides : u.node[z][s] = IF z = x /\ s = r THEN k ELSE t.node[z][s]
    BY <1>4, Zenon
<1>b. \A z \in D : u.node[z].parent = t.node[z].parent /\ u.node[z].red = t.node[z].red
    BY <1>4, Zenon
<1>c. \A s \in Sides : u.node[k][s] = Nil
    BY <1>4, Zenon
<1>d. x \in D /\ r \in Sides /\ t \in Tree(D, E) /\ u.node[x][r] = k
    <2>1. x \in D /\ r \in Sides /\ t \in Tree(D, E)
        BY <1>1, <1>2, Zenon
    <2>. QED
        BY <1>a, <2>1, Zenon
<1>5. t.root \in D /\ t.node[t.root].parent = Nil /\ B[t.root] = D
    BY <1>1 DEF Linked, Ordered
<1>6. \A z \in D : \A s \in Sides : t.node[z][s] \in D \cup {Nil} /\ t.node[z][s] # k
    <2>1. t \in Tree(D, E) /\ k \notin D \cup {Nil}
        BY <1>1, <1>2, Zenon
    <2>2. \A z \in D : \A s \in Sides : t.node[z][s] \in D \cup {Nil}
        BY <2>1, LinkType, Zenon
    <2>. QED
        BY <2>1, <2>2, Zenon
<1>7. Linked(M, u)
    <2>1. u.root \in M /\ u.node[u.root].parent = Nil
        BY <1>4, <1>5
    <2>2. ASSUME NEW z \in M, NEW s \in Sides, u.node[z][s] # Nil PROVE u.node[u.node[z][s]].parent = z
        <3>1. z \in D
            BY <1>c, <2>2, Zenon
        <3>2. CASE z = x /\ s = r
            <4>1. u.node[k].parent = x
                BY <1>4, Zenon
            <4>. QED
                BY <1>d, <3>2, <4>1, Zenon
        <3>3. CASE ~(z = x /\ s = r)
            <4>1. u.node[z][s] = t.node[z][s] /\ t.node[z][s] \in D
                <5>1. u.node[z][s] = t.node[z][s]
                    BY <1>a, <3>1, <3>3, Zenon
                <5>2. t.node[z][s] \in D \cup {Nil}
                    BY <1>6, <3>1, Zenon
                <5>. QED
                    BY <2>2, <5>1, <5>2, Zenon
            <4>2. t.node[t.node[z][s]].parent = z
                <5>1. \A y \in D : \A q \in Sides : t.node[y][q] # Nil => t.node[t.node[y][q]].parent = y
                    BY <1>1, Zenon DEF Linked
                <5>. QED
                    BY <2>2, <3>1, <4>1, <5>1, Zenon
            <4>. QED
                BY <1>b, <4>1, <4>2, Zenon
        <3>. QED
            BY <3>2, <3>3
    <2>3. ASSUME NEW z \in M, z # u.root
          PROVE  u.node[z].parent \in M /\ \E s \in Sides : u.node[u.node[z].parent][s] = z
        <3>1. CASE z = k
            <4>1. u.node[k].parent = x
                BY <1>4, Zenon
            <4>. QED
                BY <1>d, <3>1, <4>1, Zenon
        <3>2. CASE z # k
            <4>1. z \in D /\ z # t.root
                BY <1>4, <2>3, <3>2
            <4>2. t.node[z].parent \in D /\ \E s \in Sides : t.node[t.node[z].parent][s] = z
                BY <1>1, <4>1, Zenon DEF Linked
            <4>3. PICK s \in Sides : t.node[t.node[z].parent][s] = z
                BY <4>2
            <4>4. ~(t.node[z].parent = x /\ s = r)
                BY <1>1, <1>2, <4>1, <4>3
            <4>5. u.node[t.node[z].parent][s] = z /\ u.node[z].parent = t.node[z].parent
                BY <1>4, <4>1, <4>2, <4>3, <4>4
            <4>. QED
                BY <4>2, <4>5
        <3>. QED
            BY <3>1, <3>2
    <2>. QED
        BY <2>1, <2>2, <2>3 DEF Linked
<1>8. /\ B \in [D \cup {Nil} -> SUBSET D] /\ B[Nil] = {} /\ x \in B[x]
      /\ \A z \in D : \A s \in Sides : \A y \in B[t.node[z][s]] : Beyond(s, y, z)
    <2>1. SearchTree(D, E, t, B) /\ Ordered(D, t, B) /\ x \in D
        BY <1>1, Zenon
    <2>2. x \in B[x]
        BY <2>1, SelfBelow, Zenon
    <2>. QED
        BY <2>1, <2>2, Zenon DEF Ordered
<1>9. /\ A[k] = {k} /\ A[Nil] = {}
      /\ \A z \in D \cup {Nil} : A[z] = IF x \in B[z] THEN B[z] \cup {k} ELSE B[z]
    BY <1>1, <1>2, <1>8 DEF BelowHung
<1>10. A \in [M \cup {Nil} -> SUBSET M]
    <2>1. \A z \in M \cup {Nil} : A[z] \in SUBSET M
        BY <1>8, <1>9, Zenon
    <2>. QED
        BY <2>1 DEF BelowHung
<1>. HIDE DEF A
<1>11. ASSUME NEW z \in M, NEW s \in Sides PROVE A[z] = {z} \cup A[u.node[z][s]] \cup A[u.node[z][Opposite(s)]]
    <2>0. Opposite(s) \in Sides /\ s # Opposite(s) /\ (r = s \/ r = Opposite(s))
        BY <1>2, TwoSides
    <2>1. CASE z = k
        BY <1>4, <1>9, <2>0, <2>1
    <2>2. CASE z \in D
        <3>1. B[z] = {z} \cup B[t.node[z][s]] \cup B[t.node[z][Opposite(s)]]
            <4>1. Ordered(D, t, B)
                BY <1>1, Zenon
            <4>. QED
                BY <2>2, <4>1, BelowSides
        <3>2. CASE z = x
            <4>1. \A q \in Sides : x \notin B[t.node[x][q]]
                BY <1>1, ChildBelow
            <4>2. \A q \in Sides : q # r => A[u.node[x][q]] = B[t.node[x][q]]
                <5>1. SUFFICES ASSUME NEW q \in Sides, q # r PROVE A[u.node[x][q]] = B[t.node[x][q]]
                    OBVIOUS
                <5>2. u.node[x][q] = t.node[x][q]
                    BY <1>a, <1>d, <5>1, Zenon
                <5>3. t.node[x][q] \in D \cup {Nil} /\ x \notin B[t.node[x][q]]
                    BY <1>6, <2>2, <3>2, <4>1
                <5>. QED
                    BY <1>9, <5>2, <5>3, Zenon
            <4>3. A[u.node[x][r]] = {k} /\ B[t.node[x][r]] = {}
                BY <1>1, <1>2, <1>4, <1>8, <1>9, Zenon
            <4>4. A[x] = B[x] \cup {k}
                BY <1>1, <1>8, <1>9, Zenon
            <4>. QED
                BY <2>0, <3>1, <3>2, <4>2, <4>3, <4>4
        <3>3. CASE z # x
            <4>1. \A q \in Sides : /\ u.node[z][q] = t.node[z][q] /\ t.node[z][q] \in D \cup {Nil}
                                   /\ A[t.node[z][q]] = IF x \in B[t.node[z][q]] THEN B[t.node[z][q]] \cup {k}
                                                        ELSE B[t.node[z][q]]
                <5>1. TAKE q \in Sides
                <5>2. u.node[z][q] = t.node[z][q] /\ t.node[z][q] \in D \cup {Nil}
                    BY <1>a, <1>6, <2>2, <3>3, Zenon
                <5>. QED
                    BY <1>9, <5>2, Zenon
            <4>2. A[z] = IF x \in B[z] THEN B[z] \cup {k} ELSE B[z]
                BY <1>9, <2>2, Zenon
            <4>3. x \in B[z] <=> x \in B[t.node[z][s]] \/ x \in B[t.node[z][Opposite(s)]]
                BY <3>1, <3>3
            <4>. DEFINE b == t.node[z][s]
                        c == t.node[z][Opposite(s)]
            <4>4. /\ A[u.node[z][s]] = IF x \in B[b] THEN B[b] \cup {k} ELSE B[b]
                  /\ A[u.node[z][Opposite(s)]] = IF x \in B[c] THEN B[c] \cup {k} ELSE B[c]
                BY <2>0, <4>1
            <4>5. B[z] = {z} \cup B[b] \cup B[c] /\ (x \in B[z] <=> x \in B[b] \/ x \in B[c])
                BY <3>1, <4>3
            <4>. HIDE DEF b, c
            <4>6. CASE x \in B[z]
                BY <4>2, <4>4, <4>5, <4>6
            <4>7. CASE x \notin B[z]
                BY <4>2, <4>4, <4>5, <4>7
            <4>. QED
                BY <4>6, <4>7
        <3>. QED
            BY <3>2, <3>3
    <2>. QED
        BY <2>1, <2>2
<1>12. ASSUME NEW z \in M, NEW s \in Sides, NEW y \in A[u.node[z][s]] PROVE Beyond(s, y, z)
    <2>1. z \in D
        <3>1. z # k
            <4>1. SUFFICES ASSUME z = k PROVE FALSE
                OBVIOUS
            <4>2. u.node[z][s] = Nil
                BY <1>c, <4>1, Zenon
            <4>3. A[Nil] = {}
                BY <1>9, Zenon
            <4>. QED
                BY <1>12, <4>2, <4>3, Zenon
        <3>. QED
            BY <3>1, Zenon
    <2>2. CASE z = x /\ s = r
        <3>1. u.node[x][r] = k /\ Beyond(r, k, x)
            BY <1>2, <1>d, Zenon
        <3>2. y \in {k}
            BY <1>9, <1>12, <2>2, <3>1, Zenon
        <3>. QED
            BY <2>2, <3>1, <3>2, Zenon
    <2>3. CASE ~(z = x /\ s = r)
        <3>1. u.node[z][s] = t.node[z][s] /\ t.node[z][s] \in D \cup {Nil}
            BY <1>a, <1>6, <2>1, <2>3, Zenon
        <3>2. y \in B[t.node[z][s]] \/ (y = k /\ x \in B[t.node[z][s]])
            <4>1. A[t.node[z][s]] = IF x \in B[t.node[z][s]] THEN B[t.node[z][s]] \cup {k} ELSE B[t.node[z][s]]
                BY <1>9, <3>1, Zenon
            <4>2. y \in A[t.node[z][s]]
                BY <1>12, <3>1, Zenon
            <4>3. CASE x \in B[t.node[z][s]]
                <5>1. y \in B[t.node[z][s]] \cup {k}
                    BY <4>1, <4>2, <4>3, Zenon
                <5>. QED
                    BY <4>3, <5>1, Zenon
            <4>4. CASE x \notin B[t.node[z][s]]
                BY <4>1, <4>2, <4>4, Zenon
            <4>. QED
                BY <4>3, <4>4, Zenon
        <3>3. x \in B[t.node[z][s]] => Beyond(s, k, z)
            BY <2>1 DEF Fits
        <3>. QED
            BY <1>8, <2>1, <3>2, <3>3
    <2>. QED
        BY <2>2, <2>3
<1>13. A[u.root] = M
    <2>1. u.root = t.root /\ t.root \in D \cup {Nil} /\ B[t.root] = D /\ x \in D
        BY <1>1, <1>4, <1>5
    <2>2. A[t.root] = IF x \in B[t.root] THEN B[t.root] \cup {k} ELSE B[t.root]
        BY <1>9, <2>1, Zenon
    <2>. QED
        BY <2>1, <2>2
<1>14. Ordered(M, u, A)
    <2>1. \A z \in M : A[z] = {z} \cup A[u.node[z].left] \cup A[u.node[z].right]
        <3>1. "left" \in Sides /\ Opposite("left") = "right"
            BY DEF Sides, Opposite
        <3>2. \A z \in M : A[z] = {z} \cup A[u.node[z]["left"]] \cup A[u.node[z]["right"]]
            BY <1>11, <3>1
        <3>. QED
            BY <3>2
    <2>. QED
        BY <1>9, <1>10, <1>12, <1>13, <2>1 DEF Ordered
<1>15. SearchTree(M, E, u, A)
    <2>1. D \subseteq Nat \ {0}
        BY <1>1, Zenon
    <2>2. Nil \notin M /\ M \subseteq Nat \ {0}
        BY <2>1 DEF Nil
    <2>3. u \in Tree(M, E)
        BY <1>4, Zenon
    <2>. QED
        BY <1>7, <1>14, <2>2, <2>3, Zenon DEF SearchTree
<1>16. Balanced(M, u, K)
    <2>1. /\ H \in [D \cup {Nil} -> Nat] /\ H[Nil] = 0
          /\ \A z \in D : \A s \in Sides : H[z] = H[t.node[z][s]] + Black(t, z)
        BY <1>1 DEF Balanced
    <2>2. K \in [M \cup {Nil} -> Nat] /\ K[k] = 0 /\ K[Nil] = 0 /\ \A z \in D \cup {Nil} : K[z] = H[z]
        BY <1>2, <2>1
    <2>. HIDE DEF K
    <2>3. Black(u, k) = 0 /\ \A z \in D : Black(u, z) = Black(t, z)
        BY <1>4 DEF Black
    <2>4. ASSUME NEW z \in M, NEW s \in Sides PROVE K[z] = K[u.node[z][s]] + Black(u, z)
        <3>1. CASE z = k
            <4>1. u.node[z][s] = Nil /\ K[z] = 0 /\ K[Nil] = 0 /\ Black(u, z) = 0
                BY <1>c, <2>2, <2>3, <3>1, Zenon
            <4>. QED
                BY <4>1
        <3>2. CASE z = x /\ s = r
            <4>1. H[x] = H[t.node[x][r]] + Black(t, x)
                BY <1>d, <2>1, Zenon
            <4>2. /\ t.node[x][r] = Nil /\ H[Nil] = 0 /\ K[x] = H[x] /\ K[k] = 0
                  /\ Black(u, x) = Black(t, x)
                BY <1>2, <1>d, <2>1, <2>2, <2>3, Zenon
            <4>. QED
                BY <1>d, <3>2, <4>1, <4>2, Zenon
        <3>3. CASE z \in D /\ ~(z = x /\ s = r)
            <4>1. u.node[z][s] = t.node[z][s] /\ t.node[z][s] \in D \cup {Nil}
                BY <1>a, <1>6, <3>3, Zenon
            <4>2. /\ H[z] = H[t.node[z][s]] + Black(t, z) /\ K[z] = H[z]
                  /\ K[t.node[z][s]] = H[t.node[z][s]] /\ Black(u, z) = Black(t, z)
                BY <2>1, <2>2, <2>3, <3>3, <4>1, Zenon
            <4>. QED
                BY <4>1, <4>2, Zenon
        <3>. QED
            BY <1>d, <3>1, <3>2, <3>3, Zenon
    <2>. QED
        BY <2>2, <2>4 DEF Balanced
<1>17. ~ u.node[u.root].red
    <2>1. ~ t.node[t.root].red /\ t.root \in D /\ u.root = t.root
        <3>1. t.root \in D /\ Nil \notin D /\ (t.root # Nil => ~ t.node[t.root].red)
            BY <1>1, <1>5, Zenon
        <3>2. u.root = t.root
            BY <1>4, Zenon
        <3>. QED
            BY <3>1, <3>2, Zenon
    <2>2. u.node[t.root].red = t.node[t.root].red
        BY <1>b, <2>1, Zenon
    <2>. QED
        BY <2>1, <2>2, Zenon
<1>18. ASSUME NEW z \in M \ {k}, u.node[z].red, u.node[z].parent # Nil PROVE ~ u.node[u.node[z].parent].red
    <2>1. z \in D /\ t.node[z].red /\ u.node[z].parent = t.node[z].parent /\ t.node[z].parent \in D
        <3>1. t.node[z].parent \in D \cup {Nil}
            <4>1. z \in D
                BY Zenon
            <4>. QED
                BY <1>d, <4>1, LinkType, Zenon
        <3>2. z \in D
            BY Zenon
        <3>. QED
            BY <1>b, <1>18, <3>1, <3>2, Zenon
    <2>2. ~ t.node[t.node[z].parent].red
        BY <1>1, <1>18, <2>1, Zenon
    <2>3. u.node[t.node[z].parent].red = t.node[t.node[z].parent].red
        BY <1>b, <2>1, Zenon
    <2>. QED
        BY <2>1, <2>2, <2>3, Zenon
<1>19. Half(M, E, u, k, A, K)
    BY <1>4, <1>15, <1>16, <1>17, <1>18 DEF Half
<1>20. u.node[k].elem = v /\ \A z \in D : u.node[z].elem = t.node[z].elem
    BY <1>4, Zenon
<1>. QED
    BY <1>19, <1>20, Zenon DEF HungHalf

\* t is a red-black tree of the keys D.
Holds(D, E, t) == IsFiniteSet(D) /\ \E B, H : RB(D, E, t, B, H)

\* A new element for a key of the tree.
LEMMA OverwriteHolds ==
    ASSUME NEW D, NEW E, NEW t, Holds(D, E, t), NEW k \in D, NEW v \in E,
           NEW u, [root |-> t.root, node |-> Set(t.node, k, "elem", v)] = u
    PROVE  /\ Holds(D, E, u) /\ u.node[k].elem = v
           /\ \A z \in D \ {k} : u.node[z].elem = t.node[z].elem
<1>1. PICK B, H : RB(D, E, t, B, H)
    BY DEF Holds
<1>2. SearchTree(D, E, t, B) /\ Balanced(D, t, H) /\ Nil \notin D /\ t \in Tree(D, E)
    BY <1>1 DEF RB, SearchTree
<1>. DEFINE N == Set(t.node, k, "elem", v)
<1>3. t.node \in Nodes(D, E) /\ t.root \in D \cup {Nil}
    BY <1>2 DEF Tree
<1>4. N \in Nodes(D, E) /\ Assigned(D, t.node, N, k, "elem", v)
    BY <1>2, <1>3, SetElem
<1>5. u.root = t.root /\ u.node = N
    OBVIOUS
<1>6. u \in Tree(D, E)
    BY <1>3, <1>4 DEF Tree
<1>. HIDE DEF N
<1>7. \A z \in D : \A h \in Fields : u.node[z][h] = IF z = k /\ h = "elem" THEN v ELSE t.node[z][h]
    BY <1>4, <1>5 DEF Assigned
<1>8. /\ SameLinks(D, t, u) /\ \A z \in D : u.node[z]["red"] = t.node[z]["red"]
      /\ \A z \in D : \A s \in Sides \cup {"parent"} : u.node[z][s] = t.node[z][s]
    BY <1>5, <1>7 DEF SameLinks, Fields, Links, Sides
<1>9. SearchTree(D, E, u, B)
    BY <1>2, <1>6, <1>8, SameShape
<1>10. Balanced(D, u, H)
    <2>1. \A z \in D : Black(u, z) = Black(t, z)
        BY <1>8, Zenon DEF Black
    <2>2. /\ H \in [D \cup {Nil} -> Nat] /\ H[Nil] = 0
          /\ \A z \in D : \A s \in Sides : H[z] = H[t.node[z][s]] + Black(t, z)
        BY <1>2, Zenon DEF Balanced
    <2>3. \A z \in D : \A s \in Sides : u.node[z][s] = t.node[z][s]
        BY <1>8, Zenon
    <2>4. \A z \in D : \A s \in Sides : H[z] = H[u.node[z][s]] + Black(u, z)
        BY <2>1, <2>2, <2>3, Zenon
    <2>. QED
        BY <2>2, <2>4, Zenon DEF Balanced
<1>11. u.root # Nil => ~ u.node[u.root].red
    <2>1. u.root # Nil => u.root \in D /\ ~ t.node[u.root].red
        BY <1>1, <1>3, <1>5 DEF RB
    <2>. QED
        BY <1>8, <2>1
<1>12. ASSUME NEW z \in D, u.node[z].red, u.node[z].parent # Nil PROVE ~ u.node[u.node[z].parent].red
    <2>0. t.node[z].parent \in D \cup {Nil}
        BY <1>2, LinkType
    <2>1. u.node[z].parent = t.node[z].parent /\ t.node[z].red /\ t.node[z].parent \in D
        BY <1>8, <1>12, <2>0
    <2>2. ~ t.node[t.node[z].parent].red
        BY <1>1, <1>12, <2>1 DEF RB
    <2>. QED
        BY <1>8, <2>1, <2>2
<1>13. RB(D, E, u, B, H)
    BY <1>9, <1>10, <1>11, <1>12 DEF RB
<1>14. u.node[k].elem = v /\ \A z \in D \ {k} : u.node[z].elem = t.node[z].elem
    BY <1>7 DEF Fields
<1>. QED
    BY <1>13, <1>14 DEF Holds

=============================================================================
