-------------------------- MODULE ParamStoreProofs --------------------------
(***************************************************************************)
(* rbtree.c for trees of any size, second part: rbtree_fix_tree repairs a  *)
(* tree, rbtree_search_node finds and rbtree_insert keeps the rules.  Then *)
(* the parameters of a statement, for any names, hash function, inputs and *)
(* sequence of calls: the trees are red-black trees, and what is sent is   *)
(* what was bound.                                                         *)
(***************************************************************************)
EXTENDS ParamStore, RedBlackTreeProofs, FiniteSetTheorems

\* The loop after n rounds: it is over, or the red node has more than n nodes at it and below.
Repairing(D, E, s, n) ==
    /\ s \in [tree : Tree(D, E), target : D]
    /\ \E B, H : Half(D, E, s.tree, s.target, B, H) /\ (Fixed(s) \/ Cardinality(B[s.target]) > n)

Repair(s) == IF Fixed(s) THEN s ELSE FixRound(s)

\* More is below the grandparent.
LEMMA Grows ==
    ASSUME NEW D, NEW E, NEW t, NEW B, SearchTree(D, E, t, B), IsFiniteSet(D),
           NEW x, NEW p, NEW g, NEW side, Kin(D, t, x, p, g, side)
    PROVE  IsFiniteSet(B[g]) /\ Cardinality(B[g]) > Cardinality(B[x])
<1>1. /\ Nil \notin D /\ t \in Tree(D, E) /\ Linked(D, t) /\ Ordered(D, t, B) /\ D \subseteq Nat
      /\ x \in D /\ p \in D /\ g \in D /\ side \in Sides /\ x # t.root
      /\ t.node[x].parent = p /\ t.node[g][side] = p
    BY DEF SearchTree, Kin
<1>2. B[p] \subseteq B[g] /\ g \in B[g]
    BY <1>1, BelowSides
<1>3. B[x] \subseteq B[p]
    <2>1. PICK s \in Sides : t.node[p][s] = x
        BY <1>1 DEF Linked
    <2>. QED
        BY <1>1, <2>1, BelowSides
<1>4. g \notin B[p]
    <2>1. g \in B[p] => Beyond(side, g, g)
        BY <1>1 DEF Ordered
    <2>2. Order(D)
        BY <1>1, OrderHolds, Zenon
    <2>. QED
        BY <1>1, <2>1, <2>2 DEF Order
<1>5. B[g] \subseteq D
    BY <1>1 DEF Ordered
<1>6. IsFiniteSet(B[g])
    BY <1>5, FS_Subset
<1>7. B[x] \subseteq B[g] /\ B[x] # B[g]
    BY <1>2, <1>3, <1>4
<1>8. Cardinality(B[x]) <= Cardinality(B[g]) /\ (Cardinality(B[g]) = Cardinality(B[x]) => B[g] = B[x])
    BY <1>6, <1>7, FS_Subset
<1>9. Cardinality(B[x]) \in Nat /\ Cardinality(B[g]) \in Nat
    BY <1>6, <1>7, FS_Subset, FS_CardinalityType
<1>. QED
    BY <1>6, <1>7, <1>8, <1>9

\* A round keeps what the next one needs, and every round but the last moves up.
LEMMA Round ==
    ASSUME NEW D, NEW E, IsFiniteSet(D), NEW s, NEW n \in Nat, Repairing(D, E, s, n)
    PROVE  Repairing(D, E, Repair(s), n + 1) /\ Kept(D, s.tree, Repair(s).tree)
<1>1. PICK t \in Tree(D, E), x \in D : s = [tree |-> t, target |-> x]
    BY DEF Repairing
<1>2. s.tree = t /\ s.target = x
    BY <1>1
<1>3. PICK B, H : Half(D, E, t, x, B, H) /\ (Fixed(s) \/ Cardinality(B[x]) > n)
    BY <1>2 DEF Repairing
<1>4. CASE Fixed(s)
    <2>1. Repair(s) = s
        BY <1>4 DEF Repair
    <2>. QED
        BY <1>2, <1>3, <1>4, <2>1 DEF Repairing, Kept
<1>5. CASE ~ Fixed(s)
    <2>0. Repair(s) = FixRound(s)
        BY <1>5 DEF Repair
    <2>1. PICK p : t.node[x].parent = p
        OBVIOUS
    <2>2. PICK g : t.node[p].parent = g
        OBVIOUS
    <2>3. PICK side : (IF p = t.node[g].left THEN "left" ELSE "right") = side
        OBVIOUS
    <2>4. PICK w : t.node[g][Opposite(side)] = w
        OBVIOUS
    <2>5. Kin(D, t, x, p, g, side)
        BY <1>2, <1>3, <1>5, <2>1, <2>2, <2>3, KinExists
    <2>6. SearchTree(D, E, t, B)
        BY <1>3 DEF Half
    <2>7. /\ Red(t, w) => FixRound(s) = [tree |-> Flipped(t, p, w, g), target |-> g]
          /\ ~ Red(t, w) /\ t.node[p][Opposite(side)] = x /\ Rotate(t, p, side).node[p].parent = x =>
                FixRound(s) = [tree |-> Lifted(Rotate(t, p, side), x, g, side), target |-> p]
          /\ ~ Red(t, w) /\ t.node[p][Opposite(side)] # x =>
                FixRound(s) = [tree |-> Lifted(t, p, g, side), target |-> x]
        BY <1>2, <2>1, <2>2, <2>3, <2>4, RoundIs
    <2>8. CASE Red(t, w)
        <3>1. PICK v : Flipped(t, p, w, g) = v
            OBVIOUS
        <3>2. Repair(s) = [tree |-> v, target |-> g]
            BY <2>0, <2>7, <2>8, <3>1
        <3>3. PICK K : Half(D, E, v, g, B, K) /\ Kept(D, t, v)
            BY <1>3, <2>4, <2>5, <2>8, <3>1, Flip, Zenon
        <3>4. Cardinality(B[g]) > Cardinality(B[x]) /\ IsFiniteSet(B[g]) /\ IsFiniteSet(B[x])
            <4>1. B[x] \subseteq D
                BY <2>6, <1>3 DEF SearchTree, Ordered, Half
            <4>. QED
                BY <2>5, <2>6, <4>1, Grows, FS_Subset
        <3>5. Cardinality(B[g]) > n + 1
            <4>1. Cardinality(B[g]) \in Nat /\ Cardinality(B[x]) \in Nat
                BY <3>4, FS_CardinalityType
            <4>. QED
                BY <1>3, <1>5, <3>4, <4>1
        <3>6. v \in Tree(D, E) /\ g \in D
            BY <3>3 DEF Half, SearchTree
        <3>7. Repair(s).tree = v /\ Repair(s).target = g
            BY <3>2
        <3>. QED
            BY <1>2, <3>2, <3>3, <3>5, <3>6, <3>7 DEF Repairing
    <2>9. ASSUME NEW u, NEW y, NEW q, NEW A, NEW K, Half(D, E, u, y, A, K),
                 Kin(D, u, y, q, g, side), u.node[q][side] = y, u.node[g][Opposite(side)] = w, ~ Red(u, w), Kept(D, t, u),
                 Repair(s) = [tree |-> Lifted(u, q, g, side), target |-> y]
          PROVE  Repairing(D, E, Repair(s), n + 1) /\ Kept(D, s.tree, Repair(s).tree)
        <3>1. PICK v : Lifted(u, q, g, side) = v
            OBVIOUS
        <3>2. PICK C, L : Half(D, E, v, y, C, L) /\ v.node[y].parent = q /\ ~ v.node[q].red /\ Kept(D, u, v)
            BY <2>9, <3>1, Outer
        <3>3. Repair(s) = [tree |-> v, target |-> y]
            BY <2>9, <3>1
        <3>4. v \in Tree(D, E) /\ y \in D
            BY <3>2 DEF Half, SearchTree
        <3>5. Repair(s).tree = v /\ Repair(s).target = y
            BY <3>3
        <3>6. Fixed(Repair(s))
            BY <3>2, <3>5 DEF Fixed, Red
        <3>7. Repairing(D, E, Repair(s), n + 1)
            BY <3>2, <3>3, <3>4, <3>5, <3>6 DEF Repairing
        <3>8. Kept(D, t, v)
            BY <2>9, <3>2 DEF Kept
        <3>. QED
            BY <1>2, <3>5, <3>7, <3>8
    <2>10. CASE ~ Red(t, w) /\ t.node[p][Opposite(side)] = x
        <3>1. PICK u : Rotate(t, p, side) = u
            BY SMTT(30)
        <3>2. /\ (\E A, K : Half(D, E, u, p, A, K)) /\ Kept(D, t, u)
              /\ Kin(D, u, p, x, g, side) /\ u.node[x][side] = p
              /\ u.node[g][Opposite(side)] = w
              /\ \A z \in D : u.node[z].red = t.node[z].red
            BY <1>3, <2>4, <2>5, <2>10, <3>1, Inner
        <3>3. u.node[p].parent = x
            BY <3>2 DEF Kin
        <3>4. ~ Red(u, w)
            <4>1. w \in D \cup {Nil}
                <5>1. g \in D /\ Opposite(side) \in Sides
                    BY <2>5, TwoSides DEF Kin
                <5>. QED
                    BY <2>4, <5>1, LinkType
            <4>. QED
                BY <2>10, <3>2, <4>1 DEF Red
        <3>5. Repair(s) = [tree |-> Lifted(u, x, g, side), target |-> p]
            BY <2>0, <2>7, <2>10, <3>1, <3>3
        <3>. QED
            BY <2>9, <3>2, <3>4, <3>5
    <2>11. CASE ~ Red(t, w) /\ t.node[p][Opposite(side)] # x
        <3>1. t.node[p][side] = x
            <4>1. PICK r \in Sides : t.node[p][r] = x
                BY <2>5, <2>6 DEF Kin, SearchTree, Linked
            <4>2. r = side \/ r = Opposite(side)
                BY <2>5, TwoSides DEF Kin
            <4>. QED
                BY <2>11, <4>1, <4>2
        <3>2. Repair(s) = [tree |-> Lifted(t, p, g, side), target |-> x]
            BY <2>0, <2>7, <2>11
        <3>3. Kept(D, t, t)
            BY DEF Kept
        <3>. QED
            BY <1>3, <2>4, <2>5, <2>9, <2>11, <3>1, <3>2, <3>3
    <2>. QED
        BY <2>8, <2>10, <2>11
<1>. QED
    BY <1>4, <1>5

\* Every set of numbers that is not empty has a smallest one.
LEMMA Least ==
    ASSUME NEW T, T \subseteq Nat, T # {}
    PROVE  \E x \in T : \A y \in T : x <= y
<1>. DEFINE R == {ss \in Nat \X Nat : ss[1] < ss[2]}
<1>1. IsWellFoundedOn(R, Nat)
    BY NatLessThanWellFounded DEF OpToRel
<1>. HIDE DEF R
<1>2. PICK x \in T : \A y \in T : ~(<<y, x>> \in R)
    BY <1>1, WFMin, Zenon
<1>3. ASSUME NEW y \in T, y < x PROVE FALSE
    <2>1. <<y, x>> \in Nat \X Nat /\ <<y, x>>[1] < <<y, x>>[2]
        BY <1>3
    <2>2. <<y, x>> \in R
        BY <2>1, Zenon DEF R
    <2>. QED
        BY <1>2, <2>2, Zenon
<1>. QED
    BY <1>3

\* Induction up to m.
LEMMA Induction ==
    ASSUME NEW m \in Nat, NEW S, 0 \in S, \A j \in 0..(m - 1) : j \in S => j + 1 \in S
    PROVE  0..m \subseteq S
<1>. DEFINE T == (0..m) \ S
<1>1. SUFFICES ASSUME T # {} PROVE FALSE
    OBVIOUS
<1>2. T \subseteq Nat
    OBVIOUS
<1>3. PICK x \in T : \A y \in T : x <= y
    BY <1>1, <1>2, Least, Zenon
<1>4. x - 1 \in 0..(m - 1) /\ x - 1 \notin T /\ x - 1 + 1 = x
    BY <1>3
<1>5. x - 1 \in 0..m
    BY <1>4
<1>6. x \in S
    BY <1>4, <1>5
<1>. QED
    BY <1>6

\* f is the function "after" of FixTree.
Repairs(f, t, x, K) ==
    f = [n \in 0..K |-> IF n = 0 THEN [tree |-> t, target |-> x] ELSE Repair(f[n - 1])]

\* FixTree is the last value of its recursive function, which exists.
LEMMA FixUnfold ==
    ASSUME NEW t, NEW x, NEW K \in Nat, Cardinality(DOMAIN t.node) = K
    PROVE  \E f : Repairs(f, t, x, K) /\ FixTree(t, x) = Paint(f[K].tree, f[K].tree.root, FALSE)
<1>. DEFINE s0 == [tree |-> t, target |-> x]
            Is(f, m) == f = [n \in 0..m |-> IF n = 0 THEN s0 ELSE Repair(f[n - 1])]
            S == {m \in 0..K : \E f : Is(f, m)}
<1>. HIDE DEF s0
<1>2. 0 \in S
    <2>. DEFINE f == [n \in 0..0 |-> s0]
    <2>1. Is(f, 0)
        OBVIOUS
    <2>2. 0 \in 0..K
        OBVIOUS
    <2>. QED
        BY <2>1, <2>2, Zenon
<1>3. ASSUME NEW m \in 0..(K - 1), m \in S PROVE m + 1 \in S
    <2>1. PICK f : Is(f, m)
        BY <1>3
    <2>. DEFINE g == [n \in 0..(m + 1) |-> IF n = m + 1 THEN Repair(f[m]) ELSE f[n]]
    <2>2. \A n \in 0..m : g[n] = f[n]
        OBVIOUS
    <2>3. ASSUME NEW n \in 0..(m + 1) PROVE g[n] = IF n = 0 THEN s0 ELSE Repair(g[n - 1])
        <3>1. CASE n = m + 1
            <4>1. n # 0 /\ n - 1 = m /\ g[m] = f[m]
                BY <2>2, <3>1
            <4>. QED
                BY <3>1, <4>1, Zenon
        <3>2. CASE n \in 0..m
            <4>1. g[n] = IF n = 0 THEN s0 ELSE Repair(f[n - 1])
                BY <2>1, <2>2, <3>2, Zenon
            <4>2. n # 0 => g[n - 1] = f[n - 1]
                BY <2>2, <3>2
            <4>. QED
                BY <4>1, <4>2, Zenon
        <3>. QED
            BY <3>1, <3>2
    <2>4. Is(g, m + 1)
        BY <2>3, Zenon
    <2>5. m + 1 \in 0..K
        OBVIOUS
    <2>. QED
        BY <2>4, <2>5, Zenon
<1>4. K \in S
    <2>. HIDE DEF S
    <2>1. 0..K \subseteq S
        BY <1>2, <1>3, Induction
    <2>. QED
        BY <2>1
<1>5. \E f : Is(f, K)
    BY <1>4, Zenon
<1>. DEFINE after == CHOOSE f : Is(f, K)
<1>6. Is(after, K)
    BY <1>5, Zenon
<1>7. FixTree(t, x) = Paint(after[K].tree, after[K].tree.root, FALSE)
    BY Zenon DEF FixTree, Repair, s0
<1>. HIDE DEF after
<1>. QED
    BY <1>6, <1>7, Zenon DEF Repairs, s0

\* rbtree_fix_tree makes a red-black tree with the same elements.
LEMMA FixTreeRepairs ==
    ASSUME NEW D, IsFiniteSet(D), NEW E, NEW t, NEW x, NEW B, NEW H, Half(D, E, t, x, B, H),
           NEW u, FixTree(t, x) = u
    PROVE  (\E A, K : RB(D, E, u, A, K)) /\ Kept(D, t, u)
<1>1. SearchTree(D, E, t, B) /\ t \in Tree(D, E) /\ x \in D /\ Ordered(D, t, B)
    BY DEF Half, SearchTree
<1>2. DOMAIN t.node = D
    BY <1>1 DEF Tree, Nodes
<1>3. PICK N \in Nat : Cardinality(D) = N
    BY FS_CardinalityType
<1>4. PICK f : Repairs(f, t, x, N) /\ u = Paint(f[N].tree, f[N].tree.root, FALSE)
    <2>1. Cardinality(DOMAIN t.node) = N
        BY <1>2, <1>3, Zenon
    <2>. QED
        BY <2>1, FixUnfold, ZenonT(30)
<1>5. f[0] = [tree |-> t, target |-> x] /\ \A n \in 0..(N - 1) : f[n + 1] = Repair(f[n])
    <2>1. \A n \in 0..N : f[n] = IF n = 0 THEN [tree |-> t, target |-> x] ELSE Repair(f[n - 1])
        BY <1>4 DEF Repairs
    <2>2. 0 \in 0..N
        OBVIOUS
    <2>3. f[0] = [tree |-> t, target |-> x]
        BY <2>1, <2>2, Zenon
    <2>4. ASSUME NEW n \in 0..(N - 1) PROVE f[n + 1] = Repair(f[n])
        <3>1. n + 1 \in 0..N /\ n + 1 # 0 /\ (n + 1) - 1 = n
            OBVIOUS
        <3>. QED
            BY <2>1, <3>1, Zenon
    <2>. QED
        BY <2>3, <2>4
<1>. DEFINE S == {n \in 0..N : Repairing(D, E, f[n], n) /\ Kept(D, t, f[n].tree)}
<1>6. 0 \in S
    <2>1. f[0].tree = t /\ f[0].target = x /\ f[0] \in [tree : Tree(D, E), target : D]
        BY <1>1, <1>5
    <2>2. x \in B[x] /\ B[x] \subseteq D
        BY <1>1 DEF Ordered
    <2>3. Cardinality(B[x]) > 0
        <3>1. IsFiniteSet(B[x])
            BY <2>2, FS_Subset
        <3>2. Cardinality(B[x]) \in Nat /\ Cardinality(B[x]) # 0
            BY <2>2, <3>1, FS_CardinalityType, FS_EmptySet
        <3>. QED
            BY <3>2
    <2>4. Kept(D, t, t)
        BY DEF Kept
    <2>5. Repairing(D, E, f[0], 0)
        BY <2>1, <2>3 DEF Repairing
    <2>6. 0 \in 0..N
        OBVIOUS
    <2>. QED
        BY <2>1, <2>4, <2>5, <2>6
<1>7. ASSUME NEW n \in 0..(N - 1), n \in S PROVE n + 1 \in S
    <2>1. Repairing(D, E, f[n], n) /\ Kept(D, t, f[n].tree) /\ n \in Nat /\ n + 1 \in 0..N
        BY <1>7
    <2>2. Repairing(D, E, Repair(f[n]), n + 1) /\ Kept(D, f[n].tree, Repair(f[n]).tree)
        BY <2>1, Round, Zenon
    <2>3. f[n + 1] = Repair(f[n])
        BY <1>5
    <2>4. Kept(D, t, f[n + 1].tree)
        BY <2>1, <2>2, <2>3 DEF Kept
    <2>. QED
        BY <2>1, <2>2, <2>3, <2>4
<1>8. Repairing(D, E, f[N], N) /\ Kept(D, t, f[N].tree)
    <2>1. N \in S
        <3>. HIDE DEF S
        <3>1. 0..N \subseteq S
            BY <1>6, <1>7, Induction
        <3>. QED
            BY <3>1
    <2>. QED
        BY <2>1
<1>9. PICK A, K : /\ Half(D, E, f[N].tree, f[N].target, A, K)
                  /\ Fixed(f[N]) \/ Cardinality(A[f[N].target]) > N
    BY <1>8 DEF Repairing
<1>10. Fixed(f[N])
    <2>1. A[f[N].target] \subseteq D
        BY <1>9, Zenon DEF Half, SearchTree, Ordered
    <2>2. Cardinality(A[f[N].target]) <= N /\ Cardinality(A[f[N].target]) \in Nat
        BY <1>3, <2>1, FS_Subset, FS_CardinalityType
    <2>. QED
        BY <1>9, <2>2
<1>11. PICK s : f[N] = s
    OBVIOUS
<1>12. PICK v : s.tree = v
    OBVIOUS
<1>13. Half(D, E, v, s.target, A, K) /\ Fixed(s) /\ Kept(D, t, v) /\ Paint(v, v.root, FALSE) = u
    BY <1>4, <1>8, <1>9, <1>10, <1>11, <1>12
<1>14. (\E L : RB(D, E, u, A, L)) /\ Kept(D, v, u)
    BY <1>12, <1>13, Blackened, Zenon
<1>. QED
    BY <1>13, <1>14 DEF Kept

(***************************************************************************)
(* Ways down a tree                                                        *)
(***************************************************************************)
\* Fewer keys are below a child.
LEMMA Smaller ==
    ASSUME NEW D, NEW E, NEW t, NEW B, SearchTree(D, E, t, B), IsFiniteSet(D), NEW x \in D, NEW s \in Sides
    PROVE  /\ B[t.node[x][s]] \subseteq B[x] /\ x \notin B[t.node[x][s]] /\ x \in B[x] /\ B[x] \subseteq D
           /\ Cardinality(B[x]) \in Nat /\ Cardinality(B[t.node[x][s]]) \in Nat
           /\ Cardinality(B[t.node[x][s]]) < Cardinality(B[x])
<1>. DEFINE c == t.node[x][s]
<1>1. B[c] \subseteq B[x] /\ x \notin B[c] /\ x \in B[x] /\ B[x] \subseteq D
    BY ChildBelow
<1>. HIDE DEF c
<1>2. IsFiniteSet(B[x]) /\ IsFiniteSet(B[c])
    BY <1>1, FS_Subset
<1>3. Cardinality(B[x]) \in Nat /\ Cardinality(B[c]) \in Nat
    BY <1>2, FS_CardinalityType
<1>4. Cardinality(B[c]) <= Cardinality(B[x]) /\ (Cardinality(B[x]) = Cardinality(B[c]) => B[x] = B[c])
    BY <1>1, <1>2, FS_Subset
<1>5. Cardinality(B[c]) < Cardinality(B[x])
    BY <1>1, <1>3, <1>4
<1>. QED
    BY <1>1, <1>3, <1>5 DEF c

\* Induction over a tree, from the leaves up.
LEMMA TreeInduction ==
    ASSUME NEW D, NEW E, NEW t, NEW B, SearchTree(D, E, t, B), IsFiniteSet(D),
           NEW S, Nil \in S, \A x \in D : (\A s \in Sides : t.node[x][s] \in S) => x \in S
    PROVE  D \subseteq S
<1>. DEFINE T == {Cardinality(B[x]) : x \in D \ S}
<1>1. SUFFICES ASSUME D \ S # {} PROVE FALSE
    OBVIOUS
<1>2. t \in Tree(D, E)
    BY DEF SearchTree
<1>3. \A x \in D : Cardinality(B[x]) \in Nat
    <2>1. "left" \in Sides
        BY DEF Sides
    <2>. QED
        BY <2>1, Smaller
<1>4. T \subseteq Nat /\ T # {}
    BY <1>1, <1>3
<1>5. PICK m \in T : \A y \in T : m <= y
    BY <1>4, Least, Zenon
<1>6. PICK x \in D \ S : Cardinality(B[x]) = m
    BY <1>5
<1>7. ASSUME NEW s \in Sides PROVE t.node[x][s] \in S
    <2>1. t.node[x][s] \in D \cup {Nil}
        BY <1>2, <1>6, LinkType
    <2>2. CASE t.node[x][s] \in D \ S
        <3>1. Cardinality(B[t.node[x][s]]) \in T /\ Cardinality(B[t.node[x][s]]) < Cardinality(B[x])
            BY <1>6, <2>2, Smaller
        <3>. QED
            BY <1>3, <1>4, <1>5, <1>6, <2>2, <3>1
    <2>. QED
        BY <2>1, <2>2
<1>. QED
    BY <1>6, <1>7

\* A node below w is w or has its parent below w.
LEMMA ParentBelow ==
    ASSUME NEW D, NEW E, NEW t, NEW B, SearchTree(D, E, t, B), IsFiniteSet(D), NEW w \in D, NEW c \in B[w], c # w
    PROVE  t.node[c].parent \in B[w]
<1>1. Ordered(D, t, B) /\ Linked(D, t) /\ Nil \notin D /\ t \in Tree(D, E)
    BY DEF SearchTree
<1>. DEFINE S == {y \in D \cup {Nil} : \A z \in B[y] : z # y => t.node[z].parent \in B[y]}
<1>2. Nil \in S
    BY <1>1 DEF Ordered
<1>3. ASSUME NEW y \in D, \A s \in Sides : t.node[y][s] \in S PROVE y \in S
    <2>1. SUFFICES ASSUME NEW z \in B[y], z # y PROVE t.node[z].parent \in B[y]
        BY Zenon
    <2>2. B[y] = {y} \cup B[t.node[y].left] \cup B[t.node[y].right]
        BY <1>1 DEF Ordered
    <2>3. PICK s \in Sides : z \in B[t.node[y][s]]
        <3>1. z \in B[t.node[y]["left"]] \/ z \in B[t.node[y]["right"]]
            BY <2>1, <2>2
        <3>. QED
            BY <3>1 DEF Sides
    <2>4. B[t.node[y][s]] \subseteq B[y] /\ y \in B[y]
        BY Smaller
    <2>5. CASE z = t.node[y][s]
        <3>1. z # Nil
            BY <1>1, <2>3, <2>5 DEF Ordered
        <3>2. t.node[z].parent = y
            BY <1>1, <2>5, <3>1 DEF Linked
        <3>. QED
            BY <2>4, <3>2
    <2>6. CASE z # t.node[y][s]
        <3>1. t.node[y][s] \in S
            BY <1>3
        <3>2. t.node[z].parent \in B[t.node[y][s]]
            BY <2>3, <2>6, <3>1
        <3>. QED
            BY <2>4, <3>2
    <2>. QED
        BY <2>5, <2>6
<1>4. w \in S
    <2>. HIDE DEF S
    <2>. QED
        BY <1>2, <1>3, TreeInduction
<1>. QED
    BY <1>4

\* Every value of a function recursive on the tree is the one expected.
\* Below(t, x) are the keys below x.
LEMMA BelowIs ==
    ASSUME NEW D, NEW E, NEW t, NEW B, SearchTree(D, E, t, B), IsFiniteSet(D), NEW x \in D \cup {Nil}
    PROVE  Below(t, x) = B[x]
<1>1. Ordered(D, t, B) /\ Nil \notin D /\ t \in Tree(D, E)
    BY DEF SearchTree
<1>2. DOMAIN t.node = D
    BY <1>1 DEF Tree, Nodes
<1>. DEFINE Is(f) == f = [y \in D \cup {Nil} |->
                            IF y = Nil THEN {} ELSE {y} \cup f[t.node[y].left] \cup f[t.node[y].right]]
            below == CHOOSE f : Is(f)
<1>3. Is(B)
    <2>1. B = [y \in D \cup {Nil} |-> B[y]]
        BY <1>1 DEF Ordered
    <2>2. \A y \in D \cup {Nil} : B[y] = IF y = Nil THEN {} ELSE {y} \cup B[t.node[y].left] \cup B[t.node[y].right]
        BY <1>1, Zenon DEF Ordered
    <2>. QED
        BY <2>1, <2>2, Zenon
<1>4. Is(below)
    BY <1>3, Zenon
<1>5. Below(t, x) = below[x]
    BY <1>2, Zenon DEF Below
<1>. HIDE DEF below
<1>. DEFINE S == {y \in D \cup {Nil} : below[y] = B[y]}
<1>6. \A y \in D \cup {Nil} : below[y] = IF y = Nil THEN {} ELSE {y} \cup below[t.node[y].left] \cup below[t.node[y].right]
    BY <1>4, Zenon
<1>7. Nil \in S
    BY <1>1, <1>6, Zenon DEF Ordered
<1>8. ASSUME NEW y \in D, \A s \in Sides : t.node[y][s] \in S PROVE y \in S
    <2>1. t.node[y].left \in S /\ t.node[y].right \in S
        BY <1>8 DEF Sides
    <2>2. B[y] = {y} \cup B[t.node[y].left] \cup B[t.node[y].right] /\ y # Nil
        BY <1>1 DEF Ordered
    <2>3. below[y] = {y} \cup below[t.node[y].left] \cup below[t.node[y].right]
        BY <1>6, <2>2, Zenon
    <2>. QED
        BY <2>1, <2>2, <2>3, Zenon
<1>9. x \in S
    <2>. HIDE DEF S
    <2>. QED
        BY <1>7, <1>8, TreeInduction
<1>. QED
    BY <1>5, <1>9

\* BlackHeights(t, x) has one member.
LEMMA HeightsAre ==
    ASSUME NEW D, NEW E, NEW t, NEW B, SearchTree(D, E, t, B), IsFiniteSet(D), NEW H, Balanced(D, t, H),
           NEW x \in D \cup {Nil}
    PROVE  BlackHeights(t, x) = {H[x]}
<1>1. Nil \notin D /\ t \in Tree(D, E)
    BY DEF SearchTree
<1>2. DOMAIN t.node = D
    BY <1>1 DEF Tree, Nodes
<1>. DEFINE Is(f) == f = [y \in D \cup {Nil} |->
                            IF y = Nil THEN {0}
                            ELSE {h + (IF Red(t, y) THEN 0 ELSE 1) : h \in f[t.node[y].left] \cup f[t.node[y].right]}]
            heights == CHOOSE f : Is(f)
            G == [y \in D \cup {Nil} |-> {H[y]}]
<1>3. ASSUME NEW y \in D \cup {Nil}, NEW P, y # Nil => P = {H[t.node[y].left]} \cup {H[t.node[y].right]}
      PROVE  {H[y]} = IF y = Nil THEN {0} ELSE {h + (IF Red(t, y) THEN 0 ELSE 1) : h \in P}
    <2>1. CASE y = Nil
        BY <2>1 DEF Balanced
    <2>2. CASE y # Nil
        <3>1. H[y] = H[t.node[y].left] + Black(t, y) /\ H[y] = H[t.node[y].right] + Black(t, y)
            BY <2>2 DEF Balanced, Sides
        <3>2. Black(t, y) = IF Red(t, y) THEN 0 ELSE 1
            BY <2>2 DEF Black, Red
        <3>3. H[t.node[y].left] \in Nat /\ H[t.node[y].right] \in Nat
            <4>1. t.node[y]["left"] \in D \cup {Nil} /\ t.node[y]["right"] \in D \cup {Nil}
                BY <1>1, <2>2, LinkType DEF Sides
            <4>. QED
                BY <4>1 DEF Balanced
        <3>4. Black(t, y) \in {0, 1}
            BY DEF Black
        <3>5. H[t.node[y].left] = H[t.node[y].right]
            BY <3>1, <3>3, <3>4
        <3>6. P = {H[t.node[y].left]}
            BY <1>3, <2>2, <3>5
        <3>7. {h + (IF Red(t, y) THEN 0 ELSE 1) : h \in P} = {H[t.node[y].left] + (IF Red(t, y) THEN 0 ELSE 1)}
            BY <3>6
        <3>8. H[y] = H[t.node[y].left] + (IF Red(t, y) THEN 0 ELSE 1)
            BY <3>1, <3>2, Zenon
        <3>. QED
            BY <2>2, <3>7, <3>8, Zenon
    <2>. QED
        BY <2>1, <2>2
<1>4. \A y \in D : t.node[y].left \in D \cup {Nil} /\ t.node[y].right \in D \cup {Nil}
    BY <1>1, LinkType DEF Sides
<1>5. Is(G)
    <2>1. ASSUME NEW y \in D \cup {Nil}
          PROVE  G[y] = IF y = Nil THEN {0}
                        ELSE {h + (IF Red(t, y) THEN 0 ELSE 1) : h \in G[t.node[y].left] \cup G[t.node[y].right]}
        <3>1. y # Nil => G[t.node[y].left] \cup G[t.node[y].right] = {H[t.node[y].left]} \cup {H[t.node[y].right]}
            BY <1>4
        <3>2. G[y] = {H[y]}
            OBVIOUS
        <3>. QED
            BY <1>3, <3>1, <3>2, Zenon
    <2>. QED
        BY <2>1, Zenon
<1>6. Is(heights)
    BY <1>5, Zenon
<1>7. BlackHeights(t, x) = heights[x]
    BY <1>2, Zenon DEF BlackHeights
<1>. HIDE DEF heights, G
<1>8. \A y \in D \cup {Nil} :
        heights[y] = IF y = Nil THEN {0}
                     ELSE {h + (IF Red(t, y) THEN 0 ELSE 1) : h \in heights[t.node[y].left] \cup heights[t.node[y].right]}
    BY <1>6, Zenon
<1>. DEFINE S == {y \in D \cup {Nil} : heights[y] = {H[y]}}
<1>9. Nil \in S
    <2>1. heights[Nil] = {0}
        BY <1>8, Zenon
    <2>. QED
        BY <2>1 DEF Balanced
<1>10. ASSUME NEW y \in D, \A s \in Sides : t.node[y][s] \in S PROVE y \in S
    <2>1. t.node[y].left \in S /\ t.node[y].right \in S
        BY <1>10 DEF Sides
    <2>2. heights[t.node[y].left] \cup heights[t.node[y].right] = {H[t.node[y].left]} \cup {H[t.node[y].right]}
        BY <2>1, Zenon
    <2>3. heights[y] = {H[y]}
        BY <1>3, <1>8, <2>2, ZenonT(30)
    <2>. QED
        BY <2>3
<1>11. x \in S
    <2>. HIDE DEF S
    <2>. QED
        BY <1>9, <1>10, TreeInduction
<1>. QED
    BY <1>7, <1>11

\* What the proofs call a red-black tree is one.
LEMMA RBIsRedBlack ==
    ASSUME NEW D, IsFiniteSet(D), NEW E, NEW t, NEW B, NEW H, RB(D, E, t, B, H)
    PROVE  IsRedBlack(t)
<1>1. /\ SearchTree(D, E, t, B) /\ Balanced(D, t, H) /\ Nil \notin D /\ t \in Tree(D, E)
      /\ Linked(D, t) /\ Ordered(D, t, B)
    BY DEF RB, SearchTree
<1>2. DOMAIN t.node = D
    BY <1>1 DEF Tree, Nodes
<1>3. t.root \in D \cup {Nil} /\ \A x \in D : t.node[x].left \in D \cup {Nil} /\ t.node[x].right \in D \cup {Nil}
    BY <1>1, LinkType DEF Sides
<1>4. ~ Red(t, t.root)
    BY DEF RB, Red
<1>5. t.root # Nil => t.node[t.root].parent = Nil
    BY <1>1, <1>3 DEF Linked
<1>6. Below(t, t.root) = DOMAIN t.node
    BY <1>1, <1>2, <1>3, BelowIs DEF Ordered
<1>7. ASSUME NEW x \in D
      PROVE  /\ \A y \in Below(t, t.node[x].left) : y < x
             /\ \A y \in Below(t, t.node[x].right) : x < y
             /\ \A y \in {t.node[x].left, t.node[x].right} \ {Nil} : t.node[y].parent = x
             /\ Red(t, x) => ~ Red(t, t.node[x].parent)
    <2>1. Below(t, t.node[x].left) = B[t.node[x].left] /\ Below(t, t.node[x].right) = B[t.node[x].right]
        BY <1>1, <1>3, BelowIs
    <2>2. (\A y \in B[t.node[x].left] : Beyond("left", y, x)) /\ (\A y \in B[t.node[x].right] : Beyond("right", y, x))
        BY <1>1 DEF Ordered, Sides
    <2>3. \A y \in {t.node[x].left, t.node[x].right} \ {Nil} : t.node[y].parent = x
        BY <1>1 DEF Linked, Sides
    <2>4. Red(t, x) => ~ Red(t, t.node[x].parent)
        BY DEF RB, Red
    <2>5. (\A y \in B[t.node[x].left] : y < x) /\ (\A y \in B[t.node[x].right] : x < y)
        BY <2>2 DEF Beyond
    <2>. QED
        BY <2>1, <2>3, <2>4, <2>5
<1>8. Cardinality(BlackHeights(t, t.root)) = 1
    <2>1. BlackHeights(t, t.root) = {H[t.root]}
        BY <1>1, <1>3, HeightsAre
    <2>. QED
        BY <2>1, FS_Singleton
<1>. QED
    BY <1>2, <1>4, <1>5, <1>6, <1>7, <1>8 DEF IsRedBlack

(***************************************************************************)
(* rbtree_search_node and rbtree_insert                                    *)
(***************************************************************************)
\* The key k is below the child of x on its side, or not below x.
LEMMA WayDown ==
    ASSUME NEW D, NEW E, NEW t, NEW B, SearchTree(D, E, t, B), IsFiniteSet(D), NEW x \in D,
           NEW k, k # x, NEW s \in Sides, Beyond(s, k, x), k \in Nat
    PROVE  k \in B[x] <=> k \in B[t.node[x][s]]
<1>1. Ordered(D, t, B) /\ D \subseteq Nat
    BY DEF SearchTree
<1>2. B[x] = {x} \cup B[t.node[x][s]] \cup B[t.node[x][Opposite(s)]]
    BY <1>1, BelowSides
<1>3. Opposite(s) \in Sides
    BY TwoSides
<1>4. \A y \in B[t.node[x][Opposite(s)]] : Beyond(Opposite(s), y, x)
    BY <1>1, <1>3 DEF Ordered
<1>5. ~ Beyond(Opposite(s), k, x)
    BY <1>1 DEF Beyond, Opposite, Sides
<1>. QED
    BY <1>2, <1>4, <1>5

\* A search finds the element of the key, if the key is in the tree.
LEMMA SearchFinds ==
    ASSUME NEW D, NEW E, NEW t, NEW B, SearchTree(D, E, t, B), IsFiniteSet(D), NEW k \in Nat \ {0}
    PROVE  Search(t, k) = IF k \in D THEN t.node[k].elem ELSE Nil
<1>1. Ordered(D, t, B) /\ Nil \notin D /\ t \in Tree(D, E) /\ D \subseteq Nat
    BY DEF SearchTree
<1>2. DOMAIN t.node = D
    BY <1>1 DEF Tree, Nodes
<1>. DEFINE Onward(x) == IF k < x THEN t.node[x].left ELSE t.node[x].right
            Is(f) == f = [x \in D \cup {Nil} |->
                            CASE x = Nil -> Nil [] x = k -> t.node[x].elem [] OTHER -> f[Onward(x)]]
            from == CHOOSE f : Is(f)
            G == [x \in D \cup {Nil} |-> IF k \in B[x] THEN t.node[k].elem ELSE Nil]
<1>3. \A x \in D : Onward(x) \in D \cup {Nil}
    BY <1>1, LinkType DEF Sides
<1>4. ASSUME NEW x \in D, x # k PROVE k \in B[x] <=> k \in B[Onward(x)]
    <2>1. CASE k < x
        <3>1. Beyond("left", k, x) /\ "left" \in Sides
            BY <2>1 DEF Beyond, Sides
        <3>2. k \in B[x] <=> k \in B[t.node[x]["left"]]
            BY <1>4, <3>1, WayDown
        <3>. QED
            BY <2>1, <3>2
    <2>2. CASE ~(k < x)
        <3>1. Beyond("right", k, x) /\ "right" \in Sides
            BY <1>1, <1>4, <2>2 DEF Beyond, Sides
        <3>2. k \in B[x] <=> k \in B[t.node[x]["right"]]
            BY <1>4, <3>1, WayDown
        <3>. QED
            BY <2>2, <3>2
    <2>. QED
        BY <2>1, <2>2
<1>5. B[Nil] = {} /\ k # Nil /\ (k \in D => k \in B[k])
    BY <1>1 DEF Ordered, Nil
<1>. HIDE DEF Onward
<1>6. ASSUME NEW x \in D \cup {Nil}
      PROVE  G[x] = CASE x = Nil -> Nil [] x = k -> t.node[x].elem [] OTHER -> G[Onward(x)]
    <2>1. CASE x = Nil
        BY <1>5, <2>1
    <2>2. CASE x = k
        BY <1>5, <2>2
    <2>3. CASE x # Nil /\ x # k
        <3>1. x \in D /\ Onward(x) \in D \cup {Nil} /\ (k \in B[x] <=> k \in B[Onward(x)])
            BY <1>3, <1>4, <2>3
        <3>2. G[x] = G[Onward(x)]
            BY <3>1
        <3>. QED
            BY <2>3, <3>2, Zenon
    <2>. QED
        BY <2>1, <2>2, <2>3
<1>7. Is(G)
    BY <1>6, Zenon
<1>8. Is(from)
    BY <1>7, Zenon
<1>9. Search(t, k) = from[t.root]
    BY <1>2, Zenon DEF Search, Onward
<1>. HIDE DEF from, G
<1>10. \A x \in D \cup {Nil} : from[x] = CASE x = Nil -> Nil [] x = k -> t.node[x].elem [] OTHER -> from[Onward(x)]
    BY <1>8, Zenon
<1>. DEFINE S == {x \in D \cup {Nil} : from[x] = G[x]}
<1>11. Nil \in S
    <2>1. from[Nil] = Nil /\ G[Nil] = Nil
        BY <1>5, <1>6, <1>10, Zenon
    <2>. QED
        BY <2>1
<1>12. ASSUME NEW x \in D, \A s \in Sides : t.node[x][s] \in S PROVE x \in S
    <2>1. Onward(x) \in S
        BY <1>12 DEF Sides, Onward
    <2>2. from[Onward(x)] = G[Onward(x)]
        BY <2>1
    <2>3. x # Nil
        BY <1>1
    <2>4. from[x] = G[x]
        <3>1. CASE x = k
            BY <1>6, <1>10, <2>3, <3>1, Zenon
        <3>2. CASE x # k
            BY <1>6, <1>10, <2>2, <2>3, <3>2, Zenon
        <3>. QED
            BY <3>1, <3>2
    <2>. QED
        BY <2>4
<1>13. t.root \in S
    <2>1. t.root \in D \cup {Nil}
        BY <1>1, LinkType
    <2>. HIDE DEF S
    <2>. QED
        BY <1>11, <1>12, <2>1, TreeInduction
<1>14. B[t.root] = D /\ t.root \in D \cup {Nil}
    BY <1>1, LinkType DEF Ordered
<1>. QED
    BY <1>9, <1>13, <1>14 DEF G

\* A step of the loop of rbtree_insert.
Descend(t, x, k) == IF x = k \/ Towards(t, x, k) = Nil THEN x ELSE Towards(t, x, k)

\* f is the function "after" of Place.
Descends(f, t, k, K) ==
    f = [n \in 0..K |-> IF n = 0 THEN t.root ELSE Descend(t, f[n - 1], k)]

\* Place is the last value of its recursive function, which exists.
LEMMA PlaceUnfold ==
    ASSUME NEW t, NEW k, NEW K \in Nat, Cardinality(DOMAIN t.node) = K
    PROVE  \E f : Descends(f, t, k, K) /\ Place(t, k) = f[K]
<1>. DEFINE Is(f, m) == f = [n \in 0..m |-> IF n = 0 THEN t.root ELSE Descend(t, f[n - 1], k)]
            S == {m \in 0..K : \E f : Is(f, m)}
<1>2. 0 \in S
    <2>. DEFINE f == [n \in 0..0 |-> t.root]
    <2>1. Is(f, 0)
        OBVIOUS
    <2>2. 0 \in 0..K
        OBVIOUS
    <2>. QED
        BY <2>1, <2>2, Zenon
<1>3. ASSUME NEW m \in 0..(K - 1), m \in S PROVE m + 1 \in S
    <2>1. PICK f : Is(f, m)
        BY <1>3
    <2>. DEFINE g == [n \in 0..(m + 1) |-> IF n = m + 1 THEN Descend(t, f[m], k) ELSE f[n]]
    <2>2. \A n \in 0..m : g[n] = f[n]
        OBVIOUS
    <2>3. ASSUME NEW n \in 0..(m + 1) PROVE g[n] = IF n = 0 THEN t.root ELSE Descend(t, g[n - 1], k)
        <3>1. CASE n = m + 1
            <4>1. n # 0 /\ n - 1 = m /\ g[m] = f[m]
                BY <2>2, <3>1
            <4>. QED
                BY <3>1, <4>1, Zenon
        <3>2. CASE n \in 0..m
            <4>1. g[n] = IF n = 0 THEN t.root ELSE Descend(t, f[n - 1], k)
                BY <2>1, <2>2, <3>2, Zenon
            <4>2. n # 0 => g[n - 1] = f[n - 1]
                BY <2>2, <3>2
            <4>. QED
                BY <4>1, <4>2, Zenon
        <3>. QED
            BY <3>1, <3>2
    <2>4. Is(g, m + 1)
        BY <2>3, Zenon
    <2>5. m + 1 \in 0..K
        OBVIOUS
    <2>. QED
        BY <2>4, <2>5, Zenon
<1>4. K \in S
    <2>. HIDE DEF S
    <2>1. 0..K \subseteq S
        BY <1>2, <1>3, Induction
    <2>. QED
        BY <2>1
<1>5. \E f : Is(f, K)
    BY <1>4, Zenon
<1>. DEFINE after == CHOOSE f : Is(f, K)
<1>6. Is(after, K)
    BY <1>5, Zenon
<1>7. Place(t, k) = after[K]
    BY Zenon DEF Place, Descend
<1>. HIDE DEF after
<1>. QED
    BY <1>6, <1>7, Zenon DEF Descends

\* A step down keeps k on the right side of every node above.
LEMMA TowardsFits ==
    ASSUME NEW D, NEW E, NEW t, NEW B, SearchTree(D, E, t, B), IsFiniteSet(D), NEW k \in Nat \ {0},
           NEW x, Fits(D, t, B, k, x), x # k, NEW c, Towards(t, x, k) = c, c # Nil
    PROVE  Fits(D, t, B, k, c) /\ Cardinality(B[c]) \in Nat /\ Cardinality(B[x]) \in Nat
           /\ Cardinality(B[c]) < Cardinality(B[x])
<1>. DEFINE r == SideOf(x, k)
<1>1. Ordered(D, t, B) /\ Linked(D, t) /\ Nil \notin D /\ t \in Tree(D, E) /\ D \subseteq Nat /\ x \in D
    BY DEF SearchTree, Fits
<1>2. r \in Sides /\ t.node[x][r] = c /\ Beyond(r, k, x)
    BY <1>1 DEF SideOf, Towards, Sides, Beyond
<1>. HIDE DEF r
<1>3. c \in D /\ t.node[c].parent = x
    BY <1>1, <1>2, LinkType DEF Linked
<1>4. k \in D => k \in B[c]
    BY <1>2, WayDown DEF Fits
<1>5. ASSUME NEW z \in D, NEW s \in Sides, c \in B[t.node[z][s]] PROVE Beyond(s, k, z)
    <2>1. t.node[z][s] \in D
        BY <1>1, <1>5, LinkType DEF Ordered
    <2>2. CASE c = t.node[z][s]
        <3>1. z = x
            BY <1>1, <1>3, <2>1, <2>2 DEF Linked
        <3>2. s = r
            <4>1. t.node[x][r] # t.node[x][Opposite(r)]
                BY <1>1, <1>2, Siblings
            <4>2. s = r \/ s = Opposite(r)
                BY <1>2, TwoSides
            <4>. QED
                BY <1>2, <2>2, <3>1, <4>1, <4>2
        <3>. QED
            BY <1>2, <3>1, <3>2
    <2>3. CASE c # t.node[z][s]
        <3>1. x \in B[t.node[z][s]]
            BY <1>3, <1>5, <2>1, <2>3, ParentBelow
        <3>. QED
            BY <3>1 DEF Fits
    <2>. QED
        BY <2>2, <2>3
<1>6. Cardinality(B[c]) \in Nat /\ Cardinality(B[x]) \in Nat /\ Cardinality(B[c]) < Cardinality(B[x])
    BY <1>1, <1>2, Smaller
<1>. QED
    BY <1>3, <1>4, <1>5, <1>6 DEF Fits

\* The loop ends at k, or where k is missing.
LEMMA PlaceEnds ==
    ASSUME NEW D, NEW E, NEW t, NEW B, SearchTree(D, E, t, B), IsFiniteSet(D), D # {}, NEW k \in Nat \ {0},
           NEW x, Place(t, k) = x
    PROVE  Fits(D, t, B, k, x) /\ (x = k \/ Towards(t, x, k) = Nil)
<1>1. Ordered(D, t, B) /\ Linked(D, t) /\ Nil \notin D /\ t \in Tree(D, E) /\ D \subseteq Nat
    BY DEF SearchTree
<1>2. DOMAIN t.node = D
    BY <1>1 DEF Tree, Nodes
<1>3. PICK N \in Nat : Cardinality(D) = N
    BY FS_CardinalityType
<1>4. PICK f : Descends(f, t, k, N) /\ f[N] = x
    <2>1. Cardinality(DOMAIN t.node) = N
        BY <1>2, <1>3, Zenon
    <2>2. PICK f : Descends(f, t, k, N) /\ Place(t, k) = f[N]
        BY <2>1, PlaceUnfold, Zenon
    <2>. QED
        BY <2>2, Zenon
<1>5. f[0] = t.root /\ \A n \in 0..(N - 1) : f[n + 1] = Descend(t, f[n], k)
    <2>1. \A n \in 0..N : f[n] = IF n = 0 THEN t.root ELSE Descend(t, f[n - 1], k)
        BY <1>4, Zenon DEF Descends
    <2>2. 0 \in 0..N
        OBVIOUS
    <2>3. f[0] = t.root
        BY <2>1, <2>2, Zenon
    <2>4. ASSUME NEW n \in 0..(N - 1) PROVE f[n + 1] = Descend(t, f[n], k)
        <3>1. n + 1 \in 0..N /\ n + 1 # 0 /\ (n + 1) - 1 = n
            OBVIOUS
        <3>. QED
            BY <2>1, <3>1, Zenon
    <2>. QED
        BY <2>3, <2>4
<1>. DEFINE End(y) == y = k \/ Towards(t, y, k) = Nil
            S == {n \in 0..N : Fits(D, t, B, k, f[n]) /\ (End(f[n]) \/ Cardinality(B[f[n]]) <= N - n)}
<1>6. 0 \in S
    <2>1. t.root \in D /\ B[t.root] = D
        BY <1>1 DEF Linked, Ordered
    <2>2. ASSUME NEW z \in D, NEW s \in Sides PROVE t.root \notin B[t.node[z][s]]
        <3>1. SUFFICES ASSUME t.root \in B[t.node[z][s]] PROVE FALSE
            OBVIOUS
        <3>2. t.node[z][s] \in D
            BY <1>1, <3>1, LinkType DEF Ordered
        <3>3. CASE t.root = t.node[z][s]
            BY <1>1, <3>2, <3>3 DEF Linked
        <3>4. CASE t.root # t.node[z][s]
            <4>1. t.node[t.root].parent \in B[t.node[z][s]]
                BY <3>1, <3>2, <3>4, ParentBelow
            <4>2. B[t.node[z][s]] \subseteq D
                BY <1>1, <3>2 DEF Ordered
            <4>. QED
                BY <1>1, <2>1, <4>1, <4>2 DEF Linked
        <3>. QED
            BY <3>3, <3>4
    <2>3. Fits(D, t, B, k, f[0])
        BY <1>5, <2>1, <2>2 DEF Fits
    <2>4. 0 \in 0..N /\ Cardinality(B[f[0]]) <= N - 0
        BY <1>3, <1>5, <2>1
    <2>. QED
        BY <2>3, <2>4
<1>7. ASSUME NEW n \in 0..(N - 1), n \in S PROVE n + 1 \in S
    <2>1. Fits(D, t, B, k, f[n]) /\ (End(f[n]) \/ Cardinality(B[f[n]]) <= N - n) /\ n \in Nat /\ n + 1 \in 0..N
        BY <1>7
    <2>2. f[n + 1] = Descend(t, f[n], k)
        BY <1>5
    <2>3. CASE End(f[n])
        <3>1. f[n + 1] = f[n]
            BY <2>2, <2>3 DEF Descend
        <3>. QED
            BY <2>1, <2>3, <3>1
    <2>4. CASE ~ End(f[n])
        <3>1. f[n + 1] = Towards(t, f[n], k) /\ Towards(t, f[n], k) # Nil /\ f[n] # k
            BY <2>2, <2>4 DEF Descend
        <3>2. Fits(D, t, B, k, f[n + 1]) /\ Cardinality(B[f[n + 1]]) \in Nat /\ Cardinality(B[f[n]]) \in Nat
              /\ Cardinality(B[f[n + 1]]) < Cardinality(B[f[n]])
            BY <2>1, <3>1, TowardsFits
        <3>3. Cardinality(B[f[n]]) <= N - n
            BY <2>1, <2>4
        <3>4. Cardinality(B[f[n + 1]]) <= N - (n + 1)
            BY <2>1, <3>2, <3>3
        <3>. QED
            BY <2>1, <3>2, <3>4
    <2>. QED
        BY <2>3, <2>4
<1>8. Fits(D, t, B, k, x) /\ (End(x) \/ Cardinality(B[x]) <= N - N)
    <2>1. N \in S
        <3>. HIDE DEF S
        <3>1. 0..N \subseteq S
            BY <1>6, <1>7, Induction
        <3>. QED
            BY <3>1
    <2>. QED
        BY <1>4, <2>1
<1>9. Cardinality(B[x]) \in Nat /\ Cardinality(B[x]) # 0
    <2>1. x \in B[x] /\ B[x] \subseteq D
        BY <1>1, <1>8 DEF Ordered, Fits
    <2>2. IsFiniteSet(B[x])
        BY <2>1, FS_Subset
    <2>. QED
        BY <2>1, <2>2, FS_CardinalityType, FS_EmptySet
<1>. QED
    BY <1>8, <1>9

\* The empty tree.
LEMMA EmptyHolds == ASSUME NEW E PROVE Holds({}, E, EmptyTree)
<1>. DEFINE t == EmptyTree
            B == [z \in {Nil} |-> {}]
            H == [z \in {Nil} |-> 0]
<1>1. t.root = Nil /\ t.node = [z \in {} |-> Nil]
    BY DEF EmptyTree
<1>2. t = [root |-> t.root, node |-> t.node]
    BY DEF EmptyTree
<1>. HIDE DEF t
<1>3. t \in Tree({}, E)
    BY <1>1, <1>2, Zenon DEF Tree, Nodes
<1>4. Linked({}, t) /\ Ordered({}, t, B)
    BY <1>1 DEF Linked, Ordered
<1>5. Balanced({}, t, H)
    BY <1>1 DEF Balanced
<1>6. RB({}, E, t, B, H)
    BY <1>1, <1>3, <1>4, <1>5 DEF RB, SearchTree
<1>. QED
    BY <1>6, FS_EmptySet DEF Holds, t

\* The first node.
LEMMA FirstHolds ==
    ASSUME NEW E, NEW k \in Nat \ {0}, NEW v \in E, NEW u,
           [root |-> k, node |-> [i \in {k} |-> NewNode(Nil, FALSE, v)]] = u
    PROVE  Holds({k}, E, u) /\ u.node[k].elem = v
<1>. DEFINE D == {k}
            B == [z \in {k, Nil} |-> IF z = k THEN {k} ELSE {}]
            H == [z \in {k, Nil} |-> IF z = k THEN 1 ELSE 0]
<1>0. k # Nil /\ D \subseteq Nat \ {0} /\ D \cup {Nil} = {k, Nil} /\ Nil \notin D
    BY DEF Nil
<1>1. u.root = k /\ u.node = [i \in {k} |-> NewNode(Nil, FALSE, v)]
    BY Zenon
<1>2. u.node[k] = NewNode(Nil, FALSE, v)
    BY <1>1
<1>3. /\ u.node[k].parent = Nil /\ ~ u.node[k].red /\ u.node[k].elem = v
      /\ u.node[k].left = Nil /\ u.node[k].right = Nil /\ \A s \in Sides : u.node[k][s] = Nil
    BY <1>2 DEF NewNode, Sides
<1>4. u \in Tree(D, E)
    <2>1. NewNode(Nil, FALSE, v) \in NodeOf(D, E)
        BY DEF NewNode, NodeOf
    <2>2. [i \in {k} |-> NewNode(Nil, FALSE, v)] \in Nodes(D, E)
        BY <2>1, Zenon DEF Nodes
    <2>. QED
        BY <1>1, <2>2, Zenon DEF Tree
<1>5. Linked(D, u)
    BY <1>1, <1>3, Zenon DEF Linked
<1>6. B[k] = {k} /\ B[Nil] = {} /\ H[k] = 1 /\ H[Nil] = 0
    BY <1>0
<1>7. B \in [D \cup {Nil} -> SUBSET D] /\ H \in [D \cup {Nil} -> Nat]
    BY <1>0
<1>. HIDE DEF B, H
<1>8. Ordered(D, u, B)
    BY <1>1, <1>3, <1>6, <1>7, Zenon DEF Ordered
<1>9. Balanced(D, u, H)
    BY <1>3, <1>6, <1>7 DEF Balanced, Black
<1>10. RB(D, E, u, B, H)
    BY <1>0, <1>1, <1>3, <1>4, <1>5, <1>8, <1>9, Zenon DEF RB, SearchTree
<1>. QED
    BY <1>3, <1>10, FS_Singleton, Zenon DEF Holds

\* rbtree_insert keeps the rules and changes the element of k alone.
THEOREM InsertHolds ==
    ASSUME NEW D, NEW E, NEW t, Holds(D, E, t), NEW k \in Nat \ {0}, NEW v \in E, NEW u, Insert(t, k, v) = u
    PROVE  /\ Holds(D \cup {k}, E, u) /\ u.node[k].elem = v
           /\ \A z \in D \ {k} : u.node[z].elem = t.node[z].elem
<1>1. PICK B, H : RB(D, E, t, B, H)
    BY DEF Holds
<1>2. SearchTree(D, E, t, B) /\ Nil \notin D /\ t \in Tree(D, E) /\ Linked(D, t)
    BY <1>1 DEF RB, SearchTree
<1>3. CASE t.root = Nil
    <2>1. D = {}
        BY <1>2, <1>3 DEF Linked
    <2>2. [root |-> k, node |-> [i \in {k} |-> NewNode(Nil, FALSE, v)]] = u
        BY <1>3, Zenon DEF Insert
    <2>3. Holds({k}, E, u) /\ u.node[k].elem = v
        BY <2>2, FirstHolds, ZenonT(40)
    <2>4. D \cup {k} = {k}
        BY <2>1
    <2>. QED
        BY <2>1, <2>3, <2>4
<1>4. CASE t.root # Nil
    <2>1. D # {}
        BY <1>2, <1>4, LinkType
    <2>2. PICK x : Place(t, k) = x
        OBVIOUS
    <2>3. Fits(D, t, B, k, x) /\ (x = k \/ Towards(t, x, k) = Nil)
        BY <1>2, <2>1, <2>2, PlaceEnds DEF Holds
    <2>4. CASE x = k
        <3>1. [root |-> t.root, node |-> Set(t.node, k, "elem", v)] = u
            BY <1>4, <2>2, <2>4, Zenon DEF Insert
        <3>2. k \in D /\ D \cup {k} = D
            BY <2>3, <2>4 DEF Fits
        <3>3. k \in D
            BY <3>2
        <3>4. /\ Holds(D, E, u) /\ u.node[k].elem = v
              /\ \A z \in D \ {k} : u.node[z].elem = t.node[z].elem
            BY <3>1, <3>3, OverwriteHolds
        <3>. QED
            BY <3>2, <3>4, Zenon
    <2>5. CASE x # k
        <3>1. FixTree(Hang(t, x, k, v), k) = u
            BY <1>4, <2>2, <2>5, Zenon DEF Insert
        <3>2. PICK w : Hang(t, x, k, v) = w
            OBVIOUS
        <3>3. k \notin D
            <4>1. SUFFICES ASSUME k \in D PROVE FALSE
                OBVIOUS
            <4>2. x \in D /\ k \in B[x] /\ x \in Nat /\ Towards(t, x, k) = Nil /\ B[Nil] = {}
                BY <1>2, <2>3, <2>5, <4>1 DEF Fits, SearchTree, Ordered
            <4>3. SideOf(x, k) \in Sides /\ Beyond(SideOf(x, k), k, x)
                BY <2>5, <4>2 DEF SideOf, Sides, Beyond
            <4>4. t.node[x][SideOf(x, k)] = Nil
                BY <4>2, Zenon DEF Towards, SideOf
            <4>5. k \in B[t.node[x][SideOf(x, k)]]
                BY <1>2, <2>5, <4>2, <4>3, WayDown DEF Holds
            <4>. QED
                BY <4>2, <4>4, <4>5
        <3>4. /\ \E A, K : Half(D \cup {k}, E, w, k, A, K)
              /\ \A z \in D : w.node[z].elem = t.node[z].elem
              /\ w.node[k].elem = v
            <4>1. Fits(D, t, B, k, x) /\ Towards(t, x, k) = Nil
                BY <2>3, <2>5
            <4>2. HungHalf(D, E, t, w, k, v)
                BY <1>1, <3>2, <3>3, <4>1, HangHalf
            <4>. QED
                BY <4>2, Zenon DEF HungHalf
        <3>5. PICK A, K : Half(D \cup {k}, E, w, k, A, K)
            BY <3>4
        <3>6. IsFiniteSet(D \cup {k})
            BY FS_AddElement DEF Holds
        <3>7. (\E C, L : RB(D \cup {k}, E, u, C, L)) /\ Kept(D \cup {k}, w, u)
            BY <3>1, <3>2, <3>5, <3>6, FixTreeRepairs
        <3>8. \A z \in D \cup {k} : u.node[z].elem = w.node[z].elem
            BY <3>7 DEF Kept
        <3>. QED
            BY <3>4, <3>6, <3>7, <3>8 DEF Holds
    <2>. QED
        BY <2>4, <2>5
<1>. QED
    BY <1>3, <1>4

\* Such a tree is a red-black tree in the sense of RedBlackTree.
LEMMA HoldsIsRedBlack ==
    ASSUME NEW D, NEW E, NEW t, Holds(D, E, t)
    PROVE  IsRedBlack(t)
BY RBIsRedBlack DEF Holds

\* rbtree_search_node finds the element of a key, and only that.
THEOREM HoldsFinds ==
    ASSUME NEW D, NEW E, NEW t, Holds(D, E, t), NEW k \in Nat \ {0}
    PROVE  Search(t, k) = IF k \in D THEN t.node[k].elem ELSE Nil
<1>1. PICK B, H : RB(D, E, t, B, H)
    BY DEF Holds
<1>. QED
    BY <1>1, SearchFinds DEF Holds, RB

(***************************************************************************)
(* The store                                                               *)
(***************************************************************************)
Values == Nat \ {0}
Names  == DOMAIN Index

\* The names whose tree is that of bucket i.
InBucket(p, i) == {n \in p.names : Index[n] = i}

\* All parameters were bound in the style of the store.
OneStyle(style, ref) == \A k \in DOMAIN ref : k[1] = style /\ k # <<"positional", 0>>

IsRecord(p) ==
    p = [style |-> p.style, tree_map |-> p.tree_map, array_list |-> p.array_list,
         names |-> p.names, fits |-> p.fits, len |-> p.len]

IsFcn(f) == f = [k \in DOMAIN f |-> f[k]]

\* The names of the list are those of the trees; they are bound to the elements.
NamedStore(p, ref) ==
    /\ p.style = "named" /\ p.names \subseteq Names
    /\ DOMAIN p.tree_map = Buckets /\ IsFcn(p.tree_map)
    /\ \A i \in Buckets : Holds(InBucket(p, i), Values, p.tree_map[i])
    /\ OneStyle("named", ref) =>
          /\ DOMAIN ref = {<<"named", n>> : n \in p.names}
          /\ \A n \in p.names : ref[<<"named", n>>] = p.tree_map[Index[n]].node[n].elem

\* The list holds the positions bound, no more than were counted.
PositionalStore(p, ref) ==
    /\ p.style = "positional" /\ p.len \in Nat
    /\ IsFiniteSet(DOMAIN p.array_list) /\ Cardinality(DOMAIN p.array_list) <= p.len
    /\ DOMAIN p.array_list \subseteq Nat
    /\ OneStyle("positional", ref) =>
          /\ DOMAIN ref = {<<"positional", i>> : i \in DOMAIN p.array_list}
          /\ \A i \in DOMAIN p.array_list : ref[<<"positional", i>>] = p.array_list[i]

Store(p, ref) == IsRecord(p) /\ IsFcn(ref) /\ (NamedStore(p, ref) \/ PositionalStore(p, ref))

\* A name is found if it is on the list.
LEMMA GetFinds ==
    ASSUME NEW p, NEW ref, NamedStore(p, ref), NEW n \in Names
    PROVE  /\ TreeMapGet(p.tree_map, n) = IF n \in p.names THEN p.tree_map[Index[n]].node[n].elem ELSE Nil
           /\ n \in p.names => p.tree_map[Index[n]].node[n].elem \in Values
<1>1. Index[n] \in Buckets /\ n \in Nat \ {0}
    BY ParamAssumption DEF Buckets, Names
<1>2. Holds(InBucket(p, Index[n]), Values, p.tree_map[Index[n]])
    BY <1>1 DEF NamedStore
<1>3. n \in InBucket(p, Index[n]) <=> n \in p.names
    BY DEF InBucket
<1>4. TreeMapGet(p.tree_map, n) =
        IF n \in InBucket(p, Index[n]) THEN p.tree_map[Index[n]].node[n].elem ELSE Nil
    <2>1. PICK D, t : InBucket(p, Index[n]) = D /\ p.tree_map[Index[n]] = t
        OBVIOUS
    <2>2. Holds(D, Values, t)
        BY <1>2, <2>1, Zenon
    <2>3. Search(t, n) = IF n \in D THEN t.node[n].elem ELSE Nil
        BY <1>1, <2>2, HoldsFinds
    <2>4. TreeMapGet(p.tree_map, n) = Search(t, n)
        BY <2>1, Zenon DEF TreeMapGet
    <2>. QED
        BY <2>1, <2>3, <2>4, Zenon
<1>5. ASSUME n \in p.names PROVE p.tree_map[Index[n]].node[n].elem \in Values
    <2>1. p.tree_map[Index[n]] \in Tree(InBucket(p, Index[n]), Values)
        BY <1>2, Zenon DEF Holds, RB, SearchTree
    <2>. QED
        BY <1>3, <1>5, <2>1, LinkType, SMTT(30)
<1>. QED
    BY <1>3, <1>4, <1>5

\* What Put changes.
LEMMA PutIs ==
    ASSUME NEW f, NEW x, NEW v, NEW g, Put(f, x, v) = g
    PROVE  /\ DOMAIN g = DOMAIN f \cup {x} /\ IsFcn(g) /\ g[x] = v
           /\ \A y \in DOMAIN f : y # x => g[y] = f[y]
BY DEF Put, IsFcn

\* Parameters bound before are of the style of the store if all are.
LEMMA OneStyleBefore ==
    ASSUME NEW style, NEW ref, NEW x, NEW v, NEW g, Put(ref, x, v) = g, OneStyle(style, g)
    PROVE  OneStyle(style, ref) /\ x[1] = style /\ x # <<"positional", 0>>
<1>1. DOMAIN g = DOMAIN ref \cup {x}
    BY PutIs, Zenon
<1>. QED
    BY <1>1 DEF OneStyle

\* Binding a name.
LEMMA BindsName ==
    ASSUME NEW p, IsRecord(p), NEW ref, NamedStore(p, ref), NEW b \in Inputs, b.name # Nil,
           NEW q, BindOne(p, b).params = q, NEW g, Put(ref, Key(b), b.value) = g
    PROVE  BindOne(p, b).ok /\ Store(q, g)
<1>. DEFINE n == b.name
            i == Index[b.name]
            map == TreeMapSet(p.tree_map, b)
<1>1. n \in Names /\ n \in Nat \ {0} /\ i \in Buckets /\ b.value \in Values
    BY ParamAssumption DEF Names, Buckets, Values
<1>2. /\ p.style = "named" /\ p.names \subseteq Names
      /\ DOMAIN p.tree_map = Buckets /\ IsFcn(p.tree_map)
      /\ \A j \in Buckets : Holds(InBucket(p, j), Values, p.tree_map[j])
    BY DEF NamedStore
<1>0. PICK t, u, D : p.tree_map[i] = t /\ Insert(t, n, b.value) = u /\ InBucket(p, i) = D
    OBVIOUS
<1>3. map = [p.tree_map EXCEPT ![i] = u]
    BY <1>0, Zenon DEF TreeMapSet
<1>4. DOMAIN map = Buckets /\ IsFcn(map) /\ map[i] = u /\ \A j \in Buckets \ {i} : map[j] = p.tree_map[j]
    BY <1>1, <1>2, <1>3 DEF IsFcn
<1>5. /\ Holds(D \cup {n}, Values, u) /\ u.node[n].elem = b.value
      /\ \A z \in D \ {n} : u.node[z].elem = t.node[z].elem
    <2>1. Holds(D, Values, t)
        BY <1>0, <1>1, <1>2
    <2>2. PICK m, v : b.name = m /\ b.value = v
        OBVIOUS
    <2>3. Insert(t, m, v) = u /\ m \in Nat \ {0} /\ v \in Values
        BY <1>0, <1>1, <2>2, Zenon
    <2>4. /\ Holds(D \cup {m}, Values, u) /\ u.node[m].elem = v
          /\ \A z \in D \ {m} : u.node[z].elem = t.node[z].elem
        BY <2>1, <2>3, InsertHolds
    <2>. QED
        BY <2>2, <2>4, Zenon
<1>6. TreeMapGet(p.tree_map, n) # Nil <=> n \in p.names
    <2>1. Nil \notin Values
        BY DEF Values, Nil
    <2>. QED
        BY <1>1, <2>1, GetFinds
<1>7. PICK r : [p EXCEPT !.tree_map = map] = r
    BY Zenon
<1>8. BindOne(p, b).ok /\ q = IF TreeMapGet(p.tree_map, n) # Nil THEN r ELSE AddName(r, n)
    BY <1>2, <1>7, Zenon DEF BindOne
<1>. HIDE DEF map
<1>9. /\ IsRecord(r) /\ r.style = "named" /\ r.tree_map = map /\ r.names = p.names
    BY <1>2, <1>7 DEF IsRecord
<1>10. IsRecord(q) /\ q.style = "named" /\ q.tree_map = map /\ q.names = p.names \cup {n}
    <2>1. CASE n \in p.names
        <3>1. q = r
            BY <1>6, <1>8, <2>1
        <3>. QED
            BY <1>9, <2>1, <3>1
    <2>2. CASE n \notin p.names
        <3>1. q = AddName(r, n)
            BY <1>6, <1>8, <2>2
        <3>2. q = [r EXCEPT !.names = r.names \cup {n}, !.fits = r.fits /\ r.len < Slots, !.len = r.len + 1]
            BY <3>1 DEF AddName
        <3>. QED
            BY <1>9, <3>2, Zenon DEF IsRecord
    <2>. QED
        BY <2>1, <2>2
<1>11. ASSUME NEW j \in Buckets PROVE Holds(InBucket(q, j), Values, q.tree_map[j])
    <2>1. CASE j = i
        <3>1. InBucket(q, i) = D \cup {n}
            BY <1>0, <1>10 DEF InBucket
        <3>. QED
            BY <1>4, <1>5, <1>10, <2>1, <3>1
    <2>2. CASE j # i
        <3>1. InBucket(q, j) = InBucket(p, j)
            BY <1>10, <2>2 DEF InBucket
        <3>. QED
            BY <1>2, <1>4, <1>10, <2>2, <3>1
    <2>. QED
        BY <2>1, <2>2
<1>12. ASSUME OneStyle("named", g)
       PROVE  /\ DOMAIN g = {<<"named", m>> : m \in q.names}
              /\ \A m \in q.names : g[<<"named", m>>] = q.tree_map[Index[m]].node[m].elem
    <2>1. OneStyle("named", ref) /\ Key(b)[1] = "named"
        BY <1>12, OneStyleBefore
    <2>2. Key(b) = <<"named", n>>
        BY <2>1 DEF Key
    <2>3. DOMAIN ref = {<<"named", m>> : m \in p.names}
          /\ \A m \in p.names : ref[<<"named", m>>] = p.tree_map[Index[m]].node[m].elem
        BY <2>1 DEF NamedStore
    <2>4. /\ DOMAIN g = DOMAIN ref \cup {<<"named", n>>} /\ g[<<"named", n>>] = b.value
          /\ \A y \in DOMAIN ref : y # <<"named", n>> => g[y] = ref[y]
        <3>1. PICK x, v : <<"named", n>> = x /\ b.value = v
            BY Zenon
        <3>2. Put(ref, x, v) = g
            BY <2>2, <3>1
        <3>3. DOMAIN g = DOMAIN ref \cup {x} /\ g[x] = v /\ \A y \in DOMAIN ref : y # x => g[y] = ref[y]
            BY <3>2 DEF Put
        <3>. QED
            BY <3>1, <3>3, Zenon
    <2>5. DOMAIN g = {<<"named", m>> : m \in q.names}
        BY <1>10, <2>3, <2>4
    <2>6. ASSUME NEW m \in q.names PROVE g[<<"named", m>>] = q.tree_map[Index[m]].node[m].elem
        <3>1. CASE m = n
            BY <1>4, <1>5, <1>10, <2>4, <3>1
        <3>2. CASE m # n
            <4>1. m \in p.names /\ Index[m] \in Buckets /\ <<"named", m>> # <<"named", n>>
                BY <1>2, <1>10, <2>6, <3>2 DEF Buckets, Names
            <4>2. g[<<"named", m>>] = p.tree_map[Index[m]].node[m].elem
                BY <2>3, <2>4, <4>1, SMTT(30)
            <4>3. CASE Index[m] = i
                <5>1. m \in D \ {n}
                    BY <1>0, <3>2, <4>1, <4>3 DEF InBucket
                <5>2. u.node[m].elem = t.node[m].elem
                    BY <1>5, <5>1
                <5>. QED
                    BY <1>0, <1>4, <1>10, <4>2, <4>3, <5>2
            <4>4. CASE Index[m] # i
                BY <1>4, <1>10, <4>1, <4>2, <4>4
            <4>. QED
                BY <4>3, <4>4
        <3>. QED
            BY <3>1, <3>2
    <2>. QED
        BY <2>5, <2>6
<1>13. IsFcn(g)
    BY PutIs, Zenon
<1>14. NamedStore(q, g)
    BY <1>1, <1>2, <1>4, <1>10, <1>11, <1>12 DEF NamedStore
<1>. QED
    BY <1>8, <1>10, <1>13, <1>14 DEF Store

\* Binding a position.
LEMMA BindsPosition ==
    ASSUME NEW p, IsRecord(p), NEW ref, PositionalStore(p, ref), NEW b \in Inputs,
           NEW q, BindOne(p, b).params = q, NEW g, Put(ref, Key(b), b.value) = g
    PROVE  BindOne(p, b).ok /\ Store(q, g)
<1>. DEFINE i == b.idx
<1>0. PICK list : Put(p.array_list, i, b.value) = list
    OBVIOUS
<1>1. /\ p.style = "positional" /\ p.len \in Nat /\ i \in Nat
      /\ IsFiniteSet(DOMAIN p.array_list) /\ Cardinality(DOMAIN p.array_list) <= p.len
      /\ DOMAIN p.array_list \subseteq Nat
    BY ParamAssumption DEF PositionalStore
<1>2. BindOne(p, b).ok /\ q = [p EXCEPT !.array_list = list, !.len = p.len + 1]
    BY <1>0, <1>1, Zenon DEF BindOne
<1>3. /\ DOMAIN list = DOMAIN p.array_list \cup {i} /\ list[i] = b.value
      /\ \A y \in DOMAIN p.array_list : y # i => list[y] = p.array_list[y]
    <2>1. PICK f, x, v : p.array_list = f /\ b.idx = x /\ b.value = v
        OBVIOUS
    <2>2. Put(f, x, v) = list
        BY <1>0, <2>1, Zenon
    <2>3. DOMAIN list = DOMAIN f \cup {x} /\ list[x] = v /\ \A y \in DOMAIN f : y # x => list[y] = f[y]
        BY <2>2 DEF Put
    <2>. QED
        BY <2>1, <2>3, Zenon
<1>4. IsRecord(q) /\ q.style = "positional" /\ q.array_list = list /\ q.len = p.len + 1
    BY <1>1, <1>2, Zenon DEF IsRecord
<1>5. /\ IsFiniteSet(DOMAIN list) /\ Cardinality(DOMAIN list) <= p.len + 1
    <2>1. /\ IsFiniteSet(DOMAIN p.array_list \cup {i})
          /\ Cardinality(DOMAIN p.array_list \cup {i}) =
                IF i \in DOMAIN p.array_list THEN Cardinality(DOMAIN p.array_list)
                ELSE Cardinality(DOMAIN p.array_list) + 1
        BY <1>1, FS_AddElement, Zenon
    <2>2. Cardinality(DOMAIN p.array_list) \in Nat
        BY <1>1, FS_CardinalityType
    <2>. QED
        BY <1>1, <1>3, <2>1, <2>2
<1>6. ASSUME OneStyle("positional", g)
      PROVE  /\ DOMAIN g = {<<"positional", j>> : j \in DOMAIN list}
             /\ \A j \in DOMAIN list : g[<<"positional", j>>] = list[j]
    <2>1. OneStyle("positional", ref) /\ Key(b)[1] = "positional"
        BY <1>6, OneStyleBefore
    <2>2. Key(b) = <<"positional", i>>
        BY <2>1 DEF Key
    <2>3. DOMAIN ref = {<<"positional", j>> : j \in DOMAIN p.array_list}
          /\ \A j \in DOMAIN p.array_list : ref[<<"positional", j>>] = p.array_list[j]
        BY <2>1 DEF PositionalStore
    <2>4. /\ DOMAIN g = DOMAIN ref \cup {<<"positional", i>>} /\ g[<<"positional", i>>] = b.value
          /\ \A y \in DOMAIN ref : y # <<"positional", i>> => g[y] = ref[y]
        <3>1. PICK x, v : <<"positional", i>> = x /\ b.value = v
            BY Zenon
        <3>2. Put(ref, x, v) = g
            BY <2>2, <3>1
        <3>3. DOMAIN g = DOMAIN ref \cup {x} /\ g[x] = v /\ \A y \in DOMAIN ref : y # x => g[y] = ref[y]
            BY <3>2 DEF Put
        <3>. QED
            BY <3>1, <3>3, Zenon
    <2>5. DOMAIN g = {<<"positional", j>> : j \in DOMAIN list}
        BY <1>3, <2>3, <2>4
    <2>6. ASSUME NEW j \in DOMAIN list PROVE g[<<"positional", j>>] = list[j]
        <3>1. CASE j = i
            BY <1>3, <2>4, <3>1
        <3>2. CASE j # i
            <4>1. j \in DOMAIN p.array_list /\ <<"positional", j>> # <<"positional", i>>
                BY <1>3, <2>6, <3>2
            <4>2. <<"positional", j>> \in DOMAIN ref
                BY <2>3, <4>1
            <4>. QED
                BY <1>3, <2>3, <2>4, <3>2, <4>1, <4>2
        <3>. QED
            BY <3>1, <3>2
    <2>. QED
        BY <2>5, <2>6
<1>7. IsFcn(g)
    BY PutIs, Zenon
<1>8. PositionalStore(q, g)
    <2>1. p.len + 1 \in Nat /\ DOMAIN list \subseteq Nat
        BY <1>1, <1>3
    <2>. QED
        BY <1>4, <1>5, <1>6, <2>1 DEF PositionalStore
<1>. QED
    BY <1>2, <1>4, <1>7, <1>8 DEF Store

\* An input is bound, or refused.
LEMMA Binds ==
    ASSUME NEW p, NEW ref, Store(p, ref), NEW b \in Inputs,
           NEW q, BindOne(p, b).params = q, NEW g, Put(ref, Key(b), b.value) = g,
           BindOne(p, b).ok
    PROVE  Store(q, g)
<1>1. IsRecord(p) /\ (NamedStore(p, ref) \/ PositionalStore(p, ref))
    BY DEF Store
<1>2. CASE PositionalStore(p, ref)
    BY <1>1, <1>2, BindsPosition
<1>3. CASE NamedStore(p, ref)
    <2>1. p.style = "named" /\ p.style # "positional"
        BY <1>3 DEF NamedStore
    <2>2. b.name # Nil
        <3>1. SUFFICES ASSUME b.name = Nil PROVE FALSE
            OBVIOUS
        <3>2. BindOne(p, b) = [ok |-> FALSE, params |-> p]
            BY <2>1, <3>1 DEF BindOne
        <3>. QED
            BY <3>2
    <2>. QED
        BY <1>1, <1>3, <2>2, BindsName
<1>. QED
    BY <1>1, <1>2, <1>3

\* A step of the loop over the inputs.
BindStep(s, b) ==
    LET r == BindOne(s.params, b)
    IN  IF s.ok /\ r.ok
        THEN [ok |-> TRUE, params |-> r.params, bound |-> Put(s.bound, Key(b), b.value)]
        ELSE [s EXCEPT !.ok = FALSE]

First(p, ref) == [ok |-> TRUE, params |-> p, bound |-> ref]

\* f is the function "after" of BindAll.
BindsEach(f, p, ref, a, K) ==
    f = [n \in 0..K |-> IF n = 0 THEN First(p, ref) ELSE BindStep(f[n - 1], a[n])]

\* BindAll is the last value of its recursive function, which exists.
LEMMA BindAllUnfold ==
    ASSUME NEW p, NEW ref, NEW a, NEW K \in Nat, Len(a) = K
    PROVE  \E f : BindsEach(f, p, ref, a, K) /\ BindAll(p, ref, a) = f[K]
<1>. DEFINE Is(f, m) == f = [n \in 0..m |-> IF n = 0 THEN First(p, ref) ELSE BindStep(f[n - 1], a[n])]
            S == {m \in 0..K : \E f : Is(f, m)}
<1>2. 0 \in S
    <2>. DEFINE f == [n \in 0..0 |-> First(p, ref)]
    <2>1. Is(f, 0)
        OBVIOUS
    <2>2. 0 \in 0..K
        OBVIOUS
    <2>. QED
        BY <2>1, <2>2, Zenon
<1>3. ASSUME NEW m \in 0..(K - 1), m \in S PROVE m + 1 \in S
    <2>1. PICK f : Is(f, m)
        BY <1>3
    <2>. DEFINE g == [n \in 0..(m + 1) |-> IF n = m + 1 THEN BindStep(f[m], a[n]) ELSE f[n]]
    <2>2. \A n \in 0..m : g[n] = f[n]
        OBVIOUS
    <2>3. ASSUME NEW n \in 0..(m + 1)
          PROVE  g[n] = IF n = 0 THEN First(p, ref) ELSE BindStep(g[n - 1], a[n])
        <3>1. CASE n = m + 1
            <4>1. n # 0 /\ n - 1 = m /\ g[m] = f[m]
                BY <2>2, <3>1
            <4>. QED
                BY <3>1, <4>1, Zenon
        <3>2. CASE n \in 0..m
            <4>1. g[n] = IF n = 0 THEN First(p, ref) ELSE BindStep(f[n - 1], a[n])
                BY <2>1, <2>2, <3>2, Zenon
            <4>2. n # 0 => g[n - 1] = f[n - 1]
                BY <2>2, <3>2
            <4>. QED
                BY <4>1, <4>2, Zenon
        <3>. QED
            BY <3>1, <3>2
    <2>4. Is(g, m + 1)
        BY <2>3, Zenon
    <2>5. m + 1 \in 0..K
        OBVIOUS
    <2>. QED
        BY <2>4, <2>5, Zenon
<1>4. K \in S
    <2>. HIDE DEF S
    <2>1. 0..K \subseteq S
        BY <1>2, <1>3, Induction
    <2>. QED
        BY <2>1
<1>5. \E f : Is(f, K)
    BY <1>4, Zenon
<1>. DEFINE after == CHOOSE f : Is(f, K)
<1>6. Is(after, K)
    BY <1>5, Zenon
<1>7. BindAll(p, ref, a) = after[K]
    BY Zenon DEF BindAll, BindStep, First
<1>. HIDE DEF after
<1>. QED
    BY <1>6, <1>7, Zenon DEF BindsEach

\* What the loop keeps.
Bound(s) ==
    s = [ok |-> s.ok, params |-> s.params, bound |-> s.bound] /\ Store(s.params, s.bound)

\* Every turn of the loop of snowflake_bind_param_array keeps the store.
LEMMA BindStepKeeps ==
    ASSUME NEW s, Bound(s), NEW b \in Inputs, NEW u, BindStep(s, b) = u
    PROVE  Bound(u)
<1>1. PICK r : BindOne(s.params, b) = r
    OBVIOUS
<1>2. u = IF s.ok /\ r.ok
          THEN [ok |-> TRUE, params |-> r.params, bound |-> Put(s.bound, Key(b), b.value)]
          ELSE [s EXCEPT !.ok = FALSE]
    BY <1>1, Zenon DEF BindStep
<1>3. CASE s.ok /\ r.ok
    <2>1. PICK p, ref, q, g : s.params = p /\ s.bound = ref /\ r.params = q /\ Put(ref, Key(b), b.value) = g
        OBVIOUS
    <2>2. Store(p, ref) /\ BindOne(p, b).params = q /\ BindOne(p, b).ok
        BY <1>1, <1>3, <2>1 DEF Bound
    <2>3. Store(q, g)
        BY <2>1, <2>2, Binds
    <2>4. u = [ok |-> TRUE, params |-> q, bound |-> g]
        BY <1>2, <1>3, <2>1, Zenon
    <2>. QED
        BY <2>3, <2>4 DEF Bound
<1>4. CASE ~(s.ok /\ r.ok)
    <2>1. u = [s EXCEPT !.ok = FALSE]
        BY <1>2, <1>4
    <2>2. s = [ok |-> s.ok, params |-> s.params, bound |-> s.bound]
        BY DEF Bound
    <2>3. u.params = s.params /\ u.bound = s.bound /\ u = [ok |-> u.ok, params |-> u.params, bound |-> u.bound]
        BY <2>1, <2>2, Zenon
    <2>. QED
        BY <2>3 DEF Bound
<1>. QED
    BY <1>3, <1>4

\* So does the whole loop.
LEMMA BindAllKeeps ==
    ASSUME NEW p, NEW ref, Store(p, ref), NEW a \in Seq(Inputs), NEW r, BindAll(p, ref, a) = r
    PROVE  Store(r.params, r.bound)
<1>1. PICK K \in Nat : Len(a) = K
    OBVIOUS
<1>2. PICK f : BindsEach(f, p, ref, a, K) /\ r = f[K]
    BY <1>1, BindAllUnfold
<1>. DEFINE S == {n \in 0..K : Bound(f[n])}
<1>3. 0 \in S
    <2>1. 0 \in 0..K
        OBVIOUS
    <2>2. f[0] = First(p, ref)
        BY <1>2, <2>1, Zenon DEF BindsEach
    <2>3. Bound(First(p, ref))
        BY DEF Bound, First
    <2>. QED
        BY <2>1, <2>2, <2>3
<1>4. ASSUME NEW j \in 0..(K - 1), j \in S PROVE j + 1 \in S
    <2>1. j + 1 \in 0..K /\ j + 1 # 0 /\ (j + 1) - 1 = j /\ j + 1 \in 1..Len(a)
        BY <1>1
    <2>2. f[j + 1] = BindStep(f[(j + 1) - 1], a[j + 1])
        BY <1>2, <2>1, Zenon DEF BindsEach
    <2>3. PICK s, u, b : f[j] = s /\ f[j + 1] = u /\ a[j + 1] = b
        OBVIOUS
    <2>4. b \in Inputs /\ Bound(s)
        BY <1>4, <2>1, <2>3
    <2>6. BindStep(s, b) = u
        BY <2>1, <2>2, <2>3, Zenon
    <2>5. Bound(u)
        BY <2>4, <2>6, BindStepKeeps
    <2>. QED
        BY <2>1, <2>3, <2>5
<1>5. Bound(f[K])
    <2>1. 0..K \subseteq S
        <3>. HIDE DEF S
        <3>. QED
            BY <1>3, <1>4, Induction
    <2>. QED
        BY <2>1
<1>. QED
    BY <1>2, <1>5 DEF Bound

\* A new store.
LEMMA NewStore ==
    ASSUME NEW style \in {"named", "positional"}, NEW p, StoreInit(style) = p
    PROVE  Store(p, Empty)
<1>1. /\ p.style = style /\ p.names = {} /\ p.array_list = Empty /\ p.len = 0 /\ IsRecord(p)
      /\ p.tree_map = IF style = "named" THEN [i \in Buckets |-> EmptyTree] ELSE Empty
    BY Zenon DEF StoreInit, NoParams, IsRecord
<1>2. IsFcn(Empty) /\ DOMAIN Empty = {}
    BY DEF IsFcn, Empty
<1>3. CASE style = "named"
    <2>1. DOMAIN p.tree_map = Buckets /\ IsFcn(p.tree_map) /\ \A i \in Buckets : p.tree_map[i] = EmptyTree
        BY <1>1, <1>3 DEF IsFcn
    <2>2. \A i \in Buckets : Holds(InBucket(p, i), Values, p.tree_map[i])
        <3>1. \A i \in Buckets : InBucket(p, i) = {}
            BY <1>1 DEF InBucket
        <3>. QED
            BY <2>1, <3>1, EmptyHolds
    <2>3. NamedStore(p, Empty)
        BY <1>1, <1>2, <1>3, <2>1, <2>2 DEF NamedStore
    <2>. QED
        BY <1>1, <1>2, <2>3 DEF Store
<1>4. CASE style = "positional"
    <2>1. IsFiniteSet({}) /\ Cardinality({}) = 0
        BY FS_EmptySet
    <2>2. PositionalStore(p, Empty)
        BY <1>1, <1>2, <1>4, <2>1 DEF PositionalStore
    <2>. QED
        BY <1>1, <1>2, <2>2 DEF Store
<1>. QED
    BY <1>3, <1>4

\* The store holds what was bound since the statement was prepared, and an execution has sent
\* what the store holds.
IInv ==
    /\ (params = NoParams /\ bound = Empty) \/ Store(params, bound)
    /\ status = "executed" /\ params.fits => sent = Bindings(params)

\* The statement before any parameter is bound.
LEMMA NoParamsIs ==
    IsRecord(NoParams) /\ NoParams.style = "none" /\ NoParams.names = {}
BY DEF NoParams, IsRecord

\* A store has one of two styles.
LEMMA StoreStyle ==
    ASSUME NEW p, NEW ref, Store(p, ref)
    PROVE  IsRecord(p) /\ p.style \in {"named", "positional"}
BY DEF Store, NamedStore, PositionalStore

\* snowflake_bind_param and snowflake_bind_param_array keep the invariant.
LEMMA BindParamsKeeps ==
    ASSUME IInv, NEW a \in Seq(Inputs), BindParams(a)
    PROVE  IInv'
<1>1. PICK p : (IF params.style = "none" THEN StoreInit(ParamStyle(a[1])) ELSE params) = p
    OBVIOUS
<1>2. Store(p, bound)
    <2>1. CASE params = NoParams /\ bound = Empty
        <3>1. PICK style \in {"named", "positional"} : ParamStyle(a[1]) = style
            BY DEF ParamStyle
        <3>2. StoreInit(style) = p
            BY <1>1, <2>1, <3>1, NoParamsIs
        <3>. QED
            BY <2>1, <3>2, NewStore
    <2>2. CASE Store(params, bound)
        BY <1>1, <2>2, StoreStyle
    <2>. QED
        BY <2>1, <2>2 DEF IInv
<1>3. PICK r : BindAll(p, bound, a) = r
    OBVIOUS
<1>4. params' = r.params /\ bound' = r.bound /\ status' = IF r.ok THEN "success" ELSE "other"
    BY <1>1, <1>3, Zenon DEF BindParams
<1>5. Store(params', bound')
    BY <1>2, <1>3, <1>4, BindAllKeeps
<1>6. status' # "executed"
    BY <1>4
<1>. QED
    BY <1>5, <1>6 DEF IInv

\* _snowflake_execute_ex keeps the invariant.
LEMMA ExecuteKeeps ==
    ASSUME IInv, Execute
    PROVE  IInv'
<1>1. IsRecord(params)
    BY NoParamsIs, StoreStyle DEF IInv
<1>2. params' = params /\ bound' = bound
    BY DEF Execute
<1>3. ASSUME params.fits PROVE sent' = Bindings(params)
    <2>1. sent' = Bindings([params EXCEPT !.names = params.names \ {}])
        BY <1>3 DEF Execute
    <2>2. [params EXCEPT !.names = params.names \ {}] = params
        BY <1>1 DEF IsRecord
    <2>. QED
        BY <2>1, <2>2
<1>4. (params = NoParams /\ bound = Empty) \/ Store(params, bound)
    BY DEF IInv
<1>5. ((params = NoParams /\ bound = Empty) \/ Store(params, bound))'
    BY <1>2, <1>4
<1>6. params'.fits => sent' = Bindings(params')
    BY <1>2, <1>3
<1>. QED
    BY <1>5, <1>6 DEF IInv

\* Whatever is bound, in whatever order, the store holds what was bound since the
\* statement was prepared, under the rules of red-black trees for names, and an
\* execution sends what the store holds.
THEOREM Inductive == Spec => []IInv
<1>1. Init => IInv
    BY DEF Init, IInv
<1>2. IInv /\ [Next]_vars => IInv'
    <2>. SUFFICES ASSUME IInv, [Next]_vars PROVE IInv'
        OBVIOUS
    <2>1. ASSUME NEW b \in Inputs, BindParams(<<b>>) PROVE IInv'
        <3>1. <<b>> \in Seq(Inputs)
            OBVIOUS
        <3>. QED
            BY <2>1, <3>1, BindParamsKeeps, Zenon
    <2>2. ASSUME NEW a \in Arrays, BindParams(a) PROVE IInv'
        <3>1. a \in Seq(Inputs)
            BY ParamAssumption
        <3>. QED
            BY <2>2, <3>1, BindParamsKeeps
    <2>3. CASE Execute
        BY <2>3, ExecuteKeeps
    <2>4. CASE Reset
        BY <2>4 DEF Reset, IInv
    <2>5. CASE UNCHANGED vars
        BY <2>5 DEF vars, IInv
    <2>. QED
        BY <2>1, <2>2, <2>3, <2>4, <2>5, Zenon DEF Next
<1>. QED
    BY <1>1, <1>2, PTL DEF Spec

\* The trees of the store are red-black trees.
LEMMA StoreIsRedBlack ==
    ASSUME IInv
    PROVE  TreesAreRedBlack
<1>. SUFFICES ASSUME params.style = "named", NEW i \in Buckets PROVE IsRedBlack(params.tree_map[i])
    BY DEF TreesAreRedBlack
<1>1. Store(params, bound)
    BY NoParamsIs DEF IInv
<1>2. Holds(InBucket(params, i), Values, params.tree_map[i])
    BY <1>1 DEF Store, NamedStore, PositionalStore
<1>. QED
    BY <1>2, HoldsIsRedBlack

\* rbtree_insert and sf_treemap_set: every tree that a statement ever has is a red-black tree,
\* for any names, hash function and sequence of calls.
THEOREM RedBlack == Spec => []TreesAreRedBlack
BY Inductive, StoreIsRedBlack, PTL

\* The names bound are sent with their values.
LEMMA NamesSent ==
    ASSUME NEW p, NEW ref, NamedStore(p, ref), IsFcn(ref), OneStyle("named", ref)
    PROVE  Bindings(p) = ref
<1>1. /\ p.style = "named" /\ p.names \subseteq Names
      /\ DOMAIN ref = {<<"named", n>> : n \in p.names}
      /\ \A n \in p.names : ref[<<"named", n>>] = p.tree_map[Index[n]].node[n].elem
    BY DEF NamedStore
<1>2. Bindings(p) = [k \in {<<"named", n>> : n \in p.names} |-> TreeMapGet(p.tree_map, k[2])]
    BY <1>1 DEF Bindings
<1>3. ASSUME NEW k \in DOMAIN ref PROVE TreeMapGet(p.tree_map, k[2]) = ref[k]
    <2>1. PICK n \in p.names : k = <<"named", n>>
        BY <1>1
    <2>2. n \in Names /\ k[2] = n
        BY <1>1, <2>1
    <2>3. TreeMapGet(p.tree_map, n) = p.tree_map[Index[n]].node[n].elem
        BY <2>2, GetFinds
    <2>. QED
        BY <1>1, <2>1, <2>2, <2>3
<1>4. Bindings(p) = [k \in DOMAIN ref |-> TreeMapGet(p.tree_map, k[2])]
    BY <1>1, <1>2
<1>. QED
    BY <1>3, <1>4, Zenon DEF IsFcn

\* A finite set of positions without a gap goes no further than its size.
LEMMA Gapless ==
    ASSUME NEW D, IsFiniteSet(D), D \subseteq Nat, NEW i \in D, \A j \in 1..i : j \in D
    PROVE  i <= Cardinality(D)
<1>1. 1..i \subseteq D /\ i \in Nat
    OBVIOUS
<1>2. Cardinality(1..i) <= Cardinality(D)
    BY <1>1, FS_Subset
<1>3. Cardinality(1..i) = i
    <2>1. Cardinality(1..i) = IF 1 > i THEN 0 ELSE i - 1 + 1
        BY <1>1, FS_Interval
    <2>. QED
        BY <1>1, <2>1
<1>. QED
    BY <1>2, <1>3

\* The positions bound are sent with their values.
LEMMA PositionsSent ==
    ASSUME NEW p, NEW ref, PositionalStore(p, ref), IsFcn(ref), OneStyle("positional", ref),
           \A k \in DOMAIN ref : k[1] = "positional" => \A i \in 1..k[2] : <<"positional", i>> \in DOMAIN ref
    PROVE  Bindings(p) = ref
<1>. DEFINE D == DOMAIN p.array_list
            at == {i \in 1 .. p.len : i \in D}
<1>1. /\ p.style = "positional" /\ p.len \in Nat
      /\ IsFiniteSet(D) /\ Cardinality(D) <= p.len /\ D \subseteq Nat
      /\ DOMAIN ref = {<<"positional", i>> : i \in D}
      /\ \A i \in D : ref[<<"positional", i>>] = p.array_list[i]
    BY DEF PositionalStore
<1>2. Bindings(p) = [k \in {<<"positional", i>> : i \in at} |-> p.array_list[k[2]]]
    BY <1>1 DEF Bindings
<1>3. ASSUME NEW i \in D PROVE i \in at
    <2>1. <<"positional", i>> \in DOMAIN ref
        BY <1>1
    <2>2. i # 0
        BY <2>1 DEF OneStyle
    <2>3. ASSUME NEW j \in 1..i PROVE j \in D
        <3>1. <<"positional", j>> \in DOMAIN ref
            BY <2>1
        <3>. QED
            BY <1>1, <3>1
    <2>4. Cardinality(D) \in Nat /\ i <= Cardinality(D)
        BY <1>1, <2>3, Gapless, FS_CardinalityType
    <2>. QED
        BY <1>1, <2>2, <2>4
<1>4. at = D
    BY <1>3
<1>. HIDE DEF at, D
<1>5. Bindings(p) = [k \in DOMAIN ref |-> p.array_list[k[2]]]
    BY <1>1, <1>2, <1>4
<1>6. ASSUME NEW k \in DOMAIN ref PROVE p.array_list[k[2]] = ref[k]
    <2>1. PICK i \in D : k = <<"positional", i>>
        BY <1>1
    <2>. QED
        BY <1>1, <2>1
<1>. QED
    BY <1>5, <1>6, Zenon DEF IsFcn

\* What the store holds is what was bound, if one style was used and no position left out.
LEMMA StoreIsSent ==
    ASSUME IInv
    PROVE  SentIsBound
<1>. SUFFICES ASSUME status = "executed", params.fits,
                     \A k \in DOMAIN bound : k[1] = params.style /\ k # <<"positional", 0>>,
                     \A k \in DOMAIN bound :
                        k[1] = "positional" => \A i \in 1 .. k[2] : <<"positional", i>> \in DOMAIN bound
              PROVE  sent = bound
    BY DEF SentIsBound
<1>1. sent = Bindings(params)
    BY DEF IInv
<1>2. CASE params = NoParams /\ bound = Empty
    <2>1. params.style # "positional" /\ params.names = {}
        BY <1>2, NoParamsIs
    <2>. QED
        BY <1>1, <1>2, <2>1 DEF Bindings, Empty
<1>3. CASE Store(params, bound)
    <2>1. OneStyle(params.style, bound) /\ IsFcn(bound)
        BY <1>3 DEF OneStyle, Store
    <2>2. CASE NamedStore(params, bound)
        <3>1. OneStyle("named", bound)
            BY <2>1, <2>2 DEF NamedStore
        <3>. QED
            BY <1>1, <2>1, <2>2, <3>1, NamesSent
    <2>3. CASE PositionalStore(params, bound)
        <3>1. OneStyle("positional", bound)
            BY <2>1, <2>3 DEF PositionalStore
        <3>. QED
            BY <1>1, <2>1, <2>3, <3>1, PositionsSent
    <2>. QED
        BY <1>3, <2>2, <2>3 DEF Store
<1>. QED
    BY <1>2, <1>3 DEF IInv

\* snowflake_bind_param and _snowflake_execute_ex: what is sent is exactly what was bound,
\* the last value for each name or position, for any inputs and sequence of calls that meet
\* the conditions of SentIsBound.
THEOREM Sent == Spec => []SentIsBound
BY Inductive, StoreIsSent, PTL

=============================================================================
