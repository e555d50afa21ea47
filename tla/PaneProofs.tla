----------------------------- MODULE PaneProofs -----------------------------
(***************************************************************************)
(* What is proved of PaneTree, for any number of panes and of operations:  *)
(* trees stay whole, and every operation leaves all panes but one as they  *)
(* were, in their order.                                                   *)
(*                                                                         *)
(* The recursive functions of PaneTree are shown to satisfy their          *)
(* equations by induction on the depth of trees, each operation is then    *)
(* followed through a tree by induction over trees (TreeInduction), and    *)
(* last come the actions.  SameBut relates a tree to what an operation on  *)
(* one pane makes of it.  That shares add up is left to the runs.          *)
(***************************************************************************)
EXTENDS PaneTree, FiniteSetTheorems, SequenceTheorems, WellFoundedInduction, TLAPS

\* A set of naturals that is not empty has a least element.
LEMMA LeastNatural ==
  ASSUME NEW S \in SUBSET Nat, S # {}
  PROVE  \E m \in S : \A n \in S : m <= n
<1>1. PICK m \in S : \A n \in S : ~(<<n, m>> \in OpToRel(<, Nat))
  BY NatLessThanWellFounded, WFMin
<1>2. \A n \in S : ~(n < m)
  BY <1>1 DEF OpToRel
<1> QED
  BY <1>2

\* ... and, if it is bounded, a greatest one.
LEMMA GreatestNatural ==
  ASSUME NEW b \in Nat, NEW S \in SUBSET (0..b), S # {}
  PROVE  \E m \in S : \A n \in S : n <= m
<1> DEFINE T == {b - n : n \in S}
<1>1. T \in SUBSET Nat /\ T # {}
  <2>1. \A n \in S : b - n \in Nat
    OBVIOUS
  <2> QED
    BY <2>1
<1>2. PICK x \in T : \A y \in T : x <= y
  BY <1>1, LeastNatural
<1>3. PICK m \in S : x = b - m
  BY <1>2
<1>4. ASSUME NEW n \in S PROVE n <= m
  <2>1. b - n \in T
    OBVIOUS
  <2>2. b - m <= b - n
    BY <1>2, <1>3, <2>1
  <2> QED
    BY <2>2
<1> QED
  BY <1>4

\* A set of naturals with 0 and the successor of each of its members has them all.
LEMMA Induction ==
  ASSUME NEW S \in SUBSET Nat, 0 \in S, \A n \in S : n + 1 \in S
  PROVE  S = Nat
<1> SUFFICES ASSUME Nat \ S # {} PROVE FALSE
  OBVIOUS
<1>1. PICK m \in Nat \ S : \A n \in Nat \ S : m <= n
  BY LeastNatural
<1>2. m - 1 \in Nat /\ m - 1 \notin Nat \ S
  BY <1>1
<1>3. (m - 1) + 1 \in S
  BY <1>2
<1> QED
  BY <1>1, <1>3

-----------------------------------------------------------------------------
(* Trees. *)

\* Sequences over a set are sequences over a larger one.
LEMMA SeqOfMore ==
  ASSUME NEW S, NEW T, S \subseteq T
  PROVE  Seq(S) \subseteq Seq(T)
OBVIOUS

\* The recursion that defines the trees by their depth has a solution.
LEMMA TreesExist ==
  ASSUME NEW n \in Nat
  PROVE  \E f : f = [d \in 0..n |-> IF d = 0 THEN Leaves ELSE Leaves \cup Splits(f[d - 1])]
<1> DEFINE body(d, f) == IF d = 0 THEN Leaves ELSE Leaves \cup Splits(f[d - 1])
           S == {k \in Nat : \E f : f = [d \in 0..k |-> body(d, f)]}
<1>1. 0 \in S
  <2> DEFINE f == [d \in 0..0 |-> Leaves]
  <2>1. f = [d \in 0..0 |-> body(d, f)]
    OBVIOUS
  <2> QED
    BY <2>1
<1>2. ASSUME NEW k \in S PROVE k + 1 \in S
  <2>1. PICK f : f = [d \in 0..k |-> body(d, f)]
    BY <1>2
  <2> DEFINE g == [d \in 0..(k + 1) |-> body(d, f)]
  <2>2. \A d \in 0..k : g[d] = f[d]
    <3> HIDE DEF body
    <3>1. \A d \in 0..k : d \in 0..(k + 1)
      OBVIOUS
    <3> QED
      BY <2>1, <3>1
  <2>3. \A d \in 0..(k + 1) : body(d, f) = body(d, g)
    <3>1. \A d \in 0..(k + 1) : d # 0 => d - 1 \in 0..k
      OBVIOUS
    <3> HIDE DEF g
    <3> QED
      BY <2>2, <3>1
  <2>4. g = [d \in 0..(k + 1) |-> body(d, g)]
    <3> HIDE DEF body
    <3> QED
      BY <2>3
  <2>5. \E h : h = [d \in 0..(k + 1) |-> body(d, h)]
    <3> HIDE DEF body, g
    <3> QED
      BY <2>4, Zenon
  <2> HIDE DEF body
  <2> QED
    BY <2>5
<1>3. S = Nat
  <2>1. S \in SUBSET Nat
    OBVIOUS
  <2> HIDE DEF S
  <2> QED
    BY <1>1, <1>2, <2>1, Induction
<1> QED
  BY <1>3

\* So TreesUpTo satisfies the equations it is defined by.
LEMMA TreesByDepth ==
  /\ TreesUpTo[0] = Leaves
  /\ \A d \in 1..MaxTreePanes : TreesUpTo[d] = Leaves \cup Splits(TreesUpTo[d - 1])
<1>1. MaxTreePanes \in Nat
  BY TreeBounds
<1>2. \E f : f = [d \in 0..MaxTreePanes |-> IF d = 0 THEN Leaves ELSE Leaves \cup Splits(f[d - 1])]
  BY <1>1, TreesExist
<1>3. TreesUpTo = [d \in 0..MaxTreePanes |-> IF d = 0 THEN Leaves ELSE Leaves \cup Splits(TreesUpTo[d - 1])]
  BY <1>2, Zenon DEF TreesUpTo
<1>4. \A d \in 0..MaxTreePanes : TreesUpTo[d] = IF d = 0 THEN Leaves ELSE Leaves \cup Splits(TreesUpTo[d - 1])
  BY <1>3, Zenon
<1>5. 0 \in 0..MaxTreePanes /\ \A d \in 1..MaxTreePanes : d \in 0..MaxTreePanes /\ d # 0
  BY <1>1
<1> QED
  BY <1>4, <1>5, Zenon

\* Splits over some subtrees are splits over more of them.
LEMMA SplitsOfMore ==
  ASSUME NEW S, NEW T, S \subseteq T
  PROVE  Splits(S) \subseteq Splits(T)
<1>1. Seq(S) \subseteq Seq(T)
  BY SeqOfMore
<1> QED
  BY <1>1 DEF Splits

\* A tree of at most d splits above each other is one of at most d + 1, and a tree.
LEMMA DeeperTrees ==
  /\ \A d \in 0..(MaxTreePanes - 1) : TreesUpTo[d] \subseteq TreesUpTo[d + 1]
  /\ \A d \in 0..MaxTreePanes : TreesUpTo[d] \subseteq Tree
<1>0. MaxTreePanes \in Nat
  BY TreeBounds
<1>1. \A d \in 0..(MaxTreePanes - 1) : TreesUpTo[d] \subseteq TreesUpTo[d + 1]
  <2> DEFINE S == {d \in Nat : d < MaxTreePanes => TreesUpTo[d] \subseteq TreesUpTo[d + 1]}
  <2>1. 0 \in S
    <3>1. 0 < MaxTreePanes => 1 \in 1..MaxTreePanes /\ 1 - 1 = 0
      BY <1>0
    <3> QED
      BY <3>1, TreesByDepth
  <2>2. ASSUME NEW d \in S PROVE d + 1 \in S
    <3> SUFFICES ASSUME d + 1 < MaxTreePanes PROVE TreesUpTo[d + 1] \subseteq TreesUpTo[(d + 1) + 1]
      OBVIOUS
    <3>1. /\ d + 1 \in 1..MaxTreePanes /\ (d + 1) + 1 \in 1..MaxTreePanes
          /\ (d + 1) - 1 = d /\ ((d + 1) + 1) - 1 = d + 1
      BY <1>0
    <3>2. TreesUpTo[d] \subseteq TreesUpTo[d + 1]
      BY <1>0
    <3>3. Splits(TreesUpTo[d]) \subseteq Splits(TreesUpTo[d + 1])
      BY <3>2, SplitsOfMore
    <3> QED
      BY <3>1, <3>3, TreesByDepth
  <2>3. S = Nat
    <3>1. S \in SUBSET Nat
      OBVIOUS
    <3> HIDE DEF S
    <3> QED
      BY <2>1, <2>2, <3>1, Induction
  <2>4. \A d \in 0..(MaxTreePanes - 1) : d \in S /\ d < MaxTreePanes
    <3> HIDE DEF S
    <3> QED
      BY <1>0, <2>3
  <2> QED
    BY <2>4
<1>2. \A d \in 0..MaxTreePanes : TreesUpTo[d] \subseteq Tree
  <2> DEFINE S == {e \in Nat : e <= MaxTreePanes => TreesUpTo[MaxTreePanes - e] \subseteq Tree}
  <2>1. 0 \in S
    BY <1>0 DEF Tree
  <2>2. ASSUME NEW e \in S PROVE e + 1 \in S
    <3> SUFFICES ASSUME e + 1 <= MaxTreePanes PROVE TreesUpTo[MaxTreePanes - (e + 1)] \subseteq Tree
      OBVIOUS
    <3>1. MaxTreePanes - (e + 1) \in 0..(MaxTreePanes - 1) /\ (MaxTreePanes - (e + 1)) + 1 = MaxTreePanes - e
      BY <1>0
    <3>2. TreesUpTo[MaxTreePanes - (e + 1)] \subseteq TreesUpTo[MaxTreePanes - e]
      BY <1>1, <3>1
    <3>3. TreesUpTo[MaxTreePanes - e] \subseteq Tree
      BY <1>0
    <3> QED
      BY <3>2, <3>3
  <2>3. S = Nat
    <3>1. S \in SUBSET Nat
      OBVIOUS
    <3> HIDE DEF S
    <3> QED
      BY <2>1, <2>2, <3>1, Induction
  <2>4. \A d \in 0..MaxTreePanes : MaxTreePanes - d \in Nat /\ MaxTreePanes - (MaxTreePanes - d) = d
                                   /\ MaxTreePanes - d <= MaxTreePanes
    BY <1>0
  <2> QED
    BY <2>3, <2>4
<1> QED
  BY <1>1, <1>2

\* A tree is a leaf, or a split of smaller trees.
LEMMA TreeCases ==
  ASSUME NEW t \in Tree
  PROVE  \/ t.type = "leaf" /\ t \in Leaves /\ t = Leaf(t.pane) /\ t.pane \in TreePanes
         \/ /\ t.type = "split" /\ t = Split(t.dir, t.children, t.sizes)
            /\ t.dir \in Directions /\ t.children \in Seq(Tree) /\ t.sizes \in Seq(Fractions)
<1>1. MaxTreePanes \in 1..MaxTreePanes /\ MaxTreePanes - 1 \in 0..MaxTreePanes
  BY TreeBounds
<1>2. Tree = Leaves \cup Splits(TreesUpTo[MaxTreePanes - 1])
  BY <1>1, TreesByDepth DEF Tree
<1>3. Seq(TreesUpTo[MaxTreePanes - 1]) \subseteq Seq(Tree)
  BY <1>1, DeeperTrees, SeqOfMore
<1>4. CASE t \in Leaves
  BY <1>4 DEF Leaves, Leaf
<1>5. CASE t \in Splits(TreesUpTo[MaxTreePanes - 1])
  BY <1>3, <1>5 DEF Splits, Split
<1> QED
  BY <1>2, <1>4, <1>5

\* The children of a tree of at most d + 1 splits above each other have at most d.
LEMMA SubtreesAbove ==
  ASSUME NEW d \in Nat, d + 1 <= MaxTreePanes, NEW t \in TreesUpTo[d + 1]
  PROVE  t \in Tree /\ (t.type = "split" => t \in Splits(TreesUpTo[d])
                                             /\ \A i \in DOMAIN t.children : t.children[i] \in TreesUpTo[d])
<1>1. d + 1 \in 1..MaxTreePanes /\ d + 1 \in 0..MaxTreePanes /\ (d + 1) - 1 = d
  BY TreeBounds
<1>2. t \in Tree /\ t \in Leaves \cup Splits(TreesUpTo[d])
  BY <1>1, DeeperTrees, TreesByDepth
<1>3. CASE t \in Leaves
  BY <1>2, <1>3 DEF Leaves
<1>4. CASE t \in Splits(TreesUpTo[d])
  BY <1>2, <1>4 DEF Splits
<1> QED
  BY <1>2, <1>3, <1>4

-----------------------------------------------------------------------------
(* The recursive functions of PaneTree satisfy their equations. *)

\* The recursion of leavesInOrder (layout-tree.ts) has a solution: the panes ...
LEMMA PanesExists ==
  ASSUME NEW n \in 0..MaxTreePanes
  PROVE  \E f : f = [t \in TreesUpTo[n] |->
                 IF t.type = "leaf" THEN {t.pane} ELSE UNION {f[t.children[i]] : i \in DOMAIN t.children}]
<1> DEFINE body(t, f) ==
             IF t.type = "leaf" THEN {t.pane} ELSE UNION {f[t.children[i]] : i \in DOMAIN t.children}
           S == {k \in Nat : k <= MaxTreePanes => \E f : f = [t \in TreesUpTo[k] |-> body(t, f)]}
<1>1. ASSUME NEW t \in Tree, NEW f, NEW g,
             t.type = "split" => \A i \in DOMAIN t.children : f[t.children[i]] = g[t.children[i]]
      PROVE  body(t, f) = body(t, g)
  <2>1. CASE t.type = "leaf"
    BY <2>1
  <2>2. CASE t.type = "split"
    BY <1>1, <2>2
  <2> QED
    BY <2>1, <2>2, TreeCases
<1> HIDE DEF body
<1>2. 0 \in S
  <2> DEFINE f == [t \in TreesUpTo[0] |-> body(t, Leaves)]
  <2>1. \A t \in TreesUpTo[0] : t \in Tree /\ t.type # "split"
    BY TreesByDepth, DeeperTrees, TreeBounds DEF Leaves
  <2>2. f = [t \in TreesUpTo[0] |-> body(t, f)]
    <3>1. ASSUME NEW h PROVE \A t \in TreesUpTo[0] : body(t, Leaves) = body(t, h)
      BY <1>1, <2>1
    <3> QED
      BY <3>1
  <2>3. \E h : h = [t \in TreesUpTo[0] |-> body(t, h)]
    <3> HIDE DEF f
    <3> QED
      BY <2>2, Zenon
  <2> QED
    BY <2>3
<1>3. ASSUME NEW k \in S, k + 1 <= MaxTreePanes PROVE k + 1 \in S
  <2>1. k \in Nat /\ k <= MaxTreePanes
    BY <1>3, TreeBounds
  <2>2. PICK f : f = [t \in TreesUpTo[k] |-> body(t, f)]
    BY <2>1
  <2> DEFINE g == [t \in TreesUpTo[k + 1] |-> body(t, f)]
  <2>3. \A t \in TreesUpTo[k] : g[t] = f[t]
    BY <2>1, <2>2, <1>3, DeeperTrees, TreeBounds
  <2>4. \A t \in TreesUpTo[k + 1] : body(t, f) = body(t, g)
    <3> HIDE DEF g
    <3> QED
      BY <1>1, <1>3, <2>1, <2>3, SubtreesAbove
  <2>5. g = [t \in TreesUpTo[k + 1] |-> body(t, g)]
    BY <2>4
  <2>6. \E h : h = [t \in TreesUpTo[k + 1] |-> body(t, h)]
    <3> HIDE DEF g
    <3> QED
      BY <2>5, Zenon
  <2> QED
    BY <2>1, <2>6
<1>4. S = Nat
  <2>1. S \in SUBSET Nat /\ \A k \in S : k + 1 > MaxTreePanes => k + 1 \in S
    BY TreeBounds
  <2> HIDE DEF S
  <2>2. \A k \in S : k + 1 \in S
    BY <1>3, <2>1, TreeBounds
  <2> QED
    BY <1>2, <2>1, <2>2, Induction
<1>5. n \in S /\ n <= MaxTreePanes
  <2> HIDE DEF S
  <2> QED
    BY <1>4, TreeBounds
<1> QED
  BY <1>5 DEF body

\* ... so PanesIn satisfies the equation it is defined by;
LEMMA PanesOfTree ==
  ASSUME NEW u \in Tree
  PROVE  PanesIn[u] =
           IF u.type = "leaf" THEN {u.pane} ELSE UNION {PanesIn[u.children[i]] : i \in DOMAIN u.children}
<1>1. MaxTreePanes \in 0..MaxTreePanes
  BY TreeBounds
<1>2. \E f : f = [t \in Tree |->
                 IF t.type = "leaf" THEN {t.pane} ELSE UNION {f[t.children[i]] : i \in DOMAIN t.children}]
  BY <1>1, PanesExists DEF Tree
<1>3. PanesIn = [t \in Tree |->
                 IF t.type = "leaf" THEN {t.pane} ELSE UNION {PanesIn[t.children[i]] : i \in DOMAIN t.children}]
  BY <1>2, Zenon DEF PanesIn
<1> QED
  BY <1>3, Zenon

\* ... and their order ...
LEMMA OrderExists ==
  ASSUME NEW n \in 0..MaxTreePanes
  PROVE  \E f : f = [t \in TreesUpTo[n] |->
                 IF t.type = "leaf" THEN {}
                 ELSE (UNION {f[t.children[i]] : i \in DOMAIN t.children})
                        \cup {q \in PanesIn[t] \X PanesIn[t] :
                                \E i, j \in DOMAIN t.children :
                                  i < j /\ q[1] \in PanesIn[t.children[i]] /\ q[2] \in PanesIn[t.children[j]]}]
<1> DEFINE body(t, f) ==
             IF t.type = "leaf" THEN {}
             ELSE (UNION {f[t.children[i]] : i \in DOMAIN t.children})
                    \cup {q \in PanesIn[t] \X PanesIn[t] :
                            \E i, j \in DOMAIN t.children :
                              i < j /\ q[1] \in PanesIn[t.children[i]] /\ q[2] \in PanesIn[t.children[j]]}
           S == {k \in Nat : k <= MaxTreePanes => \E f : f = [t \in TreesUpTo[k] |-> body(t, f)]}
<1>1. ASSUME NEW t \in Tree, NEW f, NEW g,
             t.type = "split" => \A i \in DOMAIN t.children : f[t.children[i]] = g[t.children[i]]
      PROVE  body(t, f) = body(t, g)
  <2>1. CASE t.type = "split"
    <3>1. UNION {f[t.children[i]] : i \in DOMAIN t.children} = UNION {g[t.children[i]] : i \in DOMAIN t.children}
      BY <1>1, <2>1
    <3> QED
      BY <2>1, <3>1
  <2>2. CASE t.type = "leaf"
    BY <2>2
  <2> QED
    BY <2>1, <2>2, TreeCases
<1> HIDE DEF body
<1>2. 0 \in S
  <2> DEFINE f == [t \in TreesUpTo[0] |-> body(t, Leaves)]
  <2>1. \A t \in TreesUpTo[0] : t \in Tree /\ t.type # "split"
    BY TreesByDepth, DeeperTrees, TreeBounds DEF Leaves
  <2>2. f = [t \in TreesUpTo[0] |-> body(t, f)]
    <3>1. ASSUME NEW h PROVE \A t \in TreesUpTo[0] : body(t, Leaves) = body(t, h)
      BY <1>1, <2>1
    <3> QED
      BY <3>1
  <2>3. \E h : h = [t \in TreesUpTo[0] |-> body(t, h)]
    <3> HIDE DEF f
    <3> QED
      BY <2>2, Zenon
  <2> QED
    BY <2>3
<1>3. ASSUME NEW k \in S, k + 1 <= MaxTreePanes PROVE k + 1 \in S
  <2>1. k \in Nat /\ k <= MaxTreePanes
    BY <1>3, TreeBounds
  <2>2. PICK f : f = [t \in TreesUpTo[k] |-> body(t, f)]
    BY <2>1
  <2> DEFINE g == [t \in TreesUpTo[k + 1] |-> body(t, f)]
  <2>3. \A t \in TreesUpTo[k] : g[t] = f[t]
    BY <2>1, <2>2, <1>3, DeeperTrees, TreeBounds
  <2>4. \A t \in TreesUpTo[k + 1] : body(t, f) = body(t, g)
    <3> HIDE DEF g
    <3> QED
      BY <1>1, <1>3, <2>1, <2>3, SubtreesAbove
  <2>5. g = [t \in TreesUpTo[k + 1] |-> body(t, g)]
    BY <2>4
  <2>6. \E h : h = [t \in TreesUpTo[k + 1] |-> body(t, h)]
    <3> HIDE DEF g
    <3> QED
      BY <2>5, Zenon
  <2> QED
    BY <2>1, <2>6
<1>4. S = Nat
  <2>1. S \in SUBSET Nat /\ \A k \in S : k + 1 > MaxTreePanes => k + 1 \in S
    BY TreeBounds
  <2> HIDE DEF S
  <2>2. \A k \in S : k + 1 \in S
    BY <1>3, <2>1, TreeBounds
  <2> QED
    BY <1>2, <2>1, <2>2, Induction
<1>5. n \in S /\ n <= MaxTreePanes
  <2> HIDE DEF S
  <2> QED
    BY <1>4, TreeBounds
<1> QED
  BY <1>5 DEF body

\* ... so InOrder satisfies its equation.
LEMMA OrderOfTree ==
  ASSUME NEW u \in Tree
  PROVE  InOrder[u] =
           IF u.type = "leaf" THEN {}
           ELSE (UNION {InOrder[u.children[i]] : i \in DOMAIN u.children})
                  \cup {q \in PanesIn[u] \X PanesIn[u] :
                          \E i, j \in DOMAIN u.children :
                            i < j /\ q[1] \in PanesIn[u.children[i]] /\ q[2] \in PanesIn[u.children[j]]}
<1>1. MaxTreePanes \in 0..MaxTreePanes
  BY TreeBounds
<1>2. \E f : f = [t \in Tree |->
                 IF t.type = "leaf" THEN {}
                 ELSE (UNION {f[t.children[i]] : i \in DOMAIN t.children})
                        \cup {q \in PanesIn[t] \X PanesIn[t] :
                                \E i, j \in DOMAIN t.children :
                                  i < j /\ q[1] \in PanesIn[t.children[i]] /\ q[2] \in PanesIn[t.children[j]]}]
  BY <1>1, OrderExists DEF Tree
<1>3. InOrder = [t \in Tree |->
                 IF t.type = "leaf" THEN {}
                 ELSE (UNION {InOrder[t.children[i]] : i \in DOMAIN t.children})
                        \cup {q \in PanesIn[t] \X PanesIn[t] :
                                \E i, j \in DOMAIN t.children :
                                  i < j /\ q[1] \in PanesIn[t.children[i]] /\ q[2] \in PanesIn[t.children[j]]}]
  BY <1>2, Zenon DEF InOrder
<1> QED
  BY <1>3, Zenon

\* The recursion of IsWhole has a solution ...
LEMMA WholeExists ==
  ASSUME NEW n \in 0..MaxTreePanes
  PROVE  \E f : f = [t \in TreesUpTo[n] |->
                 (t.type = "split" =>
                   /\ Len(t.children) >= 2 /\ Len(t.sizes) = Len(t.children)
                   /\ \A i \in DOMAIN t.children : f[t.children[i]]
                   /\ \A i, j \in DOMAIN t.children : i # j => PanesIn[t.children[i]] \cap PanesIn[t.children[j]] = {})]
<1> DEFINE body(t, f) ==
             (t.type = "split" =>
               /\ Len(t.children) >= 2 /\ Len(t.sizes) = Len(t.children)
               /\ \A i \in DOMAIN t.children : f[t.children[i]]
               /\ \A i, j \in DOMAIN t.children : i # j => PanesIn[t.children[i]] \cap PanesIn[t.children[j]] = {})
           S == {k \in Nat : k <= MaxTreePanes => \E f : f = [t \in TreesUpTo[k] |-> body(t, f)]}
<1>1. ASSUME NEW t \in Tree, NEW f, NEW g,
             t.type = "split" => \A i \in DOMAIN t.children : f[t.children[i]] = g[t.children[i]]
      PROVE  body(t, f) = body(t, g)
  BY <1>1, TreeCases
<1> HIDE DEF body
<1>2. 0 \in S
  <2> DEFINE f == [t \in TreesUpTo[0] |-> body(t, Leaves)]
  <2>1. \A t \in TreesUpTo[0] : t \in Tree /\ t.type # "split"
    BY TreesByDepth, DeeperTrees, TreeBounds DEF Leaves
  <2>2. f = [t \in TreesUpTo[0] |-> body(t, f)]
    <3>1. ASSUME NEW h PROVE \A t \in TreesUpTo[0] : body(t, Leaves) = body(t, h)
      BY <1>1, <2>1
    <3> QED
      BY <3>1
  <2>3. \E h : h = [t \in TreesUpTo[0] |-> body(t, h)]
    <3> HIDE DEF f
    <3> QED
      BY <2>2, Zenon
  <2> QED
    BY <2>3
<1>3. ASSUME NEW k \in S, k + 1 <= MaxTreePanes PROVE k + 1 \in S
  <2>1. k \in Nat /\ k <= MaxTreePanes
    BY <1>3, TreeBounds
  <2>2. PICK f : f = [t \in TreesUpTo[k] |-> body(t, f)]
    BY <2>1
  <2> DEFINE g == [t \in TreesUpTo[k + 1] |-> body(t, f)]
  <2>3. \A t \in TreesUpTo[k] : g[t] = f[t]
    BY <2>1, <2>2, <1>3, DeeperTrees, TreeBounds
  <2>4. \A t \in TreesUpTo[k + 1] : body(t, f) = body(t, g)
    <3> HIDE DEF g
    <3> QED
      BY <1>1, <1>3, <2>1, <2>3, SubtreesAbove
  <2>5. g = [t \in TreesUpTo[k + 1] |-> body(t, g)]
    BY <2>4
  <2>6. \E h : h = [t \in TreesUpTo[k + 1] |-> body(t, h)]
    <3> HIDE DEF g
    <3> QED
      BY <2>5, Zenon
  <2> QED
    BY <2>1, <2>6
<1>4. S = Nat
  <2>1. S \in SUBSET Nat /\ \A k \in S : k + 1 > MaxTreePanes => k + 1 \in S
    BY TreeBounds
  <2> HIDE DEF S
  <2>2. \A k \in S : k + 1 \in S
    BY <1>3, <2>1, TreeBounds
  <2> QED
    BY <1>2, <2>1, <2>2, Induction
<1>5. n \in S /\ n <= MaxTreePanes
  <2> HIDE DEF S
  <2> QED
    BY <1>4, TreeBounds
<1> QED
  BY <1>5 DEF body

\* ... so IsWhole satisfies its equation.
LEMMA WholeOfTree ==
  ASSUME NEW u \in Tree
  PROVE  IsWhole[u] =
           (u.type = "split" =>
             /\ Len(u.children) >= 2 /\ Len(u.sizes) = Len(u.children)
             /\ \A i \in DOMAIN u.children : IsWhole[u.children[i]]
             /\ \A i, j \in DOMAIN u.children : i # j => PanesIn[u.children[i]] \cap PanesIn[u.children[j]] = {})
<1>1. MaxTreePanes \in 0..MaxTreePanes
  BY TreeBounds
<1>2. \E f : f = [t \in Tree |->
                 (t.type = "split" =>
                   /\ Len(t.children) >= 2 /\ Len(t.sizes) = Len(t.children)
                   /\ \A i \in DOMAIN t.children : f[t.children[i]]
                   /\ \A i, j \in DOMAIN t.children : i # j => PanesIn[t.children[i]] \cap PanesIn[t.children[j]] = {})]
  BY <1>1, WholeExists DEF Tree
<1>3. IsWhole = [t \in Tree |->
                 (t.type = "split" =>
                   /\ Len(t.children) >= 2 /\ Len(t.sizes) = Len(t.children)
                   /\ \A i \in DOMAIN t.children : IsWhole[t.children[i]]
                   /\ \A i, j \in DOMAIN t.children : i # j => PanesIn[t.children[i]] \cap PanesIn[t.children[j]] = {})]
  BY <1>2, Zenon DEF IsWhole
<1> QED
  BY <1>3, Zenon

\* The recursion of AddsUp has a solution ...
LEMMA AddsExists ==
  ASSUME NEW n \in 0..MaxTreePanes
  PROVE  \E f : f = [t \in TreesUpTo[n] |->
                 (t.type = "split" =>
                   /\ Total(t.sizes) = Whole
                   /\ \A i \in DOMAIN t.children : f[t.children[i]])]
<1> DEFINE body(t, f) ==
             (t.type = "split" =>
               /\ Total(t.sizes) = Whole
               /\ \A i \in DOMAIN t.children : f[t.children[i]])
           S == {k \in Nat : k <= MaxTreePanes => \E f : f = [t \in TreesUpTo[k] |-> body(t, f)]}
<1>1. ASSUME NEW t \in Tree, NEW f, NEW g,
             t.type = "split" => \A i \in DOMAIN t.children : f[t.children[i]] = g[t.children[i]]
      PROVE  body(t, f) = body(t, g)
  BY <1>1, TreeCases
<1> HIDE DEF body
<1>2. 0 \in S
  <2> DEFINE f == [t \in TreesUpTo[0] |-> body(t, Leaves)]
  <2>1. \A t \in TreesUpTo[0] : t \in Tree /\ t.type # "split"
    BY TreesByDepth, DeeperTrees, TreeBounds DEF Leaves
  <2>2. f = [t \in TreesUpTo[0] |-> body(t, f)]
    <3>1. ASSUME NEW h PROVE \A t \in TreesUpTo[0] : body(t, Leaves) = body(t, h)
      BY <1>1, <2>1
    <3> QED
      BY <3>1
  <2>3. \E h : h = [t \in TreesUpTo[0] |-> body(t, h)]
    <3> HIDE DEF f
    <3> QED
      BY <2>2, Zenon
  <2> QED
    BY <2>3
<1>3. ASSUME NEW k \in S, k + 1 <= MaxTreePanes PROVE k + 1 \in S
  <2>1. k \in Nat /\ k <= MaxTreePanes
    BY <1>3, TreeBounds
  <2>2. PICK f : f = [t \in TreesUpTo[k] |-> body(t, f)]
    BY <2>1
  <2> DEFINE g == [t \in TreesUpTo[k + 1] |-> body(t, f)]
  <2>3. \A t \in TreesUpTo[k] : g[t] = f[t]
    BY <2>1, <2>2, <1>3, DeeperTrees, TreeBounds
  <2>4. \A t \in TreesUpTo[k + 1] : body(t, f) = body(t, g)
    <3> HIDE DEF g
    <3> QED
      BY <1>1, <1>3, <2>1, <2>3, SubtreesAbove
  <2>5. g = [t \in TreesUpTo[k + 1] |-> body(t, g)]
    BY <2>4
  <2>6. \E h : h = [t \in TreesUpTo[k + 1] |-> body(t, h)]
    <3> HIDE DEF g
    <3> QED
      BY <2>5, Zenon
  <2> QED
    BY <2>1, <2>6
<1>4. S = Nat
  <2>1. S \in SUBSET Nat /\ \A k \in S : k + 1 > MaxTreePanes => k + 1 \in S
    BY TreeBounds
  <2> HIDE DEF S
  <2>2. \A k \in S : k + 1 \in S
    BY <1>3, <2>1, TreeBounds
  <2> QED
    BY <1>2, <2>1, <2>2, Induction
<1>5. n \in S /\ n <= MaxTreePanes
  <2> HIDE DEF S
  <2> QED
    BY <1>4, TreeBounds
<1> QED
  BY <1>5 DEF body

\* ... so AddsUp satisfies its equation.
LEMMA AddsOfTree ==
  ASSUME NEW u \in Tree
  PROVE  AddsUp[u] =
           (u.type = "split" =>
             /\ Total(u.sizes) = Whole
             /\ \A i \in DOMAIN u.children : AddsUp[u.children[i]])
<1>1. MaxTreePanes \in 0..MaxTreePanes
  BY TreeBounds
<1>2. \E f : f = [t \in Tree |->
                 (t.type = "split" =>
                   /\ Total(t.sizes) = Whole
                   /\ \A i \in DOMAIN t.children : f[t.children[i]])]
  BY <1>1, AddsExists DEF Tree
<1>3. AddsUp = [t \in Tree |->
                 (t.type = "split" =>
                   /\ Total(t.sizes) = Whole
                   /\ \A i \in DOMAIN t.children : AddsUp[t.children[i]])]
  BY <1>2, Zenon DEF AddsUp
<1> QED
  BY <1>3, Zenon

\* f is the recursion of closePane, on trees of at most n splits above each other.
ClosingTo(f, n, p) ==
  f = [t \in TreesUpTo[n] |->
         IF t.type = "leaf" THEN IF t.pane = p THEN NoTree ELSE t
         ELSE Survivors(t, [i \in DOMAIN t.children |-> f[t.children[i]]])]

\* It has a solution ...
LEMMA ClosingExists ==
  ASSUME NEW p, NEW n \in 0..MaxTreePanes
  PROVE  \E f : ClosingTo(f, n, p)
<1> DEFINE body(t, f) ==
             IF t.type = "leaf" THEN IF t.pane = p THEN NoTree ELSE t
             ELSE Survivors(t, [i \in DOMAIN t.children |-> f[t.children[i]]])
           S == {k \in Nat : k <= MaxTreePanes => \E f : f = [t \in TreesUpTo[k] |-> body(t, f)]}
<1>1. ASSUME NEW t \in Tree, NEW f, NEW g,
             t.type = "split" => \A i \in DOMAIN t.children : f[t.children[i]] = g[t.children[i]]
      PROVE  body(t, f) = body(t, g)
  <2>1. CASE t.type = "split"
    <3>1. [i \in DOMAIN t.children |-> f[t.children[i]]] = [i \in DOMAIN t.children |-> g[t.children[i]]]
      BY <1>1, <2>1
    <3> QED
      BY <2>1, <3>1
  <2>2. CASE t.type = "leaf"
    BY <2>2
  <2> QED
    BY <2>1, <2>2, TreeCases
<1> HIDE DEF body
<1>2. 0 \in S
  <2> DEFINE f == [t \in TreesUpTo[0] |-> body(t, Leaves)]
  <2>1. \A t \in TreesUpTo[0] : t \in Tree /\ t.type # "split"
    BY TreesByDepth, DeeperTrees, TreeBounds DEF Leaves
  <2>2. f = [t \in TreesUpTo[0] |-> body(t, f)]
    <3>1. ASSUME NEW h PROVE \A t \in TreesUpTo[0] : body(t, Leaves) = body(t, h)
      BY <1>1, <2>1
    <3> QED
      BY <3>1
  <2>3. \E h : h = [t \in TreesUpTo[0] |-> body(t, h)]
    <3> HIDE DEF f
    <3> QED
      BY <2>2, Zenon
  <2> QED
    BY <2>3
<1>3. ASSUME NEW k \in S, k + 1 <= MaxTreePanes PROVE k + 1 \in S
  <2>1. k \in Nat /\ k <= MaxTreePanes
    BY <1>3, TreeBounds
  <2>2. PICK f : f = [t \in TreesUpTo[k] |-> body(t, f)]
    BY <2>1
  <2> DEFINE g == [t \in TreesUpTo[k + 1] |-> body(t, f)]
  <2>3. \A t \in TreesUpTo[k] : g[t] = f[t]
    BY <2>1, <2>2, <1>3, DeeperTrees, TreeBounds
  <2>4. \A t \in TreesUpTo[k + 1] : body(t, f) = body(t, g)
    <3> HIDE DEF g
    <3> QED
      BY <1>1, <1>3, <2>1, <2>3, SubtreesAbove
  <2>5. g = [t \in TreesUpTo[k + 1] |-> body(t, g)]
    BY <2>4
  <2>6. \E h : h = [t \in TreesUpTo[k + 1] |-> body(t, h)]
    <3> HIDE DEF g
    <3> QED
      BY <2>5, Zenon
  <2> QED
    BY <2>1, <2>6
<1>4. S = Nat
  <2>1. S \in SUBSET Nat /\ \A k \in S : k + 1 > MaxTreePanes => k + 1 \in S
    BY TreeBounds
  <2> HIDE DEF S
  <2>2. \A k \in S : k + 1 \in S
    BY <1>3, <2>1, TreeBounds
  <2> QED
    BY <1>2, <2>1, <2>2, Induction
<1>5. n \in S /\ n <= MaxTreePanes
  <2> HIDE DEF S
  <2> QED
    BY <1>4, TreeBounds
<1> QED
  BY <1>5 DEF body, ClosingTo

\* ... so closePane of a split is that of each child, put together.
LEMMA ClosedOfTree ==
  ASSUME NEW p, NEW u \in Tree
  PROVE  Closed(u, p) =
           IF u.type = "leaf" THEN IF u.pane = p THEN NoTree ELSE u
           ELSE Survivors(u, [i \in DOMAIN u.children |-> Closed(u.children[i], p)])
<1> DEFINE closed[t \in Tree] ==
             IF t.type = "leaf" THEN IF t.pane = p THEN NoTree ELSE t
             ELSE Survivors(t, [i \in DOMAIN t.children |-> closed[t.children[i]]])
<1>1. MaxTreePanes \in 0..MaxTreePanes
  BY TreeBounds
<1>2. \E f : ClosingTo(f, MaxTreePanes, p)
  BY <1>1, ClosingExists
<1>3. closed = [t \in Tree |->
                 IF t.type = "leaf" THEN IF t.pane = p THEN NoTree ELSE t
                 ELSE Survivors(t, [i \in DOMAIN t.children |-> closed[t.children[i]]])]
  BY <1>2, Zenon DEF ClosingTo, Tree
<1>4. \A t : Closed(t, p) = closed[t]
  BY DEF Closed
<1> HIDE DEF closed
<1>5. closed[u] =
           IF u.type = "leaf" THEN IF u.pane = p THEN NoTree ELSE u
           ELSE Survivors(u, [i \in DOMAIN u.children |-> closed[u.children[i]]])
  BY <1>3, Zenon
<1>6. [i \in DOMAIN u.children |-> Closed(u.children[i], p)] = [i \in DOMAIN u.children |-> closed[u.children[i]]]
  BY <1>4
<1> QED
  BY <1>4, <1>5, <1>6, Zenon

\* f is the recursion of splitPane, pinNote and insertBeside.
PlacingTo(f, n, target, new, dir, before, even) ==
  f = [t \in TreesUpTo[n] |->
         IF t.type = "leaf"
         THEN IF t.pane = target THEN Split(dir, Pair(t, new, before), EqualSizes(2)) ELSE t
         ELSE LET i == ChildAt(t, target) IN
              IF i # 0 /\ t.dir = dir THEN Beside(t, i, new, before, even)
              ELSE Split(t.dir, [j \in DOMAIN t.children |-> f[t.children[j]]], t.sizes)]

\* It has a solution ...
LEMMA PlacingExists ==
  ASSUME NEW target, NEW new, NEW dir, NEW before, NEW even, NEW n \in 0..MaxTreePanes
  PROVE  \E f : PlacingTo(f, n, target, new, dir, before, even)
<1> DEFINE body(t, f) ==
             IF t.type = "leaf"
             THEN IF t.pane = target THEN Split(dir, Pair(t, new, before), EqualSizes(2)) ELSE t
             ELSE LET i == ChildAt(t, target) IN
                  IF i # 0 /\ t.dir = dir THEN Beside(t, i, new, before, even)
                  ELSE Split(t.dir, [j \in DOMAIN t.children |-> f[t.children[j]]], t.sizes)
           S == {k \in Nat : k <= MaxTreePanes => \E f : f = [t \in TreesUpTo[k] |-> body(t, f)]}
<1>1. ASSUME NEW t \in Tree, NEW f, NEW g,
             t.type = "split" => \A i \in DOMAIN t.children : f[t.children[i]] = g[t.children[i]]
      PROVE  body(t, f) = body(t, g)
  <2>1. CASE t.type = "split"
    <3>1. [j \in DOMAIN t.children |-> f[t.children[j]]] = [j \in DOMAIN t.children |-> g[t.children[j]]]
      BY <1>1, <2>1
    <3> QED
      BY <2>1, <3>1
  <2>2. CASE t.type = "leaf"
    BY <2>2
  <2> QED
    BY <2>1, <2>2, TreeCases
<1> HIDE DEF body
<1>2. 0 \in S
  <2> DEFINE f == [t \in TreesUpTo[0] |-> body(t, Leaves)]
  <2>1. \A t \in TreesUpTo[0] : t \in Tree /\ t.type # "split"
    BY TreesByDepth, DeeperTrees, TreeBounds DEF Leaves
  <2>2. f = [t \in TreesUpTo[0] |-> body(t, f)]
    <3>1. ASSUME NEW h PROVE \A t \in TreesUpTo[0] : body(t, Leaves) = body(t, h)
      BY <1>1, <2>1
    <3> QED
      BY <3>1
  <2>3. \E h : h = [t \in TreesUpTo[0] |-> body(t, h)]
    <3> HIDE DEF f
    <3> QED
      BY <2>2, Zenon
  <2> QED
    BY <2>3
<1>3. ASSUME NEW k \in S, k + 1 <= MaxTreePanes PROVE k + 1 \in S
  <2>1. k \in Nat /\ k <= MaxTreePanes
    BY <1>3, TreeBounds
  <2>2. PICK f : f = [t \in TreesUpTo[k] |-> body(t, f)]
    BY <2>1
  <2> DEFINE g == [t \in TreesUpTo[k + 1] |-> body(t, f)]
  <2>3. \A t \in TreesUpTo[k] : g[t] = f[t]
    BY <2>1, <2>2, <1>3, DeeperTrees, TreeBounds
  <2>4. \A t \in TreesUpTo[k + 1] : body(t, f) = body(t, g)
    <3> HIDE DEF g
    <3> QED
      BY <1>1, <1>3, <2>1, <2>3, SubtreesAbove
  <2>5. g = [t \in TreesUpTo[k + 1] |-> body(t, g)]
    BY <2>4
  <2>6. \E h : h = [t \in TreesUpTo[k + 1] |-> body(t, h)]
    <3> HIDE DEF g
    <3> QED
      BY <2>5, Zenon
  <2> QED
    BY <2>1, <2>6
<1>4. S = Nat
  <2>1. S \in SUBSET Nat /\ \A k \in S : k + 1 > MaxTreePanes => k + 1 \in S
    BY TreeBounds
  <2> HIDE DEF S
  <2>2. \A k \in S : k + 1 \in S
    BY <1>3, <2>1, TreeBounds
  <2> QED
    BY <1>2, <2>1, <2>2, Induction
<1>5. n \in S /\ n <= MaxTreePanes
  <2> HIDE DEF S
  <2> QED
    BY <1>4, TreeBounds
<1> QED
  BY <1>5 DEF body, PlacingTo

\* ... so a leaf is placed in a split beside its target, or in the children.
LEMMA PlacedOfTree ==
  ASSUME NEW target, NEW new, NEW dir, NEW before, NEW even, NEW u \in Tree
  PROVE  Placed(u, target, new, dir, before, even) =
           IF u.type = "leaf"
           THEN IF u.pane = target THEN Split(dir, Pair(u, new, before), EqualSizes(2)) ELSE u
           ELSE LET i == ChildAt(u, target) IN
                IF i # 0 /\ u.dir = dir THEN Beside(u, i, new, before, even)
                ELSE Split(u.dir, [j \in DOMAIN u.children |-> Placed(u.children[j], target, new, dir, before, even)], u.sizes)
<1> DEFINE placed[t \in Tree] ==
             IF t.type = "leaf"
             THEN IF t.pane = target THEN Split(dir, Pair(t, new, before), EqualSizes(2)) ELSE t
             ELSE LET i == ChildAt(t, target) IN
                  IF i # 0 /\ t.dir = dir THEN Beside(t, i, new, before, even)
                  ELSE Split(t.dir, [j \in DOMAIN t.children |-> placed[t.children[j]]], t.sizes)
<1>1. MaxTreePanes \in 0..MaxTreePanes
  BY TreeBounds
<1>2. \E f : PlacingTo(f, MaxTreePanes, target, new, dir, before, even)
  BY <1>1, PlacingExists
<1>3. placed = [t \in Tree |->
                 IF t.type = "leaf"
                 THEN IF t.pane = target THEN Split(dir, Pair(t, new, before), EqualSizes(2)) ELSE t
                 ELSE LET i == ChildAt(t, target) IN
                      IF i # 0 /\ t.dir = dir THEN Beside(t, i, new, before, even)
                      ELSE Split(t.dir, [j \in DOMAIN t.children |-> placed[t.children[j]]], t.sizes)]
  BY <1>2, Zenon DEF PlacingTo, Tree
<1>4. \A t : Placed(t, target, new, dir, before, even) = placed[t]
  BY DEF Placed
<1> HIDE DEF placed
<1>5. placed[u] =
           IF u.type = "leaf"
           THEN IF u.pane = target THEN Split(dir, Pair(u, new, before), EqualSizes(2)) ELSE u
           ELSE LET i == ChildAt(u, target) IN
                IF i # 0 /\ u.dir = dir THEN Beside(u, i, new, before, even)
                ELSE Split(u.dir, [j \in DOMAIN u.children |-> placed[u.children[j]]], u.sizes)
  BY <1>3, Zenon
<1>6. [j \in DOMAIN u.children |-> Placed(u.children[j], target, new, dir, before, even)] = [j \in DOMAIN u.children |-> placed[u.children[j]]]
  BY <1>4
<1> QED
  BY <1>4, <1>5, <1>6, Zenon

\* f is the recursion of the divider's move.
ResizingTo(f, n, p) ==
  f = [t \in TreesUpTo[n] |->
         IF t.type = "leaf" THEN t
         ELSE LET i == ChildAt(t, p) IN
              IF i \in 1..(Len(t.children) - 1)
              THEN LET span == Plus(t.sizes[i], t.sizes[i + 1]) IN
                   Split(t.dir, t.children,
                         [t.sizes EXCEPT ![i] = Times(span, 1, 4), ![i + 1] = Times(span, 3, 4)])
              ELSE Split(t.dir, [j \in DOMAIN t.children |-> f[t.children[j]]], t.sizes)]

\* It has a solution ...
LEMMA ResizingExists ==
  ASSUME NEW p, NEW n \in 0..MaxTreePanes
  PROVE  \E f : ResizingTo(f, n, p)
<1> DEFINE body(t, f) ==
             IF t.type = "leaf" THEN t
             ELSE LET i == ChildAt(t, p) IN
                  IF i \in 1..(Len(t.children) - 1)
                  THEN LET span == Plus(t.sizes[i], t.sizes[i + 1]) IN
                       Split(t.dir, t.children,
                             [t.sizes EXCEPT ![i] = Times(span, 1, 4), ![i + 1] = Times(span, 3, 4)])
                  ELSE Split(t.dir, [j \in DOMAIN t.children |-> f[t.children[j]]], t.sizes)
           S == {k \in Nat : k <= MaxTreePanes => \E f : f = [t \in TreesUpTo[k] |-> body(t, f)]}
<1>1. ASSUME NEW t \in Tree, NEW f, NEW g,
             t.type = "split" => \A i \in DOMAIN t.children : f[t.children[i]] = g[t.children[i]]
      PROVE  body(t, f) = body(t, g)
  <2>1. CASE t.type = "split"
    <3>1. [j \in DOMAIN t.children |-> f[t.children[j]]] = [j \in DOMAIN t.children |-> g[t.children[j]]]
      BY <1>1, <2>1
    <3> QED
      BY <2>1, <3>1
  <2>2. CASE t.type = "leaf"
    BY <2>2
  <2> QED
    BY <2>1, <2>2, TreeCases
<1> HIDE DEF body
<1>2. 0 \in S
  <2> DEFINE f == [t \in TreesUpTo[0] |-> body(t, Leaves)]
  <2>1. \A t \in TreesUpTo[0] : t \in Tree /\ t.type # "split"
    BY TreesByDepth, DeeperTrees, TreeBounds DEF Leaves
  <2>2. f = [t \in TreesUpTo[0] |-> body(t, f)]
    <3>1. ASSUME NEW h PROVE \A t \in TreesUpTo[0] : body(t, Leaves) = body(t, h)
      BY <1>1, <2>1
    <3> QED
      BY <3>1
  <2>3. \E h : h = [t \in TreesUpTo[0] |-> body(t, h)]
    <3> HIDE DEF f
    <3> QED
      BY <2>2, Zenon
  <2> QED
    BY <2>3
<1>3. ASSUME NEW k \in S, k + 1 <= MaxTreePanes PROVE k + 1 \in S
  <2>1. k \in Nat /\ k <= MaxTreePanes
    BY <1>3, TreeBounds
  <2>2. PICK f : f = [t \in TreesUpTo[k] |-> body(t, f)]
    BY <2>1
  <2> DEFINE g == [t \in TreesUpTo[k + 1] |-> body(t, f)]
  <2>3. \A t \in TreesUpTo[k] : g[t] = f[t]
    BY <2>1, <2>2, <1>3, DeeperTrees, TreeBounds
  <2>4. \A t \in TreesUpTo[k + 1] : body(t, f) = body(t, g)
    <3> HIDE DEF g
    <3> QED
      BY <1>1, <1>3, <2>1, <2>3, SubtreesAbove
  <2>5. g = [t \in TreesUpTo[k + 1] |-> body(t, g)]
    BY <2>4
  <2>6. \E h : h = [t \in TreesUpTo[k + 1] |-> body(t, h)]
    <3> HIDE DEF g
    <3> QED
      BY <2>5, Zenon
  <2> QED
    BY <2>1, <2>6
<1>4. S = Nat
  <2>1. S \in SUBSET Nat /\ \A k \in S : k + 1 > MaxTreePanes => k + 1 \in S
    BY TreeBounds
  <2> HIDE DEF S
  <2>2. \A k \in S : k + 1 \in S
    BY <1>3, <2>1, TreeBounds
  <2> QED
    BY <1>2, <2>1, <2>2, Induction
<1>5. n \in S /\ n <= MaxTreePanes
  <2> HIDE DEF S
  <2> QED
    BY <1>4, TreeBounds
<1> QED
  BY <1>5 DEF body, ResizingTo

\* ... so a divider moves in the split that holds the pane, or below it.
LEMMA ResizedOfTree ==
  ASSUME NEW p, NEW u \in Tree
  PROVE  Resized(u, p) =
           IF u.type = "leaf" THEN u
           ELSE LET i == ChildAt(u, p) IN
                IF i \in 1..(Len(u.children) - 1)
                THEN LET span == Plus(u.sizes[i], u.sizes[i + 1]) IN
                     Split(u.dir, u.children,
                           [u.sizes EXCEPT ![i] = Times(span, 1, 4), ![i + 1] = Times(span, 3, 4)])
                ELSE Split(u.dir, [j \in DOMAIN u.children |-> Resized(u.children[j], p)], u.sizes)
<1> DEFINE resized[t \in Tree] ==
             IF t.type = "leaf" THEN t
             ELSE LET i == ChildAt(t, p) IN
                  IF i \in 1..(Len(t.children) - 1)
                  THEN LET span == Plus(t.sizes[i], t.sizes[i + 1]) IN
                       Split(t.dir, t.children,
                             [t.sizes EXCEPT ![i] = Times(span, 1, 4), ![i + 1] = Times(span, 3, 4)])
                  ELSE Split(t.dir, [j \in DOMAIN t.children |-> resized[t.children[j]]], t.sizes)
<1>1. MaxTreePanes \in 0..MaxTreePanes
  BY TreeBounds
<1>2. \E f : ResizingTo(f, MaxTreePanes, p)
  BY <1>1, ResizingExists
<1>3. resized = [t \in Tree |->
                 IF t.type = "leaf" THEN t
                 ELSE LET i == ChildAt(t, p) IN
                      IF i \in 1..(Len(t.children) - 1)
                      THEN LET span == Plus(t.sizes[i], t.sizes[i + 1]) IN
                           Split(t.dir, t.children,
                                 [t.sizes EXCEPT ![i] = Times(span, 1, 4), ![i + 1] = Times(span, 3, 4)])
                      ELSE Split(t.dir, [j \in DOMAIN t.children |-> resized[t.children[j]]], t.sizes)]
  BY <1>2, Zenon DEF ResizingTo, Tree
<1>4. \A t : Resized(t, p) = resized[t]
  BY DEF Resized
<1> HIDE DEF resized
<1>5. resized[u] =
           IF u.type = "leaf" THEN u
           ELSE LET i == ChildAt(u, p) IN
                IF i \in 1..(Len(u.children) - 1)
                THEN LET span == Plus(u.sizes[i], u.sizes[i + 1]) IN
                     Split(u.dir, u.children,
                           [u.sizes EXCEPT ![i] = Times(span, 1, 4), ![i + 1] = Times(span, 3, 4)])
                ELSE Split(u.dir, [j \in DOMAIN u.children |-> resized[u.children[j]]], u.sizes)
  BY <1>3, Zenon
<1>6. [j \in DOMAIN u.children |-> Resized(u.children[j], p)] = [j \in DOMAIN u.children |-> resized[u.children[j]]]
  BY <1>4
<1> QED
  BY <1>4, <1>5, <1>6, Zenon

-----------------------------------------------------------------------------
(* Induction over trees, and what a tree's panes are. *)

\* Induction over trees: what holds of a tree if it holds of its children holds of all.
LEMMA TreeInduction ==
  ASSUME NEW S \in SUBSET Tree,
         \A t \in Tree : (t.type = "split" => \A i \in DOMAIN t.children : t.children[i] \in S) => t \in S
  PROVE  S = Tree
<1> DEFINE N == {d \in Nat : d <= MaxTreePanes => TreesUpTo[d] \subseteq S}
<1>1. 0 \in N
  <2>1. TreesUpTo[0] = Leaves /\ TreesUpTo[0] \subseteq Tree
    BY TreesByDepth, DeeperTrees, TreeBounds
  <2>2. \A t \in Leaves : t.type # "split"
    BY DEF Leaves
  <2> QED
    BY <2>1, <2>2
<1>2. ASSUME NEW d \in N PROVE d + 1 \in N
  <2> SUFFICES ASSUME d + 1 <= MaxTreePanes, NEW t \in TreesUpTo[d + 1] PROVE t \in S
    OBVIOUS
  <2>1. d \in Nat /\ TreesUpTo[d] \subseteq S
    BY TreeBounds
  <2> QED
    BY <2>1, SubtreesAbove
<1>3. N = Nat
  <2>1. N \in SUBSET Nat
    OBVIOUS
  <2> HIDE DEF N
  <2> QED
    BY <1>1, <1>2, <2>1, Induction
<1>4. MaxTreePanes \in N
  <2> HIDE DEF N
  <2> QED
    BY <1>3, TreeBounds
<1> QED
  BY <1>4, TreeBounds DEF Tree

\* The types of the panes, their order and wholeness; a whole tree has a pane.
LEMMA PanesAreIn ==
  ASSUME NEW t \in Tree
  PROVE  /\ PanesIn[t] \in SUBSET TreePanes
         /\ InOrder[t] \in SUBSET (PanesIn[t] \X PanesIn[t])
         /\ IsWhole[t] \in BOOLEAN /\ (IsWhole[t] => PanesIn[t] # {})
<1> DEFINE S == {u \in Tree : /\ PanesIn[u] \in SUBSET TreePanes
                              /\ InOrder[u] \in SUBSET (PanesIn[u] \X PanesIn[u])
                              /\ IsWhole[u] \in BOOLEAN /\ (IsWhole[u] => PanesIn[u] # {})}
<1>1. ASSUME NEW u \in Tree, u.type = "split" => \A i \in DOMAIN u.children : u.children[i] \in S
      PROVE  u \in S
  <2>1. CASE u.type = "leaf"
    <3>1. PanesIn[u] = {u.pane} /\ u.pane \in TreePanes
      BY <2>1, TreeCases, PanesOfTree
    <3>2. InOrder[u] = {}
      BY <2>1, OrderOfTree
    <3>3. IsWhole[u] = TRUE
      BY <2>1, WholeOfTree
    <3> QED
      BY <3>1, <3>2, <3>3
  <2>2. CASE u.type = "split"
    <3>1. PanesIn[u] = UNION {PanesIn[u.children[i]] : i \in DOMAIN u.children}
      BY <2>2, PanesOfTree
    <3>2. PanesIn[u] \in SUBSET TreePanes
      BY <1>1, <2>2, <3>1
    <3>3. InOrder[u] \in SUBSET (PanesIn[u] \X PanesIn[u])
      <4>1. \A i \in DOMAIN u.children : InOrder[u.children[i]] \subseteq PanesIn[u] \X PanesIn[u]
        BY <1>1, <2>2, <3>1
      <4>2. InOrder[u] = (UNION {InOrder[u.children[i]] : i \in DOMAIN u.children})
              \cup {q \in PanesIn[u] \X PanesIn[u] :
                     \E i, j \in DOMAIN u.children :
                       i < j /\ q[1] \in PanesIn[u.children[i]] /\ q[2] \in PanesIn[u.children[j]]}
        BY <2>2, OrderOfTree
      <4> SUFFICES ASSUME NEW q \in InOrder[u] PROVE q \in PanesIn[u] \X PanesIn[u]
        OBVIOUS
      <4>3. CASE \E i \in DOMAIN u.children : q \in InOrder[u.children[i]]
        BY <4>1, <4>3
      <4>4. CASE q \in PanesIn[u] \X PanesIn[u]
        BY <4>4
      <4> QED
        BY <4>2, <4>3, <4>4
    <3>4. IsWhole[u] \in BOOLEAN
      BY WholeOfTree
    <3>5. IsWhole[u] => PanesIn[u] # {}
      <4> SUFFICES ASSUME IsWhole[u] PROVE PanesIn[u] # {}
        OBVIOUS
      <4>1. Len(u.children) >= 2 /\ \A i \in DOMAIN u.children : IsWhole[u.children[i]]
        BY <2>2, WholeOfTree
      <4>2. 1 \in DOMAIN u.children
        BY <2>2, <4>1, TreeCases
      <4>3. PanesIn[u.children[1]] # {}
        BY <1>1, <2>2, <4>1, <4>2
      <4> QED
        BY <3>1, <4>2, <4>3
    <3> QED
      BY <3>2, <3>3, <3>4, <3>5
  <2> QED
    BY <2>1, <2>2, TreeCases
<1>2. S = Tree
  <2>1. S \in SUBSET Tree
    OBVIOUS
  <2> HIDE DEF S
  <2> QED
    BY <1>1, <2>1, TreeInduction
<1> QED
  BY <1>2

\* A tree is a split by what its children are.
LEMMA SplitIs ==
  ASSUME NEW t \in Tree, t.type = "split"
  PROVE  /\ Len(t.children) \in Nat /\ DOMAIN t.children = 1..Len(t.children)
         /\ \A i \in 1..Len(t.children) : t.children[i] \in Tree /\ PanesIn[t.children[i]] \subseteq PanesIn[t]
         /\ \A p : p \in PanesIn[t] <=> \E i \in 1..Len(t.children) : p \in PanesIn[t.children[i]]
<1>1. t.children \in Seq(Tree)
  BY TreeCases
<1>2. /\ Len(t.children) \in Nat /\ DOMAIN t.children = 1..Len(t.children)
      /\ \A i \in 1..Len(t.children) : t.children[i] \in Tree
  BY <1>1
<1>3. \A p : p \in PanesIn[t] <=> \E i \in 1..Len(t.children) : p \in PanesIn[t.children[i]]
  <2>1. PanesIn[t] = UNION {PanesIn[t.children[i]] : i \in DOMAIN t.children}
    BY PanesOfTree
  <2> QED
    BY <1>2, <2>1
<1> QED
  BY <1>2, <1>3

\* One pane is before another in a split if it is in a child, or in an earlier child.
LEMMA SplitOrder ==
  ASSUME NEW t \in Tree, t.type = "split", NEW p, NEW q
  PROVE  <<p, q>> \in InOrder[t] <=>
           \/ \E i \in 1..Len(t.children) : <<p, q>> \in InOrder[t.children[i]]
           \/ \E i, j \in 1..Len(t.children) :
                i < j /\ p \in PanesIn[t.children[i]] /\ q \in PanesIn[t.children[j]]
<1> DEFINE x == <<p, q>>
<1>1. x[1] = p /\ x[2] = q
  OBVIOUS
<1>2. x \in PanesIn[t] \X PanesIn[t] <=> p \in PanesIn[t] /\ q \in PanesIn[t]
  OBVIOUS
<1>3. InOrder[t] = (UNION {InOrder[t.children[i]] : i \in DOMAIN t.children})
        \cup {r \in PanesIn[t] \X PanesIn[t] :
               \E i, j \in DOMAIN t.children :
                 i < j /\ r[1] \in PanesIn[t.children[i]] /\ r[2] \in PanesIn[t.children[j]]}
  BY OrderOfTree
<1> HIDE DEF x
<1>4. x \in InOrder[t] <=>
        \/ \E i \in DOMAIN t.children : x \in InOrder[t.children[i]]
        \/ /\ x \in PanesIn[t] \X PanesIn[t]
           /\ \E i, j \in DOMAIN t.children :
                i < j /\ x[1] \in PanesIn[t.children[i]] /\ x[2] \in PanesIn[t.children[j]]
  BY <1>3
<1>5. x \in InOrder[t] <=>
        \/ \E i \in 1..Len(t.children) : x \in InOrder[t.children[i]]
        \/ \E i, j \in 1..Len(t.children) :
             i < j /\ p \in PanesIn[t.children[i]] /\ q \in PanesIn[t.children[j]]
  <2>1. /\ DOMAIN t.children = 1..Len(t.children)
        /\ \A i \in 1..Len(t.children) : PanesIn[t.children[i]] \subseteq PanesIn[t]
    BY SplitIs
  <2>2. (\E i, j \in 1..Len(t.children) :
           i < j /\ p \in PanesIn[t.children[i]] /\ q \in PanesIn[t.children[j]])
        => p \in PanesIn[t] /\ q \in PanesIn[t]
    BY <2>1
  <2> QED
    BY <1>1, <1>2, <1>4, <2>1, <2>2
<1> QED
  BY <1>5 DEF x

\* A leaf has one pane, nothing to order, and is whole.
LEMMA LeafIs ==
  ASSUME NEW p \in TreePanes
  PROVE  Leaf(p) \in Tree /\ Leaf(p).type = "leaf" /\ Leaf(p).pane = p
         /\ PanesIn[Leaf(p)] = {p} /\ InOrder[Leaf(p)] = {} /\ IsWhole[Leaf(p)]
<1>1. Leaf(p) \in Leaves /\ Leaf(p).type = "leaf" /\ Leaf(p).pane = p
  BY DEF Leaf, Leaves
<1>2. Leaf(p) \in Tree
  BY <1>1, TreesByDepth, DeeperTrees, TreeBounds
<1> QED
  BY <1>1, <1>2, PanesOfTree, OrderOfTree, WholeOfTree

\* When a split is whole.
LEMMA WholeIs ==
  ASSUME NEW t \in Tree, t.type = "split"
  PROVE  IsWhole[t] <=>
           /\ Len(t.children) >= 2 /\ Len(t.sizes) = Len(t.children)
           /\ \A i \in 1..Len(t.children) : IsWhole[t.children[i]]
           /\ \A i, j \in 1..Len(t.children) : \A p :
                p \in PanesIn[t.children[i]] /\ p \in PanesIn[t.children[j]] => i = j
<1>1. DOMAIN t.children = 1..Len(t.children)
  BY SplitIs
<1>2. IsWhole[t] <=>
        /\ Len(t.children) >= 2 /\ Len(t.sizes) = Len(t.children)
        /\ \A i \in DOMAIN t.children : IsWhole[t.children[i]]
        /\ \A i, j \in DOMAIN t.children :
             i # j => PanesIn[t.children[i]] \cap PanesIn[t.children[j]] = {}
  BY WholeOfTree
<1>3. (\A i, j \in 1..Len(t.children) :
         i # j => PanesIn[t.children[i]] \cap PanesIn[t.children[j]] = {})
      <=> (\A i, j \in 1..Len(t.children) : \A p :
             p \in PanesIn[t.children[i]] /\ p \in PanesIn[t.children[j]] => i = j)
  OBVIOUS
<1> QED
  BY <1>1, <1>2, <1>3

-----------------------------------------------------------------------------
(* Two trees that differ by one pane. *)

\* t and u have the same panes in the same order, pane x aside.
SameBut(x, t, u) ==
  /\ \A p : p # x => (p \in PanesIn[t] <=> p \in PanesIn[u])
  /\ \A p, q : p # x /\ q # x => (<<p, q>> \in InOrder[t] <=> <<p, q>> \in InOrder[u])

\* ... as sets: what PanesKeepOrder compares.
LEMMA SameButIs ==
  ASSUME NEW t \in Tree, NEW u \in Tree, NEW x, SameBut(x, t, u)
  PROVE  /\ PanesIn[t] \ {x} = PanesIn[u] \ {x}
         /\ OthersInOrder(t, x) = OthersInOrder(u, x)
<1>1. PanesIn[t] \ {x} = PanesIn[u] \ {x}
  BY DEF SameBut
<1>2. ASSUME NEW v \in {t, u}, NEW w \in {t, u}, NEW q \in OthersInOrder(v, x) PROVE q \in OthersInOrder(w, x)
  <2>1. q \in InOrder[v] /\ q[1] # x /\ q[2] # x
    BY DEF OthersInOrder
  <2>2. InOrder[v] \in SUBSET (PanesIn[v] \X PanesIn[v])
    BY PanesAreIn
  <2>3. q = <<q[1], q[2]>>
    BY <2>1, <2>2
  <2>4. <<q[1], q[2]>> \in InOrder[w]
    BY <2>1, <2>3 DEF SameBut
  <2> QED
    BY <2>1, <2>3, <2>4 DEF OthersInOrder
<1> QED
  BY <1>1, <1>2

\* A split whose children are those of another in their order, but for some
\* that hold nothing else than pane x.
LEMMA SameGrid ==
  ASSUME NEW t \in Tree, t.type = "split", NEW u \in Tree, u.type = "split", NEW x,
         NEW e \in [1..Len(u.children) -> 1..Len(t.children)],
         \A i, j \in 1..Len(u.children) : i < j => e[i] < e[j],
         \A i \in 1..Len(u.children) : SameBut(x, t.children[e[i]], u.children[i]),
         \A k \in 1..Len(t.children) :
           (\E p \in PanesIn[t.children[k]] : p # x) => \E i \in 1..Len(u.children) : e[i] = k
  PROVE  SameBut(x, t, u)
<1> DEFINE m == Len(u.children)
           n == Len(t.children)
<1>0. m \in Nat /\ n \in Nat /\ \A i \in 1..m : e[i] \in 1..n
  BY SplitIs
<1>1. ASSUME NEW i \in 1..m, NEW p, p # x
      PROVE  p \in PanesIn[t.children[e[i]]] <=> p \in PanesIn[u.children[i]]
  BY <1>1 DEF SameBut
<1>2. ASSUME NEW i \in 1..m, NEW p, NEW q, p # x, q # x
      PROVE  <<p, q>> \in InOrder[t.children[e[i]]] <=> <<p, q>> \in InOrder[u.children[i]]
  BY <1>2 DEF SameBut
<1>3. ASSUME NEW k \in 1..n, NEW p \in PanesIn[t.children[k]], p # x
      PROVE  \E i \in 1..m : e[i] = k
  BY <1>3
<1>4. ASSUME NEW i \in 1..m, NEW j \in 1..m, e[i] < e[j] PROVE i < j
  <2> SUFFICES ASSUME ~(i < j) PROVE FALSE
    OBVIOUS
  <2>1. CASE i = j
    BY <1>0, <1>4, <2>1
  <2>2. CASE j < i
    <3>1. e[j] < e[i]
      BY <2>2
    <3> QED
      BY <1>0, <1>4, <3>1
  <2> QED
    BY <1>0, <2>1, <2>2
<1>5. ASSUME NEW p, p # x PROVE p \in PanesIn[t] <=> p \in PanesIn[u]
  <2>1. p \in PanesIn[t] <=> \E k \in 1..n : p \in PanesIn[t.children[k]]
    BY SplitIs
  <2>2. p \in PanesIn[u] <=> \E i \in 1..m : p \in PanesIn[u.children[i]]
    BY SplitIs
  <2> HIDE DEF m, n
  <2> QED
    BY <1>0, <1>1, <1>3, <1>5, <2>1, <2>2
<1>6. ASSUME NEW p, NEW q
      PROVE  <<p, q>> \in InOrder[t] <=>
              \/ \E i \in 1..n : <<p, q>> \in InOrder[t.children[i]]
              \/ \E i, j \in 1..n :
                   i < j /\ p \in PanesIn[t.children[i]] /\ q \in PanesIn[t.children[j]]
  BY SplitOrder
<1>7. ASSUME NEW p, NEW q
      PROVE  <<p, q>> \in InOrder[u] <=>
              \/ \E i \in 1..m : <<p, q>> \in InOrder[u.children[i]]
              \/ \E i, j \in 1..m :
                   i < j /\ p \in PanesIn[u.children[i]] /\ q \in PanesIn[u.children[j]]
  BY SplitOrder, SMTT(60)
<1>8. ASSUME NEW p, NEW q, p # x, q # x PROVE <<p, q>> \in InOrder[t] <=> <<p, q>> \in InOrder[u]
  <2>1. <<p, q>> \in InOrder[t] <=>
              \/ \E i \in 1..n : <<p, q>> \in InOrder[t.children[i]]
              \/ \E i, j \in 1..n :
                   i < j /\ p \in PanesIn[t.children[i]] /\ q \in PanesIn[t.children[j]]
    BY <1>6
  <2>2. <<p, q>> \in InOrder[u] <=>
              \/ \E i \in 1..m : <<p, q>> \in InOrder[u.children[i]]
              \/ \E i, j \in 1..m :
                   i < j /\ p \in PanesIn[u.children[i]] /\ q \in PanesIn[u.children[j]]
    BY <1>7
  <2>3. ASSUME NEW k \in 1..n, <<p, q>> \in InOrder[t.children[k]]
        PROVE  \E i \in 1..m : <<p, q>> \in InOrder[u.children[i]]
    <3>1. p \in PanesIn[t.children[k]]
      BY <2>3, SplitIs, PanesAreIn
    <3> QED
      BY <1>2, <1>3, <1>8, <2>3, <3>1
  <2>4. ASSUME NEW i \in 1..m, <<p, q>> \in InOrder[u.children[i]]
        PROVE  \E k \in 1..n : <<p, q>> \in InOrder[t.children[k]]
    BY <1>0, <1>2, <1>8, <2>4
  <2>5. ASSUME NEW k \in 1..n, NEW l \in 1..n, k < l,
               p \in PanesIn[t.children[k]], q \in PanesIn[t.children[l]]
        PROVE  \E i, j \in 1..m : i < j /\ p \in PanesIn[u.children[i]] /\ q \in PanesIn[u.children[j]]
    <3>1. PICK i \in 1..m : e[i] = k
      BY <1>3, <1>8, <2>5
    <3>2. PICK j \in 1..m : e[j] = l
      BY <1>3, <1>8, <2>5
    <3>3. i < j
      BY <1>4, <2>5, <3>1, <3>2
    <3>4. p \in PanesIn[u.children[i]] /\ q \in PanesIn[u.children[j]]
      BY <1>1, <1>8, <2>5, <3>1, <3>2
    <3> QED
      BY <3>3, <3>4
  <2>6. ASSUME NEW i \in 1..m, NEW j \in 1..m, i < j,
               p \in PanesIn[u.children[i]], q \in PanesIn[u.children[j]]
        PROVE  \E k, l \in 1..n : k < l /\ p \in PanesIn[t.children[k]] /\ q \in PanesIn[t.children[l]]
    <3>1. e[i] < e[j] /\ e[i] \in 1..n /\ e[j] \in 1..n
      BY <1>0, <2>6
    <3>2. p \in PanesIn[t.children[e[i]]] /\ q \in PanesIn[t.children[e[j]]]
      BY <1>1, <1>8, <2>6
    <3> QED
      BY <3>1, <3>2
  <2> HIDE DEF m, n
  <2> QED
    BY <2>1, <2>2, <2>3, <2>4, <2>5, <2>6
<1> QED
  BY <1>5, <1>8 DEF SameBut

\* A split all but one of whose children hold nothing else than pane x.
LEMMA SameChild ==
  ASSUME NEW t \in Tree, t.type = "split", NEW u \in Tree, NEW x, NEW k \in 1..Len(t.children),
         SameBut(x, t.children[k], u),
         \A i \in 1..Len(t.children) : i # k => PanesIn[t.children[i]] \subseteq {x}
  PROVE  SameBut(x, t, u)
<1>1. ASSUME NEW p, p # x PROVE p \in PanesIn[t] <=> p \in PanesIn[u]
  <2>1. p \in PanesIn[t] <=> \E i \in 1..Len(t.children) : p \in PanesIn[t.children[i]]
    BY SplitIs
  <2>2. p \in PanesIn[t.children[k]] <=> p \in PanesIn[u]
    BY <1>1 DEF SameBut
  <2>3. \A i \in 1..Len(t.children) : p \in PanesIn[t.children[i]] => i = k
    BY <1>1
  <2> QED
    BY <2>1, <2>2, <2>3
<1>2. ASSUME NEW p, NEW q, p # x, q # x PROVE <<p, q>> \in InOrder[t] <=> <<p, q>> \in InOrder[u]
  <2>1. \A i \in 1..Len(t.children) : <<p, q>> \in InOrder[t.children[i]] => i = k
    <3> SUFFICES ASSUME NEW i \in 1..Len(t.children), <<p, q>> \in InOrder[t.children[i]] PROVE i = k
      OBVIOUS
    <3>1. p \in PanesIn[t.children[i]]
      BY SplitIs, PanesAreIn
    <3> QED
      BY <1>2, <3>1
  <2>2. ~ \E i, j \in 1..Len(t.children) :
            i < j /\ p \in PanesIn[t.children[i]] /\ q \in PanesIn[t.children[j]]
    <3> SUFFICES ASSUME NEW i \in 1..Len(t.children), NEW j \in 1..Len(t.children), i < j,
                        p \in PanesIn[t.children[i]], q \in PanesIn[t.children[j]]
                 PROVE  FALSE
      OBVIOUS
    <3>1. i = k
      BY <1>2
    <3>2. j = k
      BY <1>2
    <3>3. k \in Nat
      BY SplitIs
    <3> QED
      BY <3>1, <3>2, <3>3
  <2>3. <<p, q>> \in InOrder[t] <=> <<p, q>> \in InOrder[t.children[k]]
    BY <2>1, <2>2, SplitOrder
  <2> QED
    BY <1>2, <2>3 DEF SameBut
<1> QED
  BY <1>1, <1>2 DEF SameBut

-----------------------------------------------------------------------------
(* Shares and sequences. *)

\* A positive number divided by one of its divisors is positive.
LEMMA QuotientIsPositive ==
  ASSUME NEW n \in Nat \ {0}, NEW g \in Nat \ {0}, n % g = 0
  PROVE  n \div g \in Nat \ {0}
OBVIOUS

\* Two positive numbers have a greatest common divisor.
LEMMA GcdIs ==
  ASSUME NEW a \in Nat \ {0}, NEW b \in Nat \ {0}
  PROVE  /\ Gcd(a, b) \in Nat \ {0}
         /\ a % Gcd(a, b) = 0 /\ b % Gcd(a, b) = 0
<1> DEFINE D == {g \in 1..(a + b) : a % g = 0 /\ b % g = 0}
<1>1. 1 \in D
  OBVIOUS
<1>2. D \in SUBSET (0..(a + b)) /\ a + b \in Nat
  OBVIOUS
<1>3. PICK m \in D : \A n \in D : n <= m
  <2> HIDE DEF D
  <2> QED
    BY <1>1, <1>2, GreatestNatural
<1>4. \E g \in 1..(a + b) : (a % g = 0 /\ b % g = 0)
        /\ \A h \in 1..(a + b) : (a % h = 0 /\ b % h = 0) => h <= g
  BY <1>3
<1>5. Gcd(a, b) \in 1..(a + b) /\ a % Gcd(a, b) = 0 /\ b % Gcd(a, b) = 0
  BY <1>4 DEF Gcd
<1> QED
  BY <1>5

\* Reducing a fraction gives a fraction.
LEMMA FracIs ==
  ASSUME NEW n \in Nat \ {0}, NEW d \in Nat \ {0}
  PROVE  Frac(n, d) \in Fractions
<1>1. Gcd(n, d) \in Nat \ {0} /\ n % Gcd(n, d) = 0 /\ d % Gcd(n, d) = 0
  BY GcdIs
<1>2. n \div Gcd(n, d) \in Nat \ {0} /\ d \div Gcd(n, d) \in Nat \ {0}
  BY <1>1, QuotientIsPositive
<1> QED
  BY <1>2 DEF Frac, Fractions

\* Products of positive numbers are positive.
LEMMA Product ==
  ASSUME NEW a \in Nat \ {0}, NEW b \in Nat \ {0}
  PROVE  a * b \in Nat \ {0}
OBVIOUS

\* Both parts of a fraction are positive.
LEMMA FractionIs ==
  ASSUME NEW x \in Fractions
  PROVE  x[1] \in Nat \ {0} /\ x[2] \in Nat \ {0}
BY DEF Fractions

\* Sums of shares are shares, so are sums that begin at zero.
LEMMA PlusIs ==
  ASSUME NEW x \in Fractions \cup {<<0, 1>>}, NEW y \in Fractions
  PROVE  Plus(x, y) \in Fractions
<1>1. y[1] \in Nat \ {0} /\ y[2] \in Nat \ {0} /\ x[1] \in Nat /\ x[2] \in Nat \ {0}
  BY FractionIs
<1>2. x[1] * y[2] \in Nat /\ y[1] * x[2] \in Nat \ {0} /\ x[2] * y[2] \in Nat \ {0}
  <2>1. y[1] * x[2] \in Nat \ {0} /\ x[2] * y[2] \in Nat \ {0}
    BY <1>1, Product
  <2>2. CASE x[1] = 0
    BY <1>1, <2>1, <2>2
  <2>3. CASE x[1] # 0
    BY <1>1, <2>1, <2>3, Product
  <2> QED
    BY <2>2, <2>3
<1>3. x[1] * y[2] + y[1] * x[2] \in Nat \ {0}
  BY <1>2
<1> QED
  BY <1>2, <1>3, FracIs DEF Plus

\* A share of a share is a share.
LEMMA TimesIs ==
  ASSUME NEW x \in Fractions, NEW n \in Nat \ {0}, NEW d \in Nat \ {0}
  PROVE  Times(x, n, d) \in Fractions
<1>1. x[1] * n \in Nat \ {0} /\ x[2] * d \in Nat \ {0}
  BY FractionIs, Product
<1> QED
  BY <1>1, FracIs DEF Times

\* Equal shares of n children are n shares.
LEMMA EqualSizesIs ==
  ASSUME NEW n \in Nat \ {0}
  PROVE  EqualSizes(n) \in Seq(Fractions) /\ Len(EqualSizes(n)) = n
<1>1. <<1, n>> \in Fractions
  BY DEF Fractions
<1> QED
  BY <1>1 DEF EqualSizes

\* What InsertAt does: the element at its place, the later ones one further.
LEMMA InsertAtIs ==
  ASSUME NEW S, NEW s \in Seq(S), NEW i \in 1..(Len(s) + 1), NEW e \in S
  PROVE  /\ InsertAt(s, i, e) \in Seq(S) /\ Len(InsertAt(s, i, e)) = Len(s) + 1
         /\ \A j \in 1..(i - 1) : InsertAt(s, i, e)[j] = s[j]
         /\ InsertAt(s, i, e)[i] = e
         /\ \A j \in i..Len(s) : InsertAt(s, i, e)[j + 1] = s[j]
<1>1. /\ SubSeq(s, 1, i - 1) \in Seq(S) /\ Len(SubSeq(s, 1, i - 1)) = i - 1
      /\ \A j \in 1..(i - 1) : SubSeq(s, 1, i - 1)[j] = s[j]
  OBVIOUS
<1>2. /\ SubSeq(s, i, Len(s)) \in Seq(S) /\ Len(SubSeq(s, i, Len(s))) = Len(s) - i + 1
      /\ \A j \in 1..(Len(s) - i + 1) : SubSeq(s, i, Len(s))[j] = s[i + j - 1]
  OBVIOUS
<1> DEFINE a == SubSeq(s, 1, i - 1)
           b == SubSeq(s, i, Len(s))
<1> HIDE DEF a, b
<1>3. InsertAt(s, i, e) = (a \o <<e>>) \o b
  BY DEF InsertAt, a, b
<1>4. /\ a \o <<e>> \in Seq(S) /\ Len(a \o <<e>>) = i
      /\ \A j \in 1..(i - 1) : (a \o <<e>>)[j] = s[j]
      /\ (a \o <<e>>)[i] = e
  <2>1. a \in Seq(S) /\ Len(a) = i - 1 /\ i \in Nat
    BY <1>1 DEF a
  <2>2. <<e>> \in Seq(S) /\ Len(<<e>>) = 1 /\ <<e>>[1] = e
    OBVIOUS
  <2>3. /\ a \o <<e>> \in Seq(S) /\ Len(a \o <<e>>) = (i - 1) + 1
        /\ \A j \in 1..((i - 1) + 1) : (a \o <<e>>)[j] = IF j <= i - 1 THEN a[j] ELSE <<e>>[j - (i - 1)]
    BY <2>1, <2>2, ConcatProperties
  <2>4. \A j \in 1..(i - 1) : a[j] = s[j]
    BY <1>1 DEF a
  <2> QED
    BY <2>1, <2>2, <2>3, <2>4
<1> DEFINE c == a \o <<e>>
<1> HIDE DEF c
<1>5. /\ c \o b \in Seq(S) /\ Len(c \o b) = Len(s) + 1
      /\ \A j \in 1..i : (c \o b)[j] = c[j]
      /\ \A j \in (i + 1)..(Len(s) + 1) : (c \o b)[j] = b[j - i]
  <2>1. c \in Seq(S) /\ Len(c) = i /\ i \in Nat
    BY <1>4 DEF c
  <2>2. b \in Seq(S) /\ Len(b) = Len(s) - i + 1 /\ Len(s) \in Nat
    BY <1>2 DEF b
  <2>3. /\ c \o b \in Seq(S) /\ Len(c \o b) = i + (Len(s) - i + 1)
        /\ \A j \in 1..(i + (Len(s) - i + 1)) : (c \o b)[j] = IF j <= i THEN c[j] ELSE b[j - i]
    BY <2>1, <2>2, ConcatProperties
  <2> QED
    BY <2>1, <2>2, <2>3
<1>6. \A j \in i..Len(s) : j + 1 \in (i + 1)..(Len(s) + 1) /\ (j + 1) - i \in 1..(Len(s) - i + 1)
                           /\ i + ((j + 1) - i) - 1 = j
  OBVIOUS
<1>7. \A j \in i..Len(s) : (c \o b)[j + 1] = s[j]
  BY <1>2, <1>5, <1>6 DEF b
<1> QED
  BY <1>3, <1>4, <1>5, <1>7 DEF c

\* ReplaceAt keeps the type and the length.
LEMMA ReplaceAtIs ==
  ASSUME NEW S, NEW s \in Seq(S), NEW i \in 1..Len(s), NEW e \in S
  PROVE  ReplaceAt(s, i, e) \in Seq(S) /\ Len(ReplaceAt(s, i, e)) = Len(s)
BY ExceptSeq DEF ReplaceAt

\* The leaf of pane p among the children of a split.
LEMMA ChildAtIs ==
  ASSUME NEW t \in Tree, t.type = "split", NEW p
  PROVE  \/ ChildAt(t, p) = 0 /\ \A i \in 1..Len(t.children) : t.children[i] # Leaf(p)
         \/ ChildAt(t, p) \in 1..Len(t.children) /\ t.children[ChildAt(t, p)] = Leaf(p)
<1> DEFINE I == {i \in 1..Len(t.children) : t.children[i] = Leaf(p)}
<1>1. ChildAt(t, p) = IF I # {} THEN Min(I) ELSE 0
  BY DEF ChildAt, SelectInSeq
<1>2. CASE I # {}
  <2>1. I \in SUBSET Nat
    OBVIOUS
  <2>2. PICK m \in I : \A n \in I : m <= n
    <3> HIDE DEF I
    <3> QED
      BY <1>2, <2>1, LeastNatural
  <2>3. Min(I) \in I
    BY <2>2 DEF Min
  <2> QED
    BY <1>1, <1>2, <2>3
<1>3. CASE I = {}
  BY <1>1, <1>3
<1> QED
  BY <1>2, <1>3

\* The running sums of a list of shares exist ...
LEMMA SumsExist ==
  ASSUME NEW s, NEW n \in Nat
  PROVE  \E f : f = [i \in 0..n |-> IF i = 0 THEN <<0, 1>> ELSE Plus(f[i - 1], s[i])]
<1> DEFINE body(i, f) == IF i = 0 THEN <<0, 1>> ELSE Plus(f[i - 1], s[i])
           S == {k \in Nat : \E f : f = [i \in 0..k |-> body(i, f)]}
<1>1. 0 \in S
  <2> DEFINE f == [i \in 0..0 |-> <<0, 1>>]
  <2>1. f = [i \in 0..0 |-> body(i, f)]
    OBVIOUS
  <2> QED
    BY <2>1
<1>2. ASSUME NEW k \in S PROVE k + 1 \in S
  <2>1. PICK f : f = [i \in 0..k |-> body(i, f)]
    BY <1>2
  <2> DEFINE g == [i \in 0..(k + 1) |-> body(i, f)]
  <2>2. \A i \in 0..k : g[i] = f[i]
    <3> HIDE DEF body
    <3>1. \A i \in 0..k : i \in 0..(k + 1)
      OBVIOUS
    <3> QED
      BY <2>1, <3>1
  <2>3. \A i \in 0..(k + 1) : body(i, f) = body(i, g)
    <3>1. \A i \in 0..(k + 1) : i # 0 => i - 1 \in 0..k
      OBVIOUS
    <3> HIDE DEF g
    <3> QED
      BY <2>2, <3>1
  <2>4. g = [i \in 0..(k + 1) |-> body(i, g)]
    <3> HIDE DEF body
    <3> QED
      BY <2>3
  <2>5. \E h : h = [i \in 0..(k + 1) |-> body(i, h)]
    <3> HIDE DEF body, g
    <3> QED
      BY <2>4, Zenon
  <2> HIDE DEF body
  <2> QED
    BY <2>5
<1>3. S = Nat
  <2>1. S \in SUBSET Nat
    OBVIOUS
  <2> HIDE DEF S
  <2> QED
    BY <1>1, <1>2, <2>1, Induction
<1> QED
  BY <1>3

\* The sums on the way to a total.
LEMMA TotalIsSum ==
  ASSUME NEW s, Len(s) \in Nat
  PROVE  \E f : /\ Total(s) = f[Len(s)] /\ f[0] = <<0, 1>>
                /\ \A i \in 1..Len(s) : f[i] = Plus(f[i - 1], s[i])
<1> DEFINE sum[i \in 0..Len(s)] == IF i = 0 THEN <<0, 1>> ELSE Plus(sum[i - 1], s[i])
<1>1. \E f : f = [i \in 0..Len(s) |-> IF i = 0 THEN <<0, 1>> ELSE Plus(f[i - 1], s[i])]
  BY SumsExist
<1>2. sum = [i \in 0..Len(s) |-> IF i = 0 THEN <<0, 1>> ELSE Plus(sum[i - 1], s[i])]
  BY <1>1, Zenon
<1>3. Total(s) = sum[Len(s)]
  BY DEF Total
<1> HIDE DEF sum
<1>4. \A i \in 0..Len(s) : sum[i] = IF i = 0 THEN <<0, 1>> ELSE Plus(sum[i - 1], s[i])
  BY <1>2, Zenon
<1>5. 0 \in 0..Len(s) /\ \A i \in 1..Len(s) : i \in 0..Len(s) /\ i # 0
  OBVIOUS
<1>6. sum[0] = <<0, 1>> /\ \A i \in 1..Len(s) : sum[i] = Plus(sum[i - 1], s[i])
  BY <1>4, <1>5
<1> QED
  BY <1>3, <1>6

\* ... so the sum of a list of shares that is not empty is a share.
LEMMA TotalIs ==
  ASSUME NEW s \in Seq(Fractions), Len(s) # 0
  PROVE  Total(s) \in Fractions
<1>0. Len(s) \in Nat /\ \A i \in 1..Len(s) : s[i] \in Fractions
  OBVIOUS
<1>1. PICK f : /\ Total(s) = f[Len(s)] /\ f[0] = <<0, 1>>
               /\ \A i \in 1..Len(s) : f[i] = Plus(f[i - 1], s[i])
  BY <1>0, TotalIsSum
<1> DEFINE S == {i \in Nat : i <= Len(s) => f[i] \in Fractions \cup {<<0, 1>>} /\ (i # 0 => f[i] \in Fractions)}
<1>2. 0 \in S
  BY <1>1
<1>3. ASSUME NEW i \in S PROVE i + 1 \in S
  <2> SUFFICES ASSUME i + 1 <= Len(s) PROVE f[i + 1] \in Fractions
    OBVIOUS
  <2>1. i + 1 \in 1..Len(s) /\ (i + 1) - 1 = i /\ i <= Len(s)
    BY <1>0
  <2>2. f[i] \in Fractions \cup {<<0, 1>>}
    BY <2>1
  <2> QED
    BY <1>0, <1>1, <2>1, <2>2, PlusIs
<1>4. S = Nat
  <2>1. S \in SUBSET Nat
    OBVIOUS
  <2> HIDE DEF S
  <2> QED
    BY <1>2, <1>3, <2>1, Induction
<1>5. Len(s) \in S
  <2> HIDE DEF S
  <2> QED
    BY <1>0, <1>4
<1> QED
  BY <1>0, <1>1, <1>5

\* The numbers up to n, but for at most one, in their order.
LEMMA AscendingIs ==
  ASSUME NEW n \in Nat, NEW d, NEW S, S = (1..n) \ {d}
  PROVE  /\ Cardinality(S) = IF d \in 1..n THEN n - 1 ELSE n
         /\ Ascending(S) \in [1..Cardinality(S) -> S]
         /\ \A i, j \in 1..Cardinality(S) : i < j => Ascending(S)[i] < Ascending(S)[j]
         /\ Ascending(S) \in Surjection(1..Cardinality(S), S)
<1> DEFINE c == Cardinality(S)
<1>1. IsFiniteSet(1..n) /\ Cardinality(1..n) = n
  BY FS_Interval
<1>2. IsFiniteSet(S) /\ c = IF d \in 1..n THEN n - 1 ELSE n
  BY <1>1, FS_RemoveElement
<1> HIDE DEF c
<1>3. \E s \in [1..c -> S] : \A i, j \in 1..c : i < j => s[i] < s[j]
  <2>1. CASE d \in 1..n
    <3> DEFINE s == [i \in 1..(n - 1) |-> IF i < d THEN i ELSE i + 1]
    <3>1. s \in [1..c -> S] /\ \A i, j \in 1..c : i < j => s[i] < s[j]
      BY <1>2, <2>1
    <3> QED
      BY <3>1
  <2>2. CASE d \notin 1..n
    <3> DEFINE s == [i \in 1..n |-> i]
    <3>1. s \in [1..c -> S] /\ \A i, j \in 1..c : i < j => s[i] < s[j]
      BY <1>2, <2>2
    <3> QED
      BY <3>1
  <2> QED
    BY <2>1, <2>2
<1>4. Ascending(S) \in [1..c -> S] /\ \A i, j \in 1..c : i < j => Ascending(S)[i] < Ascending(S)[j]
  BY <1>3 DEF Ascending, c
<1>5. Ascending(S) \in Injection(1..c, S)
  <2> DEFINE a == Ascending(S)
  <2> HIDE DEF a
  <2>1. a \in [1..c -> S] /\ S \subseteq Nat /\ \A i, j \in 1..c : i < j => a[i] < a[j]
    <3>1. S \subseteq Nat
      OBVIOUS
    <3>2. a \in [1..c -> S] /\ \A i, j \in 1..c : i < j => a[i] < a[j]
      BY <1>4, Zenon DEF a
    <3> QED
      BY <3>1, <3>2
  <2>2. ASSUME NEW i \in 1..c, NEW j \in 1..c, a[i] = a[j] PROVE i = j
    <3>1. a[i] \in Nat /\ a[j] \in Nat
      BY <2>1
    <3>2. ~(a[i] < a[j]) /\ ~(a[j] < a[i])
      BY <2>2, <3>1
    <3>3. ~(i < j) /\ ~(j < i)
      BY <2>1, <3>2
    <3> QED
      BY <3>3
  <2> QED
    BY <2>1, <2>2 DEF Injection, IsInjective, a
<1>6. c \in Nat /\ Cardinality(1..c) = c
  BY <1>2, FS_Interval
<1>7. Ascending(S) \in Surjection(1..c, S)
  BY <1>2, <1>5, <1>6, FS_Injection DEF c
<1> QED
  BY <1>2, <1>4, <1>7 DEF c

-----------------------------------------------------------------------------
(* Shares that are the whole. *)

\* ch is s with e in the at-th place.
Inserted(s, at, e, ch) ==
  /\ Len(ch) = Len(s) + 1 /\ ch[at] = e
  /\ \A j \in 1..(at - 1) : ch[j] = s[j]
  /\ \A j \in at..Len(s) : ch[j + 1] = s[j]

\* The shares of a row that gets another column.
LEMMA ScaledSizes ==
  ASSUME NEW s \in Seq(Fractions), NEW n \in Nat \ {0}
  PROVE  /\ Append([i \in DOMAIN s |-> Times(s[i], n, n + 1)], <<1, n + 1>>) \in Seq(Fractions)
         /\ Len(Append([i \in DOMAIN s |-> Times(s[i], n, n + 1)], <<1, n + 1>>)) = Len(s) + 1
<1> DEFINE r == [i \in DOMAIN s |-> Times(s[i], n, n + 1)]
<1>1. \A i \in 1..Len(s) : Times(s[i], n, n + 1) \in Fractions
  BY TimesIs
<1>2. r \in Seq(Fractions) /\ Len(r) = Len(s)
  BY <1>1
<1>3. <<1, n + 1>> \in Fractions
  BY DEF Fractions
<1> HIDE DEF r
<1>4. Append(r, <<1, n + 1>>) \in Seq(Fractions) /\ Len(Append(r, <<1, n + 1>>)) = Len(s) + 1
  BY <1>2, <1>3
<1> QED
  BY <1>4 DEF r

\* The shares after the move of a divider are shares.
LEMMA MovedDivider ==
  ASSUME NEW s \in Seq(Fractions), NEW i \in 1..(Len(s) - 1), NEW span, span = Plus(s[i], s[i + 1])
  PROVE  /\ [s EXCEPT ![i] = Times(span, 1, 4), ![i + 1] = Times(span, 3, 4)] \in Seq(Fractions)
         /\ Len([s EXCEPT ![i] = Times(span, 1, 4), ![i + 1] = Times(span, 3, 4)]) = Len(s)
<1>1. s[i] \in Fractions /\ s[i + 1] \in Fractions
  OBVIOUS
<1>2. span \in Fractions
  BY <1>1, PlusIs
<1>3. Times(span, 1, 4) \in Fractions /\ Times(span, 3, 4) \in Fractions
  BY <1>2, TimesIs
<1> QED
  BY <1>3

\* Fraction x is a of D parts of the whole.
Worth(x, a, D) == x[1] * D = a * x[2]

\* Equal multiples of a positive number are multiples by equal numbers.
LEMMA Cancel ==
  ASSUME NEW a \in Nat, NEW b \in Nat, NEW c \in Nat \ {0}, a * c = b * c
  PROVE  a = b
OBVIOUS

\* A number is its quotient by a divisor times the divisor.
LEMMA Quotient ==
  ASSUME NEW n \in Nat \ {0}, NEW g \in Nat \ {0}, n % g = 0
  PROVE  n \div g \in Nat \ {0} /\ n = (n \div g) * g
<1>1. n \div g \in Nat \ {0}
  BY QuotientIsPositive
<1>2. n = g * (n \div g)
  OBVIOUS
<1> QED
  BY <1>1, <1>2

\* Reducing a fraction keeps what it is worth.
LEMMA FracWorth ==
  ASSUME NEW n \in Nat \ {0}, NEW d \in Nat \ {0}
  PROVE  Worth(Frac(n, d), n, d)
<1> DEFINE g == Gcd(n, d)
           p == n \div g
           q == d \div g
<1>1. g \in Nat \ {0} /\ n % g = 0 /\ d % g = 0
  BY GcdIs
<1> HIDE DEF g
<1>2. p \in Nat \ {0} /\ q \in Nat \ {0} /\ n = p * g /\ d = q * g
  BY <1>1, Quotient
<1>3. Frac(n, d) = <<p, q>>
  BY DEF Frac, g
<1> HIDE DEF p, q
<1>4. p * (q * g) = (p * g) * q
  BY <1>1, <1>2
<1>5. p * d = n * q
  BY <1>2, <1>4
<1> QED
  BY <1>3, <1>5 DEF Worth

\* n of n parts are the whole.
LEMMA FracOne ==
  ASSUME NEW n \in Nat \ {0}
  PROVE  Frac(n, n) = Whole
<1>1. n % n = 0 /\ n \in 1..(n + n)
  OBVIOUS
<1>2. Gcd(n, n) \in 1..(n + n) /\ n % Gcd(n, n) = 0
      /\ \A h \in 1..(n + n) : n % h = 0 => h <= Gcd(n, n)
  <2>1. PICK g \in 1..(n + n) : g = n
    BY <1>1
  <2>2. \A h \in 1..(n + n) : n % h = 0 => h <= n
    <3> SUFFICES ASSUME NEW h \in 1..(n + n), n % h = 0 PROVE h <= n
      OBVIOUS
    <3>1. n \div h \in Nat \ {0} /\ n = (n \div h) * h
      BY Quotient
    <3> DEFINE k == n \div h
    <3>2. k \in Nat \ {0} /\ n = k * h /\ h \in Nat
      BY <3>1
    <3> HIDE DEF k
    <3>3. k * h >= h
      BY <3>2
    <3> QED
      BY <3>2, <3>3
  <2>3. \E m \in 1..(n + n) : (n % m = 0 /\ n % m = 0)
           /\ \A h \in 1..(n + n) : (n % h = 0 /\ n % h = 0) => h <= m
    BY <1>1, <2>2
  <2> QED
    BY <2>3 DEF Gcd
<1>3. Gcd(n, n) <= n
  <2> DEFINE h == Gcd(n, n)
  <2>1. n = (n \div h) * h /\ n \div h \in Nat \ {0} /\ h \in Nat \ {0}
    BY <1>2, Quotient
  <2> DEFINE k == n \div h
  <2>2. k \in Nat \ {0} /\ h \in Nat \ {0} /\ n = k * h
    BY <2>1
  <2> HIDE DEF k, h
  <2>3. k * h >= h
    BY <2>2
  <2>4. h <= n
    BY <2>2, <2>3
  <2> QED
    BY <2>4 DEF h
<1>4. Gcd(n, n) = n
  BY <1>1, <1>2, <1>3
<1>5. n \div n = 1
  OBVIOUS
<1> QED
  BY <1>4, <1>5 DEF Frac, Whole

\* Worths add up; a sum worth all parts is the whole itself, not just equal to it.
LEMMA PlusWorth ==
  ASSUME NEW x \in Fractions \cup {<<0, 1>>}, NEW y \in Fractions, NEW a \in Nat, NEW b \in Nat,
         NEW D \in Nat \ {0}, Worth(x, a, D), Worth(y, b, D)
  PROVE  Worth(Plus(x, y), a + b, D) /\ (a + b = D => Plus(x, y) = Whole)
<1>1. PICK m \in Nat, n \in Nat \ {0}, p \in Nat \ {0}, q \in Nat \ {0} : x[1] = m /\ x[2] = n /\ y[1] = p /\ y[2] = q
  BY FractionIs
<1> DEFINE u == m * q + p * n
           v == n * q
<1>2. u \in Nat \ {0} /\ v \in Nat \ {0}
  <2>1. p * n \in Nat \ {0} /\ v \in Nat \ {0}
    BY <1>1, Product
  <2>2. m * q \in Nat
    BY <1>1
  <2> QED
    BY <2>1, <2>2
<1>3. Plus(x, y) = Frac(u, v)
  BY <1>1 DEF Plus
<1>4. u * D = (a + b) * v
  <2>1. m * D = a * n /\ p * D = b * q
    BY <1>1 DEF Worth
  <2>2. (m * D) * q = (a * n) * q /\ (p * D) * n = (b * q) * n
    BY <2>1
  <2>3. u * D = (m * D) * q + (p * D) * n
    BY <1>1
  <2>4. (a * n) * q + (b * q) * n = (a + b) * v
    BY <1>1
  <2> QED
    BY <2>2, <2>3, <2>4
<1>5. PICK i \in Nat \ {0}, j \in Nat \ {0} : Frac(u, v)[1] = i /\ Frac(u, v)[2] = j
  <2> HIDE DEF u, v
  <2> QED
    BY <1>2, FracIs, FractionIs
<1>6. i * v = u * j
  <2> HIDE DEF u, v
  <2> QED
    BY <1>2, <1>5, FracWorth DEF Worth
<1> HIDE DEF u, v
<1>7. i * D = (a + b) * j
  <2>1. (i * v) * D = (u * j) * D
    BY <1>6
  <2>2. (u * D) * j = ((a + b) * v) * j
    BY <1>4
  <2>3. (i * D) * v = (i * v) * D /\ (u * j) * D = (u * D) * j /\ ((a + b) * v) * j = ((a + b) * j) * v
    BY <1>2, <1>5
  <2>4. (i * D) * v = ((a + b) * j) * v
    BY <2>1, <2>2, <2>3
  <2>5. i * D \in Nat /\ (a + b) * j \in Nat
    BY <1>5
  <2> QED
    BY <1>2, <2>4, <2>5, Cancel
<1>8. ASSUME a + b = D PROVE Plus(x, y) = Whole
  <2>1. u * D = v * D
    BY <1>2, <1>4, <1>8
  <2>2. u = v
    BY <1>2, <2>1, Cancel
  <2> QED
    BY <1>2, <1>3, <2>2, FracOne
<1> QED
  BY <1>3, <1>5, <1>7, <1>8 DEF Worth

\* A share of a share, in smaller parts.
LEMMA TimesWorth ==
  ASSUME NEW x \in Fractions, NEW n \in Nat \ {0}, NEW d \in Nat \ {0}, NEW a \in Nat,
         NEW D \in Nat \ {0}, Worth(x, a, D)
  PROVE  Worth(Times(x, n, d), a * n, D * d)
<1>1. PICK k \in Nat \ {0}, l \in Nat \ {0} : x[1] = k /\ x[2] = l
  BY FractionIs
<1> DEFINE u == k * n
           v == l * d
<1>2. u \in Nat \ {0} /\ v \in Nat \ {0}
  BY <1>1, Product
<1>3. Times(x, n, d) = Frac(u, v)
  BY <1>1 DEF Times
<1>4. u * (D * d) = (a * n) * v
  <2>1. k * D = a * l
    BY <1>1 DEF Worth
  <2>2. (k * D) * (n * d) = (a * l) * (n * d)
    BY <2>1
  <2>3. u * (D * d) = (k * D) * (n * d) /\ (a * l) * (n * d) = (a * n) * v
    BY <1>1
  <2> QED
    BY <2>2, <2>3
<1>5. PICK i \in Nat \ {0}, j \in Nat \ {0} : Frac(u, v)[1] = i /\ Frac(u, v)[2] = j
  <2> HIDE DEF u, v
  <2> QED
    BY <1>2, FracIs, FractionIs
<1>6. i * v = u * j
  <2> HIDE DEF u, v
  <2> QED
    BY <1>2, <1>5, FracWorth DEF Worth
<1> HIDE DEF u, v
<1>7. i * (D * d) = (a * n) * j
  <2> DEFINE E == D * d
             b == a * n
  <2>0. E \in Nat /\ b \in Nat /\ u * E = b * v
    BY <1>4
  <2> HIDE DEF E, b
  <2>1. (i * v) * E = (u * j) * E
    BY <1>6
  <2>2. (u * E) * j = (b * v) * j
    BY <2>0
  <2>3. (i * E) * v = (i * v) * E /\ (u * j) * E = (u * E) * j /\ (b * v) * j = (b * j) * v
    BY <1>2, <1>5, <2>0
  <2>4. (i * E) * v = (b * j) * v
    BY <2>1, <2>2, <2>3
  <2>5. i * E \in Nat /\ b * j \in Nat
    BY <1>5, <2>0
  <2>6. i * E = b * j
    BY <1>2, <2>4, <2>5, Cancel
  <2> QED
    BY <2>6 DEF E, b
<1> QED
  BY <1>3, <1>5, <1>7 DEF Worth

\* The dividers of the first n shares of s, each a whole number of 1/D.
Divided(s, n, g, D) ==
  /\ g \in [0..n -> Nat] /\ g[0] = 0
  /\ \A i \in 1..n : \E a \in Nat : g[i] = g[i - 1] + a /\ Worth(s[i], a, D)

\* Smaller parts, but more of them, are worth the same.
LEMMA SameWorth ==
  ASSUME NEW x \in Fractions, NEW a \in Nat, NEW D \in Nat \ {0}, NEW k \in Nat \ {0}, Worth(x, a, D)
  PROVE  Worth(x, a * k, D * k)
<1>1. PICK p \in Nat \ {0}, q \in Nat \ {0} : x[1] = p /\ x[2] = q
  BY FractionIs
<1>2. p * D = a * q
  BY <1>1 DEF Worth
<1>3. (p * D) * k = (a * q) * k
  BY <1>2
<1>4. p * (D * k) = (p * D) * k /\ (a * k) * q = (a * q) * k
  BY <1>1
<1> QED
  BY <1>1, <1>3, <1>4 DEF Worth

\* Every list of shares has a common denominator.
LEMMA Dividers ==
  ASSUME NEW s \in Seq(Fractions)
  PROVE  \E D \in Nat \ {0} : \E g \in [0..Len(s) -> Nat] : Divided(s, Len(s), g, D)
<1> DEFINE n == Len(s)
           Can(k) == \E D \in Nat \ {0} : \E g \in [0..k -> Nat] : Divided(s, k, g, D)
           S == {k \in Nat : k <= n => Can(k)}
<1>1. n \in Nat /\ \A i \in 1..n : s[i] \in Fractions
  OBVIOUS
<1> HIDE DEF n
<1>2. 0 \in S
  <2>1. [i \in 0..0 |-> 0] \in [0..0 -> Nat] /\ Divided(s, 0, [i \in 0..0 |-> 0], 1)
    BY DEF Divided
  <2>2. Can(0)
    BY <2>1
  <2> HIDE DEF Can
  <2> QED
    BY <2>2
<1>3. ASSUME NEW k \in Nat, k + 1 <= n, Can(k) PROVE Can(k + 1)
  <2>1. k + 1 \in 1..n
    BY <1>1, <1>3
  <2>2. PICK D \in Nat \ {0}, g \in [0..k -> Nat] : Divided(s, k, g, D)
    BY <1>3
  <2>3. PICK p \in Nat \ {0}, q \in Nat \ {0} : s[k + 1][1] = p /\ s[k + 1][2] = q
    BY <1>1, <2>1, FractionIs
  <2> DEFINE E == D * q
             h == [i \in 0..(k + 1) |-> IF i = k + 1 THEN g[k] * q + (p * D) ELSE g[i] * q]
  <2>4. E \in Nat \ {0}
    BY <2>3, Product
  <2>5. h \in [0..(k + 1) -> Nat]
    <3>1. \A i \in 0..(k + 1) : i = k + 1 \/ i \in 0..k
      OBVIOUS
    <3>2. g[k] * q + (p * D) \in Nat /\ \A i \in 0..k : g[i] * q \in Nat
      BY <2>2, <2>3
    <3> QED
      BY <3>1, <3>2
  <2>6. h[0] = 0
    <3>1. g[0] = 0 /\ 0 # k + 1 /\ 0 * q = 0
      BY <2>2 DEF Divided
    <3> QED
      BY <3>1
  <2>7. ASSUME NEW i \in 1..(k + 1)
        PROVE  \E a \in Nat : h[i] = h[i - 1] + a /\ Worth(s[i], a, E)
    <3>0. h[i - 1] = g[i - 1] * q
      <4>1. i - 1 \in 0..(k + 1) /\ i - 1 # k + 1
        OBVIOUS
      <4> QED
        BY <4>1
    <3>1. CASE i = k + 1
      <4>1. h[i] = h[i - 1] + (p * D)
        <5>1. i - 1 = k
          BY <3>1
        <5> QED
          BY <3>0, <3>1, <5>1
      <4>2. p * (D * q) = (p * D) * q
        BY <2>3
      <4>3. Worth(s[i], p * D, E)
        BY <2>3, <3>1, <4>2 DEF Worth
      <4>4. p * D \in Nat
        BY <2>3
      <4> HIDE DEF h, E
      <4> QED
        BY <4>1, <4>3, <4>4
    <3>2. CASE i # k + 1
      <4>1. i \in 1..k /\ i \in 1..n
        BY <1>1, <1>3, <3>2
      <4>2. PICK u \in Nat \ {0}, v \in Nat \ {0} : s[i][1] = u /\ s[i][2] = v
        BY <1>1, <4>1, FractionIs
      <4>3. PICK a \in Nat : g[i] = g[i - 1] + a /\ Worth(s[i], a, D)
        BY <2>2, <4>1 DEF Divided
      <4>4. u * (D * q) = (a * q) * v
        <5>1. u * D = a * v
          BY <4>2, <4>3 DEF Worth
        <5>2. (u * D) * q = (a * v) * q
          BY <5>1
        <5>3. u * (D * q) = (u * D) * q /\ (a * v) * q = (a * q) * v
          BY <2>3, <4>2, <4>3
        <5> QED
          BY <5>2, <5>3
      <4>5. Worth(s[i], a * q, E) /\ a * q \in Nat
        BY <2>3, <4>2, <4>4 DEF Worth
      <4>6. g[i - 1] \in Nat
        <5>1. i - 1 \in 0..k
          BY <4>1
        <5> QED
          BY <5>1
      <4>7. h[i] = h[i - 1] + (a * q)
        <5>1. h[i] = g[i] * q
          BY <3>2
        <5>2. (g[i - 1] + a) * q = g[i - 1] * q + (a * q)
          BY <2>3, <4>6
        <5> HIDE DEF h
        <5> QED
          BY <3>0, <4>3, <5>1, <5>2
      <4> HIDE DEF h, E
      <4> QED
        BY <4>5, <4>7
    <3> QED
      BY <3>1, <3>2
  <2> HIDE DEF h, E
  <2>8. Divided(s, k + 1, h, E)
    BY <2>5, <2>6, <2>7 DEF Divided
  <2> QED
    BY <2>4, <2>5, <2>8
<1>4. ASSUME NEW k \in S PROVE k + 1 \in S
  <2> SUFFICES ASSUME k + 1 <= n PROVE Can(k + 1)
    BY DEF S
  <2>1. k \in Nat /\ k <= n
    BY <1>1
  <2>2. Can(k)
    BY <2>1
  <2> HIDE DEF S, Can
  <2> QED
    BY <1>3, <2>1, <2>2
<1>5. S = Nat
  <2>1. S \in SUBSET Nat
    OBVIOUS
  <2> HIDE DEF S
  <2> QED
    BY <1>2, <1>4, <2>1, Induction
<1>6. Can(n)
  <2>1. n \in S /\ n <= n
    <3> HIDE DEF S
    <3> QED
      BY <1>1, <1>5
  <2> HIDE DEF Can
  <2> QED
    BY <2>1
<1> QED
  BY <1>6 DEF n

\* The shares add up to what the last divider says.
LEMMA TotalWorth ==
  ASSUME NEW s \in Seq(Fractions), Len(s) # 0, NEW D \in Nat \ {0}, NEW g,
         Divided(s, Len(s), g, D)
  PROVE  /\ g[Len(s)] \in Nat /\ Worth(Total(s), g[Len(s)], D)
         /\ Total(s) = Whole <=> g[Len(s)] = D
<1>0. Len(s) \in Nat /\ \A i \in 1..Len(s) : s[i] \in Fractions
  OBVIOUS
<1>1. PICK f : /\ Total(s) = f[Len(s)] /\ f[0] = <<0, 1>>
               /\ \A i \in 1..Len(s) : f[i] = Plus(f[i - 1], s[i])
  BY <1>0, TotalIsSum
<1> DEFINE Right(i) == f[i] \in Fractions \cup {<<0, 1>>} /\ Worth(f[i], g[i], D)
           S == {i \in Nat : i <= Len(s) => Right(i)}
<1>2. 0 \in S
  <2>1. g[0] = 0
    BY DEF Divided
  <2>2. 0 * D = 0 * 1
    OBVIOUS
  <2>3. Worth(f[0], g[0], D)
    BY <1>1, <2>1, <2>2 DEF Worth
  <2> QED
    BY <1>1, <2>3
<1>3. ASSUME NEW i \in Nat, i + 1 <= Len(s), Right(i)
      PROVE  /\ f[i + 1] \in Fractions /\ Worth(f[i + 1], g[i + 1], D)
             /\ (g[i + 1] = D => f[i + 1] = Whole)
  <2>1. i + 1 \in 1..Len(s) /\ (i + 1) - 1 = i /\ i \in 0..Len(s)
    BY <1>0, <1>3
  <2>2. PICK a \in Nat : g[i + 1] = g[(i + 1) - 1] + a /\ Worth(s[i + 1], a, D)
    BY <2>1 DEF Divided
  <2>3. f[i + 1] = Plus(f[(i + 1) - 1], s[i + 1])
    BY <1>1, <2>1
  <2>4. f[i + 1] = Plus(f[i], s[i + 1]) /\ g[i + 1] = g[i] + a
    BY <2>1, <2>2, <2>3
  <2>5. s[i + 1] \in Fractions /\ g[i] \in Nat
    BY <1>0, <2>1 DEF Divided
  <2> QED
    BY <1>3, <2>2, <2>4, <2>5, PlusWorth, PlusIs
<1>4. ASSUME NEW i \in S PROVE i + 1 \in S
  <2> SUFFICES ASSUME i + 1 <= Len(s) PROVE Right(i + 1)
    BY DEF S
  <2>1. i \in Nat /\ i <= Len(s)
    BY <1>0
  <2>2. Right(i)
    BY <2>1
  <2>3. f[i + 1] \in Fractions /\ Worth(f[i + 1], g[i + 1], D)
    <3> HIDE DEF S, Right
    <3> QED
      BY <1>3, <2>1, <2>2
  <2> QED
    BY <2>3
<1>5. S = Nat
  <2>1. S \in SUBSET Nat
    OBVIOUS
  <2> HIDE DEF S
  <2> QED
    BY <1>2, <1>4, <2>1, Induction
<1>6. PICK i \in Nat : Len(s) = i + 1
  <2>1. Len(s) - 1 \in Nat /\ Len(s) = (Len(s) - 1) + 1
    BY <1>0
  <2> QED
    BY <2>1
<1>7. Right(i)
  <2>1. i <= Len(s)
    BY <1>0, <1>6
  <2>2. i \in S
    <3> HIDE DEF S
    <3> QED
      BY <1>5
  <2> QED
    BY <2>1, <2>2
<1>8. Worth(Total(s), g[Len(s)], D) /\ (g[Len(s)] = D => Total(s) = Whole)
  <2>1. i + 1 <= Len(s)
    BY <1>0, <1>6
  <2> HIDE DEF Right
  <2>2. Worth(f[i + 1], g[i + 1], D) /\ (g[i + 1] = D => f[i + 1] = Whole)
    BY <1>3, <1>7, <2>1
  <2> QED
    BY <1>1, <1>6, <2>2
<1>10. g[Len(s)] \in Nat
  <2>1. Len(s) \in 0..Len(s)
    BY <1>0
  <2> QED
    BY <2>1 DEF Divided
<1>9. ASSUME Total(s) = Whole PROVE g[Len(s)] = D
  <2>1. 1 * D = g[Len(s)] * 1
    BY <1>8, <1>9 DEF Worth, Whole
  <2> QED
    BY <1>10, <2>1
<1> QED
  BY <1>8, <1>9, <1>10

\* ... so the last divider of shares that are the whole is at the end.
LEMMA WholeDividers ==
  ASSUME NEW s \in Seq(Fractions), Len(s) # 0, Total(s) = Whole
  PROVE  \E D \in Nat \ {0} : \E g \in [0..Len(s) -> Nat] : Divided(s, Len(s), g, D) /\ g[Len(s)] = D
<1>1. PICK D \in Nat \ {0}, g \in [0..Len(s) -> Nat] : Divided(s, Len(s), g, D)
  BY Dividers
<1> QED
  BY <1>1, TotalWorth

\* Equal shares are the whole.
LEMMA EqualTotal ==
  ASSUME NEW n \in Nat \ {0}
  PROVE  Total(EqualSizes(n)) = Whole
<1> DEFINE s == EqualSizes(n)
           g == [i \in 0..n |-> i]
<1>1. s \in Seq(Fractions) /\ Len(s) = n
  BY EqualSizesIs
<1>2. ASSUME NEW i \in 1..n PROVE \E a \in Nat : g[i] = g[i - 1] + a /\ Worth(s[i], a, n)
  <2>1. g[i] = g[i - 1] + 1
    <3>1. i \in 0..n /\ i - 1 \in 0..n
      OBVIOUS
    <3> QED
      BY <3>1
  <2>2. s[i] = <<1, n>>
    BY DEF EqualSizes
  <2>3. Worth(<<1, n>>, 1, n)
    BY DEF Worth
  <2> HIDE DEF g, s
  <2> QED
    BY <2>1, <2>2, <2>3
<1>3. g \in [0..n -> Nat] /\ g[0] = 0 /\ g[n] = n
  OBVIOUS
<1> HIDE DEF g, s
<1>4. Divided(s, n, g, n)
  BY <1>2, <1>3 DEF Divided
<1>5. Total(s) = Whole
  BY <1>1, <1>3, <1>4, TotalWorth
<1> QED
  BY <1>5 DEF s

\* So are the shares of a row that gets another column,
LEMMA ScaledTotal ==
  ASSUME NEW s \in Seq(Fractions), NEW n \in Nat \ {0}, Len(s) = n, Total(s) = Whole
  PROVE  Total(Append([i \in DOMAIN s |-> Times(s[i], n, n + 1)], <<1, n + 1>>)) = Whole
<1> DEFINE u == [i \in DOMAIN s |-> Times(s[i], n, n + 1)]
           r == Append(u, <<1, n + 1>>)
           m == n + 1
<1>0. m \in Nat \ {0} /\ m = n + 1 /\ n \in 0..m /\ m \in 1..m
  OBVIOUS
<1>1. r \in Seq(Fractions) /\ Len(r) = m
  BY ScaledSizes
<1>2. (\A i \in 1..n : r[i] = Times(s[i], n, m)) /\ r[m] = <<1, m>>
  <2>1. u = [i \in 1..n |-> Times(s[i], n, m)]
    OBVIOUS
  <2>2. Len(u) = n /\ \A i \in 1..n : u[i] = Times(s[i], n, m)
    BY <2>1
  <2> HIDE DEF u, m
  <2> QED
    BY <1>0, <2>2
<1> HIDE DEF r
<1>3. PICK D \in Nat \ {0}, g \in [0..n -> Nat] : Divided(s, n, g, D) /\ g[n] = D
  BY WholeDividers
<1> DEFINE E == D * m
           h == [i \in 0..m |-> IF i = m THEN E ELSE g[i] * n]
<1>4. E \in Nat \ {0} /\ E = (D * n) + D
  BY <1>0
<1>5. \A i \in 0..n : h[i] = g[i] * n /\ g[i] \in Nat /\ g[i] * n \in Nat
  BY <1>3
<1>6. h[m] = E
  OBVIOUS
<1>7. h \in [0..m -> Nat]
  <2>1. \A i \in 0..m : i = m \/ i \in 0..n
    OBVIOUS
  <2>2. \A i \in 0..n : g[i] * n \in Nat
    BY <1>5
  <2> QED
    BY <1>4, <2>1, <2>2
<1> HIDE DEF h, E, m
<1>8. h[0] = 0
  <2>1. g[0] = 0 /\ 0 \in 0..n /\ 0 * n = 0
    BY <1>3 DEF Divided
  <2> QED
    BY <1>5, <2>1
<1>9. ASSUME NEW i \in 1..m PROVE \E a \in Nat : h[i] = h[i - 1] + a /\ Worth(r[i], a, E)
  <2>1. CASE i = m
    <3>1. i - 1 = n /\ n \in 0..n
      BY <1>0, <2>1
    <3>2. h[i] = h[i - 1] + D
      BY <1>3, <1>4, <1>5, <1>6, <2>1, <3>1
    <3>3. Worth(r[i], D, E)
      <4>1. Worth(<<1, m>>, D, E)
        BY <1>0, <1>4 DEF Worth, E
      <4> QED
        BY <1>2, <2>1, <4>1
    <3> QED
      BY <3>2, <3>3
  <2>2. CASE i # m
    <3>1. i \in 1..n /\ i \in 0..n /\ i - 1 \in 0..n
      BY <1>0, <2>2
    <3>2. PICK a \in Nat : g[i] = g[i - 1] + a /\ Worth(s[i], a, D)
      BY <1>3, <3>1 DEF Divided
    <3>3. Worth(r[i], a * n, E)
      <4>1. s[i] \in Fractions /\ r[i] = Times(s[i], n, m)
        BY <1>2, <3>1
      <4> QED
        <5>1. Worth(Times(s[i], n, m), a * n, D * m)
          BY <1>0, <3>2, <4>1, TimesWorth
        <5> QED
          BY <4>1, <5>1 DEF E
    <3>4. h[i] = h[i - 1] + (a * n) /\ a * n \in Nat
      <4>1. h[i] = g[i] * n /\ h[i - 1] = g[i - 1] * n /\ g[i - 1] \in Nat
        BY <1>5, <3>1
      <4> QED
        BY <3>2, <4>1
    <3> QED
      BY <3>3, <3>4
  <2> QED
    BY <2>1, <2>2
<1>10. Divided(r, m, h, E)
  BY <1>7, <1>8, <1>9 DEF Divided
<1>11. Total(r) = Whole
  BY <1>0, <1>1, <1>4, <1>6, <1>10, TotalWorth
<1> QED
  BY <1>11 DEF r, m

\* the shares closePane scales up,
LEMMA KeptTotal ==
  ASSUME NEW s \in Seq(Fractions), Len(s) # 0
  PROVE  Total([i \in DOMAIN s |-> Times(s[i], Total(s)[2], Total(s)[1])]) = Whole
<1> DEFINE n == Len(s)
<1>0. n \in Nat \ {0} /\ \A i \in 1..n : s[i] \in Fractions
  OBVIOUS
<1>1. PICK D \in Nat \ {0}, g \in [0..n -> Nat] : Divided(s, n, g, D)
  BY Dividers
<1>2. PICK p \in Nat \ {0}, q \in Nat \ {0} : Total(s)[1] = p /\ Total(s)[2] = q
  BY TotalIs, FractionIs
<1>3. p * D = g[n] * q
  BY <1>1, <1>2, TotalWorth DEF Worth
<1> DEFINE r == [i \in DOMAIN s |-> Times(s[i], q, p)]
           E == D * p
           h == [i \in 0..n |-> g[i] * q]
<1>4. [i \in DOMAIN s |-> Times(s[i], Total(s)[2], Total(s)[1])] = r
  BY <1>2
<1>5. r \in Seq(Fractions) /\ Len(r) = n /\ \A i \in 1..n : r[i] = Times(s[i], q, p)
  <2>1. \A i \in 1..n : Times(s[i], q, p) \in Fractions
    BY <1>0, TimesIs
  <2>2. DOMAIN s = 1..n
    OBVIOUS
  <2> HIDE DEF n
  <2> QED
    BY <1>0, <2>1, <2>2
<1> HIDE DEF r
<1>6. \A i \in 0..n : h[i] = g[i] * q /\ g[i] \in Nat /\ g[i] * q \in Nat
  BY <1>1
<1>7. h \in [0..n -> Nat]
  BY <1>6
<1> HIDE DEF h, n
<1>8. h[n] = E /\ E \in Nat \ {0}
  <2>1. h[n] = g[n] * q
    BY <1>0, <1>6
  <2>2. D * p = p * D
    OBVIOUS
  <2> QED
    BY <1>3, <2>1, <2>2, Product
<1>9. h[0] = 0
  <2>1. g[0] = 0 /\ 0 \in 0..n /\ 0 * q = 0
    BY <1>0, <1>1 DEF Divided
  <2> QED
    BY <1>6, <2>1
<1>10. ASSUME NEW i \in 1..n PROVE \E a \in Nat : h[i] = h[i - 1] + a /\ Worth(r[i], a, E)
  <2>1. i \in 0..n /\ i - 1 \in 0..n
    BY <1>0
  <2>2. PICK a \in Nat : g[i] = g[i - 1] + a /\ Worth(s[i], a, D)
    BY <1>1 DEF Divided
  <2>3. Worth(r[i], a * q, E)
    <3>1. s[i] \in Fractions /\ r[i] = Times(s[i], q, p)
      BY <1>0, <1>5
    <3>2. Worth(Times(s[i], q, p), a * q, D * p)
      BY <2>2, <3>1, TimesWorth
    <3> QED
      BY <3>1, <3>2
  <2>4. h[i] = h[i - 1] + (a * q) /\ a * q \in Nat
    <3>1. h[i] = g[i] * q /\ h[i - 1] = g[i - 1] * q /\ g[i - 1] \in Nat
      BY <1>6, <2>1
    <3> QED
      BY <2>2, <3>1
  <2> QED
    BY <2>3, <2>4
<1> HIDE DEF E
<1>11. Divided(r, n, h, E)
  BY <1>7, <1>9, <1>10 DEF Divided
<1>12. Total(r) = Whole
  BY <1>0, <1>5, <1>8, <1>11, TotalWorth
<1> QED
  BY <1>4, <1>12

\* InsertAt in terms of Inserted.
LEMMA InsertedAt ==
  ASSUME NEW S, NEW s \in Seq(S), NEW at \in 1..(Len(s) + 1), NEW e \in S
  PROVE  InsertAt(s, at, e) \in Seq(S) /\ Inserted(s, at, e, InsertAt(s, at, e))
BY InsertAtIs DEF Inserted

\* r is s with two halves in the place of the i-th share.
Halves(s, i, half, r) ==
  /\ r \in Seq(Fractions) /\ Len(r) = Len(s) + 1
  /\ r[i] = half /\ r[i + 1] = half
  /\ \A j \in 1..(i - 1) : r[j] = s[j]
  /\ \A j \in (i + 1)..Len(s) : r[j + 1] = s[j]

\* So the two halves are beside each other, in either order.
LEMMA HalvesAre ==
  ASSUME NEW s \in Seq(Fractions), NEW i \in 1..Len(s), NEW at \in {i, i + 1},
         NEW half \in Fractions
  PROVE  Halves(s, i, half, InsertAt(ReplaceAt(s, i, half), at, half))
<1> DEFINE r == InsertAt(ReplaceAt(s, i, half), at, half)
           u == ReplaceAt(s, i, half)
           n == Len(s)
<1>1. n \in Nat /\ i \in 1..n /\ at \in 1..(n + 1)
  OBVIOUS
<1>2. u \in Seq(Fractions) /\ Len(u) = n
  BY ReplaceAtIs
<1>3. u[i] = half /\ \A j \in 1..n : j # i => u[j] = s[j]
  BY DEF ReplaceAt
<1> HIDE DEF u
<1>4. /\ r \in Seq(Fractions) /\ Len(r) = Len(u) + 1 /\ r[at] = half
      /\ \A j \in 1..(at - 1) : r[j] = u[j]
      /\ \A j \in at..Len(u) : r[j + 1] = u[j]
  <2>1. at \in 1..(Len(u) + 1) /\ r = InsertAt(u, at, half)
    BY <1>1, <1>2 DEF u
  <2> HIDE DEF n
  <2> QED
    <3> DEFINE v == InsertAt(u, at, half)
    <3>1. /\ v \in Seq(Fractions) /\ Len(v) = Len(u) + 1 /\ v[at] = half
          /\ \A j \in 1..(at - 1) : v[j] = u[j]
          /\ \A j \in at..Len(u) : v[j + 1] = u[j]
      <4> HIDE DEF v, r
      <4>1. v \in Seq(Fractions) /\ Inserted(u, at, half, v)
        BY <1>2, <2>1, InsertedAt DEF v
      <4> QED
        BY <4>1 DEF Inserted
    <3> QED
      BY <2>1, <3>1
<1> HIDE DEF n, r
<1>5. \A j \in 1..(i - 1) : r[j] = s[j]
  <2> SUFFICES ASSUME NEW j \in 1..(i - 1) PROVE r[j] = s[j]
    OBVIOUS
  <2>1. j \in 1..(at - 1) /\ j \in 1..n /\ j # i
    BY <1>1
  <2> QED
    BY <1>3, <1>4, <2>1
<1>6. \A j \in (i + 1)..n : r[j + 1] = s[j]
  <2> SUFFICES ASSUME NEW j \in (i + 1)..n PROVE r[j + 1] = s[j]
    OBVIOUS
  <2>1. j \in at..Len(u) /\ j \in 1..n /\ j # i
    BY <1>1, <1>2
  <2> QED
    BY <1>3, <1>4, <2>1
<1>7. r[i] = half /\ r[i + 1] = half
  <2>1. CASE at = i
    <3>1. i \in at..Len(u)
      BY <1>1, <1>2, <2>1
    <3> QED
      BY <1>3, <1>4, <2>1, <3>1
  <2>2. CASE at = i + 1
    <3>1. i \in 1..(at - 1)
      BY <1>1, <2>2
    <3> QED
      BY <1>3, <1>4, <2>2, <3>1
  <2> QED
    BY <2>1, <2>2
<1> QED
  BY <1>2, <1>4, <1>5, <1>6, <1>7 DEF n, r, Halves

\* the shares with one of them halved for a new child,
LEMMA HalvedTotal ==
  ASSUME NEW s \in Seq(Fractions), Total(s) = Whole, NEW i \in 1..Len(s), NEW at \in {i, i + 1},
         NEW r, r = InsertAt(ReplaceAt(s, i, Times(s[i], 1, 2)), at, Times(s[i], 1, 2))
  PROVE  Total(r) = Whole
<1> DEFINE n == Len(s)
           m == n + 1
           half == Times(s[i], 1, 2)
<1>0. n \in Nat \ {0} /\ \A j \in 1..n : s[j] \in Fractions
  OBVIOUS
<1>1. s[i] \in Fractions /\ half \in Fractions
  BY TimesIs
<1>2. /\ r \in Seq(Fractions) /\ Len(r) = m /\ r[i] = half /\ r[i + 1] = half
      /\ \A j \in 1..(i - 1) : r[j] = s[j]
      /\ \A j \in (i + 1)..n : r[j + 1] = s[j]
  <2>1. r = InsertAt(ReplaceAt(s, i, half), at, half)
    OBVIOUS
  <2> HIDE DEF half
  <2>2. Halves(s, i, half, InsertAt(ReplaceAt(s, i, half), at, half))
    BY <1>1, HalvesAre
  <2>3. Halves(s, i, half, r)
    BY <2>1, <2>2
  <2> QED
    BY <2>3 DEF Halves
<1>3. PICK D \in Nat \ {0}, g \in [0..n -> Nat] : Divided(s, n, g, D) /\ g[n] = D
  BY <1>0, WholeDividers
<1> DEFINE E == D * 2
           h == [j \in 0..m |-> IF j < i THEN g[j] * 2 ELSE IF j = i THEN g[i - 1] + g[i] ELSE g[j - 1] * 2]
<1>4. /\ h \in [0..m -> Nat] /\ h[0] = 0 /\ h[m] = E
      /\ \A j \in 0..(i - 1) : h[j] = g[j] * 2
      /\ h[i] = g[i - 1] + g[i]
      /\ \A j \in (i + 1)..m : h[j] = g[j - 1] * 2
  <2>0. i \in 1..n /\ m = n + 1
    OBVIOUS
  <2> HIDE DEF n
  <2>1. \A j \in 0..n : g[j] \in Nat
    BY <1>3
  <2>2. \A j \in 0..m : (j < i => j \in 0..n) /\ (j > i => j - 1 \in 0..n)
    BY <1>0, <2>0
  <2>3. i - 1 \in 0..n /\ i \in 0..n
    BY <1>0, <2>0
  <2>4. h \in [0..m -> Nat]
    BY <1>0, <2>0, <2>1, <2>2, <2>3
  <2>5. h[0] = 0
    <3>1. g[0] = 0 /\ 0 < i /\ 0 \in 0..m
      BY <1>0, <1>3, <2>0 DEF Divided
    <3> QED
      BY <3>1
  <2>6. h[m] = E
    <3>1. m \in 0..m /\ m > i /\ m - 1 = n
      BY <1>0, <2>0
    <3> QED
      BY <1>3, <3>1
  <2>7. /\ \A j \in 0..(i - 1) : h[j] = g[j] * 2
        /\ h[i] = g[i - 1] + g[i]
        /\ \A j \in (i + 1)..m : h[j] = g[j - 1] * 2
    BY <1>0, <2>0
  <2> QED
    BY <2>4, <2>5, <2>6, <2>7
<1> HIDE DEF h, half, n, m
<1>5. i \in 1..n /\ m = n + 1
  BY DEF n, m
<1>6. ASSUME NEW j \in 1..m PROVE \E a \in Nat : h[j] = h[j - 1] + a /\ Worth(r[j], a, E)
  <2>1. PICK a \in Nat : g[i] = g[i - 1] + a /\ Worth(s[i], a, D)
    BY <1>3, <1>5 DEF Divided
  <2>2. Worth(half, a, E)
    <3>1. Worth(Times(s[i], 1, 2), a * 1, D * 2)
      BY <1>1, <2>1, TimesWorth
    <3> QED
      BY <3>1 DEF half
  <2>3. g[i - 1] \in Nat /\ i - 1 \in 0..(i - 1)
    <3>1. i - 1 \in 0..n /\ i - 1 \in 0..(i - 1)
      BY <1>0, <1>5
    <3> QED
      BY <1>3, <3>1
  <2>4. CASE j < i
    <3>1. j \in 1..n /\ j \in 1..(i - 1) /\ j \in 0..(i - 1) /\ j - 1 \in 0..(i - 1) /\ j - 1 \in 0..n
      BY <1>0, <1>5, <2>4
    <3>2. PICK b \in Nat : g[j] = g[j - 1] + b /\ Worth(s[j], b, D)
      BY <1>3, <3>1 DEF Divided
    <3>3. Worth(s[j], b * 1, D) /\ b * 2 \in Nat
      BY <3>2
    <3>4. Worth(r[j], b * 2, E)
      <4>1. r[j] = s[j] /\ s[j] \in Fractions
        BY <1>0, <1>2, <3>1
      <4> QED
        BY <3>2, <4>1, SameWorth
    <3>5. h[j] = h[j - 1] + (b * 2)
      <4>1. h[j] = g[j] * 2 /\ h[j - 1] = g[j - 1] * 2 /\ g[j - 1] \in Nat
        BY <1>3, <1>4, <3>1
      <4> QED
        BY <3>2, <4>1
    <3> QED
      BY <3>3, <3>4, <3>5
  <2>5. CASE j = i
    <3>1. h[j] = h[j - 1] + a
      BY <1>4, <2>1, <2>3, <2>5
    <3> QED
      BY <1>2, <2>2, <2>5, <3>1
  <2>6. CASE j = i + 1
    <3>1. j - 1 = i /\ j \in (i + 1)..m
      BY <1>0, <1>5, <2>6
    <3>2. h[j] = h[j - 1] + a
      BY <1>4, <2>1, <2>3, <3>1
    <3> QED
      BY <1>2, <2>2, <2>6, <3>2
  <2>7. CASE j > i + 1
    <3>1. PICK k \in (i + 1)..n : j = k + 1
      <4>1. j - 1 \in (i + 1)..n /\ j = (j - 1) + 1
        BY <1>0, <1>5, <2>7
      <4> QED
        BY <4>1
    <3>2. k \in 1..n /\ k \in (i + 1)..m /\ j \in (i + 1)..m /\ j - 1 = k /\ k - 1 \in 0..n
      BY <1>0, <1>5, <3>1
    <3>3. PICK b \in Nat : g[k] = g[k - 1] + b /\ Worth(s[k], b, D)
      BY <1>3, <3>2 DEF Divided
    <3>4. Worth(r[j], b * 2, E) /\ b * 2 \in Nat
      <4>1. r[j] = s[k] /\ s[k] \in Fractions
        BY <1>0, <1>2, <3>1, <3>2
      <4> QED
        BY <3>3, <4>1, SameWorth
    <3>5. h[j] = h[j - 1] + (b * 2)
      <4>1. h[j] = g[k] * 2 /\ h[j - 1] = g[k - 1] * 2 /\ g[k - 1] \in Nat
        BY <1>3, <1>4, <3>2
      <4> QED
        BY <3>3, <4>1
    <3> QED
      BY <3>4, <3>5
  <2> QED
    BY <1>0, <1>5, <2>4, <2>5, <2>6, <2>7
<1>7. E \in Nat \ {0} /\ m \in Nat \ {0}
  BY <1>0, <1>5
<1> HIDE DEF E
<1>8. Divided(r, m, h, E)
  BY <1>4, <1>6 DEF Divided
<1> QED
  BY <1>2, <1>4, <1>7, <1>8, TotalWorth

\* and the shares after a divider moved.
LEMMA DividerTotal ==
  ASSUME NEW s \in Seq(Fractions), Total(s) = Whole, NEW i \in 1..(Len(s) - 1),
         NEW span, span = Plus(s[i], s[i + 1]),
         NEW r, r = [s EXCEPT ![i] = Times(span, 1, 4), ![i + 1] = Times(span, 3, 4)]
  PROVE  Total(r) = Whole
<1> DEFINE n == Len(s)
           k == i + 1
<1>0. n \in Nat \ {0} /\ i \in 1..n /\ k \in 1..n /\ i # k /\ k = i + 1 /\ \A j \in 1..n : s[j] \in Fractions
  OBVIOUS
<1>1. s[i] \in Fractions /\ s[k] \in Fractions /\ span \in Fractions
  BY <1>0, PlusIs
<1>2. r \in Seq(Fractions) /\ Len(r) = n
  BY MovedDivider
<1>3. r[i] = Times(span, 1, 4) /\ r[k] = Times(span, 3, 4) /\ \A j \in 1..n : j # i /\ j # k => r[j] = s[j]
  OBVIOUS
<1>4. PICK D \in Nat \ {0}, g \in [0..n -> Nat] : Divided(s, n, g, D) /\ g[n] = D
  BY <1>0, WholeDividers
<1> HIDE DEF n, k
<1>5. PICK a \in Nat : g[i] = g[i - 1] + a /\ Worth(s[i], a, D)
  BY <1>0, <1>4 DEF Divided
<1>6. PICK b \in Nat : g[k] = g[k - 1] + b /\ Worth(s[k], b, D)
  BY <1>0, <1>4 DEF Divided
<1>15. PICK t \in Nat : t = a + b
  OBVIOUS
<1>7. Worth(span, t, D)
  <2>1. Worth(Plus(s[i], s[k]), a + b, D)
    <3>1. s[i] \in Fractions \cup {<<0, 1>>} /\ s[k] \in Fractions
      BY <1>1
    <3>2. Worth(s[i], a, D) /\ Worth(s[k], b, D)
      BY <1>5, <1>6
    <3>3. \A x \in Fractions \cup {<<0, 1>>}, y \in Fractions :
            Worth(x, a, D) /\ Worth(y, b, D) => Worth(Plus(x, y), a + b, D)
      BY PlusWorth
    <3> QED
      BY <3>1, <3>2, <3>3
  <2>2. span = Plus(s[i], s[k])
    BY <1>0
  <2> QED
    BY <1>15, <2>1, <2>2
<1> DEFINE E == D * 4
           h == [j \in 0..n |-> IF j = i THEN (g[i - 1] * 4) + t ELSE g[j] * 4]
<1>8. \A j \in 0..n : g[j] \in Nat
  BY <1>4
<1>9. i - 1 \in 0..n /\ i - 1 # i /\ k - 1 = i /\ k \in 0..n /\ i \in 0..n /\ n \in 0..n /\ 0 \in 0..n /\ n # i
  <2>1. n \in Nat /\ i \in 1..n /\ k \in 1..n /\ k = i + 1
    BY <1>0
  <2>2. i - 1 \in 0..n /\ i - 1 # i /\ i \in 0..n
    BY <2>1
  <2>3. k - 1 = i /\ k \in 0..n /\ n # i
    BY <2>1
  <2>4. n \in 0..n /\ 0 \in 0..n
    BY <2>1
  <2> QED
    BY <2>2, <2>3, <2>4
<1>10. h \in [0..n -> Nat] /\ h[i] = (g[i - 1] * 4) + t /\ \A j \in 0..n : j # i => h[j] = g[j] * 4
  BY <1>8, <1>9
<1> HIDE DEF h
<1>11. h[0] = 0 /\ h[n] = E
  <2>1. g[0] = 0 /\ 0 # i
    BY <1>0, <1>4 DEF Divided
  <2> QED
    BY <1>4, <1>9, <1>10, <2>1
<1>12. ASSUME NEW j \in 1..n PROVE \E c \in Nat : h[j] = h[j - 1] + c /\ Worth(r[j], c, E)
  <2>1. CASE j = i
    <3>1. h[j] = h[j - 1] + t
      BY <1>9, <1>10, <2>1
    <3>2. Worth(r[j], t * 1, E)
      <4>1. Worth(Times(span, 1, 4), t * 1, D * 4)
        BY <1>1, <1>7, TimesWorth
      <4> QED
        BY <1>3, <2>1, <4>1
    <3>3. t * 1 = t
      OBVIOUS
    <3> HIDE DEF E
    <3> QED
      BY <3>1, <3>2, <3>3
  <2>2. CASE j = k
    <3>1. Worth(r[j], t * 3, E)
      <4>1. Worth(Times(span, 3, 4), t * 3, D * 4)
        BY <1>1, <1>7, TimesWorth
      <4> QED
        BY <1>3, <2>2, <4>1
    <3>2. h[j] = g[k] * 4 /\ h[j - 1] = (g[i - 1] * 4) + t
      BY <1>0, <1>9, <1>10, <2>2
    <3>3. g[k] = g[i - 1] + t /\ g[i - 1] \in Nat
      BY <1>5, <1>6, <1>8, <1>9, <1>15
    <3>4. h[j] = h[j - 1] + (t * 3) /\ t * 3 \in Nat
      BY <3>2, <3>3
    <3> HIDE DEF E
    <3> QED
      BY <3>1, <3>4
  <2>3. CASE j # i /\ j # k
    <3>1. j \in 0..n /\ j - 1 \in 0..n /\ j - 1 # i
      BY <1>0, <1>9, <2>3
    <3>2. PICK c \in Nat : g[j] = g[j - 1] + c /\ Worth(s[j], c, D)
      BY <1>4 DEF Divided
    <3>3. Worth(r[j], c * 4, E) /\ c * 4 \in Nat
      <4>1. r[j] = s[j] /\ s[j] \in Fractions
        BY <1>0, <1>3, <2>3
      <4> QED
        BY <3>2, <4>1, SameWorth
    <3>4. h[j] = h[j - 1] + (c * 4)
      <4>1. h[j] = g[j] * 4 /\ h[j - 1] = g[j - 1] * 4 /\ g[j - 1] \in Nat
        BY <1>8, <1>10, <2>3, <3>1
      <4> QED
        BY <3>2, <4>1
    <3> HIDE DEF E
    <3> QED
      BY <3>3, <3>4
  <2> QED
    BY <2>1, <2>2, <2>3
<1>13. E \in Nat \ {0}
  OBVIOUS
<1> HIDE DEF E
<1>14. Divided(r, n, h, E)
  BY <1>10, <1>11, <1>12 DEF Divided
<1> QED
  BY <1>0, <1>2, <1>11, <1>13, <1>14, TotalWorth

-----------------------------------------------------------------------------
(* Closing a pane. *)

\* Trees of at most d splits above each other; a definition of its own keeps the equations
\* of TreesUpTo out of the steps below.
UpTo(d) == TreesUpTo[d]

\* What the steps below need of depths.
LEMMA Depths ==
  /\ \A d \in 0..(MaxTreePanes - 1) : UpTo(d) \subseteq UpTo(d + 1)
  /\ \A d \in 0..MaxTreePanes : UpTo(d) \subseteq Tree
  /\ UpTo(MaxTreePanes) = Tree
BY DeeperTrees DEF UpTo, Tree

\* A split of depth d has children of depth d - 1.
LEMMA SplitAt ==
  ASSUME NEW d \in 0..MaxTreePanes, NEW t \in UpTo(d), t.type = "split"
  PROVE  d - 1 \in 0..(MaxTreePanes - 1) /\ t.children \in Seq(UpTo(d - 1))
<1>1. d # 0
  <2>1. \A u \in Leaves : u.type # "split"
    BY DEF Leaves
  <2> QED
    BY <2>1, TreesByDepth DEF UpTo
<1>2. d - 1 \in Nat /\ (d - 1) + 1 = d /\ (d - 1) + 1 <= MaxTreePanes /\ d - 1 \in 0..(MaxTreePanes - 1)
  BY <1>1, TreeBounds
<1>3. t \in Splits(UpTo(d - 1))
  BY <1>2, SubtreesAbove DEF UpTo
<1> QED
  BY <1>2, <1>3 DEF Splits

\* A split over trees of depth d is a tree of depth d + 1, with these parts.
LEMMA SplitOf ==
  ASSUME NEW d \in 0..(MaxTreePanes - 1), NEW dir \in Directions,
         NEW children \in Seq(UpTo(d)), NEW sizes \in Seq(Fractions)
  PROVE  /\ Split(dir, children, sizes) \in UpTo(d + 1) /\ Split(dir, children, sizes) \in Tree
         /\ Split(dir, children, sizes).type = "split" /\ Split(dir, children, sizes).dir = dir
         /\ Split(dir, children, sizes).children = children /\ Split(dir, children, sizes).sizes = sizes
<1>1. d + 1 \in 1..MaxTreePanes /\ d + 1 \in 0..MaxTreePanes /\ (d + 1) - 1 = d
  BY TreeBounds
<1>2. Split(dir, children, sizes) \in Splits(UpTo(d))
  BY DEF Split, Splits
<1>3. Split(dir, children, sizes) \in UpTo(d + 1)
  BY <1>1, <1>2, TreesByDepth DEF UpTo
<1>4. Split(dir, children, sizes) \in Tree
  BY <1>1, <1>3, Depths
<1> QED
  BY <1>3, <1>4 DEF Split

\* No tree is the nothing that closing a last pane leaves.
LEMMA TreeIsOne ==
  ASSUME NEW t \in Tree
  PROVE  t # NoTree
BY TreeCases DEF NoTree

\* Of n children only the d-th goes, or none.
OnlyGone(after, n, d) == \A i \in 1..n : after[i] = NoTree <=> i = d

\* What is left of t when only the d-th child goes: children left[1] to left[c].
Remains(t, after, d, c, left) ==
  /\ c = IF d \in 1..Len(t.children) THEN Len(t.children) - 1 ELSE Len(t.children)
  /\ \A i, j \in 1..c : i < j => left[i] < left[j]
  /\ \A i \in 1..c : left[i] # d
  /\ \A k \in 1..Len(t.children) : k # d => \E i \in 1..c : left[i] = k
  /\ c = 1 => Survivors(t, after) = after[left[1]]
  /\ c > 1 => \E sizes \in Seq(Fractions) :
                /\ Len(sizes) = c /\ Total(sizes) = Whole
                /\ Survivors(t, after) = Split(t.dir, [k \in 1..c |-> after[left[k]]], sizes)

\* If closing empties at most one child, the others stay, in their order; a lone one
\* takes the split's place.
LEMMA SurvivorsAre ==
  ASSUME NEW t \in Tree, t.type = "split", IsWhole[t], NEW after, DOMAIN after = 1..Len(t.children),
         NEW d, OnlyGone(after, Len(t.children), d)
  PROVE  \E c \in Nat : \E left \in [1..c -> 1..Len(t.children)] : Remains(t, after, d, c, left)
<1> DEFINE n == Len(t.children)
           D == {i \in DOMAIN after : after[i] # NoTree}
           c == Cardinality(D)
           left == Ascending(D)
           children == [k \in DOMAIN left |-> after[left[k]]]
           sizes == [k \in DOMAIN left |-> t.sizes[left[k]]]
<1>1. n \in Nat /\ n >= 2 /\ t.sizes \in Seq(Fractions) /\ Len(t.sizes) = n
  BY SplitIs, WholeIs, TreeCases
<1>2. D = (1..n) \ {d}
  BY DEF OnlyGone
<1> HIDE DEF n, D
<1>3. /\ c = IF d \in 1..n THEN n - 1 ELSE n
      /\ left \in [1..c -> D]
      /\ \A i, j \in 1..c : i < j => left[i] < left[j]
      /\ \A k \in D : \E i \in 1..c : left[i] = k
  <2>1. n \in Nat
    BY <1>1
  <2> QED
    <3>1. c = IF d \in 1..n THEN n - 1 ELSE n
      BY <2>1, <1>2, AscendingIs
    <3>2. left \in [1..c -> D]
      BY <2>1, <1>2, AscendingIs
    <3>3. ASSUME NEW i \in 1..c, NEW j \in 1..c, i < j PROVE left[i] < left[j]
      BY <2>1, <1>2, <3>3, AscendingIs
    <3>4. Ascending(D) \in Surjection(1..Cardinality(D), D)
      BY <2>1, <1>2, AscendingIs
    <3>5. \A k \in D : \E i \in 1..c : left[i] = k
      BY <3>4 DEF Surjection
    <3> QED
      BY <3>1, <3>2, <3>3, <3>5
<1>4. Survivors(t, after) = Kept(t, children, sizes)
  BY DEF Survivors, D
<1> HIDE DEF c, left
<1>5. c \in Nat /\ c >= 1 /\ left \in [1..c -> 1..n] /\ \A i \in 1..c : left[i] # d
  BY <1>1, <1>2, <1>3
<1>6. DOMAIN left = 1..c
  BY <1>3
<1>7. children = [k \in 1..c |-> after[left[k]]] /\ Len(children) = c /\ children # <<>>
  <2>1. children = [k \in 1..c |-> after[left[k]]]
    BY <1>6
  <2>2. Len(children) = c
    BY <1>5, <2>1
  <2> QED
    BY <1>5, <2>1, <2>2
<1>8. sizes \in Seq(Fractions) /\ Len(sizes) = c
  <2>1. \A k \in 1..c : t.sizes[left[k]] \in Fractions
    BY <1>1, <1>5
  <2> QED
    BY <1>5, <1>6, <2>1
<1> HIDE DEF children, sizes
<1>9. c = 1 => Survivors(t, after) = after[left[1]]
  <2> SUFFICES ASSUME c = 1 PROVE Survivors(t, after) = after[left[1]]
    OBVIOUS
  <2>1. Kept(t, children, sizes) = children[1]
    BY <1>7 DEF Kept
  <2>2. children[1] = after[left[1]]
    BY <1>7
  <2> QED
    BY <1>4, <2>1, <2>2
<1>10. ASSUME c > 1
       PROVE  \E s \in Seq(Fractions) :
                /\ Len(s) = c /\ Total(s) = Whole
                /\ Survivors(t, after) = Split(t.dir, [k \in 1..c |-> after[left[k]]], s)
  <2> DEFINE s == [i \in DOMAIN sizes |-> Times(sizes[i], Total(sizes)[2], Total(sizes)[1])]
  <2>1. Total(sizes)[1] \in Nat \ {0} /\ Total(sizes)[2] \in Nat \ {0}
    BY <1>5, <1>8, TotalIs, FractionIs
  <2>2. \A i \in 1..c : sizes[i] \in Fractions
    BY <1>8
  <2>3. \A i \in 1..c : Times(sizes[i], Total(sizes)[2], Total(sizes)[1]) \in Fractions
    BY <2>1, <2>2, TimesIs
  <2>4. DOMAIN sizes = 1..c
    BY <1>8
  <2>5. s \in Seq(Fractions) /\ Len(s) = c
    BY <1>5, <2>3, <2>4
  <2>8. Total(s) = Whole
    <3>1. sizes \in Seq(Fractions) /\ Len(sizes) # 0
      BY <1>5, <1>8
    <3>2. Total([i \in DOMAIN sizes |-> Times(sizes[i], Total(sizes)[2], Total(sizes)[1])]) = Whole
      BY <3>1, KeptTotal
    <3> QED
      BY <3>2
  <2>6. children # <<>> /\ Len(children) # 1
    <3>1. children # <<>>
      BY <1>7
    <3>2. Len(children) = c
      BY <1>7
    <3>3. c # 1
      BY <1>5, <1>10
    <3> QED
      BY <3>1, <3>2, <3>3
  <2>7. Kept(t, children, sizes) = Split(t.dir, children, s)
    BY <2>6 DEF Kept
  <2> HIDE DEF s
  <2> QED
    BY <1>4, <1>7, <2>5, <2>7, <2>8
<1>11. /\ \A i, j \in 1..c : i < j => left[i] < left[j]
       /\ \A k \in 1..n : k # d => \E i \in 1..c : left[i] = k
  BY <1>2, <1>3
<1>12. Remains(t, after, d, c, left)
  BY <1>3, <1>5, <1>9, <1>10, <1>11 DEF n, Remains
<1> QED
  BY <1>5, <1>12 DEF n

\* A whole split has more than one pane.
LEMMA SplitHasMore ==
  ASSUME NEW t \in Tree, t.type = "split", IsWhole[t], NEW p
  PROVE  PanesIn[t] # {p}
<1>1. /\ 1 \in 1..Len(t.children) /\ 2 \in 1..Len(t.children)
      /\ IsWhole[t.children[1]] /\ IsWhole[t.children[2]]
      /\ t.children[1] \in Tree /\ t.children[2] \in Tree
  BY WholeIs, SplitIs
<1>2. PICK q \in PanesIn[t.children[1]] : TRUE
  BY <1>1, PanesAreIn
<1>3. PICK r \in PanesIn[t.children[2]] : TRUE
  BY <1>1, PanesAreIn
<1>4. q # r
  <2>1. \A i, j \in 1..Len(t.children) : \A x :
          x \in PanesIn[t.children[i]] /\ x \in PanesIn[t.children[j]] => i = j
    BY WholeIs
  <2> QED
    <3> SUFFICES ASSUME q = r PROVE FALSE
      OBVIOUS
    <3>1. q \in PanesIn[t.children[1]] /\ q \in PanesIn[t.children[2]]
      BY <1>2, <1>3
    <3>2. 1 = 2
      BY <1>1, <2>1, <3>1
    <3> QED
      BY <3>2
<1>5. q \in PanesIn[t] /\ r \in PanesIn[t]
  BY <1>1, <1>2, <1>3, SplitIs
<1> QED
  BY <1>4, <1>5

\* What closing pane p may make of a tree.
ClosesTo(p, t, r) ==
  \/ r = NoTree /\ PanesIn[t] = {p}
  \/ /\ r \in Tree /\ IsWhole[r] /\ PanesIn[t] # {p}
     /\ p \notin PanesIn[r] /\ SameBut(p, t, r)
     /\ \A d \in 0..MaxTreePanes : t \in UpTo(d) => r \in UpTo(d)

\* Only one child can be the pane that is closed.
LEMMA OneGoes ==
  ASSUME NEW t \in Tree, t.type = "split", IsWhole[t], NEW p, NEW after, DOMAIN after = 1..Len(t.children),
         \A i \in 1..Len(t.children) : ClosesTo(p, t.children[i], after[i])
  PROVE  \E d : OnlyGone(after, Len(t.children), d)
<1> DEFINE n == Len(t.children)
<1>1. n \in Nat
  BY SplitIs
<1>2. \A i, j \in 1..n : \A q : q \in PanesIn[t.children[i]] /\ q \in PanesIn[t.children[j]] => i = j
  BY WholeIs
<1>3. \A i \in 1..n : after[i] = NoTree <=> PanesIn[t.children[i]] = {p}
  BY TreeIsOne DEF ClosesTo
<1>4. CASE \E d \in 1..n : after[d] = NoTree
  <2>1. PICK d \in 1..n : after[d] = NoTree
    BY <1>4
  <2>2. OnlyGone(after, n, d)
    BY <1>2, <1>3, <2>1 DEF OnlyGone
  <2> QED
    BY <2>2, Zenon
<1>5. CASE ~ \E d \in 1..n : after[d] = NoTree
  <2>1. OnlyGone(after, n, 0)
    BY <1>5, <1>1 DEF OnlyGone
  <2> QED
    BY <2>1, Zenon
<1> QED
  BY <1>4, <1>5, Zenon

\* If closing works for each child of a split, it works for the split.
LEMMA ClosedSplit ==
  ASSUME NEW t \in Tree, t.type = "split", IsWhole[t], NEW p, NEW after, DOMAIN after = 1..Len(t.children),
         \A i \in 1..Len(t.children) : ClosesTo(p, t.children[i], after[i])
  PROVE  ClosesTo(p, t, Survivors(t, after))
<1> DEFINE n == Len(t.children)
           r == Survivors(t, after)
<1>1. /\ n \in Nat /\ n >= 2 /\ t.dir \in Directions /\ t.children \in Seq(Tree)
      /\ \A i \in 1..n : t.children[i] \in Tree
  BY SplitIs, WholeIs, TreeCases
<1>2. /\ \A i, j \in 1..n : \A q : q \in PanesIn[t.children[i]] /\ q \in PanesIn[t.children[j]] => i = j
      /\ \A i \in 1..n : IsWhole[t.children[i]]
  BY WholeIs
<1>3. \A i \in 1..n : after[i] = NoTree <=> PanesIn[t.children[i]] = {p}
  BY TreeIsOne DEF ClosesTo
<1>4. PICK d : OnlyGone(after, n, d)
  BY OneGoes
<1>5. PICK c \in Nat : \E left \in [1..c -> 1..n] : Remains(t, after, d, c, left)
  BY <1>4, SurvivorsAre
<1>13. PICK left \in [1..c -> 1..n] : Remains(t, after, d, c, left)
  BY <1>5
<1>6. /\ c = IF d \in 1..n THEN n - 1 ELSE n
      /\ \A i, j \in 1..c : i < j => left[i] < left[j]
      /\ \A i \in 1..c : left[i] # d
      /\ \A k \in 1..n : k # d => \E i \in 1..c : left[i] = k
      /\ c = 1 => r = after[left[1]]
      /\ c > 1 => \E sizes \in Seq(Fractions) :
                    /\ Len(sizes) = c
                    /\ r = Split(t.dir, [k \in 1..c |-> after[left[k]]], sizes)
  BY <1>13 DEF Remains
<1>7. c >= 1
  BY <1>1, <1>6
<1>8. \A i \in 1..n : i # d =>
        /\ after[i] \in Tree /\ IsWhole[after[i]] /\ p \notin PanesIn[after[i]]
        /\ SameBut(p, t.children[i], after[i])
        /\ \A e \in 0..MaxTreePanes : t.children[i] \in UpTo(e) => after[i] \in UpTo(e)
  BY <1>4 DEF ClosesTo, OnlyGone
<1>9. \A i \in 1..n : i = d => PanesIn[t.children[i]] \subseteq {p}
  BY <1>3, <1>4 DEF OnlyGone
<1>10. PanesIn[t] # {p}
  BY SplitHasMore
<1> SUFFICES ClosesTo(p, t, r)
  OBVIOUS
<1> HIDE DEF r
<1>11. CASE c = 1
  <2> DEFINE k == left[1]
  <2>1. k \in 1..n /\ k # d /\ r = after[k]
    <3>1. 1 \in 1..c
      BY <1>11
    <3>2. left[1] \in 1..n
      BY <3>1
    <3>3. left[1] # d
      BY <1>6, <3>1
    <3>4. r = after[left[1]]
      BY <1>6, <1>11
    <3> QED
      BY <3>2, <3>3, <3>4
  <2>2. \A i \in 1..n : i # k => i = d
    <3>1. \A j \in 1..c : j = 1
      BY <1>11
    <3> QED
      BY <1>6, <3>1
  <2> HIDE DEF k
  <2>3. /\ r \in Tree /\ IsWhole[r] /\ p \notin PanesIn[r] /\ SameBut(p, t.children[k], r)
        /\ \A e \in 0..MaxTreePanes : t.children[k] \in UpTo(e) => r \in UpTo(e)
    BY <1>8, <2>1
  <2>4. SameBut(p, t, r)
    BY <1>9, <2>1, <2>2, <2>3, SameChild DEF n
  <2>5. ASSUME NEW e \in 0..MaxTreePanes, t \in UpTo(e) PROVE r \in UpTo(e)
    <3>1. e - 1 \in 0..(MaxTreePanes - 1) /\ t.children \in Seq(UpTo(e - 1))
      BY <2>5, SplitAt
    <3>2. t.children[k] \in UpTo(e - 1)
      BY <2>1, <3>1
    <3>3. e - 1 \in 0..MaxTreePanes /\ (e - 1) + 1 = e
      BY <3>1, TreeBounds
    <3>4. r \in UpTo(e - 1)
      BY <2>3, <3>2, <3>3
    <3> QED
      BY <3>1, <3>3, <3>4, Depths
  <2> QED
    BY <1>10, <2>3, <2>4, <2>5 DEF ClosesTo
<1>12. CASE c > 1
  <2> DEFINE ch == [k \in 1..c |-> after[left[k]]]
  <2>1. PICK sizes \in Seq(Fractions) : Len(sizes) = c /\ r = Split(t.dir, ch, sizes)
    BY <1>6, <1>12
  <2>2. ch \in Seq(Tree) /\ Len(ch) = c /\ \A i \in 1..c : ch[i] = after[left[i]]
    <3>1. \A i \in 1..c : after[left[i]] \in Tree
      BY <1>6, <1>8
    <3> QED
      BY <3>1
  <2> HIDE DEF ch
  <2>3. ASSUME NEW e \in 0..MaxTreePanes, t \in UpTo(e) PROVE r \in UpTo(e)
    <3>1. e - 1 \in 0..(MaxTreePanes - 1) /\ t.children \in Seq(UpTo(e - 1))
      BY <2>3, SplitAt
    <3>2. e - 1 \in 0..MaxTreePanes /\ (e - 1) + 1 = e
      BY <3>1, TreeBounds
    <3>3. ASSUME NEW i \in 1..c PROVE ch[i] \in UpTo(e - 1)
      <4>1. left[i] \in 1..n /\ left[i] # d
        BY <1>6
      <4>2. t.children[left[i]] \in UpTo(e - 1)
        BY <3>1, <4>1
      <4> QED
        BY <1>8, <2>2, <3>2, <4>1, <4>2
    <3>4. ch \in Seq(UpTo(e - 1))
      BY <2>2, <3>3
    <3> QED
      BY <1>1, <2>1, <3>1, <3>2, <3>4, SplitOf
  <2>4. /\ r \in Tree /\ r.type = "split" /\ r.children = ch /\ r.sizes = sizes
    <3>1. MaxTreePanes \in 0..MaxTreePanes /\ t \in UpTo(MaxTreePanes)
      BY TreeBounds, Depths
    <3>2. r \in Tree
      BY <2>3, <3>1, Depths
    <3> QED
      BY <2>1, <3>2 DEF Split
  <2>5. ASSUME NEW i \in 1..c
        PROVE  /\ left[i] \in 1..n /\ ch[i] \in Tree /\ IsWhole[ch[i]] /\ p \notin PanesIn[ch[i]]
               /\ SameBut(p, t.children[left[i]], ch[i])
    BY <1>6, <1>8, <2>2
  <2>6. IsWhole[r]
    <3>1. ASSUME NEW i \in 1..c, NEW j \in 1..c, NEW q, q \in PanesIn[ch[i]], q \in PanesIn[ch[j]]
          PROVE  i = j
      <4>1. q # p
        BY <2>5, <3>1
      <4>2. q \in PanesIn[t.children[left[i]]] /\ q \in PanesIn[t.children[left[j]]]
        BY <2>5, <3>1, <4>1 DEF SameBut
      <4>3. left[i] = left[j]
        BY <1>2, <2>5, <4>2
      <4>4. ~(i < j) /\ ~(j < i)
        BY <1>6, <2>5, <4>3
      <4> QED
        BY <4>4
    <3> QED
      <4>1. Len(r.children) = c /\ Len(r.sizes) = c /\ c >= 2
        BY <1>12, <2>1, <2>2, <2>4
      <4>2. /\ \A i \in 1..c : IsWhole[r.children[i]]
            /\ \A i, j \in 1..c : \A q : q \in PanesIn[r.children[i]] /\ q \in PanesIn[r.children[j]] => i = j
        BY <2>4, <2>5, <3>1
      <4> QED
        BY <2>4, <4>1, <4>2, WholeIs
  <2>7. p \notin PanesIn[r]
    BY <2>2, <2>4, <2>5, SplitIs
  <2>8. SameBut(p, t, r)
    <3>1. \A i \in 1..c : SameBut(p, t.children[left[i]], ch[i])
      BY <2>5
    <3>2. \A k \in 1..n : (\E q \in PanesIn[t.children[k]] : q # p) => \E i \in 1..c : left[i] = k
      BY <1>6, <1>9
    <3>3. \A i, j \in 1..c : i < j => left[i] < left[j]
      BY <1>6
    <3> QED
      BY <2>2, <2>4, <3>1, <3>2, <3>3, SameGrid
  <2> QED
    BY <1>10, <2>3, <2>4, <2>6, <2>7, <2>8 DEF ClosesTo
<1> QED
  BY <1>7, <1>11, <1>12

\* closePane: the tree without the pane, whole and no deeper, the others in their order.
LEMMA ClosedIs ==
  ASSUME NEW t \in Tree, IsWhole[t], NEW p
  PROVE  ClosesTo(p, t, Closed(t, p))
<1> DEFINE S == {u \in Tree : IsWhole[u] => ClosesTo(p, u, Closed(u, p))}
<1>1. ASSUME NEW u \in Tree, u.type = "split" => \A i \in DOMAIN u.children : u.children[i] \in S
      PROVE  u \in S
  <2> SUFFICES ASSUME IsWhole[u] PROVE ClosesTo(p, u, Closed(u, p))
    OBVIOUS
  <2>1. CASE u.type = "leaf"
    <3>1. Closed(u, p) = IF u.pane = p THEN NoTree ELSE u
      BY <2>1, ClosedOfTree
    <3>2. PanesIn[u] = {u.pane}
      BY <2>1, PanesOfTree
    <3>3. SameBut(p, u, u)
      BY DEF SameBut
    <3> QED
      BY <3>1, <3>2, <3>3 DEF ClosesTo
  <2>2. CASE u.type = "split"
    <3> DEFINE after == [i \in DOMAIN u.children |-> Closed(u.children[i], p)]
    <3>1. Closed(u, p) = Survivors(u, after)
      BY <2>2, ClosedOfTree
    <3>2. DOMAIN after = 1..Len(u.children) /\ DOMAIN u.children = 1..Len(u.children)
      BY <2>2, SplitIs
    <3>3. \A i \in 1..Len(u.children) : ClosesTo(p, u.children[i], after[i])
      BY <1>1, <2>2, <3>2, WholeIs
    <3> HIDE DEF after
    <3> QED
      BY <2>2, <3>1, <3>2, <3>3, ClosedSplit
  <2> QED
    BY <2>1, <2>2, TreeCases
<1>2. S = Tree
  <2>1. S \in SUBSET Tree
    OBVIOUS
  <2> HIDE DEF S
  <2> QED
    BY <1>1, <2>1, TreeInduction
<1> QED
  BY <1>2

-----------------------------------------------------------------------------
(* Placing a pane. *)

\* SameBut goes both ways.
LEMMA SameButBack ==
  ASSUME NEW t, NEW u, NEW x, SameBut(x, t, u)
  PROVE  SameBut(x, u, t)
BY DEF SameBut

\* A leaf is a tree of any depth.
LEMMA LeafAnywhere ==
  ASSUME NEW p \in TreePanes, NEW d \in 0..MaxTreePanes
  PROVE  Leaf(p) \in UpTo(d)
<1>1. Leaf(p) \in Leaves
  BY DEF Leaf, Leaves
<1>2. CASE d = 0
  BY <1>1, <1>2, TreesByDepth DEF UpTo
<1>3. CASE d # 0
  <2>1. d \in 1..MaxTreePanes
    BY <1>3
  <2> QED
    BY <1>1, <2>1, TreesByDepth DEF UpTo
<1> QED
  BY <1>2, <1>3

\* What a tree of at most d splits above each other becomes, when it keeps all
\* but maybe pane x.
GrowsTo(x, t, r, d) ==
  r \in UpTo(d) /\ r \in Tree /\ IsWhole[r] /\ SameBut(x, t, r)

\* A split whose children change one by one.
LEMMA MappedSplit ==
  ASSUME NEW t \in Tree, t.type = "split", IsWhole[t], NEW x, NEW d \in 0..(MaxTreePanes - 1),
         NEW ch, DOMAIN ch = 1..Len(t.children), ch \in Seq(UpTo(d)),
         \A i \in 1..Len(t.children) : GrowsTo(x, t.children[i], ch[i], d),
         \A i, j \in 1..Len(t.children) : x \in PanesIn[ch[i]] /\ x \in PanesIn[ch[j]] => i = j,
         NEW sizes \in Seq(Fractions), Len(sizes) = Len(t.children)
  PROVE  /\ GrowsTo(x, t, Split(t.dir, ch, sizes), d + 1)
         /\ \A q : q \in PanesIn[Split(t.dir, ch, sizes)] <=> \E i \in 1..Len(t.children) : q \in PanesIn[ch[i]]
<1> DEFINE n == Len(t.children)
           r == Split(t.dir, ch, sizes)
<1>1. n \in Nat /\ n >= 2 /\ t.dir \in Directions /\ DOMAIN t.children = 1..n
  BY SplitIs, WholeIs, TreeCases
<1>2. Len(ch) = n
  BY <1>1
<1>3. /\ r \in UpTo(d + 1) /\ r \in Tree /\ r.type = "split"
      /\ r.children = ch /\ r.sizes = sizes
  BY <1>1, SplitOf
<1> HIDE DEF r
<1>4. ASSUME NEW i \in 1..n, NEW j \in 1..n, NEW q, q \in PanesIn[ch[i]], q \in PanesIn[ch[j]] PROVE i = j
  <2>1. CASE q = x
    BY <1>4, <2>1
  <2>2. CASE q # x
    <3>1. q \in PanesIn[t.children[i]] /\ q \in PanesIn[t.children[j]]
      BY <1>4, <2>2 DEF GrowsTo, SameBut
    <3> QED
      BY <3>1, WholeIs
  <2> QED
    BY <2>1, <2>2
<1>5. IsWhole[r]
  <2>1. Len(r.children) = n /\ Len(r.sizes) = n
    BY <1>2, <1>3
  <2>2. /\ \A i \in 1..n : IsWhole[r.children[i]]
        /\ \A i, j \in 1..n : \A q : q \in PanesIn[r.children[i]] /\ q \in PanesIn[r.children[j]] => i = j
    BY <1>3, <1>4 DEF GrowsTo
  <2> QED
    BY <1>1, <1>3, <2>1, <2>2, WholeIs
<1>6. SameBut(x, t, r)
  <2> DEFINE e == [i \in 1..n |-> i]
  <2>1. /\ e \in [1..n -> 1..n] /\ \A i, j \in 1..n : i < j => e[i] < e[j]
        /\ \A i \in 1..n : e[i] = i
    OBVIOUS
  <2> HIDE DEF e
  <2>2. \A i \in 1..n : SameBut(x, t.children[e[i]], r.children[i])
    BY <1>3, <2>1 DEF GrowsTo
  <2>3. Len(r.children) = n
    BY <1>2, <1>3
  <2> QED
    BY <1>3, <2>1, <2>2, <2>3, SameGrid
<1>7. \A q : q \in PanesIn[r] <=> \E i \in 1..n : q \in PanesIn[ch[i]]
  BY <1>2, <1>3, SplitIs
<1> QED
  BY <1>3, <1>5, <1>6, <1>7 DEF r, GrowsTo

\* A split with leaf x as a new child in the at-th place.
LEMMA InsertedSplit ==
  ASSUME NEW t \in Tree, t.type = "split", IsWhole[t], NEW x \in TreePanes, x \notin PanesIn[t],
         NEW d \in 0..MaxTreePanes, t \in UpTo(d),
         NEW at \in 1..(Len(t.children) + 1),
         NEW ch, ch \in Seq(UpTo(d - 1)), Inserted(t.children, at, Leaf(x), ch),
         NEW sizes \in Seq(Fractions), Len(sizes) = Len(t.children) + 1
  PROVE  /\ GrowsTo(x, t, Split(t.dir, ch, sizes), d)
         /\ PanesIn[Split(t.dir, ch, sizes)] = PanesIn[t] \cup {x}
<1> DEFINE n == Len(t.children)
           r == Split(t.dir, ch, sizes)
           e == [j \in 1..n |-> IF j < at THEN j ELSE j + 1]
<1>0. /\ Len(ch) = n + 1 /\ ch[at] = Leaf(x)
      /\ \A j \in 1..(at - 1) : ch[j] = t.children[j]
      /\ \A j \in at..n : ch[j + 1] = t.children[j]
  BY DEF Inserted
<1>1. /\ n \in Nat /\ n >= 2 /\ t.dir \in Directions
      /\ \A i \in 1..n : t.children[i] \in Tree /\ IsWhole[t.children[i]]
  BY SplitIs, WholeIs, TreeCases
<1>2. /\ r \in UpTo(d) /\ r \in Tree /\ r.type = "split" /\ r.children = ch /\ r.sizes = sizes
  <2>1. d - 1 \in 0..(MaxTreePanes - 1) /\ (d - 1) + 1 = d
    <3>1. d - 1 \in 0..(MaxTreePanes - 1)
      BY SplitAt
    <3>2. (d - 1) + 1 = d
      BY TreeBounds
    <3> QED
      BY <3>1, <3>2
  <2> HIDE DEF r, e
  <2>2. /\ Split(t.dir, ch, sizes) \in UpTo((d - 1) + 1) /\ Split(t.dir, ch, sizes) \in Tree
        /\ Split(t.dir, ch, sizes).type = "split" /\ Split(t.dir, ch, sizes).children = ch
        /\ Split(t.dir, ch, sizes).sizes = sizes
    BY <1>1, <2>1, SplitOf
  <2> QED
    BY <2>1, <2>2 DEF r
<1> HIDE DEF r
<1>3. /\ e \in [1..n -> 1..(n + 1)] /\ \A i, j \in 1..n : i < j => e[i] < e[j]
      /\ \A k \in 1..(n + 1) : k # at => \E i \in 1..n : e[i] = k
  <2>1. e \in [1..n -> 1..(n + 1)] /\ \A i, j \in 1..n : i < j => e[i] < e[j]
    BY <1>1
  <2>2. ASSUME NEW k \in 1..(n + 1), k # at PROVE \E i \in 1..n : e[i] = k
    <3>1. CASE k < at
      <4>1. k \in 1..n /\ e[k] = k
        BY <1>1, <3>1
      <4> QED
        BY <4>1
    <3>2. CASE ~(k < at)
      <4>1. k - 1 \in 1..n /\ e[k - 1] = k
        BY <1>1, <2>2, <3>2
      <4> QED
        BY <4>1
    <3> QED
      BY <3>1, <3>2
  <2> QED
    BY <2>1, <2>2
<1>4. ASSUME NEW j \in 1..n PROVE ch[e[j]] = t.children[j]
  <2>1. CASE j < at
    <3>1. j \in 1..(at - 1) /\ e[j] = j
      BY <1>1, <2>1
    <3> QED
      BY <1>0, <3>1
  <2>2. CASE ~(j < at)
    <3>1. j \in at..n /\ e[j] = j + 1
      BY <1>1, <2>2
    <3> QED
      BY <1>0, <3>1
  <2> QED
    BY <2>1, <2>2
<1> HIDE DEF e
<1>5. \A k \in 1..(n + 1) : \/ k = at /\ ch[k] = Leaf(x)
                           \/ \E i \in 1..n : e[i] = k /\ ch[k] = t.children[i]
  BY <1>0, <1>3, <1>4
<1>6. Leaf(x) \in Tree /\ IsWhole[Leaf(x)] /\ PanesIn[Leaf(x)] = {x}
  BY LeafIs
<1>7. \A i \in 1..n : x \notin PanesIn[t.children[i]]
  BY SplitIs
<1>8. ASSUME NEW i \in 1..(n + 1), NEW j \in 1..(n + 1), NEW q, q \in PanesIn[ch[i]], q \in PanesIn[ch[j]]
      PROVE  i = j
  <2>1. CASE q = x
    <3>1. \A k \in 1..(n + 1) : x \in PanesIn[ch[k]] => k = at
      BY <1>5, <1>7
    <3> QED
      BY <1>8, <2>1, <3>1
  <2>2. CASE q # x
    <3>1. PICK k \in 1..n : e[k] = i /\ ch[i] = t.children[k]
      BY <1>5, <1>6, <1>8, <2>2
    <3>2. PICK l \in 1..n : e[l] = j /\ ch[j] = t.children[l]
      BY <1>5, <1>6, <1>8, <2>2
    <3>3. k = l
      <4>1. q \in PanesIn[t.children[k]] /\ q \in PanesIn[t.children[l]]
        BY <1>8, <3>1, <3>2
      <4> QED
        BY <4>1, WholeIs
    <3> QED
      BY <3>1, <3>2, <3>3
  <2> QED
    BY <2>1, <2>2
<1>9. Len(r.children) = n + 1
  BY <1>0, <1>2
<1>10. IsWhole[r]
  <2>1. Len(r.sizes) = n + 1 /\ n + 1 >= 2
    BY <1>1, <1>2
  <2>2. \A i \in 1..(n + 1) : IsWhole[r.children[i]]
    BY <1>1, <1>2, <1>5, <1>6
  <2>3. \A i, j \in 1..(n + 1) : \A q : q \in PanesIn[r.children[i]] /\ q \in PanesIn[r.children[j]] => i = j
    BY <1>2, <1>8
  <2> QED
    BY <1>2, <1>9, <2>1, <2>2, <2>3, WholeIs
<1>11. SameBut(x, t, r)
  <2>1. \A j \in 1..n : SameBut(x, r.children[e[j]], t.children[j])
    <3>1. \A u : SameBut(x, u, u)
      BY DEF SameBut
    <3> QED
      BY <1>2, <1>4, <3>1
  <2>2. \A k \in 1..(n + 1) : (\E p \in PanesIn[r.children[k]] : p # x) => \E i \in 1..n : e[i] = k
    BY <1>0, <1>2, <1>3, <1>6
  <2>3. SameBut(x, r, t)
    <3>1. \A i, j \in 1..n : i < j => e[i] < e[j]
      BY <1>3
    <3> QED
      <4>1. e \in [1..Len(t.children) -> 1..Len(r.children)]
        BY <1>3, <1>9
      <4>2. \A k \in 1..Len(r.children) :
              (\E p \in PanesIn[r.children[k]] : p # x) => \E i \in 1..Len(t.children) : e[i] = k
        BY <2>2, <1>9
      <4>3. \A i, j \in 1..Len(t.children) : i < j => e[i] < e[j]
        BY <3>1
      <4>4. \A j \in 1..Len(t.children) : SameBut(x, r.children[e[j]], t.children[j])
        BY <2>1
      <4> HIDE DEF n
      <4> QED
        BY <1>2, <4>1, <4>2, <4>3, <4>4, SameGrid
  <2> QED
    BY <2>3, SameButBack
<1>12. PanesIn[r] = PanesIn[t] \cup {x}
  <2>1. x \in PanesIn[r]
    <3>1. at \in 1..Len(r.children) /\ r.children[at] = Leaf(x)
      BY <1>0, <1>1, <1>2, <1>9
    <3>2. x \in PanesIn[r.children[at]]
      BY <1>6, <3>1
    <3> QED
      BY <1>2, <3>1, <3>2, SplitIs
  <2>2. \A q : q # x => (q \in PanesIn[t] <=> q \in PanesIn[r])
    BY <1>11 DEF SameBut
  <2> QED
    BY <2>1, <2>2
<1> QED
  BY <1>2, <1>10, <1>11, <1>12 DEF r, GrowsTo

\* A tree beside leaf x in a new split.
LEMMA PairedTree ==
  ASSUME NEW t \in Tree, IsWhole[t], NEW x \in TreePanes, x \notin PanesIn[t],
         NEW d \in 0..(MaxTreePanes - 1), t \in UpTo(d), NEW dir \in Directions, NEW before \in BOOLEAN
  PROVE  /\ GrowsTo(x, t, Split(dir, Pair(t, Leaf(x), before), EqualSizes(2)), d + 1)
         /\ PanesIn[Split(dir, Pair(t, Leaf(x), before), EqualSizes(2))] = PanesIn[t] \cup {x}
<1> DEFINE ch == Pair(t, Leaf(x), before)
           r == Split(dir, ch, EqualSizes(2))
           k == IF before THEN 2 ELSE 1
<1>1. /\ Leaf(x) \in UpTo(d) /\ Leaf(x) \in Tree /\ IsWhole[Leaf(x)] /\ PanesIn[Leaf(x)] = {x}
  <2>1. d \in 0..MaxTreePanes
    BY TreeBounds
  <2> QED
    BY <2>1, LeafAnywhere, LeafIs
<1>2. /\ ch \in Seq(UpTo(d)) /\ Len(ch) = 2 /\ k \in 1..2 /\ ch[k] = t /\ ch[3 - k] = Leaf(x)
      /\ 3 - k \in 1..2 /\ \A i \in 1..2 : i = k \/ i = 3 - k
  <2>1. CASE before
    <3>1. ch = <<Leaf(x), t>> /\ k = 2
      BY <2>1 DEF Pair
    <3> HIDE DEF ch, k
    <3>2. <<Leaf(x), t>> \in Seq(UpTo(d)) /\ Len(<<Leaf(x), t>>) = 2 /\ <<Leaf(x), t>>[2] = t /\ <<Leaf(x), t>>[1] = Leaf(x)
      BY <1>1
    <3>3. k \in 1..2 /\ 3 - k = 1 /\ \A i \in 1..2 : i = k \/ i = 3 - k
      BY <3>1
    <3> QED
      BY <3>1, <3>2, <3>3
  <2>2. CASE ~before
    <3>1. ch = <<t, Leaf(x)>> /\ k = 1
      BY <2>2 DEF Pair
    <3> HIDE DEF ch, k
    <3>2. <<t, Leaf(x)>> \in Seq(UpTo(d)) /\ Len(<<t, Leaf(x)>>) = 2 /\ <<t, Leaf(x)>>[1] = t /\ <<t, Leaf(x)>>[2] = Leaf(x)
      BY <1>1
    <3>3. k \in 1..2 /\ 3 - k = 2 /\ \A i \in 1..2 : i = k \/ i = 3 - k
      BY <3>1
    <3> QED
      BY <3>1, <3>2, <3>3
  <2> QED
    BY <2>1, <2>2
<1>3. EqualSizes(2) \in Seq(Fractions) /\ Len(EqualSizes(2)) = 2
  <2>1. 2 \in Nat \ {0}
    OBVIOUS
  <2> QED
    BY <2>1, EqualSizesIs
<1> HIDE DEF ch, k
<1>4. /\ r \in UpTo(d + 1) /\ r \in Tree /\ r.type = "split" /\ r.children = ch /\ r.sizes = EqualSizes(2)
  BY <1>2, <1>3, SplitOf
<1> HIDE DEF r
<1>5. Len(r.children) = 2
  BY <1>2, <1>4
<1>6. \A i \in 1..2 : i # k => ch[i] = Leaf(x)
  BY <1>2
<1>7. IsWhole[r]
  <2>1. \A i \in 1..2 : IsWhole[r.children[i]]
    BY <1>1, <1>2, <1>4, <1>6
  <2>2. ASSUME NEW i \in 1..2, NEW j \in 1..2, NEW q, q \in PanesIn[r.children[i]], q \in PanesIn[r.children[j]]
        PROVE  i = j
    <3>1. CASE i = k /\ j # k
      BY <1>1, <1>2, <1>4, <1>6, <2>2, <3>1
    <3>2. CASE i # k /\ j = k
      BY <1>1, <1>2, <1>4, <1>6, <2>2, <3>2
    <3>3. CASE i # k /\ j # k
      BY <1>2, <3>3
    <3> QED
      BY <3>1, <3>2, <3>3
  <2>3. Len(r.sizes) = 2
    BY <1>3, <1>4
  <2> QED
    <3>1. /\ \A i \in 1..Len(r.children) : IsWhole[r.children[i]]
          /\ \A i, j \in 1..Len(r.children) : \A q :
               q \in PanesIn[r.children[i]] /\ q \in PanesIn[r.children[j]] => i = j
      BY <1>5, <2>1, <2>2
    <3>2. Len(r.children) >= 2 /\ Len(r.sizes) = Len(r.children)
      BY <1>5, <2>3
    <3> QED
      BY <1>4, <3>1, <3>2, WholeIs
<1>8. SameBut(x, t, r)
  <2>1. SameBut(x, r.children[k], t)
    BY <1>2, <1>4 DEF SameBut
  <2>2. \A i \in 1..Len(r.children) : i # k => PanesIn[r.children[i]] \subseteq {x}
    BY <1>1, <1>4, <1>5, <1>6
  <2>3. k \in 1..Len(r.children)
    BY <1>2, <1>5
  <2>4. SameBut(x, r, t)
    BY <1>4, <2>1, <2>2, <2>3, SameChild
  <2> QED
    BY <2>4, SameButBack
<1>9. PanesIn[r] = PanesIn[t] \cup {x}
  <2>1. x \in PanesIn[r]
    <3>1. 3 - k \in 1..Len(r.children) /\ x \in PanesIn[r.children[3 - k]]
      BY <1>1, <1>2, <1>4, <1>5
    <3> QED
      BY <1>4, <3>1, SplitIs
  <2>2. \A q : q # x => (q \in PanesIn[t] <=> q \in PanesIn[r])
    BY <1>8 DEF SameBut
  <2> QED
    BY <2>1, <2>2
<1> QED
  BY <1>4, <1>7, <1>8, <1>9 DEF r, ch, GrowsTo

\* What the new split is made of.
BesideIsOf(t, i, new, before, even, at, ch, sizes) ==
  /\ Beside(t, i, new, before, even) = Split(t.dir, ch, sizes)
  /\ Inserted(t.children, at, new, ch) /\ Len(sizes) = Len(t.children) + 1
  /\ Total(t.sizes) = Whole => Total(sizes) = Whole

\* ... for some place, children in S and shares.
BesideIsMade(S, t, i, new, before, even) ==
  \E at \in 1..(Len(t.children) + 1) : \E ch \in Seq(S) : \E sizes \in Seq(Fractions) :
     BesideIsOf(t, i, new, before, even, at, ch, sizes)

\* Beside inserts the leaf before or after the target, with a share for each child.
LEMMA BesideParts ==
  ASSUME NEW S, NEW t, t.children \in Seq(S), NEW new \in S,
         t.sizes \in Seq(Fractions), Len(t.sizes) = Len(t.children),
         NEW i \in 1..Len(t.children), NEW before \in BOOLEAN, NEW even \in BOOLEAN
  PROVE  BesideIsMade(S, t, i, new, before, even)
<1> DEFINE n == Len(t.children)
           at == IF before THEN i ELSE i + 1
           half == Times(t.sizes[i], 1, 2)
           ch == InsertAt(t.children, at, new)
           halved == InsertAt(ReplaceAt(t.sizes, i, half), at, half)
           sizes == IF even THEN EqualSizes(Len(ch)) ELSE halved
<1>1. n \in Nat
  OBVIOUS
<1>2. at \in 1..(n + 1)
  BY <1>1
<1>3. Beside(t, i, new, before, even) = Split(t.dir, ch, sizes)
  BY DEF Beside
<1>7. at \in {i, i + 1}
  OBVIOUS
<1> HIDE DEF at
<1>4. ch \in Seq(S) /\ Inserted(t.children, at, new, ch)
  <2> DEFINE s == t.children
  <2>1. s \in Seq(S) /\ at \in 1..(Len(s) + 1)
    BY <1>2
  <2> HIDE DEF s
  <2>2. InsertAt(s, at, new) \in Seq(S) /\ Inserted(s, at, new, InsertAt(s, at, new))
    BY <2>1, InsertAtIs DEF Inserted
  <2> QED
    BY <2>2 DEF s
<1>5. halved \in Seq(Fractions) /\ Len(halved) = n + 1
  <2> DEFINE s == t.sizes
             r == ReplaceAt(s, i, half)
  <2>1. s \in Seq(Fractions) /\ i \in 1..Len(s) /\ Len(s) = n /\ s[i] \in Fractions
    OBVIOUS
  <2>2. half \in Fractions
    BY <2>1, TimesIs
  <2> HIDE DEF half, s
  <2>3. r \in Seq(Fractions) /\ Len(r) = n
    BY <2>1, <2>2, ReplaceAtIs
  <2> HIDE DEF r
  <2>4. InsertAt(r, at, half) \in Seq(Fractions) /\ Len(InsertAt(r, at, half)) = n + 1
    <3>1. at \in 1..(Len(r) + 1)
      BY <1>2, <2>3
    <3> HIDE DEF n
    <3>2. InsertAt(r, at, half) \in Seq(Fractions) /\ Len(InsertAt(r, at, half)) = Len(r) + 1
      BY <2>2, <2>3, <3>1, InsertAtIs
    <3> QED
      BY <2>3, <3>2
  <2> QED
    BY <2>4 DEF r, s
<1>8. Total(t.sizes) = Whole => Total(halved) = Whole
  BY <1>7, HalvedTotal
<1> HIDE DEF ch, halved
<1>6. sizes \in Seq(Fractions) /\ Len(sizes) = n + 1
  <2>1. Len(ch) = n + 1 /\ n + 1 \in Nat \ {0}
    BY <1>1, <1>4 DEF Inserted
  <2> QED
    BY <1>5, <2>1, EqualSizesIs
<1>9. Total(t.sizes) = Whole => Total(sizes) = Whole
  <2>1. Len(ch) = n + 1 /\ n + 1 \in Nat \ {0}
    BY <1>1, <1>4 DEF Inserted
  <2> QED
    BY <1>8, <2>1, EqualTotal
<1> HIDE DEF sizes, n
<1> QED
  <2>1. BesideIsOf(t, i, new, before, even, at, ch, sizes)
    BY <1>3, <1>4, <1>6, <1>9 DEF n, BesideIsOf
  <2> QED
    BY <1>2, <1>4, <1>6, <2>1 DEF n, BesideIsMade

\* So the split stays whole and gains the pane.
LEMMA BesideIs ==
  ASSUME NEW t \in Tree, t.type = "split", IsWhole[t], NEW x \in TreePanes, x \notin PanesIn[t],
         NEW d \in 0..MaxTreePanes, t \in UpTo(d), NEW i \in 1..Len(t.children),
         NEW before \in BOOLEAN, NEW even \in BOOLEAN
  PROVE  /\ GrowsTo(x, t, Beside(t, i, Leaf(x), before, even), d)
         /\ PanesIn[Beside(t, i, Leaf(x), before, even)] = PanesIn[t] \cup {x}
<1> DEFINE S == UpTo(d - 1)
<1>1. t.sizes \in Seq(Fractions) /\ Len(t.sizes) = Len(t.children)
  BY WholeIs, TreeCases
<1>2. t.children \in Seq(S) /\ Leaf(x) \in S
  <2>1. d - 1 \in 0..MaxTreePanes /\ t.children \in Seq(UpTo(d - 1))
    BY SplitAt, TreeBounds
  <2> QED
    BY <2>1, LeafAnywhere
<1> HIDE DEF S
<1>3. PICK at \in 1..(Len(t.children) + 1) : \E ch \in Seq(S) : \E sizes \in Seq(Fractions) :
           BesideIsOf(t, i, Leaf(x), before, even, at, ch, sizes)
  <2>1. BesideIsMade(S, t, i, Leaf(x), before, even)
    BY <1>1, <1>2, BesideParts
  <2> QED
    BY <2>1 DEF BesideIsMade
<1>4. PICK ch \in Seq(S) : \E sizes \in Seq(Fractions) :
           BesideIsOf(t, i, Leaf(x), before, even, at, ch, sizes)
  BY <1>3
<1>5. PICK sizes \in Seq(Fractions) :
           BesideIsOf(t, i, Leaf(x), before, even, at, ch, sizes)
  BY <1>4
<1>6. ch \in Seq(UpTo(d - 1))
  BY DEF S
<1>7. /\ GrowsTo(x, t, Split(t.dir, ch, sizes), d)
      /\ PanesIn[Split(t.dir, ch, sizes)] = PanesIn[t] \cup {x}
  BY <1>5, <1>6, InsertedSplit DEF BesideIsOf
<1> QED
  BY <1>5, <1>7 DEF BesideIsOf

\* Placing at the target itself makes a split of two,
LEMMA PlacedAtLeaf ==
  ASSUME NEW target, NEW new, NEW dir, NEW before, NEW even, NEW u \in Tree
  PROVE  u.type = "leaf" /\ u.pane = target => Placed(u, target, new, dir, before, even) = Split(dir, Pair(u, new, before), EqualSizes(2))
<1>1. Placed(u, target, new, dir, before, even) =
           IF u.type = "leaf"
           THEN IF u.pane = target THEN Split(dir, Pair(u, new, before), EqualSizes(2)) ELSE u
           ELSE LET i == ChildAt(u, target) IN
                IF i # 0 /\ u.dir = dir THEN Beside(u, i, new, before, even)
                ELSE Split(u.dir, [j \in DOMAIN u.children |-> Placed(u.children[j], target, new, dir, before, even)], u.sizes)
  BY PlacedOfTree
<1> QED
  BY <1>1

\* at another pane changes nothing,
LEMMA PlacedAtOther ==
  ASSUME NEW target, NEW new, NEW dir, NEW before, NEW even, NEW u \in Tree
  PROVE  u.type = "leaf" /\ u.pane # target => Placed(u, target, new, dir, before, even) = u
<1>1. Placed(u, target, new, dir, before, even) =
           IF u.type = "leaf"
           THEN IF u.pane = target THEN Split(dir, Pair(u, new, before), EqualSizes(2)) ELSE u
           ELSE LET i == ChildAt(u, target) IN
                IF i # 0 /\ u.dir = dir THEN Beside(u, i, new, before, even)
                ELSE Split(u.dir, [j \in DOMAIN u.children |-> Placed(u.children[j], target, new, dir, before, even)], u.sizes)
  BY PlacedOfTree
<1> QED
  BY <1>1

\* in the target's parent, if that runs in the direction, makes a place beside it,
LEMMA PlacedBeside ==
  ASSUME NEW target, NEW new, NEW dir, NEW before, NEW even, NEW u \in Tree
  PROVE  u.type = "split" /\ ChildAt(u, target) # 0 /\ u.dir = dir =>
           Placed(u, target, new, dir, before, even) = Beside(u, ChildAt(u, target), new, before, even)
<1>1. Placed(u, target, new, dir, before, even) =
           IF u.type = "leaf"
           THEN IF u.pane = target THEN Split(dir, Pair(u, new, before), EqualSizes(2)) ELSE u
           ELSE LET i == ChildAt(u, target) IN
                IF i # 0 /\ u.dir = dir THEN Beside(u, i, new, before, even)
                ELSE Split(u.dir, [j \in DOMAIN u.children |-> Placed(u.children[j], target, new, dir, before, even)], u.sizes)
  BY PlacedOfTree
<1> QED
  BY <1>1

\* and in any other split goes on to the children.
LEMMA PlacedBelow ==
  ASSUME NEW target, NEW new, NEW dir, NEW before, NEW even, NEW u \in Tree
  PROVE  u.type = "split" /\ ~(ChildAt(u, target) # 0 /\ u.dir = dir) =>
           Placed(u, target, new, dir, before, even) =
             Split(u.dir, [j \in DOMAIN u.children |-> Placed(u.children[j], target, new, dir, before, even)], u.sizes)
<1>1. Placed(u, target, new, dir, before, even) =
           IF u.type = "leaf"
           THEN IF u.pane = target THEN Split(dir, Pair(u, new, before), EqualSizes(2)) ELSE u
           ELSE LET i == ChildAt(u, target) IN
                IF i # 0 /\ u.dir = dir THEN Beside(u, i, new, before, even)
                ELSE Split(u.dir, [j \in DOMAIN u.children |-> Placed(u.children[j], target, new, dir, before, even)], u.sizes)
  BY PlacedOfTree
<1> QED
  BY <1>1

\* r is t with pane x added, if t has the target, and no more than one split deeper.
PlacesTo(x, target, t, r, d) ==
  /\ GrowsTo(x, t, r, d + 1)
  /\ PanesIn[r] = PanesIn[t] \cup {p \in {x} : target \in PanesIn[t]}

\* splitPane, pinNote and insertBeside: they add the leaf if the target is there, and keep
\* the tree whole and the others in their order.
LEMMA PlacedIs ==
  ASSUME NEW x \in TreePanes, NEW target \in TreePanes, NEW dir \in Directions,
         NEW before \in BOOLEAN, NEW even \in BOOLEAN,
         NEW t \in Tree, IsWhole[t], x \notin PanesIn[t], NEW d \in 0..(MaxTreePanes - 1), t \in UpTo(d)
  PROVE  PlacesTo(x, target, t, Placed(t, target, Leaf(x), dir, before, even), d)
<1> DEFINE placed(u) == Placed(u, target, Leaf(x), dir, before, even)
           S == {u \in Tree : IsWhole[u] /\ x \notin PanesIn[u] =>
                   \A e \in 0..(MaxTreePanes - 1) : u \in UpTo(e) => PlacesTo(x, target, u, placed(u), e)}
<1>1. ASSUME NEW u \in Tree, u.type = "split" => \A i \in DOMAIN u.children : u.children[i] \in S
      PROVE  u \in S
  <2> SUFFICES ASSUME IsWhole[u], x \notin PanesIn[u], NEW e \in 0..(MaxTreePanes - 1), u \in UpTo(e)
               PROVE  PlacesTo(x, target, u, placed(u), e)
    OBVIOUS
  <2>0. /\ e \in 0..MaxTreePanes /\ UpTo(e) \subseteq UpTo(e + 1) /\ SameBut(x, u, u)
    BY TreeBounds, Depths DEF SameBut
  <2>1. CASE u.type = "leaf"
    <3>1. PanesIn[u] = {u.pane}
      BY <2>1, PanesOfTree
    <3>2. CASE u.pane = target
      <4>1. placed(u) = Split(dir, Pair(u, Leaf(x), before), EqualSizes(2))
        BY <2>1, <3>2, PlacedAtLeaf
      <4>2. /\ GrowsTo(x, u, placed(u), e + 1)
            /\ PanesIn[placed(u)] = PanesIn[u] \cup {x}
        BY <4>1, PairedTree
      <4> HIDE DEF placed
      <4> QED
        BY <3>1, <3>2, <4>2 DEF PlacesTo
    <3>3. CASE u.pane # target
      <4>1. placed(u) = u
        BY <2>1, <3>3, PlacedAtOther
      <4> HIDE DEF placed
      <4> QED
        BY <2>0, <3>1, <3>3, <4>1 DEF PlacesTo, GrowsTo
    <3> QED
      BY <3>2, <3>3
  <2>2. CASE u.type = "split"
    <3> DEFINE n == Len(u.children)
               at == ChildAt(u, target)
    <3>0. /\ n \in Nat /\ DOMAIN u.children = 1..n /\ u.dir \in Directions /\ u.children \in Seq(Tree)
          /\ u.sizes \in Seq(Fractions) /\ Len(u.sizes) = n
          /\ \A i \in 1..n : u.children[i] \in Tree
      BY <2>2, SplitIs, WholeIs, TreeCases
    <3>1. CASE at # 0 /\ u.dir = dir
      <4>1. placed(u) = Beside(u, at, Leaf(x), before, even)
        BY <2>2, <3>1, PlacedBeside
      <4>2. at \in 1..n /\ u.children[at] = Leaf(target)
        BY <2>2, <3>1, ChildAtIs
      <4>3. target \in PanesIn[u]
        BY <2>2, <4>2, LeafIs, SplitIs
      <4> HIDE DEF at
      <4>4. /\ GrowsTo(x, u, placed(u), e)
            /\ PanesIn[placed(u)] = PanesIn[u] \cup {x}
        BY <2>0, <2>2, <4>1, <4>2, BesideIs
      <4> HIDE DEF placed
      <4> QED
        BY <2>0, <4>3, <4>4 DEF PlacesTo, GrowsTo
    <3>2. CASE ~(at # 0 /\ u.dir = dir)
      <4> DEFINE ch == [j \in DOMAIN u.children |-> placed(u.children[j])]
      <4>1. placed(u) = Split(u.dir, ch, u.sizes)
        BY <2>2, <3>2, PlacedBelow
      <4>2. e - 1 \in 0..(MaxTreePanes - 1) /\ u.children \in Seq(UpTo(e - 1)) /\ (e - 1) + 1 = e
        BY <2>0, <2>2, SplitAt
      <4>3. ASSUME NEW i \in 1..n PROVE PlacesTo(x, target, u.children[i], ch[i], e - 1)
        <5>1. u.children[i] \in UpTo(e - 1) /\ IsWhole[u.children[i]] /\ x \notin PanesIn[u.children[i]]
          BY <2>2, <4>2, WholeIs, SplitIs
        <5>2. u.children[i] \in S
          BY <1>1, <2>2, <3>0
        <5>3. ch[i] = placed(u.children[i])
          BY <3>0
        <5> HIDE DEF ch, placed
        <5> QED
          BY <4>2, <5>1, <5>2, <5>3
      <4>4. DOMAIN ch = 1..n
        BY <3>0
      <4> HIDE DEF ch, placed
      <4>5. ASSUME NEW i \in 1..n PROVE GrowsTo(x, u.children[i], ch[i], e) /\ ch[i] \in UpTo(e)
        BY <4>2, <4>3 DEF PlacesTo, GrowsTo
      <4>6. ch \in Seq(UpTo(e))
        <5>1. ch = [i \in 1..n |-> ch[i]]
          BY <3>0 DEF ch
        <5> HIDE DEF n
        <5>2. [i \in 1..n |-> ch[i]] \in Seq(UpTo(e))
          BY <3>0, <4>5
        <5> QED
          BY <5>1, <5>2
      <4>7. ASSUME NEW i \in 1..n, NEW j \in 1..n, x \in PanesIn[ch[i]], x \in PanesIn[ch[j]] PROVE i = j
        <5>1. x \notin PanesIn[u.children[i]] /\ x \notin PanesIn[u.children[j]]
          BY <2>2, SplitIs
        <5>2. target \in PanesIn[u.children[i]] /\ target \in PanesIn[u.children[j]]
          BY <4>3, <4>7, <5>1 DEF PlacesTo
        <5> QED
          BY <2>2, <5>2, WholeIs
      <4>8. /\ GrowsTo(x, u, placed(u), e + 1)
            /\ \A q : q \in PanesIn[placed(u)] <=> \E i \in 1..n : q \in PanesIn[ch[i]]
        <5>1. /\ DOMAIN ch = 1..Len(u.children) /\ u.sizes \in Seq(Fractions) /\ Len(u.sizes) = Len(u.children)
              /\ \A i \in 1..Len(u.children) : GrowsTo(x, u.children[i], ch[i], e)
              /\ \A i, j \in 1..Len(u.children) : x \in PanesIn[ch[i]] /\ x \in PanesIn[ch[j]] => i = j
          BY <3>0, <4>4, <4>5, <4>7
        <5> HIDE DEF n
        <5>2. /\ GrowsTo(x, u, Split(u.dir, ch, u.sizes), e + 1)
              /\ \A q : q \in PanesIn[Split(u.dir, ch, u.sizes)] <=>
                        \E i \in 1..Len(u.children) : q \in PanesIn[ch[i]]
          BY <2>2, <4>6, <5>1, MappedSplit
        <5> QED
          BY <4>1, <5>2 DEF n
      <4>9. PanesIn[placed(u)] = PanesIn[u] \cup {p \in {x} : target \in PanesIn[u]}
        <5>1. ASSUME NEW q
              PROVE  q \in PanesIn[placed(u)] <=> q \in PanesIn[u] \/ (q = x /\ target \in PanesIn[u])
          <6>1. \A i \in 1..n : q \in PanesIn[ch[i]] <=>
                  (q \in PanesIn[u.children[i]] \/ (q = x /\ target \in PanesIn[u.children[i]]))
            BY <4>3 DEF PlacesTo
          <6>2. /\ q \in PanesIn[u] <=> \E i \in 1..n : q \in PanesIn[u.children[i]]
                /\ target \in PanesIn[u] <=> \E i \in 1..n : target \in PanesIn[u.children[i]]
            BY <2>2, SplitIs
          <6> QED
            BY <4>8, <6>1, <6>2
        <5> QED
          BY <5>1
      <4> QED
        BY <4>8, <4>9 DEF PlacesTo
    <3> QED
      BY <3>1, <3>2
  <2> QED
    BY <2>1, <2>2, TreeCases
<1>2. S = Tree
  <2>1. S \in SUBSET Tree
    OBVIOUS
  <2> HIDE DEF S
  <2> QED
    BY <1>1, <2>1, TreeInduction
<1> QED
  BY <1>2

\* Appending is inserting at the end.
LEMMA LastOf ==
  ASSUME NEW S, NEW s \in Seq(S), NEW e \in S
  PROVE  Append(s, e) \in Seq(S) /\ Inserted(s, Len(s) + 1, e, Append(s, e))
BY DEF Inserted

\* appendLeaf: the tree stays whole and gains the pane.
LEMMA AppendLeafIs ==
  ASSUME NEW t \in Tree, IsWhole[t], NEW x \in TreePanes, x \notin PanesIn[t],
         NEW d \in 0..(MaxTreePanes - 1), t \in UpTo(d)
  PROVE  /\ GrowsTo(x, t, AppendLeaf(t, Leaf(x)), d + 1)
         /\ PanesIn[AppendLeaf(t, Leaf(x))] = PanesIn[t] \cup {x}
<1>1. CASE t.type = "split" /\ t.dir = "row"
  <2> DEFINE S == UpTo(d - 1)
             n == Len(t.children)
             ch == Append(t.children, Leaf(x))
             sizes == Append([i \in DOMAIN t.sizes |-> Times(t.sizes[i], n, n + 1)], <<1, n + 1>>)
  <2>1. d \in 0..MaxTreePanes /\ UpTo(d) \subseteq UpTo(d + 1)
    BY TreeBounds, Depths
  <2>2. AppendLeaf(t, Leaf(x)) = Split(t.dir, ch, sizes)
    BY <1>1 DEF AppendLeaf
  <2>3. t.children \in Seq(S) /\ Leaf(x) \in S
    <3>1. d - 1 \in 0..MaxTreePanes /\ t.children \in Seq(UpTo(d - 1))
      BY <1>1, <2>1, SplitAt, TreeBounds
    <3> QED
      BY <3>1, LeafAnywhere
  <2>4. t.sizes \in Seq(Fractions) /\ Len(t.sizes) = n /\ n \in Nat \ {0} /\ n + 1 \in 1..(n + 1)
    BY <1>1, SplitIs, WholeIs, TreeCases
  <2>5. sizes \in Seq(Fractions) /\ Len(sizes) = n + 1
    <3> HIDE DEF n
    <3>1. Len(sizes) = Len(t.sizes) + 1 /\ sizes \in Seq(Fractions)
      BY <2>4, ScaledSizes
    <3> QED
      BY <2>4, <3>1
  <2> HIDE DEF S, sizes
  <2>6. ch \in Seq(S) /\ Inserted(t.children, n + 1, Leaf(x), ch)
    BY <2>3, LastOf
  <2> HIDE DEF ch
  <2>7. ch \in Seq(UpTo(d - 1))
    BY <2>6 DEF S
  <2>8. /\ GrowsTo(x, t, Split(t.dir, ch, sizes), d)
        /\ PanesIn[Split(t.dir, ch, sizes)] = PanesIn[t] \cup {x}
    <3>0. PICK at \in 1..(n + 1) : at = n + 1
      BY <2>4
    <3>1. at \in 1..(Len(t.children) + 1) /\ Len(sizes) = Len(t.children) + 1
      BY <2>5
    <3>2. Inserted(t.children, at, Leaf(x), ch)
      BY <2>6, <3>0
    <3>3. d \in 0..MaxTreePanes /\ sizes \in Seq(Fractions) /\ t.type = "split"
      BY <1>1, <2>1, <2>5
    <3> HIDE DEF n
    <3> QED
      BY <2>7, <3>1, <3>2, <3>3, InsertedSplit
  <2> QED
    BY <2>1, <2>2, <2>8 DEF GrowsTo
<1>2. CASE ~(t.type = "split" /\ t.dir = "row")
  <2>1. AppendLeaf(t, Leaf(x)) = Split("row", Pair(t, Leaf(x), FALSE), EqualSizes(2))
    BY <1>2 DEF AppendLeaf, Pair
  <2>2. "row" \in Directions /\ FALSE \in BOOLEAN
    BY DEF Directions
  <2>3. /\ GrowsTo(x, t, Split("row", Pair(t, Leaf(x), FALSE), EqualSizes(2)), d + 1)
        /\ PanesIn[Split("row", Pair(t, Leaf(x), FALSE), EqualSizes(2))] = PanesIn[t] \cup {x}
    BY <2>2, PairedTree
  <2> QED
    BY <2>1, <2>3
<1> QED
  BY <1>1, <1>2

-----------------------------------------------------------------------------
(* Moving a divider. *)

\* Moving a divider leaves a leaf alone,
LEMMA ResizedLeaf ==
  ASSUME NEW p, NEW u \in Tree
  PROVE  u.type = "leaf" => Resized(u, p) = u
<1>1. Resized(u, p) =
           IF u.type = "leaf" THEN u
           ELSE LET i == ChildAt(u, p) IN
                IF i \in 1..(Len(u.children) - 1)
                THEN LET span == Plus(u.sizes[i], u.sizes[i + 1]) IN
                     Split(u.dir, u.children,
                           [u.sizes EXCEPT ![i] = Times(span, 1, 4), ![i + 1] = Times(span, 3, 4)])
                ELSE Split(u.dir, [j \in DOMAIN u.children |-> Resized(u.children[j], p)], u.sizes)
  BY ResizedOfTree
<1> QED
  BY <1>1

\* changes two shares of the split that holds the pane,
LEMMA ResizedHere ==
  ASSUME NEW p, NEW u \in Tree
  PROVE  u.type = "split" /\ ChildAt(u, p) \in 1..(Len(u.children) - 1) =>
           LET span == Plus(u.sizes[ChildAt(u, p)], u.sizes[ChildAt(u, p) + 1]) IN
           Resized(u, p) =
             Split(u.dir, u.children,
                   [u.sizes EXCEPT ![ChildAt(u, p)] = Times(span, 1, 4), ![ChildAt(u, p) + 1] = Times(span, 3, 4)])
<1>1. Resized(u, p) =
           IF u.type = "leaf" THEN u
           ELSE LET i == ChildAt(u, p) IN
                IF i \in 1..(Len(u.children) - 1)
                THEN LET span == Plus(u.sizes[i], u.sizes[i + 1]) IN
                     Split(u.dir, u.children,
                           [u.sizes EXCEPT ![i] = Times(span, 1, 4), ![i + 1] = Times(span, 3, 4)])
                ELSE Split(u.dir, [j \in DOMAIN u.children |-> Resized(u.children[j], p)], u.sizes)
  BY ResizedOfTree
<1> QED
  BY <1>1

\* and in any other split goes on to the children.
LEMMA ResizedBelow ==
  ASSUME NEW p, NEW u \in Tree
  PROVE  u.type = "split" /\ ChildAt(u, p) \notin 1..(Len(u.children) - 1) =>
           Resized(u, p) = Split(u.dir, [j \in DOMAIN u.children |-> Resized(u.children[j], p)], u.sizes)
<1>1. Resized(u, p) =
           IF u.type = "leaf" THEN u
           ELSE LET i == ChildAt(u, p) IN
                IF i \in 1..(Len(u.children) - 1)
                THEN LET span == Plus(u.sizes[i], u.sizes[i + 1]) IN
                     Split(u.dir, u.children,
                           [u.sizes EXCEPT ![i] = Times(span, 1, 4), ![i + 1] = Times(span, 3, 4)])
                ELSE Split(u.dir, [j \in DOMAIN u.children |-> Resized(u.children[j], p)], u.sizes)
  BY ResizedOfTree
<1> QED
  BY <1>1

\* r is t with other shares.
ResizesTo(p, t, r, d) == GrowsTo(p, t, r, d) /\ PanesIn[r] = PanesIn[t]

\* If moving a divider works for each child of a split, it works for the split.
LEMMA ResizedSplit ==
  ASSUME NEW t \in Tree, t.type = "split", IsWhole[t], NEW p, NEW d \in 0..MaxTreePanes, t \in UpTo(d),
         NEW ch, DOMAIN ch = 1..Len(t.children), ch \in Seq(UpTo(d - 1)),
         \A i \in 1..Len(t.children) : ResizesTo(p, t.children[i], ch[i], d - 1),
         NEW sizes \in Seq(Fractions), Len(sizes) = Len(t.children)
  PROVE  ResizesTo(p, t, Split(t.dir, ch, sizes), d)
<1>1. d - 1 \in 0..(MaxTreePanes - 1) /\ (d - 1) + 1 = d
  BY SplitAt
<1>2. \A i \in 1..Len(t.children) : GrowsTo(p, t.children[i], ch[i], d - 1)
  BY DEF ResizesTo
<1>3. \A i, j \in 1..Len(t.children) : p \in PanesIn[ch[i]] /\ p \in PanesIn[ch[j]] => i = j
  BY WholeIs DEF ResizesTo
<1>4. /\ GrowsTo(p, t, Split(t.dir, ch, sizes), (d - 1) + 1)
      /\ \A q : q \in PanesIn[Split(t.dir, ch, sizes)] <=> \E i \in 1..Len(t.children) : q \in PanesIn[ch[i]]
  BY <1>1, <1>2, <1>3, MappedSplit
<1>5. \A q : q \in PanesIn[t] <=> \E i \in 1..Len(t.children) : q \in PanesIn[ch[i]]
  BY SplitIs DEF ResizesTo
<1>6. PanesIn[Split(t.dir, ch, sizes)] = PanesIn[t]
  BY <1>4, <1>5
<1> QED
  BY <1>1, <1>4, <1>6 DEF ResizesTo

\* resizePane: the same panes in the same order, and the tree is whole.
LEMMA ResizedIs ==
  ASSUME NEW t \in Tree, IsWhole[t], NEW p, NEW d \in 0..MaxTreePanes, t \in UpTo(d)
  PROVE  ResizesTo(p, t, Resized(t, p), d)
<1> DEFINE S == {u \in Tree : IsWhole[u] => \A e \in 0..MaxTreePanes : u \in UpTo(e) => ResizesTo(p, u, Resized(u, p), e)}
<1>1. ASSUME NEW u \in Tree, u.type = "split" => \A i \in DOMAIN u.children : u.children[i] \in S
      PROVE  u \in S
  <2> SUFFICES ASSUME IsWhole[u], NEW e \in 0..MaxTreePanes, u \in UpTo(e)
               PROVE  ResizesTo(p, u, Resized(u, p), e)
    OBVIOUS
  <2>0. \A v : SameBut(p, v, v)
    BY DEF SameBut
  <2>1. CASE u.type = "leaf"
    <3>1. Resized(u, p) = u
      BY <2>1, ResizedLeaf
    <3> QED
      BY <2>0, <3>1 DEF ResizesTo, GrowsTo
  <2>2. CASE u.type = "split"
    <3> DEFINE n == Len(u.children)
               at == ChildAt(u, p)
    <3>0. /\ n \in Nat /\ DOMAIN u.children = 1..n
          /\ u.sizes \in Seq(Fractions) /\ Len(u.sizes) = n
          /\ \A i \in 1..n : u.children[i] \in Tree /\ IsWhole[u.children[i]]
      BY <2>2, SplitIs, WholeIs, TreeCases
    <3>1. e - 1 \in 0..MaxTreePanes /\ u.children \in Seq(UpTo(e - 1))
      BY <2>2, SplitAt, TreeBounds
    <3>2. \A i \in 1..n : u.children[i] \in UpTo(e - 1)
      BY <3>1
    <3>3. CASE at \in 1..(n - 1)
      <4> DEFINE span == Plus(u.sizes[at], u.sizes[at + 1])
                 sizes == [u.sizes EXCEPT ![at] = Times(span, 1, 4), ![at + 1] = Times(span, 3, 4)]
      <4>1. Resized(u, p) = Split(u.dir, u.children, sizes)
        BY <2>2, <3>3, ResizedHere
      <4>2. sizes \in Seq(Fractions) /\ Len(sizes) = n
        <5> HIDE DEF at, n
        <5>1. at \in 1..(Len(u.sizes) - 1)
          BY <3>0, <3>3
        <5> QED
          BY <3>0, <5>1, MovedDivider
      <4> HIDE DEF sizes
      <4>3. \A i \in 1..n : ResizesTo(p, u.children[i], u.children[i], e - 1)
        BY <2>0, <3>0, <3>2 DEF ResizesTo, GrowsTo
      <4> QED
        BY <2>2, <3>0, <3>1, <4>1, <4>2, <4>3, ResizedSplit
    <3>4. CASE ~(at \in 1..(n - 1))
      <4> DEFINE ch == [j \in DOMAIN u.children |-> Resized(u.children[j], p)]
      <4>1. Resized(u, p) = Split(u.dir, ch, u.sizes)
        BY <2>2, <3>4, ResizedBelow
      <4>2. ASSUME NEW i \in 1..n PROVE ResizesTo(p, u.children[i], ch[i], e - 1)
        <5>1. u.children[i] \in S
          BY <1>1, <2>2, <3>0
        <5>2. ch[i] = Resized(u.children[i], p)
          BY <3>0
        <5> HIDE DEF ch
        <5> QED
          BY <3>0, <3>1, <3>2, <5>1, <5>2
      <4>3. DOMAIN ch = 1..n /\ ch = [i \in 1..n |-> ch[i]]
        BY <3>0
      <4> HIDE DEF ch
      <4>4. ch \in Seq(UpTo(e - 1))
        <5>1. [i \in 1..n |-> ch[i]] \in Seq(UpTo(e - 1))
          BY <3>0, <4>2 DEF ResizesTo, GrowsTo
        <5> QED
          BY <4>3, <5>1
      <4>5. /\ DOMAIN ch = 1..Len(u.children)
            /\ \A i \in 1..Len(u.children) : ResizesTo(p, u.children[i], ch[i], e - 1)
        BY <4>2, <4>3
      <4>6. ResizesTo(p, u, Split(u.dir, ch, u.sizes), e)
        BY <2>2, <3>0, <4>4, <4>5, ResizedSplit
      <4> QED
        BY <4>1, <4>6
    <3> QED
      BY <3>3, <3>4
  <2> QED
    BY <2>1, <2>2, TreeCases
<1>2. S = Tree
  <2>1. S \in SUBSET Tree
    OBVIOUS
  <2> HIDE DEF S
  <2> QED
    BY <1>1, <2>1, TreeInduction
<1> QED
  BY <1>2

-----------------------------------------------------------------------------
(* A whole tree has fewer splits above each other than panes. *)

\* Trees of less depth are trees of more.
LEMMA DepthsAreNested ==
  ASSUME NEW d \in 0..MaxTreePanes, NEW e \in 0..MaxTreePanes, d <= e
  PROVE  UpTo(d) \subseteq UpTo(e)
<1> DEFINE S == {k \in Nat : d + k <= MaxTreePanes => UpTo(d) \subseteq UpTo(d + k)}
<1>1. 0 \in S
  <2>1. d + 0 = d
    OBVIOUS
  <2> QED
    BY <2>1
<1>2. ASSUME NEW k \in S PROVE k + 1 \in S
  <2> SUFFICES ASSUME d + (k + 1) <= MaxTreePanes PROVE UpTo(d) \subseteq UpTo(d + (k + 1))
    OBVIOUS
  <2>1. d + k \in 0..(MaxTreePanes - 1) /\ d + (k + 1) = (d + k) + 1
    BY TreeBounds
  <2>2. UpTo(d) \subseteq UpTo(d + k)
    BY <2>1, TreeBounds
  <2>3. UpTo(d + k) \subseteq UpTo((d + k) + 1)
    BY <2>1, Depths
  <2> QED
    BY <2>1, <2>2, <2>3
<1>3. S = Nat
  <2>1. S \in SUBSET Nat
    OBVIOUS
  <2> HIDE DEF S
  <2> QED
    BY <1>1, <1>2, <2>1, Induction
<1>4. e - d \in Nat /\ d + (e - d) = e
  OBVIOUS
<1>5. e - d \in S
  <2> HIDE DEF S
  <2> QED
    BY <1>3, <1>4
<1> QED
  BY <1>4, <1>5

\* A whole tree has at least one pane, and no more than there are.
LEMMA FewPanes ==
  ASSUME NEW t \in Tree, IsWhole[t]
  PROVE  /\ IsFiniteSet(PanesIn[t])
         /\ Cardinality(PanesIn[t]) \in 1..MaxTreePanes
<1>1. MaxTreePanes \in Nat
  BY TreeBounds
<1>2. IsFiniteSet(TreePanes) /\ Cardinality(TreePanes) = MaxTreePanes
  BY <1>1, FS_Interval DEF TreePanes
<1>3. PanesIn[t] \subseteq TreePanes /\ PanesIn[t] # {}
  BY PanesAreIn
<1>4. IsFiniteSet(PanesIn[t]) /\ Cardinality(PanesIn[t]) <= MaxTreePanes
  BY <1>2, <1>3, FS_Subset
<1>5. Cardinality(PanesIn[t]) \in Nat /\ Cardinality(PanesIn[t]) # 0
  BY <1>3, <1>4, FS_CardinalityType, FS_EmptySet
<1> QED
  BY <1>1, <1>4, <1>5

\* Each split of a whole tree has a pane more than its children: so a tree has fewer splits
\* above each other than panes, and no bound of Tree is ever in the way.
LEMMA ShallowTrees ==
  ASSUME NEW t \in Tree, IsWhole[t]
  PROVE  t \in UpTo(Cardinality(PanesIn[t]) - 1)
<1> DEFINE size(u) == Cardinality(PanesIn[u])
           S == {u \in Tree : IsWhole[u] => u \in UpTo(size(u) - 1)}
<1>1. ASSUME NEW u \in Tree, u.type = "split" => \A i \in DOMAIN u.children : u.children[i] \in S
      PROVE  u \in S
  <2> SUFFICES ASSUME IsWhole[u] PROVE u \in UpTo(size(u) - 1)
    OBVIOUS
  <2>1. CASE u.type = "leaf"
    <3>1. u = Leaf(u.pane) /\ u.pane \in TreePanes
      BY <2>1, TreeCases
    <3>2. PanesIn[u] = {u.pane}
      BY <2>1, PanesOfTree
    <3>3. size(u) = 1
      BY <3>2, FS_Singleton
    <3>4. 0 \in 0..MaxTreePanes
      BY TreeBounds
    <3>5. Leaf(u.pane) \in UpTo(0)
      BY <3>1, <3>4, LeafAnywhere
    <3>6. size(u) - 1 = 0
      BY <3>3
    <3> HIDE DEF size
    <3> QED
      BY <3>1, <3>5, <3>6
  <2>2. CASE u.type = "split"
    <3> DEFINE n == Len(u.children)
    <3>0. /\ n \in Nat /\ n >= 2 /\ u.children \in Seq(Tree) /\ DOMAIN u.children = 1..n
          /\ u.dir \in Directions /\ u.sizes \in Seq(Fractions)
          /\ u = Split(u.dir, u.children, u.sizes)
          /\ \A i \in 1..n : u.children[i] \in Tree /\ IsWhole[u.children[i]]
      BY <2>2, SplitIs, WholeIs, TreeCases
    <3>1. IsFiniteSet(PanesIn[u]) /\ size(u) \in 1..MaxTreePanes
      BY FewPanes
    <3>2. ASSUME NEW i \in 1..n PROVE size(u.children[i]) < size(u) /\ size(u.children[i]) \in 1..MaxTreePanes
      <4>1. PanesIn[u.children[i]] \subseteq PanesIn[u]
        BY <2>2, SplitIs
      <4>2. PICK j \in 1..n : j # i
        <5>1. 1 \in 1..n /\ 2 \in 1..n
          BY <3>0
        <5> QED
          BY <5>1
      <4>3. PICK q : q \in PanesIn[u.children[j]]
        BY <3>0, PanesAreIn
      <4>4. q \in PanesIn[u]
        BY <2>2, <4>3, SplitIs
      <4>5. q \notin PanesIn[u.children[i]]
        BY <2>2, <4>2, <4>3, WholeIs
      <4>6. PanesIn[u.children[i]] # PanesIn[u]
        BY <4>4, <4>5
      <4>7. size(u.children[i]) \in 1..MaxTreePanes
        BY <3>0, FewPanes
      <4>8. size(u.children[i]) < size(u)
        <5>1. /\ Cardinality(PanesIn[u.children[i]]) <= Cardinality(PanesIn[u])
              /\ Cardinality(PanesIn[u]) # Cardinality(PanesIn[u.children[i]])
          BY <3>1, <4>1, <4>6, FS_Subset
        <5> QED
          BY <3>1, <4>7, <5>1
      <4> QED
        BY <4>7, <4>8
    <3>3. size(u) >= 2
      <4>1. 1 \in 1..n
        BY <3>0
      <4>2. size(u.children[1]) < size(u) /\ size(u.children[1]) \in 1..MaxTreePanes
        BY <3>2, <4>1
      <4> HIDE DEF size
      <4> QED
        BY <3>1, <4>2
    <3>4. ASSUME NEW i \in 1..n PROVE u.children[i] \in UpTo(size(u) - 2)
      <4>1. u.children[i] \in S
        BY <1>1, <2>2, <3>0
      <4>2. u.children[i] \in UpTo(size(u.children[i]) - 1)
        BY <3>0, <4>1
      <4>3. size(u.children[i]) < size(u) /\ size(u.children[i]) \in 1..MaxTreePanes
        BY <3>2
      <4> HIDE DEF size
      <4>4. /\ size(u.children[i]) - 1 \in 0..MaxTreePanes /\ size(u) - 2 \in 0..MaxTreePanes
            /\ size(u.children[i]) - 1 <= size(u) - 2
        BY <3>1, <3>3, <4>3, TreeBounds
      <4> QED
        BY <4>2, <4>4, DepthsAreNested
    <3> HIDE DEF size
    <3>5. u.children \in Seq(UpTo(size(u) - 2))
      BY <3>0, <3>4
    <3>6. size(u) - 2 \in 0..(MaxTreePanes - 1) /\ (size(u) - 2) + 1 = size(u) - 1
      BY <3>1, <3>3, TreeBounds
    <3>7. Split(u.dir, u.children, u.sizes) \in UpTo((size(u) - 2) + 1)
      BY <3>0, <3>5, <3>6, SplitOf
    <3> QED
      BY <3>0, <3>6, <3>7
  <2> QED
    BY <2>1, <2>2, TreeCases
<1>2. S = Tree
  <2>1. S \in SUBSET Tree
    OBVIOUS
  <2> HIDE DEF S
  <2> QED
    BY <1>1, <2>1, TreeInduction
<1> QED
  BY <1>2

\* ... so there is room for one more split.
LEMMA RoomForMore ==
  ASSUME NEW t \in Tree, IsWhole[t]
  PROVE  \E d \in 0..(MaxTreePanes - 1) : t \in UpTo(d)
<1>1. Cardinality(PanesIn[t]) - 1 \in 0..(MaxTreePanes - 1)
  BY FewPanes, TreeBounds
<1>2. t \in UpTo(Cardinality(PanesIn[t]) - 1)
  BY ShallowTrees
<1> QED
  BY <1>1, <1>2, Zenon

\* What the operations make of a whole tree.
WholeBut(x, t, r) == r \in Tree /\ IsWhole[r] /\ SameBut(x, t, r)

\* What is needed of closePane and resizePane, without depths.
LEMMA WholeTrees ==
  ASSUME NEW t \in Tree, IsWhole[t], NEW x \in TreePanes
  PROVE  /\ \/ Closed(t, x) = NoTree /\ PanesIn[t] = {x}
            \/ PanesIn[t] # {x} /\ WholeBut(x, t, Closed(t, x)) /\ x \notin PanesIn[Closed(t, x)]
         /\ WholeBut(x, t, Resized(t, x)) /\ PanesIn[Resized(t, x)] = PanesIn[t]
<1>1. MaxTreePanes \in 0..MaxTreePanes /\ t \in UpTo(MaxTreePanes)
  BY TreeBounds, Depths
<1>2. ResizesTo(x, t, Resized(t, x), MaxTreePanes)
  BY <1>1, ResizedIs
<1>3. ClosesTo(x, t, Closed(t, x))
  BY ClosedIs
<1> QED
  BY <1>2, <1>3 DEF ResizesTo, GrowsTo, ClosesTo, WholeBut

\* ... of appendLeaf.
LEMMA AppendedTree ==
  ASSUME NEW t \in Tree, IsWhole[t], NEW x \in TreePanes, x \notin PanesIn[t]
  PROVE  WholeBut(x, t, AppendLeaf(t, Leaf(x))) /\ PanesIn[AppendLeaf(t, Leaf(x))] = PanesIn[t] \cup {x}
<1>1. PICK d \in 0..(MaxTreePanes - 1) : t \in UpTo(d)
  BY RoomForMore
<1> QED
  BY <1>1, AppendLeafIs DEF GrowsTo, WholeBut

\* ... of splitPane and insertBeside, at a target that is there.
LEMMA PlacedTree ==
  ASSUME NEW t \in Tree, IsWhole[t], NEW x \in TreePanes, x \notin PanesIn[t], NEW target \in PanesIn[t],
         NEW dir \in Directions, NEW before \in BOOLEAN, NEW even \in BOOLEAN
  PROVE  /\ WholeBut(x, t, Placed(t, target, Leaf(x), dir, before, even))
         /\ PanesIn[Placed(t, target, Leaf(x), dir, before, even)] = PanesIn[t] \cup {x}
<1>1. PICK d \in 0..(MaxTreePanes - 1) : t \in UpTo(d)
  BY RoomForMore
<1>2. target \in TreePanes
  BY PanesAreIn
<1>3. PlacesTo(x, target, t, Placed(t, target, Leaf(x), dir, before, even), d)
  BY <1>1, <1>2, PlacedIs
<1> QED
  BY <1>3 DEF PlacesTo, GrowsTo, WholeBut

-----------------------------------------------------------------------------
(* The operations on the tabs. *)

\* What an operation about pane x may make of a tab's tree.
TabTurnsInto(x, t, r) ==
  /\ r \in Tree /\ IsWhole[r]
  /\ SameBut(x, t, r) \/ (PanesIn[t] = {x} /\ \E q \in TreePanes : PanesIn[r] = {q})

\* What PanesKeepOrder says of tab k, for an operation on pane x.
Turned(k, x) ==
  \/ /\ PanesOf(k)' \ {x} = PanesOf(k) \ {x}
     /\ OthersInOrder(trees'[k], x) = OthersInOrder(trees[k], x)
  \/ PanesOf(k) = {x} /\ \E q \in TreePanes : PanesOf(k)' = {q}

\* What the invariant says of one tab.
LEMMA TabsAre ==
  ASSUME GridsAreWhole, NEW k \in TreeTabs
  PROVE  /\ trees[k] \in Tree /\ IsWhole[trees[k]] /\ PanesOf(k) = PanesIn[trees[k]]
         /\ PanesOf(k) \subseteq TreePanes
         /\ \A j \in TreeTabs : \A p : j # k /\ p \in PanesOf(k) => p \notin PanesOf(j)
<1>1. trees[k] \in Tree /\ IsWhole[trees[k]]
  BY DEF GridsAreWhole
<1>2. PanesOf(k) = PanesIn[trees[k]] /\ PanesOf(k) \subseteq TreePanes
  BY <1>1, PanesAreIn DEF PanesOf
<1>3. \A j \in TreeTabs : \A p : j # k /\ p \in PanesOf(k) => p \notin PanesOf(j)
  BY DEF GridsAreWhole, TreeTabs
<1> QED
  BY <1>1, <1>2, <1>3

\* A tab that turns into such a tree satisfies PanesKeepOrder.
LEMMA TabTurns ==
  ASSUME GridsAreWhole, NEW k \in TreeTabs, NEW x, TabTurnsInto(x, trees[k], trees'[k])
  PROVE  Turned(k, x)
<1>1. trees[k] \in Tree /\ trees'[k] \in Tree /\ PanesOf(k) = PanesIn[trees[k]] /\ PanesOf(k)' = PanesIn[trees'[k]]
  BY TabsAre DEF TabTurnsInto, PanesOf
<1>2. CASE SameBut(x, trees[k], trees'[k])
  BY <1>1, <1>2, SameButIs DEF Turned
<1>3. CASE PanesIn[trees[k]] = {x} /\ \E q \in TreePanes : PanesIn[trees'[k]] = {q}
  BY <1>1, <1>3 DEF Turned
<1> QED
  BY <1>2, <1>3 DEF TabTurnsInto

\* Operations that give a tab tree r, with only its own panes and unused ones.
LEMMA TabEdited ==
  ASSUME GridsAreWhole, NEW k \in TreeTabs, NEW x \in TreePanes, NEW r,
         TabTurnsInto(x, trees[k], r), PanesIn[r] \subseteq PanesOf(k) \cup Unused, Edit(k, r)
  PROVE  GridsAreWhole' /\ \A j \in TreeTabs : Turned(j, x)
<1>1. trees \in [TreeTabs -> Tree] /\ r \in Tree /\ IsWhole[r]
  BY DEF GridsAreWhole, TabTurnsInto
<1>2. /\ trees' \in [TreeTabs -> Tree] /\ trees'[k] = r
      /\ \A j \in TreeTabs : j # k => trees'[j] = trees[j]
  BY <1>1 DEF Edit
<1>3. ASSUME NEW j \in TreeTabs PROVE TabTurnsInto(x, trees[j], trees'[j])
  <2>1. CASE j = k
    BY <1>2, <2>1
  <2>2. CASE j # k
    <3>1. SameBut(x, trees[j], trees[j])
      BY DEF SameBut
    <3> QED
      BY <1>2, <2>2, <3>1, TabsAre DEF TabTurnsInto
  <2> QED
    BY <2>1, <2>2
<1>4. \A j \in TreeTabs : IsWhole[trees'[j]]
  BY <1>3 DEF TabTurnsInto
<1>5. (PanesOf(1) \cap PanesOf(2) = {})'
  <2>1. \A j \in TreeTabs : j # k => (\A p \in PanesIn[r] : p \notin PanesIn[trees'[j]])
    <3> SUFFICES ASSUME NEW j \in TreeTabs, j # k, NEW p \in PanesIn[r] PROVE p \notin PanesIn[trees[j]]
      BY <1>2
    <3>1. p \in PanesOf(k) \/ p \in Unused
      OBVIOUS
    <3> QED
      BY <3>1, TabsAre DEF Unused
  <2>2. PanesOf(1)' = PanesIn[trees'[1]] /\ PanesOf(2)' = PanesIn[trees'[2]]
    BY DEF PanesOf
  <2>3. k = 1 \/ k = 2
    BY DEF TreeTabs
  <2> QED
    BY <1>2, <2>1, <2>2, <2>3 DEF TreeTabs
<1>6. GridsAreWhole'
  BY <1>2, <1>4, <1>5 DEF GridsAreWhole
<1> QED
  BY <1>3, <1>6, TabTurns

\* Closing a pane of a tab leaves a whole tree, or a new pane.
LEMMA ClosedTab ==
  ASSUME GridsAreWhole, NEW k \in TreeTabs, NEW p \in PanesOf(k), NEW r \in OrEmpty(Closed(trees[k], p))
  PROVE  /\ TabTurnsInto(p, trees[k], r) /\ p \notin PanesIn[r]
         /\ PanesIn[r] \subseteq PanesOf(k) \cup Unused
<1>1. /\ trees[k] \in Tree /\ IsWhole[trees[k]] /\ PanesOf(k) = PanesIn[trees[k]] /\ p \in TreePanes
  BY TabsAre
<1>2. \/ Closed(trees[k], p) = NoTree /\ PanesIn[trees[k]] = {p}
      \/ /\ WholeBut(p, trees[k], Closed(trees[k], p)) /\ p \notin PanesIn[Closed(trees[k], p)]
  BY <1>1, WholeTrees
<1>3. CASE Closed(trees[k], p) = NoTree /\ PanesIn[trees[k]] = {p}
  <2>1. PICK q \in Unused : r = Leaf(q)
    BY <1>3 DEF OrEmpty
  <2>2. q \in TreePanes /\ q # p
    BY <2>1 DEF Unused
  <2>3. r \in Tree /\ IsWhole[r] /\ PanesIn[r] = {q}
    BY <2>1, <2>2, LeafIs
  <2> QED
    BY <1>3, <2>2, <2>3 DEF TabTurnsInto
<1>4. CASE WholeBut(p, trees[k], Closed(trees[k], p)) /\ p \notin PanesIn[Closed(trees[k], p)]
  <2>1. r = Closed(trees[k], p)
    BY <1>4, TreeIsOne DEF OrEmpty, WholeBut
  <2>2. PanesIn[r] \subseteq PanesOf(k)
    BY <1>1, <1>4, <2>1 DEF WholeBut, SameBut
  <2> QED
    BY <1>4, <2>1, <2>2 DEF TabTurnsInto, WholeBut
<1> QED
  BY <1>2, <1>3, <1>4

\* splitPane keeps both properties.
LEMMA SplitPaneIs ==
  ASSUME GridsAreWhole, NEW k \in TreeTabs, NEW p \in PanesOf(k), NEW dir \in Directions, SplitPane(k, p, dir)
  PROVE  GridsAreWhole' /\ \E x \in TreePanes : \A j \in TreeTabs : Turned(j, x)
<1>1. PICK q \in Unused : Edit(k, Placed(trees[k], p, Leaf(q), dir, FALSE, TRUE))
  BY DEF SplitPane
<1>2. trees[k] \in Tree /\ IsWhole[trees[k]] /\ PanesOf(k) = PanesIn[trees[k]]
  BY TabsAre
<1>3. q \in TreePanes /\ q \notin PanesIn[trees[k]]
  BY <1>2 DEF Unused
<1> DEFINE r == Placed(trees[k], p, Leaf(q), dir, FALSE, TRUE)
<1>4. WholeBut(q, trees[k], r) /\ PanesIn[r] = PanesIn[trees[k]] \cup {q}
  <2>1. \A even \in BOOLEAN, before \in BOOLEAN :
          /\ WholeBut(q, trees[k], Placed(trees[k], p, Leaf(q), dir, before, even))
          /\ PanesIn[Placed(trees[k], p, Leaf(q), dir, before, even)] = PanesIn[trees[k]] \cup {q}
    BY <1>2, <1>3, PlacedTree
  <2> QED
    BY <2>1, Zenon
<1> HIDE DEF r
<1>5. TabTurnsInto(q, trees[k], r) /\ PanesIn[r] \subseteq PanesOf(k) \cup Unused
  BY <1>2, <1>4 DEF WholeBut, TabTurnsInto
<1>6. Edit(k, r)
  BY <1>1 DEF r
<1>7. GridsAreWhole' /\ \A j \in TreeTabs : Turned(j, q)
  BY <1>3, <1>5, <1>6, TabEdited
<1> QED
  BY <1>3, <1>7

\* closePane keeps both properties.
LEMMA ClosePaneIs ==
  ASSUME GridsAreWhole, NEW k \in TreeTabs, NEW p \in PanesOf(k), ClosePane(k, p)
  PROVE  GridsAreWhole' /\ \E x \in TreePanes : \A j \in TreeTabs : Turned(j, x)
<1>1. PICK r \in OrEmpty(Closed(trees[k], p)) : Edit(k, r)
  BY DEF ClosePane
<1>2. TabTurnsInto(p, trees[k], r) /\ PanesIn[r] \subseteq PanesOf(k) \cup Unused
  BY ClosedTab
<1>3. p \in TreePanes
  BY TabsAre
<1>4. GridsAreWhole' /\ \A j \in TreeTabs : Turned(j, p)
  BY <1>1, <1>2, <1>3, TabEdited
<1> QED
  BY <1>3, <1>4

\* handleDropPane, which closes a pane and inserts it elsewhere, keeps both properties.
LEMMA MovePaneIs ==
  ASSUME GridsAreWhole, NEW k \in TreeTabs, NEW p \in PanesOf(k), NEW target \in PanesOf(k),
         NEW dir \in Directions, NEW before \in BOOLEAN, MovePane(k, p, target, dir, before)
  PROVE  GridsAreWhole' /\ \E x \in TreePanes : \A j \in TreeTabs : Turned(j, x)
<1> DEFINE t == trees[k]
           c == Closed(t, p)
           r == Placed(c, target, Leaf(p), dir, before, FALSE)
<1>1. t \in Tree /\ IsWhole[t] /\ PanesOf(k) = PanesIn[t] /\ p \in TreePanes
  BY TabsAre
<1>2. target # p /\ Edit(k, r)
  BY DEF MovePane
<1>3. WholeBut(p, t, c) /\ p \notin PanesIn[c]
  BY <1>1, <1>2, WholeTrees
<1>4. target \in PanesIn[c]
  BY <1>1, <1>2, <1>3 DEF WholeBut, SameBut
<1> HIDE DEF c
<1>5. WholeBut(p, c, r) /\ PanesIn[r] = PanesIn[c] \cup {p}
  <2>1. c \in Tree /\ IsWhole[c]
    BY <1>3 DEF WholeBut
  <2>2. \A even \in BOOLEAN :
          /\ WholeBut(p, c, Placed(c, target, Leaf(p), dir, before, even))
          /\ PanesIn[Placed(c, target, Leaf(p), dir, before, even)] = PanesIn[c] \cup {p}
    BY <1>1, <1>3, <1>4, <2>1, PlacedTree
  <2> QED
    BY <2>2, Zenon
<1> HIDE DEF r, t
<1>6. WholeBut(p, t, r) /\ PanesIn[r] \subseteq PanesIn[t]
  BY <1>1, <1>3, <1>5 DEF WholeBut, SameBut
<1>7. TabTurnsInto(p, t, r) /\ PanesIn[r] \subseteq PanesOf(k) \cup Unused
  BY <1>1, <1>6 DEF WholeBut, TabTurnsInto
<1>8. GridsAreWhole' /\ \A j \in TreeTabs : Turned(j, p)
  BY <1>1, <1>2, <1>7, TabEdited DEF t
<1> QED
  BY <1>1, <1>8

\* handleDropOnTab, which takes a pane from one tab to another, keeps both properties.
LEMMA MoveToTabIs ==
  ASSUME GridsAreWhole, NEW i \in TreeTabs, NEW k \in TreeTabs, NEW p \in PanesOf(i), MoveToTab(i, k, p)
  PROVE  GridsAreWhole' /\ \E x \in TreePanes : \A j \in TreeTabs : Turned(j, x)
<1>1. i # k
  BY DEF MoveToTab
<1>2. PICK r \in OrEmpty(Closed(trees[i], p)) :
        trees' = [trees EXCEPT ![i] = r, ![k] = AppendLeaf(trees[k], Leaf(p))]
  BY <1>1 DEF MoveToTab
<1> DEFINE s == AppendLeaf(trees[k], Leaf(p))
<1>3. /\ TabTurnsInto(p, trees[i], r) /\ p \notin PanesIn[r] /\ PanesIn[r] \subseteq PanesOf(i) \cup Unused
  BY ClosedTab
<1>4. /\ trees[k] \in Tree /\ IsWhole[trees[k]] /\ PanesOf(k) = PanesIn[trees[k]]
      /\ p \in TreePanes /\ p \notin PanesOf(k)
      /\ \A q \in PanesOf(i) : q \notin PanesOf(k)
  BY <1>1, TabsAre
<1>5. WholeBut(p, trees[k], s) /\ PanesIn[s] = PanesIn[trees[k]] \cup {p}
  BY <1>4, AppendedTree
<1> HIDE DEF s
<1>6. TabTurnsInto(p, trees[k], s)
  BY <1>5 DEF TabTurnsInto, WholeBut
<1>7. TreeTabs = {i, k}
  BY <1>1 DEF TreeTabs
<1>8. trees' \in [TreeTabs -> Tree] /\ trees'[i] = r /\ trees'[k] = s
  <2>1. trees \in [TreeTabs -> Tree] /\ r \in Tree /\ s \in Tree
    BY <1>3, <1>6 DEF GridsAreWhole, TabTurnsInto
  <2> QED
    BY <1>1, <1>2, <2>1 DEF s
<1>9. \A j \in TreeTabs : TabTurnsInto(p, trees[j], trees'[j])
  BY <1>3, <1>6, <1>7, <1>8
<1>10. \A q : ~(q \in PanesIn[r] /\ q \in PanesIn[s])
  <2> SUFFICES ASSUME NEW q, q \in PanesIn[r], q \in PanesIn[s] PROVE FALSE
    OBVIOUS
  <2>1. q \in PanesOf(k)
    BY <1>3, <1>4, <1>5
  <2>2. q \in PanesOf(i) \/ q \in Unused
    BY <1>3
  <2> QED
    BY <1>4, <2>1, <2>2 DEF Unused
<1>11. (PanesOf(1) \cap PanesOf(2) = {})'
  <2>1. PanesOf(1)' = PanesIn[trees'[1]] /\ PanesOf(2)' = PanesIn[trees'[2]]
    BY DEF PanesOf
  <2>2. (i = 1 /\ k = 2) \/ (i = 2 /\ k = 1)
    BY <1>1 DEF TreeTabs
  <2> QED
    BY <1>8, <1>10, <2>1, <2>2
<1>12. GridsAreWhole'
  BY <1>8, <1>9, <1>11 DEF GridsAreWhole, TabTurnsInto
<1>13. \A j \in TreeTabs : Turned(j, p)
  BY <1>9, TabTurns
<1> QED
  BY <1>4, <1>12, <1>13

\* resizePane keeps both properties.
LEMMA ResizePaneIs ==
  ASSUME GridsAreWhole, NEW k \in TreeTabs, NEW p \in PanesOf(k), ResizePane(k, p)
  PROVE  GridsAreWhole' /\ \E x \in TreePanes : \A j \in TreeTabs : Turned(j, x)
<1>1. trees[k] \in Tree /\ IsWhole[trees[k]] /\ PanesOf(k) = PanesIn[trees[k]] /\ p \in TreePanes
  BY TabsAre
<1>2. WholeBut(p, trees[k], Resized(trees[k], p)) /\ PanesIn[Resized(trees[k], p)] = PanesIn[trees[k]]
  BY <1>1, WholeTrees
<1>3. TabTurnsInto(p, trees[k], Resized(trees[k], p)) /\ PanesIn[Resized(trees[k], p)] \subseteq PanesOf(k) \cup Unused
  BY <1>1, <1>2 DEF WholeBut, TabTurnsInto
<1>4. Edit(k, Resized(trees[k], p))
  BY DEF ResizePane
<1>5. GridsAreWhole' /\ \A j \in TreeTabs : Turned(j, p)
  BY <1>1, <1>3, <1>4, TabEdited
<1> QED
  BY <1>1, <1>5

\* So does every step,
LEMMA TreeStep ==
  ASSUME GridsAreWhole, TreeNext
  PROVE  GridsAreWhole' /\ \E x \in TreePanes : \A j \in TreeTabs : Turned(j, x)
<1>0. PICK k \in TreeTabs : \E p \in PanesOf(k) :
        \/ ClosePane(k, p) \/ ResizePane(k, p)
        \/ \E j \in TreeTabs : MoveToTab(k, j, p)
        \/ \E dir \in Directions :
             \/ SplitPane(k, p, dir)
             \/ \E target \in PanesOf(k), before \in BOOLEAN : MovePane(k, p, target, dir, before)
  BY DEF TreeNext
<1>1. PICK p \in PanesOf(k) :
        \/ ClosePane(k, p) \/ ResizePane(k, p)
        \/ \E j \in TreeTabs : MoveToTab(k, j, p)
        \/ \E dir \in Directions :
             \/ SplitPane(k, p, dir)
             \/ \E target \in PanesOf(k), before \in BOOLEAN : MovePane(k, p, target, dir, before)
  BY <1>0
<1>2. CASE ClosePane(k, p)
  BY <1>2, ClosePaneIs
<1>3. CASE ResizePane(k, p)
  BY <1>3, ResizePaneIs
<1>4. CASE \E j \in TreeTabs : MoveToTab(k, j, p)
  BY <1>4, MoveToTabIs
<1>5. ASSUME NEW dir \in Directions, SplitPane(k, p, dir)
      PROVE  GridsAreWhole' /\ \E x \in TreePanes : \A j \in TreeTabs : Turned(j, x)
  BY <1>5, SplitPaneIs
<1>6. ASSUME NEW dir \in Directions, NEW target \in PanesOf(k), NEW before \in BOOLEAN,
             MovePane(k, p, target, dir, before)
      PROVE  GridsAreWhole' /\ \E x \in TreePanes : \A j \in TreeTabs : Turned(j, x)
  BY <1>6, MovePaneIs
<1> QED
  BY <1>1, <1>2, <1>3, <1>4, <1>5, <1>6

\* the first state satisfies the invariant,
LEMMA TreeStart ==
  ASSUME TreeInit
  PROVE  GridsAreWhole
<1>1. 1 \in TreePanes /\ 2 \in TreePanes /\ TreeTabs \subseteq TreePanes
  BY TreeBounds DEF TreePanes, TreeTabs
<1>2. \A k \in TreeTabs : Leaf(k) \in Tree /\ IsWhole[Leaf(k)] /\ PanesIn[Leaf(k)] = {k}
  BY <1>1, LeafIs
<1>3. trees = [k \in TreeTabs |-> Leaf(k)] /\ 1 \in TreeTabs /\ 2 \in TreeTabs
  BY DEF TreeInit, TreeTabs
<1>4. PanesOf(1) = {1} /\ PanesOf(2) = {2}
  BY <1>2, <1>3 DEF PanesOf
<1> QED
  BY <1>2, <1>3, <1>4 DEF GridsAreWhole

\* and a step that changes nothing keeps it.
LEMMA TreesIdle ==
  ASSUME GridsAreWhole, UNCHANGED treeVars
  PROVE  GridsAreWhole'
BY DEF GridsAreWhole, treeVars, PanesOf

\* The part about the splits and panes, for any number of panes and of operations.
LEMMA GridsStayWhole == TreeSpec => []GridsAreWhole
<1>1. TreeInit => GridsAreWhole
  BY TreeStart
<1>2. GridsAreWhole /\ [TreeNext]_treeVars => GridsAreWhole'
  BY TreeStep, TreesIdle
<1> QED
  BY <1>1, <1>2, PTL DEF TreeSpec

\* For any number of panes and of operations: an operation is about one pane, and all the
\* others stay, in the order they had.
THEOREM PanesStayInOrder == TreeSpec => PanesKeepOrder
<1> DEFINE OneTurns ==
      \E p \in TreePanes : \A k \in TreeTabs :
       \/ /\ PanesOf(k)' \ {p} = PanesOf(k) \ {p}
          /\ OthersInOrder(trees'[k], p) = OthersInOrder(trees[k], p)
       \/ PanesOf(k) = {p} /\ \E q \in TreePanes : PanesOf(k)' = {q}
<1>1. GridsAreWhole /\ [TreeNext]_treeVars => [OneTurns]_trees
  <2>1. GridsAreWhole /\ TreeNext => OneTurns
    BY TreeStep DEF Turned
  <2>2. UNCHANGED treeVars => UNCHANGED trees
    BY DEF treeVars
  <2> QED
    BY <2>1, <2>2
<1>2. TreeSpec => []GridsAreWhole
  BY GridsStayWhole
<1> QED
  BY <1>1, <1>2, PTL DEF TreeSpec, PanesKeepOrder

-----------------------------------------------------------------------------
(* Trees whose shares add up. *)

\* When the shares of a split, and of the splits below it, add up.
LEMMA AddsIs ==
  ASSUME NEW t \in Tree, t.type = "split"
  PROVE  AddsUp[t] <=> Total(t.sizes) = Whole /\ \A i \in 1..Len(t.children) : AddsUp[t.children[i]]
<1>1. DOMAIN t.children = 1..Len(t.children)
  BY SplitIs
<1> QED
  BY <1>1, AddsOfTree

\* A leaf has no shares.
LEMMA LeafAdds ==
  ASSUME NEW t \in Tree, t.type = "leaf"
  PROVE  AddsUp[t]
BY AddsOfTree

\* A split made of such children and of shares that are the whole.
LEMMA SplitAdds ==
  ASSUME NEW dir, NEW ch, NEW sizes, Split(dir, ch, sizes) \in Tree, Total(sizes) = Whole,
         \A i \in DOMAIN ch : AddsUp[ch[i]]
  PROVE  AddsUp[Split(dir, ch, sizes)]
<1> DEFINE r == Split(dir, ch, sizes)
<1>1. r.type = "split" /\ r.children = ch /\ r.sizes = sizes
  BY DEF Split
<1> HIDE DEF r
<1>2. r \in Tree
  BY DEF r
<1>4. DOMAIN ch = 1..Len(ch)
  BY <1>1, <1>2, SplitIs
<1>3. AddsUp[r]
  BY <1>1, <1>2, <1>4, AddsIs
<1> QED
  BY <1>3 DEF r

\* If closing keeps the sums of each child of a split, it keeps those of the split.
LEMMA ClosedSplitAdds ==
  ASSUME NEW t \in Tree, t.type = "split", IsWhole[t], NEW p, NEW after, DOMAIN after = 1..Len(t.children),
         \A i \in 1..Len(t.children) : ClosesTo(p, t.children[i], after[i]),
         \A i \in 1..Len(t.children) : after[i] = NoTree \/ AddsUp[after[i]]
  PROVE  Survivors(t, after) = NoTree \/ AddsUp[Survivors(t, after)]
<1> DEFINE n == Len(t.children)
           r == Survivors(t, after)
<1>1. n \in Nat /\ n >= 2
  BY SplitIs, WholeIs
<1>2. PICK d : OnlyGone(after, n, d)
  BY OneGoes
<1>3. PICK c \in Nat : \E left \in [1..c -> 1..n] : Remains(t, after, d, c, left)
  BY <1>2, SurvivorsAre
<1>4. PICK left \in [1..c -> 1..n] : Remains(t, after, d, c, left)
  BY <1>3
<1>5. /\ c = IF d \in 1..n THEN n - 1 ELSE n
      /\ \A i \in 1..c : left[i] # d
      /\ c = 1 => r = after[left[1]]
      /\ c > 1 => \E sizes \in Seq(Fractions) :
                    /\ Len(sizes) = c /\ Total(sizes) = Whole
                    /\ r = Split(t.dir, [k \in 1..c |-> after[left[k]]], sizes)
  BY <1>4 DEF Remains
<1>6. \A i \in 1..c : AddsUp[after[left[i]]]
  <2> SUFFICES ASSUME NEW i \in 1..c PROVE AddsUp[after[left[i]]]
    OBVIOUS
  <2>1. left[i] \in 1..n /\ left[i] # d
    BY <1>5
  <2> QED
    BY <1>2, <2>1 DEF OnlyGone
<1>7. r = NoTree \/ r \in Tree
  BY ClosedSplit DEF ClosesTo
<1> SUFFICES ASSUME r # NoTree PROVE AddsUp[r]
  OBVIOUS
<1> HIDE DEF r
<1>8. CASE c = 1
  <2>1. 1 \in 1..c
    BY <1>8
  <2> QED
    BY <1>5, <1>6, <1>8, <2>1
<1>9. CASE c > 1
  <2> DEFINE ch == [k \in 1..c |-> after[left[k]]]
  <2>1. PICK sizes \in Seq(Fractions) : Total(sizes) = Whole /\ r = Split(t.dir, ch, sizes)
    BY <1>5, <1>9
  <2>2. DOMAIN ch = 1..c /\ \A i \in 1..c : ch[i] = after[left[i]]
    OBVIOUS
  <2> HIDE DEF ch
  <2> QED
    BY <1>6, <1>7, <2>1, <2>2, SplitAdds
<1> QED
  <2>1. c = n - 1 \/ c = n
    BY <1>5
  <2>2. c = 1 \/ c > 1
    <3> HIDE DEF n
    <3> QED
      BY <1>1, <2>1
  <2> QED
    BY <1>8, <1>9, <2>2

\* closePane: the shares still add up.
LEMMA ClosedAdds ==
  ASSUME NEW t \in Tree, IsWhole[t], AddsUp[t], NEW p
  PROVE  Closed(t, p) = NoTree \/ AddsUp[Closed(t, p)]
<1> DEFINE S == {u \in Tree : IsWhole[u] /\ AddsUp[u] => Closed(u, p) = NoTree \/ AddsUp[Closed(u, p)]}
<1>1. ASSUME NEW u \in Tree, u.type = "split" => \A i \in DOMAIN u.children : u.children[i] \in S
      PROVE  u \in S
  <2> SUFFICES ASSUME IsWhole[u], AddsUp[u] PROVE Closed(u, p) = NoTree \/ AddsUp[Closed(u, p)]
    OBVIOUS
  <2>1. CASE u.type = "leaf"
    <3>1. Closed(u, p) = IF u.pane = p THEN NoTree ELSE u
      BY <2>1, ClosedOfTree
    <3> QED
      BY <3>1
  <2>2. CASE u.type = "split"
    <3> DEFINE after == [i \in DOMAIN u.children |-> Closed(u.children[i], p)]
    <3>1. Closed(u, p) = Survivors(u, after)
      BY <2>2, ClosedOfTree
    <3>2. DOMAIN after = 1..Len(u.children) /\ DOMAIN u.children = 1..Len(u.children)
      BY <2>2, SplitIs
    <3>3. \A i \in 1..Len(u.children) : after[i] = Closed(u.children[i], p)
      BY <3>2
    <3> HIDE DEF after
    <3>4. \A i \in 1..Len(u.children) : u.children[i] \in Tree /\ IsWhole[u.children[i]] /\ AddsUp[u.children[i]]
      BY <2>2, SplitIs, WholeIs, AddsIs
    <3>5. \A i \in 1..Len(u.children) : ClosesTo(p, u.children[i], after[i])
      BY <3>3, <3>4, ClosedIs
    <3>6. \A i \in 1..Len(u.children) : after[i] = NoTree \/ AddsUp[after[i]]
      BY <1>1, <2>2, <3>2, <3>3, <3>4
    <3> QED
      BY <2>2, <3>1, <3>2, <3>5, <3>6, ClosedSplitAdds
  <2> QED
    BY <2>1, <2>2, TreeCases
<1>2. S = Tree
  <2>1. S \in SUBSET Tree
    OBVIOUS
  <2> HIDE DEF S
  <2> QED
    BY <1>1, <2>1, TreeInduction
<1> QED
  BY <1>2

\* A tree and a leaf side by side.
LEMMA PairAdds ==
  ASSUME NEW t \in Tree, AddsUp[t], NEW x \in TreePanes, NEW dir, NEW before \in BOOLEAN,
         Split(dir, Pair(t, Leaf(x), before), EqualSizes(2)) \in Tree
  PROVE  AddsUp[Split(dir, Pair(t, Leaf(x), before), EqualSizes(2))]
<1>1. AddsUp[Leaf(x)]
  BY LeafIs, LeafAdds
<1>2. \A i \in DOMAIN Pair(t, Leaf(x), before) : AddsUp[Pair(t, Leaf(x), before)[i]]
  <2>1. \A a, b : AddsUp[a] /\ AddsUp[b] => \A i \in DOMAIN <<a, b>> : AddsUp[<<a, b>>[i]]
    <3> SUFFICES ASSUME NEW a, NEW b, AddsUp[a], AddsUp[b], NEW i \in DOMAIN <<a, b>> PROVE AddsUp[<<a, b>>[i]]
      OBVIOUS
    <3>1. i = 1 \/ i = 2
      OBVIOUS
    <3> QED
      BY <3>1
  <2> QED
    BY <1>1, <2>1 DEF Pair
<1>3. Total(EqualSizes(2)) = Whole
  <2>1. 2 \in Nat \ {0}
    OBVIOUS
  <2> QED
    BY <2>1, EqualTotal
<1> QED
  BY <1>2, <1>3, SplitAdds

\* Children that gain a leaf.
LEMMA InsertedAdds ==
  ASSUME NEW s \in Seq(Tree), \A i \in 1..Len(s) : AddsUp[s[i]], NEW at \in 1..(Len(s) + 1),
         NEW x \in TreePanes, NEW ch, Inserted(s, at, Leaf(x), ch)
  PROVE  \A i \in 1..Len(ch) : AddsUp[ch[i]]
<1>1. AddsUp[Leaf(x)]
  BY LeafIs, LeafAdds
<1>2. Len(s) \in Nat
  OBVIOUS
<1> SUFFICES ASSUME NEW i \in 1..Len(ch) PROVE AddsUp[ch[i]]
  OBVIOUS
<1>3. i \in 1..(Len(s) + 1)
  BY DEF Inserted
<1>4. CASE i < at
  <2>1. i \in 1..(at - 1) /\ i \in 1..Len(s)
    BY <1>2, <1>3, <1>4
  <2> QED
    BY <2>1 DEF Inserted
<1>5. CASE i = at
  BY <1>1, <1>5 DEF Inserted
<1>6. CASE i > at
  <2>1. i - 1 \in at..Len(s) /\ i - 1 \in 1..Len(s) /\ (i - 1) + 1 = i
    BY <1>2, <1>3, <1>6
  <2>2. ch[(i - 1) + 1] = s[i - 1]
    BY <2>1 DEF Inserted
  <2> QED
    BY <2>1, <2>2
<1> QED
  BY <1>2, <1>3, <1>4, <1>5, <1>6

\* A leaf beside another takes half its share, or all get equal ones.
LEMMA BesideAdds ==
  ASSUME NEW t \in Tree, t.type = "split", IsWhole[t], AddsUp[t], NEW x \in TreePanes,
         NEW i \in 1..Len(t.children), NEW before \in BOOLEAN, NEW even \in BOOLEAN,
         Beside(t, i, Leaf(x), before, even) \in Tree
  PROVE  AddsUp[Beside(t, i, Leaf(x), before, even)]
<1>1. /\ t.children \in Seq(Tree) /\ Leaf(x) \in Tree
      /\ t.sizes \in Seq(Fractions) /\ Len(t.sizes) = Len(t.children)
  BY WholeIs, TreeCases, LeafIs
<1>2. Total(t.sizes) = Whole /\ \A j \in 1..Len(t.children) : AddsUp[t.children[j]]
  BY AddsIs
<1>3. BesideIsMade(Tree, t, i, Leaf(x), before, even)
  BY <1>1, BesideParts
<1>4. PICK at \in 1..(Len(t.children) + 1) : \E ch \in Seq(Tree) : \E sizes \in Seq(Fractions) :
           BesideIsOf(t, i, Leaf(x), before, even, at, ch, sizes)
  BY <1>3 DEF BesideIsMade
<1>5. PICK ch \in Seq(Tree) : \E sizes \in Seq(Fractions) :
           BesideIsOf(t, i, Leaf(x), before, even, at, ch, sizes)
  BY <1>4
<1>6. PICK sizes \in Seq(Fractions) :
           BesideIsOf(t, i, Leaf(x), before, even, at, ch, sizes)
  BY <1>5
<1>7. /\ Beside(t, i, Leaf(x), before, even) = Split(t.dir, ch, sizes)
      /\ Inserted(t.children, at, Leaf(x), ch) /\ Total(sizes) = Whole
  BY <1>2, <1>6 DEF BesideIsOf
<1>8. \A j \in DOMAIN ch : AddsUp[ch[j]]
  <2>1. DOMAIN ch = 1..Len(ch)
    OBVIOUS
  <2> QED
    BY <1>1, <1>2, <1>7, <2>1, InsertedAdds
<1> QED
  BY <1>7, <1>8, SplitAdds

\* splitPane, pinNote and insertBeside: the shares still add up.
LEMMA PlacedAdds ==
  ASSUME NEW x \in TreePanes, NEW target \in TreePanes, NEW dir \in Directions,
         NEW before \in BOOLEAN, NEW even \in BOOLEAN,
         NEW t \in Tree, IsWhole[t], x \notin PanesIn[t], AddsUp[t]
  PROVE  AddsUp[Placed(t, target, Leaf(x), dir, before, even)]
<1> DEFINE placed(u) == Placed(u, target, Leaf(x), dir, before, even)
           d == MaxTreePanes - 1
           S == {u \in Tree : IsWhole[u] /\ x \notin PanesIn[u] /\ u \in UpTo(d) /\ AddsUp[u] => AddsUp[placed(u)]}
<1>0. d \in 0..(MaxTreePanes - 1) /\ d \in 0..MaxTreePanes
  BY TreeBounds
<1>1. ASSUME NEW u \in Tree, u.type = "split" => \A i \in DOMAIN u.children : u.children[i] \in S
      PROVE  u \in S
  <2> SUFFICES ASSUME IsWhole[u], x \notin PanesIn[u], u \in UpTo(d), AddsUp[u]
               PROVE  AddsUp[placed(u)]
    OBVIOUS
  <2>0. placed(u) \in Tree
    <3> HIDE DEF d
    <3>1. PlacesTo(x, target, u, placed(u), d)
      BY <1>0, PlacedIs
    <3> QED
      BY <3>1 DEF PlacesTo, GrowsTo
  <2>1. CASE u.type = "leaf"
    <3>1. CASE u.pane = target
      <4>1. placed(u) = Split(dir, Pair(u, Leaf(x), before), EqualSizes(2))
        BY <2>1, <3>1, PlacedAtLeaf
      <4> HIDE DEF placed
      <4> QED
        BY <2>0, <4>1, PairAdds
    <3>2. CASE u.pane # target
      <4>1. placed(u) = u
        BY <2>1, <3>2, PlacedAtOther
      <4> HIDE DEF placed
      <4> QED
        BY <4>1
    <3> QED
      BY <3>1, <3>2
  <2>2. CASE u.type = "split"
    <3> DEFINE at == ChildAt(u, target)
    <3>1. CASE at # 0 /\ u.dir = dir
      <4>1. placed(u) = Beside(u, at, Leaf(x), before, even)
        BY <2>2, <3>1, PlacedBeside
      <4>2. at \in 1..Len(u.children)
        BY <2>2, <3>1, ChildAtIs
      <4> HIDE DEF at, placed
      <4> QED
        BY <2>0, <2>2, <4>1, <4>2, BesideAdds
    <3>2. CASE ~(at # 0 /\ u.dir = dir)
      <4> DEFINE ch == [j \in DOMAIN u.children |-> placed(u.children[j])]
      <4>1. placed(u) = Split(u.dir, ch, u.sizes)
        BY <2>2, <3>2, PlacedBelow
      <4>2. \A i \in DOMAIN ch : i \in DOMAIN u.children /\ i \in 1..Len(u.children) /\ ch[i] = placed(u.children[i])
        BY <2>2, SplitIs
      <4>3. \A i \in 1..Len(u.children) :
              /\ u.children[i] \in Tree /\ IsWhole[u.children[i]] /\ AddsUp[u.children[i]]
              /\ x \notin PanesIn[u.children[i]]
        BY <2>2, SplitIs, WholeIs, AddsIs
      <4>4. \A i \in 1..Len(u.children) : u.children[i] \in UpTo(d)
        <5>1. d - 1 \in 0..(MaxTreePanes - 1) /\ u.children \in Seq(UpTo(d - 1))
          BY <1>0, <2>2, SplitAt
        <5>2. UpTo(d - 1) \subseteq UpTo((d - 1) + 1) /\ (d - 1) + 1 = d
          BY <1>0, <5>1, Depths
        <5> HIDE DEF d
        <5> QED
          BY <5>1, <5>2
      <4> HIDE DEF ch, d, placed
      <4>5. \A i \in DOMAIN ch : AddsUp[ch[i]]
        BY <1>1, <2>2, <4>2, <4>3, <4>4
      <4>6. Total(u.sizes) = Whole
        BY <2>2, AddsIs
      <4> QED
        BY <2>0, <4>1, <4>5, <4>6, SplitAdds
    <3> QED
      BY <3>1, <3>2
  <2> QED
    BY <2>1, <2>2, TreeCases
<1>2. S = Tree
  <2>1. S \in SUBSET Tree
    OBVIOUS
  <2> HIDE DEF S
  <2> QED
    BY <1>1, <2>1, TreeInduction
<1>3. t \in UpTo(d)
  <2>1. PICK e \in 0..(MaxTreePanes - 1) : t \in UpTo(e)
    BY RoomForMore
  <2>2. e \in 0..MaxTreePanes /\ e <= d
    BY <2>1, TreeBounds
  <2> HIDE DEF d
  <2> QED
    BY <1>0, <2>1, <2>2, DepthsAreNested
<1> QED
  BY <1>2, <1>3

\* appendLeaf: the shares still add up.
LEMMA AppendAdds ==
  ASSUME NEW t \in Tree, IsWhole[t], AddsUp[t], NEW x \in TreePanes, x \notin PanesIn[t]
  PROVE  AddsUp[AppendLeaf(t, Leaf(x))]
<1>0. AppendLeaf(t, Leaf(x)) \in Tree
  BY AppendedTree DEF WholeBut
<1>1. CASE t.type = "split" /\ t.dir = "row"
  <2> DEFINE n == Len(t.children)
             ch == Append(t.children, Leaf(x))
             sizes == Append([i \in DOMAIN t.sizes |-> Times(t.sizes[i], n, n + 1)], <<1, n + 1>>)
  <2>1. AppendLeaf(t, Leaf(x)) = Split("row", ch, sizes)
    BY <1>1 DEF AppendLeaf
  <2>2. /\ t.children \in Seq(Tree) /\ t.sizes \in Seq(Fractions) /\ Len(t.sizes) = n /\ n \in Nat \ {0}
        /\ Leaf(x) \in Tree
    BY <1>1, SplitIs, WholeIs, TreeCases, LeafIs
  <2>3. Total(t.sizes) = Whole /\ \A j \in 1..Len(t.children) : AddsUp[t.children[j]]
    BY <1>1, AddsIs
  <2>4. Total(sizes) = Whole
    <3> HIDE DEF n
    <3> QED
      BY <2>2, <2>3, ScaledTotal
  <2>5. ch \in Seq(Tree) /\ Inserted(t.children, Len(t.children) + 1, Leaf(x), ch)
    BY <2>2, LastOf
  <2>6. Len(t.children) + 1 \in 1..(Len(t.children) + 1) /\ DOMAIN ch = 1..Len(ch)
    BY <2>2, <2>5
  <2> HIDE DEF ch, sizes
  <2>7. \A i \in DOMAIN ch : AddsUp[ch[i]]
    BY <2>2, <2>3, <2>5, <2>6, InsertedAdds
  <2> QED
    BY <1>0, <2>1, <2>4, <2>7, SplitAdds
<1>2. CASE ~(t.type = "split" /\ t.dir = "row")
  <2>1. AppendLeaf(t, Leaf(x)) = Split("row", Pair(t, Leaf(x), FALSE), EqualSizes(2))
    BY <1>2 DEF AppendLeaf, Pair
  <2>2. FALSE \in BOOLEAN
    OBVIOUS
  <2> QED
    BY <1>0, <2>1, <2>2, PairAdds
<1> QED
  BY <1>1, <1>2

\* resizePane: the shares still add up.
LEMMA ResizedAdds ==
  ASSUME NEW t \in Tree, IsWhole[t], AddsUp[t], NEW p \in TreePanes
  PROVE  AddsUp[Resized(t, p)]
<1> DEFINE S == {u \in Tree : IsWhole[u] /\ AddsUp[u] => AddsUp[Resized(u, p)]}
<1>1. ASSUME NEW u \in Tree, u.type = "split" => \A i \in DOMAIN u.children : u.children[i] \in S
      PROVE  u \in S
  <2> SUFFICES ASSUME IsWhole[u], AddsUp[u] PROVE AddsUp[Resized(u, p)]
    OBVIOUS
  <2>0. Resized(u, p) \in Tree
    BY WholeTrees DEF WholeBut
  <2>1. CASE u.type = "leaf"
    BY <2>1, ResizedLeaf
  <2>2. CASE u.type = "split"
    <3> DEFINE n == Len(u.children)
               at == ChildAt(u, p)
    <3>0. /\ n \in Nat /\ DOMAIN u.children = 1..n /\ u.sizes \in Seq(Fractions) /\ Len(u.sizes) = n
          /\ \A i \in 1..n : u.children[i] \in Tree /\ IsWhole[u.children[i]] /\ AddsUp[u.children[i]]
          /\ Total(u.sizes) = Whole
      BY <2>2, SplitIs, WholeIs, AddsIs, TreeCases
    <3>1. CASE at \in 1..(n - 1)
      <4> DEFINE span == Plus(u.sizes[at], u.sizes[at + 1])
                 sizes == [u.sizes EXCEPT ![at] = Times(span, 1, 4), ![at + 1] = Times(span, 3, 4)]
      <4>1. Resized(u, p) = Split(u.dir, u.children, sizes)
        BY <2>2, <3>1, ResizedHere
      <4>2. Total(sizes) = Whole
        <5>1. at \in 1..(Len(u.sizes) - 1)
          BY <3>0, <3>1
        <5> HIDE DEF at, n
        <5> QED
          BY <3>0, <5>1, DividerTotal
      <4> HIDE DEF sizes
      <4> QED
        BY <2>0, <3>0, <4>1, <4>2, SplitAdds
    <3>2. CASE ~(at \in 1..(n - 1))
      <4> DEFINE ch == [j \in DOMAIN u.children |-> Resized(u.children[j], p)]
      <4>1. Resized(u, p) = Split(u.dir, ch, u.sizes)
        BY <2>2, <3>2, ResizedBelow
      <4>2. \A i \in DOMAIN ch : i \in DOMAIN u.children /\ i \in 1..n /\ ch[i] = Resized(u.children[i], p)
        BY <3>0
      <4> HIDE DEF ch
      <4>3. \A i \in DOMAIN ch : AddsUp[ch[i]]
        BY <1>1, <2>2, <3>0, <4>2
      <4> QED
        BY <2>0, <3>0, <4>1, <4>3, SplitAdds
    <3> QED
      BY <3>1, <3>2
  <2> QED
    BY <2>1, <2>2, TreeCases
<1>2. S = Tree
  <2>1. S \in SUBSET Tree
    OBVIOUS
  <2> HIDE DEF S
  <2> QED
    BY <1>1, <2>1, TreeInduction
<1> QED
  BY <1>2

\* A tab that gets such a tree.
LEMMA EditAdds ==
  ASSUME GridsAreWhole, SharesAddUp, NEW k \in TreeTabs, NEW r, AddsUp[r], Edit(k, r)
  PROVE  SharesAddUp'
<1>1. trees'[k] = r /\ \A j \in TreeTabs : j # k => trees'[j] = trees[j]
  BY DEF Edit, GridsAreWhole
<1> QED
  BY <1>1 DEF SharesAddUp

\* What a tab becomes when a pane is closed.
LEMMA ClosedTabAdds ==
  ASSUME GridsAreWhole, SharesAddUp, NEW k \in TreeTabs, NEW p \in PanesOf(k), NEW r \in OrEmpty(Closed(trees[k], p))
  PROVE  AddsUp[r]
<1>1. trees[k] \in Tree /\ IsWhole[trees[k]] /\ AddsUp[trees[k]]
  BY TabsAre DEF SharesAddUp
<1>2. Closed(trees[k], p) = NoTree \/ AddsUp[Closed(trees[k], p)]
  BY <1>1, ClosedAdds
<1>3. CASE Closed(trees[k], p) = NoTree
  <2>1. PICK q \in Unused : r = Leaf(q)
    BY <1>3 DEF OrEmpty
  <2>2. q \in TreePanes
    BY DEF Unused
  <2> QED
    BY <2>1, <2>2, LeafIs, LeafAdds
<1>4. CASE Closed(trees[k], p) # NoTree
  BY <1>2, <1>4 DEF OrEmpty
<1> QED
  BY <1>3, <1>4

\* splitPane,
LEMMA SplitPaneAdds ==
  ASSUME GridsAreWhole, SharesAddUp, NEW k \in TreeTabs, NEW p \in PanesOf(k), NEW dir \in Directions, SplitPane(k, p, dir)
  PROVE  SharesAddUp'
<1>1. PICK q \in Unused : Edit(k, Placed(trees[k], p, Leaf(q), dir, FALSE, TRUE))
  BY DEF SplitPane
<1>2. trees[k] \in Tree /\ IsWhole[trees[k]] /\ PanesOf(k) = PanesIn[trees[k]] /\ AddsUp[trees[k]] /\ p \in TreePanes
  BY TabsAre DEF SharesAddUp
<1>3. q \in TreePanes /\ q \notin PanesIn[trees[k]]
  BY <1>2 DEF Unused
<1>4. \A even \in BOOLEAN, before \in BOOLEAN : AddsUp[Placed(trees[k], p, Leaf(q), dir, before, even)]
  BY <1>2, <1>3, PlacedAdds
<1>5. AddsUp[Placed(trees[k], p, Leaf(q), dir, FALSE, TRUE)]
  BY <1>4, Zenon
<1> QED
  BY <1>1, <1>5, EditAdds

\* handleDropPane,
LEMMA MovePaneAdds ==
  ASSUME GridsAreWhole, SharesAddUp, NEW k \in TreeTabs, NEW p \in PanesOf(k), NEW target \in PanesOf(k),
         NEW dir \in Directions, NEW before \in BOOLEAN, MovePane(k, p, target, dir, before)
  PROVE  SharesAddUp'
<1> DEFINE t == trees[k]
           c == Closed(t, p)
<1>1. /\ t \in Tree /\ IsWhole[t] /\ PanesOf(k) = PanesIn[t] /\ AddsUp[t]
      /\ p \in TreePanes /\ target \in TreePanes
  BY TabsAre DEF SharesAddUp
<1>2. target # p /\ Edit(k, Placed(c, target, Leaf(p), dir, before, FALSE))
  BY DEF MovePane
<1>3. WholeBut(p, t, c) /\ p \notin PanesIn[c]
  BY <1>1, <1>2, WholeTrees
<1>4. c \in Tree /\ IsWhole[c]
  BY <1>3 DEF WholeBut
<1>5. AddsUp[c]
  BY <1>1, <1>4, ClosedAdds, TreeIsOne
<1> HIDE DEF c
<1>6. \A even \in BOOLEAN : AddsUp[Placed(c, target, Leaf(p), dir, before, even)]
  BY <1>1, <1>3, <1>4, <1>5, PlacedAdds
<1>7. AddsUp[Placed(c, target, Leaf(p), dir, before, FALSE)]
  BY <1>6, Zenon
<1> QED
  BY <1>2, <1>7, EditAdds

\* and handleDropOnTab keep the sums.
LEMMA MoveToTabAdds ==
  ASSUME GridsAreWhole, SharesAddUp, NEW i \in TreeTabs, NEW k \in TreeTabs, NEW p \in PanesOf(i), MoveToTab(i, k, p)
  PROVE  SharesAddUp'
<1>1. i # k
  BY DEF MoveToTab
<1>2. PICK r \in OrEmpty(Closed(trees[i], p)) :
        trees' = [trees EXCEPT ![i] = r, ![k] = AppendLeaf(trees[k], Leaf(p))]
  BY <1>1 DEF MoveToTab
<1>3. AddsUp[r]
  BY ClosedTabAdds
<1>4. /\ trees[k] \in Tree /\ IsWhole[trees[k]] /\ AddsUp[trees[k]]
      /\ p \in TreePanes /\ p \notin PanesIn[trees[k]]
  BY <1>1, TabsAre DEF SharesAddUp
<1>5. AddsUp[AppendLeaf(trees[k], Leaf(p))]
  BY <1>4, AppendAdds
<1>6. TreeTabs = {i, k}
  BY <1>1 DEF TreeTabs
<1>7. trees'[i] = r /\ trees'[k] = AppendLeaf(trees[k], Leaf(p))
  BY <1>1, <1>2 DEF GridsAreWhole
<1> QED
  BY <1>3, <1>5, <1>6, <1>7 DEF SharesAddUp

\* So every step does,
LEMMA SharesStep ==
  ASSUME GridsAreWhole, SharesAddUp, TreeNext
  PROVE  SharesAddUp'
<1>0. PICK k \in TreeTabs : \E p \in PanesOf(k) :
        \/ ClosePane(k, p) \/ ResizePane(k, p)
        \/ \E j \in TreeTabs : MoveToTab(k, j, p)
        \/ \E dir \in Directions :
             \/ SplitPane(k, p, dir)
             \/ \E target \in PanesOf(k), before \in BOOLEAN : MovePane(k, p, target, dir, before)
  BY DEF TreeNext
<1>1. PICK p \in PanesOf(k) :
        \/ ClosePane(k, p) \/ ResizePane(k, p)
        \/ \E j \in TreeTabs : MoveToTab(k, j, p)
        \/ \E dir \in Directions :
             \/ SplitPane(k, p, dir)
             \/ \E target \in PanesOf(k), before \in BOOLEAN : MovePane(k, p, target, dir, before)
  BY <1>0
<1>2. CASE ClosePane(k, p)
  <2>1. PICK r \in OrEmpty(Closed(trees[k], p)) : Edit(k, r)
    BY <1>2 DEF ClosePane
  <2>2. AddsUp[r]
    BY ClosedTabAdds
  <2> QED
    BY <2>1, <2>2, EditAdds
<1>3. CASE ResizePane(k, p)
  <2>1. trees[k] \in Tree /\ IsWhole[trees[k]] /\ AddsUp[trees[k]] /\ p \in TreePanes
    BY TabsAre DEF SharesAddUp
  <2>2. AddsUp[Resized(trees[k], p)]
    BY <2>1, ResizedAdds
  <2> QED
    BY <1>3, <2>2, EditAdds DEF ResizePane
<1>4. CASE \E j \in TreeTabs : MoveToTab(k, j, p)
  BY <1>4, MoveToTabAdds
<1>5. ASSUME NEW dir \in Directions, SplitPane(k, p, dir)
      PROVE  SharesAddUp'
  BY <1>5, SplitPaneAdds
<1>6. ASSUME NEW dir \in Directions, NEW target \in PanesOf(k), NEW before \in BOOLEAN,
             MovePane(k, p, target, dir, before)
      PROVE  SharesAddUp'
  BY <1>6, MovePaneAdds
<1> QED
  BY <1>1, <1>2, <1>3, <1>4, <1>5, <1>6

\* and the first trees have no shares.
LEMMA SharesStart ==
  ASSUME TreeInit
  PROVE  SharesAddUp
<1>1. TreeTabs \subseteq TreePanes
  BY TreeBounds DEF TreePanes, TreeTabs
<1>2. \A k \in TreeTabs : AddsUp[Leaf(k)]
  BY <1>1, LeafIs, LeafAdds
<1> QED
  BY <1>2 DEF TreeInit, SharesAddUp

\* layout-tree.ts:1-5, 58-60, 134-145: for any number of panes and of operations, every
\* split has at least two children, with a share each, the shares are exactly the whole,
\* and no pane is in two places or in two tabs.
THEOREM TreesAreWhole == TreeSpec => []TreesStayWhole
<1>1. TreeInit => TreesStayWhole
  BY TreeStart, SharesStart DEF TreesStayWhole
<1>2. TreesStayWhole /\ [TreeNext]_treeVars => TreesStayWhole'
  <2>1. TreesStayWhole /\ TreeNext => TreesStayWhole'
    BY TreeStep, SharesStep DEF TreesStayWhole
  <2>2. TreesStayWhole /\ UNCHANGED treeVars => TreesStayWhole'
    <3>1. GridsAreWhole /\ UNCHANGED treeVars => GridsAreWhole'
      BY TreesIdle
    <3>2. SharesAddUp /\ UNCHANGED treeVars => SharesAddUp'
      BY DEF SharesAddUp, treeVars
    <3> QED
      BY <3>1, <3>2 DEF TreesStayWhole
  <2> QED
    BY <2>1, <2>2
<1> QED
  BY <1>1, <1>2, PTL DEF TreeSpec
=============================================================================
