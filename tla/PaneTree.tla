------------------------------- MODULE PaneTree -------------------------------
(***************************************************************************)
(* The grid of a tab: a tree whose leaves are panes and whose splits are   *)
(* rows and columns with a share for each child, and the operations on it. *)
(* Sources: packages/daemon/src/layout-tree.ts and its copy in             *)
(* packages/gui/src/renderer/src/pane-tree.ts.                             *)
(*                                                                         *)
(* What a pane holds is left to Tabs.  A share is a fraction <<n, d>>: the *)
(* rounding of the code's numbers is left out.                             *)
(***************************************************************************)
EXTENDS Integers, FiniteSets, SequencesExt

CONSTANTS
  MaxTreePanes, \* bound: panes open at once
  MaxTreeEdits  \* bound: operations

ASSUME TreeBounds == MaxTreePanes \in Nat \ {0, 1} /\ MaxTreeEdits \in Nat

TreeTabs == 1..2
TreePanes == 1..MaxTreePanes
Directions == {"row", "col"}
Fractions == (Nat \ {0}) \X (Nat \ {0})

\* Any number of children and of shares: that they fit is for the invariant.
\* TreesUpTo[d] are the trees of at most d splits above each other.
Leaf(p) == [type |-> "leaf", pane |-> p]
Split(dir, children, sizes) ==
  [type |-> "split", dir |-> dir, children |-> children, sizes |-> sizes]
NoTree == [type |-> "none"]
Leaves == [type : {"leaf"}, pane : TreePanes]
Splits(below) ==
  [type : {"split"}, dir : Directions, children : Seq(below), sizes : Seq(Fractions)]
TreesUpTo[d \in 0..MaxTreePanes] == IF d = 0 THEN Leaves ELSE Leaves \cup Splits(TreesUpTo[d - 1])
Tree == TreesUpTo[MaxTreePanes]

VARIABLES
  trees,     \* the grid of each tab
  treeEdits

treeVars == <<trees, treeEdits>>

-----------------------------------------------------------------------------
(* Shares. *)

Gcd(a, b) ==
  LET divides(g) == a % g = 0 /\ b % g = 0 IN
  CHOOSE g \in 1..(a + b) : divides(g) /\ \A h \in 1..(a + b) : divides(h) => h <= g
Frac(n, d) == LET g == Gcd(n, d) IN <<n \div g, d \div g>>
Plus(x, y) == Frac(x[1] * y[2] + y[1] * x[2], x[2] * y[2])
Times(x, n, d) == Frac(x[1] * n, x[2] * d)
Whole == <<1, 1>>
Total(s) ==
  LET sum[i \in 0..Len(s)] == IF i = 0 THEN <<0, 1>> ELSE Plus(sum[i - 1], s[i]) IN sum[Len(s)]
EqualSizes(n) == [i \in 1..n |-> <<1, n>>]

-----------------------------------------------------------------------------
(* The operations. *)

\* leavesInOrder: the panes of a tree, and which is left of or above which.
PanesIn[t \in Tree] ==
  IF t.type = "leaf" THEN {t.pane} ELSE UNION {PanesIn[t.children[i]] : i \in DOMAIN t.children}
InOrder[t \in Tree] ==
  IF t.type = "leaf" THEN {}
  ELSE (UNION {InOrder[t.children[i]] : i \in DOMAIN t.children})
         \cup {q \in PanesIn[t] \X PanesIn[t] :
                 \E i, j \in DOMAIN t.children :
                   i < j /\ q[1] \in PanesIn[t.children[i]] /\ q[2] \in PanesIn[t.children[j]]}

Pair(old, new, before) == IF before THEN <<new, old>> ELSE <<old, new>>

\* The place of leaf p among the children of t, or 0.
ChildAt(t, p) == SelectInSeq(t.children, LAMBDA c : c = Leaf(p))

\* The children and sizes of t with leaf new beside the i-th: an even row for
\* splitPane and pinNote, half of the target's share for insertBeside.
\* BesideBug takes the target's place.
BesideBug(t, i, new, before, even) ==
  Split(t.dir, ReplaceAt(t.children, i, new), t.sizes)
Beside(t, i, new, before, even) ==
  LET at == IF before THEN i ELSE i + 1
      half == Times(t.sizes[i], 1, 2)
      children == InsertAt(t.children, at, new) IN
  Split(t.dir, children,
        IF even THEN EqualSizes(Len(children))
        ELSE InsertAt(ReplaceAt(t.sizes, i, half), at, half))

\* splitPane, pinNote and insertBeside: the new leaf joins the target's parent
\* if that runs in the direction, or else shares a new split with the target.
Placed(tree, target, new, dir, before, even) ==
  LET placed[t \in Tree] ==
        IF t.type = "leaf"
        THEN IF t.pane = target THEN Split(dir, Pair(t, new, before), EqualSizes(2)) ELSE t
        ELSE LET i == ChildAt(t, target) IN
             IF i # 0 /\ t.dir = dir THEN Beside(t, i, new, before, even)
             ELSE Split(t.dir, [j \in DOMAIN t.children |-> placed[t.children[j]]], t.sizes) IN
  placed[tree]

\* What is left of split t when these children are: nothing, the one child, or
\* the children with their shares scaled up.  KeptBug keeps the split of one
\* child, UnscaledBug the shares.
KeptBug(t, children, sizes) ==
  IF children = <<>> THEN NoTree
  ELSE Split(t.dir, children, [i \in DOMAIN sizes |-> Times(sizes[i], Total(sizes)[2], Total(sizes)[1])])
UnscaledBug(t, children, sizes) ==
  CASE children = <<>> -> NoTree
    [] Len(children) = 1 -> children[1]
    [] OTHER -> Split(t.dir, children, sizes)
Kept(t, children, sizes) ==
  CASE children = <<>> -> NoTree
    [] Len(children) = 1 -> children[1]
    [] OTHER -> LET sum == Total(sizes) IN
                Split(t.dir, children,
                      [i \in DOMAIN sizes |-> Times(sizes[i], sum[2], sum[1])])

\* The numbers of a set from the least to the greatest.
Ascending(S) ==
  CHOOSE s \in [1..Cardinality(S) -> S] : \A i, j \in 1..Cardinality(S) : i < j => s[i] < s[j]

\* after has what closing a pane makes of each child of t.
Survivors(t, after) ==
  LET left == Ascending({i \in DOMAIN after : after[i] # NoTree}) IN
  Kept(t, [k \in DOMAIN left |-> after[left[k]]], [k \in DOMAIN left |-> t.sizes[left[k]]])

Closed(tree, p) ==
  LET closed[t \in Tree] ==
        IF t.type = "leaf" THEN IF t.pane = p THEN NoTree ELSE t
        ELSE Survivors(t, [i \in DOMAIN t.children |-> closed[t.children[i]]]) IN
  closed[tree]

\* A new rightmost column.
AppendLeaf(t, new) ==
  IF t.type = "split" /\ t.dir = "row"
  THEN LET n == Len(t.children) IN
       Split("row", Append(t.children, new),
             Append([i \in DOMAIN t.sizes |-> Times(t.sizes[i], n, n + 1)], <<1, n + 1>>))
  ELSE Split("row", <<t, new>>, EqualSizes(2))

\* The divider after pane p moves to give it a quarter of what it shares with
\* its neighbour; the others keep theirs.
Resized(tree, p) ==
  LET resized[t \in Tree] ==
        IF t.type = "leaf" THEN t
        ELSE LET i == ChildAt(t, p) IN
             IF i \in 1..(Len(t.children) - 1)
             THEN LET span == Plus(t.sizes[i], t.sizes[i + 1]) IN
                  Split(t.dir, t.children,
                        [t.sizes EXCEPT ![i] = Times(span, 1, 4), ![i + 1] = Times(span, 3, 4)])
             ELSE Split(t.dir, [j \in DOMAIN t.children |-> resized[t.children[j]]], t.sizes) IN
  resized[tree]

-----------------------------------------------------------------------------
PanesOf(k) == PanesIn[trees[k]]
Unused == {p \in TreePanes : \A k \in TreeTabs : p \notin PanesOf(k)}
FreshPane(p) == p \in Unused /\ \A q \in Unused : p <= q

Edit(k, t) == trees' = [trees EXCEPT ![k] = t]

\* What takes the place of a tab's tree: a tab never is without a pane.
OrEmpty(t) == IF t = NoTree THEN {Leaf(p) : p \in {q \in Unused : FreshPane(q)}} ELSE {t}

TreeInit ==
  /\ trees = [k \in TreeTabs |-> Leaf(k)]
  /\ treeEdits = 0

SplitPane(k, p, dir) ==
  \E q \in Unused : FreshPane(q) /\ Edit(k, Placed(trees[k], p, Leaf(q), dir, FALSE, TRUE))

ClosePane(k, p) == \E t \in OrEmpty(Closed(trees[k], p)) : Edit(k, t)

\* handleDropPane, onto another pane of the tab.
MovePane(k, p, target, dir, before) ==
  /\ p # target
  /\ Edit(k, Placed(Closed(trees[k], p), target, Leaf(p), dir, before, FALSE))

\* handleDropOnTab.
MoveToTab(j, k, p) ==
  /\ j # k
  /\ \E t \in OrEmpty(Closed(trees[j], p)) :
       trees' = [trees EXCEPT ![j] = t, ![k] = AppendLeaf(@, Leaf(p))]

ResizePane(k, p) == Edit(k, Resized(trees[k], p))

TreeNext ==
  /\ treeEdits < MaxTreeEdits
  /\ treeEdits' = treeEdits + 1
  /\ \E k \in TreeTabs : \E p \in PanesOf(k) :
       \/ ClosePane(k, p) \/ ResizePane(k, p)
       \/ \E j \in TreeTabs : MoveToTab(k, j, p)
       \/ \E dir \in Directions :
            \/ SplitPane(k, p, dir)
            \/ \E target \in PanesOf(k), before \in BOOLEAN : MovePane(k, p, target, dir, before)
TreeSpec == TreeInit /\ [][TreeNext]_treeVars

-----------------------------------------------------------------------------
(* Properties. *)

\* The shape of a tree: splits of two children or more, with a share each,
IsWhole[t \in Tree] ==
  t.type = "split" =>
    /\ Len(t.children) >= 2 /\ Len(t.sizes) = Len(t.children)
    /\ \A i \in DOMAIN t.children : IsWhole[t.children[i]]
    /\ \A i, j \in DOMAIN t.children : i # j => PanesIn[t.children[i]] \cap PanesIn[t.children[j]] = {}

\* of the trees of two tabs, without a pane in common,
GridsAreWhole ==
  /\ trees \in [TreeTabs -> Tree] /\ \A k \in TreeTabs : IsWhole[trees[k]]
  /\ PanesOf(1) \cap PanesOf(2) = {}

\* and of the shares of the children of every split, which are the whole.
AddsUp[t \in Tree] ==
  t.type = "split" => Total(t.sizes) = Whole /\ \A i \in DOMAIN t.children : AddsUp[t.children[i]]

SharesAddUp == \A k \in TreeTabs : AddsUp[trees[k]]

\* layout-tree.ts:1-5, 58-60, 134-145: after any sequence of operations every
\* split has at least two children, with a share each, the shares are the whole,
\* and no pane is in two places.
TreesStayWhole == GridsAreWhole /\ SharesAddUp

OthersInOrder(t, p) == {q \in InOrder[t] : q[1] # p /\ q[2] # p}

\* An operation is about one pane: every other pane of both tabs stays, in the
\* order it had.  The last pane of a tab is replaced by a new one.
PanesKeepOrder ==
  [][\E p \in TreePanes : \A k \in TreeTabs :
       \/ /\ PanesOf(k)' \ {p} = PanesOf(k) \ {p}
          /\ OthersInOrder(trees'[k], p) = OthersInOrder(trees[k], p)
       \/ PanesOf(k) = {p} /\ \E q \in TreePanes : PanesOf(k)' = {q}]_trees
=============================================================================
