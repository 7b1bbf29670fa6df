------------------------------ MODULE PaneTree ------------------------------
(***************************************************************************)
(* The split tree of a tab (bintree::Tree, mux::tab), seen through the two *)
(* views of it the code works with: `sets`, the leaf set of every subtree  *)
(* (tab.rs subtree_leaf_sets), and `order`, the leaves in preorder, which  *)
(* the pane indices of the code count from 0.  Split directions and sizes  *)
(* are abstracted away.  Two trees of the same shape that carry the same   *)
(* panes have equal views, so the views stand for the tree.                *)
(***************************************************************************)
EXTENDS SequencesExt

CONSTANT Pane  \* pane ids

ASSUME PaneAssumption == IsFiniteSet(Pane)

Leaves(t) == UNION t.sets

NoTree == [sets |-> {}, order |-> <<>>]

LeafTree(p) == [sets |-> {{p}}, order |-> <<p>>]

(* The position of an element x of s.  Positions count from 1 here; the    *)
(* code's pane indices are one less.                                       *)
PositionOf(s, x) == CHOOSE i \in DOMAIN s : s[i] = x

(* The sequence without x, which it holds once.                            *)
Omit(s, x) == RemoveAt(s, PositionOf(s, x))

(* The first position of an order that holds a pane of T.                  *)
FirstOf(s, T) == Min({i \in DOMAIN s : s[i] \in T})

(***************************************************************************)
(* replace_subtree_with_pair: the subtree with leaves T becomes a split    *)
(* node that holds it and, on its right (second) or on its left, the panes *)
(* of `new` chained by chain_subtree: a comb that leans to the right.      *)
(***************************************************************************)
Widen(sets, T, new) == {IF T \subseteq S THEN S \cup new ELSE S : S \in sets}

ChainSets(panes) ==
  {{p} : p \in ToSet(panes)}
    \cup {{panes[j] : j \in i..Len(panes)} : i \in DOMAIN panes}

PlaceInOrder(s, T, new, second) ==
  LET edge == FirstOf(s, T) + IF second THEN Cardinality(T) ELSE 0
  IN  SubSeq(s, 1, edge - 1) \o new \o SubSeq(s, edge, Len(s))

PairWith(t, T, panes, second) ==
  [sets  |-> Widen(t.sets, T, ToSet(panes)) \cup {T} \cup ChainSets(panes),
   order |-> PlaceInOrder(t.order, T, panes, second)]

(* split_leaf_and_insert_right and its left-hand twin in split_and_insert. *)
SplitLeaf(t, leaf, new, second) == PairWith(t, {leaf}, <<new>>, second)

(* split_node_and_insert_right / _left at the root of a larger tree.       *)
SplitRoot(t, new, second) == PairWith(t, Leaves(t), <<new>>, second)

(***************************************************************************)
(* Cursor::unsplit_leaf: the parent of a leaf collapses into the sibling.  *)
(* The mutant keeps the emptied branch.                                    *)
(***************************************************************************)
RemoveLeafKeepingBranch(t, p) ==
  [sets |-> {S \ {p} : S \in t.sets}, order |-> Omit(t.order, p)]

RemoveLeaf(t, p) ==
  [sets |-> {S \ {p} : S \in t.sets} \ {{}}, order |-> Omit(t.order, p)]

(* The leaves on the other side of the leaf's parent node.                 *)
SiblingLeaves(t, p) ==
  LET above  == {S \in t.sets : p \in S /\ S # {p}}
      parent == CHOOSE S \in above : \A R \in above : S \subseteq R
  IN  parent \ {p}

(* The tree with the same shape whose leaf slots hold f[p] in place of p.  *)
Relabel(t, f) ==
  [sets  |-> {{f[p] : p \in S} : S \in t.sets},
   order |-> [i \in DOMAIN t.order |-> f[t.order[i]]]]

Exchange(t, a, b) ==
  Relabel(t, [p \in Leaves(t) |-> IF p = a THEN b ELSE IF p = b THEN a ELSE p])

-----------------------------------------------------------------------------

(***************************************************************************)
(* The two views belong to one binary tree: subtrees nest or are disjoint, *)
(* one of two or more leaves splits into two, and the leaves of a subtree  *)
(* are contiguous in the order.                                            *)
(***************************************************************************)
IsTree(t) ==
  /\ ToSet(t.order) = Leaves(t)
  /\ IsInjective(t.order)
  /\ {} \notin t.sets
  /\ t.sets # {} => Leaves(t) \in t.sets
  /\ \A p \in Leaves(t) : {p} \in t.sets
  /\ \A R, S \in t.sets : R \subseteq S \/ S \subseteq R \/ R \cap S = {}
  /\ \A S \in t.sets : Cardinality(S) > 1 =>
        \E R \in t.sets : R # S /\ R \subseteq S /\ S \ R \in t.sets
  /\ \A S \in t.sets : \A i, j, k \in DOMAIN t.order :
        i < j /\ j < k /\ t.order[i] \in S /\ t.order[k] \in S => t.order[j] \in S

-----------------------------------------------------------------------------

(***************************************************************************)
(* The loop of remove_pane_if: w.next is the position of the leaf the      *)
(* cursor visits next, w.pane_index the number the loop gives that leaf.   *)
(* The mutants: one that moves before it looks at the first leaf, one that *)
(* does not move off a spared leaf, one that records an index too low, one *)
(* that shifts the active index for no pane, or only for panes before it.  *)
(***************************************************************************)
StartWalkMoved(t) ==
  [tree |-> t, next |-> 2, pane_index |-> 0,
   removed_indices |-> <<>>, dead_panes |-> <<>>]

StartWalk(t) ==
  [tree |-> t, next |-> 1, pane_index |-> 0,
   removed_indices |-> <<>>, dead_panes |-> <<>>]

WalkDone(w) == w.next > Len(w.tree.order)

SpareStuck(w) == w

Spare(w) == [w EXCEPT !.pane_index = @ + 1, !.next = @ + 1]

TakeNumberedLow(w, p) ==
  [w EXCEPT !.removed_indices = Append(@, w.pane_index - 1),
            !.dead_panes = Append(@, p),
            !.pane_index = @ + 1]

Take(w, p) ==
  [w EXCEPT !.removed_indices = Append(@, w.pane_index),
            !.dead_panes = Append(@, p),
            !.pane_index = @ + 1]

(***************************************************************************)
(* unsplit_leaf leaves the cursor on the sibling, and preorder_next moves  *)
(* on from there: past a sibling that is a leaf, into one that is a node.  *)
(***************************************************************************)
NextAfterUnsplit(rest, sibling) ==
  FirstOf(rest.order, sibling) + IF Cardinality(sibling) > 1 THEN 0 ELSE 1

Visit(w, victims) ==
  LET p    == w.tree.order[w.next]
      rest == RemoveLeaf(w.tree, p)
  IN  IF p \notin victims THEN Spare(w)
      ELSE IF Len(w.tree.order) = 1 THEN [Take(w, p) EXCEPT !.tree = NoTree]
      ELSE [Take(w, p) EXCEPT !.tree = rest,
              !.next = NextAfterUnsplit(rest, SiblingLeaves(w.tree, p))]

(* "Figure out which pane should now be active."  Indices above the active *)
(* one are not counted (retain); the result saturates at 0.                *)
ActiveAfterUnshifted(w, active) == active

ActiveAfterStrict(w, active) ==
  Max({0, active - Cardinality({j \in DOMAIN w.removed_indices :
                                  w.removed_indices[j] < active})})

ActiveAfter(w, active) ==
  Max({0, active - Cardinality({j \in DOMAIN w.removed_indices :
                                  w.removed_indices[j] <= active})})

(* The whole loop: at most Len turns to the first removal, between two,    *)
(* and after the last.                                                     *)
Walk(t, victims) ==
  LET last == Len(t.order) * (Cardinality(victims) + 1)
      turn[i \in 0..last] ==
        IF i = 0 THEN StartWalk(t)
        ELSE LET w == turn[i - 1]
             IN  IF WalkDone(w) THEN w ELSE Visit(w, victims)
  IN  turn[last]
=============================================================================
