---------------------------- MODULE PaneRemoval ----------------------------
(***************************************************************************)
(* The loop of TabInner::remove_pane_if, one cursor position per step: it  *)
(* walks the split tree with a zipper, takes out every pane its predicate  *)
(* names, and finally recomputes the index of the active pane.  kill_pane  *)
(* and remove_pane name one pane; prune_dead_panes and                     *)
(* kill_panes_in_domain may name several.                                  *)
(***************************************************************************)
EXTENDS PaneTree

CONSTANT MaxNamed  \* bound: panes one call may name

ASSUME MaxNamedAssumption == MaxNamed \in Nat

VARIABLES start,    \* the tree when the loop begins
          active,   \* index of the active pane at that time
          victims,  \* the panes the predicate f holds for
          walk      \* the loop's own state

walkVars == <<start, active, victims, walk>>

Index == 0..(Cardinality(Pane) - 1)

(***************************************************************************)
(* The loop's counters and lists hold what their names say; above all, no  *)
(* removed index is below 0 (pane_index and the indices are unsigned).     *)
(***************************************************************************)
WalkTypeOK ==
  /\ start.sets \subseteq SUBSET Pane /\ start.order \in Seq(Pane)
  /\ walk.tree.sets \subseteq SUBSET Pane /\ walk.tree.order \in Seq(Pane)
  /\ active \in Index
  /\ victims \subseteq Pane
  /\ walk.next \in Nat \ {0}
  /\ walk.pane_index \in Nat
  /\ walk.removed_indices \in Seq(Nat)
  /\ walk.dead_panes \in Seq(Pane)

(***************************************************************************)
(* Every tree over the first panes of some enumeration of Pane: the leaf   *)
(* order can be fixed, since the loop treats all panes alike.              *)
(***************************************************************************)
Enumeration == SetToSeq(Pane)

Trees ==
  UNION {
    LET order    == SubSeq(Enumeration, 1, n)
        interval == {{order[i] : i \in lo..hi} : lo, hi \in 1..n} \ {{}}
        lone     == {{order[i]} : i \in 1..n} \cup {ToSet(order)}
    IN  {t \in {[sets |-> lone \cup S, order |-> order] : S \in SUBSET (interval \ lone)} :
            IsTree(t)}
    : n \in 1..Cardinality(Pane)}

WalkInit ==
  /\ start \in Trees
  /\ active \in {i \in Index : i < Len(start.order)}
  /\ victims \in {V \in SUBSET Leaves(start) : Cardinality(V) <= MaxNamed}
  /\ walk = StartWalk(start)

WalkStep ==
  /\ ~WalkDone(walk)
  /\ walk' = Visit(walk, victims)
  /\ UNCHANGED <<start, active, victims>>

WalkNext == WalkStep

(* remove_pane_if is a plain loop: nothing keeps it from taking its next turn. *)
WalkSpec == WalkInit /\ [][WalkNext]_walkVars /\ WF_walkVars(WalkStep)

-----------------------------------------------------------------------------

(* The pane `index` names in a tree, as get_active_pane resolves it. *)
PanesAt(t, index) == {t.order[i] : i \in {j \in DOMAIN t.order : j = index + 1}}

ActivePaneBefore == PanesAt(start, active)
ActivePaneAfter  == PanesAt(walk.tree, ActiveAfter(walk, active))

(***************************************************************************)
(* Unsplitting under the cursor never tears the tree: at every turn it is  *)
(* a proper binary tree whose leaves are the panes not yet taken out, each *)
(* of them named dead at most once, and never a pane the predicate spares. *)
(***************************************************************************)
NothingLost ==
  /\ IsTree(walk.tree)
  /\ ToSet(walk.dead_panes) = Leaves(start) \ Leaves(walk.tree)
  /\ ToSet(walk.dead_panes) \subseteq victims
  /\ Len(walk.dead_panes) = Cardinality(ToSet(walk.dead_panes))

(***************************************************************************)
(* A call that names one pane (kill_pane, remove_pane) takes it out, and   *)
(* the active index still names the pane it named before unless that pane  *)
(* is the one that went.                                                   *)
(***************************************************************************)
OneVictimIsExact ==
  WalkDone(walk) /\ Cardinality(victims) = 1 =>
    /\ Leaves(walk.tree) = Leaves(start) \ victims
    /\ ActivePaneBefore \cap victims = {} => ActivePaneAfter = ActivePaneBefore
    /\ walk.tree # NoTree => ActivePaneAfter # {}

(***************************************************************************)
(* A call that names several panes may leave some behind (a right sibling  *)
(* that is a leaf is stepped over), but it always takes out at least one:  *)
(* repeating prune_dead_panes, as prune_dead_windows does, empties the tab.*)
(***************************************************************************)
EachCallRemovesSome ==
  WalkDone(walk) /\ victims # {} => walk.dead_panes # <<>>

(* The loop ends, although a removal can send the cursor back to leaves    *)
(* it has seen.                                                            *)
LoopEnds == <>WalkDone(walk)
=============================================================================
