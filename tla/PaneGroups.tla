----------------------------- MODULE PaneGroups -----------------------------
(***************************************************************************)
(* What pane groups and stacks promise (mux::pane_group with the methods   *)
(* of mux::tab that use it), without indices, ids or sequences.  A unit is *)
(* the set of its panes: a group, or one pane that is in no group.         *)
(* Module Tab is the detailed specification and implements this one as     *)
(* long as panes are only hidden by stacks and one pane is removed at a    *)
(* time.                                                                   *)
(*                                                                         *)
(* A layout is a record:                                                   *)
(*   subtrees  the leaf sets of the subtrees of the split tree             *)
(*   hidden    the panes that are not on show                              *)
(*   groups    the groups, as sets of panes                                *)
(*   stacks    [units, shown]: the units that share one slot, and the one  *)
(*             on show                                                     *)
(***************************************************************************)
EXTENDS Functions

CONSTANT Pane

VARIABLE layout

Panes(s) == UNION s.subtrees

InGroup(s, p) == \E g \in s.groups : p \in g

(* unit_of *)
UnitOf(s, p) == {q \in Panes(s) : q = p \/ \E g \in s.groups : {p, q} \subseteq g}

Units(s) == {UnitOf(s, p) : p \in Panes(s)}

Stacked(s, u) == \E k \in s.stacks : u \in k.units

StackPanes(k) == UNION k.units

(* Unit u of the layout is called v from now on.                           *)
RenameIn(stacks, u, v) ==
  {[units |-> {IF x = u THEN v ELSE x : x \in k.units},
    shown |-> IF k.shown = u THEN v ELSE k.shown] : k \in stacks}

(* A set of two members or more counts as a group.                         *)
AsGroup(u) == IF \A p, q \in u : p = q THEN {} ELSE {u}

-----------------------------------------------------------------------------
(* The layout operations.                                                  *)

(* A bug to catch: the new pane is in the tree but not adopted.            *)
InsertUnadopted(s, e, new) ==
  [s EXCEPT !.subtrees = {IF e \in S THEN S \cup {new} ELSE S : S \in @} \cup {{e}, {new}}]

(* split_and_insert beside a leaf, with adopt: the new pane joins the unit *)
(* of the pane it was split off, if that is a group or stacked.            *)
Insert(s, e, new) ==
  LET u == UnitOf(s, e)
      joins == u \in s.groups \/ Stacked(s, u)
  IN  [subtrees |-> {IF e \in S THEN S \cup {new} ELSE S : S \in s.subtrees}
                      \cup {{e}, {new}},
       hidden   |-> s.hidden,
       groups   |-> IF joins THEN (s.groups \ {u}) \cup {u \cup {new}} ELSE s.groups,
       stacks   |-> IF joins THEN RenameIn(s.stacks, u, u \cup {new}) ELSE s.stacks]

(* split_and_insert with top_level. *)
InsertAtRoot(s, new) ==
  [s EXCEPT !.subtrees = @ \cup {{new}, Panes(s) \cup {new}}]

(* The subtrees once p is taken out of the tree.                           *)
Without(subtrees, p) == {S \ {p} : S \in subtrees} \ {{}}

(* A bug to catch: a hidden pane that is closed is not forgotten.          *)
ShrinkKeepingHidden(s, u, p) ==
  [subtrees |-> Without(s.subtrees, p),
   hidden   |-> s.hidden,
   groups   |-> (s.groups \ {u}) \cup AsGroup(u \ {p}),
   stacks   |-> RenameIn(s.stacks, u, u \ {p})]

(* remove_pane: a unit keeps its place under its remaining panes.          *)
Shrink(s, u, p) ==
  [subtrees |-> Without(s.subtrees, p),
   hidden   |-> s.hidden \ {p},
   groups   |-> (s.groups \ {u}) \cup AsGroup(u \ {p}),
   stacks   |-> RenameIn(s.stacks, u, u \ {p})]

(* A bug to catch: the stack is gone and its other unit still hidden.      *)
LeaveUnrevealed(s, k, u, p, next) ==
  LET rest == k.units \ {u}
  IN  [subtrees |-> Without(s.subtrees, p),
       hidden   |-> s.hidden \ {p},
       groups   |-> s.groups,
       stacks   |-> (s.stacks \ {k})
                      \cup (IF rest = {next} THEN {} ELSE {[units |-> rest, shown |-> next]})]

(* remove_pane of the last pane of a unit: the unit leaves its stack, and  *)
(* `next` is on show from then on.  A stack of one unit is no stack.       *)
Leave(s, k, u, p, next) ==
  LET rest == k.units \ {u}
  IN  [subtrees |-> Without(s.subtrees, p),
       hidden   |-> (s.hidden \ {p}) \ next,
       groups   |-> s.groups,
       stacks   |-> (s.stacks \ {k})
                      \cup (IF rest = {next} THEN {} ELSE {[units |-> rest, shown |-> next]})]

Closings(s, p) ==
  LET u  == UnitOf(s, p)
      in == {k \in s.stacks : u \in k.units}
  IN  IF u # {p} \/ in = {} THEN {Shrink(s, u, p)}
      ELSE UNION {{Leave(s, k, u, p, next) :
                     next \in IF k.shown = u THEN k.units \ {u} ELSE {k.shown}} : k \in in}

(* The subtrees of a chain of the panes of u (chain_subtree, focus_layout).*)
Chains(u) ==
  {C \in SUBSET ((SUBSET u) \ {{}}) :
     /\ u \in C
     /\ \A p \in u : {p} \in C
     /\ \A R, S \in C : R \subseteq S \/ S \subseteq R \/ R \cap S = {}
     /\ \A S \in C : \E p \in S : S = {p} \/ S \ {p} \in C}

(* dock_unit: the panes of a, chained, take a place beside those of b.     *)
Dock(subtrees, a, b, chain) ==
  ({IF b \subseteq S THEN S \cup a ELSE S \ a : S \in subtrees} \ {{}})
    \cup {b} \cup chain

(* group_units *)
Grouped(s, a, b, chain) ==
  [subtrees |-> IF a \cup b \in s.subtrees THEN s.subtrees
                ELSE Dock(s.subtrees, a, b, chain),
   hidden   |-> s.hidden,
   groups   |-> (s.groups \ {a, b}) \cup {a \cup b},
   stacks   |-> s.stacks]

(* stack_units *)
StackedOn(s, a, b, chain) ==
  LET with == {k \in s.stacks : b \in k.units}
      others == UNION {k.units : k \in with}
  IN  [subtrees |-> Dock(s.subtrees, a, b, chain),
       hidden   |-> s.hidden \cup b,
       groups   |-> s.groups,
       stacks   |-> (s.stacks \ with)
                      \cup {[units |-> others \cup {a, b}, shown |-> a]}]

(* A bug to catch: the unit that was on show stays on show.                *)
ShowingBoth(s, k, u) ==
  [subtrees |-> s.subtrees,
   hidden   |-> s.hidden \ u,
   groups   |-> s.groups,
   stacks   |-> (s.stacks \ {k}) \cup {[units |-> k.units, shown |-> u]}]

(* show_stack_unit *)
Showing(s, k, u) ==
  [subtrees |-> s.subtrees,
   hidden   |-> (s.hidden \ u) \cup k.shown,
   groups   |-> s.groups,
   stacks   |-> (s.stacks \ {k}) \cup {[units |-> k.units, shown |-> u]}]

Relabeled(s, f) == [s EXCEPT !.subtrees = {{f[p] : p \in S} : S \in @}]

-----------------------------------------------------------------------------

Init == \E p \in Pane :
  layout = [subtrees |-> {{p}}, hidden |-> {}, groups |-> {}, stacks |-> {}]

Split(e, new) ==
  /\ e \notin layout.hidden
  /\ layout' = Insert(layout, e, new)

SplitTop(new) == layout' = InsertAtRoot(layout, new)

Close(p) == layout' \in Closings(layout, p)

(* dock_pane: taken out of its place, then split off the target or, if     *)
(* that fails, off another pane on show.                                   *)
Move(p, e) ==
  /\ p \notin layout.hidden /\ p # e
  /\ \E s \in Closings(layout, p) :
       e \notin s.hidden /\ layout' = Insert(s, e, p)

Group(a, b) ==
  /\ a # b /\ ~Stacked(layout, a) /\ ~Stacked(layout, b)
  /\ \E chain \in Chains(a) : layout' = Grouped(layout, a, b, chain)

Ungroup(g) ==
  /\ ~Stacked(layout, g)
  /\ layout' = [layout EXCEPT !.groups = @ \ {g}]

StackUp(a, b) ==
  /\ a # b /\ ~Stacked(layout, a)
  /\ (a \cup b) \cap layout.hidden = {}
  /\ \E chain \in Chains(a) : layout' = StackedOn(layout, a, b, chain)

Show(k, u) ==
  /\ u # k.shown
  /\ layout' = Showing(layout, k, u)

(* rotate_clockwise, rotate_counter_clockwise *)
Permute ==
  /\ layout.groups = {} /\ layout.stacks = {}
  /\ \E f \in Bijection(Panes(layout), Panes(layout)) : layout' = Relabeled(layout, f)

(* swap_panes *)
Swap(a, b) ==
  /\ layout.hidden = {} /\ ~InGroup(layout, a) /\ ~InGroup(layout, b)
  /\ layout' = Relabeled(layout,
       [p \in Panes(layout) |-> IF p = a THEN b ELSE IF p = b THEN a ELSE p])

(* focus_layout *)
Arrange(p) ==
  LET others == Panes(layout) \ {p}
  IN  /\ layout.hidden = {} /\ layout.groups = {} /\ layout.stacks = {}
      /\ \E chain \in Chains(others) :
           layout' = [layout EXCEPT !.subtrees = chain \cup {{p}, Panes(layout)}]

Next ==
  \/ \E e \in Panes(layout), new \in Pane \ Panes(layout) : Split(e, new)
  \/ \E new \in Pane \ Panes(layout) : layout.subtrees # {} /\ SplitTop(new)
  \/ \E p \in Panes(layout) : Close(p)
  \/ \E k \in layout.stacks : \E u \in k.units : Show(k, u)
  \/ \E g \in layout.groups : Ungroup(g)
  \/ \E p, e \in Panes(layout) : Move(p, e) \/ Swap(p, e)
  \/ Permute
  \/ \E a, b \in Units(layout) : Group(a, b) \/ StackUp(a, b)
  \/ \E p \in Panes(layout) : Arrange(p)

Spec == Init /\ [][Next]_layout

-----------------------------------------------------------------------------

Layout ==
  [subtrees : SUBSET ((SUBSET Pane) \ {{}}),
   hidden   : SUBSET Pane,
   groups   : SUBSET SUBSET Pane,
   stacks   : SUBSET [units : SUBSET SUBSET Pane, shown : SUBSET Pane]]

WellFormed(s) ==
  /\ s \in Layout
  /\ s.hidden \subseteq Panes(s)
  /\ \A p \in Panes(s) : {p} \in s.subtrees

GroupsFit(s) ==
  /\ s.groups \subseteq s.subtrees
  /\ \A g \in s.groups : \E p, q \in g : p # q
  /\ \A g, h \in s.groups : g = h \/ g \cap h = {}

StackFits(s, k) ==
  /\ StackPanes(k) \in s.subtrees
  /\ k.units \subseteq Units(s)
  /\ k.shown \in k.units /\ k.units # {k.shown}
  /\ k.shown \cap s.hidden = {}
  /\ \A u \in k.units \ {k.shown} : u \subseteq s.hidden

StacksFit(s) ==
  /\ \A k \in s.stacks : StackFits(s, k)
  /\ \A j, k \in s.stacks : j = k \/ StackPanes(j) \cap StackPanes(k) = {}

HiddenFits(s) == s.hidden \subseteq UNION {StackPanes(k) : k \in s.stacks}

(* Every pane of the tab is a leaf of the tree, and hidden panes are in it.*)
TypeOK == WellFormed(layout)

(* A group is one subtree of the split tree, has two panes or more, and    *)
(* shares no pane with another group (pane_group.rs validate, 1, 2 and 4). *)
GroupsAreSubtrees == GroupsFit(layout)

(* A stack fills one subtree with two units or more, one of which is on    *)
(* show and all others hidden whole; no pane is in two stacks (validate, 3 *)
(* and 4).                                                                 *)
StacksShowOneUnit == StacksFit(layout)

(* Only stacks hide: a pane that is not on show is in a stack, which can   *)
(* be turned to it.  A stack that comes to its end, or whose unit on show  *)
(* goes, leaves no pane behind that nothing would bring back               *)
(* (prune_removed_panes reveals the next).                                 *)
OnlyStacksHide == HiddenFits(layout)
=============================================================================
