-------------------------------- MODULE Tab --------------------------------
(***************************************************************************)
(* One tab of the mux (mux::tab::TabInner) with its pane groups and stacks *)
(* (mux::pane_group::GroupState): the split tree, the index of the active  *)
(* pane, the zoomed pane, the hidden panes, and the groups and stacks laid *)
(* over the tree.  One action per public method of Tab that changes them;  *)
(* all of them run on the main thread, so an action is a whole call.       *)
(*                                                                         *)
(* Sizes, split directions and titles are left out: where the code picks a *)
(* pane by geometry the model allows every pane that can be picked.  Ids   *)
(* of removed panes are used again, which keeps the model finite.          *)
(***************************************************************************)
EXTENDS PaneTree

CONSTANTS
  None,              \* no pane
  MaxGroups,         \* bound: groups created over the life of the tab
  MaxVictims,        \* bound: panes one removal names
  UnzoomOnSwitch,    \* config.unzoom_on_switch_pane
  HidePanes,         \* whether panes outside stacks are hidden one by one
  SwapByIndex        \* whether the pane selector's swap is used

ASSUME TabAssumption ==
  /\ None \notin Pane
  /\ MaxGroups \in Nat /\ MaxVictims \in Nat \ {0}
  /\ {UnzoomOnSwitch, HidePanes, SwapByIndex} \subseteq BOOLEAN

VARIABLE tab  \* TabInner

GroupId == 0..(MaxGroups - 1)
Unit == [kind : {"pane"}, id : Pane] \cup [kind : {"group"}, id : GroupId]

-----------------------------------------------------------------------------
(* Groups and stacks (pane_group.rs).  `groups` maps an id to its group;   *)
(* a stack is found by the units it holds, so `stacks` is a set.           *)

PaneUnit(p)  == [kind |-> "pane", id |-> p]
GroupUnit(g) == [kind |-> "group", id |-> g]

UnitOf(s, p) ==
  LET with == {g \in DOMAIN s.groups : p \in ToSet(s.groups[g].members)}
  IN  IF with = {} THEN PaneUnit(p) ELSE GroupUnit(Min(with))

UnitPanes(s, u) ==
  IF u.kind = "pane" THEN <<u.id>>
  ELSE IF u.id \in DOMAIN s.groups THEN s.groups[u.id].members
  ELSE <<>>

Stacked(s, u) == \E k \in s.stacks : u \in ToSet(k.units)

StackOf(s, u) == CHOOSE k \in s.stacks : u \in ToSet(k.units)

ShownUnit(k) == k.units[k.active + 1]

CreateGroup(s, members, last) ==
  [s EXCEPT !.groups = [g \in DOMAIN @ \cup {s.next_id} |->
                          IF g = s.next_id THEN [members |-> members, last_active |-> last]
                                           ELSE @[g]],
            !.next_id = @ + 1]

Dissolve(s, g) == [s EXCEPT !.groups = Restrict(@, DOMAIN @ \ {g})]

RenameUnit(s, from, to) ==
  [s EXCEPT !.stacks = {[k EXCEPT !.units = ReplaceAll(@, from, to)] : k \in @}]

NoteActive(s, p) ==
  LET u == UnitOf(s, p)
  IN  IF u.kind = "group" THEN [s EXCEPT !.groups[u.id].last_active = p] ELSE s

(* adopt: a pane split off `existing` joins its unit.  The mutants: one    *)
(* that leaves the group as it was, one that does not tell the stack.      *)
AdoptIntoNoGroup(s, existing, new) ==
  LET u == UnitOf(s, existing)
  IN  IF Stacked(s, u) /\ u.kind = "pane"
      THEN RenameUnit(CreateGroup(s, <<existing, new>>, new), u, GroupUnit(s.next_id))
      ELSE s

AdoptBehindStack(s, existing, new) ==
  LET u == UnitOf(s, existing)
  IN  IF u.kind = "group"
      THEN [s EXCEPT !.groups[u.id].members = Append(@, new)]
      ELSE IF Stacked(s, u)
      THEN CreateGroup(s, <<existing, new>>, new)
      ELSE s

Adopt(s, existing, new) ==
  LET u == UnitOf(s, existing)
  IN  IF u.kind = "group"
      THEN [s EXCEPT !.groups[u.id].members = Append(@, new)]
      ELSE IF Stacked(s, u)
      THEN RenameUnit(CreateGroup(s, <<existing, new>>, new), u, GroupUnit(s.next_id))
      ELSE s

(* A unit leaves its stack; when it was on show, `reveal` names the next.  *)
Vanish(s, gone) ==
  IF ~Stacked(s, gone) THEN [tab |-> s, reveal |-> <<>>] ELSE
  LET k      == StackOf(s, gone)
      pos    == PositionOf(k.units, gone) - 1
      left   == Omit(k.units, gone)
      shows  == pos = k.active /\ left # <<>>
      active == IF shows THEN Min({pos, Len(left) - 1})
                ELSE IF pos < k.active THEN k.active - 1 ELSE k.active
      kept   == IF Len(left) < 2 THEN {} ELSE {[units |-> left, active |-> active]}
  IN  [tab    |-> [s EXCEPT !.stacks = (@ \ {k}) \cup kept],
       reveal |-> IF shows THEN <<left[active + 1]>> ELSE <<>>]

(* GroupState::remove_pane.  The mutant forgets whom the group focuses.    *)
ForgetPaneStillFocused(s, p) ==
  LET u    == UnitOf(s, p)
      left == Omit(UnitPanes(s, u), p)
  IN  CASE left = <<>> ->
             Vanish(IF u.kind = "group" THEN Dissolve(s, u.id) ELSE s, u)
        [] Len(left) = 1 ->
             [tab |-> RenameUnit(Dissolve(s, u.id), u, PaneUnit(left[1])), reveal |-> <<>>]
        [] OTHER ->
             [tab |-> [s EXCEPT !.groups[u.id].members = left], reveal |-> <<>>]

ForgetPane(s, p) ==
  LET u    == UnitOf(s, p)
      left == Omit(UnitPanes(s, u), p)
  IN  CASE left = <<>> ->
             Vanish(IF u.kind = "group" THEN Dissolve(s, u.id) ELSE s, u)
        [] Len(left) = 1 ->
             [tab |-> RenameUnit(Dissolve(s, u.id), u, PaneUnit(left[1])), reveal |-> <<>>]
        [] OTHER ->
             [tab |-> [s EXCEPT !.groups[u.id] =
                         [members |-> left,
                          last_active |-> IF @.last_active = p THEN left[1] ELSE @.last_active]],
              reveal |-> <<>>]

-----------------------------------------------------------------------------
(* Focus, zoom and visibility (tab.rs).                                    *)

ActivePane(s) ==
  IF s.zoomed # None THEN s.zoomed
  ELSE IF s.active < Len(s.tree.order) THEN s.tree.order[s.active + 1]
  ELSE None

(* iter_panes: what is on show, and the first of it in tree order. *)
PanesOnShow(s) ==
  IF s.zoomed # None THEN {s.zoomed} ELSE ToSet(s.tree.order) \ s.hidden

FirstOnShow(s) ==
  IF s.zoomed # None THEN s.zoomed
  ELSE s.tree.order[FirstOf(s.tree.order, PanesOnShow(s))]

ToggleZoomOf(s) ==
  [s EXCEPT !.zoomed = IF @ # None THEN None ELSE ActivePane(s)]

Unzoomed(s) == [s EXCEPT !.zoomed = None]

SetUnitHidden(s, u, hide) ==
  [s EXCEPT !.hidden = IF hide THEN @ \cup ToSet(UnitPanes(s, u))
                               ELSE @ \ ToSet(UnitPanes(s, u))]

(* The mutant leaves the unit that was on show visible. *)
ShowStackUnitOver(s, u) ==
  IF ~Stacked(s, u) THEN s ELSE
  LET k  == StackOf(s, u)
      to == PositionOf(k.units, u) - 1
  IN  [SetUnitHidden(s, u, FALSE) EXCEPT
         !.stacks = (@ \ {k}) \cup {[k EXCEPT !.active = to]}]

ShowStackUnit(s, u) ==
  IF ~Stacked(s, u) THEN s ELSE
  LET k  == StackOf(s, u)
      to == PositionOf(k.units, u) - 1
  IN  IF to = k.active THEN s
      ELSE [SetUnitHidden(SetUnitHidden(s, u, FALSE), ShownUnit(k), TRUE) EXCEPT
              !.stacks = (@ \ {k}) \cup {[k EXCEPT !.active = to]}]

RevealStackedPane(s, p) ==
  IF p \in s.hidden THEN ShowStackUnit(s, UnitOf(s, p)) ELSE s

UnitFocusPane(s, u) ==
  IF u.kind = "pane" THEN u.id
  ELSE IF u.id \in DOMAIN s.groups THEN s.groups[u.id].last_active
  ELSE None

(* set_active_pane, and focus_pane_id, which calls it for a pane it finds. *)
FocusPane(s, p) ==
  IF p \notin Leaves(s.tree) \/ p = ActivePane(s) THEN s
  ELSE IF s.zoomed # None /\ ~UnzoomOnSwitch THEN s
  ELSE LET shown == RevealStackedPane(Unzoomed(s), p)
       IN  NoteActive([shown EXCEPT !.active = PositionOf(shown.tree.order, p) - 1], p)

(* set_active_idx: no look at the zoom, and note_active for whatever pane  *)
(* get_active_pane then returns.                                           *)
FocusIndex(s, i) ==
  LET at     == [RevealStackedPane(s, s.tree.order[i + 1]) EXCEPT !.active = i]
  IN  NoteActive(at, ActivePane(at))

-----------------------------------------------------------------------------
(* Taking panes out of the tree.                                           *)

(* prune_removed_panes, for one pane and for all.  The mutants: one that   *)
(* does not bring the revealed unit back, one that keeps removed panes in  *)
(* the hidden set.                                                         *)
ForgetNextStillHidden(acc, p) ==
  LET r == ForgetPane(acc.tab, p)
  IN  [tab |-> r.tab, reveal |-> acc.reveal \o r.reveal]

ForgetNextUnrevealed(acc, p) ==
  LET r == ForgetPane([acc.tab EXCEPT !.hidden = @ \ {p}], p)
  IN  [tab |-> r.tab, reveal |-> acc.reveal]

ForgetNext(acc, p) ==
  LET r == ForgetPane([acc.tab EXCEPT !.hidden = @ \ {p}], p)
  IN  [tab |-> r.tab, reveal |-> acc.reveal \o r.reveal]

ForgetAll(s, removed) ==
  LET forgot[i \in 0..Len(removed)] ==
        IF i = 0 THEN [tab |-> s, reveal |-> <<>>]
        ELSE ForgetNext(forgot[i - 1], removed[i])
  IN  forgot[Len(removed)]

ShowUnits(s, units) ==
  [s EXCEPT !.hidden = @ \ UNION {ToSet(UnitPanes(s, u)) : u \in ToSet(units)}]

PruneRemoved(s, removed) ==
  LET forgot == ForgetAll(s, removed)
      shown  == ShowUnits(forgot.tab, forgot.reveal)
      next   == IF forgot.reveal = <<>> THEN None
                ELSE UnitFocusPane(shown, Head(forgot.reveal))
      target == IF next # None THEN next ELSE FirstOnShow(shown)
  IN  IF /\ shown.tree # NoTree /\ ActivePane(shown) \in shown.hidden
         /\ next # None \/ PanesOnShow(shown) # {}
      THEN FocusPane(shown, target)
      ELSE shown

(* remove_pane_if, as dock_unit uses it: the groups are left alone.        *)
TakeOut(s, victims) ==
  LET w == Walk(s.tree, victims)
  IN  [s EXCEPT !.tree = w.tree,
                !.active = ActiveAfter(w, @),
                !.zoomed = IF @ \in ToSet(w.dead_panes) THEN None ELSE @]

RemovePaneIf(s, victims) ==
  LET dead == Walk(s.tree, victims).dead_panes
      out  == TakeOut(s, victims)
  IN  IF dead = <<>> THEN out ELSE PruneRemoved(out, dead)

(* dock_unit *)
CanDock(s, source, target) ==
  /\ s.zoomed = None
  /\ target \in s.tree.sets
  /\ ToSet(source) \cap target = {}

DockUnit(s, source, target, second) ==
  LET out[i \in 0..Len(source)] ==
        IF i = 0 THEN s ELSE TakeOut(out[i - 1], {source[i]})
  IN  FocusPane([out[Len(source)] EXCEPT !.tree = PairWith(@, target, source, second)],
                Head(source))

(* split_and_insert, the checks on the caller's side already passed and    *)
(* the resizes of the two panes done.  (They are assumed to succeed: the   *)
(* tree is taken out of the tab before them, so that an error would lose   *)
(* it whole.)                                                              *)
SplitAndInsert(s, p, new, second, top) ==
  LET count == Len(s.tree.order)
      at    == PositionOf(s.tree.order, p) - 1
  IN  IF top /\ count > 1
      THEN [s EXCEPT !.tree = SplitRoot(@, new, second),
                     !.active = IF second THEN count ELSE 0]
      ELSE Adopt([s EXCEPT !.tree = SplitLeaf(@, p, new, second),
                           !.active = IF second THEN at + 1 ELSE @], p, new)

-----------------------------------------------------------------------------

Init == \E p \in Pane :
  tab = [tree |-> LeafTree(p), active |-> 0, zoomed |-> None, hidden |-> {},
         groups |-> <<>>, stacks |-> {}, next_id |-> 0]

Ids == Leaves(tab.tree)
Fresh == Pane \ Ids

(* The bound on the calls that may create a group.                         *)
GroupsBounded == tab'.next_id <= MaxGroups

(* compute_split_size, which a split calls before it spawns the new pane.  *)
PrepareSplit ==
  /\ tab.zoomed # None
  /\ tab' = Unzoomed(tab)

(* The split itself, after the spawn: it bails when the tab was zoomed in  *)
(* the meantime or the pane is hidden, and otherwise may find no space.    *)
SplitPane(p, new, second, top) ==
  /\ tab.zoomed = None
  /\ top \/ p \notin tab.hidden
  /\ tab' = SplitAndInsert(tab, p, new, second, top)
  /\ GroupsBounded

(* kill_pane, remove_pane (one pane), prune_dead_panes and                 *)
(* kill_panes_in_domain (any number).                                      *)
RemovePanes(victims) == tab' = RemovePaneIf(tab, victims)

SetActivePane(p) == tab' = FocusPane(tab, p)

SetActiveIdx(i) == tab' = FocusIndex(tab, i)

(* activate_pane_direction: a neighbour on show or, when the active pane   *)
(* is not itself on show, index 0 ("No active pane somehow...").           *)
ActivatePaneDirection(i) ==
  /\ tab.zoomed # None => UnzoomOnSwitch
  /\ LET s == Unzoomed(tab)
     IN  /\ IF ActivePane(s) \in PanesOnShow(s)
            THEN s.tree.order[i + 1] \notin s.hidden
            ELSE i = 0
         /\ tab' = FocusIndex(s, i)

ToggleZoom == tab' = ToggleZoomOf(tab)

(* The panes group_panes and group_with may find beside the active one.    *)
Neighbours ==
  IF ActivePane(tab) = None THEN {}
  ELSE IF ActivePane(tab) \in PanesOnShow(tab)
  THEN PanesOnShow(tab) \ {ActivePane(tab)}
  ELSE {Head(tab.tree.order)} \ tab.hidden

(* group_units *)
GroupWith(p, second) ==
  LET active == ActivePane(tab)
      a == UnitOf(tab, active)
      b == UnitOf(tab, p)
      members == UnitPanes(tab, a) \o UnitPanes(tab, b)
      adjacent == ToSet(members) \in tab.tree.sets
      placed == IF adjacent THEN tab
                ELSE DockUnit(tab, UnitPanes(tab, a), ToSet(UnitPanes(tab, b)), second)
      loose  == [placed EXCEPT !.groups =
                   Restrict(@, {g \in DOMAIN @ : GroupUnit(g) \notin {a, b}})]
  IN  /\ tab.zoomed = None
      /\ a # b /\ ~Stacked(tab, a) /\ ~Stacked(tab, b)
      /\ adjacent \/ CanDock(tab, UnitPanes(tab, a), ToSet(UnitPanes(tab, b)))
      /\ tab' = FocusPane(CreateGroup(loose, members, active), active)
      /\ GroupsBounded

UngroupActive ==
  LET u == UnitOf(tab, ActivePane(tab))
  IN  /\ u.kind = "group" /\ ~Stacked(tab, u)
      /\ tab' = Dissolve(tab, u.id)

(* stack_units *)
StackWith(p) ==
  LET a == UnitOf(tab, ActivePane(tab))
      b == UnitOf(tab, p)
      docked == DockUnit(tab, UnitPanes(tab, a), ToSet(UnitPanes(tab, b)), TRUE)
      joined == IF Stacked(tab, b)
                THEN [units  |-> Append(StackOf(tab, b).units, a),
                      active |-> Len(StackOf(tab, b).units)]
                ELSE [units |-> <<b, a>>, active |-> 1]
      others == {k \in tab.stacks : b \notin ToSet(k.units)}
      hidden == SetUnitHidden([docked EXCEPT !.stacks = others \cup {joined}], b, TRUE)
  IN  /\ tab.zoomed = None
      /\ a # b /\ ~Stacked(tab, a)
      /\ CanDock(tab, UnitPanes(tab, a), ToSet(UnitPanes(tab, b)))
      /\ tab' = FocusPane(hidden, UnitFocusPane(hidden, a))

StackCycle(forward) ==
  LET u == UnitOf(tab, ActivePane(tab))
  IN  /\ Stacked(tab, u)
      /\ LET k     == StackOf(tab, u)
             count == Len(k.units)
             to    == (k.active + (IF forward THEN 1 ELSE count - 1)) % count
             new   == k.units[to + 1]
             shown == ShowStackUnit(Unzoomed(tab), new)
         IN  tab' = FocusPane(shown, UnitFocusPane(shown, new))

(* toggle_pane_hidden: a stacked pane comes on show with its unit.         *)
ShowStackedPane(p) ==
  LET u     == UnitOf(tab, p)
      shown == ShowStackUnit(tab, u)
  IN  /\ p \in tab.hidden /\ Stacked(tab, u)
      /\ shown # tab
      /\ tab' = FocusPane(shown, UnitFocusPane(shown, u))

UnhidePane(p) ==
  /\ p \in tab.hidden /\ ~Stacked(tab, UnitOf(tab, p))
  /\ tab' = [tab EXCEPT !.hidden = @ \ {p}]

HidePane(p) ==
  LET others == Ids \ (tab.hidden \cup {p})
      moved  == [tab EXCEPT !.active = IF ActivePane(tab) = p
                                       THEN FirstOf(tab.tree.order, others) - 1
                                       ELSE @]
  IN  /\ HidePanes
      /\ p \notin tab.hidden /\ ~Stacked(tab, UnitOf(tab, p))
      /\ others # {}
      /\ tab' = [IF tab.zoomed = p THEN ToggleZoomOf(moved) ELSE moved
                   EXCEPT !.hidden = @ \cup {p}]

HasGroups(s) == DOMAIN s.groups # {} \/ s.stacks # {}

(* rotate_clockwise and rotate_counter_clockwise: every slot takes the     *)
(* pane of the slot before (after) it, hidden or not; the active index     *)
(* stays.                                                                  *)
Rotate(clockwise) ==
  LET order == tab.tree.order
      n     == Len(order)
      to(p) == LET i == PositionOf(order, p)
               IN  order[IF clockwise THEN IF i = 1 THEN n ELSE i - 1
                                      ELSE IF i = n THEN 1 ELSE i + 1]
  IN  /\ ~HasGroups(tab)
      /\ tab' = [tab EXCEPT !.tree = Relabel(@, [p \in Ids |-> to(p)])]

SwapPanesOf(s, a, b) ==
  LET was  == ActivePane(s)
      tree == Exchange(s.tree, a, b)
  IN  [s EXCEPT !.tree = tree,
                !.active = IF was = None THEN @ ELSE PositionOf(tree.order, was) - 1]

SwapPanes(a, b) ==
  /\ PositionOf(tab.tree.order, a) < PositionOf(tab.tree.order, b)
  /\ tab.zoomed = None /\ tab.hidden = {}
  /\ UnitOf(tab, a).kind = "pane" /\ UnitOf(tab, b).kind = "pane"
  /\ tab' = SwapPanesOf(tab, a, b)

(* swap_active_with_index; the pane selector has unzoomed the tab.         *)
SwapActiveWithIndex(i, keep_focus) ==
  LET active  == ActivePane(tab)
      other   == tab.tree.order[i + 1]
      swapped == [tab EXCEPT !.tree = Exchange(@, active, other)]
  IN  /\ SwapByIndex
      /\ tab.zoomed = None /\ active # None /\ other \notin tab.hidden
      /\ tab' = IF keep_focus THEN FocusIndex(swapped, i) ELSE swapped

(* focus_layout: with the tree already in the focus shape the main pane    *)
(* and p trade places; otherwise p becomes the main pane of a new tree     *)
(* that chains the others.  When p is the main pane already, or there is   *)
(* no room, the tab is just unzoomed.                                      *)
FocusLayout(p) ==
  LET s    == Unzoomed(tab)
      main == Head(s.tree.order)
      rest == Omit(s.tree.order, p)
      fresh == PairWith(LeafTree(p), {p}, rest, TRUE)
  IN  /\ tab.hidden = {} /\ ~HasGroups(tab)
      /\ \/ /\ Ids \ {main} \in s.tree.sets /\ p # main
            /\ tab' = [SwapPanesOf(s, main, p) EXCEPT !.active = 0]
         \/ /\ rest # <<>>
            /\ tab' = [s EXCEPT !.tree = fresh, !.active = 0]
         \/ tab' = s

(* Tab::dock_pane: take the pane out, split the target for it, focus it.   *)
(* If the target cannot be split after all, the pane is put back as second *)
(* beside the first one on show, and not focused.  (When that fails too,   *)
(* the pane is gone from the tab, as after RemovePanes.)  The call takes   *)
(* the mutex more than once, but nothing else runs on the main thread      *)
(* meanwhile, where all calls that change a tab are made.                  *)
DockPane(source, target, second) ==
  /\ source # target /\ tab.zoomed = None
  /\ {source, target} \cap tab.hidden = {}
  /\ \E out \in {RemovePaneIf(tab, {source})}, restored \in BOOLEAN :
       /\ restored => second /\ PanesOnShow(out) # {}
       /\ \E s \in {SplitAndInsert(out, IF restored THEN FirstOnShow(out) ELSE target,
                                   source, second, FALSE)} :
            tab' = IF restored THEN s ELSE FocusPane(s, source)
  /\ GroupsBounded

(* On a tab without panes none of them does anything. *)
Next ==
  \/ PrepareSplit
  \/ \E p \in Ids, new \in Fresh, second, top \in BOOLEAN : SplitPane(p, new, second, top)
  \/ \E victims \in SUBSET Ids :
        Cardinality(victims) \in 1..MaxVictims /\ RemovePanes(victims)
  \/ \E p \in Ids : \/ SetActivePane(p) \/ ShowStackedPane(p) \/ UnhidePane(p)
                    \/ HidePane(p) \/ FocusLayout(p) \/ SetActiveIdx(PositionOf(tab.tree.order, p) - 1)
                    \/ ActivatePaneDirection(PositionOf(tab.tree.order, p) - 1)
  \/ ToggleZoom
  \/ \E p \in Neighbours : StackWith(p) \/ \E second \in BOOLEAN : GroupWith(p, second)
  \/ UngroupActive
  \/ \E forward \in BOOLEAN : StackCycle(forward) \/ Rotate(forward)
  \/ \E a, b \in Ids : SwapPanes(a, b) \/ \E second \in BOOLEAN : DockPane(a, b, second)
  \/ \E i \in 0..(Len(tab.tree.order) - 1), keep \in BOOLEAN : SwapActiveWithIndex(i, keep)

Spec == Init /\ [][Next]_tab

-----------------------------------------------------------------------------

(* The tab holds what its fields name: a proper tree, a zoomed pane and    *)
(* hidden panes that are in it (retain and remove_pane_if drop the others),*)
(* groups whose members are in it, ids below the counter.                  *)
TypeOK ==
  /\ tab.tree.sets \subseteq SUBSET Pane /\ tab.tree.order \in Seq(Pane)
  /\ IsTree(tab.tree)
  /\ tab.active \in Nat
  /\ tab.zoomed \in Ids \cup {None}
  /\ tab.hidden \subseteq Ids
  /\ tab.next_id \in 0..MaxGroups
  /\ \A g \in DOMAIN tab.groups :
        g < tab.next_id /\ tab.groups[g].members \in Seq(Ids)
  /\ \A k \in tab.stacks : k.units \in Seq(Unit) /\ k.active \in Nat

(***************************************************************************)
(* The invariants of GroupState::validate (pane_group.rs), which           *)
(* debug_validate_groups runs after every change of the groups.            *)
(***************************************************************************)
Members(g) == ToSet(tab.groups[g].members)
UnitSet(u) == ToSet(UnitPanes(tab, u))
StackPanes(k) == UNION {UnitSet(u) : u \in ToSet(k.units)}

(* 1, 2 and half of 4: a group has two members or more, which are the      *)
(* leaves of one subtree of the split tree and of no other group.          *)
GroupsAreSubtrees ==
  /\ \A g \in DOMAIN tab.groups :
       /\ Len(tab.groups[g].members) >= 2 /\ IsInjective(tab.groups[g].members)
       /\ Members(g) \in tab.tree.sets
  /\ \A g, h \in DOMAIN tab.groups : g # h => Members(g) \cap Members(h) = {}

(* 3 and the other half of 4: the units of a stack share one subtree,      *)
(* exactly the active one is on show, the others are hidden whole, and no  *)
(* unit is in two stacks.  (For panes that go one at a time, MaxVictims =  *)
(* 1, none hidden by itself and none swapped by index alone.)              *)
StacksShowOneUnit ==
  /\ \A k \in tab.stacks :
       /\ Len(k.units) >= 2 /\ IsInjective(k.units)
       /\ k.active < Len(k.units)
       /\ StackPanes(k) \in tab.tree.sets
       /\ \A u \in ToSet(k.units) :
            /\ UnitSet(u) # {}
            /\ IF u = ShownUnit(k) THEN UnitSet(u) \cap tab.hidden = {}
                                   ELSE UnitSet(u) \subseteq tab.hidden
  /\ \A j, k \in tab.stacks : j # k => StackPanes(j) \cap StackPanes(k) = {}

(* Every unit named by a stack exists: it is a group, or a pane that is in *)
(* no group.                                                               *)
StacksNameUnits ==
  \A k \in tab.stacks : \A u \in ToSet(k.units) :
    \A p \in UnitSet(u) : UnitOf(tab, p) = u

(* Input always has a pane to go to: while the tab has panes the active    *)
(* index, or the zoomed pane, names one of them.  (For panes that go one   *)
(* at a time, MaxVictims = 1: several may leave the index past the end.)   *)
ActiveNamesPane == tab.tree # NoTree => ActivePane(tab) # None

(* Closing a pane never takes the focus from another pane, as long as that *)
(* one is on show.                                                         *)
FocusSurvivesClose ==
  [][\A p \in Ids \ {ActivePane(tab)} :
        ActivePane(tab) \notin tab.hidden /\ RemovePanes({p}) =>
          ActivePane(tab') = ActivePane(tab)]_tab

(* A group gives focus to one of its own members.                          *)
GroupFocusIsMember ==
  \A g \in DOMAIN tab.groups : tab.groups[g].last_active \in Members(g)

-----------------------------------------------------------------------------

(***************************************************************************)
(* The promise of module PaneGroups, kept by every method: forget the      *)
(* order of the panes, the indices and the ids, and each call is one step  *)
(* of that specification or leaves the layout alone, as long as panes go   *)
(* one at a time, none is hidden by itself and none swapped by index.      *)
(* (Promise!Spec, with the steps that leave the layout alone told apart    *)
(* first, for TLC.)                                                        *)
(***************************************************************************)
GroupLayout ==
  [subtrees |-> tab.tree.sets,
   hidden   |-> tab.hidden,
   groups   |-> {Members(g) : g \in DOMAIN tab.groups},
   stacks   |-> {[units |-> {UnitSet(u) : u \in ToSet(k.units)},
                  shown |-> UnitSet(ShownUnit(k))] : k \in tab.stacks}]

Promise == INSTANCE PaneGroups WITH layout <- GroupLayout

KeepsPromise ==
  Promise!Init /\ [][GroupLayout' # GroupLayout => Promise!Next]_tab
=============================================================================
