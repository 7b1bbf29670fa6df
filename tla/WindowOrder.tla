---------------------------- MODULE WindowOrder ----------------------------
(***************************************************************************)
(* One window, as the frontend and the mux use it: tabs are added and      *)
(* closed, one by one or in a batch, activated and dragged to another      *)
(* place.                                                                  *)
(***************************************************************************)
EXTENDS WindowTabs

ASSUME WindowAssumption == None \notin Tab /\ SwitchToLastActive \in BOOLEAN

VARIABLE window

Tabs == TabsOf(window)

Positions == 0 .. Len(window.tabs) - 1

(* The tabs that `last` does not name by chance: ids are never reused. *)
UnusedTabs == Tab \ (Tabs \cup {window.last})

WindowInit == window = EmptyWindow

(* spawn_tab_or_window ends so *)
Open(t) ==
  window' = SaveThenActivate(Push(window, t), Len(window.tabs))

(* add_tab_to_window alone: move_pane_to_new_tab, process_pane_list *)
AddBehind(t) == window' = Push(window, t)

(* remove_tab_internal *)
Close(t) == window' = RemoveTabById(window, t)

(* prune_dead_tabs *)
Prune(gone) == window' = RemoveTabs(window, gone)

(* TermWindow::activate_tab *)
Switch(i) == window' = SaveThenActivate(window, i)

(* TermWindow::move_tab *)
Move(i) == window' = MoveActive(window, i)

WindowNext ==
  \/ \E t \in UnusedTabs : Open(t) \/ AddBehind(t)
  \/ \E t \in Tabs : Close(t)
  \/ \E gone \in SUBSET Tabs : Prune(gone)
  \/ \E i \in Positions : Switch(i) \/ Move(i)

WindowSpec == WindowInit /\ [][WindowNext]_window

-----------------------------------------------------------------------------

(* No tab is listed twice, and the active position is that of a tab as     *)
(* long as there is one (else set_active_without_saving would panic).      *)
WindowTypeOK ==
  /\ window.tabs \in Seq(Tab) /\ IsInjective(window.tabs)
  /\ window.last \in Tab \cup {None}
  /\ window.active \in Nat /\ (window.tabs # <<>> => window.active < Len(window.tabs))

(* Closing or pruning other tabs never changes which tab is active,        *)
(* however the positions shift.                                            *)
OthersGoActiveStays ==
  [][Tabs' \subseteq Tabs /\ Tabs' # Tabs /\ ActiveTab(window) \in Tabs'
       => ActiveTab(window)' = ActiveTab(window)]_window

(* Dragging tabs about never loses one, nor changes the tab to go back to. *)
MoveOnlyReorders ==
  [][Tabs' = Tabs /\ window'.tabs # window.tabs
       => /\ ActiveTab(window)' = ActiveTab(window)
          /\ window'.last = window.last]_window

(* "If we are removing the active tab, switch back to the previously       *)
(* active tab" (do_remove_idx), if the user asked for that in the config   *)
(* and that tab stands before the active one.  Behind it, its position is  *)
(* looked up before the tabs move up, and the tab after it becomes active. *)
GoesBack ==
  [][( /\ SwitchToLastActive /\ window.last \in Tabs
       /\ Tabs' = Tabs \ {ActiveTab(window)}
       /\ PositionIn(window.tabs, window.last) < window.active )
     => ActiveTab(window)' = window.last]_window
=============================================================================
