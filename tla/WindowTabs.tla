----------------------------- MODULE WindowTabs -----------------------------
(***************************************************************************)
(* The list of tabs of one mux window (mux::window::Window): which tab is  *)
(* active, by position, and which one was active before it, by id.         *)
(*                                                                         *)
(* A window is a record                                                    *)
(*   tabs    the sequence of its tabs                                      *)
(*   active  the position of the active one, counted from 0 as in the code *)
(*   last    the tab that was active before, or None                       *)
(***************************************************************************)
EXTENDS Naturals, SequencesExt

CONSTANTS
  Tab,                \* ids of tabs
  None,               \* no tab
  SwitchToLastActive  \* config: switch_to_last_active_tab_when_closing_tab

EmptyWindow == [tabs |-> <<>>, active |-> 0, last |-> None]

TabsOf(w) == ToSet(w.tabs)

(* get_by_idx *)
TabAt(w, i) == IF i < Len(w.tabs) THEN w.tabs[i + 1] ELSE None

ActiveTab(w) == TabAt(w, w.active)

(* idx_by_id, for a tab of the window. *)
PositionIn(seq, t) == (CHOOSE i \in DOMAIN seq : seq[i] = t) - 1

Push(w, t) == [w EXCEPT !.tabs = Append(@, t)]

(* save_and_then_set_active *)
SaveThenActivate(w, i) ==
  IF i = w.active THEN w ELSE [w EXCEPT !.last = ActiveTab(w), !.active = i]

(* A bug to catch: the tab to go back to is not looked up.                 *)
MovedToNone(w, i) == w.active

(* The position do_remove_idx moves to before it removes the tab at i: the *)
(* last active tab's, if the active one goes and the user asked for that.  *)
MovedTo(w, i) ==
  IF i = w.active /\ SwitchToLastActive /\ w.last \in TabsOf(w)
  THEN PositionIn(w.tabs, w.last) ELSE w.active

(* A bug to catch: the position is kept, whatever moved under it.          *)
FixupByPosition(rest, old, at) ==
  IF rest # <<>> /\ at >= Len(rest) THEN Len(rest) - 1 ELSE at

(* A bug to catch: a position past the end is left there.                  *)
FixupUnclamped(rest, old, at) ==
  IF old \in ToSet(rest) THEN PositionIn(rest, old) ELSE at

(* fixup_active_tab_after_removal: `old` was the active tab, `at` is the   *)
(* active position, `rest` are the tabs that are left.                     *)
Fixup(rest, old, at) ==
  IF old \in ToSet(rest) THEN PositionIn(rest, old)
  ELSE IF rest # <<>> /\ at >= Len(rest) THEN Len(rest) - 1
  ELSE at

(* do_remove_idx *)
RemoveTabAt(w, i) ==
  LET rest == RemoveAt(w.tabs, i + 1)
  IN  [w EXCEPT !.tabs = rest,
                !.active = Fixup(rest, ActiveTab(w), MovedTo(w, i))]

(* remove_by_id *)
RemoveTabById(w, t) ==
  IF t \in TabsOf(w) THEN RemoveTabAt(w, PositionIn(w.tabs, t)) ELSE w

(* The removals of prune_dead_tabs, in the order of the list.              *)
RemoveTabs(w, gone) ==
  LET upTo[i \in 0 .. Len(w.tabs)] ==
        IF i = 0 THEN w
        ELSE IF w.tabs[i] \in gone THEN RemoveTabById(upTo[i - 1], w.tabs[i])
        ELSE upTo[i - 1]
  IN  upTo[Len(w.tabs)]

(* A bug to catch: the tab that moves becomes the one to go back to.       *)
MoveActiveAndSave(w, i) ==
  LET out == RemoveTabAt(w, w.active)
  IN  [out EXCEPT !.tabs = InsertAt(@, i + 1, ActiveTab(w)), !.active = i,
                  !.last = ActiveTab(w)]

(* TermWindow::move_tab: the active tab is taken out and put back at i.    *)
MoveActive(w, i) ==
  LET out == RemoveTabAt(w, w.active)
  IN  [out EXCEPT !.tabs = InsertAt(@, i + 1, ActiveTab(w)), !.active = i]
=============================================================================
